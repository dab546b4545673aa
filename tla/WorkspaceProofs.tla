---------------------------- MODULE WorkspaceProofs ----------------------------
(***************************************************************************)
(* One workspace directory under any lineage, feed and schedule of         *)
(* commands and deaths, in three parts.                                    *)
(*                                                                         *)
(* 1. WInv is inductive: the types, the rows of the store are records of   *)
(* the ledger (RowsAreRecorded), and what each process holds in memory     *)
(* fits where it has got to (Grounded).  EInv adds the order of the        *)
(* writebacks, part of which (Orderly) lasts only until two commands race  *)
(* for a file: what a process is about to replace is then no longer what   *)
(* it looked at (Current), a receipt is signed over, and a lost entry      *)
(* leaves a consumed checkpoint without one.                               *)
(*                                                                         *)
(* 2. Until then a workspace implements the lifecycle of an erratum.  The  *)
(* checkpoint file of an unseen erratum is Gate, the start of a repair     *)
(* Begin, the end of the last process that repairs it Fail, its registry   *)
(* entry Attest.  Beside the order of the writebacks this needs that       *)
(* commands only ever touch the event the feed has first at its sequence,  *)
(* at most one past the applied ones, and that every sequence up to the    *)
(* last applied one is attested (RInv).  The promise of the lifecycle,     *)
(* InFeedOrder, follows from the same facts.                               *)
(*                                                                         *)
(* 3. What is served, of directories whose lines have one home each.       *)
(***************************************************************************)
EXTENDS Workspace, WellFoundedInduction, TLAPS

-----------------------------------------------------------------------------
\* Facts about the operators.

LEMMA MinExists ==
    ASSUME NEW S \in SUBSET Nat, S # {}
    PROVE  Min(S) \in S /\ \A y \in S : Min(S) <= y
<1> DEFINE R == {w \in Nat \X Nat : w[1] < w[2]}
<1>1. IsWellFoundedOn(R, Nat)
  BY NatLessThanWellFounded DEF OpToRel
<1> HIDE DEF R
<1>2. PICK x \in S : \A y \in S : ~(<<y, x>> \in R)
  BY <1>1, WFMin
<1>3. ASSUME NEW y \in S PROVE x <= y
  <2>1. ~(<<y, x>>[1] < <<y, x>>[2])
    BY <1>2 DEF R
  <2> QED
    BY <2>1
<1> QED
  BY <1>3 DEF Min

\* A nonempty set of numbers with a bound has a largest one: the least bound.
LEMMA MaxExists ==
    ASSUME NEW S \in SUBSET Nat, S # {}, NEW n \in Nat, \A x \in S : x <= n
    PROVE  Max(S) \in S /\ \A y \in S : Max(S) >= y
<1> DEFINE B == {b \in Nat : \A x \in S : x <= b}
<1>1. Min(B) \in B /\ \A b \in B : Min(B) <= b
  BY MinExists
<1> DEFINE m == Min(B)
<1> HIDE DEF m
<1>2. m \in Nat /\ \A x \in S : x <= m
  BY <1>1 DEF m
<1>3. m \in S
  <2> SUFFICES ASSUME m \notin S PROVE FALSE
    OBVIOUS
  <2>1. PICK x \in S : TRUE
    OBVIOUS
  <2>2. \A y \in S : y <= m - 1
    BY <1>2
  <2>3. m - 1 \in Nat
    BY <1>2, <2>1, <2>2
  <2>4. m - 1 \in B
    BY <2>2, <2>3
  <2> QED
    BY <1>1, <1>2, <2>4 DEF m
<1> QED
  BY <1>2, <1>3 DEF Max

Ids == {lineage[n].id : n \in DOMAIN lineage}

\* Whatever lines were appended, what load_lineage returns is a ledger of them.
LEMMA LoadedLedgerType ==
    ASSUME TypeOK
    PROVE  /\ LoadedLedger \in Ledger
           /\ Known(LoadedLedger) = Ids
           /\ LineageLoads => \A a \in Ids : LoadedLedger[a].inputs \subseteq Ids
           /\ \A a \in Ids : \E x \in Line :
                 /\ x.id = a /\ LoadedLedger[a].root = x.root
                 /\ LoadedLedger[a].inputs = x.inputs /\ LoadedLedger[a].content = x.content
<1> DEFINE l == LoadedLedger
           lines(a) == {n \in DOMAIN lineage : lineage[n].id = a}
           last(a) == Max(lines(a))
<1>1. lineage \in Seq(Line) /\ Line \subseteq LineageLine
  BY WorkspaceAssumption DEF TypeOK
<1>2. DOMAIN lineage = 1..Len(lineage) /\ Len(lineage) \in Nat
  BY <1>1
<1>3. \A n \in DOMAIN lineage : lineage[n] \in LineageLine
  BY <1>1
<1>4. ASSUME NEW a \in ArtifactId, lines(a) # {} PROVE last(a) \in lines(a)
  <2>1. lines(a) \in SUBSET Nat /\ \A n \in lines(a) : n <= Len(lineage)
    BY <1>2
  <2> HIDE DEF lines
  <2> QED
    BY <1>2, <1>4, <2>1, MaxExists
<1>5. \A a \in ArtifactId :
          l[a] = IF lines(a) = {} THEN None
                 ELSE [root    |-> lineage[last(a)].root,
                       inputs  |-> lineage[last(a)].inputs,
                       content |-> lineage[last(a)].content]
  BY DEF LoadedLedger
<1>6. /\ DOMAIN l = ArtifactId /\ l = [a \in ArtifactId |-> l[a]]
      /\ \A a : a \in Ids <=> lines(a) # {}
      /\ \A a, n : n \in lines(a) <=> n \in DOMAIN lineage /\ lineage[n].id = a
  BY DEF LoadedLedger, Ids
<1> HIDE DEF l, last, lines
<1>7. ASSUME NEW a \in ArtifactId, lines(a) # {}
      PROVE  /\ last(a) \in DOMAIN lineage /\ lineage[last(a)] \in LineageLine
             /\ l[a].inputs = lineage[last(a)].inputs
             /\ l[a] \in ArtifactRecord /\ l[a] # None
  <2>1. last(a) \in DOMAIN lineage /\ lineage[last(a)] \in LineageLine
    BY <1>3, <1>4, <1>6, <1>7
  <2>2. l[a] = [root    |-> lineage[last(a)].root,
                inputs  |-> lineage[last(a)].inputs,
                content |-> lineage[last(a)].content]
    BY <1>5, <1>7
  <2>3. l[a] \in ArtifactRecord
    BY <2>1, <2>2 DEF LineageLine, ArtifactRecord
  <2> QED
    BY <2>1, <2>2, <2>3, LineageAssumption
<1>8. l \in Ledger
  <2>1. \A a \in ArtifactId : l[a] \in {None} \cup ArtifactRecord
    BY <1>5, <1>7
  <2> QED
    BY <1>6, <2>1 DEF Ledger
<1>9. Known(l) = Ids
  <2>1. Ids \subseteq ArtifactId
    BY <1>3 DEF Ids, LineageLine
  <2> QED
    BY <1>5, <1>6, <1>7, <2>1 DEF Known
<1>10. ASSUME LineageLoads, NEW a \in Ids PROVE l[a].inputs \subseteq Ids
  <2>1. a \in ArtifactId /\ lines(a) # {}
    BY <1>6, <1>9 DEF Known
  <2>2. l[a].inputs = lineage[last(a)].inputs /\ last(a) \in 1..Len(lineage)
    BY <1>2, <1>7, <2>1
  <2>3. lineage[last(a)].inputs \subseteq {lineage[m].id : m \in 1..(last(a) - 1)}
    BY <1>2, <1>10, <2>2 DEF LineageLoads
  <2>4. \A m \in 1..(last(a) - 1) : m \in DOMAIN lineage
    BY <1>2, <2>2
  <2> QED
    BY <2>2, <2>3, <2>4 DEF Ids
<1>11. ASSUME NEW a \in Ids
       PROVE  \E x \in Line : /\ x.id = a /\ l[a].root = x.root
                              /\ l[a].inputs = x.inputs /\ l[a].content = x.content
  <2>1. a \in ArtifactId /\ lines(a) # {}
    BY <1>6, <1>9 DEF Known
  <2>2. last(a) \in lines(a)
    BY <1>4, <2>1
  <2>3. last(a) \in DOMAIN lineage /\ lineage[last(a)].id = a
    BY <1>6, <2>2
  <2>4. lineage[last(a)] \in Line
    BY <1>1, <2>3
  <2>5. l[a] = [root    |-> lineage[last(a)].root,
                inputs  |-> lineage[last(a)].inputs,
                content |-> lineage[last(a)].content]
    BY <1>5, <2>1
  <2>6. /\ l[a].root = lineage[last(a)].root /\ l[a].inputs = lineage[last(a)].inputs
        /\ l[a].content = lineage[last(a)].content
    BY <2>5
  <2> QED
    BY <2>3, <2>4, <2>6
<1> QED
  BY <1>8, <1>9, <1>10, <1>11 DEF l

\* The event a command picks is the first of the feed above what is applied, and
\* one it may observe is the next in sequence.
LEMMA NextPendingIsFirst ==
    ASSUME TypeOK, Pending # {}
    PROVE  /\ NextPending \in Event
           /\ \E n \in DOMAIN feed :
                 /\ feed[n] = NextPending /\ n \in Pending
                 /\ \A m \in 1..(n - 1) : m \in DOMAIN feed /\ m \notin Pending
<1>1. feed \in Seq(Event) /\ DOMAIN feed = 1..Len(feed) /\ Len(feed) \in Nat
  BY DEF TypeOK
<1>2. Pending \subseteq DOMAIN feed
  BY DEF Pending
<1>3. Min(Pending) \in Pending /\ \A n \in Pending : Min(Pending) <= n
  BY <1>1, <1>2, MinExists
<1> DEFINE n == Min(Pending)
<1> HIDE DEF n
<1>4. n \in DOMAIN feed /\ n \in Pending /\ feed[n] = NextPending
  BY <1>2, <1>3 DEF n, NextPending
<1>5. \A m \in 1..(n - 1) : m \in DOMAIN feed /\ m \notin Pending
  BY <1>1, <1>3, <1>4 DEF n
<1> QED
  BY <1>1, <1>4, <1>5

LEMMA ObservableIsNext ==
    ASSUME TypeOK, NEW e, Observable(e, LoadedLedger)
    PROVE  e.root \in Root /\ e.seq = LastApplied + 1
<1>1. ~LeavesGap(e, LastApplied) /\ WellFormed(e, RootsSeen(LoadedLedger))
  BY DEF Observable, Verdict
<1>2. RootsSeen(LoadedLedger) \subseteq Root
  BY LoadedLedgerType DEF RootsSeen, Known, Ledger, ArtifactRecord
<1> QED
  BY <1>1, <1>2 DEF LeavesGap, WellFormed

LEMMA DescendantsAreKnown ==
    ASSUME NEW l, NEW r
    PROVE  Descendants(l, r) \subseteq Known(l)
  BY DEF Descendants, DirectlyFrom, Derived

-----------------------------------------------------------------------------
\* Types of what the operators return.

Database == [ArtifactId -> {None} \cup Row]

LEMMA RowsHaveRecords ==
    ASSUME NEW db \in Database
    PROVE  /\ Rows(db) \subseteq ArtifactId
           /\ \A a \in Rows(db) : db[a] \in Row
           /\ \A a \in ArtifactId : db[a] \in Row => a \in Rows(db)
  BY WorkspaceAssumption DEF Rows, Database

LEMMA SyncedType ==
    ASSUME TypeOK, NEW l \in Ledger
    PROVE  /\ Synced(l) \in Database
           /\ Rows(Synced(l)) = Rows(row) \cup Known(l)
           /\ \A a \in Rows(row) : Synced(l)[a] = row[a]
           /\ \A a \in Known(l) \ Rows(row) :
                 /\ Synced(l)[a].inputs = l[a].inputs
                 /\ ~Synced(l)[a].retired
<1>1. row \in Database
  BY DEF TypeOK, Database
<1>2. ASSUME NEW a \in Known(l) \ Rows(row)
      PROVE  /\ Synced(l)[a] \in Row /\ Synced(l)[a].inputs = l[a].inputs
             /\ ~Synced(l)[a].retired
  <2>1. a \in ArtifactId /\ l[a] \in ArtifactRecord /\ l[a] # None /\ row[a] = None
    BY DEF Known, Ledger, Rows
  <2>2. Synced(l)[a] = [content |-> l[a].content, inputs |-> l[a].inputs,
                        quarantined |-> FALSE, retired |-> FALSE, rebuilt |-> FALSE]
    BY <2>1 DEF Synced
  <2> QED
    BY <2>1, <2>2 DEF Row, ArtifactRecord
<1>3. \A a \in ArtifactId : a \in Rows(row) \/ a \notin Known(l) => Synced(l)[a] = row[a]
  BY DEF Synced, Rows, Known
<1>4. DOMAIN Synced(l) = ArtifactId /\ Synced(l) = [a \in ArtifactId |-> Synced(l)[a]]
  BY DEF Synced
<1>5. \A a \in ArtifactId : Synced(l)[a] \in {None} \cup Row
  BY <1>1, <1>2, <1>3 DEF Database
<1>6. Synced(l) \in Database
  BY <1>4, <1>5 DEF Database
<1>7. Rows(Synced(l)) = Rows(row) \cup Known(l)
  BY <1>2, <1>3, WorkspaceAssumption DEF Rows, Known
<1> QED
  BY <1>2, <1>3, <1>6, <1>7 DEF Rows

LEMMA StateType ==
    ASSUME NEW db \in Database, NEW l \in Ledger
    PROVE  InspectableState(db, l) \in StateRoot
<1>1. \A a \in ArtifactId : l[a] # None => l[a].content \in Text
  BY DEF Ledger, ArtifactRecord
<1>2. \A a \in ArtifactId : db[a] # None => db[a].content \in {None} \cup Text
  BY DEF Database, Row
<1> QED
  BY <1>1, <1>2 DEF InspectableState, StateRoot, Contents

LEMMA CoverageTypes ==
    /\ \A complete, descendants, gated :
          QuarantineCoverage(complete, descendants, gated) \in CoverageResult
    /\ \A descendants, disposed : DispositionCoverage(descendants, disposed) \in CoverageResult
    /\ \A c \in CoverageResult : \A limited : CheckpointCoverage(c, limited) \in CoverageResult
    /\ \A c, d \in CoverageResult : ConservativeCoverage(c, d) \in CoverageResult
    /\ \A stores, triad : AggregateCoverage(stores, triad) \in CoverageResult
  BY DEF QuarantineCoverage, DispositionCoverage, CheckpointCoverage,
         ConservativeCoverage, AggregateCoverage, CoverageResult

LEMMA ReceiptType ==
    ASSUME NEW me, me.event \in Event, me.ledger \in Ledger, me.checkpoint \in Checkpoint,
           row \in Database, NEW scan
    PROVE  ReceiptOf(me, scan) \in Receipt /\ ReceiptOf(me, scan).event = me.event
<1> DEFINE e == me.event
           sqlite == ConservativeCoverage(me.checkpoint.coverage, FinalCoverage(me, scan))
           stores == [s \in {"sqlite"} \cup (IF OpaqueStore THEN {"prompt_cache"} ELSE {}) |->
                         IF s = "sqlite" THEN sqlite ELSE "unknown"]
           dispositions == [a \in Enumerate(row, me.ledger, e.root) |-> DispositionOf(row[a])]
<1>1. me.checkpoint.state \in StateRoot /\ me.checkpoint.coverage \in CoverageResult
  BY DEF Checkpoint
<1>2. InspectableState(row, me.ledger) \in StateRoot
  BY StateType
<1>3. dispositions \in MapsFrom(ArtifactId, Disposition)
  <2>1. Enumerate(row, me.ledger, e.root) \subseteq ArtifactId
    BY DEF Enumerate, Rows
  <2>2. \A r : DispositionOf(r) \in Disposition
    BY DEF DispositionOf, Disposition
  <2>3. dispositions \in [Enumerate(row, me.ledger, e.root) -> Disposition]
    BY <2>2
  <2> HIDE DEF dispositions
  <2> QED
    BY <2>1, <2>3 DEF MapsFrom
<1>4. stores \in MapsFrom({"sqlite", "prompt_cache"}, CoverageResult)
  <2>1. FinalCoverage(me, scan) \in CoverageResult
    BY CoverageTypes DEF FinalCoverage, CoverageResult
  <2>2. sqlite \in CoverageResult
    BY <1>1, <2>1, CoverageTypes
  <2> HIDE DEF sqlite
  <2> DEFINE names == {"sqlite"} \cup (IF OpaqueStore THEN {"prompt_cache"} ELSE {})
  <2>3. stores \in [names -> CoverageResult]
    BY <2>2 DEF CoverageResult
  <2>4. names \in SUBSET {"sqlite", "prompt_cache"}
    OBVIOUS
  <2> HIDE DEF names, stores
  <2> QED
    BY <2>3, <2>4 DEF MapsFrom
<1>5. Triad(e) \in MapsFrom({"negative", "positive", "preserve"}, BOOLEAN)
  <2> DEFINE legs == {"negative", "preserve"} \cup
                     (IF e.op = "erase" THEN {} ELSE {"positive"})
  <2>1. Triad(e) \in [legs -> BOOLEAN]
    BY DEF Triad, Recalls
  <2>2. legs \in SUBSET {"negative", "positive", "preserve"}
    OBVIOUS
  <2> HIDE DEF legs
  <2> QED
    BY <2>1, <2>2 DEF MapsFrom
<1>6. AggregateCoverage(stores, Triad(e)) \in CoverageResult
  BY CoverageTypes
<1>7. ReceiptOf(me, scan) =
        [event |-> e, pre |-> me.checkpoint.state,
         post |-> InspectableState(row, me.ledger),
         dispositions |-> dispositions, stores |-> stores, triad |-> Triad(e),
         aggregate |-> AggregateCoverage(stores, Triad(e)),
         scanned |-> me.captured # {}]
  BY DEF ReceiptOf
<1>8. e \in Event /\ e = me.event
  OBVIOUS
<1> HIDE DEF e, stores, dispositions
<1> QED
  BY <1>1, <1>2, <1>3, <1>4, <1>5, <1>6, <1>7, <1>8 DEF Receipt

\* A rebuilt text is a text.
LEMMA JoinedTextType ==
    ASSUME NEW l \in Ledger, NEW inputs \in SUBSET Known(l),
           NEW replacement \in Prop \cup {None}
    PROVE  JoinedText(l, inputs, replacement) \in Text
<1>1. \A a \in inputs : l[a].content \subseteq Prop
  BY DEF Known, Ledger, ArtifactRecord, Text
<1> QED
  BY <1>1 DEF JoinedText, Text

\* Writing a content keeps a ledger and what it knows.
LEMMA SetContentType ==
    ASSUME NEW l \in Ledger, NEW a \in Known(l), NEW c \in Text
    PROVE  SetContent(l, a, c) \in Ledger /\ Known(SetContent(l, a, c)) = Known(l)
<1>1. l[a] \in ArtifactRecord /\ a \in ArtifactId
  BY DEF Known, Ledger
<1>2. [l[a] EXCEPT !.content = c] \in ArtifactRecord
  BY <1>1 DEF ArtifactRecord
<1>3. SetContent(l, a, c) = [l EXCEPT ![a] = [l[a] EXCEPT !.content = c]]
  BY DEF SetContent
<1> QED
  BY <1>1, <1>2, <1>3, LineageAssumption DEF Ledger, Known

-----------------------------------------------------------------------------
\* The invariant.

RowsAreRecorded ==
    \A a \in Rows(row) :
        /\ a \in Ids /\ row[a].inputs \subseteq Ids
        /\ row[a].retired => row[a].inputs = {}

\* What the memory of a process is worth at each point.
Grounded(p) ==
    LET me == proc[p]
        items == me.checkpoint.items
    IN  /\ me.pc # "exited" => me.event \in Event /\ me.event.root \in Root
        /\ me.pc = "opened" =>
              /\ me.ledger \in Ledger /\ me.dropped = {}
              /\ Known(me.ledger) \subseteq Rows(row)
              /\ \A a \in Known(me.ledger) : row[a].inputs \subseteq Known(me.ledger)
        /\ me.pc = "gate" => me.ledger \in Ledger /\ me.checkpoint \in [state : StateRoot]
        /\ me.pc = "write checkpoint" => me.checkpoint \in Checkpoint /\ ~me.checkpoint.consumed
        /\ me.pc \in {"retire", "rebuild"} =>
              /\ me.ledger \in Ledger /\ me.checkpoint \in Checkpoint
              /\ items \subseteq Rows(row) \cap Known(me.ledger)
              /\ \A a \in items : row[a].inputs \subseteq Known(me.ledger)
              /\ me.todo \subseteq items
        /\ me.pc = "retire" =>
              me.todo \cup me.dropped = {a \in items : row[a].inputs = {}}
        /\ me.pc = "rebuild" => \A a \in me.todo : row[a].inputs # {}
        /\ me.pc = "replace receipt" => me.receipt \in Receipt
        /\ me.pc = "replace registry" =>
              me.registry \in [Root -> Nat] /\ me.registry[me.event.root] \in {0, me.event.seq}
        /\ me.pc \in {"retire", "rebuild", "replace receipt", "record applied",
                      "replace registry", "consume"} =>
              checkpointFile[me.event] # None
        /\ me.pc \in {"record applied", "replace registry", "consume"} =>
              receiptFile[me.event] # None

WInv == TypeOK /\ RowsAreRecorded /\ \A p \in Process : Grounded(p)

LEMMA WInvInit == Init => WInv
<1> SUFFICES ASSUME Init PROVE WInv
  OBVIOUS
<1>1. proc \in [Process -> Memory] /\ \A p \in Process : proc[p] = Exited
  BY DEF Init, Exited, Memory
<1>2. Rows(row) = {}
  BY DEF Init, Rows
<1>3. ASSUME NEW p \in Process PROVE Grounded(p)
  <2>1. proc[p].pc = "exited"
    BY <1>1 DEF Exited
  <2> QED
    BY <2>1 DEF Grounded
<1>4. TypeOK
  BY <1>1, <1>2, WorkspaceAssumption DEF Init, TypeOK
<1> QED
  BY <1>2, <1>3, <1>4 DEF WInv, RowsAreRecorded

\* What every step leaves of the files: rows stay with their inputs, and no
\* checkpoint or receipt disappears.
FilesStay ==
    /\ \A a \in Rows(row) : a \in Rows(row)' /\ row'[a].inputs = row[a].inputs
    /\ \A e \in Event : /\ checkpointFile[e] # None => checkpointFile'[e] # None
                        /\ receiptFile[e] # None => receiptFile'[e] # None

\* A process that does not move stays grounded.
LEMMA OthersStayGrounded ==
    ASSUME FilesStay, NEW q \in Process, Grounded(q), proc'[q] = proc[q]
    PROVE  Grounded(q)'
<1>1. proc[q].pc \in {"retire", "rebuild"} =>
         LET items == proc[q].checkpoint.items
         IN  /\ items \subseteq Rows(row)
             /\ items \subseteq Rows(row)'
             /\ \A a \in items : row'[a].inputs = row[a].inputs
  BY DEF Grounded, FilesStay
<1>2. proc[q].pc = "opened" =>
         /\ Known(proc[q].ledger) \subseteq Rows(row)'
         /\ \A a \in Known(proc[q].ledger) : row'[a].inputs = row[a].inputs
  BY DEF Grounded, FilesStay
<1> QED
  BY <1>1, <1>2 DEF Grounded, FilesStay

\* A step of one process, or of none.
LEMMA OneProcessMoves ==
    ASSUME WInv, TypeOK', RowsAreRecorded', FilesStay, NEW p \in Process, Grounded(p)',
           \A q \in Process \ {p} : proc'[q] = proc[q]
    PROVE  WInv'
  BY OthersStayGrounded DEF WInv

LEMMA NoProcessMoves ==
    ASSUME WInv, TypeOK', RowsAreRecorded', FilesStay, proc' = proc
    PROVE  WInv'
  BY OthersStayGrounded DEF WInv

\* A step that leaves the rows alone.
LEMMA RowsAlone ==
    ASSUME WInv, row' = row, lineage' = lineage
    PROVE  /\ RowsAreRecorded' /\ row' \in Database
           /\ \A a \in Rows(row) : a \in Rows(row)' /\ row'[a].inputs = row[a].inputs
           /\ \A a \in Rows(row)' : row'[a].retired => row'[a].content = None /\ row'[a].quarantined
<1>1. /\ RowsAreRecorded /\ row \in Database
      /\ \A a \in Rows(row) : row[a].retired => row[a].content = None /\ row[a].quarantined
  BY DEF WInv, TypeOK, Database
<1>2. Rows(row)' = Rows(row) /\ Ids' = Ids
  BY DEF Rows, Ids
<1> QED
  BY <1>1, <1>2 DEF RowsAreRecorded

\* Opening the store adds the rows of recorded artifacts.
LEMMA OpeningSyncs ==
    ASSUME WInv, LineageLoads, row' = Synced(LoadedLedger), lineage' = lineage
    PROVE  /\ RowsAreRecorded' /\ row' \in Database
           /\ \A a \in Rows(row) : a \in Rows(row)' /\ row'[a].inputs = row[a].inputs
           /\ \A a \in Rows(row)' : row'[a].retired => row'[a].content = None /\ row'[a].quarantined
<1> DEFINE l == LoadedLedger
<1>1. l \in Ledger /\ Known(l) = Ids /\ \A a \in Ids : l[a].inputs \subseteq Ids
  BY LoadedLedgerType DEF WInv
<1> HIDE DEF l
<1>2. /\ row' \in Database /\ Rows(row') = Rows(row) \cup Ids
      /\ \A a \in Rows(row) : row'[a] = row[a]
      /\ \A a \in Ids \ Rows(row) : row'[a].inputs = l[a].inputs /\ ~row'[a].retired
  BY <1>1, SyncedType DEF WInv, l
<1>3. Ids' = Ids
  BY DEF Ids
<1>4. RowsAreRecorded'
  BY <1>1, <1>2, <1>3 DEF RowsAreRecorded, WInv
<1>5. \A a \in Rows(row)' : row'[a].retired => row'[a].content = None /\ row'[a].quarantined
  BY <1>2 DEF WInv, TypeOK
<1> QED
  BY <1>2, <1>4, <1>5

\* One row is written, and keeps its inputs.
LEMMA OneRowIsWritten ==
    ASSUME WInv, NEW a \in Rows(row), NEW r \in Row, row' = [row EXCEPT ![a] = r],
           r.inputs = row[a].inputs, lineage' = lineage,
           r.retired => r.content = None /\ r.quarantined /\ r.inputs = {}
    PROVE  /\ RowsAreRecorded' /\ row' \in Database
           /\ \A b \in Rows(row) : b \in Rows(row)' /\ row'[b].inputs = row[b].inputs
           /\ \A b \in Rows(row)' : row'[b].retired => row'[b].content = None /\ row'[b].quarantined
<1>1. row \in Database /\ a \in ArtifactId /\ r # None
  BY WorkspaceAssumption DEF WInv, TypeOK, Database, Rows
<1>2. row' \in Database /\ row'[a] = r /\ \A b \in ArtifactId \ {a} : row'[b] = row[b]
  BY <1>1 DEF Database
<1>3. Rows(row)' = Rows(row)
  BY <1>1, <1>2 DEF Rows
<1>4. RowsAreRecorded'
  BY <1>2, <1>3 DEF WInv, RowsAreRecorded, Ids, Rows
<1>5. \A b \in Rows(row)' : row'[b].retired => row'[b].content = None /\ row'[b].quarantined
  BY <1>2, <1>3 DEF WInv, TypeOK, Rows
<1>6. \A b \in Rows(row) : b \in Rows(row)' /\ row'[b].inputs = row[b].inputs
  BY <1>2, <1>3 DEF Rows
<1> QED
  BY <1>2, <1>4, <1>5, <1>6

-----------------------------------------------------------------------------
\* Every action keeps the invariant.

\* A process that exits leaves nothing behind in memory.
LEMMA ExitStep ==
    ASSUME WInv, NEW p \in Process, Exit(p)
    PROVE  /\ proc' \in [Process -> Memory] /\ Grounded(p)'
           /\ proc'[p] = Exited /\ \A q \in Process \ {p} : proc'[q] = proc[q]
<1>1. Exited \in Memory /\ Exited.pc = "exited"
  BY DEF Exited, Memory
<1>2. /\ proc' \in [Process -> Memory] /\ proc'[p] = Exited
      /\ \A q \in Process \ {p} : proc'[q] = proc[q]
  BY <1>1 DEF Exit, WInv, TypeOK
<1>3. Grounded(p)'
  <2>1. proc'[p].pc = "exited"
    BY <1>1, <1>2
  <2> QED
    BY <2>1 DEF Grounded
<1> QED
  BY <1>2, <1>3

LEMMA AppendLineageStep == ASSUME WInv, NEW l \in Line, AppendLineage(l) PROVE WInv'
<1>1. /\ lineage' = Append(lineage, l) /\ lineage' \in Seq(Line)
      /\ UNCHANGED <<feed, row, checkpointFile, receiptFile, appliedFile, proc, raced>>
  BY DEF AppendLineage, WInv, TypeOK
<1>2. Ids \subseteq Ids'
  <2>1. lineage \in Seq(Line)
    BY DEF WInv, TypeOK
  <2>2. \A n \in DOMAIN lineage : n \in DOMAIN lineage' /\ lineage'[n] = lineage[n]
    BY <1>1, <2>1
  <2> QED
    BY <2>2 DEF Ids
<1>3. TypeOK'
  BY <1>1 DEF WInv, TypeOK, Rows
<1>4. RowsAreRecorded' /\ FilesStay
  BY <1>1, <1>2 DEF WInv, RowsAreRecorded, FilesStay, Rows
<1> QED
  BY <1>1, <1>3, <1>4, NoProcessMoves

LEMMA PublishStep == ASSUME WInv, NEW e \in Event, Publish(e) PROVE WInv'
<1>1. /\ feed' \in Seq(Event)
      /\ UNCHANGED <<lineage, row, checkpointFile, receiptFile, appliedFile, proc, raced>>
  BY DEF Publish, WInv, TypeOK
<1>2. RowsAreRecorded' /\ FilesStay /\ TypeOK'
  BY <1>1, RowsAlone DEF FilesStay, WInv, TypeOK, Rows
<1> QED
  BY <1>1, <1>2, NoProcessMoves

LEMMA OpenStep == ASSUME WInv, NEW p \in Process, Open(p) PROVE WInv'
<1> DEFINE l == LoadedLedger
           e == NextPending
<1>1. /\ proc[p] = Exited /\ LineageLoads /\ row' = Synced(l)
      /\ UNCHANGED <<lineage, feed, checkpointFile, receiptFile, appliedFile, crashes, raced>>
      /\ \/ proc' = proc
         \/ /\ Pending # {} /\ Observable(e, l)
            /\ proc' = [proc EXCEPT ![p] = [@ EXCEPT !.pc = "opened", !.event = e, !.ledger = l]]
  BY DEF Open
<1>2. /\ RowsAreRecorded' /\ FilesStay /\ row' \in Database
      /\ \A a \in Rows(row)' : row'[a].retired => row'[a].content = None /\ row'[a].quarantined
  BY <1>1, OpeningSyncs DEF FilesStay
<1>3. l \in Ledger /\ Known(l) = Ids /\ Ids' = Ids
  BY <1>1, LoadedLedgerType DEF WInv, Ids
<1>4. Known(l) \subseteq Rows(row)'
  BY <1>1, <1>3, SyncedType DEF WInv
<1>5. CASE proc' = proc
  <2>1. TypeOK'
    BY <1>1, <1>2, <1>5 DEF WInv, TypeOK, Database, Rows
  <2> QED
    BY <1>2, <1>5, <2>1, NoProcessMoves
<1>6. CASE proc' # proc
  <2>1. e \in Event /\ e.root \in Root
    BY <1>1, <1>6, NextPendingIsFirst, ObservableIsNext DEF WInv
  <2>2. \A a \in Known(l) : row'[a].inputs \subseteq Known(l)
    BY <1>2, <1>3, <1>4 DEF RowsAreRecorded
  <2>3. proc' = [proc EXCEPT ![p] = [@ EXCEPT !.pc = "opened", !.event = e, !.ledger = l]]
    BY <1>1, <1>6
  <2> HIDE DEF e, l
  <2>4. proc[p] \in Memory /\ proc[p].dropped = {}
    <3>1. Exited.dropped = {}
      BY DEF Exited
    <3> QED
      BY <1>1, <3>1 DEF WInv, TypeOK
  <2>5. proc'[p] \in Memory /\ proc' \in [Process -> Memory]
        /\ \A q \in Process \ {p} : proc'[q] = proc[q]
    BY <1>3, <2>1, <2>3, <2>4 DEF WInv, TypeOK, Memory
  <2>6. /\ proc'[p].pc = "opened" /\ proc'[p].event = e
        /\ proc'[p].ledger = l /\ proc'[p].dropped = {}
    BY <2>3, <2>4 DEF WInv, TypeOK, Memory
  <2>7. TypeOK'
    BY <1>1, <1>2, <2>5 DEF WInv, TypeOK, Database, Rows
  <2>8. Grounded(p)'
    BY <1>3, <1>4, <2>1, <2>2, <2>6 DEF Grounded
  <2> QED
    BY <1>2, <2>5, <2>7, <2>8, OneProcessMoves
<1> QED
  BY <1>5, <1>6

LEMMA QuarantineStartStep ==
    ASSUME WInv, NEW p \in Process, QuarantineStart(p) PROVE WInv'
<1> DEFINE me == proc[p]
           cp == [state |-> InspectableState(row, me.ledger)]
<1>1. me.pc = "opened" /\ UNCHANGED <<durable, raced>>
  BY DEF QuarantineStart
<1>2. RowsAreRecorded' /\ FilesStay
  BY <1>1, RowsAlone DEF FilesStay, durable
<1>3. me \in Memory /\ me.event \in Event /\ me.event.root \in Root /\ me.ledger \in Ledger
  BY <1>1 DEF WInv, TypeOK, Grounded
<1>4. CASE Exit(p)
  BY <1>1, <1>2, <1>4, ExitStep, OneProcessMoves DEF WInv, TypeOK, durable, Rows
<1>5. CASE proc' = [proc EXCEPT ![p].pc = "gate", ![p].checkpoint = cp]
  <2>1. cp \in [state : StateRoot]
    BY <1>3, StateType DEF WInv, TypeOK, Database
  <2> HIDE DEF cp
  <2>2. /\ proc' \in [Process -> Memory] /\ \A q \in Process \ {p} : proc'[q] = proc[q]
        /\ proc'[p].pc = "gate" /\ proc'[p].event = me.event
        /\ proc'[p].ledger = me.ledger /\ proc'[p].checkpoint = cp
    BY <1>3, <1>5, <2>1 DEF WInv, TypeOK, Memory
  <2>3. TypeOK'
    BY <1>1, <2>2 DEF WInv, TypeOK, durable, Rows
  <2>4. Grounded(p)'
    BY <1>3, <2>1, <2>2 DEF Grounded
  <2> QED
    BY <1>2, <2>2, <2>3, <2>4, OneProcessMoves
<1> QED
  BY <1>4, <1>5 DEF QuarantineStart

LEMMA GateStep == ASSUME WInv, NEW p \in Process, Gate(p) PROVE WInv'
<1> DEFINE me == proc[p]
           items == Enumerate(row, me.ledger, me.event.root)
           gatedRow == [a \in ArtifactId |->
                           IF a \in items THEN [row[a] EXCEPT !.quarantined = TRUE] ELSE row[a]]
           cp == [state    |-> me.checkpoint.state,
                  items    |-> items,
                  coverage |-> CheckpointCoverageOf(gatedRow, me.ledger, me.event.root),
                  consumed |-> FALSE]
<1>1. /\ me.pc = "gate" /\ row' = gatedRow
      /\ proc' = [proc EXCEPT ![p].pc = "write checkpoint", ![p].checkpoint = cp]
      /\ UNCHANGED <<lineage, feed, checkpointFile, receiptFile, appliedFile, raced>>
  BY DEF Gate
<1>2. /\ me \in Memory /\ me.event \in Event /\ me.event.root \in Root
      /\ me.ledger \in Ledger /\ me.checkpoint.state \in StateRoot
  BY <1>1 DEF WInv, TypeOK, Grounded
<1>3. items \subseteq Rows(row) /\ Rows(row) \subseteq ArtifactId
  BY DEF Enumerate, Rows
<1>4. cp \in Checkpoint
  <2>1. CheckpointCoverageOf(gatedRow, me.ledger, me.event.root) \in CoverageResult
    BY CoverageTypes DEF CheckpointCoverageOf
  <2> HIDE DEF items, gatedRow, me
  <2> QED
    BY <1>2, <1>3, <2>1 DEF Checkpoint
<1> HIDE DEF items
<1>5. ASSUME NEW a \in Rows(row)
      PROVE  /\ gatedRow[a] \in Row /\ gatedRow[a].inputs = row[a].inputs
             /\ gatedRow[a].content = row[a].content /\ gatedRow[a].retired = row[a].retired
             /\ row[a].quarantined => gatedRow[a].quarantined
  <2>1. a \in ArtifactId /\ row[a] \in Row
    BY RowsHaveRecords DEF WInv, TypeOK, Database
  <2> QED
    BY <2>1 DEF Row
<1>6. \A a \in ArtifactId \ Rows(row) : gatedRow[a] = None
  BY <1>3 DEF Rows
<1>7. gatedRow = [a \in ArtifactId |-> gatedRow[a]]
  OBVIOUS
<1> HIDE DEF gatedRow
<1>8. row' \in Database /\ Rows(row)' = Rows(row)
  BY <1>1, <1>5, <1>6, <1>7, WorkspaceAssumption DEF Database, Rows
<1>9. RowsAreRecorded' /\ FilesStay
  BY <1>1, <1>5, <1>8 DEF RowsAreRecorded, WInv, Ids, FilesStay
<1> HIDE DEF cp
<1>10. /\ proc'[p].pc = "write checkpoint" /\ proc'[p].checkpoint = cp
       /\ proc'[p].event = me.event /\ proc' \in [Process -> Memory]
       /\ \A q \in Process \ {p} : proc'[q] = proc[q]
  BY <1>1, <1>2, <1>4 DEF WInv, TypeOK, Memory
<1>11. TypeOK'
  BY <1>1, <1>5, <1>8, <1>10 DEF WInv, TypeOK, Database
<1>12. Grounded(p)'
  <2>1. ~cp.consumed
    BY DEF cp
  <2> QED
    BY <1>2, <1>4, <1>10, <2>1 DEF Grounded
<1> QED
  BY <1>9, <1>10, <1>11, <1>12, OneProcessMoves

LEMMA WriteCheckpointStep ==
    ASSUME WInv, NEW p \in Process, WriteCheckpoint(p) PROVE WInv'
<1>1. /\ proc[p].pc = "write checkpoint" /\ Exit(p)
      /\ checkpointFile' = [checkpointFile EXCEPT ![proc[p].event] = proc[p].checkpoint]
      /\ UNCHANGED <<lineage, feed, row, receiptFile, appliedFile, raced>>
  BY DEF WriteCheckpoint
<1>2. proc[p].event \in Event /\ proc[p].checkpoint \in Checkpoint
  BY <1>1 DEF WInv, Grounded
<1>3. /\ checkpointFile' \in [Event -> {None} \cup Checkpoint]
      /\ \A e \in Event : checkpointFile[e] # None => checkpointFile'[e] # None
  BY <1>1, <1>2, WorkspaceAssumption DEF WInv, TypeOK
<1>4. TypeOK' /\ RowsAreRecorded' /\ FilesStay
  BY <1>1, <1>3, RowsAlone, ExitStep DEF WInv, TypeOK, FilesStay, Rows
<1> QED
  BY <1>1, <1>4, ExitStep, OneProcessMoves

LEMMA CrashStep == ASSUME WInv, NEW p \in Process, Crash(p) PROVE WInv'
<1>1. Exit(p) /\ UNCHANGED <<durable, raced>>
  BY DEF Crash
<1>2. TypeOK' /\ RowsAreRecorded' /\ FilesStay
  BY <1>1, RowsAlone, ExitStep DEF WInv, TypeOK, FilesStay, Rows, durable
<1> QED
  BY <1>1, <1>2, ExitStep, OneProcessMoves

LEMMA RepairStartStep == ASSUME WInv, NEW p \in Process, RepairStart(p) PROVE WInv'
<1> DEFINE me == proc[p]
           cp == checkpointFile[me.event]
           direct == {a \in cp.items : row[a].inputs = {}}
<1>1. me.pc = "opened" /\ UNCHANGED <<durable, raced>>
  BY DEF RepairStart
<1>2. RowsAreRecorded' /\ FilesStay
  BY <1>1, RowsAlone DEF FilesStay, durable
<1>3. /\ me \in Memory /\ me.event \in Event /\ me.event.root \in Root /\ me.ledger \in Ledger
      /\ me.dropped = {} /\ \A a \in Known(me.ledger) : row[a].inputs \subseteq Known(me.ledger)
  BY <1>1 DEF WInv, TypeOK, Grounded
<1>4. CASE Exit(p)
  BY <1>1, <1>2, <1>4, ExitStep, OneProcessMoves DEF WInv, TypeOK, durable, Rows
<1>5. CASE /\ CheckpointIsValid(me.event, row, me.ledger)
           /\ proc' = [proc EXCEPT ![p].pc = "retire", ![p].checkpoint = cp, ![p].todo = direct]
  <2>1. /\ cp # None /\ cp \in Checkpoint
        /\ cp.items \subseteq Rows(row) \cap Known(me.ledger)
    <3>1. cp # None /\ cp.items = Enumerate(row, me.ledger, me.event.root)
      BY <1>5 DEF CheckpointIsValid
    <3>2. cp \in Checkpoint
      BY <1>3, <3>1 DEF WInv, TypeOK
    <3> QED
      BY <3>1, <3>2, DescendantsAreKnown DEF Enumerate
  <2>2. direct \subseteq cp.items /\ cp.items \subseteq ArtifactId
    BY <2>1 DEF Checkpoint
  <2>3. /\ row' = row /\ checkpointFile'[me.event] = cp
        /\ direct = {a \in cp.items : row'[a].inputs = {}}
    BY <1>1 DEF durable
  <2>4. proc' = [proc EXCEPT ![p].pc = "retire", ![p].checkpoint = cp, ![p].todo = direct]
    BY <1>5
  <2> HIDE DEF cp, direct
  <2>5. /\ proc' \in [Process -> Memory] /\ \A q \in Process \ {p} : proc'[q] = proc[q]
        /\ proc'[p].pc = "retire" /\ proc'[p].event = me.event /\ proc'[p].ledger = me.ledger
        /\ proc'[p].checkpoint = cp /\ proc'[p].todo = direct /\ proc'[p].dropped = {}
    BY <1>3, <2>1, <2>2, <2>4 DEF WInv, TypeOK, Memory
  <2>6. TypeOK'
    BY <1>1, <2>5 DEF WInv, TypeOK, durable, Rows
  <2>7. Grounded(p)'
    <3>1. Rows(row)' = Rows(row)
      BY <2>3 DEF Rows
    <3> QED
      BY <1>3, <2>1, <2>2, <2>3, <2>5, <3>1 DEF Grounded
  <2> QED
    BY <1>2, <2>5, <2>6, <2>7, OneProcessMoves
<1> QED
  BY <1>4, <1>5 DEF RepairStart

LEMMA RetireItemStep ==
    ASSUME WInv, NEW p \in Process, NEW a \in ArtifactId, RetireItem(p, a) PROVE WInv'
<1> DEFINE me == proc[p]
           new == IF row[a].content \in {None, {}} THEN {} ELSE {a}
<1>1. /\ me.pc = "retire" /\ a \in me.todo
      /\ row' = [row EXCEPT ![a] = RetiredRow(row[a])]
      /\ proc' = [proc EXCEPT ![p].todo = @ \ {a}, ![p].dropped = @ \cup {a},
                              ![p].captured = @ \cup new]
      /\ UNCHANGED <<lineage, feed, checkpointFile, receiptFile, appliedFile, raced>>
  BY DEF RetireItem, IsNext
<1>2. me \in Memory /\ a \in Rows(row) /\ row[a] \in Row /\ row[a].inputs = {}
  <2>1. me \in Memory /\ Grounded(p) /\ row \in Database
    BY DEF WInv, TypeOK, Database
  <2>2. a \in me.checkpoint.items /\ a \in Rows(row)
    BY <1>1, <2>1 DEF Grounded
  <2>3. row[a].inputs = {}
    BY <1>1, <2>1, <2>2 DEF Grounded
  <2> QED
    BY <2>1, <2>2, <2>3, RowsHaveRecords
<1>3. /\ RetiredRow(row[a]) \in Row /\ RetiredRow(row[a]).inputs = row[a].inputs
      /\ RetiredRow(row[a]).content = None /\ RetiredRow(row[a]).quarantined
  BY <1>2 DEF RetiredRow, Row
<1>4. /\ RowsAreRecorded' /\ FilesStay /\ row' \in Database
      /\ \A b \in Rows(row)' : row'[b].retired => row'[b].content = None /\ row'[b].quarantined
  BY <1>1, <1>2, <1>3, OneRowIsWritten DEF FilesStay
<1>5. new \subseteq ArtifactId
  OBVIOUS
<1> HIDE DEF new
<1>6. /\ proc' \in [Process -> Memory] /\ \A q \in Process \ {p} : proc'[q] = proc[q]
      /\ proc'[p].pc = "retire" /\ proc'[p].event = me.event /\ proc'[p].ledger = me.ledger
      /\ proc'[p].checkpoint = me.checkpoint
      /\ proc'[p].todo = me.todo \ {a} /\ proc'[p].dropped = me.dropped \cup {a}
  <2> DEFINE m == [me EXCEPT !.todo = @ \ {a}, !.dropped = @ \cup {a},
                             !.captured = @ \cup new]
  <2>1. proc \in [Process -> Memory]
    BY DEF WInv, TypeOK
  <2>2. proc' = [proc EXCEPT ![p] = m]
    BY <1>1, <1>2, <2>1 DEF Memory
  <2>3. m \in Memory
    BY <1>2, <1>5 DEF Memory
  <2>4. /\ m.pc = me.pc /\ m.event = me.event /\ m.ledger = me.ledger
        /\ m.checkpoint = me.checkpoint
        /\ m.todo = me.todo \ {a} /\ m.dropped = me.dropped \cup {a}
    BY <1>2 DEF Memory
  <2> HIDE DEF m
  <2> QED
    BY <1>1, <2>1, <2>2, <2>3, <2>4
<1>7. TypeOK'
  BY <1>1, <1>4, <1>6 DEF WInv, TypeOK, Database
<1>8. Grounded(p)'
  <2>1. Grounded(p)
    BY DEF WInv
  <2> DEFINE items == me.checkpoint.items
  <2>2. items \subseteq Rows(row) /\ items \subseteq Known(me.ledger)
    BY <1>1, <2>1 DEF Grounded
  <2>3. items \subseteq Rows(row)' /\ \A b \in items : row'[b].inputs = row[b].inputs
    BY <1>4, <2>2 DEF FilesStay
  <2>4. (me.todo \ {a}) \cup (me.dropped \cup {a}) = {b \in items : row'[b].inputs = {}}
    BY <1>1, <2>1, <2>3 DEF Grounded
  <2>5. /\ me.ledger \in Ledger /\ me.checkpoint \in Checkpoint
        /\ \A b \in items : row'[b].inputs \subseteq Known(me.ledger)
        /\ me.todo \ {a} \subseteq items
        /\ me.event \in Event /\ me.event.root \in Root
        /\ checkpointFile'[me.event] # None
    BY <1>1, <2>1, <2>3 DEF Grounded
  <2> QED
    BY <1>6, <2>2, <2>3, <2>4, <2>5 DEF Grounded
<1> QED
  BY <1>4, <1>6, <1>7, <1>8, OneProcessMoves

LEMMA EndPassOneStep == ASSUME WInv, NEW p \in Process, EndPassOne(p) PROVE WInv'
<1> DEFINE me == proc[p]
           rest == me.checkpoint.items \ me.dropped
<1>1. /\ me.pc = "retire" /\ me.todo = {} /\ UNCHANGED <<durable, raced>>
      /\ proc' = [proc EXCEPT ![p].pc = "rebuild", ![p].todo = rest]
  BY DEF EndPassOne
<1>2. me \in Memory /\ Grounded(p)
  BY DEF WInv, TypeOK
<1>3. /\ me.checkpoint.items \subseteq Rows(row) /\ rest \subseteq ArtifactId
      /\ \A a \in rest : row[a].inputs # {}
  BY <1>1, <1>2 DEF Grounded, Rows
<1>4. /\ proc' \in [Process -> Memory] /\ \A q \in Process \ {p} : proc'[q] = proc[q]
      /\ proc'[p].pc = "rebuild" /\ proc'[p].event = me.event /\ proc'[p].ledger = me.ledger
      /\ proc'[p].checkpoint = me.checkpoint /\ proc'[p].todo = rest
  BY <1>1, <1>2, <1>3 DEF WInv, TypeOK, Memory
<1>5. TypeOK' /\ RowsAreRecorded' /\ FilesStay
  BY <1>1, <1>4, RowsAlone DEF WInv, TypeOK, FilesStay, Rows, durable
<1>6. Grounded(p)'
  <2>1. rest \subseteq me.checkpoint.items
    OBVIOUS
  <2> HIDE DEF rest
  <2> QED
    BY <1>1, <1>2, <1>3, <1>4, <2>1 DEF Grounded, durable, Rows
<1> QED
  BY <1>4, <1>5, <1>6, OneProcessMoves

LEMMA RebuildItemStep ==
    ASSUME WInv, NEW p \in Process, NEW a \in ArtifactId, RebuildItem(p, a) PROVE WInv'
<1> DEFINE me == proc[p]
           joined == JoinedText(me.ledger, SurvivingInputs(p, a), me.event.replacement)
           rebuilt == [row[a] EXCEPT !.content = joined, !.rebuilt = TRUE,
                                     !.quarantined = FALSE]
           written == SetContent(me.ledger, a, joined)
<1>1. /\ me.pc = "rebuild" /\ a \in me.todo
      /\ row' = [row EXCEPT ![a].content = joined, ![a].rebuilt = TRUE, ![a].quarantined = FALSE]
      /\ proc' = [proc EXCEPT ![p].todo = @ \ {a},
                              ![p].ledger = SetContent(@, a, joined)]
      /\ UNCHANGED <<lineage, feed, checkpointFile, receiptFile, appliedFile, raced>>
  BY DEF RebuildItem, IsNext
<1>2. me \in Memory /\ Grounded(p) /\ row \in Database
  BY DEF WInv, TypeOK, Database
<1>3. /\ me.ledger \in Ledger /\ a \in me.checkpoint.items
      /\ a \in Rows(row) /\ a \in Known(me.ledger) /\ row[a].inputs # {}
      /\ row[a].inputs \subseteq Known(me.ledger)
      /\ me.event.replacement \in Prop \cup {None}
  BY <1>1, <1>2, WorkspaceAssumption DEF Grounded, IsErratum
<1>4. row[a] \in Row /\ ~row[a].retired
  BY <1>2, <1>3, RowsHaveRecords DEF WInv, RowsAreRecorded
<1>5. SurvivingInputs(p, a) \subseteq Known(me.ledger)
  BY <1>3 DEF SurvivingInputs
<1>6. joined \in Text
  BY <1>3, <1>5, JoinedTextType
<1> HIDE DEF joined
<1>7. written \in Ledger /\ Known(written) = Known(me.ledger)
  BY <1>3, <1>6, SetContentType
<1>8. rebuilt \in Row /\ rebuilt.inputs = row[a].inputs /\ ~rebuilt.retired
  BY <1>4, <1>6 DEF Row
<1>9. row' = [row EXCEPT ![a] = rebuilt]
  BY <1>1, <1>2 DEF Database
<1> HIDE DEF rebuilt
<1>10. /\ RowsAreRecorded' /\ FilesStay /\ row' \in Database
       /\ \A b \in Rows(row)' : row'[b].retired => row'[b].content = None /\ row'[b].quarantined
  BY <1>1, <1>3, <1>8, <1>9, OneRowIsWritten DEF FilesStay
<1>11. /\ proc' \in [Process -> Memory] /\ \A q \in Process \ {p} : proc'[q] = proc[q]
       /\ proc'[p].pc = "rebuild" /\ proc'[p].event = me.event
       /\ proc'[p].ledger = SetContent(me.ledger, a, joined)
       /\ proc'[p].checkpoint = me.checkpoint /\ proc'[p].todo = me.todo \ {a}
  BY <1>1, <1>2, <1>7 DEF WInv, TypeOK, Memory
<1> HIDE DEF written
<1>12. TypeOK'
  BY <1>1, <1>10, <1>11 DEF WInv, TypeOK, Database
<1>13. Grounded(p)'
  <2> DEFINE items == me.checkpoint.items
  <2>1. proc'[p].ledger \in Ledger /\ Known(proc'[p].ledger) = Known(me.ledger)
    BY <1>7, <1>11 DEF written
  <2>2. items \subseteq Rows(row) /\ items \subseteq Known(me.ledger)
    BY <1>1, <1>2 DEF Grounded
  <2>3. items \subseteq Rows(row)' /\ \A b \in items : row'[b].inputs = row[b].inputs
    BY <1>10, <2>2 DEF FilesStay
  <2> QED
    BY <1>1, <1>2, <1>11, <2>1, <2>2, <2>3 DEF Grounded
<1> QED
  BY <1>10, <1>11, <1>12, <1>13, OneProcessMoves

LEMMA LookForReceiptStep ==
    ASSUME WInv, NEW p \in Process, NEW scan, LookForReceipt(p, scan) PROVE WInv'
<1> DEFINE me == proc[p]
           receipt == ReceiptOf(me, scan)
<1>1. me.pc = "rebuild" /\ UNCHANGED <<durable, raced>>
  BY DEF LookForReceipt
<1>2. RowsAreRecorded' /\ FilesStay
  BY <1>1, RowsAlone DEF FilesStay, durable
<1>3. /\ me \in Memory /\ me.event \in Event /\ me.event.root \in Root /\ me.ledger \in Ledger
      /\ me.checkpoint \in Checkpoint /\ checkpointFile[me.event] # None
  BY <1>1 DEF WInv, TypeOK, Grounded
<1>4. receipt \in Receipt
  BY <1>3, ReceiptType DEF WInv, TypeOK, Database
<1>5. CASE Exit(p)
  BY <1>1, <1>2, <1>5, ExitStep, OneProcessMoves DEF WInv, TypeOK, durable, Rows
<1>6. CASE proc' = [proc EXCEPT ![p].pc = "replace receipt", ![p].receipt = receipt]
  <2> HIDE DEF receipt
  <2>1. /\ proc' \in [Process -> Memory] /\ \A q \in Process \ {p} : proc'[q] = proc[q]
        /\ proc'[p].pc = "replace receipt" /\ proc'[p].event = me.event
        /\ proc'[p].receipt = receipt
    BY <1>3, <1>4, <1>6 DEF WInv, TypeOK, Memory
  <2>2. TypeOK'
    BY <1>1, <2>1 DEF WInv, TypeOK, durable, Rows
  <2>3. Grounded(p)'
    BY <1>1, <1>3, <1>4, <2>1 DEF Grounded, durable
  <2> QED
    BY <1>2, <2>1, <2>2, <2>3, OneProcessMoves
<1>7. CASE ~IsNew(me.event) /\ proc' = [proc EXCEPT ![p].pc = Following("receipt")]
  <2>1. receiptFile[me.event] # None
    BY <1>7 DEF IsNew
  <2>2. /\ proc' \in [Process -> Memory] /\ \A q \in Process \ {p} : proc'[q] = proc[q]
        /\ proc'[p].pc = "record applied" /\ proc'[p].event = me.event
    BY <1>3, <1>7 DEF WInv, TypeOK, Memory, Following
  <2>3. TypeOK'
    BY <1>1, <2>2 DEF WInv, TypeOK, durable, Rows
  <2>4. Grounded(p)'
    BY <1>1, <1>3, <2>1, <2>2 DEF Grounded, durable
  <2> QED
    BY <1>2, <2>2, <2>3, <2>4, OneProcessMoves
<1> QED
  BY <1>5, <1>6, <1>7 DEF LookForReceipt

LEMMA ReplaceReceiptStep ==
    ASSUME WInv, NEW p \in Process, ReplaceReceipt(p) PROVE WInv'
<1> DEFINE me == proc[p]
<1>1. /\ me.pc = "replace receipt" /\ raced' = (raced \/ ReceiptIsContended(p))
      /\ receiptFile' = [receiptFile EXCEPT ![me.event] = me.receipt]
      /\ proc' = [proc EXCEPT ![p].pc = "record applied", ![p].receipt = None]
      /\ UNCHANGED <<lineage, feed, row, checkpointFile, appliedFile>>
  BY DEF ReplaceReceipt, Following
<1>2. /\ me \in Memory /\ me.event \in Event /\ me.event.root \in Root
      /\ me.receipt \in Receipt /\ checkpointFile[me.event] # None
  BY <1>1 DEF WInv, TypeOK, Grounded
<1>3. /\ receiptFile' \in [Event -> {None} \cup Receipt] /\ receiptFile'[me.event] # None
      /\ \A e \in Event : receiptFile[e] # None => receiptFile'[e] # None
  BY <1>1, <1>2, WorkspaceAssumption DEF WInv, TypeOK
<1>4. raced' \in BOOLEAN
  BY <1>1 DEF ReceiptIsContended, WInv, TypeOK
<1>5. /\ proc' \in [Process -> Memory] /\ \A q \in Process \ {p} : proc'[q] = proc[q]
      /\ proc'[p].pc = "record applied" /\ proc'[p].event = me.event
  BY <1>1, <1>2 DEF WInv, TypeOK, Memory
<1>6. TypeOK' /\ RowsAreRecorded' /\ FilesStay
  BY <1>1, <1>3, <1>4, <1>5, RowsAlone DEF WInv, TypeOK, FilesStay, Rows
<1>7. Grounded(p)'
  BY <1>1, <1>2, <1>3, <1>5 DEF Grounded
<1> QED
  BY <1>5, <1>6, <1>7, OneProcessMoves

LEMMA ReadRegistryStep == ASSUME WInv, NEW p \in Process, ReadRegistry(p) PROVE WInv'
<1> DEFINE e == proc[p].event
<1>1. proc[p].pc = "record applied" /\ UNCHANGED <<durable, raced>>
  BY DEF ReadRegistry
<1>2. /\ proc[p] \in Memory /\ Grounded(p) /\ appliedFile \in [Root -> Nat]
      /\ e \in Event /\ e.root \in Root
  BY <1>1 DEF WInv, TypeOK, Grounded
<1>3. RowsAreRecorded' /\ FilesStay
  BY <1>1, RowsAlone DEF FilesStay, durable
<1>4. CASE Exit(p)
  BY <1>1, <1>3, <1>4, ExitStep, OneProcessMoves DEF WInv, TypeOK, durable, Rows
<1>5. CASE /\ appliedFile[e.root] \in {0, e.seq}
           /\ proc' = [proc EXCEPT ![p].pc = "replace registry", ![p].registry = appliedFile]
  <2>1. /\ proc' \in [Process -> Memory] /\ \A q \in Process \ {p} : proc'[q] = proc[q]
        /\ proc'[p].pc = "replace registry" /\ proc'[p].event = e
        /\ proc'[p].registry = appliedFile
    BY <1>2, <1>5 DEF WInv, TypeOK, Memory
  <2>2. TypeOK'
    BY <1>1, <2>1 DEF WInv, TypeOK, durable, Rows
  <2>3. Grounded(p)'
    BY <1>1, <1>2, <1>5, <2>1 DEF Grounded, durable
  <2> QED
    BY <1>3, <2>1, <2>2, <2>3, OneProcessMoves
<1> QED
  BY <1>4, <1>5 DEF ReadRegistry

LEMMA ReplaceRegistryStep ==
    ASSUME WInv, NEW p \in Process, ReplaceRegistry(p) PROVE WInv'
<1> DEFINE me == proc[p]
<1>1. /\ me.pc = "replace registry" /\ raced' = (raced \/ RegistryIsContended(p))
      /\ appliedFile' = [me.registry EXCEPT ![me.event.root] = me.event.seq]
      /\ proc' = [proc EXCEPT ![p].pc = "consume", ![p].registry = None]
      /\ UNCHANGED <<lineage, feed, row, checkpointFile, receiptFile>>
  BY DEF ReplaceRegistry, AppliedWith, Following
<1>2. /\ me \in Memory /\ Grounded(p)
      /\ me.event \in Event /\ me.event.seq \in Nat /\ me.registry \in [Root -> Nat]
  BY <1>1, WorkspaceAssumption DEF WInv, TypeOK, Grounded, IsErratum
<1>3. appliedFile' \in [Root -> Nat] /\ raced' \in BOOLEAN
  BY <1>1, <1>2 DEF RegistryIsContended, WInv, TypeOK
<1>4. /\ proc' \in [Process -> Memory] /\ \A q \in Process \ {p} : proc'[q] = proc[q]
      /\ proc'[p].pc = "consume" /\ proc'[p].event = me.event
  BY <1>1, <1>2 DEF WInv, TypeOK, Memory
<1>5. TypeOK' /\ RowsAreRecorded' /\ FilesStay
  BY <1>1, <1>3, <1>4, RowsAlone DEF WInv, TypeOK, FilesStay, Rows
<1>6. Grounded(p)'
  BY <1>1, <1>2, <1>4 DEF Grounded
<1> QED
  BY <1>4, <1>5, <1>6, OneProcessMoves

LEMMA ConsumeStep == ASSUME WInv, NEW p \in Process, Consume(p) PROVE WInv'
<1> DEFINE e == proc[p].event
<1>1. /\ proc[p].pc = "consume" /\ Exit(p)
      /\ checkpointFile' = [checkpointFile EXCEPT ![e].consumed = TRUE]
      /\ UNCHANGED <<lineage, feed, row, receiptFile, appliedFile, raced>>
  BY DEF Consume
<1>2. e \in Event /\ checkpointFile[e] # None /\ checkpointFile[e] \in Checkpoint
  BY <1>1 DEF WInv, TypeOK, Grounded
<1>3. [checkpointFile[e] EXCEPT !.consumed = TRUE] \in Checkpoint
  BY <1>2 DEF Checkpoint
<1>4. /\ checkpointFile' \in [Event -> {None} \cup Checkpoint]
      /\ \A f \in Event : checkpointFile[f] # None => checkpointFile'[f] # None
  BY <1>1, <1>2, <1>3, WorkspaceAssumption DEF WInv, TypeOK
<1>5. TypeOK' /\ RowsAreRecorded' /\ FilesStay
  BY <1>1, <1>4, RowsAlone, ExitStep DEF WInv, TypeOK, FilesStay, Rows
<1> QED
  BY <1>1, <1>5, ExitStep, OneProcessMoves

LEMMA WInvStep == WInv /\ [Next]_vars => WInv'
<1> SUFFICES ASSUME WInv, [Next]_vars PROVE WInv'
  OBVIOUS
<1>1. CASE UNCHANGED vars
  <2>1. TypeOK' /\ RowsAreRecorded' /\ FilesStay /\ proc' = proc
    BY <1>1, RowsAlone DEF vars, durable, WInv, TypeOK, FilesStay, Rows
  <2> QED
    BY <2>1, NoProcessMoves
<1>2. CASE Next
  BY <1>2, AppendLineageStep, PublishStep, OpenStep, QuarantineStartStep, RepairStartStep,
     GateStep, WriteCheckpointStep, RetireItemStep, RebuildItemStep, EndPassOneStep,
     LookForReceiptStep, ReplaceReceiptStep, ReadRegistryStep, ReplaceRegistryStep,
     ConsumeStep, CrashStep
  DEF Next, Continue
<1> QED
  BY <1>1, <1>2

LEMMA WInvHolds == Spec => []WInv
  BY WInvInit, WInvStep, PTL DEF Spec

\* Whatever the files hold, commands interleave and processes die, every file and
\* every process memory keeps its type: no repair reads an input that its ledger
\* does not know.
THEOREM WorkspaceTypes == Spec => []TypeOK
<1>1. WInv => TypeOK
  BY DEF WInv
<1> QED
  BY WInvHolds, <1>1, PTL

-----------------------------------------------------------------------------
\* How processes move and which files they write.

OnlyMoves(p) == \A q \in Process \ {p} : proc'[q] = proc[q]

Goes(p, from, to) ==
    /\ OnlyMoves(p) /\ proc'[p].event = proc[p].event
    /\ proc[p].pc = from /\ proc'[p].pc = to

Ends(p) == OnlyMoves(p) /\ proc'[p].pc = "exited"

EvidenceSame == UNCHANGED <<checkpointFile, receiptFile, appliedFile, raced>>

\* A command picks its event when it opens the directory, from the feed, and
\* keeps it.
PicksEvent(p) ==
    /\ OnlyMoves(p) /\ proc[p].pc = "exited" /\ proc'[p].pc = "opened"
    /\ Pending # {} /\ Observable(NextPending, LoadedLedger)
    /\ proc'[p].event = NextPending /\ feed' = feed

\* What a process does that leaves the checkpoints, receipts and registry alone.
Works(p) ==
    \/ PicksEvent(p)
    \/ Goes(p, "opened", "gate")
    \/ Goes(p, "opened", "retire") /\ checkpointFile[proc[p].event] # None
    \/ Goes(p, "gate", "write checkpoint")
    \/ Goes(p, "retire", "retire") \/ Goes(p, "retire", "rebuild") \/ Goes(p, "rebuild", "rebuild")
    \/ Goes(p, "rebuild", "replace receipt") /\ receiptFile[proc[p].event] = None
    \/ Goes(p, "rebuild", "record applied")
    \/ Goes(p, "record applied", "replace registry") /\ proc'[p].registry = appliedFile

\* The four steps that write one of them.
Records(p) ==
    \/ WriteCheckpoint(p) /\ Ends(p)
    \/ ReplaceReceipt(p) /\ Goes(p, "replace receipt", "record applied")
    \/ ReplaceRegistry(p) /\ Goes(p, "replace registry", "consume")
    \/ Consume(p) /\ Ends(p)

LEMMA ExitEnds ==
    ASSUME WInv, NEW p \in Process, Exit(p)
    PROVE  Ends(p)
  BY ExitStep DEF Ends, OnlyMoves, Exited

\* One process gets a new place and new values of other fields.
LEMMA OpeningMoves ==
    ASSUME WInv, NEW p \in Process, Open(p)
    PROVE  EvidenceSame /\ (proc' = proc \/ Works(p))
<1> DEFINE ev == NextPending
           l == LoadedLedger
           m == [proc[p] EXCEPT !.pc = "opened", !.event = ev, !.ledger = l]
<1>1. /\ EvidenceSame /\ proc[p] = Exited /\ feed' = feed
      /\ \/ proc' = proc
         \/ Pending # {} /\ Observable(ev, l) /\ proc' = [proc EXCEPT ![p] = m]
  BY DEF Open, EvidenceSame
<1>2. proc \in [Process -> Memory] /\ proc[p].pc = "exited" /\ ev = NextPending /\ l = LoadedLedger
  BY <1>1 DEF WInv, TypeOK, Exited
<1> HIDE DEF ev, l
<1>3. m.pc = "opened" /\ m.event = ev
  BY <1>2 DEF Memory
<1> HIDE DEF m
<1>4. ASSUME proc' = [proc EXCEPT ![p] = m]
      PROVE  proc'[p] = m /\ OnlyMoves(p)
  BY <1>2, <1>4 DEF OnlyMoves
<1> QED
  BY <1>1, <1>2, <1>3, <1>4 DEF Works, PicksEvent

LEMMA StartMoves ==
    ASSUME WInv, NEW p \in Process, QuarantineStart(p) \/ RepairStart(p)
    PROVE  EvidenceSame /\ (Ends(p) \/ Works(p))
<1>1. proc \in [Process -> Memory] /\ proc[p].pc = "opened" /\ EvidenceSame
  BY DEF WInv, TypeOK, QuarantineStart, RepairStart, EvidenceSame, durable
<1>2. CASE Exit(p)
  BY <1>1, <1>2, ExitEnds
<1>3. ASSUME NEW cp, proc' = [proc EXCEPT ![p].pc = "gate", ![p].checkpoint = cp]
      PROVE  Works(p)
  BY <1>1, <1>3 DEF Memory, Works, Goes, OnlyMoves
<1>4. ASSUME NEW cp, NEW todo, checkpointFile[proc[p].event] # None,
             proc' = [proc EXCEPT ![p].pc = "retire", ![p].checkpoint = cp, ![p].todo = todo]
      PROVE  Works(p)
  BY <1>1, <1>4 DEF Memory, Works, Goes, OnlyMoves
<1>5. CASE QuarantineStart(p)
  BY <1>1, <1>2, <1>3, <1>5 DEF QuarantineStart
<1>6. CASE RepairStart(p)
  <2> DEFINE cp == checkpointFile[proc[p].event]
             direct == {a \in cp.items : row[a].inputs = {}}
  <2>1. \/ Exit(p)
        \/ /\ cp # None
           /\ proc' = [proc EXCEPT ![p].pc = "retire", ![p].checkpoint = cp, ![p].todo = direct]
    BY <1>6 DEF RepairStart, CheckpointIsValid
  <2> HIDE DEF direct
  <2> QED
    BY <1>1, <1>2, <1>4, <2>1
<1> QED
  BY <1>5, <1>6

LEMMA PassesMove ==
    ASSUME WInv, NEW p \in Process,
           Gate(p) \/ EndPassOne(p) \/ \E a \in ArtifactId : RetireItem(p, a) \/ RebuildItem(p, a)
    PROVE  EvidenceSame /\ Works(p)
<1>1. proc \in [Process -> Memory] /\ proc[p] \in Memory
  BY DEF WInv, TypeOK
<1>2. CASE Gate(p)
  <2>1. PICK cp : /\ proc[p].pc = "gate"
                  /\ proc' = [proc EXCEPT ![p].pc = "write checkpoint", ![p].checkpoint = cp]
    BY <1>2 DEF Gate
  <2>2. EvidenceSame
    BY <1>2 DEF Gate, EvidenceSame
  <2> QED
    BY <1>1, <2>1, <2>2 DEF Memory, Works, Goes, OnlyMoves
<1>3. CASE EndPassOne(p)
  <2>1. PICK todo : /\ proc[p].pc = "retire"
                    /\ proc' = [proc EXCEPT ![p].pc = "rebuild", ![p].todo = todo]
    BY <1>3 DEF EndPassOne
  <2>2. EvidenceSame
    BY <1>3 DEF EndPassOne, EvidenceSame, durable
  <2> QED
    BY <1>1, <2>1, <2>2 DEF Memory, Works, Goes, OnlyMoves
<1>4. ASSUME NEW a \in ArtifactId, RetireItem(p, a) PROVE EvidenceSame /\ Works(p)
  <2>1. PICK todo, dropped, captured :
           /\ proc[p].pc = "retire"
           /\ proc' = [proc EXCEPT ![p].todo = todo, ![p].dropped = dropped,
                                   ![p].captured = captured]
    BY <1>4 DEF RetireItem
  <2>2. EvidenceSame
    BY <1>4 DEF RetireItem, EvidenceSame
  <2>3. proc'[p].pc = "retire" /\ proc'[p].event = proc[p].event /\ OnlyMoves(p)
    BY <1>1, <2>1 DEF Memory, OnlyMoves
  <2> QED
    BY <2>1, <2>2, <2>3 DEF Works, Goes
<1>5. ASSUME NEW a \in ArtifactId, RebuildItem(p, a) PROVE EvidenceSame /\ Works(p)
  <2>1. PICK todo, l : /\ proc[p].pc = "rebuild"
                       /\ proc' = [proc EXCEPT ![p].todo = todo, ![p].ledger = l]
    BY <1>5 DEF RebuildItem
  <2>2. EvidenceSame
    BY <1>5 DEF RebuildItem, EvidenceSame
  <2> QED
    BY <1>1, <2>1, <2>2 DEF Memory, Works, Goes, OnlyMoves
<1> QED
  BY <1>2, <1>3, <1>4, <1>5

LEMMA LooksMove ==
    ASSUME WInv, NEW p \in Process,
           ReadRegistry(p) \/ \E scan \in ScanResult : LookForReceipt(p, scan)
    PROVE  EvidenceSame /\ (Ends(p) \/ Works(p))
<1>1. proc \in [Process -> Memory] /\ proc[p] \in Memory
  BY DEF WInv, TypeOK
<1>2. CASE ReadRegistry(p)
  <2>1. proc[p].pc = "record applied" /\ EvidenceSame
    BY <1>2 DEF ReadRegistry, EvidenceSame, durable
  <2>2. CASE Exit(p)
    BY <2>1, <2>2, ExitEnds
  <2>3. CASE proc' = [proc EXCEPT ![p].pc = "replace registry", ![p].registry = appliedFile]
    <3>1. /\ proc'[p].pc = "replace registry" /\ proc'[p].event = proc[p].event
          /\ proc'[p].registry = appliedFile /\ OnlyMoves(p)
      BY <1>1, <2>3 DEF Memory, OnlyMoves
    <3> QED
      BY <2>1, <3>1 DEF Works, Goes
  <2> QED
    BY <1>2, <2>2, <2>3 DEF ReadRegistry
<1>3. ASSUME NEW scan \in ScanResult, LookForReceipt(p, scan)
      PROVE  EvidenceSame /\ (Ends(p) \/ Works(p))
  <2> DEFINE receipt == ReceiptOf(proc[p], scan)
  <2>1. /\ proc[p].pc = "rebuild" /\ EvidenceSame
        /\ \/ /\ IsNew(proc[p].event)
              /\ proc' = [proc EXCEPT ![p].pc = "replace receipt", ![p].receipt = receipt]
           \/ proc' = [proc EXCEPT ![p].pc = Following("receipt")]
           \/ Exit(p)
    BY <1>3 DEF LookForReceipt, EvidenceSame, durable
  <2> HIDE DEF receipt
  <2>2. CASE Exit(p)
    BY <2>1, <2>2, ExitEnds
  <2>3. CASE /\ IsNew(proc[p].event)
             /\ proc' = [proc EXCEPT ![p].pc = "replace receipt", ![p].receipt = receipt]
    BY <1>1, <2>1, <2>3 DEF Memory, Works, Goes, OnlyMoves, IsNew
  <2>4. CASE proc' = [proc EXCEPT ![p].pc = Following("receipt")]
    BY <1>1, <2>1, <2>4 DEF Memory, Works, Goes, OnlyMoves, Following
  <2> QED
    BY <2>1, <2>2, <2>3, <2>4
<1> QED
  BY <1>2, <1>3

LEMMA RecordsMove ==
    ASSUME WInv, NEW p \in Process,
           WriteCheckpoint(p) \/ ReplaceReceipt(p) \/ ReplaceRegistry(p) \/ Consume(p)
    PROVE  Records(p)
<1>1. proc \in [Process -> Memory] /\ proc[p] \in Memory
  BY DEF WInv, TypeOK
<1>2. CASE WriteCheckpoint(p) \/ Consume(p)
  BY <1>2, ExitEnds DEF WriteCheckpoint, Consume, Records
<1>3. CASE ReplaceReceipt(p)
  <2>1. /\ proc[p].pc = "replace receipt"
        /\ proc' = [proc EXCEPT ![p].pc = "record applied", ![p].receipt = None]
    BY <1>3 DEF ReplaceReceipt, Following
  <2> QED
    BY <1>1, <1>3, <2>1 DEF Memory, Records, Goes, OnlyMoves
<1>4. CASE ReplaceRegistry(p)
  <2>1. /\ proc[p].pc = "replace registry"
        /\ proc' = [proc EXCEPT ![p].pc = "consume", ![p].registry = None]
    BY <1>4 DEF ReplaceRegistry, Following
  <2> QED
    BY <1>1, <1>4, <2>1 DEF Memory, Records, Goes, OnlyMoves
<1> QED
  BY <1>2, <1>3, <1>4

LEMMA ProcessesMove ==
    ASSUME WInv, [Next]_vars
    PROVE  \/ EvidenceSame /\ proc' = proc
           \/ \E p \in Process : EvidenceSame /\ (Ends(p) \/ Works(p))
           \/ \E p \in Process : Records(p)
<1>1. CASE \/ UNCHANGED vars
           \/ \E l \in Line : AppendLineage(l)
           \/ \E e \in Event : Publish(e)
  BY <1>1 DEF vars, durable, AppendLineage, Publish, EvidenceSame
<1>2. ASSUME NEW p \in Process, Crash(p) PROVE EvidenceSame /\ Ends(p)
  BY <1>2, ExitEnds DEF Crash, durable, EvidenceSame
<1> QED
  BY <1>1, <1>2, OpeningMoves, StartMoves, PassesMove, LooksMove, RecordsMove DEF Next, Continue

\* Once two commands have raced for a file, they have.
LEMMA RacesLast == ASSUME WInv, [Next]_vars, raced PROVE raced'
<1>1. \A p \in Process : Records(p) => raced'
  BY DEF Records, WriteCheckpoint, ReplaceReceipt, ReplaceRegistry, Consume
<1> QED
  BY <1>1, ProcessesMove DEF EvidenceSame

-----------------------------------------------------------------------------
\* How the evidence moves.

\* Steps keep every checkpoint as it is, replace it by a fresh one, or consume it.
LEMMA CheckpointsMove ==
    ASSUME WInv, [Next]_vars, NEW e \in Event
    PROVE  \/ checkpointFile'[e] = checkpointFile[e]
           \/ checkpointFile'[e] # None /\ ~checkpointFile'[e].consumed
           \/ \E p \in Process : proc[p].pc = "consume" /\ proc[p].event = e
<1>1. checkpointFile \in [Event -> {None} \cup Checkpoint] /\ \A p \in Process : Grounded(p)
  BY DEF WInv, TypeOK
<1>2. ASSUME NEW p \in Process, WriteCheckpoint(p)
      PROVE  \/ checkpointFile'[e] = checkpointFile[e]
             \/ checkpointFile'[e] # None /\ ~checkpointFile'[e].consumed
  <2>1. /\ proc[p].pc = "write checkpoint"
        /\ checkpointFile' = [checkpointFile EXCEPT ![proc[p].event] = proc[p].checkpoint]
    BY <1>2 DEF WriteCheckpoint
  <2>2. proc[p].checkpoint \in Checkpoint /\ ~proc[p].checkpoint.consumed
    BY <1>1, <2>1 DEF Grounded
  <2> QED
    BY <1>1, <2>1, <2>2, WorkspaceAssumption
<1>3. ASSUME NEW p \in Process, Consume(p), proc[p].event # e
      PROVE  checkpointFile'[e] = checkpointFile[e]
  BY <1>1, <1>3 DEF Consume
<1>4. ASSUME NEW p \in Process, ReplaceReceipt(p) \/ ReplaceRegistry(p)
      PROVE  checkpointFile' = checkpointFile
  BY <1>4 DEF ReplaceReceipt, ReplaceRegistry
<1>5. \A p \in Process : Consume(p) => proc[p].pc = "consume"
  BY DEF Consume
<1> QED
  BY <1>2, <1>3, <1>4, <1>5, ProcessesMove DEF Records, EvidenceSame

\* Receipts and entries change where they are replaced only.
LEMMA EvidenceMoves ==
    ASSUME WInv, [Next]_vars
    PROVE  /\ receiptFile' = receiptFile \/ \E p \in Process : ReplaceReceipt(p)
           /\ appliedFile' = appliedFile \/ \E p \in Process : ReplaceRegistry(p)
           /\ \A e \in Event : receiptFile[e] # None => receiptFile'[e] # None
<1>1. ASSUME NEW p \in Process, WriteCheckpoint(p) \/ Consume(p)
      PROVE  receiptFile' = receiptFile /\ appliedFile' = appliedFile
  BY <1>1 DEF WriteCheckpoint, Consume
<1>2. ASSUME NEW p \in Process, ReplaceReceipt(p)
      PROVE  /\ appliedFile' = appliedFile
             /\ \A e \in Event : receiptFile[e] # None => receiptFile'[e] # None
  <2>1. /\ receiptFile' = [receiptFile EXCEPT ![proc[p].event] = proc[p].receipt]
        /\ appliedFile' = appliedFile /\ proc[p].receipt \in Receipt
    BY <1>2 DEF ReplaceReceipt, WInv, Grounded
  <2> QED
    BY <2>1, WorkspaceAssumption DEF WInv, TypeOK
<1>3. ASSUME NEW p \in Process, ReplaceRegistry(p) PROVE receiptFile' = receiptFile
  BY <1>3 DEF ReplaceRegistry
<1> QED
  BY <1>1, <1>2, <1>3, ProcessesMove DEF Records, EvidenceSame

\* The event of a process that goes on is the one it picked.
LEMMA EventMoves ==
    ASSUME WInv, [Next]_vars, NEW p \in Process
    PROVE  \/ proc'[p].pc = "exited"
           \/ proc[p].pc # "exited" /\ proc'[p].event = proc[p].event
           \/ PicksEvent(p) /\ EvidenceSame
<1>1. \A q \in Process : OnlyMoves(q) /\ p # q => proc'[p] = proc[p]
  BY DEF OnlyMoves
<1>2. ASSUME NEW q \in Process, Ends(q)
      PROVE  proc'[p].pc = "exited" \/ proc'[p] = proc[p]
  BY <1>1, <1>2 DEF Ends
<1>3. ASSUME NEW q \in Process, Works(q), EvidenceSame
      PROVE  \/ proc'[p] = proc[p]
             \/ proc[p].pc # "exited" /\ proc'[p].event = proc[p].event
             \/ PicksEvent(p) /\ EvidenceSame
  BY <1>1, <1>3 DEF Works, Goes, PicksEvent
<1>4. ASSUME NEW q \in Process, Records(q)
      PROVE  \/ proc'[p].pc = "exited" \/ proc'[p] = proc[p]
             \/ proc[p].pc # "exited" /\ proc'[p].event = proc[p].event
  BY <1>1, <1>2, <1>4 DEF Records, Goes
<1> QED
  BY <1>2, <1>3, <1>4, ProcessesMove

\* What a process is about to replace is what it looked at.
Current(p) ==
    /\ proc[p].pc = "replace receipt" => receiptFile[proc[p].event] = None
    /\ proc[p].pc = "replace registry" => proc[p].registry = appliedFile

\* Every entry that a process has read rests on a receipt.
Supported(entries) ==
    \A r \in Root : entries[r] # 0 =>
        \E e \in Event : e.root = r /\ e.seq = entries[r] /\ receiptFile[e] # None

Viewed(p) == proc[p].pc = "replace registry" => Supported(proc[p].registry)

\* What keeps the writebacks in order while no two commands raced for a file:
\* the registry has a last entry, and a process past the registry finds the
\* entry of its event there.
RegistryIsBounded == \E n \in Nat : \A r \in Root : appliedFile[r] <= n

Numbered(p) ==
    /\ proc[p].pc # "exited" => proc[p].event.seq # 0
    /\ proc[p].pc = "consume" => appliedFile[proc[p].event.root] = proc[p].event.seq

ConsumedIsNumbered ==
    \A e \in Event : checkpointFile[e] # None /\ checkpointFile[e].consumed
                        => e.seq # 0 /\ e.root \in Root

Orderly ==
    /\ RegistryIsBounded /\ ConsumedIsNumbered
    /\ \A p \in Process : Current(p) /\ Numbered(p)

EInv ==
    /\ WInv /\ WritebackInOrder
    /\ \A p \in Process : Viewed(p)
    /\ ~raced => Orderly

LEMMA EInvInit == Init => EInv
<1> SUFFICES ASSUME Init PROVE EInv
  OBVIOUS
<1>1. \A p \in Process : proc[p].pc = "exited"
  BY DEF Init, Exited
<1>2. \A r \in Root : appliedFile[r] = 0
  BY DEF Init
<1>3. RegistryIsBounded
  <2>1. 0 \in Nat /\ \A r \in Root : appliedFile[r] <= 0
    BY <1>2
  <2> QED
    BY <2>1 DEF RegistryIsBounded
<1> QED
  BY <1>1, <1>2, <1>3, WInvInit
  DEF Init, EInv, Orderly, WritebackInOrder, ConsumedIsNumbered, Numbered, Current, Viewed

LEMMA LastAppliedType ==
    ASSUME TypeOK, RegistryIsBounded
    PROVE  /\ LastApplied \in Nat /\ \A r \in Root : appliedFile[r] <= LastApplied
           /\ LastApplied # 0 => \E r \in Root : appliedFile[r] = LastApplied
<1> DEFINE S == {0} \cup {appliedFile[r] : r \in Root}
<1>1. S \subseteq Nat /\ S # {} /\ \A r \in Root : appliedFile[r] \in S
  BY DEF TypeOK
<1>2. PICK n \in Nat : \A r \in Root : appliedFile[r] <= n
  BY DEF RegistryIsBounded
<1>3. \A s \in S : s <= n
  BY <1>2
<1>4. LastApplied = Max(S)
  BY DEF LastApplied
<1>5. \A s \in S : s = 0 \/ \E r \in Root : appliedFile[r] = s
  OBVIOUS
<1> HIDE DEF S
<1>6. Max(S) \in S /\ \A s \in S : s <= Max(S)
  BY <1>1, <1>2, <1>3, MaxExists
<1> QED
  BY <1>1, <1>4, <1>5, <1>6

\* Without a race, the registry gains the entry of one process that has checked
\* it, or stays.
RegistryGains(p) ==
    LET e == proc[p].event
    IN  /\ Goes(p, "replace registry", "consume")
        /\ appliedFile[e.root] \in {0, e.seq}
        /\ appliedFile' = [appliedFile EXCEPT ![e.root] = e.seq]

LEMMA RegistryStep ==
    ASSUME WInv, NEW p \in Process, Current(p), ReplaceRegistry(p)
    PROVE  RegistryGains(p)
<1>1. /\ proc[p].pc = "replace registry"
      /\ appliedFile' = [proc[p].registry EXCEPT ![proc[p].event.root] = proc[p].event.seq]
  BY DEF ReplaceRegistry, AppliedWith
<1>2. proc[p].registry = appliedFile /\ appliedFile[proc[p].event.root] \in {0, proc[p].event.seq}
  BY <1>1 DEF WInv, Grounded, Current
<1>3. Goes(p, "replace registry", "consume")
  BY <1>1, RecordsMove DEF Records, Ends, Goes, WriteCheckpoint, Consume
<1> QED
  BY <1>1, <1>2, <1>3 DEF RegistryGains

\* What was orderly before a step, if no command has raced after it.
LEMMA WasOrderly ==
    ASSUME EInv, [Next]_vars, ~raced'
    PROVE  /\ ~raced /\ WInv /\ RegistryIsBounded /\ ConsumedIsNumbered
           /\ \A p \in Process : Current(p) /\ Numbered(p)
           /\ appliedFile' = appliedFile \/ \E p \in Process : RegistryGains(p)
<1>1. WInv
  BY DEF EInv
<1>2. ~raced
  BY <1>1, RacesLast
<1> QED
  BY <1>1, <1>2, EvidenceMoves, RegistryStep DEF EInv, Orderly

\* A receipt and an entry, once made, stay.
LEMMA ReceiptsStay ==
    ASSUME EInv, [Next]_vars, ~raced', NEW e \in Event, receiptFile[e] # None
    PROVE  receiptFile'[e] = receiptFile[e]
<1>1. ASSUME NEW p \in Process, ReplaceReceipt(p) PROVE receiptFile'[e] = receiptFile[e]
  <2>1. /\ receiptFile' = [receiptFile EXCEPT ![proc[p].event] = proc[p].receipt]
        /\ proc[p].pc = "replace receipt"
    BY <1>1 DEF ReplaceReceipt
  <2>2. receiptFile[proc[p].event] = None
    BY <2>1, WasOrderly DEF Current
  <2> QED
    BY <2>1, <2>2, WasOrderly DEF WInv, TypeOK
<1> QED
  BY <1>1, EvidenceMoves DEF EInv

LEMMA EntriesStay ==
    ASSUME EInv, [Next]_vars, ~raced', NEW r \in Root, appliedFile[r] # 0
    PROVE  appliedFile'[r] = appliedFile[r]
<1>1. appliedFile \in [Root -> Nat]
  BY DEF EInv, WInv, TypeOK
<1> QED
  BY <1>1, WasOrderly DEF RegistryGains

\* Entries that rest on receipts go on doing so.
LEMMA SupportStays ==
    ASSUME WInv, [Next]_vars, NEW entries, Supported(entries)
    PROVE  Supported(entries)'
  BY EvidenceMoves DEF Supported

LEMMA ViewsStay ==
    ASSUME EInv, [Next]_vars
    PROVE  Supported(appliedFile)' /\ \A p \in Process : Viewed(p)'
<1>1. WInv /\ Supported(appliedFile) /\ \A p \in Process : Viewed(p)
  BY DEF EInv, WritebackInOrder, Supported
<1>2. ASSUME NEW entries, Supported(entries) PROVE Supported(entries)'
  BY <1>1, <1>2, SupportStays
<1>3. ASSUME NEW p \in Process, proc'[p] = proc[p] PROVE Viewed(p)'
  <2>1. CASE proc[p].pc = "replace registry"
    <3>1. Supported(proc[p].registry)
      BY <1>1, <2>1 DEF Viewed
    <3> DEFINE entries == proc[p].registry
    <3>2. \A r \in Root : entries[r] # 0 =>
             \E e \in Event : e.root = r /\ e.seq = entries[r] /\ receiptFile'[e] # None
      BY <1>1, <3>1, EvidenceMoves DEF Supported
    <3> QED
      BY <1>3, <3>2 DEF Viewed, Supported
  <2>2. CASE proc[p].pc # "replace registry"
    BY <1>3, <2>2 DEF Viewed
  <2> QED
    BY <2>1, <2>2
<1>4. ASSUME appliedFile' = appliedFile PROVE Supported(appliedFile)'
  BY <1>1, <1>4, EvidenceMoves DEF Supported
<1>5. ASSUME NEW p \in Process, OnlyMoves(p), Viewed(p)' PROVE \A q \in Process : Viewed(q)'
  BY <1>3, <1>5 DEF OnlyMoves
<1>6. CASE EvidenceSame /\ proc' = proc
  BY <1>3, <1>4, <1>6 DEF EvidenceSame
<1>7. ASSUME NEW p \in Process, EvidenceSame, Ends(p) \/ Works(p)
      PROVE  Supported(appliedFile)' /\ \A q \in Process : Viewed(q)'
  <2>1. appliedFile' = appliedFile /\ Supported(appliedFile)'
    BY <1>4, <1>7 DEF EvidenceSame
  <2>2. /\ OnlyMoves(p)
        /\ proc'[p].pc = "replace registry" => proc'[p].registry = appliedFile
    BY <1>7 DEF Ends, Works, Goes, PicksEvent
  <2>3. ASSUME proc'[p].pc = "replace registry"
        PROVE  \A r \in Root : (proc'[p].registry)[r] # 0 =>
                  \E e \in Event :
                      e.root = r /\ e.seq = (proc'[p].registry)[r] /\ receiptFile'[e] # None
    <3>1. \A r \in Root : appliedFile'[r] # 0 =>
             \E e \in Event : e.root = r /\ e.seq = appliedFile'[r] /\ receiptFile'[e] # None
      BY <2>1 DEF Supported
    <3>2. proc'[p].registry = appliedFile'
      BY <2>1, <2>2, <2>3
    <3> QED
      BY <3>1, <3>2
  <2>4. Viewed(p)'
    BY <2>3 DEF Viewed, Supported
  <2> QED
    BY <1>5, <2>1, <2>2, <2>4
<1>8. ASSUME NEW p \in Process, Records(p)
      PROVE  Supported(appliedFile)' /\ \A q \in Process : Viewed(q)'
  <2>1. OnlyMoves(p) /\ proc'[p].pc # "replace registry"
    BY <1>8 DEF Records, Ends, Goes
  <2>2. \A q \in Process : Viewed(q)'
    BY <1>5, <2>1 DEF Viewed
  <2>3. ASSUME ReplaceRegistry(p) PROVE Supported(appliedFile)'
    <3>1. /\ appliedFile' = [proc[p].registry EXCEPT ![proc[p].event.root] = proc[p].event.seq]
          /\ receiptFile' = receiptFile /\ proc[p].pc = "replace registry"
      BY <2>3 DEF ReplaceRegistry, AppliedWith
    <3>2. /\ proc[p].event \in Event /\ proc[p].event.root \in Root
          /\ receiptFile[proc[p].event] # None
          /\ proc[p].registry \in [Root -> Nat] /\ Supported(proc[p].registry)
      BY <1>1, <3>1 DEF WInv, Grounded, Viewed
    <3> DEFINE ev == proc[p].event
               entries == proc[p].registry
    <3>3. ASSUME NEW r \in Root, appliedFile'[r] # 0
          PROVE  \E e \in Event : e.root = r /\ e.seq = appliedFile'[r] /\ receiptFile'[e] # None
      <4>1. CASE r = ev.root
        BY <3>1, <3>2, <4>1
      <4>2. CASE r # ev.root
        <5>1. appliedFile'[r] = entries[r]
          BY <3>1, <3>2, <4>2
        <5> QED
          BY <3>1, <3>2, <3>3, <5>1 DEF Supported
      <4> QED
        BY <4>1, <4>2
    <3> QED
      BY <3>3 DEF Supported
  <2>4. \/ appliedFile' = appliedFile
        \/ ReplaceRegistry(p)
    BY <1>8 DEF Records, WriteCheckpoint, ReplaceReceipt, Consume
  <2> QED
    BY <1>4, <2>2, <2>3, <2>4
<1> QED
  BY <1>1, <1>6, <1>7, <1>8, ProcessesMove

\* Without a race nobody replaces what another is about to.
LEMMA CurrentStays ==
    ASSUME EInv, [Next]_vars, ~raced', NEW p \in Process
    PROVE  Current(p)'
<1>1. WInv /\ Current(p) /\ \A q \in Process : Current(q)
  BY WasOrderly
<1>2. ASSUME proc'[p] = proc[p], UNCHANGED <<receiptFile, appliedFile>> PROVE Current(p)'
  BY <1>1, <1>2 DEF Current
<1>3. CASE EvidenceSame /\ proc' = proc
  BY <1>2, <1>3 DEF EvidenceSame
<1>4. ASSUME NEW q \in Process, EvidenceSame, Ends(q) \/ Works(q) PROVE Current(p)'
  <2>1. CASE p # q
    BY <1>2, <1>4, <2>1 DEF EvidenceSame, Ends, Works, Goes, PicksEvent, OnlyMoves
  <2>2. CASE p = q
    BY <1>4, <2>2 DEF EvidenceSame, Ends, Works, Goes, PicksEvent, Current
  <2> QED
    BY <2>1, <2>2
<1>5. ASSUME NEW q \in Process, Records(q) PROVE Current(p)'
  <2>1. CASE p = q
    BY <1>5, <2>1 DEF Records, Ends, Goes, Current
  <2>2. CASE p # q
    <3>1. proc'[p] = proc[p]
      BY <1>5, <2>2 DEF Records, Ends, Goes, OnlyMoves
    <3>2. CASE WriteCheckpoint(q) \/ Consume(q)
      BY <1>2, <3>1, <3>2 DEF WriteCheckpoint, Consume
    <3>3. CASE ReplaceReceipt(q)
      <4>1. /\ ~ReceiptIsContended(q) /\ appliedFile' = appliedFile
            /\ receiptFile' = [receiptFile EXCEPT ![proc[q].event] = proc[q].receipt]
        BY <3>3 DEF ReplaceReceipt
      <4>2. proc[p].pc = "replace receipt" => proc[p].event # proc[q].event /\ proc[p].event \in Event
        BY <1>1, <2>2, <4>1 DEF ReceiptIsContended, WInv, Grounded
      <4>3. proc[p].pc = "replace receipt" => receiptFile'[proc[p].event] = receiptFile[proc[p].event]
        BY <1>1, <4>1, <4>2 DEF WInv, TypeOK
      <4> QED
        BY <1>1, <3>1, <4>1, <4>3 DEF Current
    <3>4. CASE ReplaceRegistry(q)
      <4>1. ~RegistryIsContended(q) /\ receiptFile' = receiptFile
        BY <3>4 DEF ReplaceRegistry
      <4>2. proc[p].pc # "replace registry"
        BY <2>2, <4>1 DEF RegistryIsContended
      <4> QED
        BY <1>1, <3>1, <4>1, <4>2 DEF Current
    <3> QED
      BY <1>5, <3>2, <3>3, <3>4 DEF Records
  <2> QED
    BY <2>1, <2>2
<1> QED
  BY <1>1, <1>3, <1>4, <1>5, ProcessesMove

LEMMA NumbersStay ==
    ASSUME EInv, [Next]_vars, ~raced', NEW p \in Process
    PROVE  Numbered(p)'
<1>1. /\ WInv /\ WInv' /\ TypeOK /\ RegistryIsBounded /\ Numbered(p) /\ Grounded(p)
      /\ appliedFile \in [Root -> Nat] /\ \A q \in Process : Current(q)
  BY WasOrderly, WInvStep DEF WInv, TypeOK
<1>2. ASSUME proc'[p].pc # "exited" PROVE proc'[p].event.seq # 0
  <2>1. CASE proc[p].pc # "exited" /\ proc'[p].event = proc[p].event
    BY <1>1, <2>1 DEF Numbered
  <2>2. CASE PicksEvent(p)
    <3>1. proc'[p].event.seq = LastApplied + 1
      BY <1>1, <2>2, ObservableIsNext DEF PicksEvent
    <3>2. LastApplied \in Nat
      BY <1>1, LastAppliedType
    <3> QED
      BY <3>1, <3>2
  <2> QED
    BY <1>1, <1>2, <2>1, <2>2, EventMoves
<1>3. ASSUME proc'[p].pc = "consume"
      PROVE  appliedFile'[proc'[p].event.root] = proc'[p].event.seq
  <2>1. CASE proc'[p] = proc[p]
    <3>1. /\ proc[p].event.root \in Root /\ proc[p].event.seq # 0
          /\ appliedFile[proc[p].event.root] = proc[p].event.seq
      BY <1>1, <1>3, <2>1 DEF Grounded, Numbered
    <3> QED
      BY <2>1, <3>1, EntriesStay
  <2>2. CASE ReplaceRegistry(p)
    <3>1. RegistryGains(p)
      BY <1>1, <2>2, RegistryStep
    <3> QED
      BY <1>1, <3>1 DEF RegistryGains, Goes, Grounded
  <2>3. \/ proc'[p] = proc[p]
        \/ ReplaceRegistry(p)
    <3>1. ASSUME NEW q \in Process, Ends(q) \/ Works(q) PROVE proc'[p] = proc[p]
      <4>1. OnlyMoves(q) /\ proc'[q].pc # "consume"
        BY <3>1 DEF Ends, Works, Goes, PicksEvent
      <4> QED
        BY <1>3, <4>1 DEF OnlyMoves
    <3>2. ASSUME NEW q \in Process, Records(q), ~ReplaceRegistry(q) PROVE proc'[p] = proc[p]
      <4>1. OnlyMoves(q) /\ proc'[q].pc # "consume"
        BY <3>2 DEF Records, Ends, Goes
      <4> QED
        BY <1>3, <4>1 DEF OnlyMoves
    <3>3. ASSUME NEW q \in Process, Records(q), ReplaceRegistry(q), p # q PROVE proc'[p] = proc[p]
      BY <3>3, RecordsMove DEF Records, Ends, Goes, OnlyMoves
    <3> QED
      BY <1>1, <3>1, <3>2, <3>3, ProcessesMove
  <2> QED
    BY <2>1, <2>2, <2>3
<1> QED
  BY <1>2, <1>3 DEF Numbered

LEMMA BoundStays ==
    ASSUME EInv, [Next]_vars, ~raced'
    PROVE  RegistryIsBounded'
<1>1. WInv /\ RegistryIsBounded /\ appliedFile \in [Root -> Nat] /\ \A p \in Process : Grounded(p)
  BY WasOrderly DEF WInv, TypeOK
<1>2. \A e \in Event : e.seq \in Nat
  BY WorkspaceAssumption DEF IsErratum
<1>3. PICK n \in Nat : \A r \in Root : appliedFile[r] <= n
  BY <1>1 DEF RegistryIsBounded
<1>4. CASE appliedFile' = appliedFile
  BY <1>3, <1>4 DEF RegistryIsBounded
<1>5. ASSUME NEW p \in Process, RegistryGains(p) PROVE RegistryIsBounded'
  <2>1. /\ proc[p].event \in Event /\ proc[p].event.seq \in Nat
        /\ appliedFile' = [appliedFile EXCEPT ![proc[p].event.root] = proc[p].event.seq]
    BY <1>1, <1>2, <1>5 DEF RegistryGains, Goes, Grounded
  <2> DEFINE s == proc[p].event.seq
  <2>2. \A r \in Root : appliedFile'[r] \in {appliedFile[r], s}
    BY <1>1, <2>1
  <2>3. s \in Nat
    BY <2>1
  <2> HIDE DEF s
  <2>4. \A r \in Root : appliedFile'[r] <= n + s
    BY <1>1, <1>3, <2>2, <2>3
  <2>5. n + s \in Nat
    BY <1>3, <2>3
  <2> QED
    BY <2>4, <2>5 DEF RegistryIsBounded
<1> QED
  BY <1>4, <1>5, WasOrderly

LEMMA EInvStep == EInv /\ [Next]_vars => EInv'
<1> SUFFICES ASSUME EInv, [Next]_vars PROVE EInv'
  OBVIOUS
<1>1. WInv /\ WInv' /\ \A p \in Process : Grounded(p)
  BY WInvStep DEF EInv, WInv
<1>2. ASSUME NEW e \in Event, checkpointFile'[e] # None, checkpointFile'[e].consumed
      PROVE  /\ receiptFile'[e] # None
             /\ ~raced' => e.seq # 0 /\ e.root \in Root /\ appliedFile'[e.root] = e.seq
  <2>1. /\ receiptFile[e] # None
        /\ ~raced' => e.seq # 0 /\ e.root \in Root /\ appliedFile[e.root] = e.seq
    <3>1. CASE checkpointFile'[e] = checkpointFile[e]
      BY <1>2, <3>1, WasOrderly DEF EInv, WritebackInOrder, ConsumedIsNumbered
    <3>2. ASSUME NEW p \in Process, proc[p].pc = "consume", proc[p].event = e
          PROVE  /\ receiptFile[e] # None
                 /\ ~raced' => e.seq # 0 /\ e.root \in Root /\ appliedFile[e.root] = e.seq
      BY <1>1, <3>2, WasOrderly DEF Grounded, Numbered
    <3> QED
      BY <1>1, <1>2, <3>1, <3>2, CheckpointsMove
  <2> QED
    BY <1>1, <2>1, EntriesStay, EvidenceMoves
<1>3. Supported(appliedFile)' /\ \A p \in Process : Viewed(p)'
  BY ViewsStay
<1>4. WritebackInOrder'
  BY <1>2, <1>3 DEF WritebackInOrder, Supported
<1>5. ~raced' => Orderly'
  BY <1>2, BoundStays, CurrentStays, NumbersStay DEF Orderly, ConsumedIsNumbered
<1> QED
  BY <1>1, <1>3, <1>4, <1>5 DEF EInv

LEMMA EInvHolds == Spec => []EInv
  BY EInvInit, EInvStep, PTL DEF Spec

\* Whichever commands run together and whatever died when, a consumed checkpoint
\* implies the receipt, and the applied entry unless two commands raced for a
\* file; and an applied entry implies the receipt it rests on.
THEOREM WritebacksStayInOrder == Spec => []WritebackInOrder
<1>1. EInv => WritebackInOrder
  BY DEF EInv
<1> QED
  BY EInvHolds, <1>1, PTL

\* Whichever commands run or die: until one replaces a file that another has
\* looked at in order to replace it, a receipt stays as signed and an applied
\* sequence as recorded.
THEOREM EvidenceStaysAsRecorded == Spec => EvidenceIsFinal
<1>1. EInv /\ [Next]_vars =>
        [~raced' =>
           /\ \A e \in Event : receiptFile[e] # None => receiptFile'[e] = receiptFile[e]
           /\ \A r \in Root : appliedFile[r] # 0 => appliedFile'[r] = appliedFile[r]]_vars
  BY EntriesStay, ReceiptsStay
<1> QED
  BY EInvHolds, <1>1, PTL DEF Spec, EvidenceIsFinal

\* One command at a time meets no other.
LEMMA SingleCommandsDoNotRace ==
    ASSUME \A p, q \in Process : p = q
    PROVE  Spec => []~raced
<1>1. Init => ~raced
  BY DEF Init
<1>2. WInv /\ ~raced /\ [Next]_vars => ~raced'
  <2> SUFFICES ASSUME WInv, ~raced, [Next]_vars PROVE ~raced'
    OBVIOUS
  <2>1. ASSUME NEW p \in Process, ReplaceReceipt(p) \/ ReplaceRegistry(p) PROVE ~raced'
    BY <2>1 DEF ReplaceReceipt, ReplaceRegistry, ReceiptIsContended, RegistryIsContended
  <2>2. ASSUME NEW p \in Process, Records(p) PROVE ~raced'
    BY <2>1, <2>2 DEF Records, WriteCheckpoint, Consume
  <2> QED
    BY <2>2, ProcessesMove DEF EvidenceSame
<1> QED
  BY <1>1, <1>2, WInvHolds, PTL DEF Spec

\* Where one command runs at a time, the evidence never changes, however often
\* that command dies and is run again.
THEOREM SingleCommandsKeepEvidence ==
    ASSUME \A p, q \in Process : p = q
    PROVE  Spec => [][/\ \A e \in Event : receiptFile[e] # None => receiptFile'[e] = receiptFile[e]
                      /\ \A r \in Root : appliedFile[r] # 0 => appliedFile'[r] = appliedFile[r]]_vars
<1>1. Spec => []~raced
  BY SingleCommandsDoNotRace
<1>2. EInv /\ ~raced' /\ [Next]_vars =>
        [/\ \A e \in Event : receiptFile[e] # None => receiptFile'[e] = receiptFile[e]
         /\ \A r \in Root : appliedFile[r] # 0 => appliedFile'[r] = appliedFile[r]]_vars
  BY EntriesStay, ReceiptsStay
<1> QED
  BY EInvHolds, <1>1, <1>2, PTL DEF Spec

-----------------------------------------------------------------------------
\* The refinement of the lifecycle.

Repairing == {"retire", "rebuild", "replace receipt", "record applied", "replace registry"}

Attested(e) == receiptFile[e] # None /\ appliedFile[e.root] = e.seq

\* The kinds of step that the lifecycle tells apart.
FilesKept ==
    /\ \A e \in Event : checkpointFile'[e] = None <=> checkpointFile[e] = None
    /\ UNCHANGED <<receiptFile, appliedFile>>

SameRepairs ==
    \A q \in Process :
        /\ proc'[q].pc \in Repairing <=> proc[q].pc \in Repairing
        /\ proc[q].pc \in Repairing => proc'[q].event = proc[q].event

Quiet == FilesKept /\ SameRepairs

RepairBegins(p) ==
    FilesKept /\ Goes(p, "opened", "retire") /\ checkpointFile[proc[p].event] # None

RepairEnds(p) ==
    FilesKept /\ OnlyMoves(p) /\ proc[p].pc \in Repairing /\ proc'[p].pc = "exited"

ReceiptIsWritten(p) ==
    /\ SameRepairs /\ UNCHANGED <<checkpointFile, appliedFile>>
    /\ proc[p].pc = "replace receipt"
    /\ receiptFile'[proc[p].event] # None
    /\ \A e \in Event : e # proc[p].event => receiptFile'[e] = receiptFile[e]

CheckpointIsWritten(p) ==
    /\ SameRepairs /\ UNCHANGED <<receiptFile, appliedFile>>
    /\ proc[p].pc = "write checkpoint"
    /\ checkpointFile'[proc[p].event] # None
    /\ \A e \in Event : e # proc[p].event => checkpointFile'[e] = checkpointFile[e]

EntryIsMade(p) ==
    RegistryGains(p) /\ UNCHANGED <<checkpointFile, receiptFile>>

Kinds ==
    \/ Quiet
    \/ \E p \in Process : \/ RepairBegins(p) \/ RepairEnds(p) \/ ReceiptIsWritten(p)
                          \/ CheckpointIsWritten(p) \/ EntryIsMade(p)

-----------------------------------------------------------------------------
\* Every step that does not race is one of the kinds.

LEMMA WorkIsOfAKind ==
    ASSUME NEW p \in Process, EvidenceSame, Ends(p) \/ Works(p)
    PROVE  Kinds
<1>1. FilesKept
  BY DEF EvidenceSame, FilesKept
<1>2. CASE Ends(p) /\ proc[p].pc \in Repairing
  BY <1>1, <1>2 DEF Ends, Kinds, RepairEnds
<1>3. CASE Goes(p, "opened", "retire") /\ checkpointFile[proc[p].event] # None
  BY <1>1, <1>3 DEF Kinds, RepairBegins
<1>4. ASSUME OnlyMoves(p), proc'[p].pc \in Repairing <=> proc[p].pc \in Repairing,
             proc[p].pc \in Repairing => proc'[p].event = proc[p].event
      PROVE  Kinds
  <2>1. SameRepairs
    BY <1>4 DEF SameRepairs, OnlyMoves
  <2> QED
    BY <1>1, <2>1 DEF Kinds, Quiet
<1>5. CASE Ends(p) /\ proc[p].pc \notin Repairing
  BY <1>4, <1>5 DEF Ends, Repairing
<1>6. ASSUME Works(p), ~(Goes(p, "opened", "retire") /\ checkpointFile[proc[p].event] # None)
      PROVE  Kinds
  BY <1>4, <1>6 DEF Works, Goes, PicksEvent, Repairing
<1> QED
  BY <1>2, <1>3, <1>5, <1>6

LEMMA RecordIsOfAKind ==
    ASSUME EInv, [Next]_vars, ~raced', NEW p \in Process, Records(p)
    PROVE  Kinds
<1>1. /\ WInv /\ Grounded(p) /\ Current(p)
      /\ checkpointFile \in [Event -> {None} \cup Checkpoint]
      /\ receiptFile \in [Event -> {None} \cup Receipt]
  BY WasOrderly DEF WInv, TypeOK
<1>2. ASSUME WriteCheckpoint(p), Ends(p) PROVE Kinds
  <2>1. /\ proc[p].pc = "write checkpoint" /\ UNCHANGED <<receiptFile, appliedFile>>
        /\ checkpointFile' = [checkpointFile EXCEPT ![proc[p].event] = proc[p].checkpoint]
    BY <1>2 DEF WriteCheckpoint
  <2>2. proc[p].event \in Event /\ proc[p].checkpoint # None
    BY <1>1, <2>1, WorkspaceAssumption DEF Grounded
  <2>3. SameRepairs
    BY <1>2, <2>1 DEF SameRepairs, Repairing, Ends, OnlyMoves
  <2>4. CheckpointIsWritten(p)
    BY <1>1, <2>1, <2>2, <2>3 DEF CheckpointIsWritten
  <2> QED
    BY <2>4 DEF Kinds
<1>3. ASSUME ReplaceReceipt(p), Goes(p, "replace receipt", "record applied") PROVE Kinds
  <2>1. /\ proc[p].pc = "replace receipt" /\ UNCHANGED <<checkpointFile, appliedFile>>
        /\ receiptFile' = [receiptFile EXCEPT ![proc[p].event] = proc[p].receipt]
    BY <1>3 DEF ReplaceReceipt
  <2>2. proc[p].event \in Event /\ proc[p].receipt # None
    BY <1>1, <2>1, WorkspaceAssumption DEF Grounded
  <2>3. SameRepairs
    BY <1>3 DEF SameRepairs, Repairing, Goes, OnlyMoves
  <2>4. ReceiptIsWritten(p)
    BY <1>1, <2>1, <2>2, <2>3 DEF ReceiptIsWritten
  <2> QED
    BY <2>4 DEF Kinds
<1>4. ASSUME ReplaceRegistry(p) PROVE Kinds
  <2>1. RegistryGains(p)
    BY <1>1, <1>4, RegistryStep
  <2>2. UNCHANGED <<checkpointFile, receiptFile>>
    BY <1>4 DEF ReplaceRegistry
  <2> QED
    BY <2>1, <2>2 DEF Kinds, EntryIsMade
<1>5. ASSUME Consume(p), Ends(p) PROVE Kinds
  <2>1. /\ proc[p].pc = "consume" /\ UNCHANGED <<receiptFile, appliedFile>>
        /\ checkpointFile' = [checkpointFile EXCEPT ![proc[p].event].consumed = TRUE]
    BY <1>5 DEF Consume
  <2>2. checkpointFile[proc[p].event] \in Checkpoint
    BY <1>1, <2>1 DEF Grounded
  <2>3. [checkpointFile[proc[p].event] EXCEPT !.consumed = TRUE] \in Checkpoint
    BY <2>2 DEF Checkpoint
  <2>4. FilesKept
    BY <1>1, <2>1, <2>2, <2>3, WorkspaceAssumption DEF FilesKept, Grounded
  <2>5. SameRepairs
    BY <1>5, <2>1 DEF SameRepairs, Repairing, Ends, OnlyMoves
  <2> QED
    BY <2>4, <2>5 DEF Kinds, Quiet
<1> QED
  BY <1>2, <1>3, <1>4, <1>5 DEF Records

LEMMA StepIsOfAKind ==
    ASSUME EInv, [Next]_vars, ~raced'
    PROVE  Kinds
<1>1. CASE EvidenceSame /\ proc' = proc
  BY <1>1 DEF EvidenceSame, Kinds, Quiet, FilesKept, SameRepairs
<1> QED
  BY <1>1, ProcessesMove, WorkIsOfAKind, RecordIsOfAKind DEF EInv

-----------------------------------------------------------------------------
\* Which events commands touch, and what they leave behind.

Touched(e) ==
    \/ checkpointFile[e] # None \/ receiptFile[e] # None
    \/ \E p \in Process : proc[p].pc # "exited" /\ proc[p].event = e

\* The feed has no event before e that does not precede it in sequence.
Chosen(e) ==
    \E n \in DOMAIN feed :
        feed[n] = e /\ \A m \in 1..(n - 1) : feed[m].seq < e.seq

TouchedAreNext ==
    \A e \in Event : Touched(e) =>
        Chosen(e) /\ e.root \in Root /\ e.seq # 0 /\ e.seq <= LastApplied + 1

AppliedAreAttested ==
    \A s \in 1..LastApplied : \E e \in Event : e.seq = s /\ Attested(e)

\* What holds of a directory in which no two commands have raced.
RInv == EInv /\ Orderly /\ TouchedAreNext /\ AppliedAreAttested

LEMMA ChosenIsUnique ==
    ASSUME TypeOK, NEW e \in Event, NEW f \in Event, Chosen(e), Chosen(f), e.seq = f.seq
    PROVE  e = f
<1>1. feed \in Seq(Event) /\ DOMAIN feed = 1..Len(feed) /\ Len(feed) \in Nat /\ e.seq \in Nat
  BY WorkspaceAssumption DEF TypeOK, IsErratum
<1>2. PICK n \in DOMAIN feed : feed[n] = e /\ \A m \in 1..(n - 1) : feed[m].seq < e.seq
  BY DEF Chosen
<1>3. PICK k \in DOMAIN feed : feed[k] = f /\ \A m \in 1..(k - 1) : feed[m].seq < f.seq
  BY DEF Chosen
<1>4. ~(n < k) /\ ~(k < n)
  BY <1>1, <1>2, <1>3
<1>5. n = k
  BY <1>1, <1>4
<1> QED
  BY <1>2, <1>3, <1>5

LEMMA FeedMoves ==
    ASSUME [Next]_vars
    PROVE  feed' = feed \/ \E f \in Event : feed' = Append(feed, f)
<1>1. ASSUME NEW p \in Process,
             Open(p) \/ QuarantineStart(p) \/ RepairStart(p) \/ Crash(p)
      PROVE  feed' = feed
  BY <1>1 DEF Open, QuarantineStart, RepairStart, Crash, durable
<1>2. ASSUME NEW p \in Process, Continue(p) PROVE feed' = feed
  <2>1. ASSUME NEW scan \in ScanResult, LookForReceipt(p, scan) PROVE feed' = feed
    BY <2>1 DEF LookForReceipt, durable
  <2>2. ASSUME NEW a \in ArtifactId, RetireItem(p, a) \/ RebuildItem(p, a)
        PROVE  feed' = feed
    BY <2>2 DEF RetireItem, RebuildItem
  <2>3. ASSUME \/ Gate(p) \/ WriteCheckpoint(p) \/ EndPassOne(p) \/ ReplaceReceipt(p)
               \/ ReadRegistry(p) \/ ReplaceRegistry(p) \/ Consume(p)
        PROVE  feed' = feed
    BY <2>3 DEF Gate, WriteCheckpoint, EndPassOne, ReplaceReceipt, ReadRegistry,
       ReplaceRegistry, Consume, durable
  <2> QED
    BY <1>2, <2>1, <2>2, <2>3 DEF Continue
<1>3. ASSUME NEW e \in Event, Publish(e) PROVE feed' = Append(feed, e)
  BY <1>3 DEF Publish
<1>4. ASSUME NEW l \in Line, AppendLineage(l) PROVE feed' = feed
  BY <1>4 DEF AppendLineage
<1> QED
  BY <1>1, <1>2, <1>3, <1>4 DEF Next, vars, durable

LEMMA ChosenStays ==
    ASSUME TypeOK, [Next]_vars, NEW e \in Event, Chosen(e)
    PROVE  Chosen(e)'
<1>1. feed' = feed \/ \E f \in Event : feed' = Append(feed, f)
  BY FeedMoves
<1>2. feed \in Seq(Event) /\ DOMAIN feed = 1..Len(feed) /\ Len(feed) \in Nat
  BY DEF TypeOK
<1>3. ASSUME NEW f \in Event, feed' = Append(feed, f)
      PROVE  DOMAIN feed \subseteq DOMAIN feed' /\ \A n \in DOMAIN feed : feed'[n] = feed[n]
  BY <1>2, <1>3
<1>4. DOMAIN feed \subseteq DOMAIN feed' /\ \A n \in DOMAIN feed : feed'[n] = feed[n]
  BY <1>1, <1>3
<1>5. PICK n \in DOMAIN feed : feed[n] = e /\ \A m \in 1..(n - 1) : feed[m].seq < e.seq
  BY DEF Chosen
<1>6. \A m \in 1..(n - 1) : m \in DOMAIN feed
  BY <1>2, <1>5
<1> QED
  BY <1>4, <1>5, <1>6 DEF Chosen

LEMMA PickedIsChosen ==
    ASSUME EInv, Orderly, NEW p \in Process, PicksEvent(p)
    PROVE  /\ proc'[p].event \in Event /\ Chosen(proc'[p].event)
           /\ proc'[p].event.root \in Root /\ proc'[p].event.seq = LastApplied + 1
<1> DEFINE e == proc'[p].event
<1>1. TypeOK /\ e = NextPending /\ Pending # {} /\ LastApplied \in Nat
  BY LastAppliedType DEF EInv, WInv, Orderly, PicksEvent
<1>2. e.root \in Root /\ e.seq = LastApplied + 1
  BY <1>1, ObservableIsNext DEF PicksEvent
<1>3. PICK n \in DOMAIN feed :
        /\ feed[n] = e /\ n \in Pending
        /\ \A m \in 1..(n - 1) : m \in DOMAIN feed /\ m \notin Pending
  BY <1>1, NextPendingIsFirst
<1>4. e \in Event
  BY <1>1, NextPendingIsFirst
<1>5. \A m \in 1..(n - 1) : feed[m].seq < e.seq
  <2> SUFFICES ASSUME NEW m \in 1..(n - 1) PROVE feed[m].seq < e.seq
    OBVIOUS
  <2>1. m \in DOMAIN feed /\ ~(feed[m].seq > LastApplied)
    BY <1>3 DEF Pending
  <2>2. feed[m] \in Event
    BY <1>1, <2>1 DEF TypeOK
  <2>3. feed[m].seq \in Nat
    BY <2>2, WorkspaceAssumption DEF IsErratum
  <2> QED
    BY <1>1, <1>2, <2>1, <2>3
<1> QED
  BY <1>2, <1>3, <1>4, <1>5 DEF Chosen

LEMMA TouchedMoves ==
    ASSUME EInv, [Next]_vars, ~raced', NEW e \in Event, Touched(e)'
    PROVE  Touched(e) \/ \E p \in Process : PicksEvent(p) /\ proc'[p].event = e
<1>1. CASE checkpointFile'[e] # None \/ receiptFile'[e] # None
  <2>1. Kinds
    BY StepIsOfAKind
  <2> QED
    BY <1>1, <2>1
    DEF Kinds, Quiet, FilesKept, RepairBegins, RepairEnds, ReceiptIsWritten,
        CheckpointIsWritten, EntryIsMade, Touched
<1>2. ASSUME NEW p \in Process, proc'[p].pc # "exited", proc'[p].event = e
      PROVE  Touched(e) \/ PicksEvent(p)
  BY <1>2, EventMoves DEF EInv, Touched
<1> QED
  BY <1>1, <1>2 DEF Touched

LEMMA LastAppliedTypeNext ==
    (TypeOK /\ RegistryIsBounded
        => /\ LastApplied \in Nat /\ \A r \in Root : appliedFile[r] <= LastApplied
           /\ LastApplied # 0 => \E r \in Root : appliedFile[r] = LastApplied)'
<1>1. TypeOK /\ RegistryIsBounded
        => /\ LastApplied \in Nat /\ \A r \in Root : appliedFile[r] <= LastApplied
           /\ LastApplied # 0 => \E r \in Root : appliedFile[r] = LastApplied
  BY LastAppliedType
<1> QED
  BY <1>1, PTL

LEMMA LastAppliedGrows ==
    ASSUME EInv, [Next]_vars, ~raced'
    PROVE  LastApplied \in Nat /\ LastApplied' \in Nat /\ LastApplied <= LastApplied'
<1>1. EInv' /\ TypeOK /\ TypeOK' /\ RegistryIsBounded /\ RegistryIsBounded' /\ WInv
  BY EInvStep, WasOrderly DEF EInv, WInv, Orderly
<1>2. /\ LastApplied \in Nat
      /\ LastApplied # 0 => \E r \in Root : appliedFile[r] = LastApplied
  BY <1>1, LastAppliedType
<1>3. LastApplied' \in Nat /\ \A r \in Root : appliedFile'[r] <= LastApplied'
  BY <1>1, LastAppliedTypeNext
<1>4. CASE LastApplied = 0
  BY <1>3, <1>4
<1>5. ASSUME NEW r \in Root, appliedFile[r] = LastApplied, LastApplied # 0
      PROVE  LastApplied <= LastApplied'
  BY <1>1, <1>3, <1>5, EntriesStay
<1> QED
  BY <1>2, <1>3, <1>4, <1>5

\* An event of a sequence that is applied already, once touched, is the attested one.
LEMMA AppliedIsAttested ==
    ASSUME RInv, NEW e \in Event, Touched(e), e.seq <= LastApplied
    PROVE  Attested(e)
<1>1. TypeOK /\ LastApplied \in Nat /\ e.seq \in Nat /\ e.seq # 0 /\ Chosen(e)
  BY LastAppliedType, WorkspaceAssumption
  DEF RInv, EInv, WInv, Orderly, TouchedAreNext, IsErratum
<1>2. e.seq \in 1..LastApplied
  BY <1>1
<1>3. PICK f \in Event : f.seq = e.seq /\ Attested(f)
  BY <1>2 DEF RInv, AppliedAreAttested
<1>4. Chosen(f)
  BY <1>3 DEF RInv, TouchedAreNext, Touched, Attested
<1> QED
  BY <1>1, <1>3, <1>4, ChosenIsUnique

LEMMA RecordedIsAttested ==
    ASSUME RInv, NEW e \in Event, Touched(e), appliedFile[e.root] = e.seq
    PROVE  Attested(e)
<1>1. e.root \in Root
  BY DEF RInv, TouchedAreNext
<1>2. appliedFile[e.root] <= LastApplied
  BY <1>1, LastAppliedType DEF RInv, EInv, WInv, Orderly
<1> QED
  BY <1>2, AppliedIsAttested

LEMMA TouchedIsUnique ==
    ASSUME RInv, NEW e \in Event, NEW f \in Event, Touched(e), Touched(f), e.seq = f.seq
    PROVE  e = f
  BY ChosenIsUnique DEF RInv, EInv, WInv, TouchedAreNext

LEMMA RInvInit == Init => RInv
<1> SUFFICES ASSUME Init PROVE RInv
  OBVIOUS
<1>1. EInv /\ TypeOK /\ Orderly /\ RegistryIsBounded
  BY EInvInit DEF Init, EInv, WInv, Orderly
<1>2. \A e \in Event : ~Touched(e)
  BY DEF Init, Touched, Exited
<1>3. LastApplied = 0
  <2>1. \A r \in Root : appliedFile[r] = 0
    BY DEF Init
  <2>2. LastApplied # 0 => \E r \in Root : appliedFile[r] = LastApplied
    BY <1>1, LastAppliedType
  <2> QED
    BY <2>1, <2>2
<1> QED
  BY <1>1, <1>2, <1>3 DEF RInv, TouchedAreNext, AppliedAreAttested

LEMMA RInvStep ==
    ASSUME RInv, [Next]_vars, ~raced'
    PROVE  RInv'
<1>1. EInv /\ EInv' /\ WInv /\ TypeOK /\ TypeOK' /\ Orderly /\ Orderly'
  BY EInvStep DEF RInv, EInv, WInv
<1>2. LastApplied \in Nat /\ LastApplied' \in Nat /\ LastApplied <= LastApplied'
  BY <1>1, LastAppliedGrows
<1>3. ASSUME NEW e \in Event, Touched(e)'
      PROVE  Chosen(e)' /\ e.root \in Root /\ e.seq # 0 /\ e.seq <= LastApplied' + 1
  <2>1. e.seq \in Nat
    BY WorkspaceAssumption DEF IsErratum
  <2>2. Chosen(e) /\ e.root \in Root /\ e.seq # 0 /\ e.seq <= LastApplied + 1
    <3>1. CASE Touched(e)
      BY <3>1 DEF RInv, TouchedAreNext
    <3>2. ASSUME NEW p \in Process, PicksEvent(p), proc'[p].event = e
          PROVE  Chosen(e) /\ e.root \in Root /\ e.seq # 0 /\ e.seq <= LastApplied + 1
      <4>1. Chosen(e) /\ e.root \in Root /\ e.seq = LastApplied + 1
        BY <1>1, <3>2, PickedIsChosen
      <4> QED
        BY <1>2, <4>1
    <3> QED
      BY <1>1, <1>3, <3>1, <3>2, TouchedMoves
  <2>3. Chosen(e)'
    BY <1>1, <2>2, ChosenStays
  <2> QED
    BY <1>2, <2>1, <2>2, <2>3
<1>4. ASSUME NEW s \in 1..LastApplied'
      PROVE  \E e \in Event : e.seq = s /\ Attested(e)'
  <2>1. CASE s \in 1..LastApplied
    <3>1. PICK e \in Event : e.seq = s /\ Attested(e)
      BY <2>1 DEF RInv, AppliedAreAttested
    <3>2. e.root \in Root /\ appliedFile[e.root] # 0
      BY <2>1, <3>1 DEF RInv, TouchedAreNext, Touched, Attested
    <3>3. Attested(e)'
      BY <1>1, <3>1, <3>2, EntriesStay, EvidenceMoves DEF Attested
    <3> QED
      BY <3>1, <3>3
  <2>2. CASE s \notin 1..LastApplied
    <3>1. LastApplied < s /\ s <= LastApplied' /\ s \in Nat
      BY <1>2, <2>2
    <3>2. PICK p \in Process : RegistryGains(p)
      <4>1. CASE appliedFile' = appliedFile
        <5>1. LastApplied' = LastApplied
          BY <4>1 DEF LastApplied
        <5> QED
          BY <1>2, <3>1, <5>1
      <4> QED
        BY <1>1, <4>1, WasOrderly
    <3>3. PICK e \in Event : e = proc[p].event /\ e.root \in Root /\ receiptFile[e] # None
      BY <1>1, <3>2 DEF EInv, WInv, Grounded, RegistryGains, Goes
    <3>4. e.seq \in Nat /\ e.seq <= LastApplied + 1
      BY <3>3, WorkspaceAssumption DEF RInv, TouchedAreNext, Touched, IsErratum
    <3>5. \A r \in Root : appliedFile'[r] = appliedFile[r] \/ appliedFile'[r] = e.seq
      BY <1>1, <3>2, <3>3 DEF RegistryGains, TypeOK
    <3>6. \A r \in Root : appliedFile[r] \in Nat /\ appliedFile[r] <= LastApplied
      BY <1>1, LastAppliedType DEF Orderly, TypeOK
    <3>7. PICK r \in Root : appliedFile'[r] = LastApplied'
      <4>1. LastApplied' # 0
        BY <1>2, <3>1
      <4>2. TypeOK' /\ RegistryIsBounded'
        BY <1>1 DEF Orderly
      <4> QED
        BY <4>1, <4>2, LastAppliedTypeNext
    <3>8. appliedFile'[r] = e.seq /\ e.seq = s
      <4>1. appliedFile'[r] # appliedFile[r]
        BY <1>2, <3>1, <3>6, <3>7
      <4>2. appliedFile'[r] = e.seq
        BY <3>5, <4>1
      <4> QED
        BY <1>2, <3>1, <3>4, <3>7, <4>2
    <3>9. Attested(e)'
      <4>1. appliedFile'[e.root] = e.seq
        BY <1>1, <3>2, <3>3 DEF RegistryGains, TypeOK
      <4>2. receiptFile'[e] # None
        BY <1>1, <3>3, EvidenceMoves
      <4> QED
        BY <4>1, <4>2 DEF Attested
    <3> QED
      BY <3>3, <3>8, <3>9
  <2> QED
    BY <2>1, <2>2
<1> QED
  BY <1>1, <1>3, <1>4 DEF RInv, TouchedAreNext, AppliedAreAttested

-----------------------------------------------------------------------------
\* Every kind of step is a step of the lifecycle.

RunsOn(e) == \E p \in Process : proc[p].event = e /\ proc[p].pc \in Repairing

LEMMA StageIs ==
    ASSUME NEW e
    PROVE  StageOf(e) = IF Attested(e) THEN "attested"
                        ELSE IF RunsOn(e) THEN "rebuilding"
                        ELSE IF checkpointFile[e] # None THEN "gated" ELSE "unseen"
  BY DEF StageOf, Attested, RunsOn, Repairing

LEMMA StageIsNext ==
    \A e \in Event :
        (StageOf(e) = IF Attested(e) THEN "attested"
                      ELSE IF RunsOn(e) THEN "rebuilding"
                      ELSE IF checkpointFile[e] # None THEN "gated" ELSE "unseen")'
  BY DEF StageOf, Attested, RunsOn, Repairing

LEMMA SeenIsTouched ==
    ASSUME NEW e \in Event, StageOf(e) # "unseen"
    PROVE  Touched(e)
<1>1. Attested(e) => Touched(e)
  BY DEF Attested, Touched
<1>2. RunsOn(e) => Touched(e)
  BY DEF RunsOn, Touched, Repairing
<1> QED
  BY <1>1, <1>2, StageIs DEF Touched

\* A step that moves the stage of e only.
LEMMA OneMoves ==
    ASSUME NEW e \in Event, NEW to, StageOf(e)' = to,
           \A f \in Event : f # e => StageOf(f)' = StageOf(f)
    PROVE  [f \in Event |-> StageOf(f)]' = [[f \in Event |-> StageOf(f)] EXCEPT ![e] = to]
  OBVIOUS

LEMMA NoneMoves ==
    ASSUME \A f \in Event : StageOf(f)' = StageOf(f)
    PROVE  UNCHANGED [f \in Event |-> StageOf(f)]
  OBVIOUS

\* What does not change for an event that a step does not concern.
LEMMA SameStage ==
    ASSUME NEW e \in Event, Attested(e)' <=> Attested(e), RunsOn(e)' <=> RunsOn(e),
           checkpointFile'[e] = None <=> checkpointFile[e] = None
    PROVE  StageOf(e)' = StageOf(e)
  BY StageIs, StageIsNext

LEMMA SameRepairsRunOn ==
    ASSUME SameRepairs
    PROVE  \A e \in Event : RunsOn(e)' <=> RunsOn(e)
  BY DEF SameRepairs, RunsOn

LEMMA OthersRunOn ==
    ASSUME NEW p \in Process, OnlyMoves(p), NEW e \in Event,
           proc[p].pc \in Repairing => proc[p].event # e,
           proc'[p].pc \in Repairing => proc'[p].event # e
    PROVE  RunsOn(e)' <=> RunsOn(e)
  BY DEF OnlyMoves, RunsOn

LEMMA LifecycleInit == Init => Lifecycle!Init
<1> SUFFICES ASSUME Init PROVE Lifecycle!Init
  OBVIOUS
<1>1. \A e \in Event : StageOf(e) = "unseen"
  BY DEF Init, StageOf, Exited
<1> QED
  BY <1>1 DEF Lifecycle!Init

LEMMA LifecycleStep ==
    ASSUME RInv, [Next]_vars, ~raced'
    PROVE  [Lifecycle!Next]_([e \in Event |-> StageOf(e)])
<1> DEFINE stage == [e \in Event |-> StageOf(e)]
<1> SUFFICES [Lifecycle!Next]_stage
  OBVIOUS
<1>1. EInv /\ WInv /\ TypeOK /\ \A p \in Process : Grounded(p)
  BY DEF RInv, EInv, WInv
<1>2. LastApplied \in Nat /\ \A r \in Root : appliedFile[r] <= LastApplied
  BY <1>1, LastAppliedType DEF RInv, Orderly
<1>3. \A e \in Event : e.seq \in Nat
  BY WorkspaceAssumption DEF IsErratum
<1>4. CASE Quiet
  <2>1. \A e \in Event : /\ Attested(e)' <=> Attested(e)
                         /\ checkpointFile'[e] = None <=> checkpointFile[e] = None
                         /\ RunsOn(e)' <=> RunsOn(e)
    BY <1>4, SameRepairsRunOn DEF Quiet, FilesKept, Attested
  <2> QED
    BY <2>1, SameStage, NoneMoves
<1>5. ASSUME NEW p \in Process, RepairBegins(p) PROVE [Lifecycle!Next]_stage
  <2>1. PICK e \in Event :
          e = proc[p].event /\ e = proc'[p].event /\ checkpointFile[e] # None
    BY <1>1, <1>5 DEF RepairBegins, Goes, Grounded
  <2>2. Touched(e)
    BY <2>1 DEF Touched
  <2>3. \A f \in Event : /\ Attested(f)' <=> Attested(f)
                         /\ checkpointFile'[f] = None <=> checkpointFile[f] = None
    BY <1>5 DEF RepairBegins, FilesKept, Attested
  <2>4. ~Attested(e) => e.seq = LastApplied + 1
    <3>1. e.seq <= LastApplied + 1 /\ (~Attested(e) => ~(e.seq <= LastApplied))
      BY <2>2, AppliedIsAttested DEF RInv, TouchedAreNext
    <3> QED
      BY <1>2, <1>3, <3>1
  <2>5. RunsOn(e)'
    BY <1>5, <2>1 DEF RepairBegins, Goes, RunsOn, Repairing
  <2>6. \A f \in Event : f # e => StageOf(f)' = StageOf(f)
    <3>1. proc[p].pc \notin Repairing
      BY <1>5 DEF RepairBegins, Goes, Repairing
    <3>2. \A f \in Event : f # e => (RunsOn(f)' <=> RunsOn(f))
      BY <1>5, <2>1, <3>1, OthersRunOn DEF RepairBegins, Goes
    <3> QED
      BY <2>3, <3>2, SameStage
  <2>7. CASE Attested(e) \/ RunsOn(e)
    <3>1. StageOf(e)' = StageOf(e)
      BY <2>3, <2>5, <2>7, StageIs, StageIsNext
    <3> QED
      BY <2>6, <3>1, NoneMoves
  <2>8. CASE ~Attested(e) /\ ~RunsOn(e)
    <3>1. StageOf(e) = "gated" /\ StageOf(e)' = "rebuilding"
      BY <2>1, <2>3, <2>4, <2>5, <2>8, StageIs, StageIsNext
    <3>2. ASSUME NEW f \in Event, StageOf(f) = "rebuilding" PROVE FALSE
      <4>1. ~Attested(f) /\ RunsOn(f) /\ Touched(f)
        BY <3>2, StageIs, SeenIsTouched
      <4>2. f.seq = LastApplied + 1
        <5>1. f.seq <= LastApplied + 1 /\ ~(f.seq <= LastApplied)
          BY <4>1, AppliedIsAttested DEF RInv, TouchedAreNext
        <5> QED
          BY <1>2, <1>3, <5>1
      <4> QED
        BY <2>2, <2>4, <2>8, <4>1, <4>2, TouchedIsUnique
    <3> QED
      BY <2>6, <3>1, <3>2, OneMoves DEF Lifecycle!Next, Lifecycle!Begin
  <2> QED
    BY <2>7, <2>8
<1>6. ASSUME NEW p \in Process, RepairEnds(p) PROVE [Lifecycle!Next]_stage
  <2>1. PICK e \in Event : e = proc[p].event /\ checkpointFile[e] # None /\ RunsOn(e)
    <3>1. proc[p].pc \in Repairing
      BY <1>6 DEF RepairEnds
    <3>2. proc[p].event \in Event /\ checkpointFile[proc[p].event] # None
      BY <1>1, <3>1 DEF Grounded, Repairing
    <3> QED
      BY <3>1, <3>2 DEF RunsOn
  <2>2. \A f \in Event : /\ Attested(f)' <=> Attested(f)
                         /\ checkpointFile'[f] = None <=> checkpointFile[f] = None
    BY <1>6 DEF RepairEnds, FilesKept, Attested
  <2>3. \A f \in Event : f # e => StageOf(f)' = StageOf(f)
    <3>1. proc'[p].pc \notin Repairing
      BY <1>6 DEF RepairEnds, Repairing
    <3>2. \A f \in Event : f # e => (RunsOn(f)' <=> RunsOn(f))
      BY <1>6, <2>1, <3>1, OthersRunOn DEF RepairEnds
    <3> QED
      BY <2>2, <3>2, SameStage
  <2>4. CASE Attested(e) \/ RunsOn(e)'
    <3>1. StageOf(e)' = StageOf(e)
      BY <2>1, <2>2, <2>4, StageIs, StageIsNext
    <3> QED
      BY <2>3, <3>1, NoneMoves
  <2>5. CASE ~Attested(e) /\ ~RunsOn(e)'
    <3>1. StageOf(e) = "rebuilding" /\ StageOf(e)' = "gated"
      BY <2>1, <2>2, <2>5, StageIs, StageIsNext
    <3> QED
      BY <2>3, <3>1, OneMoves DEF Lifecycle!Next, Lifecycle!Fail
  <2> QED
    BY <2>4, <2>5
<1>7. ASSUME NEW p \in Process, ReceiptIsWritten(p) PROVE [Lifecycle!Next]_stage
  <2>1. PICK e \in Event : e = proc[p].event /\ Touched(e)
    BY <1>1, <1>7 DEF ReceiptIsWritten, Grounded, Touched
  <2>2. \A f \in Event : RunsOn(f)' <=> RunsOn(f)
    BY <1>7, SameRepairsRunOn DEF ReceiptIsWritten
  <2>3. \A f \in Event : Attested(f)' <=> Attested(f)
    <3>1. \A f \in Event : f # e => (Attested(f)' <=> Attested(f))
      BY <1>7, <2>1 DEF ReceiptIsWritten, Attested
    <3>2. Attested(e)' <=> appliedFile[e.root] = e.seq
      BY <1>7, <2>1 DEF ReceiptIsWritten, Attested
    <3>3. Attested(e) <=> appliedFile[e.root] = e.seq
      BY <2>1, RecordedIsAttested DEF Attested
    <3> QED
      BY <3>1, <3>2, <3>3
  <2>4. checkpointFile' = checkpointFile
    BY <1>7 DEF ReceiptIsWritten
  <2> QED
    BY <2>2, <2>3, <2>4, SameStage, NoneMoves
<1>8. ASSUME NEW p \in Process, CheckpointIsWritten(p) PROVE [Lifecycle!Next]_stage
  <2>1. PICK e \in Event : /\ e = proc[p].event /\ Touched(e) /\ checkpointFile'[e] # None
                           /\ \A f \in Event : f # e => checkpointFile'[f] = checkpointFile[f]
    BY <1>1, <1>8 DEF CheckpointIsWritten, Grounded, Touched
  <2>2. \A f \in Event : /\ Attested(f)' <=> Attested(f)
                         /\ RunsOn(f)' <=> RunsOn(f)
    BY <1>8, SameRepairsRunOn DEF CheckpointIsWritten, Attested
  <2>3. \A f \in Event : f # e => StageOf(f)' = StageOf(f)
    BY <2>1, <2>2, SameStage
  <2>4. CASE StageOf(e) # "unseen"
    <3>1. StageOf(e)' = StageOf(e)
      BY <2>1, <2>2, <2>4, StageIs, StageIsNext
    <3> QED
      BY <2>3, <3>1, NoneMoves
  <2>5. CASE StageOf(e) = "unseen"
    <3>1. StageOf(e)' = "gated"
      BY <2>1, <2>2, <2>5, StageIs, StageIsNext
    <3>2. ASSUME NEW s \in 1..(e.seq - 1)
          PROVE  \E f \in Event : f.seq = s /\ stage[f] = "attested"
      <4>1. e.seq <= LastApplied + 1
        BY <2>1 DEF RInv, TouchedAreNext
      <4>2. s \in 1..LastApplied
        BY <1>2, <1>3, <4>1
      <4>3. PICK f \in Event : f.seq = s /\ Attested(f)
        BY <4>2 DEF RInv, AppliedAreAttested
      <4> QED
        BY <4>3, StageIs
    <3>3. ASSUME NEW f \in Event, f.seq = e.seq, f # e PROVE stage[f] = "unseen"
      BY <2>1, <3>3, SeenIsTouched, TouchedIsUnique
    <3>4. Lifecycle!InTurn(e)
      BY <3>2, <3>3 DEF Lifecycle!InTurn
    <3> QED
      BY <2>3, <2>5, <3>1, <3>4, OneMoves DEF Lifecycle!Next, Lifecycle!Gate
  <2> QED
    BY <2>4, <2>5
<1>9. ASSUME NEW p \in Process, EntryIsMade(p) PROVE [Lifecycle!Next]_stage
  <2>1. PICK e \in Event :
          /\ e = proc[p].event /\ e.root \in Root /\ receiptFile[e] # None /\ RunsOn(e)
          /\ appliedFile[e.root] \in {0, e.seq}
          /\ appliedFile' = [appliedFile EXCEPT ![e.root] = e.seq]
    BY <1>1, <1>9 DEF EntryIsMade, RegistryGains, Goes, Grounded, RunsOn, Repairing
  <2>2. /\ UNCHANGED <<checkpointFile, receiptFile>> /\ OnlyMoves(p)
        /\ proc'[p].pc \notin Repairing
    BY <1>9 DEF EntryIsMade, RegistryGains, Goes, Repairing
  <2>3. appliedFile'[e.root] = e.seq /\ \A r \in Root : r # e.root => appliedFile'[r] = appliedFile[r]
    BY <1>1, <2>1 DEF TypeOK
  <2>4. StageOf(e)' = "attested"
    BY <2>1, <2>2, <2>3, StageIsNext DEF Attested
  <2>5. ASSUME NEW f \in Event, f # e PROVE StageOf(f)' = StageOf(f)
    <3>1. RunsOn(f)' <=> RunsOn(f)
      BY <2>1, <2>2, <2>5, OthersRunOn
    <3>2. Attested(f)' <=> Attested(f)
      <4>1. CASE receiptFile[f] = None
        BY <2>2, <4>1 DEF Attested
      <4>2. CASE receiptFile[f] # None
        <5>1. f.root \in Root /\ f.seq # 0 /\ f.seq # e.seq
          BY <2>1, <2>5, <4>2, TouchedIsUnique DEF RInv, TouchedAreNext, Touched
        <5> QED
          BY <2>1, <2>2, <2>3, <5>1 DEF Attested
      <4> QED
        BY <4>1, <4>2
    <3> QED
      BY <2>2, <3>1, <3>2, SameStage
  <2>6. CASE Attested(e)
    <3>1. StageOf(e)' = StageOf(e)
      BY <2>4, <2>6, StageIs
    <3> QED
      BY <2>5, <3>1, NoneMoves
  <2>7. CASE ~Attested(e)
    <3>1. StageOf(e) = "rebuilding"
      BY <2>1, <2>7, StageIs
    <3> QED
      BY <2>4, <2>5, <3>1, OneMoves DEF Lifecycle!Next, Lifecycle!Attest
  <2> QED
    BY <2>6, <2>7
<1> HIDE DEF stage
<1> QED
  BY <1>1, <1>4, <1>5, <1>6, <1>7, <1>8, <1>9, StepIsOfAKind DEF Kinds

LEMMA RInvHolds == Spec => [](~raced => RInv)
<1>1. EInv /\ (~raced => RInv) /\ [Next]_vars => (~raced => RInv)'
  BY RInvStep, RacesLast DEF EInv
<1> QED
  BY EInvHolds, RInvInit, <1>1, PTL DEF Spec

\* As long as no two commands race for a file, every step of the directory,
\* whichever commands run together and whichever die, is a step of the abstract
\* lifecycle or leaves it where it is.
THEOREM WorkspaceFollowsLifecycle == Spec => FollowsLifecycle
<1>1. (~raced => RInv) /\ EInv /\ [Next]_vars
        => [~raced' => Lifecycle!Next]_<<[e \in Event |-> StageOf(e)]>>
  BY LifecycleStep, RacesLast DEF EInv
<1> QED
  BY RInvHolds, EInvHolds, LifecycleInit, <1>1, PTL DEF Spec, FollowsLifecycle

LEMMA SeenIsInTurn ==
    ASSUME RInv, NEW e \in Event, StageOf(e) # "unseen"
    PROVE  Lifecycle!InTurn(e)
<1> DEFINE stage == [f \in Event |-> StageOf(f)]
<1>1. Touched(e) /\ LastApplied \in Nat /\ e.seq \in Nat
  BY SeenIsTouched, LastAppliedType, WorkspaceAssumption
  DEF RInv, EInv, WInv, Orderly, IsErratum
<1>2. ASSUME NEW s \in 1..(e.seq - 1)
      PROVE  \E f \in Event : f.seq = s /\ stage[f] = "attested"
  <2>1. e.seq <= LastApplied + 1
    BY <1>1 DEF RInv, TouchedAreNext
  <2>2. s \in 1..LastApplied
    BY <1>1, <2>1
  <2>3. PICK f \in Event : f.seq = s /\ Attested(f)
    BY <2>2 DEF RInv, AppliedAreAttested
  <2> QED
    BY <2>3, StageIs
<1>3. ASSUME NEW f \in Event, f.seq = e.seq, f # e PROVE stage[f] = "unseen"
  BY <1>1, <1>3, SeenIsTouched, TouchedIsUnique
<1> QED
  BY <1>2, <1>3 DEF Lifecycle!InTurn

\* Whatever commands run together and die: until two of them race for a file, the
\* directory takes its errata in feed order without a gap, one per sequence is
\* ever gated, rebuilt or applied, and one at a time is rebuilt.
THEOREM DirectoryErrataAreInFeedOrder == Spec => [](~raced => Lifecycle!InFeedOrder)
<1>1. RInv => Lifecycle!InFeedOrder
  <2> SUFFICES ASSUME RInv PROVE Lifecycle!InFeedOrder
    OBVIOUS
  <2>1. \A e \in Event : StageOf(e) # "unseen" => Lifecycle!InTurn(e)
    BY SeenIsInTurn
  <2>2. ASSUME NEW e \in Event, NEW f \in Event,
               StageOf(e) = "rebuilding", StageOf(f) = "rebuilding"
        PROVE  e = f
    <3>1. Lifecycle!InTurn(e) /\ Lifecycle!InTurn(f) /\ Touched(e) /\ Touched(f)
      BY <2>2, SeenIsInTurn, SeenIsTouched
    <3>2. ASSUME NEW g \in Event, NEW h \in Event, Touched(g), Touched(h),
                 StageOf(g) = "rebuilding", g.seq < h.seq
          PROVE  FALSE
      <4>1. h.seq <= LastApplied + 1 /\ g.seq # 0 /\ LastApplied \in Nat
        BY <3>2, LastAppliedType DEF RInv, EInv, WInv, Orderly, TouchedAreNext
      <4>2. g.seq \in 1..LastApplied
        BY <3>2, <4>1, WorkspaceAssumption DEF IsErratum
      <4>3. PICK a \in Event : a.seq = g.seq /\ Attested(a)
        BY <4>2 DEF RInv, AppliedAreAttested
      <4>4. StageOf(a) = "attested" /\ Touched(a)
        BY <4>3, StageIs DEF Attested, Touched
      <4> QED
        BY <3>2, <4>3, <4>4, TouchedIsUnique
    <3>3. e.seq \in Nat /\ f.seq \in Nat
      BY WorkspaceAssumption DEF IsErratum
    <3>4. e.seq = f.seq
      BY <2>2, <3>1, <3>2, <3>3
    <3> QED
      BY <3>1, <3>4, TouchedIsUnique
  <2> QED
    BY <2>1, <2>2 DEF Lifecycle!InFeedOrder
<1> QED
  BY <1>1, RInvHolds, PTL

-----------------------------------------------------------------------------
(***************************************************************************)
(* 3. What is served.  HomeInv says that checkpoints list what is at home  *)
(* with the root of their erratum, and that the ledger in the memory of a  *)
(* repair states what the erratum retires only in what is still to be      *)
(* rebuilt or was dropped.  Everything a checkpoint lists was gated once;  *)
(* only a rebuild opens it, with a text that is clean (RebuiltTextIsClean) *)
(* of the erratum's own claim, and of another's if nobody restates it.     *)
(***************************************************************************)

\* Where what is recorded may be at home: any map that OneHomeEach speaks of.
Homes == [ArtifactId -> {None} \cup Amended]

\* What an erratum of the root of f retires, unless f restates it.
RetiredBeside(f) == {e.negative : e \in {g \in Event : g.root = f.root /\ g.negative # f.replacement}}

AtHome(home, p) ==
    LET me == proc[p]
        items == me.checkpoint.items
        below == Descendants(me.ledger, me.event.root)
    IN  /\ me.pc \in {"opened", "gate"} => \A a \in below : home[a] = me.event.root
        /\ me.pc = "opened" =>
              \A a \in Known(me.ledger) \ below :
                 me.ledger[a].content \cap RetiredBeside(me.event) = {}
        /\ me.pc = "write checkpoint" => \A a \in items : a \in Rows(row) /\ home[a] = me.event.root
        /\ me.pc \in {"retire", "rebuild"} => \A a \in items : home[a] = me.event.root
        /\ me.pc = "retire" =>
              \A a \in Known(me.ledger) \ items :
                 me.ledger[a].content \cap RetiredBeside(me.event) = {}
        /\ me.pc = "rebuild" =>
              \A a \in Known(me.ledger) \ (me.todo \cup me.dropped) :
                 me.ledger[a].content \cap RetiredBeside(me.event) = {}

HomeInv(home) ==
    /\ \A a \in Rows(row) : \A b \in row[a].inputs : b < a
    /\ \A e \in Event : checkpointFile[e] # None =>
          \A a \in checkpointFile[e].items : a \in Rows(row) /\ home[a] = e.root
    /\ \A p \in Process : AtHome(home, p)

-----------------------------------------------------------------------------
\* What is at home with a root is what descends from it.

LEMMA LedgersAreAtHome ==
    ASSUME TypeOK, NEW home \in Homes, IsHome(home), NEW e \in Event, e.root \in Root
    PROVE  LET l == LoadedLedger
           IN  /\ \A a \in Known(l) : \A b \in l[a].inputs : b < a
               /\ \A a \in Descendants(l, e.root) : home[a] = e.root
               /\ \A a \in Known(l) : \A f \in Event :
                     f.negative \in l[a].content => home[a] = f.root
               /\ LineageLoads =>
                     \A a \in Known(l) : home[a] = e.root => a \in Descendants(l, e.root)
<1> DEFINE l == LoadedLedger
           r == e.root
<1>1. /\ l \in Ledger /\ Known(l) = Ids /\ Known(l) \subseteq ArtifactId
      /\ LineageLoads => \A a \in Known(l) : l[a].inputs \subseteq Known(l)
  BY LoadedLedgerType DEF Known
<1>2. \A a \in Known(l) : \E x \in Line :
         /\ x.id = a /\ l[a].root = x.root
         /\ l[a].inputs = x.inputs /\ l[a].content = x.content
  BY LoadedLedgerType
<1>3. r \in Amended /\ r # None /\ r \in Root
  BY NoneAssumption DEF Amended
<1> HIDE DEF l, r
<1>4. ASSUME NEW a \in Known(l)
      PROVE  /\ \A b \in l[a].inputs : b < a /\ home[b] \in {None, home[a]}
             /\ l[a].root = r => home[a] = r
             /\ home[a] = r => l[a].root = r \/ \E b \in l[a].inputs : home[b] = r
             /\ \A f \in Event : f.negative \in l[a].content => home[a] = f.root
  BY <1>2, <1>3, <1>4 DEF IsHome
<1>5. \A a \in Descendants(l, r) : home[a] = r
  <2> DEFINE more == {a \in Derived(l) : home[a] = r}
             set == DirectlyFrom(l, r) \cup more
  <2>1. \A a \in set : home[a] = r
    BY <1>4 DEF DirectlyFrom
  <2>2. ClosedUnderDerivation(l, set)
    BY <1>3, <1>4, <2>1 DEF ClosedUnderDerivation, Derived
  <2>3. more \in SUBSET Derived(l)
    OBVIOUS
  <2> QED
    BY <2>1, <2>2, <2>3 DEF Descendants
<1>6. ASSUME LineageLoads, NEW a0 \in Known(l), home[a0] = r, a0 \notin Descendants(l, r)
      PROVE  FALSE
  <2> DEFINE S == {a \in Known(l) : home[a] = r /\ a \notin Descendants(l, r)}
             a == Min(S)
  <2>1. S \in SUBSET Nat /\ a0 \in S
    BY <1>1, <1>6, WorkspaceAssumption
  <2>2. a \in S /\ \A b \in S : a <= b
    BY <2>1, MinExists
  <2> HIDE DEF S, a
  <2>3. a \in Known(l) /\ home[a] = r /\ a \notin Descendants(l, r)
    BY <2>2 DEF S
  <2>4. l[a].root # r
    BY <2>3 DEF Descendants, DirectlyFrom
  <2>5. PICK b \in l[a].inputs : home[b] = r
    BY <1>4, <2>3, <2>4
  <2>6. b \in Known(l) /\ b < a
    BY <1>1, <1>4, <1>6, <2>3, <2>5
  <2>7. b \notin S
    BY <2>1, <2>2, <2>6
  <2>8. b \in Descendants(l, r)
    BY <2>5, <2>6, <2>7 DEF S
  <2>9. a \in Derived(l)
    BY <2>3, <2>5 DEF Derived
  <2>10. ASSUME NEW set, ClosedUnderDerivation(l, set), b \in set PROVE a \in set
    BY <2>5, <2>9, <2>10 DEF ClosedUnderDerivation
  <2>11. a \in Descendants(l, r)
    BY <2>8, <2>9, <2>10 DEF Descendants
  <2> QED
    BY <2>3, <2>11
<1> QED
  BY <1>4, <1>5, <1>6 DEF l, r

-----------------------------------------------------------------------------
\* Every step keeps everybody at home.

RowsKept ==
    Rows(row)' = Rows(row) /\ \A a \in Rows(row) : row'[a].inputs = row[a].inputs

LEMMA OthersStayAtHome ==
    ASSUME NEW home, NEW q \in Process, AtHome(home, q), proc'[q] = proc[q],
           \A a \in Rows(row) : a \in Rows(row)'
    PROVE  AtHome(home, q)'
  BY DEF AtHome

LEMMA OpeningStaysAtHome ==
    ASSUME WInv, NEW home \in Homes, IsHome(home), HomeInv(home), NEW p \in Process, Open(p)
    PROVE  HomeInv(home)'
<1> DEFINE l == LoadedLedger
           e == NextPending
<1>1. /\ LineageLoads /\ row' = Synced(l) /\ checkpointFile' = checkpointFile
      /\ \/ proc' = proc
         \/ /\ Pending # {} /\ Observable(e, l)
            /\ proc' = [proc EXCEPT ![p] =
                  [@ EXCEPT !.pc = "opened", !.event = e, !.ledger = l]]
  BY DEF Open
<1>2. TypeOK /\ l \in Ledger
  BY LoadedLedgerType DEF WInv
<1>3. /\ Rows(row)' = Rows(row) \cup Known(l)
      /\ \A a \in Rows(row) : row'[a] = row[a]
      /\ \A a \in Known(l) \ Rows(row) : row'[a].inputs = l[a].inputs
  BY <1>1, <1>2, SyncedType
<1>4. \A a \in Known(l) : \A b \in l[a].inputs : b < a
  <2>1. \A a \in Known(l) : \E x \in Line : x.id = a /\ l[a].inputs = x.inputs
    BY <1>2, LoadedLedgerType
  <2> QED
    BY <2>1 DEF IsHome
<1>5. \A a \in Rows(row)' : \A b \in row'[a].inputs : b < a
  BY <1>3, <1>4 DEF HomeInv
<1>6. \A f \in Event : checkpointFile'[f] # None =>
         \A a \in checkpointFile'[f].items : a \in Rows(row)' /\ home[a] = f.root
  BY <1>1, <1>3 DEF HomeInv
<1>7. ASSUME NEW q \in Process, proc'[q] = proc[q] PROVE AtHome(home, q)'
  BY <1>3, <1>7, OthersStayAtHome DEF HomeInv
<1>8. CASE proc' = proc
  BY <1>5, <1>6, <1>7, <1>8 DEF HomeInv
<1>9. CASE proc' # proc
  <2>1. /\ Pending # {} /\ Observable(e, l)
        /\ proc' = [proc EXCEPT ![p] = [@ EXCEPT !.pc = "opened", !.event = e, !.ledger = l]]
    BY <1>1, <1>9
  <2>2. e \in Event /\ e.root \in Root
    BY <1>2, <2>1, NextPendingIsFirst, ObservableIsNext
  <2>3. /\ \A a \in Descendants(l, e.root) : home[a] = e.root
        /\ \A a \in Known(l) : \A f \in Event : f.negative \in l[a].content => home[a] = f.root
        /\ \A a \in Known(l) : home[a] = e.root => a \in Descendants(l, e.root)
    BY <1>1, <1>2, <2>2, LedgersAreAtHome
  <2>4. \A a \in Known(l) \ Descendants(l, e.root) : l[a].content \cap RetiredBeside(e) = {}
    BY <2>3 DEF RetiredBeside
  <2> HIDE DEF e, l
  <2>5. /\ proc'[p].pc = "opened" /\ proc'[p].event = e /\ proc'[p].ledger = l
        /\ \A q \in Process \ {p} : proc'[q] = proc[q]
    BY <2>1 DEF WInv, TypeOK, Memory
  <2>6. AtHome(home, p)'
    BY <2>3, <2>4, <2>5 DEF AtHome
  <2> QED
    BY <1>5, <1>6, <1>7, <2>5, <2>6 DEF HomeInv
<1> QED
  BY <1>8, <1>9

\* A step that keeps rows and ledgers is judged by the process that makes it.
LEMMA OneStaysAtHome ==
    ASSUME NEW home, HomeInv(home), RowsKept, NEW p \in Process,
           checkpointFile' = checkpointFile, AtHome(home, p)',
           \A q \in Process \ {p} : proc'[q] = proc[q]
    PROVE  HomeInv(home)'
<1>1. \A q \in Process : AtHome(home, q)'
  BY OthersStayAtHome DEF HomeInv, RowsKept
<1> QED
  BY <1>1 DEF HomeInv, RowsKept

LEMMA StartStaysAtHome ==
    ASSUME WInv, NEW home \in Homes, HomeInv(home), NEW p \in Process,
           QuarantineStart(p) \/ RepairStart(p)
    PROVE  HomeInv(home)'
<1> DEFINE me == proc[p]
           below == Descendants(me.ledger, me.event.root)
<1>1. /\ me.pc = "opened" /\ row' = row /\ checkpointFile' = checkpointFile
      /\ me \in Memory /\ proc \in [Process -> Memory] /\ Known(me.ledger) \subseteq Rows(row)
  BY DEF QuarantineStart, RepairStart, durable, WInv, TypeOK, Grounded
<1>2. /\ \A a \in below : home[a] = me.event.root
      /\ \A a \in Known(me.ledger) \ below :
            me.ledger[a].content \cap RetiredBeside(me.event) = {}
  BY <1>1 DEF HomeInv, AtHome
<1>3. RowsKept
  BY <1>1 DEF RowsKept, Rows, HomeInv
<1>4. CASE Exit(p)
  <2>1. proc'[p] = Exited /\ \A q \in Process \ {p} : proc'[q] = proc[q]
    BY <1>4, ExitStep
  <2>2. AtHome(home, p)'
    BY <2>1 DEF AtHome, Exited
  <2> QED
    BY <1>1, <1>3, <2>1, <2>2, OneStaysAtHome
<1>5. ASSUME NEW cp, proc' = [proc EXCEPT ![p].pc = "gate", ![p].checkpoint = cp]
      PROVE  HomeInv(home)'
  <2>1. /\ proc'[p].pc = "gate" /\ proc'[p].event = me.event /\ proc'[p].ledger = me.ledger
        /\ \A q \in Process \ {p} : proc'[q] = proc[q]
    BY <1>1, <1>5 DEF Memory
  <2>2. AtHome(home, p)'
    BY <1>2, <2>1 DEF AtHome
  <2> QED
    BY <1>1, <1>3, <2>1, <2>2, OneStaysAtHome
<1>6. ASSUME NEW cp, NEW todo, cp.items = Rows(row) \cap below,
             proc' = [proc EXCEPT ![p].pc = "retire", ![p].checkpoint = cp, ![p].todo = todo]
      PROVE  HomeInv(home)'
  <2>1. /\ proc'[p].pc = "retire" /\ proc'[p].event = me.event /\ proc'[p].ledger = me.ledger
        /\ proc'[p].checkpoint = cp /\ \A q \in Process \ {p} : proc'[q] = proc[q]
    BY <1>1, <1>6 DEF Memory
  <2>2. \A a \in Known(me.ledger) \ cp.items :
           me.ledger[a].content \cap RetiredBeside(me.event) = {}
    BY <1>1, <1>2, <1>6
  <2>3. AtHome(home, p)'
    BY <1>2, <1>6, <2>1, <2>2 DEF AtHome
  <2> QED
    BY <1>1, <1>3, <2>1, <2>3, OneStaysAtHome
<1>7. CASE QuarantineStart(p)
  BY <1>4, <1>5, <1>7 DEF QuarantineStart
<1>8. CASE RepairStart(p)
  BY <1>4, <1>6, <1>8 DEF RepairStart, CheckpointIsValid, Enumerate
<1> QED
  BY <1>7, <1>8

LEMMA GateStaysAtHome ==
    ASSUME WInv, NEW home \in Homes, HomeInv(home), NEW p \in Process, Gate(p)
    PROVE  HomeInv(home)'
<1> DEFINE me == proc[p]
           found == Enumerate(row, me.ledger, me.event.root)
           gatedRow == [a \in ArtifactId |->
                           IF a \in found THEN [row[a] EXCEPT !.quarantined = TRUE] ELSE row[a]]
           cp == [state    |-> me.checkpoint.state,
                  items    |-> found,
                  coverage |-> CheckpointCoverageOf(gatedRow, me.ledger, me.event.root),
                  consumed |-> FALSE]
<1>1. /\ me.pc = "gate" /\ row' = gatedRow /\ checkpointFile' = checkpointFile
      /\ proc' = [proc EXCEPT ![p].pc = "write checkpoint", ![p].checkpoint = cp]
  BY DEF Gate
<1>2. /\ found \subseteq Rows(row) /\ Rows(row) \subseteq ArtifactId
      /\ \A a \in found : home[a] = me.event.root
  BY <1>1 DEF Enumerate, Rows, HomeInv, AtHome
<1>3. me \in Memory /\ \A a \in Rows(row) : row[a] \in Row
  BY RowsHaveRecords DEF WInv, TypeOK, Database
<1>4. RowsKept
  <2>1. \A a \in Rows(row) : /\ gatedRow[a].inputs = row[a].inputs
                             /\ gatedRow[a] \in Row
    BY <1>2, <1>3 DEF Row
  <2>2. \A a \in ArtifactId \ Rows(row) : gatedRow[a] = None
    BY <1>2 DEF Rows
  <2> HIDE DEF gatedRow
  <2> QED
    BY <1>1, <1>2, <2>1, <2>2, WorkspaceAssumption DEF RowsKept, Rows
<1>5. cp.items = found
  OBVIOUS
<1> HIDE DEF found, cp, gatedRow
<1>6. /\ proc'[p].pc = "write checkpoint" /\ proc'[p].checkpoint = cp
      /\ proc'[p].event = me.event /\ \A q \in Process \ {p} : proc'[q] = proc[q]
  BY <1>1, <1>3 DEF WInv, TypeOK, Memory
<1>7. AtHome(home, p)'
  <2>1. \A a \in proc'[p].checkpoint.items : a \in Rows(row') /\ home[a] = proc'[p].event.root
    BY <1>2, <1>4, <1>5, <1>6 DEF RowsKept, Rows
  <2>2. proc'[p].pc = "write checkpoint"
    BY <1>6
  <2> QED
    BY <2>1, <2>2 DEF AtHome
<1> QED
  BY <1>1, <1>4, <1>6, <1>7, OneStaysAtHome

\* Steps that leave the rows alone and what a repair works on behind.
FileFollows(p) ==
    \/ checkpointFile' = checkpointFile
    \/ /\ proc[p].pc = "write checkpoint"
       /\ checkpointFile' = [checkpointFile EXCEPT ![proc[p].event] = proc[p].checkpoint]
    \/ /\ proc[p].pc = "consume"
       /\ checkpointFile' = [checkpointFile EXCEPT ![proc[p].event].consumed = TRUE]

LeavesRows(p) ==
    /\ row' = row /\ FileFollows(p)
    /\ proc'[p].pc \in {"exited", "replace receipt", "record applied", "replace registry", "consume"}
    /\ \A q \in Process \ {p} : proc'[q] = proc[q]

LEMMA WritersLeaveRows ==
    ASSUME WInv, NEW p \in Process,
           \/ WriteCheckpoint(p) \/ ReplaceReceipt(p) \/ ReadRegistry(p) \/ ReplaceRegistry(p)
           \/ Consume(p) \/ Crash(p) \/ \E scan \in ScanResult : LookForReceipt(p, scan)
    PROVE  LeavesRows(p)
<1>1. ASSUME Ends(p), row' = row, FileFollows(p) PROVE LeavesRows(p)
  BY <1>1 DEF LeavesRows, Ends, OnlyMoves
<1>2. CASE WriteCheckpoint(p) \/ Consume(p) \/ Crash(p)
  BY <1>1, <1>2, ExitEnds DEF WriteCheckpoint, Consume, Crash, durable, FileFollows
<1>3. CASE ReplaceReceipt(p) \/ ReplaceRegistry(p)
  <2>1. row' = row /\ FileFollows(p) /\ Records(p)
    BY <1>3, RecordsMove DEF ReplaceReceipt, ReplaceRegistry, FileFollows
  <2> QED
    BY <1>1, <2>1 DEF Records, Goes, OnlyMoves, LeavesRows
<1>4. ASSUME proc[p].pc \in {"rebuild", "record applied"}, row' = row, EvidenceSame,
             Ends(p) \/ Works(p), proc'[p].pc # "rebuild"
      PROVE  LeavesRows(p)
  <2>1. FileFollows(p)
    BY <1>4 DEF EvidenceSame, FileFollows
  <2> QED
    BY <1>1, <1>4, <2>1 DEF Works, Goes, PicksEvent, OnlyMoves, LeavesRows
<1>5. CASE ReadRegistry(p)
  <2>1. proc[p].pc = "record applied" /\ row' = row
    BY <1>5 DEF ReadRegistry, durable
  <2>2. EvidenceSame /\ (Ends(p) \/ Works(p))
    BY <1>5, LooksMove
  <2>3. proc'[p].pc # "rebuild"
    BY <2>1, <2>2 DEF Ends, Works, Goes, PicksEvent
  <2> QED
    BY <1>4, <2>1, <2>2, <2>3
<1>6. ASSUME NEW scan \in ScanResult, LookForReceipt(p, scan) PROVE LeavesRows(p)
  <2> DEFINE receipt == ReceiptOf(proc[p], scan)
  <2>1. /\ proc[p].pc = "rebuild" /\ row' = row
        /\ \/ proc' = [proc EXCEPT ![p].pc = "replace receipt", ![p].receipt = receipt]
           \/ proc' = [proc EXCEPT ![p].pc = Following("receipt")]
           \/ Exit(p)
    BY <1>6 DEF LookForReceipt, durable
  <2> HIDE DEF receipt
  <2>2. EvidenceSame /\ (Ends(p) \/ Works(p))
    BY <1>6, LooksMove
  <2>3. proc'[p].pc # "rebuild"
    BY <2>1, ExitEnds DEF WInv, TypeOK, Memory, Following, Ends
  <2> QED
    BY <1>4, <2>1, <2>2, <2>3
<1> QED
  BY <1>2, <1>3, <1>5, <1>6

LEMMA LeavingStaysAtHome ==
    ASSUME WInv, NEW home \in Homes, HomeInv(home), NEW p \in Process, LeavesRows(p)
    PROVE  HomeInv(home)'
<1> USE DEF LeavesRows, FileFollows
<1>1. AtHome(home, p)'
  BY DEF AtHome
<1>2. RowsKept
  BY DEF RowsKept, Rows
<1>3. \A q \in Process : AtHome(home, q)'
  BY <1>1, <1>2, OthersStayAtHome DEF HomeInv, RowsKept
<1>4. ASSUME NEW e \in Event, checkpointFile'[e] # None, NEW a \in checkpointFile'[e].items
      PROVE  a \in Rows(row) /\ home[a] = e.root
  <2>1. checkpointFile \in [Event -> {None} \cup Checkpoint] /\ Grounded(p)
    BY DEF WInv, TypeOK
  <2>2. CASE checkpointFile' = checkpointFile
    BY <1>4, <2>2 DEF HomeInv
  <2>3. CASE /\ proc[p].pc = "write checkpoint"
             /\ checkpointFile' = [checkpointFile EXCEPT ![proc[p].event] = proc[p].checkpoint]
    <3>1. CASE e = proc[p].event
      BY <1>4, <2>1, <2>3, <3>1 DEF HomeInv, AtHome
    <3>2. CASE e # proc[p].event
      BY <1>4, <2>1, <2>3, <3>2 DEF HomeInv
    <3> QED
      BY <3>1, <3>2
  <2>4. CASE /\ proc[p].pc = "consume"
             /\ checkpointFile' = [checkpointFile EXCEPT ![proc[p].event].consumed = TRUE]
    <3>1. proc[p].event \in Event /\ checkpointFile[proc[p].event] # None
      BY <2>1, <2>4 DEF Grounded
    <3>2. checkpointFile[e] # None /\ checkpointFile'[e].items = checkpointFile[e].items
      BY <1>4, <2>1, <2>4, <3>1 DEF Checkpoint
    <3> QED
      BY <1>4, <3>2 DEF HomeInv
  <2> QED
    BY <2>2, <2>3, <2>4
<1> QED
  BY <1>2, <1>3, <1>4 DEF HomeInv, RowsKept

\* Passes one and two write the row of one item, which has one.
LEMMA ItemsHaveRows ==
    ASSUME WInv, NEW p \in Process, proc[p].pc \in {"retire", "rebuild"}, NEW a \in proc[p].todo
    PROVE  /\ proc[p] \in Memory /\ a \in Rows(row) /\ row[a] \in Row /\ a \in Nat
           /\ proc[p].ledger \in Ledger /\ a \in Known(proc[p].ledger)
           /\ row[a].inputs \subseteq Known(proc[p].ledger)
           /\ a \in proc[p].checkpoint.items
<1>1. proc[p] \in Memory /\ Grounded(p) /\ row \in Database
  BY DEF WInv, TypeOK, Database
<1>2. a \in proc[p].checkpoint.items
  BY <1>1 DEF Grounded
<1>3. /\ a \in Rows(row) /\ a \in Known(proc[p].ledger) /\ proc[p].ledger \in Ledger
      /\ row[a].inputs \subseteq Known(proc[p].ledger)
  BY <1>1, <1>2 DEF Grounded
<1> QED
  BY <1>1, <1>2, <1>3, RowsHaveRecords, WorkspaceAssumption

LEMMA OneRowIsKept ==
    ASSUME WInv, NEW a \in Rows(row), NEW r \in Row, row' = [row EXCEPT ![a] = r],
           r.inputs = row[a].inputs
    PROVE  RowsKept
<1>1. row \in Database /\ a \in ArtifactId /\ r # None
  BY WorkspaceAssumption DEF WInv, TypeOK, Database, Rows
<1>2. row'[a] = r /\ \A b \in ArtifactId \ {a} : row'[b] = row[b]
  BY <1>1 DEF Database
<1>3. Rows(row)' = Rows(row)
  BY <1>1, <1>2 DEF Rows
<1> QED
  BY <1>2, <1>3 DEF RowsKept, Rows

LEMMA RetireStaysAtHome ==
    ASSUME WInv, NEW home \in Homes, HomeInv(home), NEW p \in Process, NEW a \in ArtifactId,
           RetireItem(p, a)
    PROVE  HomeInv(home)'
<1> DEFINE me == proc[p]
           new == IF row[a].content \in {None, {}} THEN {} ELSE {a}
<1>1. /\ me.pc = "retire" /\ a \in me.todo
      /\ row' = [row EXCEPT ![a] = RetiredRow(row[a])]
      /\ proc' = [proc EXCEPT ![p].todo = @ \ {a}, ![p].dropped = @ \cup {a},
                              ![p].captured = @ \cup new]
      /\ checkpointFile' = checkpointFile
  BY DEF RetireItem, IsNext
<1>2. me \in Memory /\ a \in Rows(row) /\ row[a] \in Row
  BY <1>1, ItemsHaveRows
<1>3. RowsKept
  <2>1. RetiredRow(row[a]) \in Row /\ RetiredRow(row[a]).inputs = row[a].inputs
    BY <1>2 DEF RetiredRow, Row
  <2> QED
    BY <1>1, <1>2, <2>1, OneRowIsKept
<1> HIDE DEF new
<1>4. /\ \A q \in Process \ {p} : proc'[q] = proc[q]
      /\ proc'[p].pc = "retire" /\ proc'[p].event = me.event /\ proc'[p].ledger = me.ledger
      /\ proc'[p].checkpoint = me.checkpoint
  <2> DEFINE m == [me EXCEPT !.todo = @ \ {a}, !.dropped = @ \cup {a},
                             !.captured = @ \cup new]
  <2>1. proc \in [Process -> Memory]
    BY DEF WInv, TypeOK
  <2>2. proc' = [proc EXCEPT ![p] = m]
    BY <1>1, <1>2, <2>1 DEF Memory
  <2>3. /\ m.pc = me.pc /\ m.event = me.event /\ m.ledger = me.ledger
        /\ m.checkpoint = me.checkpoint
    BY <1>2 DEF Memory
  <2> HIDE DEF m
  <2> QED
    BY <1>1, <2>1, <2>2, <2>3
<1>5. AtHome(home, p)'
  <2>1. AtHome(home, p)
    BY DEF HomeInv
  <2> QED
    BY <1>1, <1>4, <2>1 DEF AtHome
<1> QED
  BY <1>1, <1>3, <1>4, <1>5, OneStaysAtHome

LEMMA EndPassOneStaysAtHome ==
    ASSUME WInv, NEW home \in Homes, HomeInv(home), NEW p \in Process, EndPassOne(p)
    PROVE  HomeInv(home)'
<1> DEFINE me == proc[p]
           rest == me.checkpoint.items \ me.dropped
<1>1. /\ me.pc = "retire" /\ row' = row /\ checkpointFile' = checkpointFile
      /\ proc' = [proc EXCEPT ![p].pc = "rebuild", ![p].todo = rest]
  BY DEF EndPassOne, durable
<1>2. me \in Memory
  BY DEF WInv, TypeOK
<1>3. /\ \A q \in Process \ {p} : proc'[q] = proc[q]
      /\ proc'[p].pc = "rebuild" /\ proc'[p].event = me.event /\ proc'[p].ledger = me.ledger
      /\ proc'[p].checkpoint = me.checkpoint /\ proc'[p].todo = rest
      /\ proc'[p].dropped = me.dropped
  BY <1>1, <1>2 DEF WInv, TypeOK, Memory
<1>4. RowsKept
  BY <1>1 DEF RowsKept, Rows
<1>5. me.checkpoint.items \subseteq rest \cup me.dropped
  OBVIOUS
<1> HIDE DEF rest
<1>6. AtHome(home, p)'
  BY <1>1, <1>3, <1>5 DEF AtHome, HomeInv
<1> QED
  BY <1>1, <1>3, <1>4, <1>6, OneStaysAtHome

\* A rebuilt text states nothing that the errata of its root retire, except what
\* this one puts in place: its surviving inputs are either rebuilt themselves,
\* since they sort before it, or at home elsewhere.
LEMMA RebuiltTextIsClean ==
    ASSUME WInv, NEW home \in Homes, HomeInv(home), NEW p \in Process, NEW a \in ArtifactId,
           RebuildItem(p, a)
    PROVE  JoinedText(proc[p].ledger, SurvivingInputs(p, a), proc[p].event.replacement)
               \cap RetiredBeside(proc[p].event) = {}
<1> DEFINE me == proc[p]
<1>1. me.pc = "rebuild" /\ a \in me.todo /\ \A b \in me.todo : a <= b
  BY DEF RebuildItem, IsNext
<1>2. /\ a \in Rows(row) /\ a \in Nat /\ row[a].inputs \subseteq Known(me.ledger)
      /\ me.ledger \in Ledger
  BY <1>1, ItemsHaveRows
<1>3. ASSUME NEW b \in SurvivingInputs(p, a)
      PROVE  me.ledger[b].content \cap RetiredBeside(me.event) = {}
  <2>1. b \in row[a].inputs /\ b \notin me.dropped
    BY <1>3 DEF SurvivingInputs
  <2>2. b \in Known(me.ledger) /\ b < a /\ b \in Nat
    BY <1>2, <2>1, WorkspaceAssumption DEF HomeInv, Known
  <2>3. b \notin me.todo
    BY <1>1, <1>2, <2>2
  <2> QED
    BY <1>1, <2>1, <2>2, <2>3 DEF HomeInv, AtHome
<1>4. me.event.replacement \notin RetiredBeside(me.event)
  BY DEF RetiredBeside
<1> QED
  BY <1>3, <1>4 DEF JoinedText

LEMMA RebuildStaysAtHome ==
    ASSUME WInv, NEW home \in Homes, HomeInv(home), NEW p \in Process, NEW a \in ArtifactId,
           RebuildItem(p, a)
    PROVE  HomeInv(home)'
<1> DEFINE me == proc[p]
           joined == JoinedText(me.ledger, SurvivingInputs(p, a), me.event.replacement)
           rebuilt == [row[a] EXCEPT !.content = joined, !.rebuilt = TRUE,
                                     !.quarantined = FALSE]
<1>1. /\ me.pc = "rebuild" /\ a \in me.todo
      /\ row' = [row EXCEPT ![a].content = joined, ![a].rebuilt = TRUE, ![a].quarantined = FALSE]
      /\ proc' = [proc EXCEPT ![p].todo = @ \ {a},
                              ![p].ledger = SetContent(@, a, joined)]
      /\ checkpointFile' = checkpointFile
  BY DEF RebuildItem, IsNext
<1>2. /\ me \in Memory /\ a \in Rows(row) /\ row[a] \in Row /\ row \in Database
      /\ me.ledger \in Ledger /\ a \in Known(me.ledger)
      /\ row[a].inputs \subseteq Known(me.ledger)
      /\ me.event.replacement \in Prop \cup {None}
  <2>1. me.event \in Event
    BY <1>1 DEF WInv, Grounded
  <2> QED
    BY <1>1, <2>1, ItemsHaveRows, WorkspaceAssumption DEF WInv, TypeOK, Database, IsErratum
<1>3. joined \in Text
  BY <1>2, JoinedTextType DEF SurvivingInputs
<1>4. joined \cap RetiredBeside(me.event) = {}
  BY RebuiltTextIsClean
<1> HIDE DEF joined
<1>5. RowsKept
  <2>1. rebuilt \in Row /\ rebuilt.inputs = row[a].inputs
    BY <1>2, <1>3 DEF Row
  <2>2. row' = [row EXCEPT ![a] = rebuilt]
    BY <1>1, <1>2 DEF Database
  <2> HIDE DEF rebuilt
  <2> QED
    BY <1>2, <2>1, <2>2, OneRowIsKept
<1> DEFINE written == SetContent(me.ledger, a, joined)
<1>6. /\ Known(written) = Known(me.ledger)
      /\ written[a].content = joined
      /\ \A b \in Known(me.ledger) \ {a} : written[b] = me.ledger[b]
  <2>1. Known(written) = Known(me.ledger)
    BY <1>2, <1>3, SetContentType
  <2>2. me.ledger[a] \in ArtifactRecord
    BY <1>2 DEF Known, Ledger
  <2> QED
    BY <1>2, <2>1, <2>2 DEF SetContent, Ledger, ArtifactRecord, Known
<1>7. /\ \A q \in Process \ {p} : proc'[q] = proc[q]
      /\ proc'[p].pc = "rebuild" /\ proc'[p].event = me.event
      /\ proc'[p].ledger = written /\ proc'[p].checkpoint = me.checkpoint
      /\ proc'[p].todo = me.todo \ {a} /\ proc'[p].dropped = me.dropped
  BY <1>1, <1>2 DEF WInv, TypeOK, Memory
<1> HIDE DEF written
<1>8. \A b \in Known(written) \ (proc'[p].todo \cup me.dropped) :
          written[b].content \cap RetiredBeside(me.event) = {}
  <2> SUFFICES ASSUME NEW b \in Known(me.ledger), b \notin me.todo \ {a}, b \notin me.dropped
               PROVE  written[b].content \cap RetiredBeside(me.event) = {}
    BY <1>6, <1>7
  <2>1. CASE b = a
    BY <1>4, <1>6, <2>1
  <2>2. CASE b # a
    BY <1>1, <1>6, <2>2 DEF HomeInv, AtHome
  <2> QED
    BY <2>1, <2>2
<1>9. AtHome(home, p)'
  <2>1. \A b \in me.checkpoint.items : home[b] = me.event.root
    BY <1>1 DEF HomeInv, AtHome
  <2> QED
    BY <1>7, <1>8, <2>1 DEF AtHome
<1> QED
  BY <1>1, <1>5, <1>7, <1>9, OneStaysAtHome

LEMMA HomeStep ==
    ASSUME NEW home \in Homes, IsHome(home)
    PROVE  WInv /\ HomeInv(home) /\ [Next]_vars => HomeInv(home)'
<1> SUFFICES ASSUME WInv, HomeInv(home), [Next]_vars PROVE HomeInv(home)'
  OBVIOUS
<1>1. ASSUME row' = row, checkpointFile' = checkpointFile, proc' = proc
      PROVE  HomeInv(home)'
  <2>1. \A a \in Rows(row) : a \in Rows(row)'
    BY <1>1 DEF Rows
  <2>2. \A q \in Process : AtHome(home, q)'
    BY <1>1, <2>1, OthersStayAtHome DEF HomeInv
  <2> QED
    BY <1>1, <2>2 DEF HomeInv, Rows
<1>2. CASE \/ UNCHANGED vars
           \/ \E l \in Line : AppendLineage(l)
           \/ \E e \in Event : Publish(e)
  BY <1>1, <1>2 DEF vars, durable, AppendLineage, Publish
<1>3. ASSUME NEW p \in Process,
             Open(p) \/ QuarantineStart(p) \/ RepairStart(p) \/ Continue(p) \/ Crash(p)
      PROVE  HomeInv(home)'
  <2>1. CASE Open(p) \/ QuarantineStart(p) \/ RepairStart(p)
    BY <2>1, OpeningStaysAtHome, StartStaysAtHome
  <2>2. CASE \E a \in ArtifactId : RetireItem(p, a) \/ RebuildItem(p, a)
    BY <2>2, RetireStaysAtHome, RebuildStaysAtHome
  <2>3. CASE Gate(p) \/ EndPassOne(p)
    BY <2>3, GateStaysAtHome, EndPassOneStaysAtHome
  <2>4. CASE \/ WriteCheckpoint(p) \/ ReplaceReceipt(p) \/ ReadRegistry(p) \/ ReplaceRegistry(p)
             \/ Consume(p) \/ Crash(p) \/ \E scan \in ScanResult : LookForReceipt(p, scan)
    BY <2>4, WritersLeaveRows, LeavingStaysAtHome
  <2> QED
    BY <1>3, <2>1, <2>2, <2>3, <2>4 DEF Continue
<1> QED
  BY <1>2, <1>3 DEF Next

LEMMA HomeInit ==
    ASSUME NEW home \in Homes PROVE Init => HomeInv(home)
<1> SUFFICES ASSUME Init PROVE HomeInv(home)
  OBVIOUS
<1>1. Rows(row) = {} /\ \A e \in Event : checkpointFile[e] = None
  BY DEF Init, Rows
<1>2. ASSUME NEW p \in Process PROVE AtHome(home, p)
  <2>1. proc[p].pc = "exited"
    BY DEF Init, Exited
  <2> QED
    BY <2>1 DEF AtHome
<1> QED
  BY <1>1, <1>2 DEF HomeInv

-----------------------------------------------------------------------------
\* What was gated for an erratum never serves what the erratum retires.

\* A checkpoint of e lists a, in its file or about to be written.
HeldFor(e, a) ==
    \/ checkpointFile[e] # None /\ a \in checkpointFile[e].items
    \/ \E p \in Process : /\ proc[p].pc = "write checkpoint" /\ proc[p].event = e
                          /\ a \in proc[p].checkpoint.items

Clean(e) ==
    \A a \in Visible(row) : HeldFor(e, a) => e.negative \notin row[a].content

LEMMA HeldIsAtHome ==
    ASSUME NEW home \in Homes, HomeInv(home), NEW e \in Event, NEW a, HeldFor(e, a)
    PROVE  a \in Rows(row) /\ home[a] = e.root
  BY DEF HomeInv, HeldFor, AtHome

\* Only the gate adds to what a checkpoint lists.
LEMMA HeldStays ==
    ASSUME WInv, NEW e \in Event, NEW a, NEW p \in Process, FileFollows(p), HeldFor(e, a)',
           proc'[p].pc # "write checkpoint", \A q \in Process \ {p} : proc'[q] = proc[q]
    PROVE  HeldFor(e, a)
<1>1. checkpointFile \in [Event -> {None} \cup Checkpoint] /\ Grounded(p)
  BY DEF WInv, TypeOK
<1>2. CASE \E q \in Process : /\ proc'[q].pc = "write checkpoint" /\ proc'[q].event = e
                              /\ a \in proc'[q].checkpoint.items
  BY <1>2 DEF HeldFor
<1>3. CASE checkpointFile'[e] # None /\ a \in checkpointFile'[e].items
  <2>1. CASE checkpointFile' = checkpointFile
    BY <1>3, <2>1 DEF HeldFor
  <2>2. CASE /\ proc[p].pc = "write checkpoint"
             /\ checkpointFile' = [checkpointFile EXCEPT ![proc[p].event] = proc[p].checkpoint]
    <3>1. CASE e = proc[p].event
      BY <1>1, <1>3, <2>2, <3>1 DEF HeldFor
    <3>2. CASE e # proc[p].event
      BY <1>1, <1>3, <2>2, <3>2 DEF HeldFor
    <3> QED
      BY <3>1, <3>2
  <2>3. CASE /\ proc[p].pc = "consume"
             /\ checkpointFile' = [checkpointFile EXCEPT ![proc[p].event].consumed = TRUE]
    <3>1. proc[p].event \in Event /\ checkpointFile[proc[p].event] # None
      BY <1>1, <2>3 DEF Grounded
    <3>2. checkpointFile[e] # None /\ checkpointFile'[e].items = checkpointFile[e].items
      BY <1>1, <1>3, <2>3, <3>1 DEF Checkpoint
    <3> QED
      BY <1>3, <3>2 DEF HeldFor
  <2> QED
    BY <2>1, <2>2, <2>3 DEF FileFollows
<1> QED
  BY <1>2, <1>3 DEF HeldFor

LEMMA PassesWriteOneRow ==
    ASSUME WInv, NEW p \in Process, NEW a \in ArtifactId, RetireItem(p, a) \/ RebuildItem(p, a)
    PROVE  /\ checkpointFile' = checkpointFile /\ proc'[p].pc = proc[p].pc
           /\ \A q \in Process \ {p} : proc'[q] = proc[q]
           /\ \A b \in ArtifactId \ {a} : row'[b] = row[b]
<1>1. proc \in [Process -> Memory] /\ proc[p] \in Memory /\ row \in Database
  BY DEF WInv, TypeOK, Database
<1>2. CASE RetireItem(p, a)
  <2> DEFINE new == IF row[a].content \in {None, {}} THEN {} ELSE {a}
  <2>1. /\ checkpointFile' = checkpointFile /\ row' = [row EXCEPT ![a] = RetiredRow(row[a])]
        /\ proc' = [proc EXCEPT ![p].todo = @ \ {a}, ![p].dropped = @ \cup {a},
                                ![p].captured = @ \cup new]
    BY <1>2 DEF RetireItem
  <2> HIDE DEF new
  <2>2. proc'[p].pc = proc[p].pc /\ \A q \in Process \ {p} : proc'[q] = proc[q]
    BY <1>1, <2>1 DEF Memory
  <2> QED
    BY <1>1, <2>1, <2>2 DEF Database
<1>3. CASE RebuildItem(p, a)
  <2> DEFINE joined == JoinedText(proc[p].ledger, SurvivingInputs(p, a), proc[p].event.replacement)
             written == SetContent(proc[p].ledger, a, joined)
  <2>1. /\ checkpointFile' = checkpointFile
        /\ row' = [row EXCEPT ![a].content = joined, ![a].rebuilt = TRUE, ![a].quarantined = FALSE]
        /\ proc' = [proc EXCEPT ![p].todo = @ \ {a}, ![p].ledger = written]
    BY <1>3 DEF RebuildItem
  <2> HIDE DEF joined, written
  <2>2. proc'[p].pc = proc[p].pc /\ \A q \in Process \ {p} : proc'[q] = proc[q]
    BY <1>1, <2>1 DEF Memory
  <2> QED
    BY <1>1, <2>1, <2>2 DEF Database
<1> QED
  BY <1>2, <1>3

LEMMA CleanStep ==
    ASSUME WInv, NEW home \in Homes, HomeInv(home), [Next]_vars, NEW e \in Event, Clean(e),
           \A p \in Process, a \in ArtifactId :
              RebuildItem(p, a) /\ HeldFor(e, a) /\ e.root = proc[p].event.root
                 => e.negative # proc[p].event.replacement
    PROVE  Clean(e)'
<1> SUFFICES ASSUME NEW a \in Visible(row'), HeldFor(e, a)'
             PROVE  e.negative \notin row'[a].content
  BY DEF Clean
<1> USE DEF Visible
<1>1. row \in Database
  BY DEF WInv, TypeOK, Database
<1>2. ASSUME HeldFor(e, a), row'[a] = row[a] PROVE e.negative \notin row'[a].content
  <2>1. a \in Rows(row)
    BY <1>2, HeldIsAtHome
  <2> QED
    BY <1>2, <2>1 DEF Clean
<1>3. CASE \/ UNCHANGED vars
           \/ \E l \in Line : AppendLineage(l)
           \/ \E f \in Event : Publish(f)
  <2>1. checkpointFile' = checkpointFile /\ proc' = proc /\ row' = row
    BY <1>3 DEF vars, durable, AppendLineage, Publish
  <2> QED
    BY <1>2, <2>1 DEF HeldFor
<1>4. ASSUME NEW p \in Process, Open(p) PROVE e.negative \notin row'[a].content
  <2>1. /\ FileFollows(p) /\ proc'[p].pc # "write checkpoint"
        /\ \A q \in Process \ {p} : proc'[q] = proc[q]
    <3>1. EvidenceSame /\ (proc' = proc \/ Works(p))
      BY <1>4, OpeningMoves
    <3>2. proc[p] = Exited /\ Exited.pc = "exited"
      BY <1>4 DEF Open, Exited
    <3> QED
      BY <3>1, <3>2 DEF EvidenceSame, FileFollows, Works, Goes, PicksEvent, OnlyMoves
  <2>2. HeldFor(e, a)
    BY <2>1, HeldStays
  <2>3. a \in Rows(row)
    BY <2>2, HeldIsAtHome
  <2>4. TypeOK /\ LoadedLedger \in Ledger /\ row' = Synced(LoadedLedger)
    BY <1>4, LoadedLedgerType DEF WInv, Open
  <2>5. row'[a] = row[a]
    BY <2>3, <2>4, SyncedType
  <2> QED
    BY <1>2, <2>2, <2>5
<1>5. ASSUME NEW p \in Process, Gate(p) PROVE e.negative \notin row'[a].content
  <2> DEFINE me == proc[p]
             found == Enumerate(row, me.ledger, me.event.root)
  <2>1. CASE a \in found
    <3>1. a \in Rows(row) /\ a \in ArtifactId
      BY <2>1 DEF Enumerate, Rows
    <3>2. row[a] \in Row /\ row'[a] = [row[a] EXCEPT !.quarantined = TRUE]
      BY <1>1, <1>5, <2>1, <3>1, RowsHaveRecords DEF Gate
    <3>3. row'[a].quarantined
      BY <3>2 DEF Row
    <3> QED
      BY <3>3
  <2>2. CASE a \notin found
    <3>1. row'[a] = row[a]
      BY <1>5, <2>2 DEF Gate, Rows
    <3>2. HeldFor(e, a)
      <4>1. /\ checkpointFile' = checkpointFile /\ proc'[p].checkpoint.items = found
            /\ \A q \in Process \ {p} : proc'[q] = proc[q]
        BY <1>5 DEF Gate, WInv, TypeOK, Memory
      <4> QED
        BY <2>2, <4>1 DEF HeldFor
    <3> QED
      BY <1>2, <3>1, <3>2
  <2> QED
    BY <2>1, <2>2
<1>6. ASSUME NEW p \in Process, row' = row, FileFollows(p), proc'[p].pc # "write checkpoint",
             \A q \in Process \ {p} : proc'[q] = proc[q]
      PROVE  e.negative \notin row'[a].content
  <2>1. HeldFor(e, a)
    BY <1>6, HeldStays
  <2> QED
    BY <1>2, <1>6, <2>1
<1>7. ASSUME NEW p \in Process,
             EndPassOne(p) \/ QuarantineStart(p) \/ RepairStart(p) \/ LeavesRows(p)
      PROVE  e.negative \notin row'[a].content
  <2>1. CASE LeavesRows(p)
    BY <1>6, <2>1 DEF LeavesRows
  <2>2. CASE EndPassOne(p) \/ QuarantineStart(p) \/ RepairStart(p)
    <3>1. /\ row' = row /\ EvidenceSame /\ (Ends(p) \/ Works(p))
          /\ proc[p].pc \in {"opened", "retire"}
      BY <2>2, PassesMove, StartMoves DEF EndPassOne, QuarantineStart, RepairStart, durable
    <3>2. /\ FileFollows(p) /\ proc'[p].pc # "write checkpoint"
          /\ \A q \in Process \ {p} : proc'[q] = proc[q]
      BY <3>1 DEF EvidenceSame, FileFollows, Ends, Works, Goes, PicksEvent, OnlyMoves
    <3> QED
      BY <1>6, <3>1, <3>2
  <2> QED
    BY <1>7, <2>1, <2>2
<1>8. ASSUME NEW p \in Process, NEW b \in ArtifactId, RetireItem(p, b) \/ RebuildItem(p, b)
      PROVE  e.negative \notin row'[a].content
  <2>1. proc[p].pc \in {"retire", "rebuild"} /\ b \in proc[p].todo
    BY <1>8 DEF RetireItem, RebuildItem, IsNext
  <2>2. /\ proc[p] \in Memory /\ b \in Rows(row) /\ row[b] \in Row
        /\ b \in proc[p].checkpoint.items
    BY <2>1, ItemsHaveRows
  <2>3. /\ checkpointFile' = checkpointFile /\ proc'[p].pc = proc[p].pc
        /\ \A q \in Process \ {p} : proc'[q] = proc[q]
    BY <1>8, PassesWriteOneRow
  <2>4. HeldFor(e, a)
    BY <2>1, <2>3, HeldStays DEF FileFollows
  <2>5. CASE a # b
    <3>1. row'[a] = row[a]
      BY <1>8, <2>5, PassesWriteOneRow DEF Rows
    <3> QED
      BY <1>2, <2>4, <3>1
  <2>6. CASE a = b /\ RetireItem(p, b)
    <3>1. row'[a] = RetiredRow(row[a])
      BY <1>1, <2>2, <2>6 DEF RetireItem, Database, Rows
    <3>2. RetiredRow(row[a]).retired
      BY <2>2, <2>6 DEF RetiredRow, Row
    <3> QED
      BY <3>1, <3>2
  <2>7. CASE a = b /\ RebuildItem(p, b)
    <3> DEFINE joined == JoinedText(proc[p].ledger, SurvivingInputs(p, a), proc[p].event.replacement)
    <3>1. joined \cap RetiredBeside(proc[p].event) = {}
      BY <2>7, RebuiltTextIsClean
    <3>2. row' = [row EXCEPT ![a].content = joined, ![a].rebuilt = TRUE,
                             ![a].quarantined = FALSE]
      BY <2>7 DEF RebuildItem
    <3> HIDE DEF joined
    <3>3. row'[a].content = joined
      BY <1>1, <2>2, <2>7, <3>2 DEF Database, Rows, Row
    <3>4. home[a] = e.root /\ home[a] = proc[p].event.root
      BY <2>1, <2>2, <2>4, <2>7, HeldIsAtHome DEF HomeInv, AtHome
    <3>5. e.negative \in RetiredBeside(proc[p].event)
      BY <2>4, <2>7, <3>4 DEF RetiredBeside
    <3> QED
      BY <3>1, <3>3, <3>5
  <2> QED
    BY <1>8, <2>5, <2>6, <2>7
<1> QED
  BY <1>3, <1>4, <1>5, <1>7, <1>8, WritersLeaveRows DEF Next, Continue

\* The invariants of a directory hold for any home of what its lines record.
LEMMA ServesFromHome ==
    ASSUME NEW home \in Homes, IsHome(home)
    PROVE  Spec => [](WInv /\ HomeInv(home))
<1>1. Init => WInv /\ HomeInv(home)
  BY WInvInit, HomeInit
<1>2. WInv /\ HomeInv(home) /\ [Next]_vars => (WInv /\ HomeInv(home))'
  BY WInvStep, HomeStep
<1> QED
  BY <1>1, <1>2, PTL DEF Spec

LEMMA CleanInit ==
    ASSUME NEW e \in Event PROVE Init => Clean(e)
  BY DEF Init, Clean, Visible, Rows

\* If everything checkpointed for an erratum is clean, both properties hold of it.
LEMMA CleanServes ==
    (\A e \in Event : Clean(e)) => OpenErratumServesNothingStale
  BY DEF Clean, HeldFor, OpenErratumServesNothingStale


\* A receipt is written by a repair, which found a checkpoint.
ReceiptsAreGated == \A e \in Event : receiptFile[e] # None => checkpointFile[e] # None

LEMMA ReceiptsStayGated == WInv /\ ReceiptsAreGated /\ [Next]_vars => ReceiptsAreGated'
<1> SUFFICES ASSUME WInv, ReceiptsAreGated, [Next]_vars PROVE ReceiptsAreGated'
  OBVIOUS
<1> USE DEF ReceiptsAreGated
<1>1. /\ checkpointFile \in [Event -> {None} \cup Checkpoint]
      /\ receiptFile \in [Event -> {None} \cup Receipt] /\ \A p \in Process : Grounded(p)
  BY DEF WInv, TypeOK
<1>2. CASE EvidenceSame
  BY <1>2 DEF EvidenceSame
<1>3. ASSUME NEW p \in Process, WriteCheckpoint(p) PROVE ReceiptsAreGated'
  <2>1. proc[p].checkpoint # None /\ receiptFile' = receiptFile
        /\ checkpointFile' = [checkpointFile EXCEPT ![proc[p].event] = proc[p].checkpoint]
    BY <1>1, <1>3, WorkspaceAssumption DEF WriteCheckpoint, Grounded
  <2> QED
    BY <1>1, <2>1
<1>4. ASSUME NEW p \in Process, Consume(p) PROVE ReceiptsAreGated'
  <2>1. /\ receiptFile' = receiptFile
        /\ checkpointFile' = [checkpointFile EXCEPT ![proc[p].event].consumed = TRUE]
    BY <1>4 DEF Consume
  <2>2. /\ proc[p].event \in Event /\ checkpointFile[proc[p].event] \in Checkpoint
    BY <1>1, <1>4 DEF Consume, Grounded
  <2>3. [checkpointFile[proc[p].event] EXCEPT !.consumed = TRUE] \in Checkpoint
    BY <2>2 DEF Checkpoint
  <2> QED
    BY <1>1, <2>1, <2>2, <2>3, WorkspaceAssumption
<1>5. ASSUME NEW p \in Process, ReplaceReceipt(p) PROVE ReceiptsAreGated'
  <2>1. /\ checkpointFile' = checkpointFile /\ proc[p].pc = "replace receipt"
        /\ receiptFile' = [receiptFile EXCEPT ![proc[p].event] = proc[p].receipt]
    BY <1>5 DEF ReplaceReceipt
  <2>2. checkpointFile[proc[p].event] # None
    BY <1>1, <2>1 DEF Grounded
  <2> QED
    BY <1>1, <2>1, <2>2
<1>6. ASSUME NEW p \in Process, ReplaceRegistry(p) PROVE ReceiptsAreGated'
  BY <1>6 DEF ReplaceRegistry
<1> QED
  BY <1>2, <1>3, <1>4, <1>5, <1>6, ProcessesMove DEF Records, EvidenceSame

LEMMA ReceiptsAreGatedAlways == Spec => []ReceiptsAreGated
<1>1. Init => ReceiptsAreGated
  BY DEF Init, ReceiptsAreGated
<1> QED
  BY WInvHolds, <1>1, ReceiptsStayGated, PTL DEF Spec

LEMMA CleanStays ==
    ReceiptsAreGated /\ (\A e \in Event : Clean(e)) => AppliedStaysClean
  BY DEF Clean, HeldFor, ReceiptsAreGated, AppliedStaysClean

\* Where no line belongs to two amended roots and no owner states again what an
\* erratum of the root retires, the gate outlives every process and an applied
\* erratum stays applied, whichever commands run together, overtake each other
\* or die.
THEOREM DirectoryServesNothingStale ==
    OneHomeEach /\ NeverStatedAgain
        => (Spec => []OpenErratumServesNothingStale /\ []AppliedStaysClean)
<1> SUFFICES ASSUME OneHomeEach, NeverStatedAgain
             PROVE  Spec => []OpenErratumServesNothingStale /\ []AppliedStaysClean
  OBVIOUS
<1>1. PICK home \in Homes : IsHome(home)
  BY DEF OneHomeEach, Homes
<1>2. Spec => [](WInv /\ HomeInv(home))
  BY <1>1, ServesFromHome
<1> DEFINE AllClean == \A e \in Event : Clean(e)
<1>3. Init => AllClean
  BY CleanInit
<1>4. WInv /\ HomeInv(home) /\ AllClean /\ [Next]_vars => AllClean'
  <2> SUFFICES ASSUME WInv, HomeInv(home), AllClean, [Next]_vars, NEW e \in Event
               PROVE  Clean(e)'
    OBVIOUS
  <2>1. \A p \in Process, a \in ArtifactId : RebuildItem(p, a) => proc[p].event \in Event
    BY DEF RebuildItem, WInv, Grounded
  <2>2. \A p \in Process, a \in ArtifactId :
           RebuildItem(p, a) /\ HeldFor(e, a) /\ e.root = proc[p].event.root
              => e.negative # proc[p].event.replacement
    BY <2>1 DEF NeverStatedAgain
  <2> QED
    BY <2>2, CleanStep
<1>5. AllClean => OpenErratumServesNothingStale
  BY CleanServes
<1>6. ReceiptsAreGated /\ AllClean => AppliedStaysClean
  BY CleanStays
<1> QED
  BY <1>2, <1>3, <1>4, <1>5, <1>6, ReceiptsAreGatedAlways, PTL DEF Spec

\* Of the events that commands touch, a repair that is not late has the last.
LEMMA PromptRepairsAreLast ==
    ASSUME RInv, NoRepairIsLate, NEW p \in Process, NEW a \in ArtifactId, RebuildItem(p, a),
           NEW e \in Event, HeldFor(e, a)
    PROVE  /\ proc[p].event \in Event /\ e.seq <= proc[p].event.seq
           /\ e.seq > LastApplied => e = proc[p].event
<1> DEFINE f == proc[p].event
<1>1. proc[p].pc = "rebuild" /\ WInv /\ TypeOK
  BY DEF RebuildItem, RInv, EInv, WInv
<1>2. f \in Event /\ e.seq \in Nat /\ f.seq \in Nat /\ LastApplied \in Nat
  BY <1>1, LastAppliedType, WorkspaceAssumption DEF WInv, Grounded, RInv, Orderly, IsErratum
<1>3. Touched(e) /\ Touched(f)
  BY <1>1 DEF Touched, HeldFor
<1> HIDE DEF f
<1>4. e.seq <= LastApplied + 1 /\ f.seq <= LastApplied + 1
  BY <1>2, <1>3 DEF RInv, TouchedAreNext
<1>5. LastApplied < f.seq
  BY <1>1 DEF NoRepairIsLate, f
<1>6. e.seq <= f.seq
  BY <1>2, <1>4, <1>5
<1>7. ASSUME e.seq > LastApplied PROVE e = f
  <2>1. e.seq = f.seq
    BY <1>2, <1>4, <1>5, <1>7
  <2> QED
    BY <1>2, <1>3, <2>1, TouchedIsUnique
<1> QED
  BY <1>2, <1>6, <1>7 DEF f

\* If no repair is late either, it is enough that an erratum does not restate what
\* it retires itself: what is gated for it is not served stale while it is open,
\* at least until two commands race for a file.
THEOREM OpenErrataStayGated ==
    ASSUME OneHomeEach, ReplacedByAnother
    PROVE  Spec /\ []NoRepairIsLate => [](~raced => OpenErratumServesNothingStale)
<1>1. PICK home \in Homes : IsHome(home)
  BY DEF OneHomeEach, Homes
<1>2. Spec => [](WInv /\ HomeInv(home))
  BY <1>1, ServesFromHome
<1> DEFINE OpenAreClean == \A e \in Event : LastApplied < e.seq => Clean(e)
           I == ~raced => OpenAreClean
<1>3. Init => I
  BY CleanInit
<1>4. WInv /\ HomeInv(home) /\ (~raced => RInv) /\ NoRepairIsLate /\ I /\ [Next]_vars => I'
  <2> SUFFICES ASSUME WInv, HomeInv(home), ~raced => RInv, NoRepairIsLate, I, [Next]_vars,
                      ~raced', NEW e \in Event, LastApplied' < e.seq
               PROVE  Clean(e)'
    OBVIOUS
  <2>1. ~raced /\ RInv /\ OpenAreClean
    BY RacesLast
  <2>2. LastApplied \in Nat /\ LastApplied' \in Nat /\ LastApplied <= LastApplied'
    BY <2>1, LastAppliedGrows DEF RInv
  <2>3. e.seq \in Nat
    BY WorkspaceAssumption DEF IsErratum
  <2>4. LastApplied < e.seq /\ e.seq > LastApplied
    BY <2>2, <2>3
  <2>5. \A p \in Process, a \in ArtifactId :
           RebuildItem(p, a) /\ HeldFor(e, a) /\ e.root = proc[p].event.root
              => e.negative # proc[p].event.replacement
    BY <2>1, <2>4, PromptRepairsAreLast DEF ReplacedByAnother
  <2>6. Clean(e)
    BY <2>1, <2>4
  <2> HIDE DEF OpenAreClean
  <2> QED
    BY <2>5, <2>6, CleanStep
<1>5. I => (~raced => OpenErratumServesNothingStale)
  BY DEF Clean, HeldFor, OpenErratumServesNothingStale
<1> HIDE DEF I
<1> QED
  BY <1>2, <1>3, <1>4, <1>5, RInvHolds, PTL DEF Spec

\* If moreover no later erratum restates what an earlier one retired, an applied
\* erratum stays applied through any number of later ones of its root.
THEOREM AppliedErrataStayApplied ==
    ASSUME OneHomeEach, RetiredForGood
    PROVE  Spec /\ []NoRepairIsLate => [](~raced => AppliedStaysClean)
<1>1. PICK home \in Homes : IsHome(home)
  BY DEF OneHomeEach, Homes
<1>2. Spec => [](WInv /\ HomeInv(home))
  BY <1>1, ServesFromHome
<1> DEFINE AllClean == \A e \in Event : Clean(e)
           I == ~raced => AllClean
<1>3. Init => I
  BY CleanInit
<1>4. WInv /\ HomeInv(home) /\ (~raced => RInv) /\ NoRepairIsLate /\ I /\ [Next]_vars => I'
  <2> SUFFICES ASSUME WInv, HomeInv(home), ~raced => RInv, NoRepairIsLate, I, [Next]_vars,
                      ~raced', NEW e \in Event
               PROVE  Clean(e)'
    OBVIOUS
  <2>1. ~raced /\ RInv /\ Clean(e)
    BY RacesLast
  <2>2. \A p \in Process, a \in ArtifactId :
           RebuildItem(p, a) /\ HeldFor(e, a) /\ e.root = proc[p].event.root
              => e.negative # proc[p].event.replacement
    BY <2>1, PromptRepairsAreLast DEF RetiredForGood
  <2> HIDE DEF I
  <2> QED
    BY <2>1, <2>2, CleanStep
<1>5. ReceiptsAreGated /\ I => (~raced => AppliedStaysClean)
  BY CleanStays
<1> HIDE DEF I
<1> QED
  BY <1>2, <1>3, <1>4, <1>5, RInvHolds, ReceiptsAreGatedAlways, PTL DEF Spec

\* A process on the way to what it retires and rebuilds has just opened the
\* directory, or was on that way before.
OnTheWay == {"opened", "retire", "rebuild"}

LEMMA RepairsContinue ==
    ASSUME WInv, [Next]_vars, NEW p \in Process, proc'[p].pc \in OnTheWay
    PROVE  \/ proc[p].pc \in OnTheWay /\ proc'[p].event = proc[p].event
           \/ PicksEvent(p) /\ EvidenceSame
<1> USE DEF OnTheWay
<1>1. ASSUME NEW q \in Process, OnlyMoves(q), q # p PROVE proc'[p] = proc[p]
  BY <1>1 DEF OnlyMoves
<1>2. ASSUME NEW q \in Process, Ends(q) PROVE proc'[p] = proc[p]
  BY <1>1, <1>2 DEF Ends
<1>3. ASSUME NEW q \in Process, Works(q), EvidenceSame
      PROVE  \/ proc[p].pc \in OnTheWay /\ proc'[p].event = proc[p].event
             \/ PicksEvent(p) /\ EvidenceSame
  <2>1. OnlyMoves(q)
    BY <1>3 DEF Works, Goes, PicksEvent
  <2>2. CASE q # p
    BY <1>1, <2>1, <2>2
  <2>3. CASE q = p
    BY <1>3, <2>3 DEF Works, Goes
  <2> QED
    BY <2>2, <2>3
<1>4. ASSUME NEW q \in Process, Records(q) PROVE proc'[p] = proc[p]
  BY <1>1, <1>2, <1>4 DEF Records, Goes
<1> QED
  BY <1>2, <1>3, <1>4, ProcessesMove

\* Where one command runs at a time, whatever dies when, no repair is late.
LEMMA SingleRepairsArePrompt ==
    ASSUME \A p, q \in Process : p = q
    PROVE  Spec => []NoRepairIsLate
<1> DEFINE Prompt == \A p \in Process :
                        proc[p].pc \in OnTheWay => LastApplied < proc[p].event.seq
<1>1. Init => Prompt
  BY DEF Init, OnTheWay, Exited
<1>2. RInv /\ Prompt /\ [Next]_vars => Prompt'
  <2> SUFFICES ASSUME RInv, Prompt, [Next]_vars, NEW p \in Process, proc'[p].pc \in OnTheWay
               PROVE  LastApplied' < proc'[p].event.seq
    OBVIOUS
  <2>1. WInv /\ EInv /\ Orderly /\ LastApplied \in Nat
    BY LastAppliedType DEF RInv, EInv, WInv, Orderly
  <2>2. ASSUME appliedFile' = appliedFile PROVE LastApplied' = LastApplied
    BY <2>2 DEF LastApplied
  <2>3. CASE PicksEvent(p) /\ EvidenceSame
    <3>1. proc'[p].event.seq = LastApplied + 1
      BY <2>1, <2>3, PickedIsChosen
    <3> QED
      BY <2>1, <2>2, <2>3, <3>1 DEF EvidenceSame
  <2>4. CASE proc[p].pc \in OnTheWay /\ proc'[p].event = proc[p].event
    <3>1. ASSUME NEW q \in Process, ReplaceRegistry(q) PROVE FALSE
      BY <2>4, <3>1 DEF ReplaceRegistry, OnTheWay
    <3>2. appliedFile' = appliedFile
      BY <2>1, <3>1, EvidenceMoves
    <3> QED
      BY <2>2, <2>4, <3>2
  <2> QED
    BY <2>1, <2>3, <2>4, RepairsContinue
<1>3. Prompt => NoRepairIsLate
  BY DEF NoRepairIsLate, OnTheWay
<1> HIDE DEF Prompt
<1> QED
  BY <1>1, <1>2, <1>3, RInvHolds, SingleCommandsDoNotRace, PTL DEF Spec

\* A directory in which one command runs at a time keeps both promises through any
\* chain of errata and any number of deaths.
THEOREM SingleCommandsServeNothingStale ==
    ASSUME \A p, q \in Process : p = q, OneHomeEach, ReplacedByAnother
    PROVE  /\ Spec => []OpenErratumServesNothingStale
           /\ RetiredForGood => (Spec => []AppliedStaysClean)
<1>1. Spec => []NoRepairIsLate
  BY SingleRepairsArePrompt
<1>2. Spec => []~raced
  BY SingleCommandsDoNotRace
<1>3. Spec => []OpenErratumServesNothingStale
  BY <1>1, <1>2, OpenErrataStayGated, PTL
<1>4. ASSUME RetiredForGood PROVE Spec => []AppliedStaysClean
  BY <1>1, <1>2, <1>4, AppliedErrataStayApplied, PTL
<1> QED
  BY <1>3, <1>4
===============================================================================
