---------------------------- MODULE ReadinessProofs ----------------------------
(***************************************************************************)
(* What an accepted status or verdict rests on, for every repository, set  *)
(* of reports and number of edits and commits.                             *)
(*                                                                         *)
(* Entries are only meaningful together with the commits they name, so the *)
(* invariant comes first: every entry names a commit there is and has a    *)
(* digest of exactly its gate's surface.  Commits are only ever appended,  *)
(* hence a name keeps its meaning.  With it the conditions of the check    *)
(* say what the properties say of the present content.                     *)
(***************************************************************************)
EXTENDS Readiness, TLAPS

Tree == [Part -> Revision]

RepositoryType == work \in Tree /\ history \in Seq(Tree) /\ history # <<>>

\* Every entry names a commit and has a digest of its gate's surface.
EntriesNameCommits ==
    \A e \in evidence :
        /\ e.gate \in Gate \ {"G1"}
        /\ e.commit \in DOMAIN history
        /\ DOMAIN e.digest = SurfaceOf(e.gate)

LInv == RepositoryType /\ EntriesNameCommits

\* A report keeps what its author said and gains the commit and the digest.
LEMMA ReportHas ==
    ASSUME NEW b \in Body, NEW c, NEW digest
    PROVE  /\ Report(b, c, digest).gate = b.gate
           /\ Report(b, c, digest).commit = c
           /\ Report(b, c, digest).digest = digest
<1>1. "gate" \in DOMAIN b
  BY ReadinessAssumption
<1> QED
  BY <1>1 DEF Report

LEMMA EnterStep ==
    ASSUME LInv, NEW b \in Body, NEW c \in DOMAIN history, NEW tree,
           Enter(Report(b, c, Digest(tree, b.gate)))
    PROVE  LInv'
<1> DEFINE new == Report(b, c, Digest(tree, b.gate))
<1>1. new.gate = b.gate /\ new.commit = c /\ new.digest = Digest(tree, b.gate)
  BY ReportHas
<1>2. DOMAIN new.digest = SurfaceOf(new.gate) /\ new.gate \in Gate \ {"G1"}
  BY <1>1, ReadinessAssumption DEF Digest
<1>3. evidence' = evidence \cup {new} /\ UNCHANGED <<work, history>>
  BY DEF Enter
<1> HIDE DEF new
<1> QED
  BY <1>1, <1>2, <1>3 DEF LInv, RepositoryType, EntriesNameCommits, SurfaceOf

LEMMA LInvStep == LInv /\ [Next]_vars => LInv'
<1> SUFFICES ASSUME LInv, [Next]_vars PROVE LInv'
  OBVIOUS
<1>1. ASSUME NEW p \in Part, NEW v \in Revision, Edit(p, v) PROVE LInv'
  BY <1>1 DEF Edit, LInv, RepositoryType, Tree, EntriesNameCommits, SurfaceOf
<1>2. CASE Commit
  <2>1. history' = Append(history, work) /\ UNCHANGED <<work, evidence>>
    BY <1>2 DEF Commit
  <2>2. history' \in Seq(Tree) /\ Len(history') = Len(history) + 1
    BY <2>1 DEF LInv, RepositoryType
  <2>3. DOMAIN history \subseteq DOMAIN history'
    BY <2>2 DEF LInv, RepositoryType
  <2>4. history' # <<>>
    BY <2>2 DEF LInv, RepositoryType
  <2> QED
    BY <2>1, <2>2, <2>3, <2>4 DEF LInv, RepositoryType, EntriesNameCommits, SurfaceOf
<1>3. ASSUME NEW b \in Body, NEW c \in DOMAIN history, Record(b, c) PROVE LInv'
  BY <1>3, EnterStep DEF Record
<1>4. ASSUME NEW b \in Body, RecordDirty(b) PROVE LInv'
  <2>1. Len(history) \in DOMAIN history
    BY DEF LInv, RepositoryType
  <2> QED
    BY <1>4, <2>1, EnterStep DEF RecordDirty
<1>5. ASSUME NEW e \in evidence, Withdraw(e) PROVE LInv'
  BY <1>5 DEF Withdraw, LInv, RepositoryType, EntriesNameCommits, SurfaceOf
<1>6. CASE UNCHANGED vars
  BY <1>6 DEF vars, LInv, RepositoryType, EntriesNameCommits, SurfaceOf
<1> QED
  BY <1>1, <1>2, <1>3, <1>4, <1>5, <1>6 DEF Next

LEMMA LInvInit == Init => LInv
<1> SUFFICES ASSUME Init PROVE LInv
  OBVIOUS
<1>1. work \in Tree /\ history = <<work>> /\ evidence = {}
  BY ReadinessAssumption DEF Init, Tree
<1> QED
  BY <1>1 DEF LInv, RepositoryType, EntriesNameCommits

\* Whatever is edited, committed, recorded and withdrawn, every entry of the
\* ledger names a commit there is and a digest of its gate's surface; commits
\* are only appended, so what an entry names never changes.
THEOREM EntriesKeepTheirMeaning ==
    Spec => /\ []EntriesNameCommits
            /\ [][\A c \in DOMAIN history : history'[c] = history[c]]_vars
<1>1. LInv => EntriesNameCommits
  BY DEF LInv
<1>2. LInv /\ [Next]_vars => [\A c \in DOMAIN history : history'[c] = history[c]]_vars
  <2> SUFFICES ASSUME LInv, [Next]_vars, NEW c \in DOMAIN history
               PROVE  history'[c] = history[c]
    OBVIOUS
  <2>1. CASE Commit
    BY <2>1 DEF Commit, LInv, RepositoryType
  <2>2. CASE UNCHANGED history
    BY <2>2
  <2> QED
    BY <2>1, <2>2 DEF Next, Edit, Record, RecordDirty, Enter, Withdraw, vars
<1> QED
  BY LInvInit, LInvStep, <1>1, <1>2, PTL DEF Spec

-----------------------------------------------------------------------------
\* A valid entry that passes supports its gate.
LEMMA ValidSupports ==
    ASSUME NEW e \in evidence, NEW g, e.gate = g, Valid(e), Passing(e.result)
    PROVE  Supports(e, g)
<1>1. /\ e.producer \notin Insider
      /\ e.digest = Digest(work, g) /\ e.digest = Digest(history[e.commit], g)
  BY DEF Valid, Bound
<1> QED
  BY <1>1 DEF Supports, Digest

LEMMA QualifiedIsSupported ==
    ASSUME NEW g, Qualified(g)
    PROVE  \E e \in evidence : Supports(e, g)
<1>1. CASE g = "G4"
  <2>1. PICK v \in EvidenceFor("G4") : Valid(v) /\ Passing(v.result)
    BY <1>1 DEF Qualified, QualifyTogether
  <2> QED
    BY <1>1, <2>1, ValidSupports DEF EvidenceFor
<1>2. CASE g # "G4"
  BY <1>2, ValidSupports DEF Qualified, Qualifies, EvidenceFor
<1> QED
  BY <1>1, <1>2

\* A status that is accepted as PASS rests on an outside report that passed and
\* read exactly what its surface holds now and held at the commit it names.
THEOREM PassRestsOnContent == Spec => []PassRestsOnThisContent
<1>1. PassRestsOnThisContent
  BY QualifiedIsSupported DEF PassRestsOnThisContent, Accepts
<1> QED
  BY <1>1, PTL

\* In an instance that has these gates, a ledger accepted as ready has measured
\* what it claims: operations, experiment and build.
THEOREM ReadyRestsOnMeasurements ==
    {"G3", "G5", "G6"} \subseteq Gate => (Spec => []ReadyIsMeasured)
<1> SUFFICES ASSUME {"G3", "G5", "G6"} \subseteq Gate PROVE Spec => []ReadyIsMeasured
  OBVIOUS
<1>1. ReadyIsMeasured
  <2> SUFFICES ASSUME NEW said \in Statement, Accepts(said), said.verdict = "PROD_READY"
               PROVE  /\ \E e \in evidence :
                            /\ Supports(e, "G6")
                            /\ \A s \in e.scopes : \A m \in s.measurements : MeasurementPasses(m)
                      /\ \E e \in evidence :
                            /\ Supports(e, "G5")
                            /\ \A s \in e.systems : s.passes /\ Operations \subseteq s.completed
                      /\ \E e \in evidence : Supports(e, "G3") /\ e.audited_build
    BY DEF ReadyIsMeasured
  <2>1. ASSUME NEW g \in {"G3", "G5", "G6"}
        PROVE  \E e \in evidence : e.gate = g /\ Supports(e, g) /\ Details(e)
    <3>1. Qualified(g) /\ g # "G4"
      BY <2>1 DEF Accepts
    <3>2. PICK e \in EvidenceFor(g) : Qualifies(e)
      BY <3>1 DEF Qualified
    <3> QED
      BY <3>2, ValidSupports DEF Qualifies, EvidenceFor
  <2>2. PICK e3 \in evidence : e3.gate = "G3" /\ Supports(e3, "G3") /\ Details(e3)
    BY <2>1
  <2>3. PICK e5 \in evidence : e5.gate = "G5" /\ Supports(e5, "G5") /\ Details(e5)
    BY <2>1
  <2>4. PICK e6 \in evidence : e6.gate = "G6" /\ Supports(e6, "G6") /\ Details(e6)
    BY <2>1
  <2>5. e3.audited_build
    BY <2>2 DEF Details
  <2>6. \A s \in e5.systems : s.passes /\ s.completed = Operations
    BY <2>3 DEF Details, ExperimentHolds
  <2>7. \A s \in e6.scopes : \A m \in s.measurements : MeasurementPasses(m)
    BY <2>4 DEF Details
  <2> QED
    BY <2>2, <2>3, <2>4, <2>5, <2>6, <2>7
<1> QED
  BY <1>1, PTL
===============================================================================
