---- MODULE MCWorkspace ----
(***************************************************************************)
(* One workspace with two imported roots.                                  *)
(*   1 fact A, 2 fact B, 3 note from 1, 4 note from 2,                     *)
(*   5 is derived late: a digest of the note 3                             *)
(***************************************************************************)
EXTENDS Workspace, TLC

MCRoot == {"A", "B"}
MCProp == {"a0", "a1", "a2", "b0", "b1"}
MCArtifactId == 1..5
MCKeySchedule == <<[from |-> 1, key |-> "owner"]>>

Import(id, r, p) == [id |-> id, root |-> r, inputs |-> {}, content |-> {p}]
DeriveLine(id, in, t) == [id |-> id, root |-> None, inputs |-> in, content |-> t]

FactA   == Import(1, "A", "a0")
FactB   == Import(2, "B", "b0")
NoteA   == DeriveLine(3, {1}, {"a0"})
NoteB   == DeriveLine(4, {2}, {"b0"})
Digest  == DeriveLine(5, {3}, {"a0"})

MCSeparate == <<FactA, FactB, NoteA, NoteB>>
MCLateLines == {FactA, FactB, NoteA, NoteB, Digest}

Erratum(id, n, r, new, old, keep) ==
    [id |-> id, seq |-> n, root |-> r, op |-> "correct", replacement |-> new,
     negative |-> old, positive |-> new, preserve |-> keep,
     key |-> "owner", signer |-> "owner"]
CorrectA == Erratum("e1", 1, "A", "a1", "a0", {"b0"})
CorrectB == Erratum("e2", 2, "B", "b1", "b0", {"a1"})
AgainA   == Erratum("e2", 2, "A", "a2", "a1", {"b0"})

MCTwoRoots == {CorrectA, CorrectB}
MCSameRoot == {CorrectA, AgainA}
MCNoFeed   == <<>>
\* Processes differ in nothing but their name.
MCSymmetry == Permutations(Process)
MCFeed     == <<CorrectA, CorrectB>>

\* The circumstances the serving theorems ask for are those of these instances.
ASSUME LinesHaveOneHome ==
    /\ OneHomeEach /\ ReplacedByAnother
    /\ Event = MCTwoRoots => NeverStatedAgain
    /\ Event = MCSameRoot => RetiredForGood
====
