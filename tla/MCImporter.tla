---- MODULE MCImporter ----
(***************************************************************************)
(* One importer with facts of two roots, a summary that mixes them, a      *)
(* digest of the summary, and three vector entries.                        *)
(*   1 fact A, 2 fact B, 3 summary of 1 and 2, 4 digest of 3,              *)
(*   5 a note the host may yet derive, 6 and 7 re-exports,                 *)
(*   8 entry of fact A, 9 entry of the summary, 10 entry of the note       *)
(***************************************************************************)
EXTENDS Importer, TLC

MCRoot == {"A", "B"}
MCProp == {"a0", "a1", "a2", "b0", "b1"}
MCArtifactId == 1..7
MCEntry == 8..10
MCSourceOf == 8 :> 1 @@ 9 :> 3 @@ 10 :> 5
MCSeedIndex == {8, 9}
MCSummaryIndexed == {9}
MCLooseText == [v \in MCEntry |-> {"b0"}]

Fact(r, p) == [root |-> r, inputs |-> {}, content |-> {p}]
From(in, t) == [root |-> None, inputs |-> in, content |-> t]
MCSeedLedger ==
    1 :> Fact("A", "a0") @@ 2 :> Fact("B", "b0")
    @@ 3 :> From({1, 2}, {"a0", "b0"}) @@ 4 :> From({3}, {"a0", "b0"})
    @@ [a \in 5..7 |-> None]

MCDerivation == 5 :> {1, 4}
MCNoDerivation == [a \in {} |-> {}]
MCReimportId == 0 :> 6 @@ 2 :> 7
MCExportText ==
    "A" :> (0 :> {"a0"} @@ 2 :> {"a1"}) @@ "B" :> (0 :> {"b0"} @@ 2 :> {"b0"})
MCNoReimport == [s \in {} |-> 6]
MCNoExport == [r \in MCRoot |-> [s \in {} |-> {}]]

MCKeySchedule == <<[from |-> 1, key |-> "k1"], [from |-> 2, key |-> "k2"]>>

Correct ==
    [id |-> "e1", seq |-> 1, root |-> "A", op |-> "correct", replacement |-> "a1",
     negative |-> "a0", positive |-> "a1", preserve |-> {"b0"},
     key |-> "k1", signer |-> "k1"]
Supersede == [Correct EXCEPT !.id = "s1", !.op = "supersede"]
Erase ==
    [id |-> "e2", seq |-> 2, root |-> "A", op |-> "erase", replacement |-> None,
     negative |-> "a1", positive |-> None, preserve |-> {"b0"},
     key |-> "k2", signer |-> "k2"]
CorrectB ==
    [Correct EXCEPT !.id = "b2", !.seq = 2, !.root = "B", !.replacement = "b1",
                    !.negative = "b0", !.positive = "b1", !.preserve = {"a1"},
                    !.key = "k2", !.signer = "k2"]
Forged == [Correct EXCEPT !.id = "f1", !.signer = None]

SupersedeNext ==
    [Correct EXCEPT !.id = "s2", !.seq = 2, !.op = "supersede", !.replacement = "a2",
                    !.negative = "a1", !.positive = "a2", !.key = "k2", !.signer = "k2"]

MCTwoRoots == {Correct, CorrectB}
MCHistory == {Correct, SupersedeNext}
MCChain == {Correct, Erase}
MCEvent == {Correct, Supersede, Forged, Erase}

\* The circumstances the serving theorems ask for are those of these instances.
ASSUME ChainIsOfAPlainHost ==
    Event = MCChain => /\ PlainHost /\ RetiredForGood
                       /\ ProbesFitTheSeeds
                       /\ \A e, f \in Event : e.root = f.root
====
