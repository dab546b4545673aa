------------------------------- MODULE Lineage -------------------------------
(***************************************************************************)
(* The lineage ledger (prototype/lineage.py): which local artifact came    *)
(* from which imported root, recorded when the artifact is written.        *)
(*                                                                         *)
(* A ledger maps every artifact id to its record, or to None while the id  *)
(* is not registered.                                                      *)
(***************************************************************************)
EXTENDS Vocabulary

CONSTANT ArtifactId   \* ids a ledger may hold

ArtifactRecord ==
    [root : {None} \cup Root, inputs : SUBSET ArtifactId, content : Text]

ASSUME LineageAssumption == \A record \in ArtifactRecord : record # None

Ledger == [ArtifactId -> {None} \cup ArtifactRecord]

Known(ledger) == {a \in ArtifactId : ledger[a] # None}

RegisterImport(ledger, r, a, content) ==
    [ledger EXCEPT ![a] = [root |-> r, inputs |-> {}, content |-> content]]

\* register_derivation raises KeyError when this is false.
InputsKnown(ledger, inputs) == inputs \subseteq Known(ledger)

RegisterDerivation(ledger, a, inputs, content) ==
    [ledger EXCEPT ![a] = [root |-> None, inputs |-> inputs, content |-> content]]

SetContent(ledger, a, content) == [ledger EXCEPT ![a].content = content]

RootsSeen(ledger) == {ledger[a].root : a \in Known(ledger)} \ {None}

DirectlyFrom(ledger, r) == {a \in Known(ledger) : ledger[a].root = r}

Derived(ledger) == {a \in Known(ledger) : ledger[a].inputs # {}}

\* `set` holds every registered artifact that has an input in it.
ClosedUnderDerivation(ledger, set) ==
    \A a \in Derived(ledger) : ledger[a].inputs \cap set # {} => a \in set

\* descendants(root): the least set that holds the direct imports and is
\* closed.  Module LineageWalk models the loop that computes it.
Descendants(ledger, r) ==
    LET direct == DirectlyFrom(ledger, r)
        closed == {set \in {direct \cup more : more \in SUBSET Derived(ledger)} :
                      ClosedUnderDerivation(ledger, set)}
    IN  {a \in direct \cup Derived(ledger) : \A set \in closed : a \in set}

\* A variant that joins the replacement even when there is none.
JoinedTextAndReplacement(ledger, inputs, replacement) ==
    (UNION {ledger[a].content : a \in inputs}) \cup {replacement}

\* What a rebuild writes: the surviving inputs and the replacement.
JoinedText(ledger, inputs, replacement) ==
    (UNION {ledger[a].content : a \in inputs})
        \cup (IF replacement = None THEN {} ELSE {replacement})
=============================================================================
