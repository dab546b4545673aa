------------------------------ MODULE Vocabulary ------------------------------
(***************************************************************************)
(* The values every module speaks about.  A text is the set of             *)
(* propositions it states: the code joins texts with "; ", which is union  *)
(* here, and probes a text for a substring, which is membership here.      *)
(***************************************************************************)
CONSTANTS
    Root,   \* imported memory roots an erratum can name
    Prop,   \* propositions a text may state
    None    \* an absent record, root, key or replacement

ASSUME NoneAssumption ==
    None \notin Root /\ None \notin Prop /\ \A t \in SUBSET Prop : t # None

Text == SUBSET Prop
===============================================================================
