---------------------------- MODULE ErratumLifecycle ----------------------------
(***************************************************************************)
(* What an importer promises of its feed, whatever stores, files and       *)
(* processes it is made of (IDEA.md, "observe, quarantine, rebuild, test,  *)
(* attest"): an erratum is gated, then rebuilt, then attested; a rebuild   *)
(* that fails leaves it gated; one erratum at a time; in sequence, and one *)
(* erratum per sequence.  Attestation is final.                            *)
(***************************************************************************)
EXTENDS Naturals

CONSTANT Event      \* errata, each with its sequence `seq`

VARIABLE stage      \* how far each erratum has come

Stage == {"unseen", "gated", "rebuilding", "attested"}

\* Nothing before e is missing and nothing stands in its place.
InTurn(e) ==
    /\ \A s \in 1..(e.seq - 1) : \E f \in Event : f.seq = s /\ stage[f] = "attested"
    /\ \A f \in Event : f.seq = e.seq /\ f # e => stage[f] = "unseen"

Init == stage = [e \in Event |-> "unseen"]

\* An erratum is gated when its turn has come.
Gate(e) ==
    /\ stage[e] = "unseen"
    /\ InTurn(e)
    /\ stage' = [stage EXCEPT ![e] = "gated"]

\* Only what is gated is rebuilt, and nothing else is being rebuilt.
Begin(e) ==
    /\ stage[e] = "gated"
    /\ \A f \in Event : stage[f] # "rebuilding"
    /\ stage' = [stage EXCEPT ![e] = "rebuilding"]

\* A rebuild that does not get to its receipt leaves the erratum gated.
Fail(e) ==
    /\ stage[e] = "rebuilding"
    /\ stage' = [stage EXCEPT ![e] = "gated"]

Attest(e) ==
    /\ stage[e] = "rebuilding"
    /\ stage' = [stage EXCEPT ![e] = "attested"]

Next == \E e \in Event : Gate(e) \/ Begin(e) \/ Fail(e) \/ Attest(e)

Spec == Init /\ [][Next]_stage

-----------------------------------------------------------------------------
TypeOK == stage \in [Event -> Stage]

\* Errata leave "unseen" in feed order without a gap, at most one per sequence,
\* and at most one of them is being rebuilt.
InFeedOrder ==
    /\ \A e \in Event : stage[e] # "unseen" => InTurn(e)
    /\ \A e, f \in Event : stage[e] = "rebuilding" /\ stage[f] = "rebuilding" => e = f
===============================================================================
