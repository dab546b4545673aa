---- MODULE MCConformance ----
(***************************************************************************)
(* At the start a binding that imports its helper in a case and follows it *)
(* into blindness.  Edits bring one that imports its helper at once,       *)
(* bindings with one defect or one trouble each, two that catch the alarm, *)
(* one that recites the corpus and one that recites and is blind.          *)
(***************************************************************************)
EXTENDS Conformance, TLC

MCTarget == "v1"
MCCanonical  == [target |-> MCTarget, complete |-> TRUE, exact |-> TRUE]
MCCorpus     == {MCCanonical, [MCCanonical EXCEPT !.exact = FALSE],
                 [MCCanonical EXCEPT !.target = "v0"]}
MCDiverse    == {"verified", "failed", "unknown"}
MCFixtures   == {MCDiverse, {"unknown"}, None}
MCHelper     == {"h1", "h2"}
MCBinding    == {"lazy", "eager", "skips", "swaps", "slow", "raising audit",
                 "hanging audit", "leaves", "fails", "stubborn", "patient",
                 "recites", "recites alike"}
MCImports    == [b \in MCBinding |-> CASE b = "lazy"  -> "in a case"
                                       [] b = "eager" -> "at import"
                                       [] OTHER       -> "never"]

Quiet == [p \in Point |-> "nothing"]
Good == [plain |-> [c \in Case |-> "none"], mutated |-> [c \in Case |-> c],
         answers |-> [mode \in Mode |-> [c \in Case |-> "seen"]],
         skips |-> {}, trouble |-> Quiet, catches |-> {}]
Recited(answer) == [plain |-> [c \in Case |-> "expected"], mutated |-> [c \in Case |-> answer]]
Blind == [Good EXCEPT !.mutated["duplicate-preserved-inputs"] = "none"]
ConductOf(b, h) ==
    CASE b = "lazy" /\ h = "h2"     -> Blind
      [] b = "eager" /\ h = "h1"    -> [Good EXCEPT !.trouble["name"] = "hang"]
      [] b = "eager" /\ h = "h2"    -> [Good EXCEPT !.trouble["import"] = "leave"]
      [] b = "hanging audit"        -> [Good EXCEPT !.trouble["audit"] = "hang"]
      [] b = "skips"                -> [Good EXCEPT !.skips = {"empty-receipt"}]
      [] b = "swaps" -> [Good EXCEPT !.plain["empty-receipt"] = "retire-entire-store"]
      [] b = "slow" -> [Good EXCEPT !.trouble["audit"] = "slow", !.trouble["repair"] = "slow"]
      [] b = "raising audit"        -> [Good EXCEPT !.trouble["audit"] = "raise"]
      [] b = "leaves"               -> [Good EXCEPT !.trouble["construct"] = "leave"]
      [] b = "fails"                -> [Good EXCEPT !.trouble["repair"] = "raise"]
      [] b = "stubborn" -> [Good EXCEPT !.trouble["construct"] = "hang",
                                        !.catches = {"construct"}]
      [] b = "patient"  -> [Good EXCEPT !.trouble["repair"] = "slow", !.trouble["audit"] = "slow",
                                        !.catches = {"repair", "audit"}]
      [] b = "recites"  -> [Good EXCEPT !.answers = Recited("counter"),
                                        !.mutated = [c \in Case |-> "none"]]
      [] b = "recites alike" -> [Good EXCEPT !.answers = Recited("expected")]
      [] OTHER          -> Good
MCConduct == [x \in MCBinding \X (MCHelper \cup {None}) |-> ConductOf(x[1], x[2])]

MCFirstTree == [corpus |-> MCCanonical, fixtures |-> MCDiverse,
                binding |-> "lazy", helper |-> "h1"]
====
