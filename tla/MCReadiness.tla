---- MODULE MCReadiness ----
(***************************************************************************)
(* Gates G3 to G6 over two parts: the roadmap, which the surfaces of G4,   *)
(* G5 and G6 share, and the cryptography, which those of G3 and G4 share.  *)
(* Two adapters, a validator that vouches for both, and a report for each  *)
(* other gate, with a second operational one whose number misses.  An edit *)
(* may change the review target alone, which no digest sees.               *)
(***************************************************************************)
EXTENDS Readiness, TLC

MCGate    == {"G3", "G4", "G5", "G6"}
MCPart    == {"crypto", "roadmap"}
MCSurface == [g \in RequiredGates \ {"G1", "G4"} |->
                 CASE g = "G2" -> {"crypto", "roadmap"}
                   [] g = "G3" -> {"crypto"}
                   [] OTHER    -> {"roadmap"}]
MCRevision == {"old", "new", "new target"}
MCHashed   == [r \in MCRevision |-> IF r = "new target" THEN "old" ELSE r]
MCFirstTree == [p \in MCPart |-> "old"]
MCInsider  == {"maintainer"}

Outside(gate, producer) ==
    [gate |-> gate, producer |-> producer, producer_identity |-> producer, complete |-> TRUE, result |-> "pass"]
Adapter(producer, implementation) ==
    Outside("G4", producer) @@
    [role |-> "adapter", implementation |-> implementation,
     receipt |-> implementation, erratum |-> "e1"]
Validator(producer) ==
    Outside("G4", producer) @@
    [role |-> "validator", implementation |-> "checker", erratum |-> "e1",
     validated |-> {[implementation |-> i, receipt |-> i, result |-> "pass"] :
                       i \in {"red", "blue"}}]
Cryptography == Outside("G3", "lab") @@ [constant_time |-> TRUE, audited_build |-> TRUE]
System(operator) ==
    [operator |-> operator, passes |-> TRUE, independent |-> TRUE, completed |-> Operations,
     nonconforming |-> operator = "x", mixed |-> operator = "z",
     coverage |-> IF operator = "y" THEN "opaque" ELSE "complete"]
Experiment ==
    Outside("G5", "lab") @@
    [synthetic |-> TRUE, user_controlled |-> TRUE, systems |-> {System(o) : o \in {"x", "y", "z"}}]
Operational(value) ==
    Outside("G6", "ops") @@
    [scopes |-> {[passes |-> TRUE, measurements |->
                    {[value |-> value, comparator |-> "<=", threshold |-> 1]}]}]

MCBody == {Adapter("ann", "red"), Adapter("bob", "blue"), Validator("cyd"),
           Cryptography, Experiment, Operational(1), Operational(2)}
====
