---- MODULE MCSemanticRun ----
(* A correction with an optional probe, an erasure, and declarations that are *)
(* no triad; answers of every verdict, and stray, stale or foreign ones.   *)
EXTENDS SemanticRun

P(id, kind, op, req) == [id |-> id, kind |-> kind, operation |-> op, required |-> req]
O(id, op, config, verdict) ==
    [id |-> id, operation |-> op, config |-> config, verdict |-> verdict]

Correction == {P("n", "negative", "correct", TRUE), P("p", "positive", "correct", TRUE),
               P("k", "preservation", "correct", TRUE)}
Erasure == {P("n", "negative", "erase", TRUE), P("k", "preservation", "erase", TRUE)}
MCProbeSet == {
    Correction, Erasure,
    Correction \cup {P("o", "positive", "correct", FALSE)},
    {P("n", "negative", "erase", FALSE), P("k", "preservation", "erase", TRUE)},
    {P("n", "negative", "correct", TRUE), P("p", "positive", "supersede", TRUE)}, {} }
MCErasureProbeId == [kind \in {"negative", "preservation"} |->
                        IF kind = "negative" THEN "n" ELSE "k"]

MCObservation ==
    {O(id, "correct", "now", v) : id \in {"n", "p", "o"}, v \in {"pass", "fail"}}
    \cup {O("k", "correct", "now", v) : v \in {"pass", "inconclusive"}}
    \cup {O(id, "erase", "now", "pass") : id \in {"n", "k"}}
    \cup {O("n", "erase", "now", "fail"), O("stray", "correct", "now", "pass"),
          O("k", "correct", "then", "fail")}
MCRecorded == {
    <<>>,
    <<O("n", "correct", "now", "pass"), O("p", "correct", "now", "pass"),
      O("k", "correct", "now", "pass")>>,
    <<O("n", "correct", "now", "pass"), O("p", "correct", "now", "pass"),
      O("k", "correct", "now", "pass"), O("n", "correct", "now", "pass")>>,
    <<O("n", "erase", "now", "fail"), O("n", "erase", "now", "fail"),
      O("k", "erase", "now", "pass")>> }
====
