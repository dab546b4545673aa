-------------------------- MODULE MCPublicationHistory --------------------------
\* A surface 2 that superseded 1, a second one, 3, beside it, and two fresh URLs.
EXTENDS PublicationHistory

MCUrl    == 1..5
MCTarget == 1..2

\* A replacement of 2, one of 3 that may also replace the former, and the
\* superseded 1 put forward again.
MCSurface ==
    {[url |-> r[1], target |-> t, supersedes |-> r[2]] :
        r \in {<<4, {2}>>, <<5, {3, 4}>>, <<1, {2}>>}, t \in MCTarget}

MCSeed ==
    [schema     |-> "present",
     target     |-> 1,
     active     |-> {[url |-> 2, target |-> 1, supersedes |-> {1}],
                     [url |-> 3, target |-> 1, supersedes |-> {}]},
     historical |-> {[url |-> 1, target |-> 1, supersedes |-> {}, superseded_by |-> 2]}]
===============================================================================
