---- MODULE MCWalks ----
(***************************************************************************)
(* The two loops that walk over what an importer was given: verify_feed    *)
(* over feeds of up to four of nine events, where the owner rotates its    *)
(* key at 3, and LineageLedger.descendants over every ledger of three      *)
(* artifacts, cycles included.  The two share no state, so a behaviour     *)
(* runs either of them and leaves the other returned.                      *)
(***************************************************************************)
EXTENDS FeedWalk, LineageWalk

FeedReturned ==
    /\ feed = <<>> /\ last = 0 /\ read = 0 /\ previous = 0
    /\ seen = {} /\ accepted = <<>> /\ outcome = "returned"
WalkReturned ==
    /\ ledger = [a \in ArtifactId |-> None] /\ root = "A"
    /\ closure = {} /\ changed = FALSE /\ todo = {}

\* Every ledger over the artifacts and two of the roots; content plays no part.
WalkBegins ==
    /\ ledger \in [ArtifactId -> {None} \cup [root : {None, "A", "B"},
                                            inputs : SUBSET ArtifactId, content : {{}}]]
    /\ root \in {"A", "B"}
    /\ WalkInit

WalksInit == (Init /\ WalkReturned) \/ (FeedReturned /\ WalkBegins)

WalksNext ==
    \/ Next /\ UNCHANGED walkVars
    \/ WalkNext /\ UNCHANGED vars

WalksSpec ==
    /\ WalksInit /\ [][WalksNext]_<<vars, walkVars>>
    /\ WF_vars(Next) /\ WF_walkVars(WalkNext)

Good(id, seq, key) ==
    [id |-> id, seq |-> seq, root |-> "A", op |-> "correct", replacement |-> "new",
     negative |-> "old", positive |-> "new", preserve |-> {"other"},
     key |-> key, signer |-> key]

MCKeySchedule == <<[from |-> 1, key |-> "k1"], [from |-> 3, key |-> "k2"]>>

MCEvent == {
    Good("e1", 1, "k1"), Good("e2", 2, "k1"), Good("e3", 3, "k2"),
    Good("e1b", 1, "k1"),                                \* equivocation
    [Good("e2f", 2, "k1") EXCEPT !.signer = None],       \* forged
    Good("e3k", 3, "k1"),                                \* retired key
    [Good("e2r", 2, "k1") EXCEPT !.root = "Z"],          \* unknown root
    [Good("e1e", 1, "k1") EXCEPT !.op = "erase"],        \* erase with a replacement
    [Good("e2p", 2, "k1") EXCEPT !.positive = None] }    \* no positive leg
MCRoot == {"A", "B", "Z"}
MCProp == {"old", "new", "other"}
MCAcceptedRoot == {"A", "B"}
MCArtifactId == {"x", "y", "z"}
====
