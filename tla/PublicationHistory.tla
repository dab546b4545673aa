--------------------------- MODULE PublicationHistory ---------------------------
(***************************************************************************)
(* The publication manifest and its checker (scripts/check_publication.py).*)
(* The manifest lists the surfaces (public review calls) that are current  *)
(* and those that were superseded, each current one bound to the review    *)
(* target.  Editors change the draft, git keeps each committed revision,   *)
(* and the checker reads the draft with the whole history: it alone says   *)
(* what an edit, or a sequence of edits and commits, may have done.        *)
(*                                                                         *)
(* Dates, roles, licence, digests and the packaging delta are left out, and*)
(* an id stands and falls with its URL.  The lists are sets: none repeats  *)
(* a record.  Editors and git are not code of the repository.              *)
(***************************************************************************)
EXTENDS Naturals, Sequences, FiniteSets

CONSTANTS
    Url,            \* of surfaces, all in the repository
    Target,         \* review targets, numbered as they come
    Surface,        \* surfaces an editor may write
    Seed,           \* the first manifest under the present schema
    MaxRevisions,   \* bound: revisions in the history
    MaxSlips        \* bound: edits of a careless editor

VARIABLES
    history,        \* the committed revisions, oldest first
    draft,          \* the manifest in the working tree
    slips

vars == <<history, draft, slips>>

\* SURFACE_KEYS and HISTORICAL_SURFACE_KEYS
ActiveSurface == [url : Url, target : Target, supersedes : SUBSET Url]
HistoricalSurface ==
    [url : Url, target : Target, supersedes : SUBSET Url, superseded_by : Url]
\* schema 3, schema 1 or 2, or a file that is no manifest
Schema   == {"present", "older", "unreadable"}
Manifest == [schema : Schema, target : Target,
             active : SUBSET ActiveSurface, historical : SUBSET HistoricalSurface]

ASSUME PublicationAssumption ==
    /\ IsFiniteSet(Url) /\ Target \subseteq Nat
    /\ Surface \subseteq ActiveSurface
    /\ Seed \in Manifest /\ Seed.schema = "present"
    /\ IsFiniteSet(Seed.active) /\ IsFiniteSet(Seed.historical)
    /\ MaxRevisions \in Nat /\ MaxSlips \in Nat

\* A variant that forgets the forward link.
RetiredUnlinked(r, u) == r

\* _historical_version_of: the record as it was, with its forward link
Retired(r, u) == [url |-> r.url, target |-> r.target, supersedes |-> r.supersedes,
                  superseded_by |-> u]

UrlsOf(records) == {r.url : r \in records}

-----------------------------------------------------------------------------
\* The checker.

\* A variant that compares the current surfaces only.
UrlsAreUniqueAmongActive(m) == Cardinality(UrlsOf(m.active)) = Cardinality(m.active)

UrlsAreUnique(m) ==
    Cardinality(UrlsOf(m.active) \cup UrlsOf(m.historical))
        = Cardinality(m.active) + Cardinality(m.historical)

\* The record a historical one names as its successor, if that names it back.
LinkedSuccessor(m, h) ==
    {s \in m.active \cup m.historical :
        s.url = h.superseded_by /\ h.url \in s.supersedes}

\* A variant in which a successor that is not listed is no fault.
ChainEndsIfListed(m, h) ==
    h.superseded_by \in UrlsOf(m.active \cup m.historical) => LinkedSuccessor(m, h) # {}

\* The cursor walks from h over historical records to one whose successor is
\* current.  The loop's visited set refuses a cycle; here a walk is no longer
\* than the list.
ChainEnds(m, h) ==
    \E n \in 1 .. Cardinality(m.historical) : \E walk \in [1 .. n -> m.historical] :
        /\ walk[1] = h
        /\ \A k \in 1 .. n - 1 : walk[k + 1] \in LinkedSuccessor(m, walk[k])
        /\ LinkedSuccessor(m, walk[n]) \cap m.active # {}

\* _validate_supersession_chains
ChainsHold(m) == UrlsAreUnique(m) /\ \A h \in m.historical : ChainEnds(m, h)

\* A variant that looks at the current surfaces of the earlier revision only.
RemovedAreRecorded(previous, current) ==
    \A r \in previous.active \ current.active :
        \E h \in current.historical : h = Retired(r, h.superseded_by)

\* Exact and append-only: a historical record stays, a current one stays or
\* becomes historical.
RecordsAreKept(previous, current) ==
    /\ previous.historical \subseteq current.historical
    /\ \A r \in previous.active \ current.active :
          \E h \in current.historical : h = Retired(r, h.superseded_by)

\* Once a surface is removed, every new one supersedes a removed one.
ReplacementsNameTheirs(previous, current) ==
    LET removed == UrlsOf(previous.active \ current.active)
    IN  removed # {} =>
            \A r \in current.active \ previous.active : r.supersedes \cap removed # {}

\* _manifest_history: one unreadable revision refuses everything, one under an
\* older schema is passed over.
HistoryIsReadable == \A n \in DOMAIN history : history[n].schema # "unreadable"
Manifests(line)   == {n \in DOMAIN line : line[n].schema = "present"}

\* Manifests with none between them
Neighbours(line) ==
    {p \in Manifests(line) \X Manifests(line) :
        p[1] < p[2] /\ \A n \in p[1] + 1 .. p[2] - 1 : n \notin Manifests(line)}

\* _validate_append_only_history: what is checked comes last (the code leaves it
\* out where it is the last revision itself, which has nothing to tell).
HistoryHolds(m) ==
    LET line == Append(history, m)
    IN  /\ HistoryIsReadable
        /\ \A p \in Neighbours(line) :
              /\ RecordsAreKept(line[p[1]], line[p[2]])
              /\ ReplacementsNameTheirs(line[p[1]], line[p[2]])

\* Every current surface is bound to the review target.
BindsTheTarget(m) == \A r \in m.active : r.target = m.target

\* validate_manifest returns no failure.
Accepted ==
    /\ draft.schema = "present"
    /\ draft.active # {} /\ draft.historical # {}
    /\ BindsTheTarget(draft)
    /\ ChainsHold(draft)
    /\ HistoryHolds(draft)

-----------------------------------------------------------------------------
Init ==
    /\ history = <<Seed>>
    /\ draft = Seed
    /\ slips = 0

\* The documented edit: publish a replacement that names the older surface, and
\* record the older one as superseded by it.
Supersede(r, s) ==
    /\ r \in draft.active
    /\ s.url \notin UrlsOf(draft.active \cup draft.historical)
    /\ r.url \in s.supersedes /\ s.target = draft.target
    /\ draft' = [draft EXCEPT !.active = (@ \ {r}) \cup {s},
                              !.historical = @ \cup {Retired(r, s.url)}]
    /\ UNCHANGED <<history, slips>>

\* The review moves to a later commit, which every surface must follow.
Retarget(t) ==
    /\ t > draft.target
    /\ draft' = [draft EXCEPT !.target = t]
    /\ UNCHANGED <<history, slips>>

\* Any single edit of a careless editor.
Slip ==
    /\ slips < MaxSlips
    /\ slips' = slips + 1
    /\ UNCHANGED history
    /\ \/ \E s \in Surface : draft' = [draft EXCEPT !.active = @ \cup {s}]
       \/ \E r \in draft.active : draft' = [draft EXCEPT !.active = @ \ {r}]
       \/ \E r \in draft.active, u \in Url :
             draft' = [draft EXCEPT !.active = @ \ {r},
                                    !.historical = @ \cup {Retired(r, u)}]
       \/ \E h \in draft.historical : draft' = [draft EXCEPT !.historical = @ \ {h}]
       \/ \E s \in Schema \ {draft.schema} : draft' = [draft EXCEPT !.schema = s]

\* git commit of the manifest, whatever the checker would say; git restore
Commit ==
    /\ Len(history) < MaxRevisions
    /\ draft # history[Len(history)]
    /\ history' = Append(history, draft)
    /\ UNCHANGED <<draft, slips>>
Restore ==
    /\ \E n \in DOMAIN history : draft' = history[n]
    /\ UNCHANGED <<history, slips>>

Next ==
    \/ \E r \in draft.active, s \in Surface : Supersede(r, s)
    \/ \E t \in Target : Retarget(t)
    \/ Slip
    \/ Commit
    \/ Restore

Spec == Init /\ [][Next]_vars

-----------------------------------------------------------------------------
\* Every variable holds a value the editors could put there.
TypeOK ==
    /\ history \in Seq(Manifest) /\ history # <<>>
    /\ draft \in Manifest
    /\ slips \in 0..MaxSlips

\* Revisions the checker compares.
Published == {history[n] : n \in Manifests(history)}

\* The pairwise comparisons of _validate_append_only_history compose: in an
\* accepted manifest every surface that any revision ever called current is
\* still current as it was, or recorded once, as it was; and every record of
\* what was superseded is still there.
PublishedIsAccountedFor ==
    Accepted =>
        \A m \in Published :
            /\ m.historical \subseteq draft.historical
            /\ \A r \in m.active \ draft.active :
                  \E h \in draft.historical :
                      /\ h = Retired(r, h.superseded_by)
                      /\ \A g \in draft.historical : g.url = r.url => g = h

\* A surface that was superseded once, or that called for the review of another
\* target, is never current again, through any number of revisions, restores of
\* older ones and edits (no single check compares it with old revisions).
SupersededIsNeverCurrent ==
    Accepted =>
        \A m \in Published :
            /\ UrlsOf(m.historical) \cap UrlsOf(draft.active) = {}
            /\ \A r \in m.active :
                  r.target # draft.target => r.url \notin UrlsOf(draft.active)

\* Whoever holds the URL of a surface that was ever current finds, by the
\* successors an accepted manifest records, one that is current now.  (The
\* URLs from which one is reached are the least set closed backwards.)
EveryCallLeadsToACurrentOne ==
    Accepted =>
        \A reaching \in SUBSET Url :
            /\ UrlsOf(draft.active) \subseteq reaching
            /\ \A h \in draft.historical :
                  h.superseded_by \in reaching => h.url \in reaching
            => \A m \in Published : UrlsOf(m.active) \subseteq reaching
===============================================================================
