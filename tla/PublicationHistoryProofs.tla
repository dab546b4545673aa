----------------------- MODULE PublicationHistoryProofs -----------------------
(***************************************************************************)
(* Proofs about PublicationHistory, for every set of URLs, targets and     *)
(* surfaces, every first manifest and every number of revisions and slips. *)
(*                                                                         *)
(* The only invariant the steps have to keep is that manifests are         *)
(* manifests with finite lists: the editors may do what they like.  What   *)
(* an accepted manifest accounts for follows from the comparisons of       *)
(* neighbouring revisions, by going back from the draft along them to the  *)
(* last revision that would be an exception.                               *)
(***************************************************************************)
EXTENDS PublicationHistory, FiniteSetTheorems, NaturalsInduction, WellFoundedInduction, TLAPS

-----------------------------------------------------------------------------
\* Numbers and finite sets.

\* A nonempty set of numbers has a least one.
LEMMA LeastExists ==
    ASSUME NEW S \in SUBSET Nat, S # {}
    PROVE  \E x \in S : \A y \in S : x <= y
<1> DEFINE R == {w \in Nat \X Nat : w[1] < w[2]}
<1>1. IsWellFoundedOn(R, Nat)
  BY NatLessThanWellFounded DEF OpToRel
<1> HIDE DEF R
<1>2. PICK x \in S : \A y \in S : ~(<<y, x>> \in R)
  BY <1>1, WFMin
<1>3. ASSUME NEW y \in S PROVE x <= y
  <2>1. ~(<<y, x>>[1] < <<y, x>>[2])
    BY <1>2 DEF R
  <2> QED
    BY <2>1
<1> QED
  BY <1>3

\* One that is bounded has a greatest one: that with the least distance.
LEMMA GreatestExists ==
    ASSUME NEW S \in SUBSET Nat, S # {}, NEW bound \in Nat, \A x \in S : x <= bound
    PROVE  \E x \in S : \A y \in S : y <= x
<1> DEFINE D == {d \in Nat : \E x \in S : d = bound - x}
<1>1. PICK s \in S : TRUE
  OBVIOUS
<1>2. bound - s \in D
  BY <1>1
<1>3. PICK d \in D : \A e \in D : d <= e
  BY <1>2, LeastExists
<1>4. PICK x \in S : d = bound - x
  BY <1>3
<1>5. ASSUME NEW y \in S PROVE y <= x
  <2>1. bound - y \in D
    BY <1>5
  <2>2. d <= bound - y
    BY <1>3, <2>1
  <2> QED
    BY <1>4, <2>2
<1> QED
  BY <1>5

\* Two finite lists with as many URLs as records share none, and repeat none.
LEMMA UniqueUrls ==
    ASSUME NEW m, IsFiniteSet(m.active), IsFiniteSet(m.historical), UrlsAreUnique(m)
    PROVE  /\ UrlsOf(m.active) \cap UrlsOf(m.historical) = {}
           /\ \A g, h \in m.historical : g.url = h.url => g = h
<1> DEFINE A == m.active
           H == m.historical
           R == A \cup H
           T == UrlsOf(A) \cup UrlsOf(H)
           f == [r \in R |-> r.url]
<1>1. /\ IsFiniteSet(R)
      /\ Cardinality(R) = Cardinality(A) + Cardinality(H) - Cardinality(A \cap H)
  BY FS_Union
<1>2. f \in Surjection(R, T)
  BY DEF Surjection, UrlsOf
<1>3. /\ Cardinality(T) <= Cardinality(R)
      /\ Cardinality(T) = Cardinality(R) <=> f \in Injection(R, T)
  BY <1>1, <1>2, FS_Surjection
<1>4. IsFiniteSet(A \cap H)
  BY FS_Intersection
<1>5. /\ Cardinality(A) \in Nat /\ Cardinality(H) \in Nat
      /\ Cardinality(A \cap H) \in Nat
  BY <1>4, FS_CardinalityType
<1>6. Cardinality(T) = Cardinality(A) + Cardinality(H)
  BY DEF UrlsAreUnique
<1>7. Cardinality(T) = Cardinality(R) /\ Cardinality(A \cap H) = 0
  BY <1>1, <1>3, <1>5, <1>6
<1>8. A \cap H = {}
  BY <1>4, <1>7, FS_EmptySet
<1>9. \A r, s \in R : r.url = s.url => r = s
  BY <1>3, <1>7 DEF Injection, IsInjective
<1> QED
  BY <1>8, <1>9 DEF UrlsOf

-----------------------------------------------------------------------------
\* The invariant.

Finite(m) == IsFiniteSet(m.active) /\ IsFiniteSet(m.historical)

IInv ==
    /\ TypeOK
    /\ Finite(draft) /\ \A n \in DOMAIN history : Finite(history[n])

\* The draft is another manifest.
LEMMA DraftStep ==
    ASSUME IInv, UNCHANGED history, slips' \in 0..MaxSlips, draft' \in Manifest, Finite(draft)'
    PROVE  IInv'
  BY DEF IInv, TypeOK, Finite

\* An edit of one of the lists.
LEMMA ListsOf ==
    ASSUME NEW m \in Manifest, NEW active \in SUBSET ActiveSurface,
           NEW historical \in SUBSET HistoricalSurface
    PROVE  /\ [m EXCEPT !.active = active] \in Manifest
           /\ [m EXCEPT !.historical = historical] \in Manifest
           /\ [m EXCEPT !.active = active].active = active
           /\ [m EXCEPT !.active = active].historical = m.historical
           /\ [m EXCEPT !.historical = historical].active = m.active
           /\ [m EXCEPT !.historical = historical].historical = historical
  BY DEF Manifest

\* The record of a superseded surface is a historical one.
LEMMA RetiredType ==
    ASSUME NEW r \in ActiveSurface, NEW u \in Url
    PROVE  Retired(r, u) \in HistoricalSurface
  BY DEF ActiveSurface, HistoricalSurface, Retired

\* The first state.
LEMMA InitIInv == Init => IInv
<1> SUFFICES ASSUME Init PROVE IInv
  OBVIOUS
<1>1. history = <<Seed>> /\ draft = Seed /\ slips = 0 /\ Seed \in Manifest /\ Finite(Seed)
  BY PublicationAssumption DEF Init, Finite
<1>2. MaxSlips \in Nat
  BY PublicationAssumption
<1>3. TypeOK
  BY <1>1, <1>2 DEF TypeOK
<1> QED
  BY <1>1, <1>3 DEF IInv

\* Every step, action by action.
LEMMA NextIInv == IInv /\ [Next]_vars => IInv'
<1> SUFFICES ASSUME IInv, [Next]_vars PROVE IInv'
  OBVIOUS
<1>1. /\ draft \in Manifest /\ slips \in 0..MaxSlips /\ history \in Seq(Manifest)
      /\ draft.active \in SUBSET ActiveSurface /\ draft.historical \in SUBSET HistoricalSurface
      /\ IsFiniteSet(draft.active) /\ IsFiniteSet(draft.historical)
  BY DEF IInv, TypeOK, Manifest, Finite
<1>2. Surface \subseteq ActiveSurface /\ MaxSlips \in Nat
  BY PublicationAssumption
<1>3. \A s \in ActiveSurface : s.url \in Url
  BY DEF ActiveSurface
<1>4. ASSUME NEW r \in draft.active, NEW s \in Surface, Supersede(r, s) PROVE IInv'
  <2> DEFINE active     == (draft.active \ {r}) \cup {s}
             historical == draft.historical \cup {Retired(r, s.url)}
  <2>1. Retired(r, s.url) \in HistoricalSurface
    BY <1>1, <1>2, <1>3, RetiredType
  <2>2. active \in SUBSET ActiveSurface /\ historical \in SUBSET HistoricalSurface
    BY <1>1, <1>2, <2>1
  <2>3. IsFiniteSet(active) /\ IsFiniteSet(historical)
    BY <1>1, FS_AddElement, FS_RemoveElement
  <2>4. /\ draft' = [draft EXCEPT !.active = active, !.historical = historical]
        /\ UNCHANGED <<history, slips>>
    BY <1>4 DEF Supersede
  <2> HIDE DEF active, historical
  <2>5. /\ draft' \in Manifest /\ draft'.active = active
        /\ draft'.historical = historical
    BY <1>1, <2>2, <2>4 DEF Manifest
  <2> QED
    BY <1>1, <2>3, <2>4, <2>5, DraftStep DEF Finite
<1>5. ASSUME NEW t \in Target, Retarget(t) PROVE IInv'
  <2>1. /\ draft' \in Manifest /\ draft'.active = draft.active
        /\ draft'.historical = draft.historical /\ UNCHANGED <<history, slips>>
    BY <1>1, <1>5 DEF Retarget, Manifest
  <2>2. slips' \in 0..MaxSlips /\ UNCHANGED history /\ Finite(draft)'
    BY <1>1, <2>1 DEF Finite
  <2> QED
    BY <2>1, <2>2, DraftStep
<1>6. CASE Slip
  <2>1. slips' \in 0..MaxSlips /\ UNCHANGED history
    <3>1. slips < MaxSlips /\ slips' = slips + 1 /\ UNCHANGED history
      BY <1>6, Zenon DEF Slip
    <3> QED
      BY <1>1, <1>2, <3>1
  <2>2. ASSUME NEW s \in Surface, draft' = [draft EXCEPT !.active = @ \cup {s}] PROVE IInv'
    <3> DEFINE active == draft.active \cup {s}
    <3>1. active \in SUBSET ActiveSurface /\ IsFiniteSet(active)
      BY <1>1, <1>2, FS_AddElement
    <3>2. draft' = [draft EXCEPT !.active = active]
      BY <2>2
    <3> HIDE DEF active
    <3> QED
      BY <1>1, <2>1, <3>1, <3>2, ListsOf, DraftStep DEF Finite
  <2>3. ASSUME NEW r \in draft.active, draft' = [draft EXCEPT !.active = @ \ {r}] PROVE IInv'
    <3> DEFINE active == draft.active \ {r}
    <3>1. active \in SUBSET ActiveSurface /\ IsFiniteSet(active)
      BY <1>1, FS_RemoveElement
    <3>2. draft' = [draft EXCEPT !.active = active]
      BY <2>3
    <3> HIDE DEF active
    <3> QED
      BY <1>1, <2>1, <3>1, <3>2, ListsOf, DraftStep DEF Finite
  <2>4. ASSUME NEW r \in draft.active, NEW u \in Url,
               draft' = [draft EXCEPT !.active = @ \ {r},
                                      !.historical = @ \cup {Retired(r, u)}]
        PROVE  IInv'
    <3> DEFINE active     == draft.active \ {r}
               historical == draft.historical \cup {Retired(r, u)}
    <3>1. active \in SUBSET ActiveSurface /\ IsFiniteSet(active)
      BY <1>1, FS_RemoveElement
    <3>2. Retired(r, u) \in HistoricalSurface
      BY <1>1, RetiredType
    <3>3. historical \in SUBSET HistoricalSurface /\ IsFiniteSet(historical)
      BY <1>1, <3>2, FS_AddElement
    <3>4. draft' = [draft EXCEPT !.active = active, !.historical = historical]
      BY <2>4
    <3> HIDE DEF active, historical
    <3>5. /\ draft' \in Manifest /\ draft'.active = active
          /\ draft'.historical = historical
      BY <1>1, <3>1, <3>3, <3>4 DEF Manifest
    <3> QED
      BY <2>1, <3>1, <3>3, <3>5, DraftStep DEF Finite
  <2>5. ASSUME NEW h \in draft.historical, draft' = [draft EXCEPT !.historical = @ \ {h}]
        PROVE  IInv'
    <3> DEFINE historical == draft.historical \ {h}
    <3>1. historical \in SUBSET HistoricalSurface /\ IsFiniteSet(historical)
      BY <1>1, FS_RemoveElement
    <3>2. draft' = [draft EXCEPT !.historical = historical]
      BY <2>5
    <3> HIDE DEF historical
    <3> QED
      BY <1>1, <2>1, <3>1, <3>2, ListsOf, DraftStep DEF Finite
  <2>6. ASSUME NEW s \in Schema, draft' = [draft EXCEPT !.schema = s] PROVE IInv'
    <3>1. /\ draft' \in Manifest /\ draft'.active = draft.active
          /\ draft'.historical = draft.historical
      BY <1>1, <2>6 DEF Manifest
    <3> QED
      BY <1>1, <2>1, <3>1, DraftStep DEF Finite
  <2> QED
    BY <1>6, <2>2, <2>3, <2>4, <2>5, <2>6 DEF Slip
<1>7. CASE Commit
  <2>1. history' = Append(history, draft) /\ draft' = draft /\ slips' = slips
    BY <1>7 DEF Commit
  <2>2. history' \in Seq(Manifest) /\ history' # <<>>
    BY <1>1, <2>1
  <2>3. TypeOK'
    BY <1>1, <2>1, <2>2 DEF TypeOK
  <2>4. \A n \in DOMAIN history' :
           \/ n \in DOMAIN history /\ history'[n] = history[n]
           \/ history'[n] = draft
    BY <1>1, <2>1
  <2> QED
    BY <2>1, <2>3, <2>4 DEF IInv, Finite
<1>8. CASE Restore
  <2>1. PICK n \in DOMAIN history : draft' = history[n]
    BY <1>8 DEF Restore
  <2>2. UNCHANGED <<history, slips>> /\ history[n] \in Manifest /\ Finite(history[n])
    BY <1>1, <1>8, <2>1 DEF Restore, IInv
  <2> QED
    BY <1>1, <2>1, <2>2, DraftStep DEF Finite
<1>9. CASE UNCHANGED vars
  BY <1>9 DEF vars, IInv, TypeOK, Finite
<1> QED
  BY <1>4, <1>5, <1>6, <1>7, <1>8, <1>9 DEF Next

\* The invariant holds whatever the editors do.
THEOREM ManifestsStayManifests == Spec => []IInv
  BY InitIInv, NextIInv, PTL DEF Spec

\* The type invariant.
THEOREM PublicationTypes == Spec => []TypeOK
<1>1. IInv => TypeOK
  BY DEF IInv
<1> QED
  BY <1>1, ManifestsStayManifests, PTL

-----------------------------------------------------------------------------
\* What an accepted manifest accounts for.

\* m's records of what was superseded are still in d, and each surface m calls
\* current still is, as it was, or is recorded as it was.
Accounts(d, m) ==
    /\ m.historical \subseteq d.historical
    /\ \A r \in m.active \ d.active : \E h \in d.historical : h = Retired(r, h.superseded_by)

\* The comparison of two revisions composes with what is accounted for.
LEMMA AccountsCompose ==
    ASSUME NEW d, NEW m, NEW next, RecordsAreKept(m, next), Accounts(d, next)
    PROVE  Accounts(d, m)
<1>1. m.historical \subseteq d.historical
  BY DEF RecordsAreKept, Accounts
<1>2. ASSUME NEW r \in m.active \ d.active
      PROVE  \E h \in d.historical : h = Retired(r, h.superseded_by)
  <2>1. CASE r \in next.active
    BY <1>2, <2>1 DEF Accounts
  <2>2. CASE r \notin next.active
    <3>1. PICK h \in next.historical : h = Retired(r, h.superseded_by)
      BY <1>2, <2>2 DEF RecordsAreKept
    <3>2. h \in d.historical
      BY <3>1 DEF Accounts
    <3> QED
      BY <3>1, <3>2
  <2> QED
    BY <2>1, <2>2
<1> QED
  BY <1>1, <1>2 DEF Accounts

\* Back from the end of a line whose neighbouring manifests were compared: the
\* last manifest that is not accounted for has a next one, which is.
LEMMA LineAccounts ==
    ASSUME NEW line, NEW last \in Nat, DOMAIN line = 1..last, last \in Manifests(line),
           \A p \in Neighbours(line) : RecordsAreKept(line[p[1]], line[p[2]])
    PROVE  \A n \in Manifests(line) : Accounts(line[last], line[n])
<1> DEFINE exceptions == {n \in Manifests(line) : ~Accounts(line[last], line[n])}
<1>1. Manifests(line) \subseteq 1..last
  BY DEF Manifests
<1> SUFFICES ASSUME exceptions # {} PROVE FALSE
  OBVIOUS
<1>2. PICK n \in exceptions : \A k \in exceptions : k <= n
  <2>1. exceptions \in SUBSET Nat /\ \A x \in exceptions : x <= last
    BY <1>1
  <2> HIDE DEF exceptions
  <2> QED
    BY <2>1, GreatestExists
<1>3. Accounts(line[last], line[last])
  BY DEF Accounts
<1>4. n \in Manifests(line) /\ n < last /\ ~Accounts(line[last], line[n])
  BY <1>1, <1>2, <1>3
<1> DEFINE later == {k \in Manifests(line) : n < k}
<1>5. PICK k \in later : \A y \in later : k <= y
  <2>1. later \in SUBSET Nat /\ later # {}
    BY <1>1, <1>4
  <2> HIDE DEF later
  <2> QED
    BY <2>1, LeastExists
<1>6. Accounts(line[last], line[k])
  BY <1>1, <1>2, <1>4, <1>5
<1>7. <<n, k>> \in Neighbours(line)
  <2>1. ASSUME NEW i \in n + 1 .. k - 1 PROVE i \notin Manifests(line)
    <3>1. n \in Nat /\ k \in Nat /\ n < i /\ i < k
      BY <1>1, <1>4, <1>5, <2>1
    <3> QED
      BY <1>1, <1>5, <3>1
  <2>2. n < k /\ k \in Manifests(line)
    BY <1>5
  <2> QED
    BY <1>4, <2>1, <2>2 DEF Neighbours
<1>8. RecordsAreKept(line[n], line[k])
  BY <1>7
<1> QED
  BY <1>4, <1>6, <1>8, AccountsCompose

\* An accepted draft accounts for every published manifest.
LEMMA AcceptedAccounts ==
    ASSUME TypeOK, Accepted, NEW m \in Published
    PROVE  Accounts(draft, m)
<1> DEFINE line == Append(history, draft)
           last == Len(history) + 1
<1>1. /\ history \in Seq(Manifest) /\ Len(history) \in Nat
  BY DEF TypeOK
<1>2. /\ DOMAIN line = 1..last /\ last \in Nat /\ line[last] = draft
      /\ \A n \in DOMAIN history : n \in DOMAIN line /\ line[n] = history[n]
  BY <1>1
<1>3. \A p \in Neighbours(line) : RecordsAreKept(line[p[1]], line[p[2]])
  BY DEF Accepted, HistoryHolds
<1>4. draft.schema = "present"
  BY DEF Accepted
<1>5. PICK n \in Manifests(history) : m = history[n]
  BY DEF Published
<1> HIDE DEF line, last
<1>6. last \in Manifests(line) /\ n \in Manifests(line) /\ line[n] = m
  BY <1>2, <1>4, <1>5 DEF Manifests
<1> QED
  BY <1>2, <1>3, <1>6, LineAccounts

\* A record that was superseded keeps its URL and its forward link's name.
LEMMA RetiredUrl == ASSUME NEW r, NEW u PROVE Retired(r, u).url = r.url
  BY DEF Retired

\* A URL that is recorded as superseded is not current.
LEMMA AcceptedUrls ==
    ASSUME IInv, Accepted
    PROVE  /\ UrlsOf(draft.active) \cap UrlsOf(draft.historical) = {}
           /\ \A g, h \in draft.historical : g.url = h.url => g = h
  BY UniqueUrls DEF IInv, Finite, Accepted, ChainsHold

\* The pairwise comparisons account for every revision there ever was.
THEOREM EverythingPublishedIsAccountedFor == Spec => []PublishedIsAccountedFor
<1>1. ASSUME IInv PROVE PublishedIsAccountedFor
  <2> SUFFICES ASSUME Accepted, NEW m \in Published
               PROVE  /\ m.historical \subseteq draft.historical
                      /\ \A r \in m.active \ draft.active :
                            \E h \in draft.historical :
                                /\ h = Retired(r, h.superseded_by)
                                /\ \A g \in draft.historical : g.url = r.url => g = h
    BY DEF PublishedIsAccountedFor
  <2>1. Accounts(draft, m)
    BY <1>1, AcceptedAccounts DEF IInv
  <2>2. ASSUME NEW r \in m.active \ draft.active
        PROVE  \E h \in draft.historical :
                  /\ h = Retired(r, h.superseded_by)
                  /\ \A g \in draft.historical : g.url = r.url => g = h
    <3>1. PICK h \in draft.historical : h = Retired(r, h.superseded_by)
      BY <2>1, <2>2 DEF Accounts
    <3>2. h.url = r.url
      BY <3>1, RetiredUrl
    <3> QED
      BY <1>1, <3>1, <3>2, AcceptedUrls
  <2> QED
    BY <2>1, <2>2 DEF Accounts
<1> QED
  BY <1>1, ManifestsStayManifests, PTL

\* What was superseded, or called for another review target, never comes back.
THEOREM SupersededStaysSuperseded == Spec => []SupersededIsNeverCurrent
<1>1. ASSUME IInv PROVE SupersededIsNeverCurrent
  <2> SUFFICES ASSUME Accepted, NEW m \in Published
               PROVE  /\ UrlsOf(m.historical) \cap UrlsOf(draft.active) = {}
                      /\ \A r \in m.active :
                            r.target # draft.target => r.url \notin UrlsOf(draft.active)
    BY DEF SupersededIsNeverCurrent
  <2>1. Accounts(draft, m)
    BY <1>1, AcceptedAccounts DEF IInv
  <2>2. UrlsOf(draft.active) \cap UrlsOf(draft.historical) = {}
    BY <1>1, AcceptedUrls
  <2>3. UrlsOf(m.historical) \subseteq UrlsOf(draft.historical)
    BY <2>1 DEF Accounts, UrlsOf
  <2>4. ASSUME NEW r \in m.active, r.target # draft.target
        PROVE  r.url \notin UrlsOf(draft.active)
    <3>1. r \notin draft.active
      BY <2>4 DEF Accepted, BindsTheTarget
    <3>2. PICK h \in draft.historical : h = Retired(r, h.superseded_by)
      BY <2>1, <2>4, <3>1 DEF Accounts
    <3>3. r.url \in UrlsOf(draft.historical)
      BY <3>2, RetiredUrl DEF UrlsOf
    <3> QED
      BY <2>2, <3>3
  <2> QED
    BY <2>2, <2>3, <2>4
<1> QED
  BY <1>1, ManifestsStayManifests, PTL

\* A walk of the cursor leads out of every set of URLs that is closed backwards:
\* the first record of the walk with its URL in the set is the one it starts at.
LEMMA WalksEndWhereTheyLead ==
    ASSUME NEW m, NEW reaching, NEW h, IsFiniteSet(m.historical), ChainEnds(m, h),
           UrlsOf(m.active) \subseteq reaching,
           \A r \in m.historical : r.superseded_by \in reaching => r.url \in reaching
    PROVE  h.url \in reaching
<1>0. PICK n \in 1 .. Cardinality(m.historical) : \E walk \in [1 .. n -> m.historical] :
         /\ walk[1] = h
         /\ \A k \in 1 .. n - 1 : walk[k + 1] \in LinkedSuccessor(m, walk[k])
         /\ LinkedSuccessor(m, walk[n]) \cap m.active # {}
  BY DEF ChainEnds
<1>1. PICK walk \in [1 .. n -> m.historical] :
         /\ walk[1] = h
         /\ \A k \in 1 .. n - 1 : walk[k + 1] \in LinkedSuccessor(m, walk[k])
         /\ LinkedSuccessor(m, walk[n]) \cap m.active # {}
  BY <1>0
<1> DEFINE inside == {k \in 1 .. n : walk[k].url \in reaching}
<1>2. n \in Nat /\ n >= 1 /\ n \in 1 .. n
  BY FS_CardinalityType
<1>3. n \in inside
  <2>1. PICK s \in m.active : s \in LinkedSuccessor(m, walk[n])
    BY <1>1
  <2>2. walk[n].superseded_by \in reaching
    BY <2>1 DEF LinkedSuccessor, UrlsOf
  <2> QED
    BY <1>1, <1>2, <2>2
<1>4. PICK k \in inside : \A j \in inside : k <= j
  <2>1. inside \in SUBSET Nat /\ inside # {}
    BY <1>3
  <2> HIDE DEF inside
  <2> QED
    BY <2>1, LeastExists
<1>5. CASE k = 1
  BY <1>1, <1>4, <1>5
<1>6. CASE k # 1
  <2>1. k - 1 \in 1 .. n - 1 /\ k - 1 \in 1 .. n /\ (k - 1) + 1 = k
    BY <1>2, <1>4, <1>6
  <2>2. walk[(k - 1) + 1] \in LinkedSuccessor(m, walk[k - 1])
    BY <1>1, <2>1
  <2>3. walk[k].url = walk[k - 1].superseded_by
    BY <2>1, <2>2 DEF LinkedSuccessor
  <2>4. walk[k - 1] \in m.historical /\ walk[k].url \in reaching
    BY <1>1, <1>4, <2>1
  <2>5. k - 1 \in inside
    BY <2>1, <2>3, <2>4
  <2> QED
    BY <1>2, <1>4, <2>5
<1> QED
  BY <1>5, <1>6

\* Every URL that was ever current leads to one that is.
THEOREM EveryCallIsAnswered == Spec => []EveryCallLeadsToACurrentOne
<1>1. ASSUME IInv PROVE EveryCallLeadsToACurrentOne
  <2> SUFFICES ASSUME Accepted, NEW reaching \in SUBSET Url,
                      UrlsOf(draft.active) \subseteq reaching,
                      \A h \in draft.historical :
                         h.superseded_by \in reaching => h.url \in reaching,
                      NEW m \in Published, NEW r \in m.active
               PROVE  r.url \in reaching
    BY DEF EveryCallLeadsToACurrentOne, UrlsOf
  <2>1. Accounts(draft, m)
    BY <1>1, AcceptedAccounts DEF IInv
  <2>2. CASE r \in draft.active
    BY <2>2 DEF UrlsOf
  <2>3. CASE r \notin draft.active
    <3>1. PICK h \in draft.historical : h = Retired(r, h.superseded_by)
      BY <2>1, <2>3 DEF Accounts
    <3>2. ChainEnds(draft, h)
      BY <3>1 DEF Accepted, ChainsHold
    <3>3. h.url \in reaching
      BY <1>1, <3>2, WalksEndWhereTheyLead DEF IInv, Finite
    <3> QED
      BY <3>1, <3>3, RetiredUrl
  <2> QED
    BY <2>2, <2>3
<1> QED
  BY <1>1, ManifestsStayManifests, PTL
===============================================================================
