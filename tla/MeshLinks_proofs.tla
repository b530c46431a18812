---------------------------- MODULE MeshLinks_proofs ----------------------------
(***************************************************************************)
(* Proofs about the links of the mesh, for any devices, any budget of      *)
(* links and any interleaving of the two scan tasks with the main loop.    *)
(*                                                                         *)
(* First lists: what Only and MergeAll leave in a list, and that it stays  *)
(* free of repetitions.  Then the invariant, IInv.  PrimaryOnlyWithoutLinks *)
(* needs that no link is installed before the first installation (LinksOK) *)
(* and LinkBudget that every list candidates pass through, from the scan   *)
(* to the harvest, is short and free of repetitions (GoodLists).           *)
(***************************************************************************)
EXTENDS MeshLinks, FiniteSetTheorems, WellFoundedInduction, TLAPS

-----------------------------------------------------------------------------
(* Lists without repetitions, and what a list keeps.                         *)

Distinct(s) == \A i, j \in 1..Len(s) : s[i] = s[j] => i = j

Ascends(at) == \A i, j \in DOMAIN at : i < j => at[i] < at[j]
Enumerable(positions) == \E at \in [1..Cardinality(positions) -> positions] : Ascends(at)

LEMMA SubsetsEnumerable == \A n \in Nat : \A P \in SUBSET (1..n) : Enumerable(P)
<1> DEFINE Bad == {n \in Nat : ~\A P \in SUBSET (1..n) : Enumerable(P)}
<1>1. SUFFICES ASSUME Bad # {} PROVE FALSE
  OBVIOUS
<1>2. Bad \in SUBSET Nat
  OBVIOUS
<1>3. PICK n \in Bad : \A m \in Bad : ~(m < n)
  <2>1. PICK R : R = StrictSubsetOrdering(Nat)
    OBVIOUS
  <2>2. PICK Ranges : Ranges = {1..m : m \in Bad}
    OBVIOUS
  <2>3. \A m \in Nat : 1..m \in FiniteSubsetsOf(Nat)
    <3> SUFFICES ASSUME NEW m \in Nat PROVE 1..m \in FiniteSubsetsOf(Nat)
      OBVIOUS
    <3>1. IsFiniteSet(1..m)
      BY FS_Interval
    <3> QED
      BY <3>1 DEF FiniteSubsetsOf
  <2> HIDE DEF Bad
  <2>4. Ranges \subseteq FiniteSubsetsOf(Nat) /\ Ranges # {}
    BY <1>1, <1>2, <2>2, <2>3
  <2>5. IsWellFoundedOn(R, FiniteSubsetsOf(Nat))
    BY <2>1, FS_StrictSubsetOrderingWellFounded
  <2>6. PICK x \in Ranges : \A y \in Ranges : <<y, x>> \notin R
    BY <2>4, <2>5, WFMin
  <2>7. PICK n \in Bad : x = 1..n
    BY <2>2
  <2>8. ASSUME NEW m \in Bad, m < n PROVE FALSE
    <3>1. m \in Nat /\ n \in Nat
      BY <1>2
    <3>2. 1..m \subseteq 1..n /\ n \in 1..n /\ n \notin 1..m
      BY <2>8, <3>1
    <3>3. <<1..m, 1..n>> \in R
      BY <2>1, <3>1, <3>2 DEF StrictSubsetOrdering
    <3> QED
      BY <2>2, <2>6, <2>7, <3>3
  <2> QED
    BY <2>7, <2>8
<1>4. n \in Nat
  OBVIOUS
<1>5. PICK P \in SUBSET (1..n) : ~Enumerable(P)
  OBVIOUS
<1>6. CASE n = 0
  <2>1. P = {}
    BY <1>5, <1>6
  <2>3. Cardinality(P) = 0
    BY <2>1, FS_EmptySet
  <2>2. [i \in {} |-> 0] \in [1..Cardinality(P) -> P] /\ Ascends([i \in {} |-> 0])
    BY <2>1, <2>3 DEF Ascends
  <2> QED
    BY <1>5, <2>2 DEF Enumerable
<1>7. CASE n # 0
  <2>1. n - 1 \in Nat /\ n - 1 < n
    BY <1>4, <1>7
  <2>2. n - 1 \notin Bad
    BY <1>3, <1>4, <2>1
  <2>3. \A Q \in SUBSET (1..n - 1) : Enumerable(Q)
    BY <2>1, <2>2
  <2> HIDE DEF Bad
  <2>4. P \ {n} \in SUBSET (1..n - 1)
    BY <1>4, <1>5
  <2>5. CASE n \notin P
    <3>1. P = P \ {n}
      BY <2>5
    <3> QED
      BY <1>5, <2>3, <2>4, <3>1
  <2>6. CASE n \in P
    <3>1. IsFiniteSet(1..n)
      BY <1>4, FS_Interval
    <3>2. IsFiniteSet(P) /\ IsFiniteSet(P \ {n})
      BY <3>1, FS_Subset
    <3>3. PICK k : k = Cardinality(P \ {n})
      OBVIOUS
    <3>4. k \in Nat /\ Cardinality(P) = k + 1
      <4>1. Cardinality(P \ {n}) \in Nat
        BY <3>2, FS_CardinalityType
      <4>2. Cardinality((P \ {n}) \cup {n}) = Cardinality(P \ {n}) + 1
        BY <3>2, FS_AddElement
      <4>3. (P \ {n}) \cup {n} = P
        BY <2>6
      <4> QED
        BY <3>3, <4>1, <4>2, <4>3
    <3>5. PICK at \in [1..k -> P \ {n}] : Ascends(at)
      BY <2>3, <2>4, <3>3 DEF Enumerable
    <3>6. PICK more : more = [i \in 1..k + 1 |-> IF i = k + 1 THEN n ELSE at[i]]
      OBVIOUS
    <3>7. \A i \in 1..k + 1 : i # k + 1 => i \in 1..k
      BY <3>4
    <3>8. more \in [1..k + 1 -> P]
      BY <2>6, <3>5, <3>6, <3>7
    <3>9. Ascends(more)
      <4> SUFFICES ASSUME NEW i \in 1..k + 1, NEW j \in 1..k + 1, i < j
                   PROVE  more[i] < more[j]
        BY <3>6 DEF Ascends
      <4>1. i \in 1..k /\ more[i] = at[i] /\ at[i] \in 1..n - 1
        <5>1. i # k + 1
          BY <3>4
        <5> QED
          BY <2>4, <3>5, <3>6, <3>7, <5>1
      <4>2. CASE j = k + 1
        <5>1. more[j] = n
          BY <3>6, <4>2
        <5> QED
          BY <1>4, <4>1, <5>1
      <4>3. CASE j # k + 1
        <5>1. j \in 1..k /\ more[j] = at[j]
          BY <3>6, <3>7, <4>3
        <5> QED
          BY <3>5, <4>1, <5>1 DEF Ascends
      <4> QED
        BY <4>2, <4>3
    <3> QED
      BY <1>5, <3>4, <3>8, <3>9 DEF Enumerable
  <2> QED
    BY <2>5, <2>6
<1> QED
  BY <1>6, <1>7

(* What EntriesAt returns: entries of s, no more than there are positions,  *)
(* no two from the same position.                                           *)
LEMMA EntriesAtFacts ==
  ASSUME NEW D, NEW s \in Seq(D), NEW P \in SUBSET (1..Len(s))
  PROVE  /\ EntriesAt(s, P) \in Seq(D)
         /\ Len(EntriesAt(s, P)) <= Len(s)
         /\ \A i \in 1..Len(EntriesAt(s, P)) : \E k \in P : EntriesAt(s, P)[i] = s[k]
         /\ (\A j, k \in P : s[j] = s[k] => j = k) => Distinct(EntriesAt(s, P))
<1>1. Len(s) \in Nat /\ \A k \in 1..Len(s) : s[k] \in D
  OBVIOUS
<1>2. Enumerable(P)
  BY <1>1, SubsetsEnumerable
<1>3. PICK at : at = InOrderOf(P)
  OBVIOUS
<1>4. at \in [1..Cardinality(P) -> P] /\ Ascends(at)
  BY <1>2, <1>3 DEF InOrderOf, Enumerable, Ascends
<1>5. PICK n : n = Cardinality(P)
  OBVIOUS
<1>6. n \in Nat /\ n <= Len(s)
  <2>1. IsFiniteSet(1..Len(s)) /\ Cardinality(1..Len(s)) = Len(s)
    <3>1. 1 \in Int /\ Len(s) \in Int
      BY <1>1
    <3>2. /\ IsFiniteSet(1..Len(s))
          /\ Cardinality(1..Len(s)) = IF 1 > Len(s) THEN 0 ELSE Len(s) - 1 + 1
      BY <3>1, FS_Interval
    <3> QED
      BY <1>1, <3>2
  <2>2. IsFiniteSet(P) /\ Cardinality(P) <= Cardinality(1..Len(s))
    BY <2>1, FS_Subset
  <2>3. Cardinality(P) \in Nat
    BY <2>2, FS_CardinalityType
  <2> QED
    BY <1>5, <2>1, <2>2, <2>3
<1>7. PICK e : e = EntriesAt(s, P)
  OBVIOUS
<1>8. e = [i \in 1..n |-> s[at[i]]]
  BY <1>3, <1>5, <1>7 DEF EntriesAt
<1>9. \A i \in 1..n : at[i] \in P /\ at[i] \in 1..Len(s) /\ e[i] = s[at[i]] /\ e[i] \in D
  BY <1>1, <1>4, <1>5, <1>8
<1>10. e \in Seq(D) /\ Len(e) = n
  BY <1>6, <1>8, <1>9
<1>11. ASSUME \A j, k \in P : s[j] = s[k] => j = k PROVE Distinct(e)
  <2> SUFFICES ASSUME NEW i \in 1..n, NEW j \in 1..n, e[i] = e[j] PROVE i = j
    BY <1>10 DEF Distinct
  <2>1. at[i] = at[j]
    BY <1>9, <1>11
  <2>2. i < j => at[i] < at[j]
    BY <1>4, <1>5 DEF Ascends
  <2>3. j < i => at[j] < at[i]
    BY <1>4, <1>5 DEF Ascends
  <2>4. at[i] \in Int /\ at[j] \in Int /\ i \in Int /\ j \in Int
    BY <1>9
  <2> QED
    BY <2>1, <2>2, <2>3, <2>4
<1> QED
  BY <1>6, <1>7, <1>9, <1>10, <1>11

(* What a list keeps of itself.                                              *)
LEMMA OnlyFacts ==
  ASSUME NEW D, NEW s \in Seq(D), NEW T
  PROVE  /\ Only(s, T) \in Seq(D)
         /\ Len(Only(s, T)) <= Len(s)
         /\ ToSet(Only(s, T)) \subseteq ToSet(s) \cap T
         /\ Distinct(s) => Distinct(Only(s, T))
<1>1. PICK P : P = {i \in 1..Len(s) : s[i] \in T}
  OBVIOUS
<1>2. P \in SUBSET (1..Len(s)) /\ Only(s, T) = EntriesAt(s, P)
  BY <1>1 DEF Only
<1>3. PICK e : e = EntriesAt(s, P)
  OBVIOUS
<1>4. /\ e \in Seq(D) /\ Len(e) <= Len(s)
      /\ \A i \in 1..Len(e) : \E k \in P : e[i] = s[k]
      /\ (\A j, k \in P : s[j] = s[k] => j = k) => Distinct(e)
  BY <1>2, <1>3, EntriesAtFacts
<1>5. ToSet(e) \subseteq ToSet(s) \cap T
  BY <1>1, <1>4 DEF ToSet
<1>6. Distinct(s) => Distinct(e)
  BY <1>2, <1>4 DEF Distinct
<1> QED
  BY <1>2, <1>3, <1>4, <1>5, <1>6

(* merge_mesh_links keeps the links there are, adds no device twice and     *)
(* stays within the budget.                                                 *)
LEMMA MergeFacts ==
  ASSUME NEW D, NEW links \in Seq(D), NEW fresh \in Seq(D),
         Distinct(links), Len(links) <= MaxLinks
  PROVE  /\ Merge(links, fresh) \in Seq(D)
         /\ Len(Merge(links, fresh)) <= MaxLinks
         /\ ToSet(links) \subseteq ToSet(Merge(links, fresh))
         /\ Distinct(Merge(links, fresh))
<1>1. PICK P : P = {i \in 1..Len(fresh) : /\ fresh[i] \notin ToSet(links)
                                          /\ \A j \in 1..i - 1 : fresh[j] # fresh[i]}
  OBVIOUS
<1>2. P \in SUBSET (1..Len(fresh)) /\ NewOnes(links, fresh) = EntriesAt(fresh, P)
  BY <1>1 DEF NewOnes
<1>3. PICK new : new = NewOnes(links, fresh)
  OBVIOUS
<1>4. /\ new \in Seq(D)
      /\ \A i \in 1..Len(new) : \E k \in P : new[i] = fresh[k]
      /\ (\A j, k \in P : fresh[j] = fresh[k] => j = k) => Distinct(new)
  BY <1>2, <1>3, EntriesAtFacts
<1>5. Distinct(new)
  <2> SUFFICES ASSUME NEW j \in P, NEW k \in P, fresh[j] = fresh[k] PROVE j = k
    BY <1>4
  <2>1. j \in 1..Len(fresh) /\ k \in 1..Len(fresh)
    BY <1>2
  <2>2. ~(j \in 1..k - 1) /\ ~(k \in 1..j - 1)
    BY <1>1
  <2> QED
    BY <2>1, <2>2
<1>6. \A i \in 1..Len(new) : new[i] \in D /\ new[i] \notin ToSet(links)
  BY <1>1, <1>4
<1>7. PICK n : n = IF Len(new) < MaxLinks - Len(links) THEN Len(new)
                   ELSE MaxLinks - Len(links)
  OBVIOUS
<1>8. /\ Len(links) \in Nat /\ Len(new) \in Nat /\ MaxLinks \in Nat
      /\ n \in Nat /\ n <= Len(new) /\ Len(links) + n <= MaxLinks
  <2>1. Len(links) \in Nat /\ Len(new) \in Nat /\ MaxLinks \in Nat
    BY <1>4, LinkBoundsAssumption
  <2> QED
    BY <1>7, <2>1
<1>9. PICK few : few = [i \in 1..n |-> new[i]]
  OBVIOUS
<1>10. /\ few \in Seq(D) /\ Len(few) = n
       /\ \A i \in 1..n : i \in 1..Len(new) /\ few[i] = new[i]
  BY <1>6, <1>8, <1>9
<1>11. Merge(links, fresh) = links \o few
  BY <1>3, <1>7, <1>9 DEF Merge
<1>12. PICK m : m = links \o few
  OBVIOUS
<1>13. /\ m \in Seq(D) /\ Len(m) = Len(links) + n
       /\ \A i \in 1..Len(links) : m[i] = links[i]
       /\ \A i \in 1..Len(m) : i > Len(links) =>
             i - Len(links) \in 1..n /\ m[i] = few[i - Len(links)]
  <2>0. few \in Seq(D)
    BY <1>10
  <2>1. m \in Seq(D) /\ Len(m) = Len(links) + Len(few)
    BY <1>12, <2>0
  <2>2. \A i \in 1..Len(m) : m[i] = IF i <= Len(links) THEN links[i] ELSE few[i - Len(links)]
    BY <1>12, <2>0, <2>1
  <2>3. ASSUME NEW i \in 1..Len(links) PROVE m[i] = links[i]
    <3>1. i \in 1..Len(m) /\ i <= Len(links)
      BY <1>8, <1>10, <2>1
    <3> QED
      BY <2>2, <3>1
  <2>4. ASSUME NEW i \in 1..Len(m), i > Len(links)
        PROVE  i - Len(links) \in 1..n /\ m[i] = few[i - Len(links)]
    <3>1. i - Len(links) \in 1..n /\ ~(i <= Len(links))
      BY <1>8, <1>10, <2>1, <2>4
    <3> QED
      BY <2>2, <3>1
  <2> QED
    BY <1>10, <2>1, <2>3, <2>4
<1>14. ToSet(links) \subseteq ToSet(m)
  <2>1. \A i \in 1..Len(links) : i \in 1..Len(m)
    BY <1>8, <1>13
  <2> QED
    BY <1>13, <2>1 DEF ToSet
<1>15. Distinct(m)
  <2> SUFFICES ASSUME NEW i \in 1..Len(m), NEW j \in 1..Len(m), m[i] = m[j] PROVE i = j
    BY DEF Distinct
  <2>1. \A k \in 1..Len(m) : k > Len(links) => m[k] \notin ToSet(links)
    BY <1>6, <1>10, <1>13
  <2>2. \A k \in 1..Len(m) : ~(k > Len(links)) => k \in 1..Len(links) /\ m[k] \in ToSet(links)
    BY <1>8, <1>13 DEF ToSet
  <2>3. CASE i > Len(links) /\ j > Len(links)
    <3>1. PICK a \in 1..n, b \in 1..n : /\ a = i - Len(links) /\ b = j - Len(links)
                                        /\ m[i] = few[a] /\ m[j] = few[b]
      BY <1>13, <2>3
    <3>2. a = b
      BY <1>5, <1>10, <3>1 DEF Distinct
    <3> QED
      BY <1>8, <3>1, <3>2
  <2>4. CASE ~(i > Len(links)) /\ ~(j > Len(links))
    BY <1>13, <2>2, <2>4 DEF Distinct
  <2> QED
    BY <2>1, <2>2, <2>3, <2>4
<1> QED
  BY <1>8, <1>11, <1>12, <1>13, <1>14, <1>15

(* A list without repetitions is as long as the set of its entries is large. *)
LEMMA DistinctCardinality ==
  ASSUME NEW D, NEW s \in Seq(D), Distinct(s)
  PROVE  IsFiniteSet(ToSet(s)) /\ Cardinality(ToSet(s)) = Len(s)
<1>1. Len(s) \in Nat /\ DOMAIN s = 1..Len(s)
  OBVIOUS
<1>2. s \in Bijection(1..Len(s), ToSet(s))
  <2>1. s \in [1..Len(s) -> ToSet(s)]
    BY <1>1 DEF ToSet
  <2>2. \A t \in ToSet(s) : \E i \in 1..Len(s) : s[i] = t
    BY <1>1 DEF ToSet
  <2> QED
    BY <2>1, <2>2 DEF Bijection, Injection, Surjection, IsInjective, Distinct
<1>3. IsFiniteSet(1..Len(s)) /\ Cardinality(1..Len(s)) = Len(s)
  <2>1. 1 \in Int /\ Len(s) \in Int
    BY <1>1
  <2>2. /\ IsFiniteSet(1..Len(s))
        /\ Cardinality(1..Len(s)) = IF 1 > Len(s) THEN 0 ELSE Len(s) - 1 + 1
    BY <2>1, FS_Interval
  <2> QED
    BY <1>1, <2>2
<1>4. ExistsBijection(1..Len(s), ToSet(s))
  BY <1>2 DEF ExistsBijection
<1> QED
  BY <1>3, <1>4, FS_Bijection
-----------------------------------------------------------------------------
(* The invariant.  TypeOK and the two properties of the links are not       *)
(* inductive: the links are what the scans found and the loop harvested, so *)
(* the lists of both are bounded and without repetitions too; a scan knows  *)
(* by its skip set what it has found, and stops at the budget.              *)

ScanStates == {"idle", "scanning", "done", "failed"}
ScanRecords == [state : ScanStates, skipped : SUBSET Device, found : Seq(Bitchat)]
FoundOK(s) ==
    /\ Distinct(s.found) /\ Len(s.found) <= MaxLinks
    /\ ToSet(s.found) \subseteq s.skipped
    /\ s.state = "scanning" => Len(s.found) < MaxLinks
GoodScans == {s \in ScanRecords : FoundOK(s)}
GoodLists == {l \in Seq(Bitchat) : Distinct(l) /\ Len(l) <= MaxLinks}

RadioOK ==
    /\ air \in [Device -> {"talking", "silent", "gone"}] /\ flaps \in 0..MaxFlaps
    /\ conn \in [Device -> {"none", "open", "streaming"}]
    /\ \A d \in Device : conn[d] = "streaming" => d \in Bitchat
    /\ blacklist \subseteq Device /\ non_bitchat \subseteq Other
ScansOK == scan \in [Scan -> GoodScans]
PendingOK == pending \in [Scan -> GoodLists]
LinksOK ==
    /\ mesh_links \in GoodLists
    /\ quiet \subseteq Linked /\ active \in Bitchat \cup {None}
    /\ ~post_connect_initialized => mesh_links = <<>>
LoopOK ==
    /\ stage \in {"harvest", "check", "lines", "await", "install", "packets", "reset",
                  "panicked"}
    /\ connected_line \in BOOLEAN /\ post_connect_initialized \in BOOLEAN
    /\ manager \in BOOLEAN /\ retry_asked \in BOOLEAN
    /\ retries \in 0..MaxRetries
InboxOK ==
    /\ inbox \in Seq(UNION {Packets(d) : d \in Bitchat}) /\ recently_left \subseteq Bitchat

IInv == RadioOK /\ ScansOK /\ PendingOK /\ LinksOK /\ LoopOK /\ InboxOK /\ PrimaryOnlyWithoutLinks

LEMMA InvImpliesTypeOK == IInv => TypeOK
<1> SUFFICES ASSUME IInv PROVE TypeOK
  OBVIOUS
<1>1. \A k \in Scan : ScanOK(scan[k]) /\ pending[k] \in Seq(Bitchat)
  BY DEF IInv, ScansOK, GoodScans, ScanRecords, ScanOK, PendingOK, GoodLists, ScanStates
<1>2. "primary" \in Scan /\ "background" \in Scan
  BY DEF Scan
<1> QED
  BY <1>1, <1>2 DEF IInv, RadioOK, LinksOK, LoopOK, InboxOK, GoodLists, TypeOK

LEMMA InvImpliesLinkBudget == IInv => LinkBudget
<1> SUFFICES ASSUME IInv PROVE LinkBudget
  OBVIOUS
<1>1. mesh_links \in Seq(Bitchat) /\ Distinct(mesh_links) /\ Len(mesh_links) <= MaxLinks
  BY DEF IInv, LinksOK, GoodLists
<1> QED
  BY <1>1, DistinctCardinality DEF LinkBudget, Linked

-----------------------------------------------------------------------------
(* Scans.                                                                    *)

LEMMA EmptyList ==
  /\ <<>> \in GoodLists
  /\ ToSet(<<>>) = {}
<1>1. <<>> \in Seq(Bitchat) /\ Len(<<>>) = 0 /\ Len(<<>>) <= MaxLinks
  BY LinkBoundsAssumption
<1> QED
  BY <1>1 DEF GoodLists, Distinct, ToSet

LEMMA IdleIsGood == Idle \in GoodScans
<1>1. Idle.state = "idle" /\ Idle.skipped = {} /\ Idle.found = <<>> /\ Idle \in ScanRecords
  BY DEF Idle, ScanRecords, ScanStates
<1> QED
  BY <1>1, EmptyList DEF GoodScans, FoundOK, GoodLists

LEMMA StartedIsGood ==
  ASSUME NEW skipped \in SUBSET Device
  PROVE  Started(skipped) \in GoodScans
<1>1. PICK s : s = Started(skipped)
  OBVIOUS
<1>2. /\ s.state = "scanning" /\ s.skipped = skipped /\ s.found = <<>>
      /\ s \in ScanRecords
  BY <1>1 DEF Started, ScanRecords, ScanStates
<1>3. Len(s.found) < MaxLinks
  BY <1>2, LinkBoundsAssumption
<1> QED
  BY <1>1, <1>2, <1>3, EmptyList DEF GoodScans, FoundOK, GoodLists

(* The end of a task keeps what it found.                                    *)
LEMMA EndedIsGood ==
  ASSUME NEW k, NEW s \in ScanRecords, Distinct(s.found), Len(s.found) <= MaxLinks,
         ToSet(s.found) \subseteq s.skipped
  PROVE  Ended(k, s) \in GoodScans
<1>1. PICK e : e = Ended(k, s)
  OBVIOUS
<1>2. PICK to \in {"done", "failed"} : e = [s EXCEPT !.state = to]
  BY <1>1 DEF Ended
<1>3. e \in ScanRecords /\ e.state = to /\ e.found = s.found /\ e.skipped = s.skipped
  BY <1>2 DEF ScanRecords, ScanStates
<1> QED
  BY <1>1, <1>3 DEF GoodScans, FoundOK

(* One more device for the scan.                                             *)
LEMMA FoundOneMore ==
  ASSUME NEW s \in GoodScans, NEW d \in Bitchat, d \notin s.skipped,
         s.state = "scanning", NEW more \in ScanRecords,
         more.found = Append(s.found, d), more.skipped = s.skipped \cup {d}
  PROVE  /\ Distinct(more.found) /\ Len(more.found) <= MaxLinks
         /\ ToSet(more.found) \subseteq more.skipped
<1>1. /\ s.found \in Seq(Bitchat) /\ Distinct(s.found) /\ Len(s.found) < MaxLinks
      /\ ToSet(s.found) \subseteq s.skipped
  BY DEF GoodScans, FoundOK, ScanRecords
<1>2. PICK f, g : f = s.found /\ g = Append(f, d)
  OBVIOUS
<1>3. /\ Len(f) \in Nat /\ Len(g) = Len(f) + 1 /\ g \in Seq(Bitchat)
      /\ g[Len(f) + 1] = d
      /\ \A i \in 1..Len(f) : g[i] = f[i] /\ f[i] # d
      /\ \A i \in 1..Len(g) : i = Len(f) + 1 \/ i \in 1..Len(f)
  <2>1. /\ Len(f) \in Nat /\ Len(g) = Len(f) + 1 /\ g \in Seq(Bitchat)
        /\ g[Len(f) + 1] = d /\ \A i \in 1..Len(f) : g[i] = f[i]
    BY <1>1, <1>2
  <2>2. \A i \in 1..Len(f) : f[i] \in ToSet(f)
    BY <1>1, <1>2 DEF ToSet
  <2> QED
    BY <1>1, <1>2, <2>1, <2>2
<1>4. Distinct(g)
  <2>1. \A i, j \in 1..Len(f) : f[i] = f[j] => i = j
    BY <1>1, <1>2 DEF Distinct
  <2> QED
    BY <1>3, <2>1 DEF Distinct
<1>5. ToSet(g) \subseteq ToSet(f) \cup {d}
  BY <1>1, <1>2, <1>3 DEF ToSet
<1>6. Len(g) <= MaxLinks
  BY <1>1, <1>2, <1>3, LinkBoundsAssumption
<1> QED
  BY <1>1, <1>2, <1>4, <1>5, <1>6
-----------------------------------------------------------------------------
(* The actions.                                                              *)

ConnOK(c) ==
    /\ c \in [Device -> {"none", "open", "streaming"}]
    /\ \A d \in Device : c[d] = "streaming" => d \in Bitchat

LEMMA WithConnIsOK ==
  ASSUME RadioOK, NEW S, NEW to \in {"none", "open", "streaming"},
         to = "streaming" => S \subseteq Bitchat
  PROVE  ConnOK(WithConn(S, to))
BY DEF RadioOK, ConnOK, WithConn

LEMMA DevicesAre == Bitchat \subseteq Device /\ Other \subseteq Device
BY DEF Device

LEMMA ScansAre == "primary" \in Scan /\ "background" \in Scan /\ \A k \in Scan : k = "primary" \/ k = "background"
BY DEF Scan

LEMMA SkipIsGood ==
  ASSUME ScansOK, NEW k \in Scan, NEW d \in Device
  PROVE  /\ Skip(k, d)[k] \in GoodScans
         /\ Skip(k, d) = [scan EXCEPT ![k] = Skip(k, d)[k]]
         /\ Skip(k, d)[k].state = scan[k].state /\ Skip(k, d)[k].found = scan[k].found
         /\ Skip(k, d)[k].skipped = scan[k].skipped \cup {d}
<1>1. PICK s : s = scan[k]
  OBVIOUS
<1>2. s \in GoodScans /\ s \in ScanRecords
  BY <1>1 DEF ScansOK, GoodScans
<1>3. PICK t : t = [s EXCEPT !.skipped = s.skipped \cup {d}]
  OBVIOUS
<1>4. t \in ScanRecords
  <2>1. s.skipped \cup {d} \in SUBSET Device
    BY <1>2 DEF ScanRecords
  <2> QED
    BY <1>2, <1>3, <2>1 DEF ScanRecords
<1>5. t.state = s.state /\ t.found = s.found /\ t.skipped = s.skipped \cup {d}
  BY <1>2, <1>3 DEF ScanRecords
<1>6. t \in GoodScans
  BY <1>2, <1>4, <1>5 DEF GoodScans, FoundOK
<1>7. Skip(k, d) = [scan EXCEPT ![k] = t]
  BY <1>1, <1>3 DEF Skip
<1>8. Skip(k, d)[k] = t
  BY <1>7 DEF ScansOK
<1> QED
  BY <1>1, <1>5, <1>6, <1>7, <1>8

(* What a scan task does keeps the lists good, and there are no links while *)
(* the primary scan runs.                                                    *)
LEMMA ScanTaskOK ==
  ASSUME IInv, NEW k \in Scan, ScanTask(k)
  PROVE  IInv'
<1>1. /\ UNCHANGED <<radioVars, linkVars, setupVars, retryVars, rxVars, stage, pending>>
      /\ ScansOK /\ RadioOK
  BY DEF ScanTask, IInv
<1>2. ASSUME IsRunning(k), ConnOK(conn'), blacklist' \subseteq Device, non_bitchat' \subseteq Other,
             connected_line' \in BOOLEAN,
             NEW s \in GoodScans, scan' = [scan EXCEPT ![k] = s]
      PROVE  IInv'
  <2>1. scan' \in [Scan -> GoodScans] /\ \A j \in Scan : j # k => scan'[j] = scan[j]
    BY <1>1, <1>2 DEF ScansOK
  <2>2. RadioOK' /\ PendingOK' /\ LinksOK' /\ LoopOK' /\ InboxOK'
    BY <1>1, <1>2
    DEF IInv, RadioOK, ConnOK, PendingOK, LinksOK, Linked, LoopOK, InboxOK,
        radioVars, linkVars, setupVars, retryVars, rxVars
  <2>3. PrimaryOnlyWithoutLinks'
    <3>1. CASE k = "primary"
      <4>1. Idle.state # "scanning"
        BY DEF Idle
      <4>2. mesh_links = <<>>
        BY <1>2, <3>1, <4>1 DEF IInv, PrimaryOnlyWithoutLinks, IsRunning
      <4> QED
        BY <1>1, <4>2 DEF PrimaryOnlyWithoutLinks, linkVars
    <3>2. CASE k # "primary"
      BY <1>1, <2>1, <3>2, ScansAre DEF IInv, PrimaryOnlyWithoutLinks, linkVars
    <3> QED
      BY <3>1, <3>2
  <2> QED
    BY <2>1, <2>2, <2>3 DEF IInv, ScansOK
<1>3. scan[k] \in GoodScans /\ scan[k] \in ScanRecords /\ FoundOK(scan[k])
  BY <1>1 DEF ScansOK, GoodScans
<1>4. connected_line \in BOOLEAN /\ \A s : SaysConnected(k, s) \in BOOLEAN
  BY DEF IInv, LoopOK, SaysConnected
<1>5. blacklist \subseteq Device /\ non_bitchat \subseteq Other /\ ConnOK(conn)
  BY <1>1 DEF RadioOK, ConnOK
<1>6. ASSUME NEW d \in Device, CandidateBlacklisted(k, d) PROVE IInv'
  BY <1>1, <1>2, <1>4, <1>5, <1>6, SkipIsGood, WithConnIsOK
  DEF CandidateBlacklisted, IsCandidate
<1>7. ASSUME NEW d \in Device, CandidateRefuses(k, d) PROVE IInv'
  BY <1>1, <1>2, <1>4, <1>5, <1>7, SkipIsGood DEF CandidateRefuses, IsCandidate
<1>8. ASSUME NEW d \in Device, CandidateIsOther(k, d) PROVE IInv'
  <2>1. non_bitchat' \subseteq Other
    BY <1>5, <1>8 DEF CandidateIsOther
  <2> QED
    BY <1>1, <1>2, <1>4, <1>5, <1>8, <2>1, SkipIsGood, WithConnIsOK
    DEF CandidateIsOther, IsCandidate
<1>9. ASSUME NEW d \in Device, CandidateIsBitchat(k, d) PROVE IInv'
  <2>1. PICK t : t = Skip(k, d)[k]
    OBVIOUS
  <2>2. /\ t \in GoodScans /\ t \in ScanRecords /\ t.state = scan[k].state
        /\ t.found = scan[k].found /\ t.skipped = scan[k].skipped \cup {d}
    BY <1>1, <2>1, SkipIsGood DEF GoodScans
  <2>3. d \in Bitchat /\ d \notin scan[k].skipped /\ scan[k].state = "scanning"
    BY <1>9 DEF CandidateIsBitchat, IsCandidate, Considers, IsRunning
  <2>4. PICK more : more = [t EXCEPT !.found = Append(t.found, d)]
    OBVIOUS
  <2>5. /\ more \in ScanRecords /\ more.found = Append(scan[k].found, d)
        /\ more.skipped = scan[k].skipped \cup {d} /\ more.state = "scanning"
    <3>1. Append(t.found, d) \in Seq(Bitchat)
      BY <2>2, <2>3 DEF ScanRecords
    <3> QED
      BY <2>2, <2>3, <2>4, <3>1 DEF ScanRecords
  <2>6. /\ Distinct(more.found) /\ Len(more.found) <= MaxLinks
        /\ ToSet(more.found) \subseteq more.skipped
    BY <1>3, <2>3, <2>5, FoundOneMore
  <2>7. PICK after : after = IF Len(more.found) >= MaxLinks THEN Ended(k, more) ELSE more
    OBVIOUS
  <2>8. after \in GoodScans
    <3>1. Ended(k, more) \in GoodScans
      BY <2>5, <2>6, EndedIsGood
    <3>2. Len(more.found) \in Nat /\ MaxLinks \in Nat
      BY <2>5, LinkBoundsAssumption DEF ScanRecords
    <3>3. ~(Len(more.found) >= MaxLinks) => Len(more.found) < MaxLinks
      BY <3>2
    <3> QED
      BY <2>5, <2>6, <2>7, <3>1, <3>3 DEF GoodScans, FoundOK
  <2>9. scan' = [scan EXCEPT ![k] = after] /\ connected_line' = SaysConnected(k, after)
    BY <1>9, <2>1, <2>4, <2>7 DEF CandidateIsBitchat
  <2>10. ConnOK(conn')
    BY <1>1, <1>5, <1>9, WithConnIsOK DEF CandidateIsBitchat
  <2>11. blacklist' = blacklist /\ non_bitchat' \subseteq non_bitchat /\ IsRunning(k)
    BY <1>9 DEF CandidateIsBitchat, IsCandidate
  <2> QED
    BY <1>2, <1>4, <1>5, <2>8, <2>9, <2>10, <2>11
<1>10. CASE ScanEnds(k)
  <2>1. Ended(k, scan[k]) \in GoodScans
    BY <1>3, EndedIsGood DEF FoundOK
  <2> QED
    BY <1>1, <1>2, <1>4, <1>5, <1>10, <2>1 DEF ScanEnds
<1> QED
  BY <1>6, <1>7, <1>8, <1>9, <1>10 DEF ScanTask
(* The radio and what it brings.                                             *)
LEMMA FlapOK ==
  ASSUME IInv, NEW d \in Device, Flap(d)
  PROVE  IInv'
<1>1. PICK to \in {"talking", "silent", "gone"} :
         /\ air' = [air EXCEPT ![d] = to]
         /\ conn' = IF to = "gone" THEN WithConn({d}, "none") ELSE conn
  BY DEF Flap
<1>2. ConnOK(conn')
  BY <1>1, WithConnIsOK DEF IInv, RadioOK, ConnOK
<1>3. flaps' \in 0..MaxFlaps
  BY LinkBoundsAssumption DEF Flap, IInv, RadioOK
<1>4. RadioOK'
  BY <1>1, <1>2, <1>3 DEF IInv, RadioOK, ConnOK, Flap
<1> QED
  BY <1>4 DEF IInv, Flap, ScansOK, PendingOK, LinksOK, Linked, LoopOK, InboxOK,
              PrimaryOnlyWithoutLinks, linkVars, setupVars, retryVars, rxVars

LEMMA GrowQuietOK ==
  ASSUME IInv, NEW d \in Device, GrowQuiet(d)
  PROVE  IInv'
BY DEF IInv, GrowQuiet, RadioOK, ScansOK, PendingOK, LinksOK, Linked, LoopOK, InboxOK,
       PrimaryOnlyWithoutLinks, radioVars, scanVars, setupVars, retryVars, rxVars

LEMMA NotifyOK ==
  ASSUME IInv, NEW d \in Device, Notify(d)
  PROVE  IInv'
<1>1. d \in Bitchat
  BY DEF IInv, RadioOK, Notify
<1>2. PICK packet \in Packets(d) : inbox' = Append(inbox, packet)
  BY DEF Notify
<1>3. InboxOK'
  BY <1>1, <1>2 DEF IInv, InboxOK, Notify
<1> QED
  BY <1>3 DEF IInv, Notify, RadioOK, ScansOK, PendingOK, LinksOK, Linked, LoopOK,
       PrimaryOnlyWithoutLinks, radioVars, scanVars, linkVars, setupVars, retryVars

LEMMA ExpireOK ==
  ASSUME IInv, NEW d \in Device, Expire(d)
  PROVE  IInv'
BY DEF IInv, Expire, RadioOK, ScansOK, PendingOK, LinksOK, Linked, LoopOK, InboxOK,
       PrimaryOnlyWithoutLinks, radioVars, linkVars, setupVars, retryVars, rxVars

-----------------------------------------------------------------------------
(* The stages of the main loop.                                              *)

LEMMA HarvestOK ==
  ASSUME IInv, NEW due \in BOOLEAN, Harvest(due)
  PROVE  IInv'
<1> DEFINE harvested(k) == scan[k].state = "done" /\ scan[k].found # <<>>
<1>1. PICK found, left :
        /\ found = [primary |-> IF harvested("primary") /\ mesh_links = <<>>
                                THEN scan["primary"].found ELSE pending["primary"],
                    background |-> IF scan["background"].state = "done"
                                   THEN scan["background"].found
                                   ELSE pending["background"]]
        /\ left = [k \in Scan |-> IF IsFinished(k) THEN Idle ELSE scan[k]]
        /\ pending' = found
        /\ scan' = IF /\ due /\ mesh_links = <<>>
                      /\ \A k \in Scan : left[k] = Idle /\ found[k] = <<>>
                   THEN [left EXCEPT !["primary"] = Started({})]
                   ELSE left
  BY DEF Harvest
<1>2. \A k \in Scan : scan[k].found \in GoodLists /\ pending[k] \in GoodLists
  BY DEF IInv, ScansOK, PendingOK, GoodScans, GoodLists, FoundOK, ScanRecords
<1>3. found \in [Scan -> GoodLists]
  <2>1. PICK a \in GoodLists, b \in GoodLists : found = [primary |-> a, background |-> b]
    BY <1>1, <1>2, ScansAre
  <2>2. DOMAIN found = Scan /\ found["primary"] = a /\ found["background"] = b
    BY <2>1 DEF Scan
  <2>3. found = [k \in Scan |-> found[k]]
    BY <2>1 DEF Scan
  <2> QED
    BY <2>2, <2>3, ScansAre
<1>4. left \in [Scan -> GoodScans]
  BY <1>1, IdleIsGood DEF IInv, ScansOK
<1>5. Started({}) \in GoodScans
  BY StartedIsGood
<1>6. ScansOK'
  BY <1>1, <1>4, <1>5 DEF ScansOK
<1>7. PrimaryOnlyWithoutLinks'
  <2>1. mesh_links' = mesh_links
    BY DEF Harvest, linkVars
  <2> SUFFICES ASSUME mesh_links # <<>> PROVE scan'["primary"] = Idle
    BY <2>1 DEF PrimaryOnlyWithoutLinks
  <2>2. scan' = left /\ scan["primary"] = Idle
    BY <1>1 DEF IInv, PrimaryOnlyWithoutLinks
  <2> QED
    BY <1>1, <2>2, ScansAre
<1> QED
  BY <1>1, <1>3, <1>6, <1>7
  DEF IInv, Harvest, RadioOK, PendingOK, LinksOK, Linked, LoopOK, InboxOK,
      radioVars, linkVars, setupVars, retryVars, rxVars

(* What a list of links keeps is a good list of links.                       *)
LEMMA KeptLinks ==
  ASSUME IInv, NEW T, NEW kept, kept = Only(mesh_links, T)
  PROVE  /\ kept \in GoodLists
         /\ ToSet(kept) \subseteq T /\ ToSet(kept) \subseteq Linked
         /\ mesh_links = <<>> => kept = <<>>
<1>1. mesh_links \in Seq(Bitchat) /\ Distinct(mesh_links) /\ Len(mesh_links) <= MaxLinks
  BY DEF IInv, LinksOK, GoodLists
<1>2. /\ kept \in Seq(Bitchat) /\ Len(kept) <= Len(mesh_links) /\ Distinct(kept)
      /\ ToSet(kept) \subseteq ToSet(mesh_links) \cap T
  BY <1>1, OnlyFacts
<1>3. Len(kept) <= MaxLinks
  BY <1>1, <1>2, LinkBoundsAssumption
<1>4. mesh_links = <<>> => kept = <<>>
  <2>1. mesh_links = <<>> => Len(mesh_links) = 0
    OBVIOUS
  <2>2. mesh_links = <<>> => Len(kept) = 0
    BY <1>1, <1>2, <2>1
  <2> QED
    BY <1>2, <2>2
<1> QED
  BY <1>2, <1>3, <1>4 DEF GoodLists, Linked

LEMMA FirstOfGood ==
  ASSUME NEW links \in GoodLists
  PROVE  FirstOf(links) \in Bitchat \cup {None}
BY DEF GoodLists, FirstOf

LEMMA CheckOK ==
  ASSUME IInv, NEW health_due \in BOOLEAN, NEW scan_due \in BOOLEAN,
         Check(health_due, scan_due)
  PROVE  IInv'
<1>1. PICK kept, dropped :
        /\ kept = Only(mesh_links, Retained) \/ kept = mesh_links
        /\ dropped \subseteq quiet
        /\ mesh_links' = kept
        /\ active' = IF kept # mesh_links THEN FirstOf(kept) ELSE active
        /\ quiet' = StillQuiet(kept)
        /\ conn' = WithConn(dropped, "none")
        /\ blacklist' = blacklist \cup dropped
        /\ scan' = IF post_connect_initialized /\ scan_due /\ MayScanBeside(kept)
                   THEN [scan EXCEPT !["background"] = Started(ToSet(kept))]
                   ELSE scan
  BY DEF Check
<1>2. /\ kept \in GoodLists /\ ToSet(kept) \subseteq Linked
      /\ mesh_links = <<>> => kept = <<>>
  <2>1. CASE kept = mesh_links
    BY <2>1 DEF IInv, LinksOK, Linked
  <2>2. CASE kept = Only(mesh_links, Retained)
    BY <2>2, KeptLinks
  <2> QED
    BY <1>1, <2>1, <2>2
<1>3. Linked \subseteq Bitchat /\ quiet \subseteq Linked
  BY DEF IInv, LinksOK, GoodLists, Linked, ToSet
<1>4. ConnOK(conn')
  BY <1>1, WithConnIsOK DEF IInv
<1>5. RadioOK'
  BY <1>1, <1>3, <1>4, DevicesAre DEF IInv, RadioOK, ConnOK, Check, radioVars
<1>6. Started(ToSet(kept)) \in GoodScans
  BY <1>2, <1>3, DevicesAre, StartedIsGood
<1>7. ScansOK'
  BY <1>1, <1>6 DEF IInv, ScansOK
<1>8. LinksOK'
  <2>1. quiet' \subseteq ToSet(mesh_links')
    BY <1>1 DEF StillQuiet
  <2>2. active' \in Bitchat \cup {None}
    BY <1>1, <1>2, FirstOfGood DEF IInv, LinksOK
  <2> QED
    BY <1>1, <1>2, <2>1, <2>2 DEF IInv, LinksOK, Linked, Check, setupVars
<1>9. PrimaryOnlyWithoutLinks'
  BY <1>1, <1>2, ScansAre DEF IInv, ScansOK, PrimaryOnlyWithoutLinks
<1> QED
  BY <1>5, <1>7, <1>8, <1>9
  DEF IInv, Check, PendingOK, LoopOK, InboxOK, setupVars, retryVars, rxVars

LEMMA ReadLinesOK ==
  ASSUME IInv, ReadLines
  PROVE  IInv'
BY DEF IInv, ReadLines, RadioOK, ScansOK, PendingOK, LinksOK, Linked, LoopOK, InboxOK,
       PrimaryOnlyWithoutLinks, radioVars, linkVars, setupVars, retryVars, rxVars

LEMMA AwaitPrimaryOK ==
  ASSUME IInv, AwaitPrimary
  PROVE  IInv'
<1>1. scan["primary"].found \in GoodLists
  BY ScansAre DEF IInv, ScansOK, GoodScans, GoodLists, FoundOK, ScanRecords
<1>2. PendingOK'
  BY <1>1, ScansAre DEF AwaitPrimary, IInv, PendingOK
<1>3. scan' \in [Scan -> GoodScans] /\ scan'["primary"] = Idle
  BY IdleIsGood, ScansAre DEF AwaitPrimary, IInv, ScansOK
<1> QED
  BY <1>2, <1>3
  DEF IInv, AwaitPrimary, RadioOK, ScansOK, LinksOK, Linked, LoopOK, InboxOK,
      PrimaryOnlyWithoutLinks, radioVars, linkVars, setupVars, retryVars, rxVars

(* initialize_mesh_link sorts out some of the candidates.                    *)
LEMMA InitializedIsGood ==
  ASSUME NEW candidates \in Seq(Bitchat), NEW works
  PROVE  /\ Initialized(candidates, works) \in Seq(Bitchat)
         /\ ToSet(Initialized(candidates, works)) \subseteq Bitchat
         /\ candidates \in GoodLists => Initialized(candidates, works) \in GoodLists
<1>1. PICK T : Initialized(candidates, works) = Only(candidates, T)
  BY DEF Initialized
<1>2. PICK l : l = Only(candidates, T)
  OBVIOUS
<1>3. l \in Seq(Bitchat) /\ Len(l) <= Len(candidates) /\ (Distinct(candidates) => Distinct(l))
  BY <1>2, OnlyFacts
<1>4. candidates \in GoodLists => l \in GoodLists
  <2>1. Len(l) \in Nat /\ Len(candidates) \in Nat /\ MaxLinks \in Nat
    BY <1>3, LinkBoundsAssumption
  <2> QED
    BY <1>3, <2>1 DEF GoodLists
<1>5. ToSet(l) \subseteq Bitchat
  BY <1>3 DEF ToSet
<1> QED
  BY <1>1, <1>2, <1>3, <1>4, <1>5

(* Installing links aborts the primary scan.                                 *)
LEMMA InstallOK ==
  ASSUME IInv, NEW links \in GoodLists, NEW fresh \in Seq(Bitchat), InstallLinks(links, fresh),
         quiet \subseteq ToSet(links) \cup ToSet(fresh),
         UNCHANGED <<radioVars, blacklist, non_bitchat>>, post_connect_initialized'
  PROVE  RadioOK' /\ ScansOK' /\ LinksOK' /\ PrimaryOnlyWithoutLinks'
<1>1. /\ mesh_links' = links /\ active' = FirstOf(links)
      /\ conn' = WithConn(ToSet(fresh), "streaming")
      /\ quiet' = quiet \ ToSet(fresh)
      /\ scan' = [scan EXCEPT !["primary"] = Idle]
  BY DEF InstallLinks, AbortPrimary
<1>2. ToSet(fresh) \subseteq Bitchat
  BY DEF ToSet
<1>3. ConnOK(conn')
  BY <1>1, <1>2, WithConnIsOK DEF IInv
<1>4. RadioOK'
  BY <1>3 DEF IInv, RadioOK, ConnOK, radioVars
<1>5. ScansOK' /\ scan'["primary"] = Idle
  BY <1>1, IdleIsGood, ScansAre DEF IInv, ScansOK
<1>6. LinksOK'
  BY <1>1, FirstOfGood DEF LinksOK, Linked
<1> QED
  BY <1>4, <1>5, <1>6 DEF PrimaryOnlyWithoutLinks

LEMMA FirstInstallOK ==
  ASSUME IInv, FirstInstall
  PROVE  IInv'
<1>1. mesh_links = <<>> /\ quiet = {}
  BY EmptyList DEF FirstInstall, IInv, LinksOK, Linked
<1>2. pending["primary"] \in GoodLists /\ pending["primary"] \in Seq(Bitchat)
  BY ScansAre DEF IInv, PendingOK, GoodLists
<1>3. PICK works \in SUBSET Silent :
        LET fresh == Initialized(pending["primary"], works)
        IN  \/ /\ fresh = <<>>
               /\ active' = None /\ stage' = "harvest"
               /\ UNCHANGED <<mesh_links, quiet, conn, scan, manager>>
            \/ /\ fresh # <<>>
               /\ InstallLinks(fresh, fresh)
               /\ manager' = TRUE
               /\ stage' = "packets"
  BY DEF FirstInstall
<1>4. PICK fresh : fresh = Initialized(pending["primary"], works)
  OBVIOUS
<1>5. fresh \in GoodLists /\ fresh \in Seq(Bitchat)
  BY <1>2, <1>4, InitializedIsGood
<1>6. /\ UNCHANGED <<radioVars, blacklist, non_bitchat, connected_line, retryVars, rxVars>>
      /\ post_connect_initialized'
      /\ pending' = [pending EXCEPT !["primary"] = <<>>]
      /\ post_connect_initialized' = TRUE
  BY DEF FirstInstall
<1>7. PendingOK'
  BY <1>6, EmptyList DEF IInv, PendingOK
<1>8. InboxOK'
  BY <1>6 DEF IInv, InboxOK, rxVars
<1>9. CASE active' = None /\ stage' = "harvest" /\ UNCHANGED <<mesh_links, quiet, conn, scan, manager>>
  BY <1>6, <1>7, <1>8, <1>9
  DEF IInv, RadioOK, ScansOK, LinksOK, Linked, LoopOK, PrimaryOnlyWithoutLinks, radioVars,
      retryVars
<1>10. CASE InstallLinks(fresh, fresh) /\ manager' = TRUE /\ stage' = "packets"
  <2>1. RadioOK' /\ ScansOK' /\ LinksOK' /\ PrimaryOnlyWithoutLinks'
    BY <1>1, <1>5, <1>6, <1>10, InstallOK
  <2>2. LoopOK'
    BY <1>6, <1>10 DEF IInv, LoopOK, retryVars
  <2> QED
    BY <1>7, <1>8, <2>1, <2>2 DEF IInv
<1> QED
  BY <1>3, <1>4, <1>9, <1>10

LEMMA LaterInstallOK ==
  ASSUME IInv, LaterInstall
  PROVE  IInv'
<1>1. /\ UNCHANGED <<radioVars, blacklist, non_bitchat, connected_line, setupVars,
                     retryVars, rxVars>>
      /\ pending' = [k \in Scan |-> <<>>] /\ stage' = "packets"
      /\ post_connect_initialized /\ post_connect_initialized'
  BY DEF LaterInstall, setupVars
<1>2. PICK works \in SUBSET Silent :
         LET fresh == Initialized(pending["background"] \o pending["primary"], works)
         IN  IF fresh = <<>> THEN UNCHANGED <<linkVars, conn, scan>>
             ELSE InstallLinks(Merge(mesh_links, fresh), fresh)
  BY DEF LaterInstall
<1>3. PICK all : all = pending["background"] \o pending["primary"]
  OBVIOUS
<1>4. all \in Seq(Bitchat)
  <2>1. pending["background"] \in Seq(Bitchat) /\ pending["primary"] \in Seq(Bitchat)
    BY ScansAre DEF IInv, PendingOK, GoodLists
  <2> QED
    BY <1>3, <2>1
<1>5. PICK fresh : fresh = Initialized(all, works)
  OBVIOUS
<1>6. fresh \in Seq(Bitchat)
  BY <1>4, <1>5, InitializedIsGood
<1>7. PendingOK'
  BY <1>1, EmptyList DEF PendingOK
<1>8. LoopOK' /\ InboxOK'
  BY <1>1 DEF IInv, LoopOK, InboxOK, setupVars, retryVars, rxVars
<1>9. CASE UNCHANGED <<linkVars, conn, scan>>
  BY <1>1, <1>7, <1>8, <1>9
  DEF IInv, RadioOK, ScansOK, LinksOK, Linked, PrimaryOnlyWithoutLinks, radioVars, linkVars
<1>10. CASE InstallLinks(Merge(mesh_links, fresh), fresh)
  <2>1. mesh_links \in Seq(Bitchat) /\ Distinct(mesh_links) /\ Len(mesh_links) <= MaxLinks
    BY DEF IInv, LinksOK, GoodLists
  <2>2. PICK merged : merged = Merge(mesh_links, fresh)
    OBVIOUS
  <2>3. merged \in GoodLists /\ ToSet(mesh_links) \subseteq ToSet(merged)
    BY <1>6, <2>1, <2>2, MergeFacts DEF GoodLists
  <2>4. quiet \subseteq ToSet(merged) \cup ToSet(fresh)
    BY <2>3 DEF IInv, LinksOK, Linked
  <2>5. RadioOK' /\ ScansOK' /\ LinksOK' /\ PrimaryOnlyWithoutLinks'
    BY <1>1, <1>6, <1>10, <2>2, <2>3, <2>4, InstallOK
  <2> QED
    BY <1>7, <1>8, <2>5 DEF IInv
<1> QED
  BY <1>2, <1>3, <1>5, <1>9, <1>10

LEMMA HandlePacketOK ==
  ASSUME IInv, NEW cooldown_over \in BOOLEAN, HandlePacket(cooldown_over)
  PROVE  IInv'
<1>1. /\ inbox # <<>> /\ inbox' = Tail(inbox)
      /\ quiet' \subseteq quiet
      /\ recently_left' \subseteq recently_left \cup {Head(inbox).from}
      /\ stage' \in {"panicked", "packets"}
      /\ \/ scan' = scan
         \/ scan' = [scan EXCEPT !["background"] = Started(Linked)]
      /\ UNCHANGED <<radioVars, conn, blacklist, non_bitchat, connected_line, mesh_links,
                     active, setupVars, retryVars, pending>>
  BY DEF HandlePacket
<1>2. InboxOK'
  <2>1. inbox \in Seq(UNION {Packets(d) : d \in Bitchat})
    BY DEF IInv, InboxOK
  <2>2. Head(inbox) \in UNION {Packets(d) : d \in Bitchat}
    BY <1>1, <2>1
  <2>3. Head(inbox).from \in Bitchat
    BY <2>2 DEF Packets
  <2> QED
    BY <1>1, <2>1, <2>3 DEF IInv, InboxOK
<1>3. Started(Linked) \in GoodScans
  <2>1. Linked \subseteq Device
    BY DevicesAre DEF IInv, LinksOK, GoodLists, Linked, ToSet
  <2> QED
    BY <2>1, StartedIsGood
<1>4. scan' \in [Scan -> GoodScans] /\ scan'["primary"] = scan["primary"]
  BY <1>1, <1>3, ScansAre DEF IInv, ScansOK
<1> QED
  BY <1>1, <1>2, <1>4
  DEF IInv, RadioOK, ScansOK, PendingOK, LinksOK, Linked, LoopOK, PrimaryOnlyWithoutLinks,
      radioVars, setupVars, retryVars

LEMMA PacketsDoneOK ==
  ASSUME IInv, PacketsDone
  PROVE  IInv'
BY DEF IInv, PacketsDone, RadioOK, ScansOK, PendingOK, LinksOK, Linked, LoopOK, InboxOK,
       PrimaryOnlyWithoutLinks, radioVars, scanVars, linkVars, setupVars, retryVars, rxVars

LEMMA ResetConnectionsOK ==
  ASSUME IInv, ResetConnections
  PROVE  IInv'
<1>1. /\ mesh_links' = <<>> /\ active' = None /\ quiet' = StillQuiet(<<>>)
      /\ pending' = [k \in Scan |-> <<>>]
      /\ post_connect_initialized' = FALSE /\ manager' = FALSE /\ retry_asked' = FALSE
      /\ scan' = [primary |-> Started({}), background |-> Idle] /\ stage' = "harvest"
      /\ UNCHANGED <<radioVars, conn, blacklist, non_bitchat, connected_line, retries, rxVars>>
  BY DEF ResetConnections
<1>2. ScansOK'
  <2>1. Started({}) \in GoodScans /\ Idle \in GoodScans
    BY StartedIsGood, IdleIsGood
  <2>2. scan' = [k \in Scan |-> IF k = "primary" THEN Started({}) ELSE Idle]
    BY <1>1 DEF Scan
  <2> QED
    BY <2>1, <2>2 DEF ScansOK
<1>3. PendingOK' /\ LinksOK' /\ PrimaryOnlyWithoutLinks'
  BY <1>1, EmptyList DEF PendingOK, LinksOK, Linked, StillQuiet, PrimaryOnlyWithoutLinks
<1> QED
  BY <1>1, <1>2, <1>3 DEF IInv, RadioOK, LoopOK, InboxOK, radioVars, rxVars

LEMMA AnnounceOK ==
  ASSUME IInv, NEW due \in BOOLEAN, Announce(due)
  PROVE  IInv'
<1>1. PICK failed \in SUBSET WriteMayFail :
         /\ mesh_links' = Only(mesh_links, Device \ failed)
         /\ quiet' = StillQuiet(mesh_links')
         /\ \/ UNCHANGED <<active, retry_asked>>
            \/ active' = FirstOf(mesh_links') /\ retry_asked' = TRUE
  BY DEF Announce
<1>2. /\ stage' = "harvest"
      /\ UNCHANGED <<radioVars, scanVars, setupVars, retries, rxVars, pending>>
  BY DEF Announce
<1>3. mesh_links' \in GoodLists /\ (mesh_links = <<>> => mesh_links' = <<>>)
  BY <1>1, KeptLinks
<1>4. active' \in Bitchat \cup {None}
  BY <1>1, <1>3, FirstOfGood DEF IInv, LinksOK
<1>5. LinksOK'
  BY <1>1, <1>2, <1>3, <1>4 DEF IInv, LinksOK, Linked, StillQuiet, setupVars
<1>6. LoopOK'
  BY <1>1, <1>2 DEF IInv, LoopOK, scanVars, setupVars
<1>7. PrimaryOnlyWithoutLinks'
  BY <1>2, <1>3 DEF IInv, PrimaryOnlyWithoutLinks, scanVars
<1> QED
  BY <1>2, <1>5, <1>6, <1>7
  DEF IInv, RadioOK, ScansOK, PendingOK, InboxOK, radioVars, scanVars, rxVars

LEMMA AskRetryOK ==
  ASSUME IInv, AskRetry
  PROVE  IInv'
<1>1. retries' \in 0..MaxRetries
  BY LinkBoundsAssumption DEF IInv, LoopOK, AskRetry
<1> QED
  BY <1>1
  DEF IInv, AskRetry, RadioOK, ScansOK, PendingOK, LinksOK, Linked, LoopOK, InboxOK,
      PrimaryOnlyWithoutLinks, radioVars, scanVars, linkVars, setupVars, rxVars

-----------------------------------------------------------------------------
LEMMA InitIInv == Init => IInv
<1> SUFFICES ASSUME Init PROVE IInv
  OBVIOUS
<1>1. ScansOK
  <2>1. Started({}) \in GoodScans /\ Idle \in GoodScans
    BY StartedIsGood, IdleIsGood
  <2>2. scan = [k \in Scan |-> IF k = "primary" THEN Started({}) ELSE Idle]
    BY DEF Init, Scan
  <2> QED
    BY <2>1, <2>2 DEF ScansOK
<1>2. PendingOK
  <2>1. pending = [k \in Scan |-> <<>>]
    BY DEF Init, Scan
  <2> QED
    BY <2>1, EmptyList DEF PendingOK
<1>3. RadioOK /\ LoopOK /\ InboxOK
  <2>1. air \in [Device -> {"talking", "silent", "gone"}]
    BY DEF Init
  <2>2. 0 \in 0..MaxFlaps /\ 0 \in 0..MaxRetries
    BY LinkBoundsAssumption
  <2>3. RadioOK
    BY <2>1, <2>2 DEF Init, RadioOK
  <2>4. LoopOK
    BY <2>2 DEF Init, LoopOK
  <2>5. InboxOK
    BY DEF Init, InboxOK
  <2> QED
    BY <2>3, <2>4, <2>5
<1>4. LinksOK /\ PrimaryOnlyWithoutLinks
  BY EmptyList DEF Init, LinksOK, Linked, PrimaryOnlyWithoutLinks
<1> QED
  BY <1>1, <1>2, <1>3, <1>4 DEF IInv

LEMMA NextIInv == IInv /\ [Next]_vars => IInv'
<1> SUFFICES ASSUME IInv, [Next]_vars PROVE IInv'
  OBVIOUS
<1>1. CASE MainLoop
  BY <1>1, HarvestOK, HandlePacketOK, AnnounceOK, CheckOK, ReadLinesOK, AwaitPrimaryOK,
     FirstInstallOK, LaterInstallOK, PacketsDoneOK, ResetConnectionsOK
  DEF MainLoop
<1>2. CASE AskRetry
  BY <1>2, AskRetryOK
<1>3. ASSUME NEW k \in Scan, ScanTask(k) PROVE IInv'
  BY <1>3, ScanTaskOK
<1>4. ASSUME NEW d \in Device, Flap(d) \/ GrowQuiet(d) \/ Notify(d) \/ Expire(d) PROVE IInv'
  BY <1>4, FlapOK, GrowQuietOK, NotifyOK, ExpireOK
<1>5. CASE UNCHANGED vars
  BY <1>5
  DEF IInv, RadioOK, ScansOK, PendingOK, LinksOK, Linked, LoopOK, InboxOK,
      PrimaryOnlyWithoutLinks, vars, radioVars, scanVars, linkVars, setupVars, retryVars, rxVars
<1> QED
  BY <1>1, <1>2, <1>3, <1>4, <1>5 DEF Next

LEMMA Invariance == Spec => []IInv
BY InitIInv, NextIInv, PTL DEF Spec

(* Type correctness; only devices that run bitchat are ever linked.         *)
THEOREM TypeCorrect == Spec => []TypeOK
BY Invariance, InvImpliesTypeOK, PTL

(* No primary scan runs, or waits to be harvested, beside an installed      *)
(* link, whatever the scans found and whatever aborted or restarted them.   *)
THEOREM PrimaryScansAlone == Spec => []PrimaryOnlyWithoutLinks
<1>1. IInv => PrimaryOnlyWithoutLinks
  BY DEF IInv
<1> QED
  BY <1>1, Invariance, PTL

(* The links are different devices and within MESH_MAX_CENTRAL_LINKS,       *)
(* although both scans may have found the same devices, and what they found *)
(* is installed together.                                                   *)
THEOREM BudgetKept == Spec => []LinkBudget
BY Invariance, InvImpliesLinkBudget, PTL
=============================================================================
