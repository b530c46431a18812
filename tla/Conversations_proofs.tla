-------------------------- MODULE Conversations_proofs --------------------------
(***************************************************************************)
(* Proofs about the four places that say which conversation the user is    *)
(* in, for any peers, nicknames and channels.                              *)
(***************************************************************************)
EXTENDS Conversations, FiniteSetTheorems, WellFoundedInduction, TLAPS

-----------------------------------------------------------------------------
(* Sorted lists: of the people of a set, one has each rank.                  *)

HasRanks(S) == \A i \in 1..Cardinality(S) : \E x \in S : Rank(S, x) = i

LEMMA RankBounds ==
  ASSUME NEW S \in SUBSET Nat, IsFiniteSet(S), NEW x \in S
  PROVE  /\ Cardinality(S) \in Nat
         /\ Rank(S, x) \in 1..Cardinality(S)
<1>1. {y \in S : y <= x} \in SUBSET S
  OBVIOUS
<1>2. /\ IsFiniteSet({y \in S : y <= x})
      /\ Cardinality({y \in S : y <= x}) <= Cardinality(S)
  BY <1>1, FS_Subset
<1>3. Cardinality({y \in S : y <= x}) \in Nat /\ Cardinality(S) \in Nat
  BY <1>2, FS_CardinalityType
<1>4. Cardinality({y \in S : y <= x}) # 0
  <2>1. x \in {y \in S : y <= x}
    OBVIOUS
  <2> QED
    BY <1>2, <2>1, FS_EmptySet
<1> QED
  BY <1>2, <1>3, <1>4 DEF Rank

(* Ranks in S of what is above and below x, by the ranks without x.          *)
LEMMA RankWithout ==
  ASSUME NEW S \in SUBSET Nat, IsFiniteSet(S), NEW x \in S, NEW y \in S \ {x}
  PROVE  /\ y < x => Rank(S, y) = Rank(S \ {x}, y) /\ Rank(S, y) < Rank(S, x)
         /\ y > x => Rank(S, y) = Rank(S \ {x}, y) + 1 /\ Rank(S, y) > Rank(S, x)
<1> DEFINE UpTo(z) == {w \in S : w <= z}
<1>1. \A z \in S : IsFiniteSet(UpTo(z)) /\ Cardinality(UpTo(z)) \in Nat
  <2> SUFFICES ASSUME NEW z \in S PROVE IsFiniteSet(UpTo(z)) /\ Cardinality(UpTo(z)) \in Nat
    OBVIOUS
  <2>1. UpTo(z) \in SUBSET S
    OBVIOUS
  <2>2. IsFiniteSet(UpTo(z))
    BY <2>1, FS_Subset
  <2> QED
    BY <2>2, FS_CardinalityType
<1>2. ASSUME NEW a \in S, NEW b \in S, a < b
      PROVE  Rank(S, a) < Rank(S, b)
  <2>0. a \in Nat /\ b \in Nat /\ \A w \in S : w \in Nat
    OBVIOUS
  <2>1. UpTo(a) \in SUBSET UpTo(b) /\ b \in UpTo(b) /\ b \notin UpTo(a)
    <3>1. \A w \in S : w <= a => w <= b
      BY <1>2, <2>0
    <3>2. b <= b /\ ~(b <= a)
      BY <1>2, <2>0
    <3> QED
      BY <3>1, <3>2
  <2>2. IsFiniteSet(UpTo(b)) /\ Cardinality(UpTo(b)) \in Nat /\ Cardinality(UpTo(a)) \in Nat
    BY <1>1
  <2> HIDE DEF UpTo
  <2>3. /\ Cardinality(UpTo(a)) <= Cardinality(UpTo(b))
        /\ Cardinality(UpTo(b)) = Cardinality(UpTo(a)) => UpTo(b) = UpTo(a)
    BY <2>1, <2>2, FS_Subset
  <2>4. Cardinality(UpTo(a)) < Cardinality(UpTo(b))
    BY <2>1, <2>2, <2>3
  <2> QED
    BY <2>4 DEF Rank, UpTo
<1>3. CASE y < x
  <2>1. {w \in S \ {x} : w <= y} = UpTo(y)
    BY <1>3
  <2>2. Rank(S, y) = Rank(S \ {x}, y)
    BY <2>1 DEF Rank
  <2>3. ~(y > x)
    BY <1>3
  <2> QED
    BY <1>2, <1>3, <2>2, <2>3
<1>4. CASE y > x
  <2>1. UpTo(y) = {w \in S \ {x} : w <= y} \cup {x}
    BY <1>4
  <2>2. IsFiniteSet({w \in S \ {x} : w <= y})
    <3>1. {w \in S \ {x} : w <= y} \in SUBSET S
      OBVIOUS
    <3> QED
      BY <3>1, FS_Subset
  <2>3. Cardinality(UpTo(y)) = Cardinality({w \in S \ {x} : w <= y}) + 1
    <3>1. PICK T : T = {w \in S \ {x} : w <= y}
      OBVIOUS
    <3>2. x \notin T /\ IsFiniteSet(T)
      BY <2>2, <3>1
    <3>3. Cardinality(T \cup {x}) = Cardinality(T) + 1
      BY <3>2, FS_AddElement
    <3> QED
      BY <2>1, <3>1, <3>3
  <2>4. Rank(S, y) = Rank(S \ {x}, y) + 1
    BY <2>3 DEF Rank
  <2>5. ~(y < x)
    BY <1>4
  <2>6. Rank(S, x) < Rank(S, y)
    BY <1>2, <1>4
  <2>7. Rank(S, x) \in Nat /\ Rank(S, y) \in Nat
    BY <1>1 DEF Rank
  <2> QED
    BY <1>4, <2>4, <2>5, <2>6, <2>7
<1> QED
  BY <1>3, <1>4

LEMMA RanksExist ==
  ASSUME NEW S \in SUBSET Nat, IsFiniteSet(S)
  PROVE  HasRanks(S)
<1>1. PICK Bad : Bad = {T \in FiniteSubsetsOf(Nat) : ~HasRanks(T)}
  OBVIOUS
<1>2. SUFFICES ASSUME Bad # {} PROVE FALSE
  BY <1>1 DEF FiniteSubsetsOf
<1>3. PICK R : R = StrictSubsetOrdering(Nat)
  OBVIOUS
<1>4. IsWellFoundedOn(R, FiniteSubsetsOf(Nat))
  BY <1>3, FS_StrictSubsetOrderingWellFounded
<1>5. PICK T \in Bad : \A U \in Bad : <<U, T>> \notin R
  <2>1. Bad \subseteq FiniteSubsetsOf(Nat)
    BY <1>1
  <2> QED
    BY <1>2, <1>4, <2>1, WFMin
<1>6. T \in SUBSET Nat /\ IsFiniteSet(T) /\ ~HasRanks(T)
  BY <1>1 DEF FiniteSubsetsOf
<1>7. T # {}
  <2>1. Cardinality({}) = 0
    BY FS_EmptySet
  <2>2. HasRanks({})
    BY <2>1 DEF HasRanks
  <2> QED
    BY <1>6, <2>2
<1>8. PICK x \in T : TRUE
  BY <1>7
<1>9. PICK U : U = T \ {x}
  OBVIOUS
<1>10. U \in SUBSET Nat /\ IsFiniteSet(U) /\ U \subseteq T /\ U # T
  <2>1. IsFiniteSet(U)
    BY <1>6, <1>9, FS_RemoveElement
  <2> QED
    BY <1>6, <1>9, <2>1
<1>11. HasRanks(U)
  BY <1>1, <1>3, <1>5, <1>6, <1>10 DEF StrictSubsetOrdering, FiniteSubsetsOf
<1>12. /\ Cardinality(U) \in Nat /\ Cardinality(T) = Cardinality(U) + 1
       /\ Rank(T, x) \in 1..Cardinality(T)
  <2>1. Cardinality(U) \in Nat
    BY <1>10, FS_CardinalityType
  <2>2. Cardinality(U \cup {x}) = Cardinality(U) + 1
    BY <1>9, <1>10, FS_AddElement
  <2>3. U \cup {x} = T
    BY <1>9
  <2> QED
    BY <1>6, <2>1, <2>2, <2>3, RankBounds
<1>13. PICK i \in 1..Cardinality(T) : \A y \in T : Rank(T, y) # i
  BY <1>6 DEF HasRanks
<1>14. CASE i < Rank(T, x)
  <2>1. i \in 1..Cardinality(U)
    BY <1>12, <1>14
  <2>2. PICK y \in U : Rank(U, y) = i
    BY <1>11, <2>1 DEF HasRanks
  <2>3. y \in Nat /\ x \in Nat /\ y # x /\ y \in T
    BY <1>6, <1>9
  <2>4. CASE y < x
    BY <1>6, <1>9, <1>13, <2>2, <2>3, <2>4, RankWithout
  <2>5. CASE y > x
    <3>1. Rank(T, y) = i + 1 /\ Rank(T, y) > Rank(T, x)
      BY <1>6, <1>9, <2>2, <2>3, <2>5, RankWithout
    <3> QED
      BY <1>12, <1>14, <3>1
  <2> QED
    BY <2>3, <2>4, <2>5
<1>15. CASE i > Rank(T, x)
  <2>1. i - 1 \in 1..Cardinality(U)
    BY <1>12, <1>15
  <2>2. PICK y \in U : Rank(U, y) = i - 1
    BY <1>11, <2>1 DEF HasRanks
  <2>3. y \in Nat /\ x \in Nat /\ y # x /\ y \in T
    BY <1>6, <1>9
  <2>4. CASE y < x
    <3>1. Rank(T, y) = i - 1 /\ Rank(T, y) < Rank(T, x)
      BY <1>6, <1>9, <2>2, <2>3, <2>4, RankWithout
    <3> QED
      BY <1>12, <1>15, <3>1
  <2>5. CASE y > x
    <3>1. Rank(T, y) = (i - 1) + 1
      BY <1>6, <1>9, <2>2, <2>3, <2>5, RankWithout
    <3> QED
      BY <1>13, <2>3, <3>1
  <2> QED
    BY <2>3, <2>4, <2>5
<1>16. i # Rank(T, x) /\ i \in Int /\ Rank(T, x) \in Int
  BY <1>12, <1>13
<1> QED
  BY <1>14, <1>15, <1>16
-----------------------------------------------------------------------------
(* Lists of channels.                                                        *)

GoodLists == {cs \in Seq(Channels) : IsInjective(cs)}

LEMMA GoodListFacts ==
  ASSUME NEW cs \in GoodLists
  PROVE  /\ cs \in Seq(Channels) /\ Len(cs) \in Nat /\ DOMAIN cs = 1..Len(cs)
         /\ \A i \in 1..Len(cs) : cs[i] \in Channels
         /\ \A i, j \in 1..Len(cs) : cs[i] = cs[j] => i = j
<1>1. cs \in Seq(Channels) /\ IsInjective(cs)
  BY DEF GoodLists
<1>2. Len(cs) \in Nat /\ DOMAIN cs = 1..Len(cs)
  BY <1>1
<1> QED
  BY <1>1, <1>2 DEF IsInjective

LEMMA FiniteChannels == IsFiniteSet(Channels) /\ Cardinality(Channels) \in Nat
<1>1. IsFiniteSet(Channels)
  BY FiniteAssumption, FS_Union DEF Channels
<1> QED
  BY <1>1, FS_CardinalityType

LEMMA GoodListLength ==
  ASSUME NEW cs \in GoodLists
  PROVE  Len(cs) <= Cardinality(Channels)
<1>1. /\ Len(cs) \in Nat /\ DOMAIN cs = 1..Len(cs)
      /\ \A i \in 1..Len(cs) : cs[i] \in Channels
      /\ \A i, j \in 1..Len(cs) : cs[i] = cs[j] => i = j
      /\ cs \in Seq(Channels)
  BY GoodListFacts
<1>2. cs \in [1..Len(cs) -> Channels]
  BY <1>1
<1>3. cs \in Injection(1..Len(cs), Channels)
  BY <1>1, <1>2 DEF Injection, IsInjective
<1>4. Cardinality(1..Len(cs)) <= Cardinality(Channels)
  BY <1>3, FiniteChannels, FS_Injection
<1>5. Cardinality(1..Len(cs)) = Len(cs)
  <2>1. 1 \in Int /\ Len(cs) \in Int
    BY <1>1
  <2>2. Cardinality(1..Len(cs)) = IF 1 > Len(cs) THEN 0 ELSE Len(cs) - 1 + 1
    BY <2>1, FS_Interval
  <2> QED
    BY <1>1, <2>2
<1> QED
  BY <1>4, <1>5

LEMMA EmptyList == <<>> \in GoodLists
BY DEF GoodLists, IsInjective

LEMMA PlaceFacts ==
  ASSUME NEW cs \in GoodLists, NEW c \in ToSet(cs)
  PROVE  /\ Place(cs, c) \in 1..Len(cs) /\ cs[Place(cs, c)] = c
         /\ c \in Channels
<1>1. /\ DOMAIN cs = 1..Len(cs)
      /\ \A i \in 1..Len(cs) : cs[i] \in Channels
  BY GoodListFacts
<1>2. \E i \in 1..Len(cs) : cs[i] = c
  BY <1>1 DEF ToSet
<1> QED
  BY <1>1, <1>2 DEF Place

(* join_channel lists the channel and moves no other.                        *)
LEMMA WithChannelFacts ==
  ASSUME channels \in GoodLists, NEW c \in Channels
  PROVE  /\ WithChannel(c) \in GoodLists
         /\ Len(channels) <= Len(WithChannel(c))
         /\ \A i \in 1..Len(channels) : i \in 1..Len(WithChannel(c)) /\ WithChannel(c)[i] = channels[i]
         /\ c \in ToSet(WithChannel(c))
<1>1. /\ channels \in Seq(Channels)
      /\ Len(channels) \in Nat /\ DOMAIN channels = 1..Len(channels)
      /\ \A i, j \in 1..Len(channels) : channels[i] = channels[j] => i = j
  BY GoodListFacts
<1>2. CASE c \in ToSet(channels)
  BY <1>1, <1>2 DEF WithChannel
<1>3. CASE c \notin ToSet(channels)
  <2>1. PICK cs : cs = Append(channels, c)
    OBVIOUS
  <2>2. /\ cs \in Seq(Channels) /\ Len(cs) = Len(channels) + 1
        /\ DOMAIN cs = 1..Len(channels) + 1
        /\ cs[Len(channels) + 1] = c
        /\ \A i \in 1..Len(channels) : cs[i] = channels[i]
    BY <1>1, <2>1
  <2>3. \A i \in 1..Len(channels) : cs[i] # c
    BY <1>1, <1>3, <2>2 DEF ToSet
  <2>4. \A i \in 1..Len(cs) : i = Len(channels) + 1 \/ i \in 1..Len(channels)
    BY <1>1, <2>2
  <2>5. IsInjective(cs)
    BY <1>1, <2>2, <2>3, <2>4 DEF IsInjective
  <2>6. Len(channels) + 1 \in 1..Len(cs) /\ Len(channels) <= Len(cs)
        /\ \A i \in 1..Len(channels) : i \in 1..Len(cs)
    BY <1>1, <2>2
  <2>7. c \in ToSet(cs)
    BY <2>2, <2>6 DEF ToSet
  <2>8. WithChannel(c) = cs
    BY <1>3, <2>1 DEF WithChannel
  <2> QED
    BY <2>2, <2>5, <2>6, <2>7, <2>8 DEF GoodLists
<1> QED
  BY <1>2, <1>3

LEMMA WithoutIsGood ==
  ASSUME NEW cs \in GoodLists, NEW c
  PROVE  Without(cs, c) \in GoodLists
<1>1. CASE c \notin ToSet(cs)
  BY <1>1 DEF Without
<1>2. CASE c \in ToSet(cs)
  <2>1. PICK k \in 1..Len(cs) : k = Place(cs, c)
    BY <1>2, PlaceFacts
  <2>2. /\ cs \in Seq(Channels) /\ Len(cs) \in Nat /\ DOMAIN cs = 1..Len(cs)
        /\ \A i \in 1..Len(cs) : cs[i] \in Channels
        /\ \A i, j \in 1..Len(cs) : cs[i] = cs[j] => i = j
    BY GoodListFacts
  <2>3. PICK a, b : a = SubSeq(cs, 1, k - 1) /\ b = SubSeq(cs, k + 1, Len(cs))
    OBVIOUS
  <2>4. /\ a \in Seq(Channels) /\ Len(a) = k - 1
        /\ \A i \in 1..Len(a) : a[i] = cs[i]
    BY <2>1, <2>2, <2>3
  <2>5. /\ b \in Seq(Channels) /\ Len(b) = Len(cs) - k
        /\ \A i \in 1..Len(b) : b[i] = cs[k + i]
    <3>1. PICK m : m = k + 1 /\ m \in 1..Len(cs) + 1 /\ k \in Int
      BY <2>1, <2>2
    <3>2. b = SubSeq(cs, m, Len(cs))
      BY <2>3, <3>1
    <3>3. /\ Len(b) = IF m <= Len(cs) THEN Len(cs) - m + 1 ELSE 0
          /\ b = [i \in 1..(Len(cs) - m + 1) |-> cs[i + m - 1]]
      BY <2>2, <3>1, <3>2
    <3>4. Len(b) = Len(cs) - k /\ Len(cs) - m + 1 = Len(cs) - k /\ Len(cs) - k \in Nat
      BY <2>1, <2>2, <3>1, <3>3
    <3>5. \A i \in 1..Len(cs) - k : i + m - 1 = k + i /\ k + i \in 1..Len(cs)
      BY <2>1, <2>2, <3>1
    <3>6. \A i \in 1..Len(cs) - k : b[i] = cs[k + i] /\ b[i] \in Channels
      BY <2>2, <3>3, <3>4, <3>5
    <3>7. b \in [1..Len(cs) - k -> Channels]
      BY <3>3, <3>4, <3>6
    <3>8. b \in Seq(Channels)
      BY <3>4, <3>7
    <3> QED
      BY <3>4, <3>6, <3>8
  <2>6. PICK s : s = a \o b
    OBVIOUS
  <2>7. s \in Seq(Channels) /\ Len(s) = Len(a) + Len(b)
    <3>1. a \in Seq(Channels) /\ b \in Seq(Channels)
      BY <2>4, <2>5
    <3> QED
      BY <2>6, <3>1
  <2>8. \A i \in 1..Len(s) : s[i] = IF i <= Len(a) THEN a[i] ELSE b[i - Len(a)]
    BY <2>4, <2>5, <2>6, <2>7
  <2>9. \A i \in 1..Len(s) : LET at == IF i < k THEN i ELSE i + 1
                             IN  at \in 1..Len(cs) /\ s[i] = cs[at]
    <3> SUFFICES ASSUME NEW i \in 1..Len(s)
                 PROVE  LET at == IF i < k THEN i ELSE i + 1
                        IN  at \in 1..Len(cs) /\ s[i] = cs[at]
      OBVIOUS
    <3>1. i \in Int /\ Len(s) = Len(cs) - 1 /\ k \in Int
      BY <2>1, <2>2, <2>4, <2>5, <2>7
    <3>2. CASE i < k
      <4>1. i <= Len(a) /\ i \in 1..Len(a) /\ i \in 1..Len(cs)
        BY <2>1, <2>2, <2>4, <3>1, <3>2
      <4> QED
        BY <2>4, <2>8, <3>2, <4>1
    <3>3. CASE ~(i < k)
      <4>1. /\ ~(i <= Len(a)) /\ i - Len(a) \in 1..Len(b) /\ i + 1 \in 1..Len(cs)
            /\ k + (i - Len(a)) = i + 1
        BY <2>1, <2>2, <2>4, <2>5, <3>1, <3>3
      <4> QED
        BY <2>5, <2>8, <3>3, <4>1
    <3> QED
      BY <3>2, <3>3
  <2>10. IsInjective(s)
    <3> SUFFICES ASSUME NEW i \in 1..Len(s), NEW j \in 1..Len(s), s[i] = s[j] PROVE i = j
      BY <2>7 DEF IsInjective
    <3>1. PICK x, y : /\ x = (IF i < k THEN i ELSE i + 1) /\ y = (IF j < k THEN j ELSE j + 1)
                      /\ x \in 1..Len(cs) /\ y \in 1..Len(cs) /\ s[i] = cs[x] /\ s[j] = cs[y]
      BY <2>9
    <3>2. x = y
      BY <2>2, <3>1
    <3> QED
      BY <2>1, <3>1, <3>2
  <2>11. Without(cs, c) = s
    BY <1>2, <2>1, <2>3, <2>6 DEF Without, RemoveAt
  <2> QED
    BY <2>7, <2>10, <2>11 DEF GoodLists
<1> QED
  BY <1>1, <1>2

(* The channels of the state file, in some order.                            *)
LEMMA SavedListIsGood ==
  ASSUME NEW file \in SUBSET Channels
  PROVE  SetToSeq(file) \in GoodLists
<1>1. IsFiniteSet(file)
  BY FiniteChannels, FS_Subset
<1>2. PICK n : n = Cardinality(file)
  OBVIOUS
<1>3. n \in Nat /\ ExistsBijection(1..n, file)
  BY <1>1, <1>2, FS_CardinalityType
<1>4. \E f \in [1..n -> file] : IsInjective(f)
  BY <1>3 DEF ExistsBijection, Bijection, Injection
<1>5. PICK s : s = SetToSeq(file)
  OBVIOUS
<1>6. s \in [1..n -> file] /\ IsInjective(s)
  BY <1>2, <1>4, <1>5 DEF SetToSeq
<1>7. s \in Seq(Channels)
  <2>1. s \in [1..n -> Channels]
    BY <1>6
  <2> QED
    BY <1>3, <2>1
<1> QED
  BY <1>5, <1>6, <1>7 DEF GoodLists
-----------------------------------------------------------------------------
(* Conversations are told apart by their kind.                               *)

LEMMA Kinds ==
  /\ IsKind(Public, "public")
  /\ \A c : IsKind(Channel(c), "channel") /\ Channel(c)[2] = c
  /\ \A n : IsKind(Thread(n), "thread") /\ Thread(n)[2] = n
  /\ \A n, p : IsKind(Dm(n, p), "dm") /\ Dm(n, p)[2] = n
  /\ \A c, k : IsKind(GeoDm(c, k), "geo_dm") /\ GeoDm(c, k)[2] = c
BY DEF IsKind, Public, Channel, Thread, Dm, GeoDm

LEMMA OneKind ==
  ASSUME NEW conv, NEW a, NEW b, IsKind(conv, a), IsKind(conv, b)
  PROVE  a = b
BY DEF IsKind

LEMMA ShowsKinds ==
  ASSUME NEW conv \in Shows
  PROVE  /\ IsKind(conv, "public") => conv = Public
         /\ IsKind(conv, "channel") => conv[2] \in Channels /\ conv = Channel(conv[2])
         /\ IsKind(conv, "thread") => conv[2] \in Names /\ conv = Thread(conv[2])
         /\ IsKind(conv, "geo_dm") => conv[2] \in GeoChannels
<1>1. CASE conv = Public
  BY <1>1, Kinds, OneKind
<1>2. ASSUME NEW c \in Channels, conv = Channel(c) 
      PROVE  IsKind(conv, "channel") /\ conv[2] = c
  BY <1>2, Kinds
<1>3. ASSUME NEW n \in Names, conv = Thread(n) 
      PROVE  IsKind(conv, "thread") /\ conv[2] = n
  BY <1>3, Kinds
<1>4. ASSUME NEW c \in GeoChannels, NEW k \in GeoPeople, conv = GeoDm(c, k) 
      PROVE  IsKind(conv, "geo_dm") /\ conv[2] = c
  BY <1>4, Kinds
<1>5. \/ conv = Public \/ \E c \in Channels : conv = Channel(c)
      \/ \E n \in Names : conv = Thread(n)
      \/ \E c \in GeoChannels, k \in GeoPeople : conv = GeoDm(c, k)
  BY DEF Shows
<1>6. \A a, b : IsKind(conv, a) /\ IsKind(conv, b) => a = b
  BY OneKind
<1> QED
  BY <1>1, <1>2, <1>3, <1>4, <1>5, <1>6

LEMMA InShows ==
  /\ Public \in Shows
  /\ \A c \in Channels : Channel(c) \in Shows
  /\ \A n \in Names : Thread(n) \in Shows
  /\ \A c \in GeoChannels, k \in GeoPeople : GeoDm(c, k) \in Shows
BY DEF Shows

LEMMA InModes ==
  /\ Public \in Modes
  /\ \A c \in Channels : Channel(c) \in Modes
  /\ \A n \in Names, p \in Peers : Dm(n, p) \in Modes /\ Dm(0 - n, p) \in Modes
<1>1. \A n \in Names : 0 - n \in {0 - m : m \in Names}
  OBVIOUS
<1> QED
  BY <1>1 DEF Modes

LEMMA ModesKinds ==
  ASSUME NEW conv \in Modes
  PROVE  /\ IsKind(conv, "channel") => conv[2] \in Channels
         /\ IsKind(conv, "dm") => conv[2] \in Names \cup {0 - m : m \in Names}
         /\ ~IsKind(conv, "geo_dm")
<1>1. \/ conv = Public \/ \E c \in Channels : conv = Channel(c)
      \/ \E n \in Names \cup {0 - m : m \in Names}, p \in Peers : conv = Dm(n, p)
  BY DEF Modes
<1>2. \A a, b : IsKind(conv, a) /\ IsKind(conv, b) => a = b
  BY OneKind
<1>3. CASE conv = Public
  BY <1>2, <1>3, Kinds
<1>4. ASSUME NEW c \in Channels, conv = Channel(c)
      PROVE  IsKind(conv, "channel") /\ conv[2] = c
  BY <1>4, Kinds
<1>5. ASSUME NEW n, NEW p, conv = Dm(n, p)
      PROVE  IsKind(conv, "dm") /\ conv[2] = n
  BY <1>5, Kinds
<1> QED
  BY <1>1, <1>2, <1>3, <1>4, <1>5

LEMMA Names_ ==
  /\ \A c \in Channels : c # None
  /\ None \notin GeoChannels /\ MeshChannels \subseteq Channels /\ GeoChannels \subseteq Channels
  /\ \A conv \in Shows : conv # None
  /\ Names \in SUBSET Nat /\ GeoPeople \in SUBSET Nat
BY ChannelsAssumption, NoneAssumption, NamesAssumption DEF Channels

-----------------------------------------------------------------------------
(* The invariant.  GoesWhereOpened compares two of the places that say where *)
(* the user is.  To show that no step separates them one has to know what    *)
(* the other two say meanwhile: a DM of a geohash channel is open only while *)
(* the channel is selected, a person of it is selected only if the DM is     *)
(* open, and a switch that is not settled yet leads to what was opened.      *)

PeopleOK ==
    /\ peers \in [Peers -> Names \cup {None}]
    /\ lines \in Seq([name : Names, peer : Peers]) /\ Len(lines) <= MaxLines
    /\ DOMAIN people \subseteq Names /\ \A n \in DOMAIN people : people[n] \in Peers
    /\ geo_people \in [GeoChannels -> SUBSET GeoPeople]

ListsOK ==
    /\ channels \in GoodLists
    /\ active_channels \subseteq Channels /\ protected \subseteq GeoChannels
    /\ saved \subseteq Channels /\ loaded \subseteq Channels

SelOK ==
    /\ sel \in [public : BOOLEAN, channel : Nat, person : Nat]
    /\ SelectionExists

ConvOK ==
    /\ current_conv \in Shows /\ opened \in Shows /\ mode \in Modes
    /\ other_entry \in BOOLEAN
    /\ IsKind(current_conv, "geo_dm") =>
          Selected \in GeoChannels /\ Selected = current_conv[2] /\ sel.person # 0
    /\ Selected \in GeoChannels /\ sel.person # 0 => IsKind(current_conv, "geo_dm")

(* Destination, while the mode follows the selection.                        *)
Target ==
    CASE IsKind(current_conv, "geo_dm") -> current_conv
      [] Selected \in GeoChannels /\ ~IsKind(current_conv, "geo_dm") -> Channel(Selected)
      [] OTHER -> mode

Arrives ==
    \/ SameConversation(Target, opened)
    \/ other_entry /\ SameGeoChannel(Target, opened)

SwitchOK ==
    /\ pending = None \/ (pending \in Shows /\ ~IsKind(pending, "geo_dm"))
    /\ pending = None => Arrives
    /\ pending = None /\ Selected \in GeoChannels => mode = Channel(Selected)
    /\ pending # None => ~IsKind(current_conv, "geo_dm")
    /\ pending = Public => opened = Public /\ Selected \notin GeoChannels
    /\ \A c \in Channels : pending = Channel(c) =>
          /\ opened = Channel(c) /\ c \notin left
          /\ IF c \in GeoChannels THEN Selected = c ELSE Selected \notin GeoChannels
    /\ \A n \in Names : pending = Thread(n) =>
          Selected \notin GeoChannels /\ SameConversation(mode, opened)

LeftKept ==
    /\ left \subseteq GeoChannels /\ named \subseteq left
    /\ LeftStaysLeft

LeftOK == LeftKept /\ Selected \notin left

IInv == PeopleOK /\ ListsOK /\ SelOK /\ ConvOK /\ SwitchOK /\ LeftOK

LEMMA VisibleFinite ==
  ASSUME PeopleOK
  PROVE  /\ VisiblePeople \in SUBSET Nat /\ IsFiniteSet(VisiblePeople)
         /\ Cardinality(VisiblePeople) \in Nat
         /\ VisiblePeople \subseteq Names \cup GeoPeople
         /\ DOMAIN people \in SUBSET Nat /\ IsFiniteSet(DOMAIN people)
         /\ \A c \in GeoChannels : geo_people[c] \in SUBSET Nat /\ IsFiniteSet(geo_people[c])
<1>1. DOMAIN people \in SUBSET Nat /\ DOMAIN people \subseteq Names
  BY Names_ DEF PeopleOK
<1>2. IsFiniteSet(DOMAIN people)
  BY <1>1, FiniteAssumption, FS_Subset
<1>3. ASSUME NEW c \in GeoChannels
      PROVE  /\ geo_people[c] \in SUBSET Nat /\ geo_people[c] \subseteq GeoPeople
             /\ IsFiniteSet(geo_people[c])
  <2>1. geo_people[c] \in SUBSET GeoPeople
    BY DEF PeopleOK
  <2>2. IsFiniteSet(geo_people[c])
    BY <2>1, FiniteAssumption, FS_Subset
  <2> QED
    BY <2>1, <2>2, Names_
<1>4. /\ VisiblePeople \in SUBSET Nat /\ IsFiniteSet(VisiblePeople)
      /\ VisiblePeople \subseteq Names \cup GeoPeople
  BY <1>1, <1>2, <1>3 DEF VisiblePeople
<1> QED
  BY <1>1, <1>2, <1>3, <1>4, FS_CardinalityType

LEMMA VisibleFiniteNext ==
  ASSUME PeopleOK'
  PROVE  /\ IsFiniteSet(VisiblePeople') /\ Cardinality(VisiblePeople') \in Nat
         /\ IsFiniteSet(DOMAIN people')
         /\ \A c \in GeoChannels : IsFiniteSet(geo_people'[c])
<1>1. DOMAIN people' \in SUBSET Names
  BY DEF PeopleOK
<1>2. IsFiniteSet(DOMAIN people')
  BY <1>1, FiniteAssumption, FS_Subset
<1>3. ASSUME NEW c \in GeoChannels PROVE IsFiniteSet(geo_people'[c])
  <2>1. geo_people'[c] \in SUBSET GeoPeople
    BY DEF PeopleOK
  <2> QED
    BY <2>1, FiniteAssumption, FS_Subset
<1>4. IsFiniteSet(VisiblePeople')
  BY <1>2, <1>3 DEF VisiblePeople
<1> QED
  BY <1>2, <1>3, <1>4, FS_CardinalityType

LEMMA InvImpliesTypeOK == IInv => TypeOK
<1> SUFFICES ASSUME IInv PROVE TypeOK
  OBVIOUS
<1>1. channels \in Seq(Channels) /\ IsInjective(channels)
  BY DEF IInv, ListsOK, GoodLists
<1>2. sel.channel \in 0..Cardinality(Channels)
  <2>1. Len(channels) <= Cardinality(Channels) /\ Len(channels) \in Nat
    BY <1>1, GoodListLength DEF IInv, ListsOK
  <2> QED
    BY <2>1, FiniteChannels DEF IInv, SelOK, SelectionExists
<1>3. sel.person \in 0..Cardinality(Names \cup GeoPeople)
  <2>1. /\ VisiblePeople \in SUBSET (Names \cup GeoPeople)
        /\ Cardinality(VisiblePeople) \in Nat
    BY VisibleFinite DEF IInv
  <2>2. IsFiniteSet(Names \cup GeoPeople)
    BY FiniteAssumption, FS_Union
  <2>3. /\ Cardinality(Names \cup GeoPeople) \in Nat
        /\ Cardinality(VisiblePeople) <= Cardinality(Names \cup GeoPeople)
    BY <2>1, <2>2, FS_CardinalityType, FS_Subset
  <2> QED
    BY <2>1, <2>3 DEF IInv, SelOK, SelectionExists
<1>4. sel \in [public : BOOLEAN, channel : 0..Cardinality(Channels),
               person : 0..Cardinality(Names \cup GeoPeople)]
  BY <1>2, <1>3 DEF IInv, SelOK
<1> QED
  BY <1>1, <1>4 DEF IInv, PeopleOK, ListsOK, ConvOK, SwitchOK, LeftOK, LeftKept, TypeOK

-----------------------------------------------------------------------------
(* What the moves of the interface do.                                       *)

SelType == [public : BOOLEAN, channel : Nat, person : Nat]

LEMMA Selections ==
  /\ NoSelection \in SelType /\ PublicSelected \in SelType
  /\ \A i \in Nat : [NoSelection EXCEPT !.channel = i] \in SelType
  /\ \A i \in Nat : [NoSelection EXCEPT !.person = i] \in SelType
<1>1. NoSelection \in SelType
  BY DEF NoSelection, SelType
<1> QED
  BY <1>1 DEF PublicSelected, SelType

LEMMA PublicShown ==
  ASSUME NEW cs, NEW ps, NEW gs
  PROVE  /\ SelectedOf(PublicSelected, cs) = None
         /\ ConversationOf(PublicSelected, cs, ps, gs) = Public
<1>1. PublicSelected.public /\ PublicSelected.person = 0
  BY DEF PublicSelected, NoSelection
<1>2. SelectedOf(PublicSelected, cs) = None
  BY <1>1 DEF SelectedOf
<1> QED
  BY <1>1, <1>2, Names_ DEF ConversationOf

LEMMA ChannelShown ==
  ASSUME NEW cs \in GoodLists, NEW c \in ToSet(cs), NEW ps, NEW gs,
         NEW s, s = [NoSelection EXCEPT !.channel = Place(cs, c)]
  PROVE  /\ s \in SelType /\ s.person = 0 /\ s.channel <= Len(cs)
         /\ SelectedOf(s, cs) = c
         /\ ConversationOf(s, cs, ps, gs) = Channel(c)
<1>1. Place(cs, c) \in 1..Len(cs) /\ Len(cs) \in Nat /\ cs[Place(cs, c)] = c
  BY PlaceFacts, GoodListFacts
<1>2. s.person = 0 /\ s.channel = Place(cs, c) /\ ~s.public
  BY DEF NoSelection
<1>3. s \in SelType
  <2>1. Place(cs, c) \in Nat
    BY <1>1
  <2> QED
    BY <2>1, Selections
<1>4. SelectedOf(s, cs) = c
  BY <1>1, <1>2 DEF SelectedOf
<1>5. c # None
  BY PlaceFacts, Names_
<1>6. ConversationOf(s, cs, ps, gs) = Channel(c)
  BY <1>2, <1>4, <1>5 DEF ConversationOf
<1> QED
  BY <1>1, <1>2, <1>3, <1>4, <1>6

(* switch_to_dm: it may deselect the channel and nothing else.               *)
LEMMA DmMove ==
  ASSUME PeopleOK, SelOK, Selected \notin GeoChannels, NEW n, ToDm(n)
  PROVE  /\ sel' \in SelType /\ sel'.channel = 0 /\ ~sel'.public
         /\ sel'.person <= Cardinality(DOMAIN people)
         /\ \/ /\ \E x \in DOMAIN people : current_conv' = Thread(x)
               /\ n \in DOMAIN people /\ pending' = Thread(n)
            \/ /\ current_conv' = current_conv
               /\ pending' = pending
<1>1. CASE n \in DOMAIN people
  <2>1. PICK r : r = Rank(DOMAIN people, n)
    OBVIOUS
  <2>2. PICK s : s = [NoSelection EXCEPT !.person = r]
    OBVIOUS
  <2>3. /\ sel' = s /\ pending' = Thread(n)
        /\ current_conv' = ConversationOf(s, channels, people, geo_people)
    BY <1>1, <2>1, <2>2 DEF ToDm, Select
  <2>4. r \in 1..Cardinality(DOMAIN people) /\ Cardinality(DOMAIN people) \in Nat
    BY <1>1, <2>1, VisibleFinite, RankBounds
  <2>5. s \in SelType
    <3>1. r \in Nat
      BY <2>4
    <3> QED
      BY <2>2, <3>1, Selections
  <2>6. ~s.public /\ s.channel = 0 /\ s.person = r
    BY <2>2 DEF NoSelection
  <2>7. SelectedOf(s, channels) = None
    BY <2>6 DEF SelectedOf
  <2>8. AtRank(DOMAIN people, r) \in DOMAIN people
    BY <1>1, <2>1 DEF AtRank
  <2>9. ConversationOf(s, channels, people, geo_people) = Thread(AtRank(DOMAIN people, r))
    BY <2>4, <2>6, <2>7, Names_ DEF ConversationOf
  <2>10. r <= Cardinality(DOMAIN people)
    BY <2>4
  <2> QED
    BY <1>1, <2>3, <2>5, <2>6, <2>8, <2>9, <2>10
<1>2. CASE n \notin DOMAIN people
  <2>1. /\ sel' = [NoSelection EXCEPT !.person = sel.person]
        /\ current_conv' = current_conv /\ pending' = pending
    BY <1>2 DEF ToDm
  <2>2. sel.person \in Nat /\ sel.person <= Cardinality(DOMAIN people)
    BY DEF SelOK, SelectionExists, VisiblePeople
  <2>3. sel' \in SelType
    BY <2>1, <2>2, Selections
  <2>4. ~sel'.public /\ sel'.channel = 0 /\ sel'.person = sel.person
    BY <2>1 DEF NoSelection
  <2> QED
    BY <2>1, <2>2, <2>3, <2>4
<1> QED
  BY <1>1, <1>2

-----------------------------------------------------------------------------
(* Where a step can leave the user: where they were, at #public, in a        *)
(* channel, or in the mesh.                                                  *)

LEMMA AtPublic ==
  ASSUME PeopleOK', ListsOK', LeftKept',
         sel' = PublicSelected, current_conv' = Public, opened' = Public,
         mode' \in Modes, other_entry' \in BOOLEAN,
         pending' = Public \/ (pending' = None /\ mode' = Public)
  PROVE  IInv'
<1>1. Selected' = None
  BY PublicShown DEF Selected
<1>2. sel'.channel = 0 /\ sel'.person = 0
  BY DEF PublicSelected, NoSelection
<1>3. SelOK'
  <2>1. Len(channels') \in Nat
    BY GoodListFacts DEF ListsOK
  <2>2. Cardinality(VisiblePeople') \in Nat
    BY VisibleFiniteNext
  <2>3. sel' \in SelType
    BY Selections
  <2>4. sel'.channel <= Len(channels') /\ sel'.person <= Cardinality(VisiblePeople')
    BY <1>2, <2>1, <2>2
  <2> QED
    BY <2>3, <2>4 DEF SelOK, SelectionExists, SelType
<1>4. ~IsKind(current_conv', "geo_dm") /\ ~IsKind(opened', "thread")
  BY Kinds, OneKind
<1>5. ConvOK'
  BY <1>2, <1>4, InShows DEF ConvOK
<1>6. SwitchOK'
  <2>1. pending' = None => Arrives'
    BY <1>1, <1>4, Names_, InShows DEF Target, SameConversation, Arrives
  <2>2. \A c : Channel(c) # Public /\ Thread(c) # Public
    BY Kinds, OneKind
  <2>3. Public # None /\ Public \in Shows /\ ~IsKind(Public, "geo_dm")
    BY Names_, InShows, Kinds, OneKind
  <2>4. (\A c \in Channels : c # None /\ Channel(c) # None) /\ \A n \in Names : Thread(n) # None
    BY Names_, InShows
  <2> QED
    BY <1>1, <1>4, <2>1, <2>2, <2>3, <2>4, Names_ DEF SwitchOK
<1>7. LeftOK'
  BY <1>1, Names_ DEF LeftOK, LeftKept
<1> QED
  BY <1>3, <1>5, <1>6, <1>7 DEF IInv
LEMMA AtChannel ==
  ASSUME PeopleOK', ListsOK', LeftKept',
         NEW c, c \in ToSet(channels'), c \notin left',
         sel' = [NoSelection EXCEPT !.channel = Place(channels', c)],
         current_conv' = Channel(c), opened' = Channel(c),
         mode' \in Modes, other_entry' \in BOOLEAN, pending' = Channel(c)
  PROVE  IInv'
<1>1. /\ Selected' = c
      /\ sel' \in SelType /\ sel'.person = 0 /\ sel'.channel <= Len(channels')
  <2>1. channels' \in GoodLists
    BY DEF ListsOK
  <2> QED
    BY <2>1, ChannelShown DEF Selected
<1>2. c \in Channels
  <2>1. channels' \in GoodLists
    BY DEF ListsOK
  <2> QED
    BY <2>1, PlaceFacts
<1>3. SelOK'
  <2>1. Cardinality(VisiblePeople') \in Nat
    BY VisibleFiniteNext
  <2> QED
    BY <1>1, <2>1 DEF SelOK, SelectionExists, SelType
<1>4. ~IsKind(current_conv', "geo_dm")
  BY Kinds, OneKind
<1>5. ConvOK'
  BY <1>1, <1>2, <1>4, InShows DEF ConvOK
<1>6. SwitchOK'
  <2>1. Channel(c) # Public /\ \A n \in Names : Channel(c) # Thread(n)
    BY Kinds, OneKind
  <2>2. Channel(c) # None /\ Channel(c) \in Shows /\ ~IsKind(Channel(c), "geo_dm")
    BY <1>2, Names_, InShows, Kinds, OneKind
  <2>3. \A d : Channel(c) = Channel(d) => c = d
    BY Kinds
  <2> QED
    BY <1>1, <1>4, <2>1, <2>2, <2>3 DEF SwitchOK
<1>7. LeftOK'
  BY <1>1 DEF LeftOK
<1> QED
  BY <1>3, <1>5, <1>6, <1>7 DEF IInv

LEMMA InMesh ==
  ASSUME PeopleOK', ListsOK', LeftKept',
         sel' \in SelType, sel'.channel = 0,
         sel'.person <= Cardinality(DOMAIN people'),
         current_conv' \in Shows, ~IsKind(current_conv', "geo_dm"),
         opened' \in Shows, mode' \in Modes, other_entry' \in BOOLEAN,
         SameConversation(mode', opened'),
         \/ pending' = None
         \/ \E n \in Names : pending' = Thread(n)
  PROVE  IInv'
<1>1. Selected' = None
  <2>1. SelectedOf(sel', channels') = None
    BY DEF SelectedOf
  <2> QED
    BY <2>1 DEF Selected
<1>2. SelOK'
  <2>1. VisiblePeople' = DOMAIN people'
    BY <1>1, Names_ DEF VisiblePeople
  <2>2. Len(channels') \in Nat
    BY GoodListFacts DEF ListsOK
  <2> QED
    BY <2>1, <2>2 DEF SelOK, SelectionExists, SelType
<1>3. ConvOK'
  BY <1>1, Names_ DEF ConvOK
<1>4. Target' = mode'
  BY <1>1, Names_ DEF Target
<1>5. SwitchOK'
  <2>1. CASE pending' = None
    <3>1. None # Public /\ \A c \in Channels : None # Channel(c)
      BY Names_, InShows
    <3>2. \A n \in Names : None # Thread(n)
      BY Names_, InShows
    <3> QED
      BY <1>1, <1>4, <2>1, <3>1, <3>2, Names_ DEF SwitchOK, Arrives
  <2>2. ASSUME NEW n \in Names, pending' = Thread(n) PROVE SwitchOK'
    <3>1. Thread(n) # Public /\ \A c \in Channels : Thread(n) # Channel(c)
      BY Kinds, OneKind
    <3>2. Thread(n) # None /\ Thread(n) \in Shows /\ ~IsKind(Thread(n), "geo_dm")
      BY Names_, InShows, Kinds, OneKind
    <3> QED
      BY <1>1, <2>2, <3>1, <3>2, Names_ DEF SwitchOK
  <2> QED
    BY <2>1, <2>2
<1>6. LeftOK'
  BY <1>1, Names_ DEF LeftOK, LeftKept
<1> QED
  BY <1>2, <1>3, <1>5, <1>6 DEF IInv

(* Steps that touch neither selection nor conversation, while lists grow.    *)
LEMMA StaysPut ==
  ASSUME IInv, PeopleOK', ListsOK', LeftKept',
         UNCHANGED <<sel, current_conv, mode, pending, opened, other_entry, left>>,
         Len(channels) <= Len(channels'),
         \A i \in 1..Len(channels) : i \in 1..Len(channels') /\ channels'[i] = channels[i],
         DOMAIN people \subseteq DOMAIN people',
         \A c \in GeoChannels : geo_people[c] \subseteq geo_people'[c]
  PROVE  IInv'
<1>1. Selected' = Selected
  <2>1. /\ Len(channels) \in Nat /\ Len(channels') \in Nat
        /\ sel.channel <= Len(channels) /\ sel.channel \in Nat
    BY GoodListFacts DEF IInv, ListsOK, SelOK, SelectionExists
  <2>2. sel.channel \in 1..Len(channels) <=> sel.channel \in 1..Len(channels')
    BY <2>1
  <2>3. SelectedOf(sel, channels') = SelectedOf(sel, channels)
    BY <2>2 DEF SelectedOf
  <2> QED
    BY <2>3 DEF Selected
<1>2. SelOK'
  <2>1. VisiblePeople \in SUBSET (VisiblePeople')
    BY <1>1 DEF VisiblePeople
  <2>2. IsFiniteSet(VisiblePeople') /\ Cardinality(VisiblePeople') \in Nat
    BY VisibleFiniteNext
  <2>3. Cardinality(VisiblePeople) <= Cardinality(VisiblePeople')
    BY <2>1, <2>2, FS_Subset
  <2>4. Cardinality(VisiblePeople) \in Nat
    BY VisibleFinite DEF IInv
  <2>5. Len(channels) \in Nat /\ Len(channels') \in Nat
    BY GoodListFacts DEF IInv, ListsOK
  <2>6. /\ sel \in SelType /\ sel.channel \in Nat /\ sel.person \in Nat
        /\ sel.channel <= Len(channels) /\ sel.person <= Cardinality(VisiblePeople)
    BY DEF IInv, SelOK, SelectionExists, SelType
  <2>7. sel.channel <= Len(channels')
    BY <2>5, <2>6
  <2>8. sel.person <= Cardinality(VisiblePeople')
    BY <2>2, <2>3, <2>4, <2>6
  <2> QED
    BY <2>6, <2>7, <2>8 DEF SelOK, SelectionExists, SelType
<1>3. ConvOK'
  BY <1>1 DEF IInv, ConvOK
<1>4. SwitchOK'
  <2>1. Arrives' <=> Arrives
    BY <1>1 DEF Target, Arrives
  <2> QED
    BY <1>1, <2>1 DEF IInv, SwitchOK
<1>5. LeftOK'
  BY <1>1 DEF IInv, LeftOK
<1> QED
  BY <1>2, <1>3, <1>4, <1>5 DEF IInv
-----------------------------------------------------------------------------
(* Every action preserves the invariant.                                     *)

LEMMA PeopleStay ==
  ASSUME PeopleOK, UNCHANGED peopleVars
  PROVE  PeopleOK'
BY DEF PeopleOK, peopleVars

LEMMA ListsStay ==
  ASSUME UNCHANGED channels
  PROVE  /\ channels \in GoodLists =>
              /\ Len(channels) <= Len(channels')
              /\ \A i \in 1..Len(channels) : i \in 1..Len(channels') /\ channels'[i] = channels[i]
<1> SUFFICES ASSUME channels \in GoodLists PROVE Len(channels) <= Len(channels)
  OBVIOUS
<1>1. Len(channels) \in Nat
  BY GoodListFacts
<1> QED
  BY <1>1

LEMMA InitIInv == Init => IInv
<1> SUFFICES ASSUME Init PROVE IInv
  OBVIOUS
<1>1. DOMAIN people = {} /\ lines = <<>> /\ Len(lines) = 0
  BY DEF Init
<1>2. PeopleOK
  BY <1>1, MaxLinesAssumption DEF PeopleOK, Init
<1>3. ListsOK
  BY EmptyList DEF ListsOK, Init
<1>4. Selected = None
  BY PublicShown DEF Init, Selected
<1>5. SelOK
  <2>1. sel.channel = 0 /\ sel.person = 0 /\ sel \in SelType
    BY Selections DEF Init, PublicSelected, NoSelection
  <2>2. Cardinality(VisiblePeople) \in Nat
    BY <1>2, VisibleFinite
  <2>3. Len(channels) = 0
    BY DEF Init
  <2> QED
    BY <2>1, <2>2, <2>3 DEF SelOK, SelectionExists, SelType
<1>6. ~IsKind(current_conv, "geo_dm") /\ ~IsKind(opened, "thread")
  BY Kinds, OneKind DEF Init
<1>7. ConvOK
  BY <1>4, <1>6, Names_, InShows, InModes DEF ConvOK, Init
<1>8. SwitchOK
  <2>1. Target = mode
    BY <1>4, <1>6, Names_ DEF Target
  <2>2. SameConversation(Target, opened)
    BY <1>6, <2>1 DEF SameConversation, Init
  <2>3. /\ None # Public /\ \A c \in Channels : None # Channel(c)
        /\ \A n \in Names : None # Thread(n)
    BY Names_, InShows
  <2> QED
    BY <1>4, <2>2, <2>3, Names_ DEF SwitchOK, Arrives, Init
<1>9. LeftOK
  BY DEF LeftOK, LeftKept, LeftStaysLeft, Init
<1> QED
  BY <1>2, <1>3, <1>5, <1>7, <1>8, <1>9 DEF IInv

(* A restart forgets all but the file.                                       *)
LEMMA StartsKeeps ==
  ASSUME IInv, NEW file \in SUBSET Channels, StartsWith(file)
  PROVE  IInv'
<1>1. PeopleOK'
  <2>1. /\ peers' = [p \in Peers |-> None] /\ lines' = <<>> /\ DOMAIN people' = {}
        /\ geo_people' = [c \in GeoChannels |-> {}] /\ Len(lines') = 0
    BY DEF StartsWith
  <2> QED
    BY <2>1, MaxLinesAssumption DEF PeopleOK
<1>2. ListsOK'
  BY SavedListIsGood DEF StartsWith, ListsOK
<1>3. LeftKept'
  BY DEF StartsWith, LeftKept, LeftStaysLeft, IInv, LeftOK
<1>4. /\ sel' = PublicSelected /\ current_conv' = Public /\ opened' = Public
      /\ mode' = Public /\ pending' = None /\ other_entry' \in BOOLEAN
  BY DEF StartsWith, OpensOnly
<1> QED
  BY <1>1, <1>2, <1>3, <1>4, AtPublic, InModes

LEMMA CrashKeeps == ASSUME IInv, Crash PROVE IInv'
BY StartsKeeps DEF Crash, IInv, ListsOK

LEMMA ExitKeeps == ASSUME IInv, Exit PROVE IInv'
BY StartsKeeps DEF Exit, IInv, ListsOK

LEMMA AnnounceKeeps ==
  ASSUME IInv, NEW p \in Peers, NEW n \in Names, Announce(p, n)
  PROVE  IInv'
<1>1. /\ UNCHANGED <<people, geo_people, channels, sel, current_conv>>
      /\ UNCHANGED <<mode, active_channels, pending, opened, other_entry, left, named>>
      /\ UNCHANGED <<protected, saved, loaded>>
  BY DEF Announce, uiVars, ctxVars, fileVars, histVars, openVars, leftVars
<1>2. PeopleOK'
  <2>1. peers' \in [Peers -> Names \cup {None}]
    BY DEF Announce, IInv, PeopleOK
  <2>2. lines' \in Seq([name : Names, peer : Peers]) /\ Len(lines') <= MaxLines
    <3>1. /\ lines \in Seq([name : Names, peer : Peers]) /\ Len(lines) < MaxLines
          /\ Len(lines) \in Nat /\ MaxLines \in Nat
      BY MaxLinesAssumption DEF Announce, IInv, PeopleOK
    <3>2. PICK line : line = [name |-> n, peer |-> p]
      OBVIOUS
    <3>3. lines' = lines \/ lines' = Append(lines, line)
      BY <3>2 DEF Announce
    <3>4. line \in [name : Names, peer : Peers]
      BY <3>2
    <3>5. /\ Append(lines, line) \in Seq([name : Names, peer : Peers])
          /\ Len(Append(lines, line)) = Len(lines) + 1
      BY <3>1, <3>4
    <3>6. Len(Append(lines, line)) <= MaxLines /\ Len(lines) <= MaxLines
      BY <3>1, <3>5
    <3>7. CASE lines' = lines
      BY <3>1, <3>6, <3>7
    <3>8. CASE lines' = Append(lines, line)
      BY <3>5, <3>6, <3>8
    <3> QED
      BY <3>3, <3>7, <3>8
  <2> QED
    BY <1>1, <2>1, <2>2 DEF IInv, PeopleOK
<1>3. ListsOK' /\ LeftKept'
  BY <1>1 DEF IInv, ListsOK, LeftOK, LeftKept, LeftStaysLeft
<1> QED
  BY <1>1, <1>2, <1>3, ListsStay, StaysPut DEF IInv, ListsOK

LEMMA LeaveKeeps ==
  ASSUME IInv, NEW p \in Peers, Leave(p)
  PROVE  IInv'
<1>1. /\ UNCHANGED <<lines, people, geo_people, channels, sel, current_conv>>
      /\ UNCHANGED <<mode, active_channels, pending, opened, other_entry, left, named>>
      /\ UNCHANGED <<protected, saved, loaded>>
  BY DEF Leave, uiVars, ctxVars, fileVars, histVars, openVars, leftVars
<1>2. PeopleOK'
  BY <1>1 DEF IInv, PeopleOK, Leave
<1>3. ListsOK' /\ LeftKept'
  BY <1>1 DEF IInv, ListsOK, LeftOK, LeftKept, LeftStaysLeft
<1> QED
  BY <1>1, <1>2, <1>3, ListsStay, StaysPut DEF IInv, ListsOK

LEMMA ReadLineKeeps == ASSUME IInv, ReadLine PROVE IInv'
<1>1. /\ UNCHANGED <<peers, geo_people, channels, sel, current_conv>>
      /\ UNCHANGED <<mode, active_channels, pending, opened, other_entry, left, named>>
      /\ protected' = protected /\ loaded' = loaded /\ saved' \in {loaded, saved}
  BY DEF ReadLine, SaveLoaded, uiVars, ctxVars, histVars, openVars, leftVars
<1>2. /\ lines \in Seq([name : Names, peer : Peers]) /\ Len(lines) <= MaxLines
      /\ lines # <<>> /\ lines' = Tail(lines) /\ MaxLines \in Nat
  BY MaxLinesAssumption DEF ReadLine, IInv, PeopleOK
<1>3. PICK line \in [name : Names, peer : Peers] : line = Head(lines)
  <2>1. Len(lines) \in Nat /\ Len(lines) # 0
    BY <1>2
  <2>2. lines[1] \in [name : Names, peer : Peers]
    <3>1. PICK L : L = [name : Names, peer : Peers]
      OBVIOUS
    <3>2. lines \in Seq(L) /\ 1 \in 1..Len(lines)
      BY <1>2, <2>1, <3>1
    <3>3. lines[1] \in L
      BY <3>2
    <3> QED
      BY <3>1, <3>3
  <2>3. Head(lines) = lines[1]
    BY <1>2
  <2> QED
    BY <2>2, <2>3
<1>4. lines' \in Seq([name : Names, peer : Peers]) /\ Len(lines') <= MaxLines
  <2>1. PICK L : L = [name : Names, peer : Peers]
    OBVIOUS
  <2>2. lines \in Seq(L) /\ lines # <<>>
    BY <1>2, <2>1
  <2>3. /\ Tail(lines) \in Seq(L) /\ Len(lines) \in Nat
        /\ Len(Tail(lines)) = Len(lines) - 1
    BY <2>2
  <2>4. Len(Tail(lines)) <= MaxLines
    BY <1>2, <2>3
  <2> QED
    BY <1>2, <2>1, <2>3, <2>4
<1>5. /\ people' = [n \in DOMAIN people \cup {line.name} |->
                      IF n = line.name THEN line.peer ELSE people[n]]
      /\ line.name \in Names /\ line.peer \in Peers
  BY <1>3 DEF ReadLine
<1>6. PeopleOK'
  BY <1>1, <1>4, <1>5 DEF IInv, PeopleOK
<1>7. DOMAIN people \subseteq DOMAIN people'
  BY <1>5
<1>8. ListsOK' /\ LeftKept'
  BY <1>1 DEF IInv, ListsOK, LeftOK, LeftKept, LeftStaysLeft
<1> QED
  BY <1>1, <1>6, <1>7, <1>8, ListsStay, StaysPut DEF IInv, ListsOK

LEMMA ReadGeoLineKeeps ==
  ASSUME IInv, NEW c \in GeoChannels, NEW k \in GeoPeople, ReadGeoLine(c, k)
  PROVE  IInv'
<1>1. /\ UNCHANGED <<peers, lines, people, sel, current_conv>>
      /\ UNCHANGED <<mode, active_channels, pending, opened, other_entry, left, named>>
      /\ UNCHANGED <<protected, saved, loaded>>
      /\ channels' = WithChannel(c)
      /\ geo_people' = [geo_people EXCEPT ![c] = @ \cup {k}]
  BY DEF ReadGeoLine, ctxVars, fileVars, histVars, openVars, leftVars
<1>2. /\ PeopleOK'
      /\ \A d \in GeoChannels : geo_people[d] \subseteq geo_people'[d]
  BY <1>1 DEF IInv, PeopleOK
<1>3. ListsOK' /\ LeftKept'
  BY <1>1, WithChannelFacts, Names_ DEF IInv, ListsOK, LeftOK, LeftKept, LeftStaysLeft
<1> QED
  BY <1>1, <1>2, <1>3, WithChannelFacts, Names_, StaysPut DEF IInv, ListsOK

(* A step of the mesh that names a channel.                                  *)
LEMMA NamedStaysPut ==
  ASSUME IInv, PeopleOK', ListsOK', NEW c, IsNamed(c),
         UNCHANGED <<sel, current_conv, mode, pending, loaded>>,
         active_channels' = active_channels \cup {c},
         saved' \subseteq saved \cup (active_channels' \ GeoChannels),
         Len(channels) <= Len(channels'),
         \A i \in 1..Len(channels) : i \in 1..Len(channels') /\ channels'[i] = channels[i],
         UNCHANGED <<people, geo_people>>
  PROVE  IInv'
<1>1. LeftKept' /\ left' = left /\ UNCHANGED <<opened, other_entry>>
  BY DEF IsNamed, openVars, IInv, LeftOK, LeftKept, LeftStaysLeft
<1> QED
  BY <1>1, StaysPut

LEMMA ChannelMessageKeeps ==
  ASSUME IInv, NEW c \in Channels, ChannelMessage(c)
  PROVE  IInv'
<1>1. /\ UNCHANGED <<peopleVars, people, geo_people, channels, sel, current_conv>>
      /\ UNCHANGED <<mode, pending, protected, saved, loaded>>
      /\ active_channels' = active_channels \cup {c} /\ IsNamed(c)
  BY DEF ChannelMessage, peopleVars, uiVars, fileVars
<1>2. ListsOK'
  BY <1>1 DEF IInv, ListsOK
<1>3. PeopleOK'
  BY <1>1, PeopleStay DEF IInv
<1> QED
  BY <1>1, <1>2, <1>3, ListsStay, NamedStaysPut DEF IInv, ListsOK

LEMMA ChannelAnnounceKeeps ==
  ASSUME IInv, NEW c \in Channels, ChannelAnnounce(c)
  PROVE  IInv'
<1>1. /\ UNCHANGED <<peopleVars, people, geo_people, sel, current_conv>>
      /\ UNCHANGED <<mode, pending, loaded>>
      /\ protected' \subseteq protected \cup GeoChannels
      /\ active_channels' = active_channels \cup {c} /\ IsNamed(c)
      /\ saved' \in {active_channels' \ GeoChannels, saved}
      /\ channels' = WithChannel(c)
  BY DEF ChannelAnnounce, peopleVars, Persist
<1>2. ListsOK'
  BY <1>1, WithChannelFacts DEF IInv, ListsOK
<1>3. PeopleOK'
  BY <1>1, PeopleStay DEF IInv
<1>4. saved' \subseteq saved \cup (active_channels' \ GeoChannels)
  BY <1>1
<1> QED
  BY <1>1, <1>2, <1>3, <1>4, WithChannelFacts, NamedStaysPut DEF IInv, ListsOK

LEMMA SelectPublicKeeps == ASSUME IInv, SelectPublic PROVE IInv'
<1>1. /\ sel' = PublicSelected /\ current_conv' = Public /\ pending' = Public
      /\ opened' = Public /\ other_entry' = FALSE /\ left' = left /\ named' = named
  BY PublicShown, Kinds, OneKind DEF SelectPublic, ToPublic, Select, Opens, OpensOnly
<1>2. UNCHANGED <<peopleVars, channels, mode, active_channels, protected, saved, loaded>>
  BY DEF SelectPublic, ctxVars, fileVars
<1>3. ListsOK' /\ LeftKept' /\ mode' \in Modes
  BY <1>1, <1>2 DEF IInv, ListsOK, ConvOK, LeftOK, LeftKept, LeftStaysLeft
<1> QED
  BY <1>1, <1>2, <1>3, PeopleStay, AtPublic DEF IInv

LEMMA CommandPublicKeeps == ASSUME IInv, CommandPublic PROVE IInv'
<1>1. /\ sel' = PublicSelected /\ current_conv' = Public /\ pending' = Public
      /\ opened' = Public /\ other_entry' = FALSE /\ left' = left /\ named' = named
  BY PublicShown, Kinds, OneKind DEF CommandPublic, ToPublic, Select, Opens, OpensOnly
<1>2. UNCHANGED <<peopleVars, channels, active_channels, protected, saved, loaded>> /\ mode' = Public
  BY DEF CommandPublic, fileVars
<1>3. ListsOK' /\ LeftKept'
  BY <1>1, <1>2 DEF IInv, ListsOK, LeftOK, LeftKept, LeftStaysLeft
<1> QED
  BY <1>1, <1>2, <1>3, PeopleStay, AtPublic, InModes DEF IInv

(* Opening a channel ends that it is left.                                   *)
LEMMA ChannelOpened ==
  ASSUME NEW c, NEW cs, c \in ToSet(cs), cs \in GoodLists,
         ToChannel(c, cs), Opens(Channel(c))
  PROVE  /\ sel' = [NoSelection EXCEPT !.channel = Place(cs, c)]
         /\ current_conv' = Channel(c) /\ pending' = Channel(c)
         /\ opened' = Channel(c) /\ other_entry' = FALSE
         /\ left' = left \ {c} /\ named' = named \ {c}
<1>1. sel' = [NoSelection EXCEPT !.channel = Place(cs, c)] /\ pending' = Channel(c)
  BY DEF ToChannel, Select
<1>2. current_conv' = Channel(c)
  BY ChannelShown DEF ToChannel, Select
<1>3. /\ opened' = Channel(c) /\ other_entry' = FALSE
      /\ left' = left \ {c} /\ named' = named \ {c}
  BY Kinds DEF Opens, OpensOnly
<1> QED
  BY <1>1, <1>2, <1>3

LEMMA SelectChannelKeeps ==
  ASSUME IInv, NEW c \in Channels, SelectChannel(c)
  PROVE  IInv'
<1>1. /\ UNCHANGED <<peopleVars, channels, mode, active_channels, protected, saved, loaded>>
      /\ c \in ToSet(channels)
  BY DEF SelectChannel, ctxVars, fileVars
<1>2. /\ sel' = [NoSelection EXCEPT !.channel = Place(channels, c)]
      /\ current_conv' = Channel(c) /\ pending' = Channel(c)
      /\ opened' = Channel(c) /\ other_entry' = FALSE
      /\ left' = left \ {c} /\ named' = named \ {c}
  BY <1>1, ChannelOpened DEF SelectChannel, IInv, ListsOK
<1>3. ListsOK' /\ LeftKept' /\ mode' \in Modes
  BY <1>1, <1>2 DEF IInv, ListsOK, ConvOK, LeftOK, LeftKept, LeftStaysLeft
<1>4. sel' = [NoSelection EXCEPT !.channel = Place(channels', c)] /\ c \in ToSet(channels')
  BY <1>1, <1>2
<1>5. PeopleOK' /\ c \notin left'
  BY <1>1, <1>2, PeopleStay DEF IInv
<1> QED
  BY <1>2, <1>3, <1>4, <1>5, AtChannel

LEMMA JoinGeoKeeps ==
  ASSUME IInv, NEW c \in GeoChannels, JoinGeo(c)
  PROVE  IInv'
<1>1. PICK cs : cs = WithChannel(c)
  OBVIOUS
<1>2. cs \in GoodLists /\ c \in ToSet(cs) /\ channels' = cs
  BY <1>1, WithChannelFacts, Names_ DEF JoinGeo, IInv, ListsOK
<1>3. /\ UNCHANGED peopleVars /\ mode' = Channel(c)
      /\ active_channels' = active_channels \cup {c}
      /\ saved' \in {active_channels', saved} /\ UNCHANGED <<protected, loaded>>
  BY DEF JoinGeo, Persist
<1>4. ToChannel(c, cs)
  BY <1>2 DEF JoinGeo, ToChannel, Select
<1>5. /\ sel' = [NoSelection EXCEPT !.channel = Place(cs, c)]
      /\ current_conv' = Channel(c) /\ pending' = Channel(c)
      /\ opened' = Channel(c) /\ other_entry' = FALSE
      /\ left' = left \ {c} /\ named' = named \ {c}
  BY <1>2, <1>4, ChannelOpened DEF JoinGeo
<1>6. ListsOK' /\ LeftKept'
  BY <1>2, <1>3, <1>5, Names_ DEF IInv, ListsOK, LeftOK, LeftKept, LeftStaysLeft
<1>7. sel' = [NoSelection EXCEPT !.channel = Place(channels', c)] /\ c \in ToSet(channels')
  BY <1>2, <1>5
<1>8. PeopleOK' /\ c \notin left' /\ mode' \in Modes
  BY <1>3, <1>5, PeopleStay, InModes, Names_ DEF IInv
<1> QED
  BY <1>5, <1>6, <1>7, <1>8, AtChannel

LEMMA JoinMeshKeeps ==
  ASSUME IInv, NEW c \in Channels, JoinMesh(c)
  PROVE  IInv'
<1>1. PICK cs : cs = WithChannel(c)
  OBVIOUS
<1>2. cs \in GoodLists /\ c \in ToSet(cs) /\ channels' = cs
  BY <1>1, WithChannelFacts, Names_ DEF JoinMesh, IInv, ListsOK
<1>3. /\ UNCHANGED peopleVars /\ mode' \in {mode, Channel(c)}
      /\ active_channels' \in {active_channels, active_channels \cup {c}}
      /\ saved' \in {active_channels', active_channels, saved}
      /\ UNCHANGED <<protected, loaded>>
  BY DEF JoinMesh, Persist, Enters, EntersNot, ctxVars
<1>4. ToChannel(c, cs)
  BY <1>2 DEF JoinMesh, ToChannel, Select
<1>5. /\ sel' = [NoSelection EXCEPT !.channel = Place(cs, c)]
      /\ current_conv' = Channel(c) /\ pending' = Channel(c)
      /\ opened' = Channel(c) /\ other_entry' = FALSE
      /\ left' = left \ {c} /\ named' = named \ {c}
  BY <1>2, <1>4, ChannelOpened DEF JoinMesh
<1>6. ListsOK' /\ LeftKept'
  BY <1>2, <1>3, <1>5, Names_ DEF IInv, ListsOK, LeftOK, LeftKept, LeftStaysLeft
<1>7. sel' = [NoSelection EXCEPT !.channel = Place(channels', c)] /\ c \in ToSet(channels')
  BY <1>2, <1>5
<1>8. PeopleOK' /\ c \notin left' /\ mode' \in Modes
  BY <1>3, <1>5, PeopleStay, InModes, Names_ DEF IInv, ConvOK
<1> QED
  BY <1>5, <1>6, <1>7, <1>8, AtChannel

LEMMA CommandLeaveKeeps == ASSUME IInv, CommandLeave PROVE IInv'
<1>1. /\ sel' = PublicSelected /\ current_conv' = Public /\ pending' = Public
      /\ opened' = Public /\ other_entry' = FALSE /\ left' = left /\ named' = named
  BY PublicShown, Kinds, OneKind DEF CommandLeave, ToPublic, Select, Opens, OpensOnly
<1>2. /\ UNCHANGED peopleVars /\ mode' \in {mode, Public}
      /\ saved' \in {active_channels', saved} /\ UNCHANGED <<protected, loaded>>
      /\ active_channels' \subseteq active_channels
      /\ channels' = channels \/ channels' = Without(channels, mode[2])
  BY DEF CommandLeave, LeaveChannel, Persist, ctxVars
<1>3. channels' \in GoodLists
  BY <1>2, WithoutIsGood DEF IInv, ListsOK
<1>4. ListsOK' /\ LeftKept' /\ mode' \in Modes
  BY <1>1, <1>2, <1>3, InModes DEF IInv, ListsOK, ConvOK, LeftOK, LeftKept, LeftStaysLeft
<1> QED
  BY <1>1, <1>2, <1>4, PeopleStay, AtPublic DEF IInv

(* The channel left counts as left only if that it is gone was saved.        *)
LEMMA CommandLeaveGeoKeeps == ASSUME IInv, CommandLeaveGeo PROVE IInv'
<1>1. /\ sel' = PublicSelected /\ current_conv' = Public /\ pending' = Public
      /\ opened' = Public /\ other_entry' = FALSE /\ mode' = Public
  BY PublicShown DEF CommandLeaveGeo, ToPublic, Select, OpensOnly
<1>2. PICK c \in GeoChannels :
        /\ channels' = Without(channels, c)
        /\ active_channels' = active_channels \ {c}
        /\ saved' \in {active_channels', saved}
        /\ geo_people' = [geo_people EXCEPT ![c] = {}]
        /\ left' = IF saved' = active_channels' THEN left \cup {c} ELSE left
        /\ UNCHANGED <<peers, lines, people, protected, loaded, named>>
  BY DEF CommandLeaveGeo, LeaveChannel, Persist
<1>3. channels' \in GoodLists
  BY <1>2, WithoutIsGood DEF IInv, ListsOK
<1>4. ListsOK'
  BY <1>2, <1>3 DEF IInv, ListsOK, LeftOK
<1>5. LeftKept'
  BY <1>2 DEF IInv, LeftOK, LeftKept, LeftStaysLeft
<1>6. PeopleOK'
  BY <1>2 DEF IInv, PeopleOK
<1> QED
  BY <1>1, <1>4, <1>5, <1>6, AtPublic, InModes
(* A DM of the selected geohash channel.                                     *)
LEMMA ToGeoDmKeeps ==
  ASSUME IInv, pending = None, NEW k, ToGeoDm(k),
         UNCHANGED <<peopleVars, channels, ctxVars, fileVars>>
  PROVE  IInv'
<1>1. /\ UNCHANGED <<peers, lines, people, geo_people, channels, mode, active_channels>>
      /\ UNCHANGED <<protected, saved, loaded>>
  BY DEF peopleVars, ctxVars, fileVars
<1>2. PeopleOK' /\ ListsOK'
  BY <1>1, PeopleStay DEF IInv, ListsOK
<1>3. CASE ~(Selected \in GeoChannels /\ k \in geo_people[Selected])
  <2>1. UNCHANGED <<sel, current_conv, pending, opened, other_entry, left, named>>
    BY <1>3 DEF ToGeoDm, histVars, openVars, leftVars
  <2>2. LeftKept'
    BY <1>1, <2>1 DEF IInv, LeftOK, LeftKept, LeftStaysLeft
  <2> QED
    BY <1>1, <1>2, <2>1, <2>2, ListsStay, StaysPut DEF IInv, ListsOK
<1>4. CASE Selected \in GeoChannels /\ k \in geo_people[Selected]
  <2>1. PICK c \in GeoChannels : c = Selected
    BY <1>4
  <2>2. PICK r : r = Rank(geo_people[c], k)
    OBVIOUS
  <2>3. PICK i : i = Place(channels, c)
    OBVIOUS
  <2>4. /\ sel' = [public |-> FALSE, channel |-> i, person |-> r]
        /\ current_conv' = GeoDm(c, k) /\ opened' = GeoDm(c, k)
        /\ other_entry' = FALSE
        /\ pending' = None /\ left' = left /\ named' = named
    BY <1>4, <2>1, <2>2, <2>3 DEF ToGeoDm, OpensOnly, leftVars
  <2>5. c \in ToSet(channels)
    BY <2>1, Names_, GoodListFacts DEF Selected, SelectedOf, ToSet, IInv, ListsOK
  <2>6. i \in 1..Len(channels) /\ channels[i] = c /\ Len(channels) \in Nat
    BY <2>3, <2>5, PlaceFacts, GoodListFacts DEF IInv, ListsOK
  <2>7. /\ r \in 1..Cardinality(geo_people[c]) /\ Cardinality(geo_people[c]) \in Nat
        /\ k \in GeoPeople
    <3>1. geo_people[c] \in SUBSET Nat /\ IsFiniteSet(geo_people[c])
      BY VisibleFinite DEF IInv
    <3>2. k \in geo_people[c] /\ geo_people[c] \subseteq GeoPeople
      BY <1>4, <2>1 DEF IInv, PeopleOK
    <3> QED
      BY <2>2, <3>1, <3>2, RankBounds
  <2>8. Selected' = c
    <3>1. ~sel'.public /\ sel'.channel = i
      BY <2>4
    <3>2. SelectedOf(sel', channels') = c
      BY <1>1, <2>6, <3>1 DEF SelectedOf
    <3> QED
      BY <3>2 DEF Selected
  <2>9. SelOK'
    <3>1. VisiblePeople' = geo_people[c]
      BY <1>1, <2>8 DEF VisiblePeople
    <3>2. i \in Nat /\ i <= Len(channels) /\ r \in Nat /\ r <= Cardinality(geo_people[c])
      BY <2>6, <2>7
    <3>3. sel' \in SelType /\ sel'.channel = i /\ sel'.person = r
      BY <2>4, <3>2 DEF SelType
    <3> QED
      BY <1>1, <3>1, <3>2, <3>3 DEF SelOK, SelectionExists, SelType
  <2>10. IsKind(current_conv', "geo_dm") /\ current_conv'[2] = c /\ ~IsKind(opened', "thread")
    BY <2>4, Kinds, OneKind
  <2>11. ConvOK'
    <3>1. sel'.person = r /\ r # 0
      BY <2>4, <2>7
    <3>2. current_conv' \in Shows /\ opened' \in Shows
      BY <2>4, <2>7, InShows
    <3> QED
      BY <1>1, <2>1, <2>4, <2>8, <2>10, <3>1, <3>2 DEF IInv, ConvOK
  <2>12. SwitchOK'
    <3>1. Target' = current_conv'
      BY <2>10 DEF Target
    <3>2. SameConversation(Target', opened')
      BY <2>4, <2>10, <3>1 DEF SameConversation
    <3>3. /\ None # Public /\ \A d \in Channels : None # Channel(d)
          /\ \A n \in Names : None # Thread(n)
      BY Names_, InShows
    <3>4. mode' = Channel(c)
      BY <1>1, <2>1 DEF IInv, SwitchOK
    <3> QED
      BY <2>4, <2>8, <3>2, <3>3, <3>4 DEF SwitchOK, Arrives
  <2>13. LeftOK'
    BY <1>1, <2>1, <2>4, <2>8 DEF IInv, LeftOK, LeftKept, LeftStaysLeft
  <2> QED
    BY <1>2, <2>9, <2>11, <2>12, <2>13 DEF IInv
<1> QED
  BY <1>3, <1>4

(* In the mesh, with no DM of a geohash channel open, the mode decides.      *)
LEMMA MeshDestination ==
  ASSUME IInv, Selected \notin GeoChannels
  PROVE  /\ ~IsKind(current_conv, "geo_dm") /\ Target = mode
         /\ pending = None => SameConversation(mode, opened)
<1>1. ~IsKind(current_conv, "geo_dm")
  BY DEF IInv, ConvOK
<1>2. Target = mode
  BY <1>1 DEF Target
<1>3. ~IsKind(mode, "geo_dm")
  BY ModesKinds DEF IInv, ConvOK
<1> QED
  BY <1>1, <1>2, <1>3 DEF IInv, SwitchOK, Arrives, SameGeoChannel

(* A DM of the mesh: the user is at a new destination, or at the old one.    *)
LEMMA ToDmKeeps ==
  ASSUME IInv, pending = None, Selected \notin GeoChannels, NEW n, ToDm(n),
         UNCHANGED <<peopleVars, channels, active_channels, fileVars, leftVars>>,
         mode' \in Modes, opened' \in Shows, other_entry' \in BOOLEAN,
         SameConversation(mode', opened')
  PROVE  IInv'
<1>1. /\ sel' \in SelType /\ sel'.channel = 0
      /\ sel'.person <= Cardinality(DOMAIN people)
      /\ \/ /\ \E x \in DOMAIN people : current_conv' = Thread(x)
            /\ n \in DOMAIN people /\ pending' = Thread(n)
         \/ /\ current_conv' = current_conv
            /\ pending' = pending
  BY DmMove DEF IInv
<1>2. DOMAIN people \subseteq Names /\ people' = people
  BY DEF IInv, PeopleOK, peopleVars
<1>3. PeopleOK' /\ ListsOK' /\ LeftKept'
  BY PeopleStay DEF IInv, ListsOK, LeftOK, LeftKept, LeftStaysLeft, fileVars, leftVars
<1>4. current_conv' \in Shows /\ ~IsKind(current_conv', "geo_dm")
  <2>1. CASE current_conv' = current_conv
    BY <2>1, MeshDestination DEF IInv, ConvOK
  <2>2. ASSUME NEW x \in DOMAIN people, current_conv' = Thread(x)
        PROVE  current_conv' \in Shows /\ ~IsKind(current_conv', "geo_dm")
    BY <1>2, <2>2, InShows, Kinds, OneKind
  <2> QED
    BY <1>1, <2>1, <2>2
<1>5. pending' = None \/ \E m \in Names : pending' = Thread(m)
  BY <1>1, <1>2
<1>6. sel'.person <= Cardinality(DOMAIN people')
  BY <1>1, <1>2
<1> QED
  BY <1>1, <1>3, <1>4, <1>5, <1>6, InMesh

LEMMA SelectPersonKeeps == ASSUME IInv, NEW n, SelectPerson(n) PROVE IInv'
<1>1. CASE Selected \in GeoChannels
  BY <1>1, ToGeoDmKeeps DEF SelectPerson
<1>2. CASE Selected \notin GeoChannels
  <2>1. /\ pending = None /\ ToDm(n) /\ UNCHANGED <<opened, other_entry, mode>>
        /\ UNCHANGED <<peopleVars, channels, active_channels, fileVars, leftVars>>
    BY <1>2 DEF SelectPerson, histVars, openVars, ctxVars
  <2>2. mode' \in Modes /\ opened' \in Shows /\ other_entry' \in BOOLEAN
    BY <2>1 DEF IInv, ConvOK
  <2>3. SameConversation(mode', opened')
    BY <1>2, <2>1, MeshDestination DEF IInv, SwitchOK
  <2> QED
    BY <1>2, <2>1, <2>2, <2>3, ToDmKeeps
<1> QED
  BY <1>1, <1>2

LEMMA NoContext ==
  ASSUME IInv, GeoContext = None
  PROVE  Selected \notin GeoChannels
<1>1. CASE IsKind(current_conv, "geo_dm")
  BY <1>1, Names_ DEF GeoContext, IInv, ConvOK
<1>2. CASE ~IsKind(current_conv, "geo_dm")
  BY <1>2, Names_ DEF GeoContext
<1> QED
  BY <1>1, <1>2

LEMMA SameAddressee ==
  ASSUME NEW t, NEW p
  PROVE  SameConversation(Dm(t, p), Thread(Fold(t)))
BY Kinds DEF SameConversation

LEMMA FoldedNames ==
  ASSUME NEW n \in Names
  PROVE  Fold(n) = n /\ Fold(0 - n) = n
<1>1. n \in Nat /\ n # 0
  BY NamesAssumption
<1>2. 0 - n < 0 /\ ~(n < 0) /\ 0 - (0 - n) = n
  BY <1>1
<1> QED
  BY <1>2 DEF Fold

LEMMA ThreadOpened ==
  ASSUME NEW n, Opens(Thread(n))
  PROVE  opened' = Thread(n) /\ other_entry' = FALSE /\ UNCHANGED leftVars
BY Kinds, OneKind DEF Opens, OpensOnly, leftVars

LEMMA CommandDmKeeps ==
  ASSUME IInv, NEW t, NEW n \in Names, t = n \/ t = 0 - n, CommandDm(t)
  PROVE  IInv'
<1>1. /\ pending = None /\ Selected \notin GeoChannels
      /\ UNCHANGED <<peopleVars, channels, active_channels, fileVars>>
  BY NoContext DEF CommandDm
<1>2. \/ FollowMode /\ UNCHANGED <<mode, opened, other_entry, leftVars>>
      \/ /\ \E p \in ListedPeers(t) \cup NamedPeers(t) : mode' = Dm(t, p)
         /\ ToDm(t) /\ Opens(Thread(Fold(t)))
  BY DEF CommandDm, histVars, openVars
<1>3. CASE FollowMode /\ UNCHANGED <<mode, opened, other_entry, leftVars>>
  <2>1. /\ mode' \in Modes /\ opened' \in Shows /\ other_entry' \in BOOLEAN
        /\ SameConversation(mode', opened')
    BY <1>1, <1>3, MeshDestination DEF IInv, ConvOK, SwitchOK
  <2>2. CASE IsKind(mode, "dm")
    <3>1. ToDm(mode[2])
      BY <1>3, <2>2 DEF FollowMode
    <3> QED
      BY <1>1, <1>3, <2>1, <3>1, ToDmKeeps
  <2>3. CASE ~IsKind(mode, "dm")
    <3>1. UNCHANGED <<sel, current_conv, mode, pending, opened, other_entry, left, named>>
      BY <1>3, <2>3 DEF FollowMode, leftVars
    <3>2. PeopleOK' /\ ListsOK' /\ LeftKept'
      BY <1>1, <3>1, PeopleStay DEF IInv, ListsOK, LeftOK, LeftKept, LeftStaysLeft, fileVars
    <3>3. people' = people /\ geo_people' = geo_people
      BY <1>1 DEF peopleVars
    <3> QED
      BY <1>1, <3>1, <3>2, <3>3, ListsStay, StaysPut DEF IInv, ListsOK
  <2> QED
    BY <2>2, <2>3
<1>4. ASSUME NEW p \in ListedPeers(t) \cup NamedPeers(t), mode' = Dm(t, p),
             ToDm(t), Opens(Thread(Fold(t)))
      PROVE  IInv'
  <2>1. p \in Peers
    BY DEF ListedPeers, NamedPeers, IInv, PeopleOK
  <2>2. opened' = Thread(Fold(t)) /\ other_entry' \in BOOLEAN /\ UNCHANGED leftVars
    BY <1>4, ThreadOpened
  <2>3. Fold(t) \in Names
    BY FoldedNames
  <2>4. mode' \in Modes /\ opened' \in Shows
    BY <1>4, <2>1, <2>2, <2>3, InModes, InShows
  <2>5. SameConversation(mode', opened')
    BY <1>4, <2>2, SameAddressee
  <2> QED
    BY <1>1, <1>4, <2>2, <2>4, <2>5, ToDmKeeps
<1> QED
  BY <1>2, <1>3, <1>4

LEMMA CommandReplyKeeps ==
  ASSUME IInv, NEW n \in Names, NEW p \in Peers, CommandReply(n, p)
  PROVE  IInv'
<1>1. /\ pending = None /\ Selected \notin GeoChannels
      /\ UNCHANGED <<peopleVars, channels, active_channels, fileVars>>
      /\ mode' = Dm(n, p) /\ ToDm(n)
  BY NoContext DEF CommandReply
<1>2. opened' = Thread(n) /\ other_entry' \in BOOLEAN /\ UNCHANGED leftVars
  BY ThreadOpened DEF CommandReply
<1>3. mode' \in Modes /\ opened' \in Shows
  BY <1>1, <1>2, InModes, InShows
<1>4. SameConversation(mode', opened')
  <2>1. SameConversation(Dm(n, p), Thread(n))
    BY SameAddressee, FoldedNames
  <2> QED
    BY <1>1, <1>2, <2>1
<1> QED
  BY <1>1, <1>2, <1>3, <1>4, ToDmKeeps

LEMMA CommandGeoDmKeeps == ASSUME IInv, NEW k, CommandGeoDm(k) PROVE IInv'
BY ToGeoDmKeeps DEF CommandGeoDm
(* With the selection as it is and no switch under way.                      *)
LEMMA SelectionStays ==
  ASSUME IInv, UNCHANGED <<peopleVars, channels, sel, left>>,
         ListsOK', LeftKept', ConvOK',
         pending' = None, Arrives', Selected \in GeoChannels => mode' = Channel(Selected)
  PROVE  IInv'
<1>1. UNCHANGED <<peers, lines, people, geo_people>>
  BY DEF peopleVars
<1>2. Selected' = Selected /\ VisiblePeople' = VisiblePeople
  BY <1>1 DEF Selected, VisiblePeople
<1>3. PeopleOK' /\ SelOK' /\ LeftOK'
  BY <1>2, PeopleStay DEF IInv, SelOK, SelectionExists, LeftOK
<1>4. SwitchOK'
  <2>1. /\ None # Public /\ \A d \in Channels : None # Channel(d)
        /\ \A n \in Names : None # Thread(n)
    BY Names_, InShows
  <2> QED
    BY <1>2, <2>1 DEF SwitchOK
<1> QED
  BY <1>3, <1>4 DEF IInv

(* What is shown, and when it is a DM of a geohash channel.                  *)
LEMMA ShownFacts ==
  ASSUME IInv
  PROVE  /\ Shown \in Shows
         /\ IsKind(Shown, "geo_dm") => Selected \in GeoChannels /\ Shown[2] = Selected
         /\ Selected \in GeoChannels =>
              IF sel.person = 0 THEN Shown = Channel(Selected) ELSE IsKind(Shown, "geo_dm")
<1>1. PICK c : c = Selected
  OBVIOUS
<1>2. PICK V : V = VisiblePeople
  OBVIOUS
<1>3. PICK r : r = sel.person
  OBVIOUS
<1>4. /\ V \in SUBSET Nat /\ IsFiniteSet(V) /\ Cardinality(V) \in Nat
      /\ c \in GeoChannels => V \subseteq GeoPeople
      /\ c \notin GeoChannels => V \subseteq Names
  BY <1>1, <1>2, VisibleFinite DEF VisiblePeople, IInv, PeopleOK
<1>5. r \in Nat /\ r <= Cardinality(V)
  BY <1>2, <1>3 DEF IInv, SelOK, SelectionExists
<1>6. c # None => c \in Channels
  BY <1>1, GoodListFacts DEF Selected, SelectedOf, IInv, ListsOK
<1>7. Shown = IF r \in 1..Cardinality(V)
              THEN IF c \in GeoChannels THEN GeoDm(c, AtRank(V, r)) ELSE Thread(AtRank(V, r))
              ELSE IF c = None THEN Public ELSE Channel(c)
  BY <1>1, <1>2, <1>3 DEF Shown, ConversationOf, Selected, VisiblePeople
<1>8. CASE r = 0
  <2>1. r \notin 1..Cardinality(V)
    BY <1>8
  <2>2. Shown = IF c = None THEN Public ELSE Channel(c)
    BY <1>7, <2>1
  <2>3. Shown \in Shows /\ ~IsKind(Shown, "geo_dm")
    BY <1>6, <2>2, InShows, Kinds, OneKind
  <2> QED
    BY <1>1, <1>3, <1>8, <2>2, <2>3, Names_
<1>9. CASE r # 0
  <2>1. r \in 1..Cardinality(V)
    BY <1>4, <1>5, <1>9
  <2>2. AtRank(V, r) \in V
    BY <1>4, <2>1, RanksExist DEF HasRanks, AtRank
  <2>3. CASE c \in GeoChannels
    <3>1. Shown = GeoDm(c, AtRank(V, r))
      BY <1>7, <2>1, <2>3
    <3>2. AtRank(V, r) \in GeoPeople
      BY <1>4, <2>2, <2>3
    <3>3. Shown \in Shows /\ IsKind(Shown, "geo_dm") /\ Shown[2] = c
      BY <2>3, <3>1, <3>2, InShows, Kinds
    <3> QED
      BY <1>1, <1>3, <1>9, <2>3, <3>3
  <2>4. CASE c \notin GeoChannels
    <3>1. Shown = Thread(AtRank(V, r))
      BY <1>7, <2>1, <2>4
    <3>2. AtRank(V, r) \in Names
      BY <1>4, <2>2, <2>4
    <3>3. Shown \in Shows /\ ~IsKind(Shown, "geo_dm")
      BY <3>1, <3>2, InShows, Kinds, OneKind
    <3> QED
      BY <1>1, <2>4, <3>3
  <2> QED
    BY <2>3, <2>4
<1> QED
  BY <1>8, <1>9

(* After an entry that opens nothing, a geohash DM goes to somebody of the   *)
(* same channel, and everything else where it went before.                   *)
LEMMA SelectOtherKeeps == ASSUME IInv, SelectOther PROVE IInv'
<1>1. /\ UNCHANGED <<peopleVars, channels, sel, left, named>>
      /\ UNCHANGED <<mode, active_channels, protected, saved, loaded, opened>>
      /\ pending = None /\ pending' = None
      /\ current_conv' = Shown
      /\ other_entry' = IsKind(current_conv, "geo_dm")
  BY DEF SelectOther, ctxVars, fileVars, leftVars
<1>2. ListsOK' /\ LeftKept'
  BY <1>1 DEF IInv, ListsOK, LeftOK, LeftKept, LeftStaysLeft
<1>3. Selected' = Selected
  BY <1>1 DEF Selected
<1>4. ConvOK'
  <2>1. other_entry' \in BOOLEAN
    BY <1>1 DEF IsKind
  <2>2. current_conv' \in Shows /\ opened' \in Shows /\ mode' \in Modes
    BY <1>1, ShownFacts DEF IInv, ConvOK
  <2>3. PICK s : s = Shown
    OBVIOUS
  <2>4. /\ IsKind(s, "geo_dm") =>
             Selected \in GeoChannels /\ Selected = s[2] /\ sel.person # 0
        /\ Selected \in GeoChannels /\ sel.person # 0 => IsKind(s, "geo_dm")
    <3>1. \A c \in GeoChannels : ~IsKind(Channel(c), "geo_dm")
      BY Kinds, OneKind
    <3> QED
      BY <2>3, <3>1, ShownFacts
  <2>5. current_conv' = s /\ sel' = sel
    BY <1>1, <2>3
  <2> QED
    BY <1>3, <2>1, <2>2, <2>4, <2>5 DEF ConvOK
<1>5. Arrives
  BY <1>1 DEF IInv, SwitchOK
<1>6. Arrives'
  <2>1. CASE Selected \notin GeoChannels
    <3>1. ~IsKind(Shown, "geo_dm")
      BY <2>1, ShownFacts
    <3>2. Target' = mode
      BY <1>1, <1>3, <2>1, <3>1 DEF Target
    <3> QED
      BY <1>1, <2>1, <3>2, MeshDestination DEF Arrives
  <2>2. CASE Selected \in GeoChannels /\ sel.person # 0
    <3>1. /\ IsKind(Shown, "geo_dm") /\ Shown[2] = Selected
          /\ IsKind(current_conv, "geo_dm") /\ current_conv[2] = Selected
      BY <2>2, ShownFacts DEF IInv, ConvOK
    <3>2. Target' = Shown /\ Target = current_conv /\ other_entry' = TRUE
      BY <1>1, <3>1 DEF Target
    <3>3. ~IsKind(current_conv, "dm")
      BY <3>1, OneKind
    <3>4. IsKind(opened, "geo_dm") /\ opened[2] = Selected
      BY <1>5, <3>1, <3>2, <3>3 DEF Arrives, SameConversation, SameGeoChannel
    <3> QED
      BY <1>1, <3>1, <3>2, <3>4 DEF Arrives, SameGeoChannel
  <2>3. CASE Selected \in GeoChannels /\ sel.person = 0
    <3>1. Shown = Channel(Selected) /\ ~IsKind(current_conv, "geo_dm")
      BY <2>3, ShownFacts DEF IInv, ConvOK
    <3>2. ~IsKind(Shown, "geo_dm")
      BY <3>1, Kinds, OneKind
    <3>3. Target' = Shown /\ Target = Shown
      BY <1>1, <1>3, <2>3, <3>1, <3>2 DEF Target
    <3> QED
      BY <1>1, <1>5, <3>2, <3>3 DEF Arrives, SameGeoChannel
  <2> QED
    BY <2>1, <2>2, <2>3
<1>7. Selected \in GeoChannels => mode' = Channel(Selected)
  BY <1>1 DEF IInv, SwitchOK
<1> QED
  BY <1>1, <1>2, <1>4, <1>6, <1>7, SelectionStays

LEMMA SettleKeeps == ASSUME IInv, Settle PROVE IInv'
<1>1. /\ UNCHANGED <<peopleVars, channels, sel, left, named>> /\ current_conv' = current_conv
      /\ pending # None /\ pending' = None /\ UNCHANGED <<protected, saved, loaded>>
  BY DEF Settle, uiVars, fileVars, leftVars
<1>2. Selected' = Selected
  BY <1>1 DEF Selected
<1>3. pending \in Shows /\ ~IsKind(pending, "geo_dm") /\ ~IsKind(current_conv, "geo_dm")
  BY <1>1 DEF IInv, SwitchOK
<1>4. CASE pending = Public
  <2>1. /\ mode' = Public /\ active_channels' = active_channels
        /\ opened' = opened /\ other_entry' = other_entry
    BY <1>4, Kinds, OneKind DEF Settle, openVars
  <2>2. opened = Public /\ Selected \notin GeoChannels
    BY <1>4 DEF IInv, SwitchOK
  <2>3. ListsOK' /\ LeftKept' /\ ConvOK'
    BY <1>1, <1>2, <2>1, InModes DEF IInv, ListsOK, ConvOK, LeftOK, LeftKept, LeftStaysLeft
  <2>4. Target' = Public
    BY <1>1, <1>2, <1>3, <2>1, <2>2 DEF Target
  <2>5. Arrives'
    BY <2>1, <2>2, <2>4, Kinds, OneKind DEF Arrives, SameConversation
  <2> QED
    BY <1>1, <2>2, <2>3, <2>5, SelectionStays
<1>5. ASSUME NEW c \in Channels, pending = Channel(c) PROVE IInv'
  <2>1. /\ mode' = Channel(c) /\ active_channels' = active_channels \cup {c}
        /\ opened' = opened /\ other_entry' = other_entry
    <3>1. ~IsKind(pending, "public") /\ ~IsKind(pending, "thread")
      BY <1>5, Kinds, OneKind
    <3>2. IsKind(pending, "channel") /\ pending[2] = c
      BY <1>5, Kinds
    <3> QED
      BY <1>5, <3>1, <3>2 DEF Settle, openVars
  <2>2. /\ opened = Channel(c) /\ c \notin left
        /\ IF c \in GeoChannels THEN Selected = c ELSE Selected \notin GeoChannels
    BY <1>5 DEF IInv, SwitchOK
  <2>3. ListsOK' /\ LeftKept' /\ ConvOK'
    BY <1>1, <1>2, <2>1, <2>2, InModes DEF IInv, ListsOK, ConvOK, LeftOK, LeftKept, LeftStaysLeft
  <2>4. Target' = Channel(c)
    BY <1>1, <1>2, <1>3, <2>1, <2>2 DEF Target
  <2>5. Arrives'
    BY <2>1, <2>2, <2>4, Kinds, OneKind DEF Arrives, SameConversation
  <2>6. Selected \in GeoChannels => mode' = Channel(Selected)
    BY <2>1, <2>2
  <2> QED
    BY <1>1, <2>3, <2>5, <2>6, SelectionStays
<1>6. ASSUME NEW n \in Names, pending = Thread(n) PROVE IInv'
  <2>1. /\ active_channels' = active_channels
        /\ \/ UNCHANGED <<mode, opened, other_entry>>
           \/ /\ \E p \in Peers : mode' = Dm(n, p)
              /\ opened' = Thread(n) /\ other_entry' = FALSE
    <3>1. ~IsKind(pending, "public") /\ ~IsKind(pending, "channel")
      BY <1>6, Kinds, OneKind
    <3>2. IsKind(pending, "thread") /\ pending[2] = n
      BY <1>6, Kinds
    <3> QED
      BY <1>6, <3>1, <3>2 DEF Settle, Holders, OpensOnly, openVars
  <2>2. Selected \notin GeoChannels /\ SameConversation(mode, opened)
    BY <1>6 DEF IInv, SwitchOK
  <2>3. \A p : SameConversation(Dm(n, p), Thread(n))
    BY SameAddressee, FoldedNames
  <2>4. ListsOK' /\ LeftKept' /\ ConvOK'
    BY <1>1, <1>2, <2>1, InModes, InShows DEF IInv, ListsOK, ConvOK, LeftOK, LeftKept, LeftStaysLeft
  <2>5. Target' = mode'
    BY <1>1, <1>2, <1>3, <2>2 DEF Target
  <2>6. Arrives'
    BY <2>1, <2>2, <2>3, <2>5 DEF Arrives
  <2> QED
    BY <1>1, <2>2, <2>4, <2>6, SelectionStays
<1>7. \/ pending = Public \/ \E c \in Channels : pending = Channel(c)
      \/ \E n \in Names : pending = Thread(n)
  BY <1>3, Kinds DEF Shows
<1> QED
  BY <1>4, <1>5, <1>6, <1>7

LEMMA SubmitKeeps == ASSUME IInv, Submit PROVE IInv'
<1>1. /\ UNCHANGED <<peopleVars, channels, sel, left, named>> /\ current_conv' = current_conv
      /\ UNCHANGED <<protected, saved, loaded, opened, other_entry>>
      /\ pending = None /\ pending' = None
      /\ Selected \in GeoChannels
      /\ mode' = Channel(Selected)
      /\ active_channels' = active_channels \cup {Selected}
  BY DEF Submit, InGeoChannel, uiVars, fileVars, histVars, openVars, leftVars
<1>2. Selected' = Selected
  BY <1>1 DEF Selected
<1>3. Selected \in Channels /\ Selected \notin left
  BY <1>1, Names_ DEF IInv, LeftOK
<1>4. ListsOK' /\ LeftKept' /\ ConvOK'
  BY <1>1, <1>2, <1>3, InModes DEF IInv, ListsOK, ConvOK, LeftOK, LeftKept, LeftStaysLeft
<1>5. mode' = mode
  BY <1>1 DEF IInv, SwitchOK
<1>6. Arrives'
  BY <1>1, <1>2, <1>5 DEF IInv, SwitchOK, Arrives, Target
<1> QED
  BY <1>1, <1>4, <1>6, SelectionStays

(* What is saved is what was loaded or what is active.                       *)
LEMMA CommandSavesKeeps == ASSUME IInv, CommandSaves PROVE IInv'
<1>1. /\ UNCHANGED <<peopleVars, people, geo_people, channels, sel, current_conv>>
      /\ UNCHANGED <<mode, active_channels, pending, opened, other_entry, left, named>>
      /\ protected' = protected /\ loaded' = loaded /\ saved' \in {loaded, active_channels}
  BY DEF CommandSaves, peopleVars, uiVars, ctxVars, histVars, openVars, leftVars
<1>2. PeopleOK' /\ ListsOK' /\ LeftKept'
  BY <1>1, PeopleStay DEF IInv, ListsOK, LeftOK, LeftKept, LeftStaysLeft
<1> QED
  BY <1>1, <1>2, ListsStay, StaysPut DEF IInv, ListsOK

LEMMA NextIInv == IInv /\ [Next]_vars => IInv'
<1> SUFFICES ASSUME IInv, [Next]_vars PROVE IInv'
  OBVIOUS
<1>1. CASE UNCHANGED vars
  <2>1. /\ UNCHANGED <<peopleVars, peers, lines, people, geo_people, channels, sel, current_conv>>
        /\ UNCHANGED <<mode, active_channels, pending, opened, other_entry, left, named>>
        /\ UNCHANGED <<protected, saved, loaded>>
    BY <1>1 DEF vars, peopleVars, uiVars, ctxVars, fileVars, histVars, openVars, leftVars
  <2>2. PeopleOK' /\ ListsOK' /\ LeftKept'
    BY <2>1, PeopleStay DEF IInv, ListsOK, LeftOK, LeftKept, LeftStaysLeft
  <2> QED
    BY <2>1, <2>2, ListsStay, StaysPut DEF IInv, ListsOK
<1>2. CASE Crash \/ Exit \/ ReadLine \/ Settle \/ Submit \/ CommandSaves
  BY <1>2, CrashKeeps, ExitKeeps, ReadLineKeeps, SettleKeeps, SubmitKeeps, CommandSavesKeeps
<1>3. CASE \E p \in Peers, n \in Names : Announce(p, n) \/ CommandReply(n, p)
  BY <1>3, AnnounceKeeps, CommandReplyKeeps
<1>4. CASE \E p \in Peers : Leave(p)
  BY <1>4, LeaveKeeps
<1>5. CASE \E c \in GeoChannels, k \in GeoPeople : ReadGeoLine(c, k)
  BY <1>5, ReadGeoLineKeeps
<1>6. CASE \E c \in Channels : ChannelMessage(c) \/ ChannelAnnounce(c) \/ JoinMesh(c)
  BY <1>6, ChannelMessageKeeps, ChannelAnnounceKeeps, JoinMeshKeeps
<1>7. CASE \E c \in GeoChannels : JoinGeo(c)
  BY <1>7, JoinGeoKeeps
<1>8. CASE SelectPublic \/ SelectOther
  BY <1>8, SelectPublicKeeps, SelectOtherKeeps
<1>9. CASE \E c \in Channels : SelectChannel(c)
  BY <1>9, SelectChannelKeeps
<1>10. CASE \E n \in Names \cup GeoPeople : SelectPerson(n)
  BY <1>10, SelectPersonKeeps
<1>11. CASE CommandPublic \/ CommandLeave \/ CommandLeaveGeo
  BY <1>11, CommandPublicKeeps, CommandLeaveKeeps, CommandLeaveGeoKeeps
<1>12. CASE \E n \in Names : CommandDm(n) \/ CommandDm(0 - n)
  BY <1>12, CommandDmKeeps
<1>13. CASE \E k \in GeoPeople : CommandGeoDm(k)
  BY <1>13, CommandGeoDmKeeps
<1> QED
  BY <1>1, <1>2, <1>3, <1>4, <1>5, <1>6, <1>7, <1>8, <1>9, <1>10, <1>11, <1>12, <1>13
     DEF Next

LEMMA Invariance == Spec => []IInv
BY InitIInv, NextIInv, PTL DEF Spec

-----------------------------------------------------------------------------
(* The types of the lists, the selection, the conversation and the mode.     *)
THEOREM TypeCorrect == Spec => []TypeOK
BY Invariance, InvImpliesTypeOK, PTL

(* The sidebar's indices always name an entry, although packets sort new     *)
(* people into the lists and /leave cuts them while an index is kept.        *)
THEOREM SelectionsExist == Spec => []SelectionExists
<1>1. IInv => SelectionExists
  BY DEF IInv, SelOK
<1> QED
  BY Invariance, <1>1, PTL

(* A typed line goes to the conversation that was opened last.  The four     *)
(* places that say where the user is are written by different code: packets  *)
(* move the lists under the selection, a switch of the interface reaches     *)
(* chat_context only when the main loop settles it, and a command moves the  *)
(* context before the interface.  The exception is Enter on a blocked or     *)
(* settings entry, which opens nothing and yet moves current_conv: in a DM   *)
(* of a geohash channel lines go to somebody of that channel from then on.   *)
THEOREM LinesGoWhereOpened == Spec => []GoesWhereOpened
<1>1. IInv => GoesWhereOpened
  <2> SUFFICES ASSUME IInv, pending = None
               PROVE  \/ SameConversation(Destination, opened)
                      \/ other_entry /\ SameGeoChannel(Destination, opened)
    BY DEF GoesWhereOpened
  <2>1. Destination = Target
    BY DEF IInv, SwitchOK, Destination, InGeoChannel, Target
  <2> QED
    BY <2>1 DEF IInv, SwitchOK, Arrives
<1> QED
  BY Invariance, <1>1, PTL

(* A geohash channel that was left is active again, before the user opens it *)
(* again, only through a packet of the mesh that names it; and it is in the  *)
(* file, from where a restart joins it, only through one or because the      *)
(* state as loaded, with it in, was saved again.                             *)
THEOREM LeftChannelsStayLeft == Spec => []LeftStaysLeft
<1>1. IInv => LeftStaysLeft
  BY DEF IInv, LeftOK, LeftKept
<1> QED
  BY Invariance, <1>1, PTL
=============================================================================
