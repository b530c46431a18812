-------------------------- MODULE GeohashDirect_proofs --------------------------
(***************************************************************************)
(* Proofs about GeohashDirect, for any keys, names, messages, relays and     *)
(* bounds.                                                                   *)
(*                                                                          *)
(* The people: a name is given only by AddGeohashPerson, so one lemma about  *)
(* it (AddsPerson) carries the names.  /dm opens the thread it encrypts for   *)
(* because whoever has an alias is listed under it (AliasShown).  The status  *)
(* is the best of the news because a message that was not published has none  *)
(* (Unsent).                                                                 *)
(***************************************************************************)
EXTENDS GeohashDirect, TLAPS

-----------------------------------------------------------------------------
(* Maps with a part of S as their domain.                                    *)

LEMMA InPartialMap ==
  ASSUME NEW S, NEW T, NEW f
  PROVE  f \in PartialMap(S, T) <=>
           /\ f = [x \in DOMAIN f |-> f[x]] /\ DOMAIN f \subseteq S
           /\ \A x \in DOMAIN f : f[x] \in T
<1>1. ASSUME f \in PartialMap(S, T)
      PROVE  /\ f = [x \in DOMAIN f |-> f[x]] /\ DOMAIN f \subseteq S
             /\ \A x \in DOMAIN f : f[x] \in T
  <2>1. PICK D \in SUBSET S : f \in [D -> T]
    BY <1>1 DEF PartialMap
  <2> QED
    BY <2>1
<1>2. ASSUME f = [x \in DOMAIN f |-> f[x]], DOMAIN f \subseteq S, \A x \in DOMAIN f : f[x] \in T
      PROVE  f \in PartialMap(S, T)
  <2>1. f \in [DOMAIN f -> T] /\ DOMAIN f \in SUBSET S
    BY <1>2
  <2> QED
    BY <2>1 DEF PartialMap
<1> QED
  BY <1>1, <1>2

LEMMA EmptyIsMap == ASSUME NEW S, NEW T PROVE NoEntries \in PartialMap(S, T)
<1>1. NoEntries \in [{} -> T]
  BY DEF NoEntries
<1> QED
  BY <1>1 DEF PartialMap

LEMMA InsertsEntry ==
  ASSUME NEW S, NEW T, NEW f \in PartialMap(S, T), NEW x \in S, NEW y \in T
  PROVE  Insert(f, x, y) \in PartialMap(S, T)
<1> DEFINE g == Insert(f, x, y)
<1>1. DOMAIN f \subseteq S /\ \A z \in DOMAIN f : f[z] \in T
  BY InPartialMap
<1>2. /\ DOMAIN g = DOMAIN f \cup {x}
      /\ \A z \in DOMAIN f \cup {x} : g[z] = IF z = x THEN y ELSE f[z]
      /\ g = [z \in DOMAIN g |-> g[z]]
  BY DEF Insert
<1>3. \A z \in DOMAIN g : g[z] \in T
  BY <1>1, <1>2
<1>4. DOMAIN g \subseteq S
  BY <1>1, <1>2
<1> HIDE DEF g
<1> QED
  BY <1>2, <1>3, <1>4, InPartialMap DEF g

-----------------------------------------------------------------------------
(* The people of the channel.                                                *)

PeopleOK ==
    /\ people_pubkeys \in PartialMap(Label, Keys)
    /\ people \in [Label -> 0..MaxListed]
    /\ OneNamePerKey /\ KeyedAreListed
    /\ \A l \in DOMAIN people_pubkeys : IsPlaceholder(l) => people_pubkeys[l] = l

(* A new count that lists n, and lists at least once what was listed.        *)
LEMMA Lists ==
  ASSUME NEW count \in [Label -> 0..MaxListed], NEW n \in Label
  PROVE  /\ Listing(count, n) \in [Label -> 0..MaxListed]
         /\ Listing(count, n)[n] > 0
         /\ \A l \in Label : l # n => Listing(count, n)[l] = count[l]
<1>1. MaxListed \in Nat /\ 1 \in 0..MaxListed /\ count[n] \in 0..MaxListed
  BY DirectAssumption
<1>2. CASE count[n] = 0
  BY <1>1, <1>2 DEF Listing
<1>3. CASE count[n] # 0
  BY <1>1, <1>3 DEF Listing
<1> QED
  BY <1>2, <1>3

(* The name of a person is a label.                                          *)
LEMMA LabelsAreNames ==
  ASSUME NEW k \in Keys, NEW sender \in Label, NEW old \in Label,
         NEW aliases \in PartialMap(Keys, Names)
  PROVE  /\ NewLabel(k, sender, aliases) \in Label
         /\ PreferredLabel(k, old, sender, aliases) \in Label
         /\ IsPlaceholder(NewLabel(k, sender, aliases)) => NewLabel(k, sender, aliases) = k
         /\ IsPlaceholder(PreferredLabel(k, old, sender, aliases))
              => PreferredLabel(k, old, sender, aliases) = k
         /\ k \in DOMAIN aliases => /\ NewLabel(k, sender, aliases) = aliases[k]
                                    /\ PreferredLabel(k, old, sender, aliases) = aliases[k]
<1>1. k \in DOMAIN aliases => aliases[k] \in Names
  BY InPartialMap
<1>2. k \in DOMAIN aliases => ~IsPlaceholder(aliases[k])
  BY <1>1, DirectAssumption DEF IsPlaceholder
<1> QED
  BY <1>1, <1>2 DEF NewLabel, PreferredLabel, Label

(* After k was named: every name leads to k, or to whom it led before; an     *)
(* alias of k leads to k and is its only name.                               *)
Named(k, aliases) ==
    /\ \A l \in DOMAIN people_pubkeys' :
         \/ people_pubkeys'[l] = k
         \/ /\ l \in DOMAIN people_pubkeys /\ people_pubkeys[l] # k
            /\ people_pubkeys'[l] = people_pubkeys[l]
    /\ k \in DOMAIN aliases =>
         /\ aliases[k] \in DOMAIN people_pubkeys' /\ people_pubkeys'[aliases[k]] = k
         /\ \A l \in DOMAIN people_pubkeys' : people_pubkeys'[l] = k => l = aliases[k]

(* add_geohash_person keeps one name for each key, whatever sender name and   *)
(* aliases it is called with.                                                *)
LEMMA AddsPerson ==
  ASSUME PeopleOK, NEW k \in Keys, NEW sender \in Label, sender # nickname,
         NEW aliases \in PartialMap(Keys, Names), AddGeohashPerson(sender, k, aliases)
  PROVE  /\ PeopleOK' /\ Named(k, aliases)
         /\ k \notin DOMAIN aliases /\ sender \in NamesOf(k)
              => sender \in DOMAIN people_pubkeys' /\ people_pubkeys'[sender] = k
<1>1. /\ DOMAIN people_pubkeys \subseteq Label
      /\ \A l \in DOMAIN people_pubkeys : people_pubkeys[l] \in Keys
      /\ people_pubkeys \in PartialMap(Label, Keys) /\ people \in [Label -> 0..MaxListed]
  BY InPartialMap DEF PeopleOK
<1>2. CASE NamesOf(k) = {}
  <2> DEFINE new == NewLabel(k, sender, aliases)
  <2>1. /\ people_pubkeys' = Insert(people_pubkeys, new, k) /\ people' = Listing(people, new)
    BY <1>2 DEF AddGeohashPerson
  <2>2. /\ new \in Label /\ (k \in DOMAIN aliases => new = aliases[k])
        /\ IsPlaceholder(new) => new = k
    BY LabelsAreNames DEF Label
  <2> HIDE DEF new
  <2>3. /\ people_pubkeys' \in PartialMap(Label, Keys)
        /\ DOMAIN people_pubkeys' = DOMAIN people_pubkeys \cup {new}
        /\ \A l \in DOMAIN people_pubkeys \cup {new} :
              people_pubkeys'[l] = IF l = new THEN k ELSE people_pubkeys[l]
    <3>1. /\ Insert(people_pubkeys, new, k) \in PartialMap(Label, Keys)
          /\ DOMAIN Insert(people_pubkeys, new, k) = DOMAIN people_pubkeys \cup {new}
          /\ \A l \in DOMAIN people_pubkeys \cup {new} :
                Insert(people_pubkeys, new, k)[l] = IF l = new THEN k ELSE people_pubkeys[l]
      <4>1. Insert(people_pubkeys, new, k) \in PartialMap(Label, Keys)
        BY <1>1, <2>2, InsertsEntry
      <4> QED
        BY <4>1 DEF Insert
    <3> QED
      BY <2>1, <3>1
  <2>4. /\ people' \in [Label -> 0..MaxListed] /\ people'[new] > 0
        /\ \A l \in Label : l # new => people'[l] = people[l]
    BY <1>1, <2>1, <2>2, Lists
  <2>5. \A l \in DOMAIN people_pubkeys : people_pubkeys[l] # k
    BY <1>2 DEF NamesOf
  <2>6. OneNamePerKey'
    BY <2>3, <2>5 DEF PeopleOK, OneNamePerKey
  <2>7. KeyedAreListed'
    BY <1>1, <2>3, <2>4 DEF PeopleOK, KeyedAreListed
  <2>8. Named(k, aliases)
    BY <2>2, <2>3, <2>5 DEF Named
  <2>9. \A l \in DOMAIN people_pubkeys' : IsPlaceholder(l) => people_pubkeys'[l] = l
    BY <2>2, <2>3 DEF PeopleOK
  <2> QED
    BY <1>2, <2>3, <2>4, <2>6, <2>7, <2>8, <2>9 DEF PeopleOK, IsPlaceholder
<1>3. CASE NamesOf(k) # {}
  <2> DEFINE old == CHOOSE n \in NamesOf(k) : TRUE
             new == PreferredLabel(k, old, sender, aliases)
             moved == IF new # old /\ people[old] > 0
                      THEN [people EXCEPT ![old] = @ - 1, ![new] = @ + 1] ELSE people
  <2>1. /\ people_pubkeys' = Insert(Renamed(old, new), new, k)
        /\ people' = Listing(moved, new) /\ people'[new] <= MaxListed
    BY <1>3 DEF AddGeohashPerson
  <2>2. old \in NamesOf(k)
    BY <1>3
  <2> HIDE DEF old
  <2>3. old \in Label /\ old \in DOMAIN people_pubkeys /\ people_pubkeys[old] = k
    BY <1>1, <2>2 DEF NamesOf
  <2>4. /\ new \in Label /\ (k \in DOMAIN aliases => new = aliases[k])
        /\ IsPlaceholder(new) => new = k
    BY <2>3, LabelsAreNames
  <2>5. \A l \in DOMAIN people_pubkeys : people_pubkeys[l] = k => l = old
    BY <2>3 DEF PeopleOK, OneNamePerKey
  <2>6. people[old] > 0
    BY <2>3 DEF PeopleOK, KeyedAreListed
  <2> DEFINE rest == Renamed(old, new)
  <2>7. /\ rest \in PartialMap(Label, Keys)
        /\ DOMAIN rest = DOMAIN people_pubkeys \ {old}
        /\ \A l \in DOMAIN rest : rest[l] = people_pubkeys[l]
    <3>1. /\ DOMAIN rest = DOMAIN people_pubkeys \ {old}
          /\ \A l \in DOMAIN rest : rest[l] = people_pubkeys[l]
          /\ rest = [l \in DOMAIN rest |-> rest[l]]
      BY DEF Renamed
    <3> HIDE DEF rest
    <3> QED
      BY <1>1, <3>1, InPartialMap
  <2>8. /\ people_pubkeys' \in PartialMap(Label, Keys)
        /\ DOMAIN people_pubkeys' = DOMAIN rest \cup {new}
        /\ \A l \in DOMAIN rest \cup {new} :
              people_pubkeys'[l] = IF l = new THEN k ELSE rest[l]
    <3> HIDE DEF rest, new
    <3>1. people_pubkeys' = Insert(rest, new, k)
      BY <2>1 DEF rest
    <3>2. /\ Insert(rest, new, k) \in PartialMap(Label, Keys)
          /\ DOMAIN Insert(rest, new, k) = DOMAIN rest \cup {new}
          /\ \A l \in DOMAIN rest \cup {new} :
                Insert(rest, new, k)[l] = IF l = new THEN k ELSE rest[l]
      <4>1. Insert(rest, new, k) \in PartialMap(Label, Keys)
        BY <2>4, <2>7, InsertsEntry
      <4> QED
        BY <4>1 DEF Insert
    <3> QED
      BY <3>1, <3>2
  <2>9. /\ people' \in [Label -> 0..MaxListed] /\ people'[new] > 0
        /\ \A l \in Label \ {old, new} : people'[l] = people[l]
    <3> HIDE DEF new
    <3>1. CASE new = old
      BY <1>1, <2>1, <2>4, <3>1, Lists
    <3>2. CASE new # old
      <4>1. moved = [people EXCEPT ![old] = @ - 1, ![new] = @ + 1]
        BY <2>6, <3>2
      <4>2. /\ people[old] \in Nat /\ people[new] \in Nat /\ people[old] <= MaxListed
            /\ MaxListed \in Nat
        BY <1>1, <2>3, <2>4, DirectAssumption
      <4>3. moved[new] = people[new] + 1
        BY <1>1, <2>4, <3>2, <4>1
      <4>4. people' = moved
        BY <2>1, <4>2, <4>3 DEF Listing
      <4>5. people' = [people EXCEPT ![old] = people[old] - 1, ![new] = people[new] + 1]
        BY <1>1, <2>3, <2>4, <3>2, <4>1, <4>4
      <4>6. people[old] - 1 \in 0..MaxListed /\ people[new] + 1 \in 0..MaxListed
        <5>1. people[new] + 1 <= MaxListed
          BY <2>1, <4>3, <4>4
        <5> QED
          BY <2>6, <4>2, <5>1
      <4> QED
        BY <1>1, <2>3, <2>4, <4>2, <4>3, <4>4, <4>5, <4>6
    <3> QED
      BY <3>1, <3>2
  <2> HIDE DEF rest, new
  <2>10. \A l \in DOMAIN rest : rest[l] = people_pubkeys[l] /\ rest[l] # k
                               /\ l \in DOMAIN people_pubkeys /\ l \in Label \ {old}
    BY <1>1, <2>5, <2>7
  <2>11. OneNamePerKey'
    BY <2>8, <2>10 DEF PeopleOK, OneNamePerKey
  <2>12. KeyedAreListed'
    <3> SUFFICES ASSUME NEW l \in DOMAIN people_pubkeys' PROVE people'[l] > 0
      BY DEF KeyedAreListed
    <3>1. CASE l = new
      BY <2>9, <3>1
    <3>2. CASE l # new
      <4>1. l \in DOMAIN rest
        BY <2>8, <3>2
      <4> QED
        BY <2>9, <2>10, <3>2, <4>1 DEF PeopleOK, KeyedAreListed
    <3> QED
      BY <3>1, <3>2
  <2>13. Named(k, aliases)
    BY <2>4, <2>8, <2>10 DEF Named
  <2>14. \A l \in DOMAIN people_pubkeys' : IsPlaceholder(l) => people_pubkeys'[l] = l
    BY <2>4, <2>8, <2>10 DEF PeopleOK
  <2>15. ASSUME k \notin DOMAIN aliases, sender \in NamesOf(k)
         PROVE  sender \in DOMAIN people_pubkeys' /\ people_pubkeys'[sender] = k
    <3>1. sender = old
      BY <2>5, <2>15 DEF NamesOf
    <3>2. IsPlaceholder(old) => old = k
      BY <2>3 DEF PeopleOK
    <3>3. new = sender
      BY <2>15, <3>1, <3>2 DEF new, PreferredLabel, NewLabel
    <3> QED
      BY <2>8, <3>3
  <2> QED
    BY <2>8, <2>9, <2>11, <2>12, <2>13, <2>14, <2>15 DEF PeopleOK, IsPlaceholder
<1> QED
  BY <1>2, <1>3

-----------------------------------------------------------------------------
(* The names the client knows, the lookups and the open conversation.        *)
ClientOK ==
    /\ nostr_aliases \in PartialMap(Keys, Names)
    /\ people_by_pubkey \in PartialMap(Keys, Names)
    /\ looking \subseteq metadata_lookup_pubkeys /\ metadata_lookup_pubkeys \subseteq Keys
    /\ lookups \in 0..MaxLookups
ConversationOK == current_conv \in Keys \cup {None}

(* A person with an alias is listed under it, unless it was the user's own    *)
(* name.                                                                     *)
AliasShown ==
    \A l \in DOMAIN people_pubkeys :
      people_pubkeys[l] \in DOMAIN nostr_aliases \ namesakes
        => l = nostr_aliases[people_pubkeys[l]]
NamesOK ==
    /\ nickname \in Names /\ namesakes \subseteq Keys
    /\ Namesakes(nickname, nostr_aliases) \subseteq namesakes
    /\ AliasShown
ListOK == PeopleOK /\ ClientOK /\ ConversationOK /\ NamesOK

LEMMA SameList ==
  ASSUME PeopleOK, NamesOK, UNCHANGED <<peopleVars, nameVars>>
  PROVE  PeopleOK' /\ NamesOK'
<1> QED
  BY DEF PeopleOK, OneNamePerKey, KeyedAreListed, NamesOK, AliasShown, Namesakes, peopleVars,
         nameVars

(* add_geohash_person as every caller but /name uses it.                     *)
LEMMA AddKeeps ==
  ASSUME PeopleOK, NamesOK, ClientOK, NEW k \in Keys, NEW sender \in Label,
         AddGeohashPerson(sender, k, nostr_aliases), UNCHANGED nameVars
  PROVE  PeopleOK' /\ NamesOK'
<1>1. CASE sender = nickname
  BY <1>1, SameList DEF AddGeohashPerson
<1>2. CASE sender # nickname
  <2>1. PeopleOK' /\ Named(k, nostr_aliases)
    BY <1>2, AddsPerson DEF ClientOK
  <2>2. /\ nickname' = nickname /\ nostr_aliases' = nostr_aliases
        /\ namesakes' = namesakes
    BY DEF nameVars
  <2>3. AliasShown'
    BY <2>1, <2>2 DEF NamesOK, AliasShown, Named
  <2> QED
    BY <2>1, <2>2, <2>3 DEF NamesOK, Namesakes
<1> QED
  BY <1>1, <1>2

LEMMA Updates ==
  ASSUME PeopleOK, NamesOK, ClientOK, NEW k \in Keys, NEW n \in Label,
         UpdateKnownPerson(k, n), UNCHANGED nameVars
  PROVE  PeopleOK' /\ NamesOK' /\ people_by_pubkey' \in PartialMap(Keys, Names)
<1>1. PeopleOK' /\ NamesOK'
  BY AddKeeps DEF UpdateKnownPerson
<1>2. CASE IsPlaceholder(n)
  BY <1>1, <1>2 DEF UpdateKnownPerson, ClientOK
<1>3. CASE ~IsPlaceholder(n)
  <2>1. n \in Names /\ people_by_pubkey' = Insert(people_by_pubkey, k, n)
    BY <1>3 DEF UpdateKnownPerson, IsPlaceholder, Label
  <2>2. Insert(people_by_pubkey, k, n) \in PartialMap(Keys, Names)
    BY <2>1, InsertsEntry DEF ClientOK
  <2> QED
    BY <1>1, <2>1, <2>2
<1> QED
  BY <1>2, <1>3

LEMMA Schedules ==
  ASSUME ClientOK, NEW k \in Keys, ScheduleLookup(k)
  PROVE  /\ looking' \subseteq metadata_lookup_pubkeys' /\ metadata_lookup_pubkeys' \subseteq Keys
         /\ lookups' \in 0..MaxLookups
<1>1. CASE UNCHANGED <<metadata_lookup_pubkeys, looking, lookups>>
  BY <1>1 DEF ClientOK
<1>2. CASE /\ NotedLookup(k) /\ looking' = looking \cup {k} /\ lookups' = lookups + 1
           /\ lookups # MaxLookups
  BY <1>2, DirectAssumption DEF ClientOK, NotedLookup
<1> QED
  BY <1>1, <1>2 DEF ScheduleLookup

(* What a task of the client does keeps the list and the client in order.     *)
LEMMA ClientKeepsList ==
  ASSUME ListOK, NEW k \in Keys,
         \/ TextWithout(k) \/ LookupFails(k)
         \/ \E n \in Names \cup {k} : TextWithNickname(k, n)
         \/ \E n \in Names : LookupFinds(k, n)
  PROVE  ListOK' /\ UNCHANGED sendVars /\ namesakes' = namesakes
<1> USE DEF ListOK, ConversationOK
<1>1. /\ k \in Label /\ UNCHANGED nameVars /\ UNCHANGED sendVars
      /\ current_conv' = current_conv
  BY DEF Label, TextWithout, LookupFails, TextWithNickname, LookupFinds
<1>2. nostr_aliases' = nostr_aliases /\ namesakes' = namesakes
  BY <1>1 DEF nameVars
<1>3. CASE TextWithout(k)
  <2>1. CASE k \in DOMAIN people_by_pubkey
    <3>1. people_by_pubkey[k] \in Label
      BY <2>1, InPartialMap DEF ClientOK, Label
    <3>2. AddGeohashPerson(people_by_pubkey[k], k, nostr_aliases) /\ UNCHANGED clientVars
      BY <1>3, <2>1 DEF TextWithout
    <3>3. PeopleOK' /\ NamesOK'
      BY <1>1, <3>1, <3>2, AddKeeps
    <3> QED
      BY <1>1, <1>2, <3>2, <3>3 DEF ClientOK, clientVars
  <2>2. CASE k \notin DOMAIN people_by_pubkey
    <3>1. UpdateKnownPerson(k, k) /\ ScheduleLookup(k)
      BY <1>3, <2>2 DEF TextWithout
    <3>2. PeopleOK' /\ NamesOK' /\ people_by_pubkey' \in PartialMap(Keys, Names)
      BY <1>1, <3>1, Updates
    <3> QED
      BY <1>1, <1>2, <3>1, <3>2, Schedules DEF ClientOK
  <2> QED
    BY <2>1, <2>2
<1>4. CASE LookupFails(k)
  <2>1. PeopleOK' /\ NamesOK'
    BY <1>4, SameList DEF LookupFails
  <2> QED
    BY <1>1, <1>2, <1>4, <2>1 DEF LookupFails, ClientOK
<1>5. ASSUME NEW n \in Names \cup {k}, TextWithNickname(k, n)
      PROVE  ListOK' /\ UNCHANGED sendVars /\ namesakes' = namesakes
  <2>1. PeopleOK' /\ NamesOK' /\ people_by_pubkey' \in PartialMap(Keys, Names)
    BY <1>1, <1>5, Updates DEF TextWithNickname, Label
  <2>2. ScheduleLookup(k) \/ UNCHANGED <<metadata_lookup_pubkeys, looking, lookups>>
    BY <1>5 DEF TextWithNickname
  <2> QED
    BY <1>1, <1>2, <2>1, <2>2, Schedules DEF ClientOK
<1>6. ASSUME NEW n \in Names, LookupFinds(k, n)
      PROVE  ListOK' /\ UNCHANGED sendVars /\ namesakes' = namesakes
  <2>1. PeopleOK' /\ NamesOK' /\ people_by_pubkey' \in PartialMap(Keys, Names)
    BY <1>1, <1>6, Updates DEF LookupFinds, Label
  <2> QED
    BY <1>1, <1>2, <1>6, <2>1 DEF LookupFinds, ClientOK
<1> QED
  BY <1>3, <1>4, <1>5, <1>6

-----------------------------------------------------------------------------
(* What the user does to the list.                                           *)

LEMMA NameLeads ==
  ASSUME PeopleOK, NEW n \in Label
  PROVE  PubkeyOf(n) \in Keys \cup {None}
<1> QED
  BY InPartialMap DEF PeopleOK, PubkeyOf, IsPlaceholder

LEMMA SelectKeeps ==
  ASSUME ListOK, NEW n \in Label, Select(n)
  PROVE  ListOK' /\ UNCHANGED sendVars /\ namesakes' = namesakes
<1>1. /\ current_conv' = PubkeyOf(n) /\ PubkeyOf(n) # None
      /\ UNCHANGED <<nameVars, clientVars, sendVars>>
      /\ AddGeohashPerson(n, PubkeyOf(n), nostr_aliases) \/ UNCHANGED peopleVars
  BY DEF Select
<1>2. PubkeyOf(n) \in Keys
  BY <1>1, NameLeads DEF ListOK
<1>3. PeopleOK' /\ NamesOK'
  BY <1>1, <1>2, AddKeeps, SameList DEF ListOK
<1> QED
  BY <1>1, <1>2, <1>3 DEF ListOK, ClientOK, ConversationOK, clientVars, nameVars

LEMMA AliasKeeps ==
  ASSUME ListOK, NEW n \in Label, NEW alias \in Names, SetAlias(n, alias)
  PROVE  ListOK' /\ UNCHANGED sendVars /\ namesakes \subseteq namesakes'
<1> DEFINE k == PubkeyOf(n)
           aliases == Insert(nostr_aliases, k, alias)
<1>1. /\ nostr_aliases' = aliases /\ AddGeohashPerson(alias, k, aliases)
      /\ namesakes' = namesakes \cup Namesakes(nickname, aliases)
      /\ k # None /\ UNCHANGED <<nickname, clientVars, current_conv, sendVars>>
  BY DEF SetAlias
<1>2. k \in Keys
  BY <1>1, NameLeads DEF ListOK
<1> HIDE DEF k
<1>3. /\ aliases \in PartialMap(Keys, Names)
      /\ DOMAIN aliases = DOMAIN nostr_aliases \cup {k} /\ aliases[k] = alias
      /\ \A q \in DOMAIN nostr_aliases : q # k => aliases[q] = nostr_aliases[q]
  <2>1. aliases \in PartialMap(Keys, Names)
    BY <1>2, InsertsEntry DEF ListOK, ClientOK
  <2> QED
    BY <2>1 DEF Insert
<1>4. DOMAIN aliases \subseteq Keys
  BY <1>3, InPartialMap
<1> HIDE DEF aliases
<1>5. /\ nickname' \in Names /\ namesakes' \subseteq Keys
      /\ Namesakes(nickname', nostr_aliases') \subseteq namesakes'
  BY <1>1, <1>4 DEF ListOK, NamesOK, Namesakes
<1>6. ASSUME alias = nickname PROVE PeopleOK' /\ NamesOK'
  <2>1. k \in namesakes'
    BY <1>1, <1>3, <1>6 DEF Namesakes
  <2>2. people_pubkeys' = people_pubkeys /\ people' = people
    BY <1>1, <1>6 DEF AddGeohashPerson, peopleVars
  <2>3. PeopleOK'
    BY <2>2 DEF ListOK, PeopleOK, OneNamePerKey, KeyedAreListed
  <2>4. AliasShown'
    <3> SUFFICES ASSUME NEW l \in DOMAIN people_pubkeys,
                        people_pubkeys[l] \in DOMAIN aliases \ namesakes'
                 PROVE  l = aliases[people_pubkeys[l]]
      BY <1>1, <2>2 DEF AliasShown
    <3>1. people_pubkeys[l] # k /\ people_pubkeys[l] \in DOMAIN nostr_aliases \ namesakes
      BY <1>1, <1>3, <2>1
    <3> QED
      BY <1>3, <3>1 DEF ListOK, NamesOK, AliasShown
  <2> QED
    BY <1>5, <2>3, <2>4 DEF NamesOK
<1>7. ASSUME alias # nickname PROVE PeopleOK' /\ NamesOK'
  <2>1. PeopleOK' /\ Named(k, aliases)
    BY <1>1, <1>2, <1>3, <1>7, AddsPerson DEF ListOK, Label
  <2>2. AliasShown'
    <3> SUFFICES ASSUME NEW l \in DOMAIN people_pubkeys',
                        people_pubkeys'[l] \in DOMAIN aliases \ namesakes'
                 PROVE  l = aliases[people_pubkeys'[l]]
      BY <1>1 DEF AliasShown
    <3>1. CASE people_pubkeys'[l] = k
      BY <1>3, <2>1, <3>1 DEF Named
    <3>2. CASE people_pubkeys'[l] # k
      <4>1. l \in DOMAIN people_pubkeys /\ people_pubkeys'[l] = people_pubkeys[l]
        BY <2>1, <3>2 DEF Named
      <4>2. people_pubkeys[l] \in DOMAIN nostr_aliases \ namesakes
        BY <1>1, <1>3, <3>2, <4>1
      <4> QED
        BY <1>3, <3>2, <4>1, <4>2 DEF ListOK, NamesOK, AliasShown
    <3> QED
      BY <3>1, <3>2
  <2> QED
    BY <1>5, <2>1, <2>2 DEF NamesOK
<1>8. PeopleOK' /\ NamesOK'
  BY <1>6, <1>7
<1> QED
  BY <1>1, <1>3, <1>8 DEF ListOK, ClientOK, ConversationOK, clientVars

LEMMA NicknameKeeps ==
  ASSUME ListOK, NEW n \in Names, UpdateNickname(n)
  PROVE  ListOK' /\ UNCHANGED sendVars /\ namesakes \subseteq namesakes'
<1>1. /\ nickname' = n /\ namesakes' = namesakes \cup Namesakes(n, nostr_aliases)
      /\ people_pubkeys' = people_pubkeys /\ people' = people
      /\ nostr_aliases' = nostr_aliases
      /\ UNCHANGED <<clientVars, current_conv, sendVars>>
  BY DEF UpdateNickname, peopleVars
<1>2. PeopleOK'
  BY <1>1 DEF ListOK, PeopleOK, OneNamePerKey, KeyedAreListed
<1>3. DOMAIN nostr_aliases \subseteq Keys
  BY InPartialMap DEF ListOK, ClientOK
<1>4. NamesOK'
  BY <1>1, <1>3 DEF ListOK, NamesOK, AliasShown, Namesakes
<1> QED
  BY <1>1, <1>2, <1>4 DEF ListOK, ClientOK, ConversationOK, clientVars

(* /dm opens the thread of the key it encrypts for, if the user did not give  *)
(* that person their own name.                                               *)
LEMMA DmKeeps ==
  ASSUME ListOK, NEW t \in Label, NEW m \in Messages, CommandDm(t, m)
  PROVE  /\ ListOK' /\ namesakes' = namesakes
         /\ \E k \in Keys, open \in Keys \cup {None} :
              (open = k \/ k \in namesakes) /\ QueueSend(m, open, k)
<1>1. PICK target \in Targets(t) :
         /\ AddGeohashPerson(target.label, target.key, nostr_aliases)
         /\ current_conv' = Opened(target.label)
         /\ QueueSend(m, current_conv', target.key)
         /\ UNCHANGED <<nameVars, clientVars>>
  BY DEF CommandDm
<1> DEFINE k == target.key
           l == target.label
<1>2. /\ DOMAIN people_pubkeys \subseteq Label /\ DOMAIN nostr_aliases \subseteq Keys
      /\ \A n \in DOMAIN people_pubkeys : people_pubkeys[n] \in Keys
      /\ \A q \in DOMAIN nostr_aliases : nostr_aliases[q] \in Names
  BY InPartialMap DEF ListOK, PeopleOK, ClientOK
<1>3. /\ k \in Keys /\ l \in Label
      /\ \/ l \in DOMAIN people_pubkeys /\ people_pubkeys[l] = k
         \/ k \in DOMAIN nostr_aliases /\ l = nostr_aliases[k]
  BY <1>2 DEF Targets, Target, AliasedAs, NamesOf, Label
<1> HIDE DEF k, l
<1>4. /\ AddGeohashPerson(l, k, nostr_aliases) /\ QueueSend(m, current_conv', k)
      /\ current_conv' = Opened(l) /\ UNCHANGED <<nameVars, clientVars>>
  BY <1>1 DEF k, l
<1>5. PeopleOK' /\ NamesOK'
  BY <1>3, <1>4, AddKeeps DEF ListOK
<1>6. \A n \in Label : PubkeyOf(n)' \in Keys \cup {None}
  <2>1. \A n \in DOMAIN people_pubkeys' : people_pubkeys'[n] \in Keys
    BY <1>5, InPartialMap DEF PeopleOK
  <2> QED
    BY <2>1 DEF PubkeyOf, IsPlaceholder
<1>7. current_conv' \in Keys \cup {None}
  BY <1>3, <1>4, <1>6 DEF Opened, ListOK, ConversationOK
<1>8. ASSUME k \notin namesakes PROVE current_conv' = k
  <2>1. l \in DOMAIN people_pubkeys' /\ people_pubkeys'[l] = k
    <3>1. CASE l = nickname
      <4>1. l \in DOMAIN people_pubkeys /\ people_pubkeys[l] = k
        BY <1>3, <1>8, <3>1 DEF ListOK, NamesOK, Namesakes
      <4> QED
        BY <1>4, <3>1, <4>1 DEF AddGeohashPerson, peopleVars
    <3>2. CASE l # nickname
      <4>1. /\ Named(k, nostr_aliases)
            /\ k \notin DOMAIN nostr_aliases /\ l \in NamesOf(k)
                 => l \in DOMAIN people_pubkeys' /\ people_pubkeys'[l] = k
        BY <1>3, <1>4, <3>2, AddsPerson DEF ListOK, ClientOK
      <4>2. CASE k \in DOMAIN nostr_aliases
        <5>1. l = nostr_aliases[k]
          BY <1>3, <1>8, <4>2 DEF ListOK, NamesOK, AliasShown
        <5> QED
          BY <4>1, <4>2, <5>1 DEF Named
      <4>3. CASE k \notin DOMAIN nostr_aliases
        BY <1>3, <4>1, <4>3 DEF NamesOf
      <4> QED
        BY <4>2, <4>3
    <3> QED
      BY <3>1, <3>2
  <2>2. PubkeyOf(l)' = k /\ people'[l] > 0
    BY <1>5, <2>1 DEF PubkeyOf, PeopleOK, KeyedAreListed
  <2>3. k # None
    BY <1>3, DirectAssumption
  <2> QED
    BY <1>3, <1>4, <2>2, <2>3 DEF Opened
<1>9. ListOK' /\ namesakes' = namesakes
  BY <1>4, <1>5, <1>7 DEF ListOK, ClientOK, ConversationOK, clientVars, nameVars
<1> QED
  BY <1>3, <1>4, <1>7, <1>8, <1>9

LEMMA ReplyKeeps ==
  ASSUME ListOK, NEW m \in Messages, CommandReply(m) \/ TypedLine(m)
  PROVE  /\ ListOK' /\ namesakes' = namesakes
         /\ \E k \in Keys : QueueSend(m, k, k)
<1>1. current_conv \in Keys /\ QueueSend(m, current_conv, current_conv)
  BY DEF ListOK, ConversationOK, CommandReply, TypedLine
<1>2. UNCHANGED <<nameVars, clientVars, current_conv>>
  BY DEF CommandReply, TypedLine
<1>3. PeopleOK' /\ NamesOK'
  <2>1. CASE CommandReply(m)
    BY <1>1, <1>2, <2>1, AddKeeps DEF CommandReply, ListOK, Label
  <2>2. CASE TypedLine(m)
    BY <1>2, <2>2, SameList DEF TypedLine, ListOK
  <2> QED
    BY <2>1, <2>2
<1> QED
  BY <1>1, <1>2, <1>3 DEF ListOK, ClientOK, ConversationOK, clientVars, nameVars

-----------------------------------------------------------------------------
(* The messages.                                                             *)

SendTypes ==
    /\ thread \in [Messages -> Keys \cup {None}] /\ recipient \in [Messages -> Keys \cup {None}]
    /\ status \in [Messages -> {"sending", "failed", "delivered", "read"}]
    /\ task \in [Messages -> {"none", "waiting", "publishing", "done"}]
    /\ stored \in [Messages -> SUBSET MergeRelays]
    /\ news \in [Messages -> SUBSET {"failed", "delivered", "read"}]

(* A message that was not published is on no relay, and there is no news of  *)
(* it; one that was not written is in no thread.                             *)
Unsent ==
    \A m \in Messages :
      /\ task[m] \in {"none", "waiting"} => stored[m] = {} /\ news[m] = {}
      /\ task[m] = "none" => status[m] = "sending"
SendOK == SendTypes /\ Unsent /\ StatusIsBestNews /\ InThreadOfRecipient

(* should_apply_dm_status keeps the best of the news: the order in which     *)
(* they come does not matter.                                                *)
LEMMA BestIsKept ==
  ASSUME NEW lines \in SUBSET {"failed", "delivered", "read"},
         NEW next \in {"failed", "delivered", "read"}
  PROVE  Best(lines \cup {next}) = IF ShouldApply(Best(lines), next) THEN next ELSE Best(lines)
<1>1. CASE next = "read"
  BY <1>1 DEF Best, ShouldApply
<1>2. CASE next = "delivered"
  BY <1>2 DEF Best, ShouldApply
<1>3. CASE next = "failed"
  BY <1>3 DEF Best, ShouldApply
<1> QED
  BY <1>1, <1>2, <1>3

(* A line of status about a message that was published.                      *)
LEMMA StatusKeeps ==
  ASSUME SendOK, NEW m \in Messages, NEW next \in {"failed", "delivered", "read"},
         UpdateStatus(m, next), UNCHANGED <<thread, recipient, stored, namesakes>>,
         task[m] \in {"publishing", "done"},
         task' = task \/ task' = [task EXCEPT ![m] = "done"]
  PROVE  SendOK'
<1>1. \/ UNCHANGED <<status, news>> /\ thread[m] = None
      \/ /\ status' = IF ShouldApply(status[m], next)
                      THEN [status EXCEPT ![m] = next] ELSE status
         /\ news' = [news EXCEPT ![m] = @ \cup {next}] /\ thread[m] # None
  BY DEF UpdateStatus
<1>2. SendTypes'
  BY <1>1 DEF SendOK, SendTypes
<1>3. \A o \in Messages : o # m => /\ status'[o] = status[o] /\ news'[o] = news[o]
                                  /\ task'[o] = task[o]
  BY <1>1 DEF SendOK, SendTypes
<1>4. task'[m] \in {"publishing", "done"}
  BY DEF SendOK, SendTypes
<1>5. Unsent'
  BY <1>3, <1>4 DEF SendOK, Unsent
<1>6. thread[m] # None => status'[m] = Best(news'[m])
  <2> SUFFICES ASSUME thread[m] # None PROVE status'[m] = Best(news'[m])
    OBVIOUS
  <2>1. status[m] = Best(news[m]) /\ news[m] \in SUBSET {"failed", "delivered", "read"}
    BY DEF SendOK, StatusIsBestNews, SendTypes
  <2>2. news'[m] = news[m] \cup {next}
    BY <1>1 DEF SendOK, SendTypes
  <2>3. status'[m] = IF ShouldApply(status[m], next) THEN next ELSE status[m]
    BY <1>1 DEF SendOK, SendTypes
  <2>4. Best(news[m] \cup {next})
          = IF ShouldApply(Best(news[m]), next) THEN next ELSE Best(news[m])
    BY <2>1, BestIsKept
  <2> QED
    BY <2>1, <2>2, <2>3, <2>4
<1>7. StatusIsBestNews'
  BY <1>3, <1>6 DEF SendOK, StatusIsBestNews
<1>8. InThreadOfRecipient'
  BY DEF SendOK, InThreadOfRecipient
<1> QED
  BY <1>2, <1>5, <1>7, <1>8 DEF SendOK

LEMMA QueueKeeps ==
  ASSUME SendOK, NEW m \in Messages, NEW k \in Keys, NEW open \in Keys \cup {None},
         open = k \/ k \in namesakes, QueueSend(m, open, k), namesakes' = namesakes
  PROVE  SendOK'
<1>1. /\ task[m] = "none" /\ task' = [task EXCEPT ![m] = "waiting"]
      /\ recipient' = [recipient EXCEPT ![m] = k] /\ thread' = [thread EXCEPT ![m] = open]
      /\ UNCHANGED <<status, stored, news>>
  BY DEF QueueSend
<1>2. SendTypes'
  BY <1>1 DEF SendOK, SendTypes
<1>3. /\ task'[m] = "waiting" /\ recipient'[m] = k /\ thread'[m] = open
      /\ \A o \in Messages : o # m => /\ task'[o] = task[o] /\ recipient'[o] = recipient[o]
                                      /\ thread'[o] = thread[o]
  BY <1>1 DEF SendOK, SendTypes
<1>4. stored[m] = {} /\ news[m] = {} /\ status[m] = "sending"
  BY <1>1 DEF SendOK, Unsent
<1>5. Unsent'
  BY <1>1, <1>3, <1>4 DEF SendOK, Unsent
<1>6. StatusIsBestNews'
  BY <1>1, <1>3, <1>4 DEF SendOK, StatusIsBestNews, Best
<1>7. InThreadOfRecipient'
  BY <1>3 DEF SendOK, InThreadOfRecipient
<1> QED
  BY <1>2, <1>5, <1>6, <1>7 DEF SendOK

LEMMA PublishKeeps ==
  ASSUME SendOK, NEW m \in Messages, Publish(m), namesakes' = namesakes
  PROVE  SendOK'
<1>1. PICK taken \in SUBSET MergeRelays : stored' = [stored EXCEPT ![m] = taken]
  BY DEF Publish
<1>2. task' = [task EXCEPT ![m] = "publishing"] /\ UNCHANGED <<thread, status, recipient, news>>
  BY DEF Publish
<1>3. SendTypes'
  BY <1>1, <1>2 DEF SendOK, SendTypes
<1>4. /\ task'[m] = "publishing"
      /\ \A o \in Messages : o # m => task'[o] = task[o] /\ stored'[o] = stored[o]
  BY <1>1, <1>2 DEF SendOK, SendTypes
<1>5. Unsent'
  BY <1>2, <1>4 DEF SendOK, Unsent
<1> QED
  BY <1>2, <1>3, <1>5 DEF SendOK, StatusIsBestNews, InThreadOfRecipient

(* After the user left the channel no message is in a thread.                *)
LEMMA LeaveKeeps ==
  ASSUME ListOK, SendOK, LeaveChannel
  PROVE  ListOK' /\ SendOK'
<1>1. /\ people_pubkeys' = NoEntries /\ people' = [n \in Label |-> 0]
      /\ thread' = [m \in Messages |-> None] /\ current_conv' = None
      /\ recipient' = [m \in Messages |-> None]
      /\ status' = [m \in Messages |-> "sending"] /\ news' = [m \in Messages |-> {}]
      /\ UNCHANGED <<nameVars, clientVars, task, stored>>
  BY DEF LeaveChannel
<1>2. people_pubkeys' \in PartialMap(Label, Keys) /\ DOMAIN people_pubkeys' = {}
  BY <1>1, EmptyIsMap DEF NoEntries
<1>3. PeopleOK'
  BY <1>1, <1>2, DirectAssumption DEF PeopleOK, OneNamePerKey, KeyedAreListed
<1>4. NamesOK'
  BY <1>1, <1>2 DEF ListOK, NamesOK, AliasShown, Namesakes, nameVars
<1>5. ListOK'
  BY <1>1, <1>3, <1>4 DEF ListOK, ClientOK, ConversationOK, clientVars, nameVars
<1>6. SendOK'
  BY <1>1 DEF SendOK, SendTypes, Unsent, StatusIsBestNews, InThreadOfRecipient
<1> QED
  BY <1>5, <1>6

-----------------------------------------------------------------------------
(* The invariant.                                                            *)
IInv == ListOK /\ SendOK

LEMMA IInvImplies == IInv => TypeOK /\ StatusIsBestNews /\ NamesLeadToKeys
  BY DEF IInv, ListOK, PeopleOK, ClientOK, ConversationOK, SendOK, SendTypes, TypeOK,
         NamesOK, NamesLeadToKeys

LEMMA InitIInv == Init => IInv
<1> SUFFICES ASSUME Init PROVE IInv
  OBVIOUS
<1>1. /\ people_pubkeys = NoEntries /\ people = [n \in Label |-> 0]
      /\ nickname \in Names /\ nostr_aliases = NoEntries /\ namesakes = {}
      /\ people_by_pubkey = NoEntries
      /\ metadata_lookup_pubkeys = {} /\ looking = {} /\ lookups = 0 /\ current_conv = None
  BY DEF Init
<1>2. DOMAIN people_pubkeys = {} /\ DOMAIN nostr_aliases = {}
  BY <1>1 DEF NoEntries
<1>3. ListOK
  BY <1>1, <1>2, EmptyIsMap, DirectAssumption
  DEF ListOK, PeopleOK, ClientOK, ConversationOK, OneNamePerKey, KeyedAreListed, NamesOK,
      AliasShown, Namesakes
<1>4. SendOK
  BY DEF Init, SendOK, SendTypes, Unsent, StatusIsBestNews, InThreadOfRecipient
<1> QED
  BY <1>3, <1>4 DEF IInv

LEMMA NextIInv == IInv /\ [Next]_vars => IInv'
<1> SUFFICES ASSUME IInv, [Next]_vars PROVE IInv'
  OBVIOUS
<1> USE DEF IInv
<1>1. ASSUME UNCHANGED sendVars, namesakes \subseteq namesakes' PROVE SendOK'
  BY <1>1 DEF sendVars, SendOK, SendTypes, Unsent, StatusIsBestNews, InThreadOfRecipient
<1>2. ASSUME UNCHANGED <<peopleVars, nameVars, clientVars, current_conv>> PROVE ListOK'
  <2>1. PeopleOK' /\ NamesOK'
    BY <1>2, SameList DEF ListOK
  <2> QED
    BY <1>2, <2>1 DEF ListOK, ClientOK, ConversationOK, clientVars, nameVars
<1>3. ASSUME NEW k \in Keys,
             \/ TextWithout(k) \/ LookupFails(k)
             \/ \E n \in Names \cup {k} : TextWithNickname(k, n)
             \/ \E n \in Names : LookupFinds(k, n)
      PROVE  IInv'
  BY <1>1, <1>3, ClientKeepsList
<1>4. ASSUME NEW n \in Label, Select(n) PROVE IInv'
  BY <1>1, <1>4, SelectKeeps
<1>5. ASSUME NEW n \in Label, NEW alias \in Names, SetAlias(n, alias) PROVE IInv'
  BY <1>1, <1>5, AliasKeeps
<1>6. ASSUME NEW m \in Messages, NEW t \in Label, CommandDm(t, m) PROVE IInv'
  BY <1>6, DmKeeps, QueueKeeps
<1>7. ASSUME NEW m \in Messages, CommandReply(m) \/ TypedLine(m) PROVE IInv'
  BY <1>7, ReplyKeeps, QueueKeeps
<1>8. ASSUME NEW m \in Messages, Publish(m) PROVE IInv'
  BY <1>2, <1>8, PublishKeeps DEF Publish, nameVars
<1>9. ASSUME NEW m \in Messages, PublishEnds(m) PROVE IInv'
  <2>1. PICK next \in {"failed", "delivered", "read"} : UpdateStatus(m, next)
    BY <1>9 DEF PublishEnds
  <2>2. /\ task[m] \in {"publishing", "done"} /\ task' = [task EXCEPT ![m] = "done"]
        /\ UNCHANGED <<thread, recipient, stored, namesakes>>
    BY <1>9 DEF PublishEnds, nameVars
  <2>3. SendOK'
    BY <2>1, <2>2, StatusKeeps
  <2> QED
    BY <1>2, <1>9, <2>3 DEF PublishEnds
<1>10. ASSUME NEW m \in Messages, NEW kind \in {"delivered", "read"}, Receipt(m, kind)
       PROVE  IInv'
  <2>1. UpdateStatus(m, kind) /\ UNCHANGED <<thread, recipient, stored, task, namesakes>>
    BY <1>10 DEF Receipt, nameVars
  <2>2. task[m] \in {"publishing", "done"}
    BY <1>10 DEF Receipt, SendOK, Unsent, SendTypes
  <2>3. SendOK'
    BY <2>1, <2>2, StatusKeeps
  <2> QED
    BY <1>2, <1>10, <2>3 DEF Receipt
<1>11. CASE LeaveChannel
  BY <1>11, LeaveKeeps
<1>12. CASE UNCHANGED vars
  BY <1>1, <1>2, <1>12 DEF vars, nameVars
<1>13. ASSUME NEW n \in Names, UpdateNickname(n) PROVE IInv'
  BY <1>1, <1>13, NicknameKeeps
<1> QED
  BY <1>3, <1>4, <1>5, <1>6, <1>7, <1>8, <1>9, <1>10, <1>11, <1>12, <1>13 DEF Next

(* IInv is an invariant of the specification.                                *)
THEOREM Invariant == Spec => []IInv
<1> QED
  BY InitIInv, NextIInv, PTL DEF Spec

(* The list, the client and the messages keep their types; a lookup runs only *)
(* for a key whose entry keeps others from starting                           *)
(* (schedule_metadata_lookup).                                                *)
THEOREM TypeCorrect == Spec => []TypeOK
<1>1. IInv => TypeOK
  BY IInvImplies
<1> QED
  BY <1>1, Invariant, PTL

(* For any number of messages, relays and receipts, in any order: the status  *)
(* a thread shows is the best news there has been (should_apply_dm_status).   *)
THEOREM BestNewsShown == Spec => []StatusIsBestNews
<1>1. IInv => StatusIsBestNews
  BY IInvImplies
<1> QED
  BY <1>1, Invariant, PTL

(* Whatever names come from any number of people, profiles and aliases: a key *)
(* has one name, which is listed, and a message is in the thread of the key   *)
(* it is encrypted for, unless the user gave that person a name they had      *)
(* themselves (add_geohash_person, switch_to_geohash_dm).                     *)
THEOREM NamesLead == Spec => []NamesLeadToKeys
<1>1. IInv => NamesLeadToKeys
  BY IInvImplies
<1> QED
  BY <1>1, Invariant, PTL
=============================================================================
