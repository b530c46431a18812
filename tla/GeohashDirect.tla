----------------------------- MODULE GeohashDirect -----------------------------
(***************************************************************************)
(* Private messages in one geohash channel: who is listed under which name  *)
(* (tui/app.rs), what the Nostr client learns about them (nostr_geo.rs),    *)
(* and what becomes of the status of a message whose relays and recipient   *)
(* answer in any order.                                                     *)
(*                                                                          *)
(* A name that only shows a key ("npub...", the hexadecimal key, "anon#..") *)
(* is the key itself here.  Lines reach the user interface when they are    *)
(* sent: GeohashChannels has the queue between them.                        *)
(***************************************************************************)
EXTENDS Naturals, FiniteSets

CONSTANTS
    Keys,           \* the keys of the others in the channel
    Names,          \* names they and the user give
    Messages,       \* private messages of the user
    PublicRelays,   \* relays_by_geohash
    DmRelays,       \* dm_relays
    None,
    MaxLookups,     \* bound: lookups of a name in a profile
    MaxListed       \* bound: how often the sidebar may list one name

ASSUME DirectAssumption ==
    /\ Keys \cap Names = {} /\ None \notin Keys \cup Names
    /\ IsFiniteSet(Keys) /\ IsFiniteSet(Names)
    /\ MaxLookups \in Nat /\ MaxListed \in Nat \ {0}

VARIABLES
    people_pubkeys, \* name -> key
    people,         \* people[n]: how often the sidebar lists n
    nickname,       \* the user's own name
    nostr_aliases,  \* key -> the name the user gave
    namesakes,      \* history: keys the user gave the nickname they had themselves
    people_by_pubkey, \* key -> the name the client knows
    metadata_lookup_pubkeys,
    looking,        \* keys with a lookup task running
    current_conv,   \* the key whose thread is open
    thread,         \* thread[m]: the key whose thread in dm_messages holds m
    status,         \* status[m]: its MessageStatus there
    task,           \* task[m]: the spawned task that sends m
    stored,         \* stored[m]: relays that took the event
    recipient,      \* history: recipient[m]: the key m is encrypted for
    news,           \* history: news[m]: the status lines about m in its thread
    lookups         \* for the bound

peopleVars == <<people_pubkeys, people>>
nameVars   == <<nickname, nostr_aliases, namesakes>>
clientVars == <<people_by_pubkey, metadata_lookup_pubkeys, looking, lookups>>
sendVars   == <<thread, status, task, stored, recipient, news>>
vars == <<peopleVars, nameVars, clientVars, current_conv, sendVars>>

Label == Names \cup Keys
IsPlaceholder(n) == n \in Keys

NoEntries == [x \in {} |-> x]
Insert(f, x, y) == [z \in DOMAIN f \cup {x} |-> IF z = x THEN y ELSE f[z]]

-----------------------------------------------------------------------------
(* Names                                                                     *)

(* resolve_geohash_target_pubkey                                             *)
PubkeyOf(n) ==
    IF n \in DOMAIN people_pubkeys THEN people_pubkeys[n]
    ELSE IF IsPlaceholder(n) THEN n ELSE None

NamesOf(k) == {n \in DOMAIN people_pubkeys : people_pubkeys[n] = k}

(* add_geohash_person for a new key and for one that has the name "old"       *)
NewLabel(k, sender, aliases) ==
    IF k \in DOMAIN aliases THEN aliases[k] ELSE IF IsPlaceholder(sender) THEN k ELSE sender
PreferredLabel(k, old, sender, aliases) ==
    IF k \in DOMAIN aliases THEN aliases[k]
    ELSE IF IsPlaceholder(old) THEN NewLabel(k, sender, aliases) ELSE old

RenamedTwice(old, new) == people_pubkeys    \* mutant: the old name stays
Renamed(old, new) == [n \in DOMAIN people_pubkeys \ {old} |-> people_pubkeys[n]]

Listing(count, n) == IF count[n] = 0 THEN [count EXCEPT ![n] = 1] ELSE count

(* Nobody is listed on a line that bears the user's own name.                *)
AddGeohashPerson(sender, k, aliases) ==
    IF sender = nickname THEN UNCHANGED peopleVars
    ELSE IF NamesOf(k) = {}
    THEN LET new == NewLabel(k, sender, aliases)
         IN  /\ people_pubkeys' = Insert(people_pubkeys, new, k)
             /\ people' = Listing(people, new)
    ELSE LET old == CHOOSE n \in NamesOf(k) : TRUE
             new == PreferredLabel(k, old, sender, aliases)
             moved == IF new # old /\ people[old] > 0
                      THEN [people EXCEPT ![old] = @ - 1, ![new] = @ + 1] ELSE people
         IN  /\ people_pubkeys' = Insert(Renamed(old, new), new, k)
             /\ people' = Listing(moved, new) /\ people'[new] <= MaxListed

(* update_known_person                                                       *)
UpdateKnownPerson(k, n) ==
    /\ people_by_pubkey' = IF IsPlaceholder(n) THEN people_by_pubkey
                           ELSE Insert(people_by_pubkey, k, n)
    /\ AddGeohashPerson(n, k, nostr_aliases)

(* schedule_metadata_lookup: one lookup for each key, until it fails.        *)
UnnotedLookup(k) == UNCHANGED metadata_lookup_pubkeys   \* mutant: not remembered
NotedLookup(k) == metadata_lookup_pubkeys' = metadata_lookup_pubkeys \cup {k}
ScheduleLookup(k) ==
    IF k \in metadata_lookup_pubkeys \/ lookups = MaxLookups
    THEN UNCHANGED <<metadata_lookup_pubkeys, looking, lookups>>
    ELSE /\ NotedLookup(k)
         /\ looking' = looking \cup {k} /\ lookups' = lookups + 1

-----------------------------------------------------------------------------
Init ==
    /\ people_pubkeys = NoEntries /\ people = [n \in Label |-> 0]
    /\ nickname \in Names /\ nostr_aliases = NoEntries /\ namesakes = {}
    /\ people_by_pubkey = NoEntries
    /\ metadata_lookup_pubkeys = {} /\ looking = {} /\ lookups = 0
    /\ current_conv = None
    /\ thread = [m \in Messages |-> None] /\ recipient = [m \in Messages |-> None]
    /\ status = [m \in Messages |-> "sending"]
    /\ task = [m \in Messages |-> "none"]
    /\ stored = [m \in Messages |-> {}] /\ news = [m \in Messages |-> {}]

-----------------------------------------------------------------------------
(* The tasks of the client                                                   *)

(* handle_private_text_event: k writes, with a nickname or without one.      *)
TextWithNickname(k, n) ==
    /\ UpdateKnownPerson(k, n)
    /\ IF IsPlaceholder(n) THEN ScheduleLookup(k)
       ELSE UNCHANGED <<metadata_lookup_pubkeys, looking, lookups>>
    /\ UNCHANGED <<nameVars, current_conv, sendVars>>

TextWithout(k) ==
    /\ IF k \in DOMAIN people_by_pubkey
       THEN /\ AddGeohashPerson(people_by_pubkey[k], k, nostr_aliases)
            /\ UNCHANGED clientVars
       ELSE UpdateKnownPerson(k, k) /\ ScheduleLookup(k)
    /\ UNCHANGED <<nameVars, current_conv, sendVars>>

LookupFinds(k, n) ==
    /\ k \in looking /\ looking' = looking \ {k}
    /\ UpdateKnownPerson(k, n)
    /\ UNCHANGED <<nameVars, metadata_lookup_pubkeys, lookups, current_conv, sendVars>>

LookupFails(k) ==
    /\ k \in looking /\ looking' = looking \ {k}
    /\ metadata_lookup_pubkeys' = metadata_lookup_pubkeys \ {k}
    /\ UNCHANGED <<peopleVars, nameVars, people_by_pubkey, lookups, current_conv, sendVars>>

-----------------------------------------------------------------------------
(* The user                                                                  *)

(* add_pending_geohash_dm_message puts it in the open thread, for whomever   *)
(* the task sends it to.                                                     *)
QueueSend(m, open, k) ==
    /\ task[m] = "none" /\ task' = [task EXCEPT ![m] = "waiting"]
    /\ recipient' = [recipient EXCEPT ![m] = k]
    /\ thread' = [thread EXCEPT ![m] = open]
    /\ UNCHANGED <<status, stored, news>>

(* A person of the sidebar, chosen there or with Enter, which lists them     *)
(* again; one without a key is no private conversation.                      *)
Select(n) ==
    /\ people[n] > 0 /\ PubkeyOf(n) # None
    /\ AddGeohashPerson(n, PubkeyOf(n), nostr_aliases) \/ UNCHANGED peopleVars
    /\ current_conv' = PubkeyOf(n)
    /\ UNCHANGED <<nameVars, clientVars, sendVars>>

(* resolve_geohash_dm_target: a listed name, then an alias, one of the keys  *)
(* that have it, then a key that has a name.                                 *)
AliasedAs(t) == {k \in DOMAIN nostr_aliases : nostr_aliases[k] = t}
Target(n, k) == [label |-> n, key |-> k]
Targets(t) ==
    IF t \in DOMAIN people_pubkeys THEN {Target(t, people_pubkeys[t])}
    ELSE IF AliasedAs(t) # {} THEN {Target(t, k) : k \in AliasedAs(t)}
    ELSE IF NamesOf(t) # {} THEN {Target(n, t) : n \in NamesOf(t)}
    ELSE IF t \in DOMAIN nostr_aliases THEN {Target(nostr_aliases[t], t)}
    ELSE {}

(* switch_to_geohash_dm, after the person was listed: the conversation stays *)
(* the one that was open when the label leads to no key, or to nobody in the *)
(* sidebar.  (It lists the person again, which changes nothing.)             *)
Opened(label) ==
    IF /\ PubkeyOf(label)' # None
       /\ \E n \in Label : people'[n] > 0 /\ PubkeyOf(n)' = PubkeyOf(label)'
    THEN PubkeyOf(label)' ELSE current_conv

CommandDm(t, m) ==
    \E target \in Targets(t) :
        /\ AddGeohashPerson(target.label, target.key, nostr_aliases)
        /\ current_conv' = Opened(target.label)
        /\ QueueSend(m, current_conv', target.key)
        /\ UNCHANGED <<nameVars, clientVars>>

(* /reply with a text, and a typed line: the open conversation is listed     *)
(* again by the first, and is left alone by the second.                      *)
CommandReply(m) ==
    /\ current_conv # None
    /\ AddGeohashPerson(current_conv, current_conv, nostr_aliases)
    /\ QueueSend(m, current_conv, current_conv)
    /\ UNCHANGED <<nameVars, clientVars, current_conv>>

TypedLine(m) ==
    /\ current_conv # None
    /\ QueueSend(m, current_conv, current_conv)
    /\ UNCHANGED <<peopleVars, nameVars, clientVars, current_conv>>

(* /name @t alias: set_nostr_alias                                           *)
Namesakes(name, aliases) == {k \in DOMAIN aliases : aliases[k] = name}
SetAlias(t, alias) ==
    LET k == PubkeyOf(t)
        aliases == Insert(nostr_aliases, k, alias)
    IN  /\ k # None
        /\ nostr_aliases' = aliases
        /\ namesakes' = namesakes \cup Namesakes(nickname, aliases)
        /\ AddGeohashPerson(alias, k, aliases)
        /\ UNCHANGED <<nickname, clientVars, current_conv, sendVars>>

(* The user takes another name in the settings.                              *)
UpdateNickname(n) ==
    /\ nickname' = n
    /\ namesakes' = namesakes \cup Namesakes(n, nostr_aliases)
    /\ UNCHANGED <<peopleVars, nostr_aliases, clientVars, current_conv, sendVars>>

(* leave_geohash_channel removes its messages; the tasks go on.              *)
LeaveChannel ==
    /\ people_pubkeys # NoEntries \/ current_conv # None
    /\ people_pubkeys' = NoEntries /\ people' = [n \in Label |-> 0]
    /\ thread' = [m \in Messages |-> None] /\ recipient' = [m \in Messages |-> None]
    /\ status' = [m \in Messages |-> "sending"] /\ news' = [m \in Messages |-> {}]
    /\ current_conv' = None
    /\ UNCHANGED <<nameVars, clientVars, task, stored>>

-----------------------------------------------------------------------------
(* The task that sends a message                                             *)

MergeRelays == PublicRelays \cup DmRelays

(* update_dm_message_status: which status gives way to which.  A message that *)
(* no thread holds has none.                                                 *)
ShouldApplyAlways(current, next) == next # "sending"    \* mutant: the last one counts
ShouldApply(current, next) ==
    CASE current = "read"      -> next = "read"
      [] current = "delivered" -> next \in {"delivered", "read"}
      [] current = "failed"    -> next \in {"failed", "delivered", "read"}
      [] OTHER                 -> TRUE

UpdateStatus(m, next) ==
    IF thread[m] = None THEN UNCHANGED <<status, news>>
    ELSE /\ status' = IF ShouldApply(status[m], next)
                      THEN [status EXCEPT ![m] = next] ELSE status
         /\ news' = [news EXCEPT ![m] = @ \cup {next}]

(* publish_private_event writes to all relays at once, one message at a time *)
(* (publish_lock).                                                           *)
Publish(m) ==
    /\ task[m] = "waiting" /\ \A other \in Messages : task[other] # "publishing"
    /\ task' = [task EXCEPT ![m] = "publishing"]
    /\ \E taken \in SUBSET MergeRelays : stored' = [stored EXCEPT ![m] = taken]
    /\ UNCHANGED <<peopleVars, nameVars, clientVars, current_conv, thread, status,
                   recipient, news>>

(* publish_event: a relay may take the event and its answer come too late.   *)
Answers(m) == SUBSET stored[m]

(* Only the relays that every client reads make it a success.                *)
IsSent(acked) == acked \cap DmRelays # {}

PublishEnds(m) ==
    /\ task[m] = "publishing" /\ task' = [task EXCEPT ![m] = "done"]
    /\ \E acked \in Answers(m) :
         UpdateStatus(m, IF IsSent(acked) THEN "delivered" ELSE "failed")
    /\ UNCHANGED <<peopleVars, nameVars, clientVars, current_conv, thread, stored, recipient>>

(* emit_private_status_update: the recipient found the event on some relay   *)
(* and acknowledges it, once and again.                                      *)
Receipt(m, kind) ==
    /\ stored[m] # {}
    /\ UpdateStatus(m, kind)
    /\ UNCHANGED <<peopleVars, nameVars, clientVars, current_conv, thread, task, stored,
                   recipient>>

-----------------------------------------------------------------------------
Next ==
    \/ \E k \in Keys :
         \/ TextWithout(k) \/ LookupFails(k)
         \/ \E n \in Names \cup {k} : TextWithNickname(k, n)
         \/ \E n \in Names : LookupFinds(k, n)
    \/ \E n \in Label : Select(n) \/ \E alias \in Names : SetAlias(n, alias)
    \/ \E n \in Names : UpdateNickname(n)
    \/ \E m \in Messages :
         \/ \E t \in Label : CommandDm(t, m)
         \/ CommandReply(m) \/ TypedLine(m)
         \/ Publish(m) \/ PublishEnds(m)
         \/ \E kind \in {"delivered", "read"} : Receipt(m, kind)
    \/ LeaveChannel

Spec == Init /\ [][Next]_vars

-----------------------------------------------------------------------------
(* Type correctness.  A lookup runs only for a key whose entry keeps others  *)
(* from starting (metadata_lookup_pubkeys).                                  *)
PartialMap(S, T) == UNION {[D -> T] : D \in SUBSET S}
TypeOK ==
    /\ people_pubkeys \in PartialMap(Label, Keys)
    /\ people \in [Label -> 0..MaxListed]
    /\ nickname \in Names /\ namesakes \subseteq Keys
    /\ nostr_aliases \in PartialMap(Keys, Names)
    /\ people_by_pubkey \in PartialMap(Keys, Names)
    /\ looking \subseteq metadata_lookup_pubkeys /\ metadata_lookup_pubkeys \subseteq Keys
    /\ lookups \in 0..MaxLookups
    /\ current_conv \in Keys \cup {None}
    /\ thread \in [Messages -> Keys \cup {None}] /\ recipient \in [Messages -> Keys \cup {None}]
    /\ status \in [Messages -> {"sending", "failed", "delivered", "read"}]
    /\ task \in [Messages -> {"none", "waiting", "publishing", "done"}]
    /\ stored \in [Messages -> SUBSET MergeRelays]
    /\ news \in [Messages -> SUBSET {"failed", "delivered", "read"}]

(* The status shown is the best news there has been about the message, in    *)
(* whatever order the sending task, the relays and the recipient brought it  *)
(* (should_apply_dm_status).                                                 *)
Best(lines) ==
    IF "read" \in lines THEN "read"
    ELSE IF "delivered" \in lines THEN "delivered"
    ELSE IF "failed" \in lines THEN "failed" ELSE "sending"
StatusIsBestNews ==
    \A m \in Messages : thread[m] # None => status[m] = Best(news[m])

(* Whatever names come from texts, profiles and aliases, a key has one name  *)
(* in the list at most and is listed under it; a private message is in the   *)
(* thread of the key it is encrypted for, unless the user gave that person a *)
(* name they had themselves: a label like that is not listed, /dm may leave  *)
(* open what was open, and the message goes there (add_geohash_person,       *)
(* switch_to_geohash_dm, add_pending_geohash_dm_message).                    *)
OneNamePerKey ==
    \A n1, n2 \in DOMAIN people_pubkeys : people_pubkeys[n1] = people_pubkeys[n2] => n1 = n2
KeyedAreListed == \A n \in DOMAIN people_pubkeys : people[n] > 0
InThreadOfRecipient ==
    \A m \in Messages : thread[m] \in {None, recipient[m]} \/ recipient[m] \in namesakes
NamesLeadToKeys == OneNamePerKey /\ KeyedAreListed /\ InThreadOfRecipient
=============================================================================
