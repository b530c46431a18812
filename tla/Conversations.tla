----------------------------- MODULE Conversations -----------------------------
(***************************************************************************)
(* Which conversation the user is in.  The program holds the answer four    *)
(* times: the sidebar's selection, by index (what is shown); current_conv,  *)
(* a copy of it by name (where lines are echoed, geohash DMs go); the mode  *)
(* of chat_context (where mesh messages go); and the state file (which      *)
(* channels are back after a restart).  The main loop, the sidebar, the     *)
(* commands and the packets of peers each write some of the four.           *)
(*                                                                          *)
(* A nickname is a number, so that the people lists, which are sorted, have *)
(* an order; -n is nickname n typed in another case.  None is the user's,   *)
(* which is never listed.  A person of a geohash channel has one name here, *)
(* which stands for the pubkey too.                                         *)
(***************************************************************************)
EXTENDS Integers, Sequences, SequencesExt, FiniteSets

CONSTANTS
    Peers,          \* peers of the mesh
    Names,          \* nicknames
    MeshChannels,   \* channel names that are no geohash
    GeoChannels,    \* channel names that are, on which the mesh may have a channel too
    GeoPeople,      \* people of geohash channels
    None,
    MaxLines        \* bound: lines waiting in ui_rx

Channels == MeshChannels \cup GeoChannels

ASSUME NamesAssumption == Names \subseteq Nat \ {0} /\ GeoPeople \subseteq Nat \ {0}
ASSUME ChannelsAssumption == MeshChannels \cap GeoChannels = {} /\ None \notin Channels
ASSUME FiniteAssumption ==
    /\ IsFiniteSet(Names) /\ IsFiniteSet(GeoPeople)
    /\ IsFiniteSet(MeshChannels) /\ IsFiniteSet(GeoChannels)
ASSUME MaxLinesAssumption == MaxLines \in Nat

VARIABLES
    peers,              \* peers[p]: nickname of p's entry, or None without an entry
    lines,              \* ui_rx: the lines that list people
    people,             \* app.people and mesh_people_peer_ids: name -> peer
    geo_people,         \* app.geohash_people: channel -> people
    channels,           \* app.channels
    sel,                \* app.sidebar_state, indices from 1, 0 for none
    current_conv,       \* app.current_conv
    mode,               \* chat_context.current_mode
    pending,            \* app.pending_channel_switch and pending_dm_switch
    active_channels,    \* chat_context.active_channels
    protected,          \* the geohashes in password_protected_channels
    saved,              \* joined_channels of the state file
    loaded,             \* app_state.joined_channels, as read when the program started
    opened,             \* history: the conversation the user last opened
    other_entry,        \* history: Enter on a blocked or settings entry since, in a geohash DM
    left,               \* history: geohash channels left, not opened or restored since
    named               \* history: those of left that a packet of the mesh named since

peopleVars == <<peers, lines, people, geo_people>>
uiVars     == <<channels, sel, current_conv>>
ctxVars    == <<mode, active_channels>>
fileVars   == <<protected, saved, loaded>>
openVars   == <<opened, other_entry>>
leftVars   == <<left, named>>
histVars   == <<openVars, leftVars>>
vars == <<peopleVars, uiVars, ctxVars, pending, fileVars, histVars>>

-----------------------------------------------------------------------------
(* Conversations.  Thread(n) is the DM thread of a nickname, Dm(n, p) the    *)
(* mode in which lines go to peer p.                                         *)
Public       == <<"public">>
Channel(c)   == <<"channel", c>>
Thread(n)    == <<"thread", n>>
Dm(n, p)     == <<"dm", n, p>>
GeoDm(c, k)  == <<"geo_dm", c, k>>
IsKind(conv, kind) == conv[1] = kind

Fold(n) == IF n < 0 THEN 0 - n ELSE n     \* eq_ignore_ascii_case

NoSelection == [public |-> FALSE, channel |-> 0, person |-> 0]
PublicSelected == [NoSelection EXCEPT !.public = TRUE]

Rank(S, x) == Cardinality({y \in S : y <= x})
AtRank(S, i) == CHOOSE x \in S : Rank(S, x) = i

(* get_selected_channel_name; None is #public.                               *)
SelectedOf(s, cs) ==
    IF ~s.public /\ s.channel \in 1..Len(cs) THEN cs[s.channel] ELSE None

(* update_current_conversation and get_current_messages: what is shown.      *)
ConversationOf(s, cs, ps, gs) ==
    LET c == SelectedOf(s, cs)
        visible == IF c \in GeoChannels THEN gs[c] ELSE DOMAIN ps
    IN  IF s.person \in 1..Cardinality(visible)
        THEN LET x == AtRank(visible, s.person)
             IN  IF c \in GeoChannels THEN GeoDm(c, x) ELSE Thread(x)
        ELSE IF c = None THEN Public ELSE Channel(c)

Selected == SelectedOf(sel, channels)
Shown == ConversationOf(sel, channels, people, geo_people)
VisiblePeople == IF Selected \in GeoChannels THEN geo_people[Selected] ELSE DOMAIN people

(* current_geohash_context_channel *)
GeoContext ==
    IF IsKind(current_conv, "geo_dm") THEN current_conv[2]
    ELSE IF Selected \in GeoChannels THEN Selected ELSE None

(* Where the main loop sends a typed line: by Nostr to a geohash channel     *)
(* that is selected, unless it is protected; else where the mode says.       *)
InGeoChannel == Selected \in GeoChannels \ protected /\ ~IsKind(current_conv, "geo_dm")
Destination ==
    CASE IsKind(current_conv, "geo_dm") -> current_conv
      [] InGeoChannel -> Channel(Selected)
      [] OTHER -> mode

-----------------------------------------------------------------------------
(* Moves of the user interface.  Each sets sel, current_conv and pending.    *)

Select(s, cs, gs) ==
    /\ sel' = s
    /\ current_conv' = ConversationOf(s, cs, people, gs)

Place(cs, c) == CHOOSE i \in 1..Len(cs) : cs[i] = c

(* switch_to_channel, for a channel of cs *)
ToChannelUnsettled(c, cs) ==    \* mutant: forgets pending_channel_switch
    /\ Select([NoSelection EXCEPT !.channel = Place(cs, c)], cs, geo_people)
    /\ pending' = None
ToChannel(c, cs) ==
    /\ Select([NoSelection EXCEPT !.channel = Place(cs, c)], cs, geo_people)
    /\ pending' = Channel(c)

(* switch_to_public *)
ToPublicKeepingIndex(cs, gs) == \* mutant: only the conversation changes
    /\ sel' = sel /\ current_conv' = Public
    /\ pending' = Public
ToPublic(cs, gs) ==
    /\ Select(PublicSelected, cs, gs)
    /\ pending' = Public

(* switch_to_dm.  For a nickname that is not listed only the channel is      *)
(* deselected.                                                               *)
ToDm(n) ==
    IF n \in DOMAIN people
    THEN /\ Select([NoSelection EXCEPT !.person = Rank(DOMAIN people, n)],
                   channels, geo_people)
         /\ pending' = Thread(n)
    ELSE /\ sel' = [NoSelection EXCEPT !.person = sel.person]
         /\ UNCHANGED <<current_conv, pending>>

(* The user opened conv; a channel that is opened is not left any more.      *)
OpensOnly(conv) == opened' = conv /\ other_entry' = FALSE
Opens(conv) ==
    /\ OpensOnly(conv)
    /\ LET back == IF IsKind(conv, "channel") THEN {conv[2]} ELSE {}
       IN  left' = left \ back /\ named' = named \ back

(* switch_to_geohash_dm *)
ToGeoDm(k) ==
    IF Selected \in GeoChannels /\ k \in geo_people[Selected]
    THEN /\ sel' = [public |-> FALSE, channel |-> Place(channels, Selected),
                    person |-> Rank(geo_people[Selected], k)]
         /\ current_conv' = GeoDm(Selected, k)
         /\ OpensOnly(GeoDm(Selected, k))
         /\ UNCHANGED <<pending, leftVars>>
    ELSE UNCHANGED <<sel, current_conv, pending, histVars>>

(* persist_runtime_state, which may fail *)
Persist(active) == saved' \in {active, saved} /\ loaded' = loaded

WithChannelAgain(c) == Append(channels, c)      \* mutant: listed twice
WithChannel(c) == IF c \in ToSet(channels) THEN channels ELSE Append(channels, c)
Without(cs, c) == IF c \in ToSet(cs) THEN RemoveAt(cs, Place(cs, c)) ELSE cs

-----------------------------------------------------------------------------
Init ==
    /\ peers = [p \in Peers |-> None] /\ lines = <<>>
    /\ people = <<>> /\ geo_people = [c \in GeoChannels |-> {}]
    /\ channels = <<>> /\ sel = PublicSelected /\ current_conv = Public
    /\ mode = Public /\ pending = None
    /\ active_channels = {} /\ protected = {} /\ saved = {} /\ loaded = {}
    /\ opened = Public /\ other_entry = FALSE /\ left = {} /\ named = {}

(* The program starts with the channels of the state file, of which any may  *)
(* be protected: the file says so, and may be older than the announcements.  *)
StartsWith(file) ==
    /\ peers' = [p \in Peers |-> None] /\ lines' = <<>>
    /\ people' = <<>> /\ geo_people' = [c \in GeoChannels |-> {}]
    /\ channels' = SetToSeq(file) /\ sel' = PublicSelected /\ current_conv' = Public
    /\ mode' = Public /\ pending' = None
    /\ active_channels' = file /\ protected' \in SUBSET GeoChannels
    /\ saved' = file /\ loaded' = file
    /\ OpensOnly(Public) /\ left' = left \ file /\ named' = {}

(* It ends by a crash, at any point, or by /exit, which saves once more; a   *)
(* save that fails leaves what a crash leaves.                               *)
Crash == StartsWith(saved)
Exit  == pending = None /\ StartsWith(active_channels)

-----------------------------------------------------------------------------
(* What arrives.                                                             *)

(* An Announce; the main loop hears of a new or changed nickname by a line.  *)
Announce(p, n) ==
    /\ Len(lines) < MaxLines
    /\ peers' = [peers EXCEPT ![p] = n]
    /\ lines' = IF peers[p] = n THEN lines ELSE Append(lines, [name |-> n, peer |-> p])
    /\ UNCHANGED <<people, geo_people, uiVars, ctxVars, pending, fileVars, histVars>>

(* A Leave of the peer.                                                      *)
Leave(p) ==
    /\ peers[p] # None
    /\ peers' = [peers EXCEPT ![p] = None]
    /\ UNCHANGED <<lines, people, geo_people, uiVars, ctxVars, pending, fileVars, histVars>>

(* The state as loaded is saved again with the label of a verified peer: the *)
(* joined channels in it are those the program started with.                 *)
SaveLoaded == saved' \in {loaded, saved} /\ loaded' = loaded

(* The peer may be verified and its nickname a new label for it.             *)
(* add_mesh_person: people is sorted again, the selected index is not moved. *)
ReadLine ==
    /\ lines # <<>>
    /\ lines' = Tail(lines)
    /\ people' = [n \in DOMAIN people \cup {Head(lines).name} |->
                     IF n = Head(lines).name THEN Head(lines).peer ELSE people[n]]
    /\ SaveLoaded
    /\ UNCHANGED <<peers, geo_people, uiVars, ctxVars, pending, protected, histVars>>

(* A line of a geohash channel lists the channel, again if it was left, and  *)
(* the sender.                                                               *)
ReadGeoLine(c, k) ==
    /\ channels' = WithChannel(c)
    /\ geo_people' = [geo_people EXCEPT ![c] = @ \cup {k}]
    /\ UNCHANGED <<peers, lines, people, sel, current_conv, ctxVars, pending, fileVars, histVars>>

(* A message of the mesh on a channel makes it active, whatever its name.    *)
IsNamed(c) == named' = named \cup ({c} \cap left) /\ UNCHANGED <<openVars, left>>
ChannelMessage(c) ==
    /\ active_channels' = active_channels \cup {c}
    /\ IsNamed(c)
    /\ UNCHANGED <<peopleVars, uiVars, mode, pending, fileVars>>

(* A ChannelAnnounce says whether the channel is protected, lists it, makes  *)
(* it active, and saves the active channels except the geohash ones.         *)
ChannelAnnounce(c) ==
    /\ channels' = WithChannel(c)
    /\ protected' \in {protected \cup ({c} \cap GeoChannels), protected \ {c}}
    /\ active_channels' = active_channels \cup {c}
    /\ Persist(active_channels' \ GeoChannels)
    /\ IsNamed(c)
    /\ UNCHANGED <<peopleVars, sel, current_conv, mode, pending>>

-----------------------------------------------------------------------------
(* The sidebar: Enter on an entry.                                           *)

SelectPublic ==
    /\ pending = None
    /\ ToPublic(channels, geo_people) /\ Opens(Public)
    /\ UNCHANGED <<peopleVars, channels, ctxVars, fileVars>>

SelectChannel(c) ==
    /\ pending = None /\ c \in ToSet(channels)
    /\ ToChannel(c, channels) /\ Opens(Channel(c))
    /\ UNCHANGED <<peopleVars, channels, ctxVars, fileVars>>

SelectPerson(n) ==
    /\ pending = None /\ n \in VisiblePeople
    /\ IF Selected \in GeoChannels
       THEN ToGeoDm(n)
       ELSE ToDm(n) /\ UNCHANGED histVars
    /\ UNCHANGED <<peopleVars, channels, ctxVars, fileVars>>

(* An entry of the blocked list or the settings opens nothing, but           *)
(* update_current_conversation makes current_conv what is shown: the person  *)
(* who is now at the selected index.                                         *)
SelectOther ==
    /\ pending = None
    /\ current_conv' = Shown
    /\ other_entry' = IsKind(current_conv, "geo_dm")
    /\ UNCHANGED <<peopleVars, channels, sel, ctxVars, pending, fileVars, opened, leftVars>>

(* The main loop settles a switch before it takes the next line or key.      *)
Holders(n) == {p \in Peers : peers[p] = n}
Settle ==
    /\ pending # None
    /\ pending' = None
    /\ CASE IsKind(pending, "public") ->
              mode' = Public /\ UNCHANGED <<active_channels, openVars>>
         [] IsKind(pending, "channel") ->
              /\ mode' = pending
              /\ active_channels' = active_channels \cup {pending[2]}
              /\ UNCHANGED openVars
         [] IsKind(pending, "thread") ->
              /\ UNCHANGED active_channels
              /\ IF Holders(pending[2]) = {}
                 THEN UNCHANGED <<mode, openVars>>
                 ELSE \E p \in Holders(pending[2]) :
                        mode' = Dm(pending[2], p) /\ OpensOnly(Thread(pending[2]))
    /\ UNCHANGED <<peopleVars, uiVars, fileVars, leftVars>>

-----------------------------------------------------------------------------
(* Commands.  Those for the mesh do nothing without a link.                  *)

(* /public *)
CommandPublic ==
    /\ pending = None
    /\ mode' = Public
    /\ ToPublic(channels, geo_people) /\ Opens(Public)
    /\ UNCHANGED <<peopleVars, channels, active_channels, fileVars>>

(* /j of a geohash channel                                                   *)
JoinGeo(c) ==
    /\ pending = None
    /\ channels' = WithChannel(c)
    /\ mode' = Channel(c) /\ active_channels' = active_channels \cup {c}
    /\ ToChannel(c, channels') /\ Opens(Channel(c))
    /\ Persist(active_channels')
    /\ UNCHANGED <<peopleVars, protected>>

(* handle_join_command does not enter a protected channel whose key is       *)
(* missing or wrong.                                                         *)
MayBeProtected == protected \cup MeshChannels
Enters(c) == mode' = Channel(c) /\ active_channels' = active_channels \cup {c}
EntersNot == UNCHANGED ctxVars

(* /j of a mesh channel, or with a password, whatever the name; the switch   *)
(* that follows enters the channel anyway.  A password is saved at once.     *)
JoinMesh(c) ==
    /\ pending = None
    /\ channels' = WithChannel(c)
    /\ Enters(c) \/ (c \in MayBeProtected /\ EntersNot)
    /\ ToChannel(c, channels') /\ Opens(Channel(c))
    /\ Persist(active_channels') \/ (c \in MayBeProtected /\ Persist(active_channels))
    /\ UNCHANGED <<peopleVars, protected>>

(* /dm in the mesh: the name is looked up, whatever its case, among the      *)
(* people and then among the peers; the interface follows, if the nickname,  *)
(* as it was typed, is listed.                                               *)
ListedPeers(t) == {people[n] : n \in {m \in DOMAIN people : m = Fold(t)}}
NamedPeers(t) == {p \in Peers : peers[p] # None /\ peers[p] = Fold(t)}
FollowMode == IF IsKind(mode, "dm") THEN ToDm(mode[2])
              ELSE UNCHANGED <<sel, current_conv, pending>>

CommandDm(t) ==
    /\ pending = None /\ GeoContext = None
    /\ LET found == IF ListedPeers(t) # {} THEN ListedPeers(t) ELSE NamedPeers(t)
       IN  \/ /\ found = {}
              /\ FollowMode /\ UNCHANGED <<mode, histVars>>
           \/ /\ \E p \in found : mode' = Dm(t, p)
              /\ ToDm(t) /\ Opens(Thread(Fold(t)))
    /\ UNCHANGED <<peopleVars, channels, active_channels, fileVars>>

(* /dm in a geohash channel *)
CommandGeoDm(k) ==
    /\ pending = None /\ GeoContext # None
    /\ k \in geo_people[GeoContext]
    /\ ToGeoDm(k)
    /\ UNCHANGED <<peopleVars, channels, ctxVars, fileVars>>

(* /reply, to whoever sent the last private message                          *)
CommandReply(n, p) ==
    /\ pending = None /\ GeoContext = None
    /\ mode' = Dm(n, p)
    /\ ToDm(n) /\ Opens(Thread(n))
    /\ UNCHANGED <<peopleVars, channels, active_channels, fileVars>>

(* leave_geohash_channel and remove_channel; left if it could be saved       *)
LeaveChannelOfApp(c) ==         \* mutant: chat_context keeps it
    /\ channels' = Without(channels, c)
    /\ active_channels' = active_channels
LeaveChannel(c) ==
    /\ channels' = Without(channels, c)
    /\ active_channels' = active_channels \ {c}

(* /leave in a geohash channel *)
CommandLeaveGeo ==
    /\ pending = None
    /\ LET c == IF IsKind(current_conv, "geo_dm") THEN current_conv[2] ELSE Selected
       IN  /\ c \in GeoChannels
           /\ LeaveChannel(c) /\ Persist(active_channels')
           /\ geo_people' = [geo_people EXCEPT ![c] = {}]
           /\ left' = IF saved' = active_channels' THEN left \cup {c} ELSE left
    /\ mode' = Public
    /\ ToPublic(channels', geo_people')
    /\ OpensOnly(Public)
    /\ UNCHANGED <<peers, lines, people, protected, named>>

(* /leave in the mesh leaves the channel of the mode, if there is one.       *)
CommandLeave ==
    /\ pending = None
    /\ ~IsKind(current_conv, "geo_dm") /\ Selected \notin GeoChannels
    /\ IF IsKind(mode, "channel")
       THEN LeaveChannel(mode[2]) /\ mode' = Public
       ELSE UNCHANGED <<channels, ctxVars>>
    /\ ToPublic(channels', geo_people)
    /\ Opens(Public)
    /\ Persist(active_channels')
    /\ UNCHANGED <<peopleVars, protected>>

(* A typed line.  In a geohash channel the context follows.                  *)
Submit ==
    /\ pending = None
    /\ InGeoChannel
    /\ mode' = Channel(Selected)
    /\ active_channels' = active_channels \cup {Selected}
    /\ UNCHANGED <<peopleVars, uiVars, pending, fileVars, histVars>>

(* /verify and its like save the state as loaded, then the present one;      *)
(* /block, /name and a new nickname only the present one.                    *)
CommandSaves ==
    /\ pending = None
    /\ saved' \in {loaded, active_channels}
    /\ UNCHANGED <<peopleVars, uiVars, ctxVars, pending, protected, loaded, histVars>>

-----------------------------------------------------------------------------
Next ==
    \/ Crash \/ Exit \/ ReadLine \/ Settle \/ Submit \/ CommandSaves
    \/ \E p \in Peers, n \in Names : Announce(p, n) \/ CommandReply(n, p)
    \/ \E p \in Peers : Leave(p)
    \/ \E c \in GeoChannels, k \in GeoPeople : ReadGeoLine(c, k)
    \/ \E c \in Channels : ChannelMessage(c) \/ ChannelAnnounce(c) \/ JoinMesh(c)
    \/ \E c \in GeoChannels : JoinGeo(c)
    \/ SelectPublic \/ SelectOther
    \/ \E c \in Channels : SelectChannel(c)
    \/ \E n \in Names \cup GeoPeople : SelectPerson(n)
    \/ CommandPublic \/ CommandLeave \/ CommandLeaveGeo
    \/ \E n \in Names : CommandDm(n) \/ CommandDm(0 - n)
    \/ \E k \in GeoPeople : CommandGeoDm(k)

Spec == Init /\ [][Next]_vars

-----------------------------------------------------------------------------
(* Type correctness.                                                         *)
Shows == {Public} \cup {Channel(c) : c \in Channels} \cup {Thread(n) : n \in Names}
         \cup {GeoDm(c, k) : c \in GeoChannels, k \in GeoPeople}
ASSUME NoneAssumption == None \notin Shows /\ None \notin Names

Modes == {Public} \cup {Channel(c) : c \in Channels}
         \cup {Dm(n, p) : n \in Names \cup {0 - m : m \in Names}, p \in Peers}
TypeOK ==
    /\ peers \in [Peers -> Names \cup {None}]
    /\ lines \in Seq([name : Names, peer : Peers]) /\ Len(lines) <= MaxLines
    /\ DOMAIN people \subseteq Names /\ \A n \in DOMAIN people : people[n] \in Peers
    /\ geo_people \in [GeoChannels -> SUBSET GeoPeople]
    /\ channels \in Seq(Channels) /\ IsInjective(channels)
    /\ sel \in [public : BOOLEAN, channel : 0..Cardinality(Channels),
                person : 0..Cardinality(Names \cup GeoPeople)]
    /\ current_conv \in Shows /\ opened \in Shows
    /\ mode \in Modes
    /\ pending \in {None} \cup Shows
    /\ active_channels \subseteq Channels /\ protected \subseteq GeoChannels
    /\ saved \subseteq Channels /\ loaded \subseteq Channels
    /\ other_entry \in BOOLEAN
    /\ left \subseteq GeoChannels /\ named \subseteq left

(* The indices the sidebar keeps always name an entry of the lists they      *)
(* point into, although the lists grow and are cut by other code             *)
(* (join_channel, leave_geohash_channel, handle_leave_command, add_*_person).*)
SelectionExists ==
    /\ sel.channel <= Len(channels)
    /\ sel.person <= Cardinality(VisiblePeople)

(* A typed line goes to the conversation the user opened last and for which  *)
(* opening was possible, by whatever of the sidebar and the commands, and    *)
(* whatever peers and channels came and went since.  In a DM of a geohash    *)
(* channel that is so until Enter on a blocked or settings entry: from then  *)
(* on it goes to somebody of that channel.                                   *)
SameConversation(to, conv) ==
    IF IsKind(conv, "thread")
    THEN IsKind(to, "dm") /\ Fold(to[2]) = conv[2]
    ELSE to = conv
SameGeoChannel(to, conv) ==
    IsKind(to, "geo_dm") /\ IsKind(conv, "geo_dm") /\ to[2] = conv[2]
GoesWhereOpened ==
    pending = None =>
        \/ SameConversation(Destination, opened)
        \/ other_entry /\ SameGeoChannel(Destination, opened)

(* A geohash channel that the user left, and the program said so, is active  *)
(* again only if a packet of the mesh has named it since, and is in the file *)
(* again, from where a restart would join it, only then or if it was there   *)
(* when the program started (the state as loaded is saved again).            *)
LeftStaysLeft ==
    /\ left \cap active_channels \subseteq named
    /\ left \cap saved \subseteq named \cup loaded

(* README.md, Direct Messages: "In the sidebar, select a person to open or   *)
(* continue a DM."  A line typed into a DM thread is never broadcast.        *)
DmIsPrivate ==
    (pending = None /\ (IsKind(Shown, "thread") \/ IsKind(Shown, "geo_dm")))
        => (IsKind(Destination, "dm") \/ IsKind(Destination, "geo_dm"))
=============================================================================
