# Verification of bitchat-tui

TLA+ models of bitchat-tui (a terminal client for the bitchat Bluetooth mesh
and for Nostr geohash channels), TLC runs on small instances, and TLAPS proofs.
Paths such as `noise_session.rs` are under `src/src/`.

## The system

One tokio task, the main loop of `main.rs`, owns the state: it polls the
terminal, drains the Bluetooth notification queue (64 packets per pass), drains
the channel of UI lines, settles the switches the interface asked for, and runs
one user command or packet handler at a time to its end. Around it run tasks
that scan and connect, forward the notifications of each link into a queue, talk
to Nostr relays and move files; they share a few locks and maps with it and
reach it through channels. So there are two kinds of interleaving: coarse between
peers (one handler, one step, over a mesh that loses, repeats and reorders), and
fine between the main loop and its tasks (scans and links, joins and
subscriptions).

| Component | State | Operations | Hard behaviour | Correct when | Modelled in |
|---|---|---|---|---|---|
| Noise transport cipher (`noise_protocol.rs`) | key, counter, replay window | encrypt, decrypt | reordered and repeated ciphertexts, 4-byte nonce prefix | each plaintext once, none refused that is fresh | `NoiseCipher`, `NoiseTransport` |
| Noise XX handshake (`noise_protocol.rs`) | role, step, keys, transcript | write_message, read_message, split | stale messages, failed calls that change the transcript | two ends of a session share keys | `NoiseHandshake` |
| Session manager (`noise_session.rs`) | sessions with queues | create, remove, queue, handshake, encrypt | sessions replaced, removed, half open | queued messages go out once | `NoiseSession` |
| Private messaging (`notification_handlers.rs`, `message_handlers.rs`, `command_handling.rs`) | sessions, duplicate filter, messages | two commands, six packet handlers, leave, retry | both sides start at once, acknowledgements, failing sends | shown once, in order, marked truthfully | `PrivateMessaging`, `Medium` |
| Fragmentation (`fragmentation.rs`, `data_structures.rs`) | send in progress; collector per fragment id | send over links, add_fragment, dispatch | mixed, partial and repeated copies | data intact, shown once, result true | `Fragmentation` |
| Mesh links (`main.rs`) | links, scans, blacklist, timers, session manager | scan, harvest, install, health check, announce, reset | two scan tasks that race the loop, half-open devices | links within budget, a talking device linked in the end | `MeshLinks` |
| Mesh broadcast, delivery tracking, channel keys (`notification_handlers.rs`, `packet_delivery.rs`, `encryption.rs`) | duplicate filter, peers, keys, protected channels, tracked messages | eleven kinds of packets; write, join, leave, save | copies, fragments, late announcements, restarts | shown, acknowledged, relayed once; keys for protected channels only | `MeshChat` |
| Conversations: sidebar, chat context, commands, saved channels (`tui/app.rs`, `tui/event.rs`, `command_handling.rs`, `persistence.rs`) | lists, indices, current conversation, mode, pending switch, state file | selections, /public /j /dm /reply /leave, lines, packets, restarts | two notions of "where I am", lists that change under an index | a typed line goes where the user is | `Conversations` |
| Geohash channels (`nostr_geo.rs`) | joined geohashes, tasks per relay, seen events, saved joins | join, leave, restore, send, subscribe, heartbeat | joins that overlap leaves, several generations of tasks | joined is served, shown once, tasks end | `GeohashChannels` |
| Geohash direct messages (`nostr_geo.rs`, `tui/app.rs`, `main.rs`) | names, keys, aliases, threads, status | texts, lookups, /dm /reply, publish, receipts | two people of one name, receipts out of order | status is the best news, names lead to keys | `GeohashDirect` |
| Peripheral role (`ble_peripheral.rs`, Windows) | subscribers, packet queues | subscribe, notify, write | operating system callbacks | - | not modelled |
| Drawing (`tui/ui.rs`, `tui/widgets/`), formats (`binary_*.rs`, `packet_*.rs`, `payload_handling.rs`, `compression.rs`), uploads (`upload_share.rs`, `wormhole_transfer.rs`) | none to speak of | layout, encoding, network calls | - | - | not modelled |

The components meet in three places: the packet dispatch of the main loop (links
deliver to `PrivateMessaging`, `Fragmentation` and `MeshChat`), the UI lines
(packets and Nostr tasks list people and channels in `Conversations`), and the
connection retry, which drops links and sessions together: it is an action of
`MeshLinks` (links, scans, manager) and of `PrivateMessaging` (sessions, queues).

`PROJECT.json` lists the hazards of this code at their lines, with the
properties that cover them or the reason why none does, and says which
components are not or only partly modelled.

## The modules

```
AtMostOnceChannel  <-refines-  NoiseTransport          MCNoiseTransport, NoiseTransport_proofs
                                  | extends
                               NoiseCipher
                                  | extended by
NoiseHandshake ----------->    NoiseSession
Medium         ----------->    PrivateMessaging        MCPrivateMessaging, MCDirectLink,
                                                       PrivateMessaging_proofs
Fragmentation                                          MCFragmentation, Fragmentation_proofs
MeshLinks                                              MCMeshLinks, MeshLinks_proofs
MeshChat                                               MCMeshChat, MeshChat_proofs
Conversations                                          (run as it is), Conversations_proofs
GeohashChannels                                        (run as it is), GeohashChannels_proofs
GeohashDirect                                          MCGeohashDirect, GeohashDirect_proofs
```

* **NoiseCipher**: `NoiseCipherState` as operators on a record. The AEAD is
  symbolic: a ciphertext remembers the key and the 64-bit counter it was sealed
  under, and opens only under these; the wire carries the counter modulo
  `WireNonces` (2^32), which is what the receiver opens with. The receiver's
  check, the AEAD and the marking of the nonce are in the order of `decrypt`.
* **AtMostOnceChannel**: what one direction of a session promises: each
  identifier is handed over at most once, in any order, possibly never.
* **NoiseTransport**: a sender, a receiver and the set of ciphertexts that may
  arrive, among them those of an earlier session with the same peer.
* **NoiseHandshake**: `write_message`, `read_message`, `split` for pattern XX.
  Keys are named by their owner and a serial number. The two functions mix tokens
  into the transcript as they go and return early on errors, so a failed call
  can leave a transcript that nobody shares: the model marks the handshake as
  not `honest`, and nothing it writes is accepted or accepts anything after it.
  The first message is accepted whatever it holds, as in the code.
* **NoiseSession**: one entry of the session manager. State `None` is no entry;
  `Uninitialized` and `Failed` never occur through the handlers.
* **Medium**: the packets from one peer to another: a set (mesh: any order,
  any number of times, or never) or a queue (one direct link).
* **PrivateMessaging**: one action per handler or command. `ChatMessage` and
  `SlashDm` are the two ways to write a message (they differ: the first replaces
  a handshake in progress, the second writes its next message).
  `HandleNoiseHandshakeInit`, `HandleEncryptedWithoutSession`,
  `HandleUnreadable`, `HandlePrivateMessage`, `HandleDelivered` (the branches of
  `handle_noise_encrypted_message`), `HandleHandshakeRequest`, `HandleLeave`,
  `HandleRequestSync`, `LeaveChannel` and `ConnectionRetry` are the others.
  A handler's sends are part of its action and may fail where `"send"` is among
  the `Faults`; every message of a flushed queue may fail on its own.
  Relays do not alter sender and recipient, and a peer handles what is addressed
  to it, so relaying is part of the medium.
* **Fragmentation**: `send_packet_to_mesh_targets` over
  `send_packet_with_fragmentation_as`, one step per written fragment, and
  `FragmentCollector.add_fragment` with the dispatch that follows.

* **MeshLinks**: the main loop as a cycle of stages (harvest, check, lines, await,
  install, packets, reset), each one action, and two scan tasks beside it with one
  action per device they examine. Timers are choices, due or not. A device talks,
  is silent (it accepts connections and answers nothing) or is gone; a connection
  is none, open, or streaming once notifications are forwarded. The unwrap of a
  lost session manager is the stage `panicked`.
* **MeshChat**: one device. The packets that exist are a constant, and any copy of
  any arrives at any time, with a TTL that allows a relay or not; the sender's
  relaying and that of others is only that. One channel, with its protection, key
  and commitment, in memory, in the state file and as loaded at the start
  (`SaveLabel` writes the last of these).
* **Conversations**: what the interface shows (`sel`, `current_conv`) against where
  a line goes (`mode`); `Destination` is the branch of the main loop for a typed
  line. Three variables are there for what the state file does: `saved`, `loaded`
  (as read at the start, and saved again with the label of a verified peer or
  by /verify, `SaveLoaded` and `CommandSaves`) and `protected` (a protected geohash
  channel is not written to over Nostr). Names are numbers in their sorted order, a negative one is the same name
  in other letters. Switches the interface asks for are `pending` until the main
  loop settles them, before it takes the next key, so no other user action starts
  meanwhile; packets that had arrived are in the same pass and may come first.
  Channel packets and `/j` with a password take any name, also that of a geohash.
  History: `opened` changes when something is opened only; `other_entry` says that
  the user pressed Enter on a blocked or settings entry since, in a geohash DM
  (`SelectOther`); `left` has the geohash channels left, `named` those of them that
  a packet of the mesh named since.
* **GeohashChannels**: counts of tasks per geohash, relay and state. `join_channel`
  is three steps (the geohash is inserted; after its relays were looked up the
  tasks are spawned; a status line is written to `ui_tx`), because it awaits in
  between; each of its three callers has its own. For `/j` the caller is the main
  loop, which reads nothing meanwhile. The event of a geohash passes a task in two steps: accepted by
  `seen_event_ids`, then written to the bounded `ui_tx`.
* **GeohashDirect**: who is listed under which name for which key, by texts, profile
  lookups and aliases, and the life of a private message: queued under the name
  the user chose, encrypted for a key, published to public and DM relays,
  acknowledged by them and by the recipient. A label equal to the user's own
  nickname is not listed (`AddGeohashPerson`); then `/dm` may not change the open
  conversation (`Opened`), and the message goes into that thread. `namesakes` is
  the history of people the user gave a name they had themselves.

Definitions marked "mutant" are plausible mistakes in the definition that
follows; the specification never uses them. Each run must fail when one of them
takes the place of the original, which shows that its properties depend on it.

The identity of a message (a fresh uuid in the code) is named by the key and
nonce the message is sealed under, which is as fresh as those are; that those
never repeat is checked (`NonceNeverReused`), not assumed.

## The runs

| Run | Instance | Shows |
|---|---|---|
| `transport` | window 3, prefix of 5 values, 6 sends and 6 stale ciphertexts | `WindowExact`, `FreshAccepted`, `NothingAfterWrap`, refinement of the channel |
| `mesh` | 2 peers, unordered, 2 ephemerals each, 1 message each way, 1 trouble of each (retry, channel leave or RequestSync), failing sends, expiry, false positives of the filter | `KeyAgreement`, `NonceNeverReused`, `ShownIsAuthentic`, `QueuedWasNotSent`, `DeliveredWasShown` |
| `direct_link` | 2 peers, one link, 3 ephemerals, 2 messages each way, 1 trouble of each, fair | `ShownInOrder`, `EstablishedQueueEmpty`, `CalmIsShown`, `CalmIsDelivered` |
| `fragments` | a message of 3 chunks over 2 links, a file of 3 over one, filter may err about the file (`SentIsShown` then speaks of the message), fair | `ReassembledIsIntact`, `NothingCompleteIsHeld`, `ShownOnce`, `OutcomeIsTrue`, `SentIsShown` |
| `links` | 2 bitchat devices and another, budget 1, one change of the radio, packets | `PrimaryOnlyWithoutLinks`, `LinkBudget` |
| `links_fair` | 2 bitchat devices, budget 2, one change of the radio, 1 retry, no packets, fair | `TalkingIsLinked` |
| `conversations` | 1 peer, 2 names, a mesh and a geohash channel, 2 people in it | `SelectionExists`, `GoesWhereOpened`, `LeftStaysLeft` |
| `geohash` | 1 geohash, 2 relays, 2 joins, 1 failure, a queue of 1 line, fair | `JoinedIsServed`, `ShownOnce`, `StopsAfterLeave`, `PostedIsShown` |
| `geohash_direct` | 2 keys, 2 names, 1 message, a DM relay, 1 lookup, symmetric in keys and names | `StatusIsBestNews`, `NamesLeadToKeys` |
| `mesh_chat` | 15 packets of every kind from 2 senders, one blocked; 4 arrivals, 1 restart | `EachOnce`, `KeysFollowChannel` |
| `hasty`, `dm_leak` | see below | a text of the repository that the code does not keep |

Every module's type invariant is checked in the run of that module as well.

**Bounds.** A name `Max...` bounds a counter in a guard and nothing else; these
guards, `Chunks` and `Packets` are the only places where an instance restricts a
step.

* The transport instance has a window smaller than the number of sends, so nonces
  fall out of it, and a prefix smaller than that, so it wraps: a ciphertext can be
  inside, at the edge of and outside the window, before and after the wrap.
* No handler for one pair of peers reads the session of another, so two peers show
  what a pair can do. Two ephemerals per peer allow a session, its loss and the
  next one, with all messages of the first still in flight; on the link, three
  allow a new handshake in the middle of an exchange.
* `MaxFragments` of 4 is above every packet of the instance, as 10000 is in the
  code. A file goes over one link, so two links and the message are enough for
  copies that overlap.
* `links` has a budget of one with two devices, so both scans can find more than
  there is room for, and three device kinds; a retry doubles the states and takes
  the same path as the resets after failed writes, which are in it. `links_fair`
  needs the retry, because only it starts over with connections left open; it
  leaves packets out (`MaxInbox` 0): a stream of packets is what starts
  additional scans, which no fair run needs.
* `conversations`: a peer matters only as the holder of a nickname, and one peer
  can be listed under two, by a rename. Two names give an order, so that a new
  person can sort before the selected one; one waiting line is enough for a line
  that is late.
* `geohash_direct`: a public relay adds to `stored` only, which a DM relay can do as
  well: one whose answer comes too late has the event and is no success, so that
  a receipt comes before and after "failed". Two names are enough for a namesake
  of the user and another.
* `geohash`: two joins allow a leave and a join again while the tasks of the first
  sleep, or a restored join and one by the user; a queue of one line makes every
  writer wait for the reader, and lets the main loop wait for itself. The run
  passes with a queue of two lines as well.
* `mesh_chat`: four arrivals allow a packet, a leave, its copy and its fragments.

`CHECK_DEADLOCK FALSE` stands in the runs whose users stop when they have written
their messages, or whose program stops (`panicked`); the transport, the
conversations, the direct messages and the mesh chat never stop.

**Fairness.** The main loop drains its queues in every pass, and a link that is up
delivers its writes: a packet on a direct link is handled (`WF(Receive)`), a send
in progress goes on (`WF(WriteFragment \/ WriteFails)`), a written fragment
arrives. Nothing is assumed of users, failures, leaves or retries, and nothing of
an unordered medium.

`DirectSpec` carries a history variable, `disturbed`, that says whether a peer
retried, left a channel or wrote during a handshake; `CalmIsShown` promises
nothing after that. It is an assumption on users, not on the code, and `hasty`, the
same instance without it, shows that it is needed.

`MeshLinks`: the loop goes round (`WF(MainLoop)`); its elapsed-time tests are true
again and again (`SF` on the stages with their timers due); a scan ends (it has a
timeout), finds again and again a device that keeps advertising, blacklist and
cache entries expire, and a silent link grows old. `TalkingIsLinked` asks that the
radio settles without half-open devices: one of those fails every announce and
makes the loop reset all its links for ever (see hazards).

`GeohashChannels`: awaited calls return, tasks wake, connect or fail, time out, and
the main loop, when it awaits no join, reads lines, since all of them await timers
or bounded network calls. Whoever writes a line needs room: `LoopShows` is strongly
fair, since tokio's channel serves waiting senders in turn; for the others `WF` is
enough. Nothing makes room while the main loop itself waits for it. It does at the end
of `/j` (`nostr_geo.rs:259`, awaited at `main.rs:4817`, `4864` and `4919`), and if tasks
filled the queue while the relays were resolved, it waits for ever: `WaitsForItself`.
`StopsAfterLeave` and `PostedIsShown` except that state by name; without the
exception TLC refutes `PostedIsShown` on the instance of the run, and
`StopsAfterLeave` on one with two geohashes and a relay, where the property as it is holds.

## What was found

Two texts of the repository that the code does not keep, each a run that must fail:

* `hasty`: two peers that write to each other at once are both stuck. Each
  reads the other's first message as a second one, which spoils the handshake;
  no code starts again. The user was told that the message "will send when
  secure channel is ready" (`command_handling.rs:1133`).
* `dm_leak`: "In the sidebar, select a person to open or continue a DM"
  (`README.md:93`). The sidebar keeps every nickname; the main loop opens the DM
  only if a peer has that nickname now (`main.rs:3942`), while the thread is shown
  in any case. After a rename or a leave the line typed into the thread goes where
  the mode still points: to the public chat or a channel.

Behaviour the models contain, with no property against it, since no text promises
otherwise (hazards of `PROJECT.json` with a note):

* a ciphertext that finds no established session removes a handshake in progress
  with its waiting messages (`notification_handlers.rs:2396`);
* any Leave packet, also that of a channel, removes the private session of its
  sender (`main.rs:3629`);
* a private message that needs fragments is put together and dropped
  (`notification_handlers.rs:1156`);
* after a connection retry, packets of the old link meet a session manager that is
  None and is unwrapped (`main.rs:3563`, `3789`);
* a half-open device makes the loop drop all links, again and again (`main.rs:4121`);
* a saved geohash channel that is left before its turn is joined (`main.rs:2921`);
* a crash forgets that a channel is protected if that was learned from a message
  (`notification_handlers.rs:905`).

And behaviour that properties name as their exception, since TLC finds it when
the exception is taken away:

* Enter on a blocked or settings entry runs `update_current_conversation`
  (`tui/event.rs:440`): in a DM of a geohash channel whose people list has grown
  since, the next line goes to the person who is now at the selected index, whom
  the user never opened (`GoesWhereOpened`, exception `other_entry`);
* the label of a verified peer is saved with the whole state as it was at the
  start (`main.rs:3147`), and a packet of the mesh may name a channel that is a
  geohash: either can bring a geohash channel back that was left
  (`LeftStaysLeft`, exceptions `loaded` and `named`);
* the main loop may wait for itself at the end of `/j` (`PostedIsShown` and
  `StopsAfterLeave`, exception `WaitsForItself`, see fairness above);
* `/name @bob` with the user's own nickname, then `/dm` to that name while another
  thread is open: the message is put into that thread and encrypted for bob
  (`tui/app.rs:681`, `1905`, `1462`; `NamesLeadToKeys`, exception `namesakes`).

## The proofs

**NoiseTransport_proofs**, for every window size, prefix width and number of
sends (assumptions: `WindowAssumption`, `WireAssumption`, `KeyAssumption`,
`SendsAssumption`). `AtMostOnce` is not inductive: that a nonce outside the
window is not accepted again needs the window to hold exactly the accepted
nonces that are young enough (`WindowExact`), and that no accepted nonce is
above `highest` (`BelowHighest`). The invariant `IInv` conjoins these with the
types and `NothingAfterWrap`; `MarkedCipher` states what `mark_nonce_as_seen`
does to a window, `AcceptedIsFresh` what an accepted ciphertext is. From `IInv`
follow all five invariants of the run. The refinement needs in addition that
every ciphertext of the session was sealed below the counter
(`SentBelowCounter`), so that a new one has an identifier nobody used.

**Fragmentation_proofs**, for any set of packets, any chunk counts up to
`MaxFragments`, any number of links, with or without errors of the filter
(`TypeAssumption`, `LinksAssumption`, `ChunksAssumption`, `FilterAssumption`).
`ReassembledIsIntact` speaks only of what is finished; inductive is that
everything *held* under an id is, index by index, a chunk of the packet the id
was drawn for (`HeldIsRight`) and that the filter holds what was shown
(`FilterKnowsShown`). `FullIsComplete` connects the count the collector compares
with the set of indices.


**MeshChat_proofs**, for any packets, senders, texts, filter errors and bounds
(`PacketsAssumption`, `BoundsAssumption`). That a packet is shown once is not
inductive by itself: `IInv` adds that the filter knows what was shown
(`FilterKnowsShown`), that a text not yet written was not reported as delivered
(`UnsentIsUndelivered`), and, for the types, that no count is above the number of
arrivals (`Counted`). `Handles` states what any of the ten packet handlers may do
to the counts of its packet; each handler is shown to do no more, and the
invariant is shown from `Handles` alone.

**GeohashDirect_proofs**, for any keys, names, messages and relays
(`DirectAssumption`). All names are given by `add_geohash_person`; one lemma
(`AddsPerson`) shows that it keeps one listed name for each key, whatever
sender name and aliases it is called with, and that every name leads to the key
it was called for or to the key it led to before (`Named`). From this follows
that `/dm` opens the thread of the key it encrypts for, although it looks the
label up again after the list changed, whenever the label is not the user's own
nickname. When
it is, `DmKeeps` needs `AliasShown`: who has an alias and is not in `namesakes` is
listed under that alias, so the label of such a person leads to their key without
being listed again. That the status is the best of the news
needs that there is none before the message is published (`Unsent`);
`BestIsKept` shows that the order of the news does not matter.

**GeohashChannels_proofs**, for any finite set of geohashes, any relays and
bounds (`NoneAssumption`, `BoundsAssumption`). `JoinedIsServed` is inductive with
the types: `MovesServe`, `SpawnServes` and `JoinServes` show it for a task that
moves, for new tasks, and for what joins and leaves. `ShownOnce` counts lines in
a queue; inductive is that each event is in one place: unseen, with the task
that handles it, in one line, or shown (`InOnePlace`).

**PrivateMessaging_proofs**, for any finite set of peers, any faults and bounds,
and both media (`NodeAssumption`, `FaultsAssumption`, `BoundsAssumption`,
`OrderedAssumption`). The argument has three layers. *Keys* (`OwnKeysOK`, `IdsSpent`):
a session of n is always under an ephemeral that n drew for it alone, and whatever
n sealed under that key, wherever it is now, has a nonce below the session's
counter. `KeyAgreement` and `NonceNeverReused` follow. *Messages* (`ClaimsOK`,
`QueuesOK`, `InboxesOK`, `DeliveredOK`): among all that a peer claims to have sent
(in flight, tracked, shown), an id and a message determine each other, and what
waits in a queue is claimed nowhere; so the recipient's filter of ids is a filter
of messages, and an acknowledgement, which carries an id only, means the message
its sender looks up. Every packet that leaves is described once, by what it may
add to the claims (`Grows`), for all the handlers that send.
`EstablishedQueueEmpty` has an invariant of its own (`QueuesEmpty`). *Order*
(`OrderInv`, over one link only, since a mesh reorders): `ShownInOrder` is not
inductive, because a peer may send what is newer past what still waits: when the
third handshake message could not be sent, the session is established on one side
with its queue not flushed, and the next message of its user goes out before the
queue, which is flushed when another handshake message arrives. What saves the
order is that the peer never gets these keys (`HeardOK`: whoever can read what an
initiator sends, now or after what is in flight, was handed the keys by a third
message, which leaves with the queue behind it; `FlushedOK`: a responder is flushed
when it is established). So `OrderOK` ranks what was shown, those in flight that the
peer can read or will (`Readable`), and what waits, by the order in which it was
asked for (`AskedOK`). `StepOfOrder` says what a handler may do to one side of a
link, each action is shown to do no more, and `OrderKept` shows the invariant from
it alone.

**Fragmentation_proofs**, `OutcomeIsTrue`: the property speaks of sends that are
over. `SendInv` adds that the send in progress has written its current link
exactly up to its index, no later link at all, and that its flag tells whether an
earlier link took everything (`ProgressOK`), and that of a packet not sent yet
nothing is written (`UnsentIsUnwritten`).

**MeshLinks_proofs**, for any devices, budget and bounds of the environment
(the assumptions of MeshLinks). `LinkBudget` compares a cardinality with a length:
the links have no repetitions, and this holds only if every list on the way from
a scan to an installation has none (`GoodLists` in `ScansOK`, `PendingOK` and
`LinksOK`), since both scans may report one device. `OnlyFacts` and `MergeFacts` say
what the health check and `merge_mesh_links` leave; that any set of positions can
be taken in order (`SubsetsEnumerable`) is an induction, over least elements of
a well-founded order (`WFMin`). `PrimaryOnlyWithoutLinks` needs that nothing is
installed before the first installation (`LinksOK`) and is inductive with that.

**Conversations_proofs**, for any peers and any finite sets of nicknames, people
and channels (`NamesAssumption`, `ChannelsAssumption`, `FiniteAssumption`, and
`NoneAssumption`: the value for "none" is no name and no conversation).
`GoesWhereOpened` compares what the user opened with where a line goes, after a
switch is settled (`Arrives`, with its exception after Enter on a blocked or settings
entry); it is not inductive, because the four places are written at
different times. `ConvOK` says when the copy of the conversation and the selection
agree: a geohash DM is open only with its channel selected, and a person of a
geohash channel is selected only if the DM is open. `SwitchOK` says that a switch
not settled yet leads to what was opened, and that its channel was not left;
`LeftOK` adds to `LeftStaysLeft` that a channel that was left is not selected, and that
`named` are channels left. `StaysPut` shows the
invariant once for all steps that only let lists grow, which needs that the
selected index keeps its entry (`WithChannelFacts`); `AtPublic`, `AtChannel`,
`InMesh` and `SelectionStays` show it for every way to arrive somewhere.
`SelectOther` shows what the indices say, so it needs that each index has an entry
of the sorted list, and what it shows in a geohash DM is a person of the same channel
(`ShownFacts`): `RanksExist`, an induction on finite sets, by least elements.
**Only model-checked**: liveness (TLAPS proves nothing about fairness or ENABLED),
that is `CalmIsShown`, `CalmIsDelivered`, `SentIsShown`, `TalkingIsLinked`,
`StopsAfterLeave` and `PostedIsShown`. Every invariant that a run checks is a theorem.

## Not modelled

The components marked `not_modelled` in `PROJECT.json`, with reasons. Inside the
others:

* verification challenges and the old inner-packet format in
  `handle_noise_encrypted_message`, NoiseIdentityAnnounce,
  `handle_noise_handshake_resp` (no code of this program sends that type),
  fingerprints, encryption status and callbacks of the session manager;
* the peripheral role and the Windows probes of the link management, the ranking
  of advertisements, and which error texts lead to the blacklist (a choice);
* cryptographic strength: the AEAD, Diffie-Hellman, signatures and NIP-44 are ideal;
* other devices as state machines of their own: their relaying is what the medium
  may do with copies. A graph of devices with TTLs would add routes, which no
  handler of this program looks at;
* event formats, the relay directory and its ranking, unread counters, scrolling,
  popups, and commands that only print or change a setting;
* a crash inside the write of the state file: a save is one step.

Duplicate filters never forget within one run of the program; their false positives
are modelled.

## What could come next

1. *Session bookkeeping*: fingerprints, encryption status, identity announce.
2. *Counters of the interface*: unread messages, with what the hazards at
   `tui/app.rs:1246` and `1846` say of them; pending and transient lines.
3. *File offers*: wormhole offers and their acceptance in a geohash DM.
