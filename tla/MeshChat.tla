-------------------------------- MODULE MeshChat --------------------------------
(***************************************************************************)
(* What one device does with the packets of the others that are no private  *)
(* Noise traffic: public texts, channel messages, messages under the old    *)
(* key exchange, files, acknowledgements and announcements; and the one     *)
(* channel whose password these, the user and the saved state fight over.   *)
(*                                                                          *)
(* The others and their relaying are the environment: any copy of a packet  *)
(* arrives over any link, any number of times up to a bound, in any order,  *)
(* with any TTL, whole or put together from fragments.                      *)
(***************************************************************************)
EXTENDS Naturals, FiniteSets

CONSTANTS
    Packets,        \* records [id, type, from, locked, cover], see Type below
    Texts,          \* what the user writes
    Blocked,        \* senders whose fingerprint is in blocked_peers
    Confused,       \* ids that the filter takes for seen once it holds another
    AckPeers,       \* up to how many peers a channel message is acknowledged
    MaxArrivals,    \* bound: packets that arrive, copies included
    MaxRestarts     \* bound: ends and starts of the program

Type == {"text", "public", "channel", "private", "transit", "noise", "file", "announce", "leave",
         "key", "protect", "open"}
Ids == {p.id : p \in Packets}
Senders == {p.from : p \in Packets}

ASSUME PacketsAssumption ==
    /\ IsFiniteSet(Packets)
    /\ \A p \in Packets : p.type \in Type /\ p.locked \in BOOLEAN /\ p.cover \in BOOLEAN
    /\ \A p, q \in Packets : p.id = q.id => p = q
ASSUME BoundsAssumption == AckPeers \in Nat /\ MaxArrivals \in Nat /\ MaxRestarts \in Nat

VARIABLES
    arrivals,
    bloom,          \* ids in the filter
    peers,          \* senders in the peer table
    peer_keys,      \* senders whose public key is known
    shown,          \* shown[id]: lines the message or file became
    sent_acks,      \* DeliveryTracker.sent_acks
    acked,          \* acked[id]: acknowledgements sent
    relayed,        \* relayed[id]: copies written back
    pending,        \* DeliveryTracker.pending_messages
    sent,           \* sent[x]: how the text x went out
    delivered,      \* delivered[x]: "Delivered to" lines
    in_channel,     \* is the user in the channel, or in public?
    protected,      \* is it in password_protected_channels?
    key,            \* channel_keys: "none", "right" or "wrong"
    commitment,     \* is there a key commitment?
    saved,          \* protected and commitment in the state file
    loaded,         \* ... as they were read when the program started
    restarts

rxVars      == <<arrivals, bloom, peers, peer_keys, shown, sent_acks, acked, relayed>>
txVars      == <<pending, sent, delivered>>
channelVars == <<in_channel, protected, key, commitment>>
stateVars == <<saved, loaded, restarts>>
vars == <<rxVars, txVars, channelVars, stateVars>>

Zero == [id \in Ids |-> 0]
Saves == saved' = [protected |-> protected', commitment |-> commitment']

Init ==
    /\ arrivals = 0 /\ bloom = {} /\ peers = {} /\ peer_keys = {}
    /\ shown = Zero /\ sent_acks = {} /\ acked = Zero /\ relayed = Zero
    /\ pending = {} /\ sent = [x \in Texts |-> "no"] /\ delivered = [x \in Texts |-> 0]
    /\ in_channel = FALSE /\ key = "none"
    /\ protected \in BOOLEAN /\ commitment \in {c \in BOOLEAN : c => protected}
    /\ saved = [protected |-> protected, commitment |-> commitment]
    /\ loaded = saved /\ restarts = 0

-----------------------------------------------------------------------------
(* Receiving                                                                 *)

Arrives == arrivals < MaxArrivals /\ arrivals' = arrivals + 1

(* The Bloom filter, which may take a new id for a known one.                *)
IsNewAlways(p) == TRUE              \* mutant: the filter is not asked
IsNew(p) == p.id \notin bloom /\ ~(p.id \in Confused /\ bloom # {})

IsIgnored(p) == p.from \in Blocked \cap peer_keys

Relay(p, ttl) ==
    relayed' = IF ttl > 1 THEN [relayed EXCEPT ![p.id] = @ + 1] ELSE relayed

(* handle_private_message_decryption, old keys: without the sender's nothing *)
(* comes of it.                                                              *)
IsReadable(p) == p.type = "private" => p.from \in peer_keys

(* should_send_ack, with the sender among the peers                          *)
ShouldSendAck(p) ==
    \/ p.type = "private"
    \/ p.type = "channel" /\ Cardinality(peers \cup {p.from}) < AckPeers
Acknowledge(p) ==
    IF ShouldSendAck(p) /\ p.id \notin sent_acks
    THEN sent_acks' = sent_acks \cup {p.id} /\ acked' = [acked EXCEPT ![p.id] = @ + 1]
    ELSE UNCHANGED <<sent_acks, acked>>

(* A new message makes its sender a peer, and a locked one its channel a     *)
(* protected one; the saved state does not learn of it now.                  *)
DiscoverMessage(p) ==               \* mutant: the peer is entered by the message's id
    /\ bloom' = bloom \cup {p.id} /\ peers' = peers \cup {p.id}
    /\ protected' = (protected \/ p.locked)
Discover(p) ==
    /\ bloom' = bloom \cup {p.id} /\ peers' = peers \cup {p.from}
    /\ protected' = (protected \/ p.locked)

Show(p) == shown' = [shown EXCEPT ![p.id] = @ + 1]

(* handle_message_packet, for a payload that parses: everything happens to   *)
(* the first copy, cover traffic ends before it is shown.                    *)
ReceiveMessage(p, ttl) ==
    /\ p.type \in {"public", "channel", "private"} /\ Arrives
    /\ IF IsIgnored(p) \/ ~IsReadable(p) \/ ~IsNew(p)
       THEN UNCHANGED <<bloom, peers, shown, sent_acks, acked, relayed, protected>>
       ELSE /\ Discover(p)
            /\ IF p.type = "private" /\ p.cover
               THEN UNCHANGED <<shown, sent_acks, acked, relayed>>
               ELSE Show(p) /\ Acknowledge(p) /\ Relay(p, ttl)
    /\ UNCHANGED <<peer_keys, txVars, in_channel, key, commitment, stateVars>>

(* ... for plain text: shown once, written back for every copy               *)
ReceiveText(p, ttl) ==
    /\ p.type = "text" /\ Arrives
    /\ IF IsIgnored(p) \/ p.cover
       THEN UNCHANGED <<bloom, shown, relayed>>
       ELSE /\ Relay(p, ttl)
            /\ IF IsNew(p) THEN bloom' = bloom \cup {p.id} /\ Show(p)
               ELSE UNCHANGED <<bloom, shown>>
    /\ UNCHANGED <<peers, peer_keys, sent_acks, acked, txVars, channelVars, stateVars>>

(* ... and for others: handle_message_relay, of every copy                   *)
ReceiveTransit(p, ttl) ==
    /\ p.type = "transit" /\ Arrives
    /\ IF IsIgnored(p) THEN UNCHANGED relayed ELSE Relay(p, ttl)
    /\ UNCHANGED <<bloom, peers, peer_keys, shown, sent_acks, acked, txVars, channelVars, stateVars>>

(* Noise packets for others are written to every link, every copy of them.   *)
ReceiveNoiseTransit(p, ttl) ==
    /\ p.type = "noise" /\ Arrives
    /\ Relay(p, ttl)
    /\ UNCHANGED <<bloom, peers, peer_keys, shown, sent_acks, acked, txVars, channelVars, stateVars>>

(* handle_fragment_packet, for what is put together: no acknowledgement, and *)
(* its fragments were written back one by one.  A text does not make its     *)
(* sender a peer.                                                            *)
ReceiveReassembled(p) ==
    /\ p.type \in {"public", "channel", "private", "text"} /\ Arrives
    /\ IF IsIgnored(p) \/ ~IsReadable(p) \/ ~IsNew(p) \/ (p.type = "text" /\ p.cover)
       THEN UNCHANGED <<bloom, peers, shown, protected>>
       ELSE /\ IF p.type = "text" THEN bloom' = bloom \cup {p.id} /\ UNCHANGED <<peers, protected>>
               ELSE Discover(p)
            /\ IF p.cover /\ p.type = "private" THEN UNCHANGED shown ELSE Show(p)
    /\ UNCHANGED <<peer_keys, sent_acks, acked, relayed, txVars, in_channel, key, commitment,
                   stateVars>>

(* handle_file_transfer_packet: a file, whole or not, that can be saved or   *)
(* not                                                                       *)
ReceiveFile(p) ==
    /\ p.type = "file" /\ Arrives
    /\ IF IsNew(p)
       THEN bloom' = bloom \cup {p.id} /\ (Show(p) \/ UNCHANGED shown)
       ELSE UNCHANGED <<bloom, shown>>
    /\ UNCHANGED <<peers, peer_keys, sent_acks, acked, relayed, txVars, channelVars, stateVars>>

(* handle_announce_message, handle_leave_message, handle_key_exchange_message *)
ReceiveAnnounce(p) ==
    /\ p.type = "announce" /\ Arrives /\ peers' = peers \cup {p.from}
    /\ UNCHANGED <<bloom, peer_keys, shown, sent_acks, acked, relayed, txVars, channelVars,
                   stateVars>>

ReceiveLeave(p) ==
    /\ p.type = "leave" /\ Arrives /\ peers' = peers \ {p.from}
    /\ UNCHANGED <<bloom, peer_keys, shown, sent_acks, acked, relayed, txVars, channelVars,
                   stateVars>>

ReceiveKey(p) ==
    /\ p.type = "key" /\ Arrives /\ peer_keys' = peer_keys \cup {p.from}
    /\ UNCHANGED <<bloom, peers, shown, sent_acks, acked, relayed, txVars, channelVars, stateVars>>

(* handle_channel_announce_message: who opens a channel takes its key.       *)
KeepKey == key                      \* mutant: the key stays
ForgetKey == "none"
ReceiveChannelAnnounce(p) ==
    /\ p.type \in {"protect", "open"} /\ Arrives
    /\ protected' = (p.type = "protect")
    /\ \/ p.type = "protect" /\ commitment' \in {commitment, TRUE} /\ UNCHANGED key
       \/ p.type = "open" /\ commitment' = FALSE /\ key' = ForgetKey
    /\ Saves
    /\ UNCHANGED <<bloom, peers, peer_keys, shown, sent_acks, acked, relayed, txVars, in_channel,
                   loaded, restarts>>

(* handle_delivery_ack_message: some peer had the text in the channel.       *)
Marked(x) == pending \ {x}
ReceiveAck(x) ==
    /\ sent[x] \in {"clear", "right", "wrong"} /\ Arrives
    /\ pending' = Marked(x)
    /\ delivered' = IF x \in pending THEN [delivered EXCEPT ![x] = @ + 1] ELSE delivered
    /\ UNCHANGED <<bloom, peers, peer_keys, shown, sent_acks, acked, relayed, sent, channelVars,
                   stateVars>>

-----------------------------------------------------------------------------
(* The user                                                                  *)

(* handle_join_command.  A password for a channel without a commitment is    *)
(* taken as it comes.  The user interface is in the channel in any case, and *)
(* the mode follows.                                                         *)
Join(password) ==
    /\ key' = IF protected /\ key = "none" /\ ~(commitment /\ password = "wrong")
              THEN password ELSE key
    /\ in_channel' = TRUE
    /\ UNCHANGED <<protected, commitment>> /\ Saves /\ UNCHANGED <<rxVars, txVars, loaded, restarts>>

(* handle_leave_command                                                      *)
LeaveChannel ==
    /\ in_channel /\ in_channel' = FALSE /\ key' = ForgetKey
    /\ UNCHANGED <<protected, commitment>> /\ Saves /\ UNCHANGED <<rxVars, txVars, loaded, restarts>>

SwitchToPublic ==
    /\ in_channel /\ in_channel' = FALSE
    /\ UNCHANGED <<rxVars, txVars, protected, key, commitment, stateVars>>

(* handle_regular_message: a text is tracked, then it is sent, or no link    *)
(* takes it.  In a channel it is locked if there is a key.                   *)
MaySend == ~(in_channel /\ protected /\ key = "none")
Form == IF ~in_channel THEN "public" ELSE IF key = "none" THEN "clear" ELSE key
Write(x) ==
    /\ sent[x] = "no" /\ MaySend
    /\ pending' = pending \cup {x}
    /\ sent' \in {[sent EXCEPT ![x] = Form], [sent EXCEPT ![x] = "failed"]}
    /\ UNCHANGED <<rxVars, delivered, channelVars, stateVars>>

(* The commands that change a setting write the whole state; the label of a  *)
(* verified peer is written with all the rest as it was loaded.              *)
SaveSettings == UNCHANGED <<rxVars, txVars, channelVars, loaded, restarts>> /\ Saves
SaveLabel == saved' = loaded /\ UNCHANGED <<rxVars, txVars, channelVars, loaded, restarts>>

(* The program starts again from the saved state, after a crash or /exit.    *)
StartsWith(file) ==
    /\ restarts < MaxRestarts /\ restarts' = restarts + 1
    /\ bloom' = {} /\ peers' = {} /\ peer_keys' = {}
    /\ shown' = Zero /\ sent_acks' = {} /\ acked' = Zero /\ relayed' = Zero
    /\ pending' = {} /\ in_channel' = FALSE /\ key' = "none"
    /\ protected' = file.protected /\ commitment' = file.commitment
    /\ saved' = file /\ loaded' = file
    /\ UNCHANGED <<arrivals, sent, delivered>>

Crash == StartsWith(saved)
Exit  == StartsWith([protected |-> protected, commitment |-> commitment])

-----------------------------------------------------------------------------
Receive(p) ==
    \/ \E ttl \in 1..2 : ReceiveMessage(p, ttl) \/ ReceiveText(p, ttl) \/ ReceiveTransit(p, ttl)
                       \/ ReceiveNoiseTransit(p, ttl)
    \/ ReceiveReassembled(p) \/ ReceiveFile(p) \/ ReceiveAnnounce(p) \/ ReceiveLeave(p)
    \/ ReceiveKey(p) \/ ReceiveChannelAnnounce(p)

Next ==
    \/ \E p \in Packets : Receive(p)
    \/ \E x \in Texts : ReceiveAck(x) \/ Write(x)
    \/ \E password \in {"none", "right", "wrong"} : Join(password)
    \/ LeaveChannel \/ SwitchToPublic \/ SaveSettings \/ SaveLabel \/ Crash \/ Exit

Spec == Init /\ [][Next]_vars

-----------------------------------------------------------------------------
(* Type correctness.                                                         *)
TypeOK ==
    /\ arrivals \in 0..MaxArrivals /\ bloom \subseteq Ids
    /\ peers \subseteq Senders /\ peer_keys \subseteq Senders
    /\ \A f \in {shown, acked, relayed} : f \in [Ids -> 0..MaxArrivals]
    /\ sent_acks \subseteq Ids
    /\ pending \subseteq Texts /\ delivered \in [Texts -> 0..MaxArrivals]
    /\ sent \in [Texts -> {"no", "failed", "public", "clear", "right", "wrong"}]
    /\ in_channel \in BOOLEAN /\ protected \in BOOLEAN /\ commitment \in BOOLEAN
    /\ key \in {"none", "right", "wrong"}
    /\ {saved, loaded} \subseteq [protected : BOOLEAN, commitment : BOOLEAN]
    /\ restarts \in 0..MaxRestarts

(* However many copies of a packet arrive, whole and in fragments, one run   *)
(* of the program shows it at most once, acknowledges it at most once and    *)
(* only if it was shown, and writes a message it could read back at most     *)
(* once; an acknowledged text is reported as delivered at most once          *)
(* (handle_message_packet, handle_fragment_packet, DeliveryTracker).         *)
ShownOnce == \A id \in Ids : shown[id] <= 1
AckedWasShown == \A id \in Ids : acked[id] <= shown[id]
RelayedOnce ==
    \A p \in Packets : p.type \in {"public", "channel", "private"} => relayed[p.id] <= shown[p.id]
DeliveredOnce == \A x \in Texts : delivered[x] <= 1 /\ (delivered[x] = 1 => x \notin pending)
EachOnce == ShownOnce /\ AckedWasShown /\ RelayedOnce /\ DeliveredOnce

(* The device holds a key only for a channel it knows to be protected, with  *)
(* joins, leaves, restarts and announcements in any order: no message is     *)
(* locked in a channel that everybody else holds to be open                  *)
(* (handle_join_command, handle_leave_command,                               *)
(* handle_channel_announce_message).                                         *)
KeyOnlyIfProtected == key # "none" => protected
CommittedIsProtected ==
    /\ commitment => protected
    /\ \A file \in {saved, loaded} : file.commitment => file.protected
KeysFollowChannel == KeyOnlyIfProtected /\ CommittedIsProtected
=============================================================================
