---------------------------- MODULE PrivateMessaging ----------------------------
(***************************************************************************)
(* Private messages between peers: the packet handlers and the user        *)
(* commands that drive the Noise sessions (notification_handlers.rs,       *)
(* message_handlers.rs, command_handling.rs, the main loop of main.rs).    *)
(*                                                                         *)
(* The main loop runs one handler at a time to its end, so each handler is *)
(* one action.  A handler's sends may fail as a whole (no link accepts the *)
(* packet); what is sent travels as Medium says.                           *)
(***************************************************************************)
EXTENDS NoiseSession, Medium, FiniteSets

CONSTANTS
    Node,           \* peer ids; their order is the order of the id strings
    Faults,         \* what may go wrong, see Fault
    MaxEphemerals,  \* bound: ephemeral keys a peer generates
    MaxDms,         \* bound: private messages per ordered pair of peers
    MaxTroubles     \* bound: retries, leaves and syncs of a peer together

ASSUME NodeAssumption == Node \subseteq Nat \ {0} /\ IsFiniteSet(Node)
(* Sends fail, the duplicate filter errs, queued messages expire, the        *)
(* connection is retried, a channel is left, a RequestSync arrives.          *)
Fault == {"send", "bloom", "expiry", "retry", "leave", "sync"}
ASSUME FaultsAssumption == Faults \subseteq Fault
ASSUME BoundsAssumption ==
    MaxEphemerals \in Nat /\ MaxDms \in Nat /\ MaxTroubles \in Nat

VARIABLES
    session,    \* session[n][p]: what n's session manager holds for peer p
    ephemerals, \* ephemerals[n]: ephemeral keys n has generated
    net,        \* net[p][n]: packets from p to n that may still arrive
    asked,      \* asked[n]: messages the user of n asked to send
    bloom,      \* bloom[n]: message ids in n's duplicate filter
    inbox,      \* inbox[n]: messages shown to the user of n, oldest first
    tracked,    \* tracked[n]: sent messages whose id n's UI knows
    delivered,  \* delivered[n]: messages n's UI shows as delivered
    troubles    \* troubles[n]: retries, leaves and syncs of n so far

vars == <<session, ephemerals, net, asked, bloom, inbox, tracked, delivered,
          troubles>>
uiVars == <<asked, bloom, inbox, tracked, delivered>>

Peers(n) == Node \ {n}

(* A user's message.                                                         *)
Dm(n, p, k) == [from |-> n, to |-> p, serial |-> k]

Fresh(n) == Ephemeral(n, ephemerals[n] + 1)
SendOutcomes == IF "send" \in Faults THEN BOOLEAN ELSE {TRUE}

-----------------------------------------------------------------------------
(* Packets.  A relay leaves sender and recipient alone, and a peer only      *)
(* handles what is addressed to it, so relaying is part of the medium.       *)
HandshakePacket(msg)   == [type |-> "NoiseHandshakeInit", noise |-> msg]
EncryptedPacket(ct)    == [type |-> "NoiseEncrypted", sealed |-> ct]
RequestPacket          == [type |-> "HandshakeRequest"]
LeavePacket(what)      == [type |-> "Leave", leaves |-> what]

Arrives(p, n, packet) == packet \in Arrivals(net[p][n])

(* n sends packets to p on its own account, or after taking one from p.      *)
Emit(n, p, packets) ==
    net' = [net EXCEPT ![n][p] = Transmit(@, packets)]
Exchange(n, p, packets) ==
    net' = [net EXCEPT ![p][n] = AfterArrival(@), ![n][p] = Transmit(@, packets)]

Becomes(n, p, s) == session' = [session EXCEPT ![n][p] = s]

Init ==
    /\ session = [n \in Node |-> [p \in Peers(n) |-> NoSession]]
    /\ ephemerals = [n \in Node |-> 0]
    /\ net = [n \in Node |-> [p \in Peers(n) |-> EmptyMedium]]
    /\ asked = [n \in Node |-> {}]
    /\ bloom = [n \in Node |-> {}]
    /\ inbox = [n \in Node |-> <<>>]
    /\ tracked = [n \in Node |-> {}]
    /\ delivered = [n \in Node |-> {}]
    /\ troubles = [n \in Node |-> 0]

-----------------------------------------------------------------------------
(* The user sends a message.                                                 *)

Ask(n, p, dm) ==
    /\ dm \in {Dm(n, p, k) : k \in 1..MaxDms} \ asked[n]
    /\ \A k \in 1..dm.serial - 1 : Dm(n, p, k) \in asked[n]
    /\ asked' = [asked EXCEPT ![n] = @ \cup {dm}]
    /\ UNCHANGED <<bloom, inbox, delivered, troubles>>

(* Common to both commands: initiate_handshake and the send of what it      *)
(* wrote, for a session that already holds the message.                     *)
StartHandshake(n, p, s) ==
    IF CanWrite(s.handshake)
    THEN /\ ephemerals[n] < MaxEphemerals
         /\ ephemerals' = [ephemerals EXCEPT ![n] = @ + 1]
         /\ Becomes(n, p, InitiateHandshake(s, Fresh(n)))
         /\ \E sent \in SendOutcomes :
              Emit(n, p, IF sent
                         THEN <<HandshakePacket(WrittenMessage(s.handshake, Fresh(n)))>>
                         ELSE <<>>)
         /\ UNCHANGED tracked
    ELSE /\ Becomes(n, p, InitiateHandshake(s, NoKey))
         /\ UNCHANGED <<ephemerals, net, tracked>>

(* On an established session the message is encrypted and sent at once, and *)
(* tracked for its delivery status if a link took it.                       *)
SendEncrypted(n, p, dm) ==
    LET s  == session[n][p]
        ct == PrivateMessage(s.send, dm)
    IN  /\ Becomes(n, p, AfterEncryption(s))
        /\ \E sent \in SendOutcomes :
             /\ Emit(n, p, IF sent THEN <<EncryptedPacket(ct)>> ELSE <<>>)
             /\ tracked' = IF sent THEN [tracked EXCEPT ![n] =
                                          @ \cup {[dm |-> dm, id |-> MessageId(s.send)]}]
                                   ELSE tracked
        /\ UNCHANGED ephemerals

(* A line typed in a private chat: a handshake in progress is replaced by a *)
(* fresh one.                                                               *)
ChatMessage(n, p, dm) ==
    /\ Ask(n, p, dm)
    /\ IF IsEstablished(session[n][p])
       THEN SendEncrypted(n, p, dm)
       ELSE StartHandshake(n, p,
                StorePending(CreateSession(session[n][p], "Initiator"), dm))

(* /dm name text: the next message of the handshake in progress is written. *)
SlashDm(n, p, dm) ==
    /\ Ask(n, p, dm)
    /\ IF IsEstablished(session[n][p])
       THEN SendEncrypted(n, p, dm)
       ELSE StartHandshake(n, p,
                StorePending(IF HasSession(session[n][p]) THEN session[n][p]
                             ELSE CreateSession(NoSession, "Initiator"), dm))

-----------------------------------------------------------------------------
(* A packet from p is handled by n.                                          *)

(* send_pending_messages, after the packets already sent by the handler.    *)
(* Each message may fail to be sent on its own; it is lost then, as are the *)
(* expired ones.                                                            *)
SentOf(len) ==      \* the positions of those that are sent, in order
    UNION {{sent \in [1..m -> 1..len] : \A i, j \in 1..m : i < j => sent[i] < sent[j]}
           : m \in 0..len}

FlushPending(n, p, s, packets) ==
    \E expired \in IF "expiry" \in Faults THEN 0..Len(s.pending) ELSE {0} :
        LET cts == FlushedCiphertexts(s, expired)
        IN  \E sent \in SentOf(Len(cts)) :
              /\ "send" \in Faults \/ DOMAIN sent = 1..Len(cts)
              /\ Becomes(n, p, AfterFlush(s, expired))
              /\ Exchange(n, p, packets \o
                     [i \in DOMAIN sent |-> EncryptedPacket(cts[sent[i]])])

(* handle_noise_handshake_init.  All handshake messages travel under this   *)
(* type.  A response that could not be sent leaves the queue as it is, even *)
(* if the session is established now.                                       *)
HandleNoiseHandshakeInit(n, p, packet) ==
    /\ Arrives(p, n, packet)
    /\ packet.type = "NoiseHandshakeInit"
    /\ UNCHANGED <<uiVars, troubles>>
    /\ LET msg    == packet.noise
           s      == IF HasSession(session[n][p]) THEN session[n][p]
                     ELSE CreateSession(NoSession, "Responder")
           result == IncomingResult(s, msg)
           after  == AfterIncoming(s, msg, Fresh(n))
           reply  == HandshakePacket(IncomingResponse(s, msg, Fresh(n)))
       IN  /\ IF ResponseDrawsKey(s, msg)
              THEN /\ ephemerals[n] < MaxEphemerals
                   /\ ephemerals' = [ephemerals EXCEPT ![n] = @ + 1]
              ELSE UNCHANGED ephemerals
           /\ \/ /\ result = "Failed"
                 /\ Becomes(n, p, after)
                 /\ Exchange(n, p, <<>>)
              \/ /\ result \in {"Ignored", "Done"}
                 /\ FlushPending(n, p, after, <<>>)
              \/ /\ result = "Response"
                 /\ IF IsEstablished(after)
                    THEN FlushPending(n, p, after, <<reply>>)
                    ELSE Becomes(n, p, after) /\ Exchange(n, p, <<reply>>)
              \/ /\ result = "Response" /\ "send" \in Faults
                 /\ Becomes(n, p, after)
                 /\ Exchange(n, p, <<>>)

(* send_handshake_request *)
SendHandshakeRequest(n, p) ==
    \E sent \in SendOutcomes :
        Exchange(n, p, IF sent THEN <<RequestPacket>> ELSE <<>>)

(* handle_noise_encrypted_message without an established session: a         *)
(* handshake in progress is thrown away, with the messages it holds, and    *)
(* the peer is asked for a new one.                                         *)
HandleEncryptedWithoutSession(n, p, packet) ==
    /\ Arrives(p, n, packet)
    /\ packet.type = "NoiseEncrypted"
    /\ ~IsEstablished(session[n][p])
    /\ Becomes(n, p, RemoveSession)
    /\ SendHandshakeRequest(n, p)
    /\ UNCHANGED <<ephemerals, uiVars, troubles>>

(* handle_noise_encrypted_message, a ciphertext that does not open: ignored.*)
HandleUnreadable(n, p, packet) ==
    /\ Arrives(p, n, packet)
    /\ packet.type = "NoiseEncrypted"
    /\ IsEstablished(session[n][p])
    /\ DecryptResult(session[n][p].receive, packet.sealed) # "Ok"
    /\ Exchange(n, p, <<>>)
    /\ UNCHANGED <<session, ephemerals, uiVars, troubles>>

(* A private message that opens: dropped when its id is (or seems, the      *)
(* filter being probabilistic) known, else shown and acknowledged.          *)
Acknowledge(n, p, s, id, outcomes) ==
    /\ Becomes(n, p, AfterEncryption(s))
    /\ \E sent \in outcomes :
         Exchange(n, p, IF sent THEN <<EncryptedPacket(DeliveredAck(s.send, id))>>
                        ELSE <<>>)

DropAcknowledged(n, p, s, id) ==     \* mutant: a duplicate is acknowledged too
    Acknowledge(n, p, s, id, {TRUE}) /\ UNCHANGED <<bloom, inbox>>
DropDuplicate(n, p, s, id) ==
    /\ Becomes(n, p, s)
    /\ Exchange(n, p, <<>>)
    /\ UNCHANGED <<bloom, inbox>>

HandlePrivateMessage(n, p, packet) ==
    /\ Arrives(p, n, packet)
    /\ packet.type = "NoiseEncrypted"
    /\ IsEstablished(session[n][p])
    /\ DecryptResult(session[n][p].receive, packet.sealed) = "Ok"
    /\ packet.sealed.payload.type = "message"
    /\ LET dm == packet.sealed.payload.dm
           id == packet.sealed.payload.id
           s  == AfterDecryption(session[n][p], packet.sealed)
       IN  \/ /\ id \in bloom[n] \/ "bloom" \in Faults
              /\ DropDuplicate(n, p, s, id)
           \/ /\ id \notin bloom[n]
              /\ bloom' = [bloom EXCEPT ![n] = @ \cup {id}]
              /\ inbox' = [inbox EXCEPT ![n] =
                              Append(@, [from |-> p, dm |-> dm, id |-> id])]
              /\ Acknowledge(n, p, s, id, SendOutcomes)
    /\ UNCHANGED <<ephemerals, asked, tracked, delivered, troubles>>

(* A delivered acknowledgement that opens: the UI marks the message, if it  *)
(* knows one of that id.                                                    *)
Known(n, id) == {x \in tracked[n] : x.id = id}

HandleDelivered(n, p, packet) ==
    /\ Arrives(p, n, packet)
    /\ packet.type = "NoiseEncrypted"
    /\ IsEstablished(session[n][p])
    /\ DecryptResult(session[n][p].receive, packet.sealed) = "Ok"
    /\ packet.sealed.payload.type = "delivered"
    /\ Becomes(n, p, AfterDecryption(session[n][p], packet.sealed))
    /\ delivered' = [delivered EXCEPT ![n] =
                        @ \cup Known(n, packet.sealed.payload.id)]
    /\ Exchange(n, p, <<>>)
    /\ UNCHANGED <<ephemerals, asked, bloom, inbox, tracked, troubles>>

(* handle_handshake_request_message: only the lower id starts a handshake,  *)
(* and only when it has no session at all with the requester.               *)
HandleHandshakeRequest(n, p, packet) ==
    /\ Arrives(p, n, packet)
    /\ packet.type = "HandshakeRequest"
    /\ UNCHANGED <<uiVars, troubles>>
    /\ IF ~HasSession(session[n][p]) /\ n < p
       THEN LET s == CreateSession(NoSession, "Initiator")
            IN  /\ ephemerals[n] < MaxEphemerals
                /\ ephemerals' = [ephemerals EXCEPT ![n] = @ + 1]
                /\ Becomes(n, p, InitiateHandshake(s, Fresh(n)))
                /\ \E sent \in SendOutcomes :
                     Exchange(n, p,
                        IF sent
                        THEN <<HandshakePacket(WrittenMessage(s.handshake, Fresh(n)))>>
                        ELSE <<>>)
       ELSE /\ Exchange(n, p, <<>>)
            /\ UNCHANGED <<session, ephemerals>>

(* A Leave packet removes the session, whatever it says is being left.      *)
HandleLeave(n, p, packet) ==
    /\ Arrives(p, n, packet)
    /\ packet.type = "Leave"
    /\ Becomes(n, p, RemoveSession)
    /\ Exchange(n, p, <<>>)
    /\ UNCHANGED <<ephemerals, uiVars, troubles>>

Trouble(n, kind) ==
    /\ kind \in Faults /\ troubles[n] < MaxTroubles
    /\ troubles' = [troubles EXCEPT ![n] = @ + 1]

(* A RequestSync packet (other clients send them) asks for a handshake when *)
(* there is no established session; MaxTroubles stands for the cooldown.    *)
HandleRequestSync(n, p) ==
    /\ Trouble(n, "sync")
    /\ ~IsEstablished(session[n][p])
    /\ \E sent \in SendOutcomes : Emit(n, p, IF sent THEN <<RequestPacket>> ELSE <<>>)
    /\ UNCHANGED <<session, ephemerals, uiVars>>

-----------------------------------------------------------------------------
(* /leave: the packet names the channel that is left.                        *)
LeaveChannel(n) ==
    /\ Trouble(n, "leave")
    /\ net' = [net EXCEPT ![n] =
                  [p \in Peers(n) |-> Transmit(net[n][p], <<LeavePacket("channel")>>)]]
    /\ UNCHANGED <<session, ephemerals, uiVars>>

(* pending_connection_retry: the session manager is dropped with every      *)
(* session and a new one is created once a link is up again.                *)
ConnectionRetry(n) ==
    /\ Trouble(n, "retry")
    /\ session' = [session EXCEPT ![n] = [p \in Peers(n) |-> NoSession]]
    /\ UNCHANGED <<ephemerals, net, uiVars>>

-----------------------------------------------------------------------------
UserSends(n, p) ==
    \E dm \in {Dm(n, p, k) : k \in 1..MaxDms} :
        ChatMessage(n, p, dm) \/ SlashDm(n, p, dm)

HandlePacket(n, p, packet) ==
    \/ HandleNoiseHandshakeInit(n, p, packet)
    \/ HandleEncryptedWithoutSession(n, p, packet)
    \/ HandleUnreadable(n, p, packet)
    \/ HandlePrivateMessage(n, p, packet)
    \/ HandleDelivered(n, p, packet)
    \/ HandleHandshakeRequest(n, p, packet)
    \/ HandleLeave(n, p, packet)

Receive(n, p) == \E packet \in Arrivals(net[p][n]) : HandlePacket(n, p, packet)

Next ==
    \E n \in Node :
        \/ \E p \in Peers(n) :
              UserSends(n, p) \/ Receive(n, p) \/ HandleRequestSync(n, p)
        \/ LeaveChannel(n)
        \/ ConnectionRetry(n)

Spec == Init /\ [][Next]_vars

-----------------------------------------------------------------------------
(* Properties.                                                               *)

Pair == {pr \in Node \X Node : pr[1] # pr[2]}
Shown(n) == {inbox[n][i].dm : i \in 1..Len(inbox[n])}
Queued(n, p) == {session[n][p].pending[i] : i \in 1..Len(session[n][p].pending)}
InFlight == UNION {Contents(net[pr[1]][pr[2]]) : pr \in Pair}
Sealings == {packet.sealed : packet \in {q \in InFlight : q.type = "NoiseEncrypted"}}

Carries(ct, dm) == ct.payload.type = "message" /\ ct.payload.dm = dm

(* Type invariant: shapes of the sessions, the medium and the histories.     *)
Ephemerals == {NoKey} \cup [owner : Node, serial : 1..MaxEphemerals]
CipherKeys == [i : Ephemerals, r : Ephemerals, direction : 0..2]
CipherOK(c) ==
    c \in [key : CipherKeys, nonce : Nat, replay_window : SUBSET Nat, highest : Nat]
MessageIdOK(id) == id.key \in CipherKeys /\ id.nonce \in Nat
HandshakeOK(hs) ==
    hs \in [role : {"Initiator", "Responder"}, current_pattern : 0..Patterns,
            e : Ephemerals, re : Ephemerals, honest : BOOLEAN]
Dms == {Dm(pr[1], pr[2], k) : pr \in Pair, k \in 1..MaxDms}
PacketTypes == {"NoiseHandshakeInit", "NoiseEncrypted", "HandshakeRequest",
                "Leave"}

TypeOK ==
    /\ \A pr \in Pair :
         LET s == session[pr[1]][pr[2]]
         IN  /\ s.state \in {"None", "Handshaking", "Established"}
             /\ HandshakeOK(s.handshake)
             /\ CipherOK(s.send) /\ CipherOK(s.receive)
             /\ s.pending \in Seq(Dms)
    /\ \A packet \in InFlight : packet.type \in PacketTypes
    /\ \A n \in Node :
         /\ ephemerals[n] \in 0..MaxEphemerals
         /\ asked[n] \subseteq Dms
         /\ \A x \in tracked[n] : x.dm \in asked[n] /\ MessageIdOK(x.id)
         /\ \A id \in bloom[n] : MessageIdOK(id)
         /\ delivered[n] \subseteq tracked[n]
         /\ \A i \in 1..Len(inbox[n]) :
              LET x == inbox[n][i]
              IN  x.from \in Node /\ x.dm \in Dms /\ MessageIdOK(x.id)

(* Agreement: the two keys of an established session belong to one          *)
(* handshake between these two peers, one ephemeral of each; and if the     *)
(* peer's session is of the same handshake, what one sends with is what the *)
(* other receives with.  Stale, replayed and misread handshake messages     *)
(* (read_message accepts anything as a first message) must not break this.  *)
KeyAgreement ==
    \A pr \in Pair :
        LET s == session[pr[1]][pr[2]]
            t == session[pr[2]][pr[1]]
        IN  IsEstablished(s) =>
              /\ s.send.key.i = s.receive.key.i /\ s.send.key.r = s.receive.key.r
              /\ {s.send.key.i.owner, s.send.key.r.owner} = {pr[1], pr[2]}
              /\ s.send.key.direction = IF s.send.key.i.owner = pr[1] THEN 1 ELSE 2
              /\ s.receive.key.direction = 3 - s.send.key.direction
              /\ (IsEstablished(t) /\ t.send.key.i = s.send.key.i
                                   /\ t.send.key.r = s.send.key.r)
                   => t.send.key = s.receive.key /\ t.receive.key = s.send.key

(* No key is ever used twice with the same nonce for different plaintexts,  *)
(* through removals, retries and repeated handshakes: a counter that starts *)
(* at zero again always starts under a new key (split and encrypt).         *)
NonceNeverReused ==
    \A c, d \in Sealings : (c.key = d.key /\ c.nonce = d.nonce) => c = d

(* What a user is shown was asked for, for that user, by the peer it is      *)
(* shown to come from, and is shown once, whatever arrives how often.        *)
ShownIsAuthentic ==
    \A n \in Node : \A i \in 1..Len(inbox[n]) :
        LET x == inbox[n][i]
        IN  /\ x.dm \in asked[x.from] /\ x.dm.to = n /\ x.dm.from = x.from
            /\ \A j \in 1..Len(inbox[n]) : inbox[n][j].dm = x.dm => i = j

(* A message shown as delivered to its sender was shown to its recipient,    *)
(* although acknowledgements name it only by an id, travel out of order, and *)
(* the filter that drops duplicates errs (send_private_noise_ack only after  *)
(* the message went to the UI).                                              *)
DeliveredWasShown ==
    \A n \in Node : \A x \in delivered[n] :
        /\ x.dm.from = n
        /\ \E i \in 1..Len(inbox[x.dm.to]) :
              inbox[x.dm.to][i] = [from |-> n, dm |-> x.dm, id |-> x.id]

(* A message waiting for a session has not been sent: it is queued once, at  *)
(* its own sender, for its own recipient, who has not seen it.               *)
QueuedWasNotSent ==
    \A pr \in Pair :
        LET q == session[pr[1]][pr[2]].pending
        IN  /\ \A i, j \in 1..Len(q) : q[i] = q[j] => i = j
            /\ \A dm \in Queued(pr[1], pr[2]) :
                 /\ dm.from = pr[1] /\ dm.to = pr[2]
                 /\ dm \notin Shown(pr[2])
                 /\ \A ct \in Sealings : ~Carries(ct, dm)

(* When no send fails, an established session has nothing left in its queue. *)
EstablishedQueueEmpty ==
    "send" \notin Faults =>
        \A pr \in Pair : LET s == session[pr[1]][pr[2]]
                         IN  IsEstablished(s) => s.pending = <<>>

(* Over one direct link the messages of a peer are shown in the order they   *)
(* were asked for, whether they waited for the session or not.               *)
ShownInOrder ==
    Ordered =>
        \A n \in Node : \A i, j \in 1..Len(inbox[n]) :
            (i < j /\ inbox[n][i].from = inbox[n][j].from)
                => inbox[n][i].dm.serial < inbox[n][j].dm.serial
=============================================================================
