------------------------- MODULE PrivateMessaging_proofs -------------------------
(***************************************************************************)
(* Proofs about PrivateMessaging, for any set of peers, any bounds, any     *)
(* faults, and both kinds of medium.                                        *)
(*                                                                         *)
(* The argument has three layers.  Keys: a session of n is always under an   *)
(* ephemeral key that n drew for it alone, and whatever n sealed under that  *)
(* key has a nonce below the session's counter (IdsSpent).  Messages: an id  *)
(* and a message determine each other among all that a peer claims to have   *)
(* sent, in flight, tracked or shown (ClaimsOK), and what waits in a queue   *)
(* is claimed nowhere (QueuesOK).  Order, over one link: what was shown,     *)
(* what is in flight and will be read, and what waits stand in the order in  *)
(* which they were asked for (OrderOK).                                      *)
(***************************************************************************)
EXTENDS PrivateMessaging, TLAPS

-----------------------------------------------------------------------------
(* Types.                                                                    *)
Ciphers == [key : CipherKeys, nonce : Nat, replay_window : SUBSET Nat, highest : Nat]
Handshakes == [role : {"Initiator", "Responder"}, current_pattern : 0..Patterns,
               e : Ephemerals, re : Ephemerals, honest : BOOLEAN]
Sessions == [state : {"None", "Handshaking", "Established"}, handshake : Handshakes,
             send : Ciphers, receive : Ciphers, pending : Seq(Dms)]
Ids == [key : CipherKeys, nonce : Nat]
Claims == [dm : Dms, id : Ids]
Payloads == [type : {"message"}, dm : Dms, id : Ids] \cup [type : {"delivered"}, id : Ids]
Ciphertexts == [key : CipherKeys, nonce : Nat, prefix : Nat, payload : Payloads]
Noises == [number : 1..Patterns, e : Ephemerals, re : Ephemerals, honest : BOOLEAN]
Packets ==
    [type : {"NoiseHandshakeInit"}, noise : Noises]
    \cup [type : {"NoiseEncrypted"}, sealed : Ciphertexts]
    \cup [type : {"HandshakeRequest"}] \cup [type : {"Leave"}, leaves : {"channel"}]
Entries == [from : Node, dm : Dms, id : Ids]
Media == IF Ordered THEN Seq(Packets) ELSE SUBSET Packets

SlotsOK ==
    /\ DOMAIN session = Node /\ DOMAIN net = Node
    /\ \A n \in Node :
         /\ DOMAIN session[n] = Peers(n) /\ DOMAIN net[n] = Peers(n)
         /\ \A p \in Peers(n) : session[n][p] \in Sessions /\ net[n][p] \in Media

HistoriesOK ==
    /\ ephemerals \in [Node -> 0..MaxEphemerals]
    /\ asked \in [Node -> SUBSET Dms]
    /\ bloom \in [Node -> SUBSET Ids]
    /\ inbox \in [Node -> Seq(Entries)]
    /\ tracked \in [Node -> SUBSET Claims]
    /\ delivered \in [Node -> SUBSET Claims]

ShapesOK == SlotsOK /\ HistoriesOK

-----------------------------------------------------------------------------
(* Keys.  A key is named by two ephemerals, and one of them belongs to the   *)
(* peer who sends with it.                                                   *)
SenderKey(key) == IF key.direction = 1 THEN key.i ELSE key.r

(* The ephemeral of its own that a peer holds for a session, if any.         *)
OwnKey(s) ==
    IF s.state = "Handshaking" THEN s.handshake.e
    ELSE IF s.state = "Established" THEN SenderKey(s.send.key) ELSE NoKey

(* A handshake between two handlers is one that was started and not answered *)
(* yet, or answered and not completed; a transcript the peer cannot have     *)
(* holds no ephemeral.                                                       *)
HandshakeGood(n, p, hs) ==
    /\ \/ hs.role = "Initiator" /\ hs.current_pattern = 1
       \/ hs.role = "Responder" /\ hs.current_pattern = 2
    /\ hs.honest => hs.e.owner = n /\ (hs.role = "Responder" => hs.re.owner = p)
    /\ ~hs.honest => hs.e = NoKey

KeysGood(n, p, s) ==
    /\ s.send.key.i = s.receive.key.i /\ s.send.key.r = s.receive.key.r
    /\ \/ /\ s.send.key.direction = 1 /\ s.receive.key.direction = 2
          /\ s.send.key.i.owner = n /\ s.send.key.r.owner = p
       \/ /\ s.send.key.direction = 2 /\ s.receive.key.direction = 1
          /\ s.send.key.i.owner = p /\ s.send.key.r.owner = n

SessionGood(n, p, s) ==
    /\ s \in Sessions
    /\ s.state = "None" => s = NoSession
    /\ s.state = "Handshaking" => HandshakeGood(n, p, s.handshake)
    /\ s.state = "Established" => KeysGood(n, p, s)

SessionsOK == \A n \in Node : \A p \in Peers(n) : SessionGood(n, p, session[n][p])

(* A first message, or one its reader may accept, carries its sender's key.  *)
NoiseGood(n, msg) == (msg.number = 1 \/ msg.honest) => msg.e.owner = n

SealedTo(n, p) ==
    {q.sealed : q \in {r \in Contents(net[n][p]) : r.type = "NoiseEncrypted"}}

NoisesOK ==
    \A n \in Node : \A p \in Peers(n) : \A q \in Contents(net[n][p]) :
        q.type = "NoiseHandshakeInit" => NoiseGood(n, q.noise)

(* An ephemeral key is one of those drawn so far, and in one session only.   *)
Drawn(n, e) == e.owner = n /\ e.serial \in 1..ephemerals[n]
OwnKeysOK ==
    \A n \in Node : \A p \in Peers(n) :
        OwnKey(session[n][p]) # NoKey =>
            /\ Drawn(n, OwnKey(session[n][p]))
            /\ \A q \in Peers(n) \ {p} : OwnKey(session[n][q]) # OwnKey(session[n][p])

(* What n sealed under id will not be sealed under again: the key is of no   *)
(* session any more, or the counter has passed.                              *)
Spent(n, id) ==
    /\ Drawn(n, SenderKey(id.key))
    /\ \A p \in Peers(n) : OwnKey(session[n][p]) = SenderKey(id.key) =>
          /\ session[n][p].state = "Established"
          /\ session[n][p].send.key = id.key /\ id.nonce < session[n][p].send.nonce
IdsSpent ==
    \A n \in Node : \A p \in Peers(n) : \A ct \in SealedTo(n, p) : Spent(n, MessageId(ct))

KeysInv == SessionsOK /\ NoisesOK /\ OwnKeysOK /\ IdsSpent /\ NonceNeverReused

-----------------------------------------------------------------------------
(* Messages.                                                                 *)
ShownFrom(n, m) == {x \in {inbox[m][i] : i \in 1..Len(inbox[m])} : x.from = n}

ClaimOf(x) == [dm |-> x.dm, id |-> x.id]
SealedClaims(n, p) ==
    {ClaimOf(ct.payload) : ct \in {c \in SealedTo(n, p) : c.payload.type = "message"}}
ShownClaims(n, m) == {ClaimOf(x) : x \in ShownFrom(n, m)}
ClaimedBy(n) ==
    tracked[n] \cup (UNION {SealedClaims(n, p) : p \in Peers(n)})
               \cup (UNION {ShownClaims(n, m) : m \in Node})

ClaimsOK ==
    \A n \in Node : \A x \in ClaimedBy(n) :
        /\ x.dm \in asked[n] /\ x.dm.from = n /\ Spent(n, x.id)
        /\ \A y \in ClaimedBy(n) : x.dm = y.dm <=> x.id = y.id

(* A message in flight is on its way to whom it was asked for, under the id  *)
(* of its key and nonce; an acknowledgement names something that was shown.  *)
SealedGood(n, p, ct) ==
    IF ct.payload.type = "message"
    THEN ct.payload.id = MessageId(ct) /\ ct.payload.dm.from = n /\ ct.payload.dm.to = p
    ELSE \E x \in ShownFrom(p, n) : x.id = ct.payload.id
SealedOK == \A n \in Node : \A p \in Peers(n) : \A ct \in SealedTo(n, p) : SealedGood(n, p, ct)

QueuesOK ==
    \A n \in Node : \A p \in Peers(n) :
        LET q == session[n][p].pending
        IN  \A i \in 1..Len(q) :
              /\ q[i] \in asked[n] /\ q[i].from = n /\ q[i].to = p
              /\ \A j \in 1..Len(q) : q[i] = q[j] => i = j
              /\ \A x \in ClaimedBy(n) : x.dm # q[i]

InboxesOK ==
    \A n \in Node : \A i \in 1..Len(inbox[n]) :
        /\ inbox[n][i].from \in Peers(n) /\ inbox[n][i].dm.to = n
        /\ inbox[n][i].id \in bloom[n]
        /\ \A j \in 1..Len(inbox[n]) : inbox[n][i].id = inbox[n][j].id => i = j

DeliveredOK ==
    \A n \in Node : \A x \in delivered[n] :
        /\ x \in tracked[n]
        /\ \E m \in Node : x.dm.to = m /\ \E y \in ShownFrom(n, m) : ClaimOf(y) = x

MessagesInv == ClaimsOK /\ SealedOK /\ QueuesOK /\ InboxesOK /\ DeliveredOK

IInv == ShapesOK /\ KeysInv /\ MessagesInv

-----------------------------------------------------------------------------
(* Sessions and handshakes, as operators.                                    *)

(* The key that stands for none belongs to no peer.                          *)
LEMMA NoKeyIsNobodys == NoKey \in Ephemerals /\ \A n \in Node : NoKey.owner # n
BY NodeAssumption DEF NoKey, Ephemerals

(* The session that stands for none is under no key.                         *)
LEMMA NoSessionGood ==
  ASSUME NEW n, NEW p
  PROVE  SessionGood(n, p, NoSession) /\ OwnKey(NoSession) = NoKey /\ ~HasSession(NoSession)
<1>1. NoCipher \in Ciphers
  BY NoKeyIsNobodys DEF NoCipher, NewCipher, Ciphers, CipherKeys
<1>2. NoHandshake \in Handshakes
  BY NoKeyIsNobodys DEF NoHandshake, NewHandshake, Handshakes, Patterns
<1>3. NoSession \in Sessions
  BY <1>1, <1>2 DEF NoSession, Sessions
<1> QED
  BY <1>3 DEF NoSession, SessionGood, OwnKey, HasSession

(* What write_message leaves behind.                                         *)
LEMMA Writing ==
  ASSUME NEW hs \in Handshakes, CanWrite(hs), NEW fresh,
         NeedsEphemeral(hs) /\ hs.honest => fresh \in Ephemerals
  PROVE  /\ AfterWrite(hs, fresh) \in Handshakes
         /\ AfterWrite(hs, fresh).role = hs.role
         /\ AfterWrite(hs, fresh).current_pattern = hs.current_pattern + 1
         /\ AfterWrite(hs, fresh).re = hs.re
         /\ AfterWrite(hs, fresh).honest = hs.honest
         /\ NeedsEphemeral(hs) /\ hs.honest => AfterWrite(hs, fresh).e = fresh
         /\ ~(NeedsEphemeral(hs) /\ hs.honest) => AfterWrite(hs, fresh).e = hs.e
         /\ WrittenMessage(hs, fresh) \in Noises
         /\ WrittenMessage(hs, fresh).number = hs.current_pattern + 1
         /\ WrittenMessage(hs, fresh).honest = hs.honest
         /\ hs.honest => WrittenMessage(hs, fresh).e = AfterWrite(hs, fresh).e
<1> DEFINE e == IF NeedsEphemeral(hs) /\ hs.honest THEN fresh ELSE hs.e
           m == IF hs.honest THEN AfterWrite(hs, fresh).e ELSE NoKey
<1>1. /\ hs.role \in {"Initiator", "Responder"} /\ hs.e \in Ephemerals /\ hs.re \in Ephemerals
      /\ hs.current_pattern \in 0..3 /\ hs.honest \in BOOLEAN
  BY DEF Handshakes, Patterns
<1>2. hs.current_pattern \in 0..2
  BY <1>1 DEF CanWrite
<1>3. hs.current_pattern + 1 \in 0..Patterns /\ hs.current_pattern + 1 \in 1..Patterns
  BY <1>2 DEF Patterns
<1>4. e \in Ephemerals
  BY <1>1
<1>5. AfterWrite(hs, fresh) = [hs EXCEPT !.current_pattern = hs.current_pattern + 1, !.e = e]
  BY DEF AfterWrite
<1> HIDE DEF e
<1>6. AfterWrite(hs, fresh) \in Handshakes
  BY <1>3, <1>4, <1>5 DEF Handshakes
<1>7. /\ AfterWrite(hs, fresh).role = hs.role
      /\ AfterWrite(hs, fresh).current_pattern = hs.current_pattern + 1
      /\ AfterWrite(hs, fresh).re = hs.re
      /\ AfterWrite(hs, fresh).honest = hs.honest
      /\ AfterWrite(hs, fresh).e = e
  BY <1>5 DEF Handshakes
<1>8. m \in Ephemerals
  BY <1>4, <1>7, NoKeyIsNobodys
<1>9. WrittenMessage(hs, fresh) = Message(hs.current_pattern + 1, m, hs.re, hs.honest)
  BY DEF WrittenMessage
<1>10. hs.honest => m = AfterWrite(hs, fresh).e
  OBVIOUS
<1> HIDE DEF m
<1>11. WrittenMessage(hs, fresh) \in Noises
  BY <1>1, <1>3, <1>8, <1>9 DEF Message, Noises
<1>12. /\ WrittenMessage(hs, fresh).number = hs.current_pattern + 1
       /\ WrittenMessage(hs, fresh).honest = hs.honest
       /\ WrittenMessage(hs, fresh).e = m
  BY <1>9 DEF Message
<1>13. /\ NeedsEphemeral(hs) /\ hs.honest => e = fresh
       /\ ~(NeedsEphemeral(hs) /\ hs.honest) => e = hs.e
  BY DEF e
<1> QED
  BY <1>6, <1>7, <1>10, <1>11, <1>12, <1>13

(* A handshake that is started holds the key drawn for it, and writes it.    *)
LEMMA Starting ==
  ASSUME NEW n \in Node, NEW p, NEW fresh \in Ephemerals, fresh.owner = n,
         NEW t \in Sessions, t.state = "Handshaking", t.handshake = NewHandshake("Initiator")
  PROVE  /\ CanWrite(t.handshake)
         /\ SessionGood(n, p, InitiateHandshake(t, fresh))
         /\ OwnKey(InitiateHandshake(t, fresh)) = fresh
         /\ ~IsEstablished(InitiateHandshake(t, fresh))
         /\ InitiateHandshake(t, fresh).pending = t.pending
         /\ WrittenMessage(t.handshake, fresh) \in Noises
         /\ NoiseGood(n, WrittenMessage(t.handshake, fresh))
         /\ WrittenMessage(t.handshake, fresh).number = 1
<1>1. PICK hs : hs = NewHandshake("Initiator")
  OBVIOUS
<1>2. /\ hs \in Handshakes /\ hs.role = "Initiator" /\ hs.current_pattern = 0
      /\ hs.re = NoKey /\ hs.honest
  BY <1>1, NoKeyIsNobodys DEF NewHandshake, Handshakes, Patterns
<1>3. t.handshake = hs
  BY <1>1
<1>4. CanWrite(hs) /\ NeedsEphemeral(hs)
  BY <1>2 DEF CanWrite, NeedsEphemeral
<1>5. PICK w : w = AfterWrite(hs, fresh)
  OBVIOUS
<1>6. w \in Handshakes /\ w.role = "Initiator" /\ w.current_pattern = 1 /\ w.e = fresh
  BY <1>2, <1>4, <1>5, Writing
<1>7. HandshakeGood(n, p, w)
  BY <1>2, <1>4, <1>5, <1>6, Writing DEF HandshakeGood
<1>8. /\ WrittenMessage(hs, fresh) \in Noises
      /\ NoiseGood(n, WrittenMessage(hs, fresh))
      /\ WrittenMessage(hs, fresh).number = 1
  <2>1. hs.current_pattern + 1 = 1
    BY <1>2
  <2> QED
    BY <1>2, <1>4, <1>5, <1>6, <2>1, Writing DEF NoiseGood
<1>9. InitiateHandshake(t, fresh) = [t EXCEPT !.handshake = w]
  BY <1>3, <1>5 DEF InitiateHandshake
<1>10. /\ InitiateHandshake(t, fresh) \in Sessions
       /\ InitiateHandshake(t, fresh).state = "Handshaking"
       /\ InitiateHandshake(t, fresh).handshake = w
       /\ InitiateHandshake(t, fresh).pending = t.pending
  BY <1>3, <1>6, <1>9 DEF Sessions
<1>11. SessionGood(n, p, InitiateHandshake(t, fresh))
  BY <1>7, <1>10 DEF SessionGood
<1> QED
  BY <1>3, <1>4, <1>6, <1>8, <1>10, <1>11 DEF OwnKey, IsEstablished

(* The next message of a handshake in progress is never this side's to write.*)
LEMMA Interrupting ==
  ASSUME NEW n \in Node, NEW p, NEW t \in Sessions, t.state = "Handshaking",
         HandshakeGood(n, p, t.handshake)
  PROVE  /\ ~CanWrite(t.handshake)
         /\ SessionGood(n, p, InitiateHandshake(t, NoKey))
         /\ OwnKey(InitiateHandshake(t, NoKey)) = NoKey
         /\ ~IsEstablished(InitiateHandshake(t, NoKey))
         /\ InitiateHandshake(t, NoKey).pending = t.pending
<1>1. PICK hs : hs = t.handshake
  OBVIOUS
<1>2. hs \in Handshakes /\ HandshakeGood(n, p, hs)
  BY <1>1 DEF Sessions
<1>3. ~CanWrite(hs)
  BY <1>2 DEF CanWrite, HandshakeGood
<1>4. PICK w : w = AfterWrite(hs, NoKey)
  OBVIOUS
<1>5. w = [hs EXCEPT !.e = NoKey, !.re = NoKey, !.honest = FALSE]
  BY <1>3, <1>4 DEF AfterWrite, Spoiled
<1>6. w \in Handshakes /\ HandshakeGood(n, p, w) /\ w.e = NoKey
  BY <1>2, <1>5, NoKeyIsNobodys DEF Handshakes, HandshakeGood
<1>7. InitiateHandshake(t, NoKey) = [t EXCEPT !.handshake = w]
  BY <1>1, <1>4 DEF InitiateHandshake
<1>8. /\ InitiateHandshake(t, NoKey) \in Sessions
      /\ InitiateHandshake(t, NoKey).state = "Handshaking"
      /\ InitiateHandshake(t, NoKey).handshake = w
      /\ InitiateHandshake(t, NoKey).pending = t.pending
  BY <1>6, <1>7 DEF Sessions
<1>9. SessionGood(n, p, InitiateHandshake(t, NoKey))
  BY <1>6, <1>8 DEF SessionGood
<1> QED
  BY <1>1, <1>3, <1>6, <1>8, <1>9 DEF OwnKey, IsEstablished

(* A completed handshake gives both keys, and sends under its own ephemeral. *)
LEMMA Establishing ==
  ASSUME NEW n \in Node, NEW p \in Node, NEW s \in Sessions,
         NEW hs \in Handshakes, hs.e.owner = n, hs.re.owner = p,
         NEW t, t = Establish(s, hs)
  PROVE  /\ SessionGood(n, p, t) /\ IsEstablished(t) /\ OwnKey(t) = hs.e
         /\ t.send.nonce = 0 /\ t.pending = s.pending
         /\ hs.role = "Initiator" => t.send.key.direction = 1
         /\ hs.role = "Responder" => /\ t.send.key.direction = 2
                                     /\ t.receive.key.i = hs.re /\ t.receive.key.r = hs.e
<1>1. PICK k : k = SendKey(hs)
  OBVIOUS
<1>2. PICK l : l = RecvKey(hs)
  OBVIOUS
<1>3. hs.role \in {"Initiator", "Responder"} /\ hs.e \in Ephemerals /\ hs.re \in Ephemerals
  BY DEF Handshakes
<1>4. /\ k \in CipherKeys /\ l \in CipherKeys /\ k.i = l.i /\ k.r = l.r
      /\ SenderKey(k) = hs.e
      /\ hs.role = "Initiator" => k.direction = 1
      /\ hs.role = "Responder" => k.direction = 2 /\ l.i = hs.re /\ l.r = hs.e
      /\ \/ k.direction = 1 /\ l.direction = 2 /\ k.i.owner = n /\ k.r.owner = p
         \/ k.direction = 2 /\ l.direction = 1 /\ k.i.owner = p /\ k.r.owner = n
  <2>1. CASE hs.role = "Initiator"
    <3>1. /\ k = [i |-> hs.e, r |-> hs.re, direction |-> 1]
          /\ l = [i |-> hs.e, r |-> hs.re, direction |-> 2]
      BY <1>1, <1>2, <2>1 DEF SendKey, RecvKey, TransportKey
    <3> QED
      BY <1>3, <2>1, <3>1 DEF CipherKeys, SenderKey
  <2>2. CASE hs.role = "Responder"
    <3>1. /\ k = [i |-> hs.re, r |-> hs.e, direction |-> 2]
          /\ l = [i |-> hs.re, r |-> hs.e, direction |-> 1]
      BY <1>1, <1>2, <2>2 DEF SendKey, RecvKey, TransportKey
    <3> QED
      BY <1>3, <2>2, <3>1 DEF CipherKeys, SenderKey
  <2> QED
    BY <1>3, <2>1, <2>2
<1>5. PICK c : c = NewCipher(k)
  OBVIOUS
<1>6. PICK d : d = NewCipher(l)
  OBVIOUS
<1>7. c \in Ciphers /\ d \in Ciphers /\ c.key = k /\ d.key = l /\ c.nonce = 0
  BY <1>4, <1>5, <1>6 DEF NewCipher, Ciphers
<1>8. NoHandshake \in Handshakes
  BY NoSessionGood DEF SessionGood, Sessions, NoSession
<1>9. t = [s EXCEPT !.state = "Established", !.handshake = NoHandshake,
                    !.send = c, !.receive = d]
  BY <1>1, <1>2, <1>5, <1>6 DEF Establish
<1>10. /\ t \in Sessions /\ t.state = "Established" /\ t.send = c /\ t.receive = d
       /\ t.pending = s.pending
  BY <1>7, <1>8, <1>9 DEF Sessions
<1>11. KeysGood(n, p, t)
  BY <1>4, <1>7, <1>10 DEF KeysGood
<1> QED
  BY <1>4, <1>7, <1>10, <1>11 DEF SessionGood, IsEstablished, OwnKey

(* A session that a handshake message may find: what is there, or, in the    *)
(* place of none, a new one that awaits the first message.                   *)
Opened(n, p, s) ==
    \/ SessionGood(n, p, s) /\ HasSession(s)
    \/ s = CreateSession(NoSession, "Responder")

(* An initiator completes the handshake with the third message, under its    *)
(* key, and a responder with the one it reads, which has both keys.          *)
CompletingGood(s, msg, fresh, t) ==
    /\ IncomingResult(s, msg) = "Response" =>
          IF IsEstablished(t)
          THEN /\ t.send.key.direction = 1 /\ OwnKey(t) = OwnKey(s)
               /\ IncomingResponse(s, msg, fresh).e = OwnKey(s)
          ELSE IncomingResponse(s, msg, fresh).number = 2
    /\ IncomingResult(s, msg) = "Done" =>
          /\ t.send.key.direction = 2
          /\ msg.number = 3 /\ msg.honest
          /\ msg.e = t.receive.key.i /\ msg.re = t.receive.key.r

(* handle_incoming_handshake: a peer answers with its own key or completes a *)
(* handshake that is under it; anything else leaves no session that was not  *)
(* there.                                                                    *)
IncomingGood(n, p, s, msg, fresh, t) ==
    /\ SessionGood(n, p, t) /\ t.pending = s.pending
    /\ IncomingResult(s, msg) = "Ignored" => IsEstablished(s) /\ t = s
    /\ IncomingResult(s, msg) # "Ignored" => ~IsEstablished(s)
    /\ IncomingResult(s, msg) = "Failed" => ~IsEstablished(t)
    /\ IncomingResult(s, msg) = "Done" => IsEstablished(t)
    /\ IncomingResult(s, msg) = "Response" =>
          /\ IncomingResponse(s, msg, fresh) \in Noises
          /\ NoiseGood(n, IncomingResponse(s, msg, fresh))
    /\ ResponseDrawsKey(s, msg) => OwnKey(t) = fresh /\ ~IsEstablished(t)
    /\ ~ResponseDrawsKey(s, msg) => OwnKey(t) \in {NoKey, OwnKey(s)}
    /\ IsEstablished(t) /\ ~IsEstablished(s) => t.send.nonce = 0
    /\ CompletingGood(s, msg, fresh, t)

(* ... on an established session: nothing happens.                           *)
LEMMA IncomingIgnored ==
  ASSUME NEW n \in Node, NEW p \in Node, NEW s, SessionGood(n, p, s), IsEstablished(s),
         NEW msg, NEW fresh
  PROVE  IncomingGood(n, p, s, msg, fresh, AfterIncoming(s, msg, fresh))
<1>1. IncomingResult(s, msg) = "Ignored"
  BY DEF IncomingResult
<1>2. AfterIncoming(s, msg, fresh) = s
  BY <1>1 DEF AfterIncoming
<1>3. ~ResponseDrawsKey(s, msg)
  BY <1>1 DEF ResponseDrawsKey
<1> QED
  BY <1>1, <1>2, <1>3 DEF IncomingGood, CompletingGood

(* ... on a new session: any message is taken for the first one.             *)
LEMMA IncomingFirst ==
  ASSUME NEW n \in Node, NEW p \in Node, NEW s, s = CreateSession(NoSession, "Responder"),
         NEW msg \in Noises, NoiseGood(p, msg), NEW fresh, fresh.owner = n,
         ResponseDrawsKey(s, msg) => fresh \in Ephemerals
  PROVE  IncomingGood(n, p, s, msg, fresh, AfterIncoming(s, msg, fresh))
<1>1. NoSession \in Sessions /\ NoSession.pending = <<>> /\ NoSession.state = "None"
  BY NoSessionGood DEF SessionGood, NoSession
<1>2. PICK hs : hs = NewHandshake("Responder")
  OBVIOUS
<1>3. /\ hs \in Handshakes /\ hs.role = "Responder" /\ hs.current_pattern = 0
      /\ hs.e = NoKey /\ hs.honest
  BY <1>2, NoKeyIsNobodys DEF NewHandshake, Handshakes, Patterns
<1>4. s = [NoSession EXCEPT !.state = "Handshaking", !.handshake = hs]
  BY <1>1, <1>2 DEF CreateSession, IsEstablished
<1>5. s \in Sessions /\ s.state = "Handshaking" /\ s.handshake = hs
  BY <1>1, <1>3, <1>4 DEF Sessions
<1>6. PICK read : read = AfterRead(hs, msg)
  OBVIOUS
<1>7. CanRead(hs, msg)
  BY <1>3 DEF CanRead
<1>8. /\ read \in Handshakes /\ read.role = "Responder" /\ read.current_pattern = 1
      /\ read.honest => read.re.owner = p
      /\ ~read.honest => read.e = NoKey
  <2>0. 1 \in 0..Patterns /\ msg.e \in Ephemerals /\ NoKey \in Ephemerals
    BY NoKeyIsNobodys DEF Patterns, Noises
  <2>1. CASE msg.number = 1
    <3>1. read = [hs EXCEPT !.current_pattern = 1, !.re = msg.e]
      BY <1>3, <1>6, <1>7, <2>1 DEF AfterRead
    <3>2. read \in Handshakes /\ read.role = "Responder" /\ read.current_pattern = 1
          /\ read.re = msg.e /\ read.honest = hs.honest
      BY <1>3, <2>0, <3>1 DEF Handshakes
    <3> QED
      BY <1>3, <2>1, <3>2 DEF NoiseGood
  <2>2. CASE msg.number # 1
    <3>1. PICK sp : sp = Spoiled(hs)
      OBVIOUS
    <3>2. sp \in Handshakes /\ sp.role = "Responder" /\ sp.e = NoKey /\ ~sp.honest
      BY <1>3, <2>0, <3>1 DEF Spoiled, Handshakes
    <3>3. read = [sp EXCEPT !.current_pattern = 1]
      BY <1>3, <1>6, <1>7, <2>2, <3>1 DEF AfterRead
    <3>4. read \in Handshakes /\ read.role = "Responder" /\ read.current_pattern = 1
          /\ read.e = NoKey /\ read.honest = sp.honest
      BY <2>0, <3>2, <3>3 DEF Handshakes
    <3> QED
      BY <3>2, <3>4
  <2> QED
    BY <2>1, <2>2
<1>9. PICK written : written = AfterWrite(read, fresh)
  OBVIOUS
<1>10. CanWrite(read) /\ NeedsEphemeral(read) /\ ~IsHandshakeComplete(read)
  BY <1>8 DEF CanWrite, NeedsEphemeral, IsHandshakeComplete, Patterns
<1>11. IncomingResult(s, msg) = "Response"
  BY <1>5, <1>6, <1>7, <1>10 DEF IncomingResult, IsEstablished
<1>12. ResponseDrawsKey(s, msg) <=> read.honest
  BY <1>5, <1>6, <1>10, <1>11 DEF ResponseDrawsKey
<1>13. /\ written \in Handshakes /\ written.role = "Responder" /\ written.current_pattern = 2
       /\ written.re = read.re /\ written.honest = read.honest
       /\ read.honest => written.e = fresh
       /\ ~read.honest => written.e = NoKey
  BY <1>8, <1>9, <1>10, <1>12, Writing
<1>14. ~IsHandshakeComplete(written) /\ HandshakeGood(n, p, written)
  BY <1>8, <1>13 DEF IsHandshakeComplete, Patterns, HandshakeGood
<1>15. AfterIncoming(s, msg, fresh) = [s EXCEPT !.handshake = written]
  BY <1>5, <1>6, <1>9, <1>14, <1>11 DEF AfterIncoming
<1>16. PICK t : t = AfterIncoming(s, msg, fresh)
  OBVIOUS
<1>17. t \in Sessions /\ t.state = "Handshaking" /\ t.handshake = written
       /\ t.pending = s.pending
  BY <1>5, <1>13, <1>15, <1>16 DEF Sessions
<1>18. SessionGood(n, p, t) /\ ~IsEstablished(t) /\ OwnKey(t) = written.e
  BY <1>14, <1>17 DEF SessionGood, IsEstablished, OwnKey
<1>19. IncomingResponse(s, msg, fresh) = WrittenMessage(read, fresh)
  BY <1>5, <1>6 DEF IncomingResponse
<1>20. /\ IncomingResponse(s, msg, fresh) \in Noises
       /\ NoiseGood(n, IncomingResponse(s, msg, fresh))
       /\ IncomingResponse(s, msg, fresh).number = 2
  <2>1. /\ WrittenMessage(read, fresh) \in Noises
        /\ WrittenMessage(read, fresh).number = 2
        /\ WrittenMessage(read, fresh).honest = read.honest
        /\ read.honest => WrittenMessage(read, fresh).e = fresh
    BY <1>8, <1>9, <1>10, <1>13, <1>12, Writing
  <2> QED
    BY <1>19, <2>1 DEF NoiseGood
<1>21. ~IsEstablished(s)
  BY <1>5 DEF IsEstablished
<1>22. CompletingGood(s, msg, fresh, t)
  BY <1>11, <1>18, <1>20 DEF CompletingGood
<1> QED
  BY <1>13, <1>11, <1>16, <1>17, <1>18, <1>12, <1>20, <1>21, <1>22 DEF IncomingGood

(* ... while a handshake is in progress: the transcript of a message that     *)
(* opens is its peer's, and only the peer's key is in it.                    *)
LEMMA IncomingProgress ==
  ASSUME NEW n \in Node, NEW p \in Node, NEW s, SessionGood(n, p, s), s.state = "Handshaking",
         NEW msg \in Noises, NoiseGood(p, msg), NEW fresh, fresh.owner = n,
         ResponseDrawsKey(s, msg) => fresh \in Ephemerals
  PROVE  IncomingGood(n, p, s, msg, fresh, AfterIncoming(s, msg, fresh))
<1>1. PICK hs : hs = s.handshake
  OBVIOUS
<1>2. s \in Sessions /\ hs \in Handshakes /\ HandshakeGood(n, p, hs)
  BY <1>1 DEF SessionGood, Sessions
<1>3. ~IsEstablished(s) /\ OwnKey(s) = hs.e
  BY <1>1 DEF IsEstablished, OwnKey
<1>4. PICK t : t = AfterIncoming(s, msg, fresh)
  OBVIOUS
<1>5. PICK read : read = AfterRead(hs, msg)
  OBVIOUS
<1>6. PICK written : written = AfterWrite(read, fresh)
  OBVIOUS
<1>7. CASE ~CanRead(hs, msg)
  <2>1. IncomingResult(s, msg) = "Failed"
    BY <1>1, <1>3, <1>7 DEF IncomingResult
  <2>2. t = [s EXCEPT !.handshake = read]
    BY <1>1, <1>4, <1>5, <1>7, <2>1 DEF AfterIncoming
  <2>3. read \in Handshakes /\ HandshakeGood(n, p, read) /\ read.e \in {NoKey, hs.e}
    <3>1. CASE hs.current_pattern = 1
      <4>1. read = Spoiled(hs)
        BY <1>5, <1>7, <3>1 DEF AfterRead
      <4> QED
        BY <1>2, <4>1, NoKeyIsNobodys DEF Spoiled, Handshakes, HandshakeGood
    <3>2. CASE hs.current_pattern = 2
      <4>1. read = hs
        BY <1>5, <1>7, <3>2 DEF AfterRead
      <4> QED
        BY <1>2, <4>1
    <3> QED
      BY <1>2, <3>1, <3>2 DEF HandshakeGood
  <2>4. t \in Sessions /\ t.state = "Handshaking" /\ t.handshake = read
        /\ t.pending = s.pending
    BY <1>2, <2>2, <2>3 DEF Sessions
  <2>5. SessionGood(n, p, t) /\ ~IsEstablished(t) /\ OwnKey(t) \in {NoKey, OwnKey(s)}
    BY <1>3, <2>3, <2>4 DEF SessionGood, IsEstablished, OwnKey
  <2>6. ~ResponseDrawsKey(s, msg)
    BY <2>1 DEF ResponseDrawsKey
  <2> QED
    BY <1>3, <1>4, <2>1, <2>4, <2>5, <2>6 DEF IncomingGood, CompletingGood
<1>8. CASE CanRead(hs, msg) /\ hs.role = "Initiator"
  <2>1. /\ hs.current_pattern = 1 /\ hs.honest /\ hs.e.owner = n
        /\ msg.number = 2 /\ msg.honest /\ msg.e.owner = p
    BY <1>2, <1>8 DEF CanRead, HandshakeGood, NoiseGood
  <2>2. read = [hs EXCEPT !.current_pattern = 2, !.re = msg.e]
    BY <1>5, <1>8, <2>1 DEF AfterRead
  <2>3. 2 \in 0..Patterns /\ msg.e \in Ephemerals
    BY DEF Patterns, Noises
  <2>4. /\ read \in Handshakes /\ read.role = "Initiator" /\ read.current_pattern = 2
        /\ read.e = hs.e /\ read.re = msg.e /\ read.honest = hs.honest
    BY <1>2, <1>8, <2>2, <2>3 DEF Handshakes
  <2>5. CanWrite(read) /\ ~NeedsEphemeral(read) /\ ~IsHandshakeComplete(read)
    BY <2>4 DEF CanWrite, NeedsEphemeral, IsHandshakeComplete, Patterns
  <2>6. /\ written \in Handshakes /\ written.current_pattern = 3
        /\ written.e = hs.e /\ written.re = msg.e /\ written.role = "Initiator"
    <3>1. read.current_pattern + 1 = 3
      BY <2>4
    <3> QED
      BY <1>6, <2>4, <2>5, <3>1, Writing
  <2>7. /\ WrittenMessage(read, fresh) \in Noises
        /\ WrittenMessage(read, fresh).number = 3
        /\ WrittenMessage(read, fresh).e = hs.e
    <3>1. read.current_pattern + 1 = 3 /\ read.honest
      BY <2>1, <2>4
    <3>2. WrittenMessage(read, fresh).e = written.e
      BY <1>6, <2>4, <2>5, <3>1, Writing
    <3> QED
      BY <2>4, <2>5, <2>6, <3>1, <3>2, Writing
  <2>8. IncomingResult(s, msg) = "Response"
    BY <1>1, <1>3, <1>5, <1>8, <2>5 DEF IncomingResult
  <2>9. IsHandshakeComplete(written)
    BY <2>6 DEF IsHandshakeComplete, Patterns
  <2>10. t = Establish(s, written)
    BY <1>1, <1>4, <1>5, <1>6, <2>8, <2>9 DEF AfterIncoming
  <2>11. /\ SessionGood(n, p, t) /\ IsEstablished(t) /\ OwnKey(t) = hs.e
         /\ t.send.nonce = 0 /\ t.pending = s.pending /\ t.send.key.direction = 1
    BY <1>2, <2>1, <2>6, <2>10, Establishing
  <2>12. ~ResponseDrawsKey(s, msg)
    BY <1>1, <1>5, <2>5 DEF ResponseDrawsKey
  <2>13. IncomingResponse(s, msg, fresh) = WrittenMessage(read, fresh)
    BY <1>1, <1>5 DEF IncomingResponse
  <2>14. NoiseGood(n, IncomingResponse(s, msg, fresh))
    BY <2>1, <2>7, <2>13 DEF NoiseGood
  <2>15. CompletingGood(s, msg, fresh, t)
    BY <1>3, <2>7, <2>8, <2>11, <2>13 DEF CompletingGood
  <2> QED
    BY <1>3, <1>4, <2>7, <2>8, <2>11, <2>12, <2>13, <2>14, <2>15 DEF IncomingGood
<1>9. CASE CanRead(hs, msg) /\ hs.role = "Responder"
  <2>1. /\ hs.current_pattern = 2 /\ hs.honest /\ hs.e.owner = n /\ hs.re.owner = p
        /\ msg.number = 3 /\ msg.honest /\ msg.e = hs.re /\ msg.re = hs.e
    BY <1>2, <1>9 DEF CanRead, HandshakeGood
  <2>2. read = [hs EXCEPT !.current_pattern = 3]
    BY <1>5, <1>9, <2>1 DEF AfterRead
  <2>3. 3 \in 0..Patterns
    BY DEF Patterns
  <2>4. /\ read \in Handshakes /\ read.current_pattern = 3
        /\ read.e = hs.e /\ read.re = hs.re /\ read.role = "Responder"
    BY <1>2, <1>9, <2>2, <2>3 DEF Handshakes
  <2>5. IsHandshakeComplete(read)
    BY <2>4 DEF IsHandshakeComplete, Patterns
  <2>6. IncomingResult(s, msg) = "Done"
    BY <1>1, <1>3, <1>5, <1>9, <2>5 DEF IncomingResult
  <2>7. t = Establish(s, read)
    BY <1>1, <1>4, <1>5, <2>6 DEF AfterIncoming
  <2>8. /\ SessionGood(n, p, t) /\ IsEstablished(t) /\ OwnKey(t) = hs.e
        /\ t.send.nonce = 0 /\ t.pending = s.pending
        /\ t.send.key.direction = 2 /\ t.receive.key.i = hs.re /\ t.receive.key.r = hs.e
    BY <1>2, <2>1, <2>4, <2>7, Establishing
  <2>9. ~ResponseDrawsKey(s, msg)
    BY <2>6 DEF ResponseDrawsKey
  <2>10. CompletingGood(s, msg, fresh, t)
    BY <2>1, <2>6, <2>8 DEF CompletingGood
  <2> QED
    BY <1>3, <1>4, <2>6, <2>8, <2>9, <2>10 DEF IncomingGood
<1> QED
  BY <1>2, <1>7, <1>8, <1>9 DEF HandshakeGood

(* ... in every case.                                                        *)
LEMMA Incoming ==
  ASSUME NEW n \in Node, NEW p \in Node, NEW s, Opened(n, p, s),
         NEW msg \in Noises, NoiseGood(p, msg), NEW fresh, fresh.owner = n,
         ResponseDrawsKey(s, msg) => fresh \in Ephemerals
  PROVE  IncomingGood(n, p, s, msg, fresh, AfterIncoming(s, msg, fresh))
<1>1. CASE s = CreateSession(NoSession, "Responder")
  BY <1>1, IncomingFirst
<1>2. CASE SessionGood(n, p, s) /\ HasSession(s)
  <2>1. s.state \in {"Handshaking", "Established"}
    BY <1>2 DEF SessionGood, HasSession, Sessions
  <2> QED
    BY <1>2, <2>1, IncomingProgress, IncomingIgnored DEF IsEstablished
<1> QED
  BY <1>1, <1>2 DEF Opened

-----------------------------------------------------------------------------
(* The cipher operations of an established session.                          *)

(* Encrypting moves the counter, and nothing else a peer's key depends on.   *)
LEMMA Encrypting ==
  ASSUME NEW n, NEW p, NEW s, SessionGood(n, p, s), IsEstablished(s),
         NEW t, t = AfterEncryption(s)
  PROVE  /\ SessionGood(n, p, t) /\ IsEstablished(t) /\ OwnKey(t) = OwnKey(s)
         /\ t.send.key = s.send.key /\ t.send.nonce = s.send.nonce + 1
         /\ t.pending = s.pending /\ t.receive = s.receive
<1>1. s \in Sessions /\ KeysGood(n, p, s) /\ s.state = "Established"
  BY DEF SessionGood, IsEstablished
<1>2. PICK c : c = AfterEncrypt(s.send)
  OBVIOUS
<1>3. s.send \in Ciphers
  BY <1>1 DEF Sessions
<1>4. c \in Ciphers /\ c.key = s.send.key /\ c.nonce = s.send.nonce + 1
  <2>1. s.send.nonce + 1 \in Nat
    BY <1>3 DEF Ciphers
  <2> QED
    BY <1>2, <1>3, <2>1 DEF AfterEncrypt, Ciphers
<1>5. t = [s EXCEPT !.send = c]
  BY <1>2 DEF AfterEncryption
<1>6. t \in Sessions /\ t.state = s.state /\ t.send = c /\ t.receive = s.receive
      /\ t.pending = s.pending
  BY <1>1, <1>4, <1>5 DEF Sessions
<1> QED
  BY <1>1, <1>4, <1>6 DEF SessionGood, KeysGood, IsEstablished, OwnKey

(* Decrypting leaves the sending side and both keys alone.                   *)
LEMMA Decrypting ==
  ASSUME NEW n, NEW p, NEW s, SessionGood(n, p, s), IsEstablished(s),
         NEW ct \in Ciphertexts, NEW t, t = AfterDecryption(s, ct)
  PROVE  /\ SessionGood(n, p, t) /\ IsEstablished(t) /\ OwnKey(t) = OwnKey(s)
         /\ t.send = s.send /\ t.pending = s.pending /\ t.receive.key = s.receive.key
<1>1. s \in Sessions /\ KeysGood(n, p, s) /\ s.state = "Established"
  BY DEF SessionGood, IsEstablished
<1>2. PICK c : c = s.receive
  OBVIOUS
<1>3. PICK d : d = AfterDecrypt(c, ct)
  OBVIOUS
<1>4. c \in Ciphers /\ ct.prefix \in Nat
  BY <1>1, <1>2 DEF Sessions, Ciphertexts
<1>5. PICK e : e = IF ct.prefix > c.highest THEN Slide(c, ct.prefix) ELSE c
  OBVIOUS
<1>6. e \in Ciphers /\ e.key = c.key
  <2>1. CASE ct.prefix > c.highest
    <3>1. PICK w : w = IF ct.prefix - c.highest >= ReplayWindowSize THEN {}
                       ELSE {x \in c.replay_window : x + ReplayWindowSize > ct.prefix}
      OBVIOUS
    <3>2. w \in SUBSET Nat
      BY <1>4, <3>1 DEF Ciphers
    <3>3. e = [c EXCEPT !.highest = ct.prefix, !.replay_window = w]
      BY <1>5, <2>1, <3>1 DEF Slide
    <3> QED
      BY <1>4, <3>2, <3>3 DEF Ciphers
  <2>2. CASE ~(ct.prefix > c.highest)
    BY <1>4, <1>5, <2>2
  <2> QED
    BY <2>1, <2>2
<1>7. d \in Ciphers /\ d.key = c.key
  <2>1. CASE DecryptResult(c, ct) = "Ok"
    <3>1. d = [e EXCEPT !.replay_window = @ \cup {ct.prefix}]
      BY <1>3, <1>5, <2>1 DEF AfterDecrypt, MarkNonceAsSeen
    <3>2. e.replay_window \cup {ct.prefix} \in SUBSET Nat
      BY <1>4, <1>6 DEF Ciphers
    <3> QED
      BY <1>6, <3>1, <3>2 DEF Ciphers
  <2>2. CASE DecryptResult(c, ct) # "Ok"
    BY <1>3, <1>4, <2>2 DEF AfterDecrypt
  <2> QED
    BY <2>1, <2>2
<1>8. t = [s EXCEPT !.receive = d]
  BY <1>2, <1>3 DEF AfterDecryption
<1>9. t \in Sessions /\ t.state = s.state /\ t.send = s.send /\ t.receive = d
      /\ t.pending = s.pending
  BY <1>1, <1>7, <1>8 DEF Sessions
<1> QED
  BY <1>1, <1>2, <1>7, <1>9 DEF SessionGood, KeysGood, IsEstablished, OwnKey

(* What is flushed of a queue is a part of it, in its order.                 *)
LEMMA FlushedPart ==
  ASSUME NEW s \in Sessions, NEW expired \in 0..Len(s.pending)
  PROVE  /\ FlushedMessages(s, expired) \in Seq(Dms)
         /\ Len(FlushedMessages(s, expired)) = Len(s.pending) - expired
         /\ \A i \in 1..Len(s.pending) - expired :
              /\ i + expired \in 1..Len(s.pending)
              /\ FlushedMessages(s, expired)[i] = s.pending[i + expired]
<1>1. s.pending \in Seq(Dms)
  BY DEF Sessions
<1>2. PICK q \in Seq(Dms) : q = s.pending
  BY <1>1
<1>3. PICK f : f = SubSeq(q, expired + 1, Len(q))
  OBVIOUS
<1>4. /\ Len(f) = Len(q) - expired
      /\ f \in Seq(Dms)
      /\ \A i \in 1..Len(q) - expired :
           i + expired \in 1..Len(q) /\ f[i] = q[i + expired]
  BY <1>2, <1>3
<1> QED
  BY <1>2, <1>3, <1>4 DEF FlushedMessages

(* A message is sealed under the id it carries.                              *)
LEMMA SealingMessage ==
  ASSUME NEW c \in Ciphers, NEW dm \in Dms, NEW ct, ct = PrivateMessage(c, dm)
  PROVE  /\ ct \in Ciphertexts /\ ct.key = c.key /\ ct.nonce = c.nonce
         /\ ct.payload.type = "message" /\ ct.payload.dm = dm
         /\ ct.payload.id = MessageId(c) /\ MessageId(ct) = MessageId(c)
         /\ MessageId(c) \in Ids
<1>1. c.key \in CipherKeys /\ c.nonce \in Nat
  BY DEF Ciphers
<1>2. NonceToBytes(c.nonce) \in Nat
  BY <1>1, WireAssumption DEF NonceToBytes
<1>3. PICK id : id = MessageId(c)
  OBVIOUS
<1>4. id \in Ids
  BY <1>1, <1>3 DEF MessageId, Ids
<1>5. PICK pl : pl = [type |-> "message", dm |-> dm, id |-> id]
  OBVIOUS
<1>6. pl \in Payloads /\ pl.type = "message" /\ pl.dm = dm /\ pl.id = id
  BY <1>4, <1>5 DEF Payloads
<1>7. ct = [key |-> c.key, nonce |-> c.nonce, prefix |-> NonceToBytes(c.nonce), payload |-> pl]
  BY <1>3, <1>5 DEF PrivateMessage, Sealed
<1>8. ct \in Ciphertexts /\ ct.key = c.key /\ ct.nonce = c.nonce /\ ct.payload = pl
  BY <1>1, <1>2, <1>6, <1>7 DEF Ciphertexts
<1>9. MessageId(ct) = MessageId(c)
  BY <1>8 DEF MessageId
<1> QED
  BY <1>3, <1>4, <1>6, <1>8, <1>9

(* ... and so is an acknowledgement, of the id it names.                     *)
LEMMA SealingAck ==
  ASSUME NEW c \in Ciphers, NEW id \in Ids, NEW ct, ct = DeliveredAck(c, id)
  PROVE  /\ ct \in Ciphertexts /\ ct.key = c.key /\ ct.nonce = c.nonce
         /\ ct.payload.type = "delivered" /\ ct.payload.id = id
<1>1. c.key \in CipherKeys /\ c.nonce \in Nat
  BY DEF Ciphers
<1>2. NonceToBytes(c.nonce) \in Nat
  BY <1>1, WireAssumption DEF NonceToBytes
<1>3. PICK pl : pl = [type |-> "delivered", id |-> id]
  OBVIOUS
<1>4. pl \in Payloads /\ pl.type = "delivered" /\ pl.id = id
  BY <1>3 DEF Payloads
<1>5. ct = [key |-> c.key, nonce |-> c.nonce, prefix |-> NonceToBytes(c.nonce), payload |-> pl]
  BY <1>3 DEF DeliveredAck, Sealed
<1> QED
  BY <1>1, <1>2, <1>4, <1>5 DEF Ciphertexts

(* Flushing seals the messages under successive nonces and empties the queue.*)
FlushingGood(n, p, s, expired, t, cts) ==
    /\ SessionGood(n, p, t) /\ IsEstablished(t) /\ OwnKey(t) = OwnKey(s)
    /\ t.send.key = s.send.key /\ t.receive = s.receive
    /\ t.send.nonce = s.send.nonce + (Len(s.pending) - expired)
    /\ t.pending = <<>>
    /\ cts \in Seq(Ciphertexts) /\ Len(cts) = Len(s.pending) - expired
    /\ \A i \in 1..Len(cts) :
         /\ cts[i].key = s.send.key /\ cts[i].nonce = s.send.nonce + (i - 1)
         /\ cts[i].payload.type = "message"
         /\ i + expired \in 1..Len(s.pending)
         /\ cts[i].payload.dm = s.pending[i + expired]
         /\ cts[i].payload.id = MessageId(cts[i])

(* ... as send_pending_messages does, however many of them have expired.     *)
LEMMA Flushing ==
  ASSUME NEW n, NEW p, NEW s, SessionGood(n, p, s), IsEstablished(s),
         NEW expired \in 0..Len(s.pending), NEW t, t = AfterFlush(s, expired),
         NEW cts, cts = FlushedCiphertexts(s, expired)
  PROVE  FlushingGood(n, p, s, expired, t, cts)
<1>1. s \in Sessions /\ KeysGood(n, p, s) /\ s.state = "Established"
  BY DEF SessionGood, IsEstablished
<1>2. PICK f : f = FlushedMessages(s, expired)
  OBVIOUS
<1>3. /\ f \in Seq(Dms) /\ Len(f) = Len(s.pending) - expired
      /\ \A i \in 1..Len(f) :
           i + expired \in 1..Len(s.pending) /\ f[i] = s.pending[i + expired]
  BY <1>1, <1>2, FlushedPart
<1>4. PICK c : c = s.send
  OBVIOUS
<1>5. c \in Ciphers /\ c.nonce \in Nat /\ Len(f) \in Nat
  BY <1>1, <1>3, <1>4 DEF Sessions, Ciphers
<1>6. PICK d : d = [c EXCEPT !.nonce = c.nonce + Len(f)]
  OBVIOUS
<1>7. d \in Ciphers /\ d.key = c.key /\ d.nonce = c.nonce + Len(f)
  <2>1. c.nonce + Len(f) \in Nat
    BY <1>5
  <2> QED
    BY <1>5, <1>6, <2>1 DEF Ciphers
<1>8. PICK u : u = [s EXCEPT !.pending = <<>>]
  OBVIOUS
<1>9. /\ t \in Sessions /\ t.state = s.state /\ t.send = d /\ t.receive = s.receive
      /\ t.pending = <<>>
  <2>1. /\ u \in Sessions /\ u.state = s.state /\ u.send = c /\ u.receive = s.receive
        /\ u.pending = <<>>
    <3>1. <<>> \in Seq(Dms)
      OBVIOUS
    <3>2. u \in Sessions
      BY <1>1, <1>8, <3>1 DEF Sessions
    <3> QED
      BY <1>1, <1>4, <1>8, <3>2 DEF Sessions
  <2>2. t = [u EXCEPT !.send.nonce = @ + Len(f)]
    <3>1. t = [s EXCEPT !.pending = <<>>, !.send.nonce = @ + Len(f)]
      BY <1>2 DEF AfterFlush
    <3>2. t = [[s EXCEPT !.pending = <<>>] EXCEPT !.send.nonce = @ + Len(f)]
      BY <3>1
    <3> QED
      BY <1>8, <3>2
  <2>3. t = [u EXCEPT !.send = d]
    BY <1>6, <2>1, <2>2
  <2> QED
    BY <1>7, <2>1, <2>3 DEF Sessions
<1>10. /\ SessionGood(n, p, t) /\ IsEstablished(t) /\ OwnKey(t) = OwnKey(s)
       /\ t.send.key = s.send.key
  BY <1>1, <1>4, <1>7, <1>9 DEF SessionGood, KeysGood, IsEstablished, OwnKey
<1>11. cts = [i \in 1..Len(f) |-> PrivateMessage([c EXCEPT !.nonce = c.nonce + i - 1], f[i])]
  BY <1>2, <1>4 DEF FlushedCiphertexts
<1>12. ASSUME NEW i \in 1..Len(f)
       PROVE  /\ cts[i] \in Ciphertexts
              /\ cts[i].key = c.key /\ cts[i].nonce = c.nonce + (i - 1)
              /\ cts[i].payload.type = "message" /\ cts[i].payload.dm = f[i]
              /\ cts[i].payload.id = MessageId(cts[i])
  <2>1. PICK e : e = [c EXCEPT !.nonce = c.nonce + i - 1]
    OBVIOUS
  <2>2. e \in Ciphers /\ e.key = c.key /\ e.nonce = c.nonce + (i - 1)
    <3>1. c.nonce + i - 1 \in Nat /\ c.nonce + i - 1 = c.nonce + (i - 1)
      BY <1>5
    <3> QED
      BY <1>5, <2>1, <3>1 DEF Ciphers
  <2>3. f[i] \in Dms /\ cts[i] = PrivateMessage(e, f[i])
    BY <1>3, <1>11, <2>1
  <2> QED
    BY <2>2, <2>3, SealingMessage
<1>13. cts \in Seq(Ciphertexts) /\ Len(cts) = Len(f)
  <2>1. cts = [i \in 1..Len(f) |-> cts[i]]
    BY <1>11
  <2>2. cts \in [1..Len(f) -> Ciphertexts]
    BY <1>12, <2>1
  <2> QED
    BY <1>5, <2>2
<1> QED
  BY <1>3, <1>4, <1>7, <1>9, <1>10, <1>12, <1>13 DEF FlushingGood

-----------------------------------------------------------------------------
(* The medium.                                                               *)

(* What may arrive next is in the medium.                                    *)
LEMMA MediaContents ==
  ASSUME NEW m \in Media
  PROVE  Contents(m) \subseteq Packets /\ Arrivals(m) \subseteq Contents(m)
<1>1. CASE Ordered
  BY <1>1 DEF Media, Contents, Arrivals, Elements
<1>2. CASE ~Ordered
  BY <1>2 DEF Media, Contents, Arrivals
<1> QED
  BY <1>1, <1>2

(* The elements of two sequences of packets, one after the other.            *)
LEMMA Concatenating ==
  ASSUME NEW a \in Seq(Packets), NEW b \in Seq(Packets)
  PROVE  a \o b \in Seq(Packets) /\ Elements(a \o b) = Elements(a) \cup Elements(b)
<1>1. PICK w : w = a \o b
  OBVIOUS
<1>2. /\ w \in Seq(Packets) /\ Len(w) = Len(a) + Len(b)
      /\ \A i \in 1..Len(a) : i \in 1..Len(w) /\ w[i] = a[i]
      /\ \A i \in 1..Len(b) : i + Len(a) \in 1..Len(w) /\ w[i + Len(a)] = b[i]
      /\ \A i \in 1..Len(w) : i \in 1..Len(a) \/ i - Len(a) \in 1..Len(b)
      /\ \A i \in 1..Len(w) : i \notin 1..Len(a) => w[i] = b[i - Len(a)]
  BY <1>1
<1>3. \A x \in Elements(w) : x \in Elements(a) \cup Elements(b)
  BY <1>2 DEF Elements
<1>4. \A x \in Elements(a) : x \in Elements(w)
  BY <1>2 DEF Elements
<1>5. \A x \in Elements(b) : x \in Elements(w)
  BY <1>2 DEF Elements
<1> QED
  BY <1>1, <1>2, <1>3, <1>4, <1>5

(* What is sent is added to it.                                              *)
LEMMA Transmitting ==
  ASSUME NEW m \in Media, NEW out \in Seq(Packets)
  PROVE  /\ Transmit(m, out) \in Media
         /\ Contents(Transmit(m, out)) = Contents(m) \cup Elements(out)
<1>1. CASE Ordered
  <2>1. m \in Seq(Packets)
    BY <1>1 DEF Media
  <2> QED
    BY <1>1, <2>1, Concatenating DEF Media, Contents, Transmit
<1>2. CASE ~Ordered
  BY <1>2 DEF Media, Contents, Transmit, Elements
<1> QED
  BY <1>1, <1>2

(* What has arrived may be gone from it.                                     *)
LEMMA Arriving ==
  ASSUME NEW m \in Media, Arrivals(m) # {}
  PROVE  /\ AfterArrival(m) \in Media
         /\ Contents(AfterArrival(m)) \subseteq Contents(m)
<1>1. CASE Ordered
  <2>1. m \in Seq(Packets)
    BY <1>1 DEF Media
  <2>2. Len(m) \in Nat /\ Len(m) > 0 /\ m # <<>>
    BY <1>1, <2>1 DEF Arrivals
  <2>3. PICK w : w = Tail(m)
    OBVIOUS
  <2>4. /\ w \in Seq(Packets) /\ Len(w) = Len(m) - 1
        /\ \A i \in 1..Len(w) : i + 1 \in 1..Len(m) /\ w[i] = m[i + 1]
    BY <2>1, <2>2, <2>3
  <2>5. Elements(w) \subseteq Elements(m)
    BY <2>4 DEF Elements
  <2> QED
    BY <1>1, <2>3, <2>4, <2>5 DEF Media, Contents, AfterArrival
<1>2. CASE ~Ordered
  BY <1>2 DEF Media, Contents, AfterArrival
<1> QED
  BY <1>1, <1>2

-----------------------------------------------------------------------------
(* What a step may do to the keys: a session is given up, kept, or put under *)
(* a new key, one at a time; what is sealed is sealed under the session's    *)
(* key with nonces its counter has just passed.                              *)
Kept(s, t) ==
    /\ OwnKey(t) = OwnKey(s)
    /\ s.state = "Established" =>
         t.state = "Established" /\ t.send.key = s.send.key /\ s.send.nonce <= t.send.nonce

SealsNow(s, t, ct) ==
    /\ t.state = "Established" /\ ct.key = t.send.key /\ ct.nonce < t.send.nonce
    /\ s.state = "Established" /\ OwnKey(s) = OwnKey(t) => s.send.nonce <= ct.nonce

(* What n sends to p in this step.                                           *)
New(n, p) == Contents(net'[n][p]) \ Contents(net[n][p])
SealedNow(n, p) == {q.sealed : q \in {r \in New(n, p) : r.type = "NoiseEncrypted"}}

Stepped(n, p) ==
    /\ SessionGood(n, p, session'[n][p])
    /\ \/ OwnKey(session'[n][p]) = NoKey
       \/ Kept(session[n][p], session'[n][p])
       \/ /\ OwnKey(session'[n][p]) = Fresh(n) /\ ephemerals'[n] = ephemerals[n] + 1
          /\ \A q \in Peers(n) \ {p} : session'[n][q] = session[n][q]
    /\ \A x \in New(n, p) : x.type = "NoiseHandshakeInit" => NoiseGood(n, x.noise)
    /\ \A ct \in SealedNow(n, p) : SealsNow(session[n][p], session'[n][p], ct)
    /\ \A c, d \in SealedNow(n, p) : c.nonce = d.nonce => c = d

StepOfKeys ==
    /\ \A n \in Node : ephemerals[n] <= ephemerals'[n]
    /\ \A n \in Node : \A p \in Peers(n) : Stepped(n, p)

(* A session's own key is its owner's; an established one sends under it.    *)
LEMMA OwnKeyIsOwn ==
  ASSUME NEW n \in Node, NEW p, NEW s, SessionGood(n, p, s)
  PROVE  /\ OwnKey(s) # NoKey => OwnKey(s).owner = n
         /\ s.state = "Established" => OwnKey(s) = SenderKey(s.send.key) /\ OwnKey(s) # NoKey
<1>1. s \in Sessions /\ NoKey.owner # n
  BY NoKeyIsNobodys DEF SessionGood
<1>2. CASE s.state = "None"
  BY <1>2, NoSessionGood DEF SessionGood
<1>3. CASE s.state = "Handshaking"
  <2>1. HandshakeGood(n, p, s.handshake) /\ OwnKey(s) = s.handshake.e
    BY <1>3 DEF SessionGood, OwnKey
  <2> QED
    BY <1>3, <2>1 DEF HandshakeGood
<1>4. CASE s.state = "Established"
  <2>1. KeysGood(n, p, s) /\ OwnKey(s) = SenderKey(s.send.key)
    BY <1>4 DEF SessionGood, OwnKey
  <2>2. SenderKey(s.send.key).owner = n
    BY <2>1 DEF KeysGood, SenderKey
  <2> QED
    BY <1>1, <2>1, <2>2
<1> QED
  BY <1>1, <1>2, <1>3, <1>4 DEF Sessions

(* The ciphertexts that are not new were there before.                       *)
LEMMA SealedBefore ==
  ASSUME NEW n, NEW p, NEW ct \in SealedTo(n, p)', ct \notin SealedNow(n, p)
  PROVE  ct \in SealedTo(n, p)
<1>1. PICK q \in Contents(net'[n][p]) : q.type = "NoiseEncrypted" /\ ct = q.sealed
  BY DEF SealedTo
<1>2. q \in Contents(net[n][p])
  BY <1>1 DEF SealedNow, New
<1> QED
  BY <1>1, <1>2 DEF SealedTo

(* The types of what a slot holds.                                           *)
LEMMA SlotTypes ==
  ASSUME ShapesOK, NEW n \in Node, NEW p \in Peers(n)
  PROVE  /\ session[n][p] \in Sessions /\ net[n][p] \in Media
         /\ session[n][p].send.nonce \in Nat
         /\ Contents(net[n][p]) \subseteq Packets
         /\ SealedTo(n, p) \subseteq Ciphertexts
         /\ \A ct \in SealedTo(n, p) : MessageId(ct) \in Ids
<1>1. session[n][p] \in Sessions /\ net[n][p] \in Media
  BY DEF ShapesOK, SlotsOK
<1>2. session[n][p].send.nonce \in Nat
  BY <1>1 DEF Sessions, Ciphers
<1>3. Contents(net[n][p]) \subseteq Packets
  BY <1>1, MediaContents
<1>4. SealedTo(n, p) \subseteq Ciphertexts
  <2>1. SUFFICES ASSUME NEW q \in Contents(net[n][p]), q.type = "NoiseEncrypted"
                 PROVE  q.sealed \in Ciphertexts
    BY DEF SealedTo
  <2> QED
    BY <1>3, <2>1 DEF Packets
<1>5. \A ct \in SealedTo(n, p) : MessageId(ct) \in Ids
  BY <1>4 DEF Ciphertexts, MessageId, Ids
<1> QED
  BY <1>1, <1>2, <1>3, <1>4, <1>5

(* Whatever is spent stays spent.                                            *)
LEMMA SpentKept ==
  ASSUME ShapesOK, ShapesOK', StepOfKeys, NEW n \in Node, NEW id \in Ids, Spent(n, id)
  PROVE  Spent(n, id)'
<1>1. PICK k : k = SenderKey(id.key)
  OBVIOUS
<1>2. k.owner = n /\ k.serial \in 1..ephemerals[n] /\ k # NoKey
  BY <1>1, NoKeyIsNobodys DEF Spent, Drawn
<1>3. ephemerals[n] \in Nat /\ ephemerals'[n] \in Nat /\ ephemerals[n] <= ephemerals'[n]
  BY BoundsAssumption DEF ShapesOK, HistoriesOK, StepOfKeys
<1>4. Drawn(n, k)'
  BY <1>2, <1>3 DEF Drawn
<1>5. ASSUME NEW p \in Peers(n), OwnKey(session'[n][p]) = k
      PROVE  /\ session'[n][p].state = "Established"
             /\ session'[n][p].send.key = id.key /\ id.nonce < session'[n][p].send.nonce
  <2>1. k # Fresh(n)
    BY <1>2, <1>3 DEF Fresh, Ephemeral
  <2>2. Kept(session[n][p], session'[n][p])
    BY <1>2, <1>5, <2>1 DEF StepOfKeys, Stepped
  <2>3. OwnKey(session[n][p]) = k
    BY <1>5, <2>2 DEF Kept
  <2>4. /\ session[n][p].state = "Established"
        /\ session[n][p].send.key = id.key /\ id.nonce < session[n][p].send.nonce
    BY <1>1, <2>3 DEF Spent
  <2>5. session[n][p].send.nonce \in Nat /\ session'[n][p].send.nonce \in Nat /\ id.nonce \in Nat
    BY SlotTypes DEF ShapesOK, SlotsOK, Sessions, Ciphers, Ids
  <2> QED
    BY <2>2, <2>4, <2>5 DEF Kept
<1> QED
  BY <1>1, <1>4, <1>5 DEF Spent

(* A session's own key is drawn, and of that session alone.                  *)
LEMMA OwnKeysKept ==
  ASSUME ShapesOK, ShapesOK', OwnKeysOK, StepOfKeys
  PROVE  OwnKeysOK'
<1> SUFFICES ASSUME NEW n \in Node, NEW p \in Peers(n), OwnKey(session'[n][p]) # NoKey
             PROVE  /\ Drawn(n, OwnKey(session[n][p]))'
                    /\ \A q \in Peers(n) \ {p} : OwnKey(session'[n][q]) # OwnKey(session'[n][p])
  BY DEF OwnKeysOK
<1>1. ephemerals[n] \in Nat /\ ephemerals'[n] \in Nat /\ ephemerals[n] <= ephemerals'[n]
  BY BoundsAssumption DEF ShapesOK, HistoriesOK, StepOfKeys
<1>2. /\ Fresh(n).owner = n /\ Fresh(n).serial = ephemerals[n] + 1
      /\ \A e : Drawn(n, e) => e # Fresh(n)
  BY <1>1 DEF Fresh, Ephemeral, Drawn
<1>3. ASSUME NEW q \in Peers(n), OwnKey(session'[n][q]) # NoKey,
             OwnKey(session'[n][q]) # Fresh(n)
      PROVE  OwnKey(session[n][q]) = OwnKey(session'[n][q])
  BY <1>3 DEF StepOfKeys, Stepped, Kept
<1>4. ASSUME NEW q \in Peers(n), OwnKey(session[n][q]) = Fresh(n)
      PROVE  FALSE
  <2>1. OwnKey(session[n][q]) # NoKey
    BY <1>2, <1>4, NoKeyIsNobodys
  <2> QED
    BY <1>2, <1>4, <2>1 DEF OwnKeysOK
<1>5. CASE OwnKey(session'[n][p]) = Fresh(n)
  <2>1. ~Kept(session[n][p], session'[n][p])
    BY <1>4, <1>5 DEF Kept
  <2>2. /\ ephemerals'[n] = ephemerals[n] + 1
        /\ \A q \in Peers(n) \ {p} : session'[n][q] = session[n][q]
    BY <1>5, <2>1 DEF StepOfKeys, Stepped
  <2>3. Drawn(n, OwnKey(session[n][p]))'
    BY <1>1, <1>2, <1>5, <2>2 DEF Drawn
  <2> QED
    BY <1>4, <1>5, <2>2, <2>3
<1>6. CASE OwnKey(session'[n][p]) # Fresh(n)
  <2>1. OwnKey(session[n][p]) = OwnKey(session'[n][p])
    BY <1>3, <1>6
  <2>2. Drawn(n, OwnKey(session'[n][p]))
    BY <2>1 DEF OwnKeysOK
  <2>3. Drawn(n, OwnKey(session[n][p]))'
    BY <1>1, <2>2 DEF Drawn
  <2>4. ASSUME NEW q \in Peers(n) \ {p}, OwnKey(session'[n][q]) = OwnKey(session'[n][p])
        PROVE  FALSE
    <3>1. OwnKey(session[n][q]) = OwnKey(session'[n][q])
      BY <1>3, <1>6, <2>4
    <3> QED
      BY <2>1, <2>4, <3>1 DEF OwnKeysOK
  <2> QED
    BY <2>3, <2>4
<1> QED
  BY <1>5, <1>6

(* What is sealed in a step is spent after it.                               *)
LEMMA SealedIsSpent ==
  ASSUME ShapesOK', OwnKeysOK', StepOfKeys,
         NEW n \in Node, NEW p \in Peers(n), NEW ct,
         SealsNow(session[n][p], session'[n][p], ct)
  PROVE  Spent(n, MessageId(ct))' /\ OwnKey(session'[n][p]) = SenderKey(ct.key)
         /\ SenderKey(ct.key) # NoKey
<1>1. SessionGood(n, p, session'[n][p])
  BY DEF StepOfKeys, Stepped
<1>2. /\ session'[n][p].state = "Established" /\ ct.key = session'[n][p].send.key
      /\ ct.nonce < session'[n][p].send.nonce
  BY DEF SealsNow
<1>3. OwnKey(session'[n][p]) = SenderKey(ct.key) /\ SenderKey(ct.key) # NoKey
  BY <1>1, <1>2, OwnKeyIsOwn
<1>4. Drawn(n, SenderKey(ct.key))'
  BY <1>3 DEF OwnKeysOK
<1>5. ASSUME NEW q \in Peers(n), OwnKey(session'[n][q]) = SenderKey(ct.key)
      PROVE  q = p
  BY <1>3, <1>5 DEF OwnKeysOK
<1>6. MessageId(ct).key = ct.key /\ MessageId(ct).nonce = ct.nonce
  BY DEF MessageId
<1> QED
  BY <1>2, <1>3, <1>4, <1>5, <1>6 DEF Spent

(* No nonce that is spent is sealed under again.                             *)
LEMMA SealedIsNew ==
  ASSUME ShapesOK, ShapesOK', StepOfKeys,
         NEW n \in Node, NEW p \in Peers(n), NEW ct,
         SealsNow(session[n][p], session'[n][p], ct),
         OwnKey(session'[n][p]) = SenderKey(ct.key), SenderKey(ct.key) # NoKey,
         NEW id \in Ids, Spent(n, id)
  PROVE  id # MessageId(ct)
<1> SUFFICES ASSUME id = MessageId(ct) PROVE FALSE
  OBVIOUS
<1>1. id.key = ct.key /\ id.nonce = ct.nonce
  BY DEF MessageId
<1>2. ephemerals[n] \in Nat
  BY BoundsAssumption DEF ShapesOK, HistoriesOK
<1>3. SenderKey(ct.key) # Fresh(n)
  BY <1>1, <1>2 DEF Spent, Drawn, Fresh, Ephemeral
<1>4. Kept(session[n][p], session'[n][p])
  BY <1>3 DEF StepOfKeys, Stepped
<1>5. OwnKey(session[n][p]) = SenderKey(id.key)
  BY <1>1, <1>4 DEF Kept
<1>6. session[n][p].state = "Established" /\ id.nonce < session[n][p].send.nonce
  BY <1>5 DEF Spent
<1>7. session[n][p].send.nonce <= ct.nonce
  BY <1>1, <1>5, <1>6 DEF SealsNow
<1>8. session[n][p].send.nonce \in Nat /\ id.nonce \in Nat
  BY SlotTypes DEF Ids
<1> QED
  BY <1>1, <1>6, <1>7, <1>8

(* The ciphertexts in flight are those of the pairs of peers.                *)
SealingsOfPairs ==
    \A ct : ct \in Sealings <=> \E n \in Node : \E p \in Peers(n) : ct \in SealedTo(n, p)

(* ... and each of those is in flight.                                       *)
LEMMA SealingsAre == SealingsOfPairs
<1> SUFFICES ASSUME NEW ct
             PROVE  ct \in Sealings
                      <=> \E n \in Node : \E p \in Peers(n) : ct \in SealedTo(n, p)
  BY DEF SealingsOfPairs
<1>1. ASSUME ct \in Sealings
      PROVE  \E n \in Node : \E p \in Peers(n) : ct \in SealedTo(n, p)
  <2>1. PICK q \in InFlight : q.type = "NoiseEncrypted" /\ ct = q.sealed
    BY <1>1 DEF Sealings
  <2>2. PICK pr \in Pair : q \in Contents(net[pr[1]][pr[2]])
    BY DEF InFlight
  <2>3. pr[1] \in Node /\ pr[2] \in Peers(pr[1])
    BY DEF Pair, Peers
  <2>4. ct \in SealedTo(pr[1], pr[2])
    BY <2>1, <2>2 DEF SealedTo
  <2> QED
    BY <2>3, <2>4
<1>2. ASSUME NEW n \in Node, NEW p \in Peers(n), ct \in SealedTo(n, p)
      PROVE  ct \in Sealings
  <2>1. PICK q \in Contents(net[n][p]) : q.type = "NoiseEncrypted" /\ ct = q.sealed
    BY <1>2 DEF SealedTo
  <2>2. PICK pr : pr = <<n, p>>
    OBVIOUS
  <2>3. pr \in Pair /\ pr[1] = n /\ pr[2] = p
    BY <2>2 DEF Pair, Peers
  <2>4. q \in InFlight
    BY <2>1, <2>3 DEF InFlight
  <2> QED
    BY <2>1, <2>4 DEF Sealings
<1> QED
  BY <1>1, <1>2

(* The invariant of the keys is kept by every such step.                     *)
LEMMA KeysKept ==
  ASSUME ShapesOK, ShapesOK', KeysInv, StepOfKeys
  PROVE  KeysInv'
<1>0. ASSUME NEW n \in Node, NEW p \in Peers(n), NEW ct \in SealedNow(n, p)
      PROVE  SealsNow(session[n][p], session'[n][p], ct)
  BY DEF StepOfKeys, Stepped
<1>1. SessionsOK'
  BY DEF SessionsOK, StepOfKeys, Stepped
<1>2. NoisesOK'
  BY DEF KeysInv, NoisesOK, StepOfKeys, Stepped, New
<1>3. OwnKeysOK'
  BY OwnKeysKept DEF KeysInv
<1>4. IdsSpent'
  <2>1. SUFFICES ASSUME NEW n \in Node, NEW p \in Peers(n), NEW ct \in SealedTo(n, p)'
                 PROVE  Spent(n, MessageId(ct))'
    BY DEF IdsSpent
  <2>2. CASE ct \in SealedNow(n, p)
    BY <1>0, <1>3, <2>2, SealedIsSpent
  <2>3. CASE ct \notin SealedNow(n, p)
    <3>1. ct \in SealedTo(n, p)
      BY <2>3, SealedBefore
    <3>2. Spent(n, MessageId(ct)) /\ MessageId(ct) \in Ids
      BY <3>1, SlotTypes DEF KeysInv, IdsSpent
    <3> QED
      BY <3>2, SpentKept
  <2> QED
    BY <2>2, <2>3
<1>5. NonceNeverReused'
  <2>1. ASSUME NEW n \in Node, NEW p \in Peers(n), NEW c \in SealedTo(n, p)',
               NEW m \in Node, NEW q \in Peers(m), NEW d \in SealedTo(m, q)',
               c.key = d.key, c.nonce = d.nonce
        PROVE  /\ c \in SealedNow(n, p) => c = d
               /\ d \in SealedNow(m, q) => c = d
               /\ c \notin SealedNow(n, p) /\ d \notin SealedNow(m, q) => c = d
    <3>1. Spent(n, MessageId(c))' /\ Spent(m, MessageId(d))'
      BY <1>4 DEF IdsSpent
    <3>2. MessageId(c) = MessageId(d) /\ MessageId(c).key = c.key
      BY <2>1 DEF MessageId
    <3>3. n = m
      BY <3>1, <3>2 DEF Spent, Drawn
    <3>4. CASE c \in SealedNow(n, p) /\ d \in SealedNow(m, q)
      <4>1. /\ OwnKey(session'[n][p]) = SenderKey(c.key) /\ SenderKey(c.key) # NoKey
            /\ OwnKey(session'[n][q]) = SenderKey(c.key)
        BY <1>0, <1>3, <2>1, <3>3, <3>4, SealedIsSpent
      <4>2. p = q
        BY <1>3, <3>3, <4>1 DEF OwnKeysOK
      <4> QED
        BY <2>1, <3>3, <3>4, <4>2 DEF StepOfKeys, Stepped
    <3>5. CASE c \in SealedNow(n, p) /\ d \notin SealedNow(m, q)
      <4>1. /\ OwnKey(session'[n][p]) = SenderKey(c.key) /\ SenderKey(c.key) # NoKey
        BY <1>0, <1>3, <3>5, SealedIsSpent
      <4>2. d \in SealedTo(n, q) /\ q \in Peers(n)
        BY <3>3, <3>5, SealedBefore
      <4>3. Spent(n, MessageId(d)) /\ MessageId(d) \in Ids
        BY <4>2, SlotTypes DEF KeysInv, IdsSpent
      <4> QED
        BY <1>0, <3>2, <3>5, <4>1, <4>3, SealedIsNew
    <3>6. CASE c \notin SealedNow(n, p) /\ d \in SealedNow(m, q)
      <4>1. /\ OwnKey(session'[n][q]) = SenderKey(d.key) /\ SenderKey(d.key) # NoKey
        BY <1>0, <1>3, <3>3, <3>6, SealedIsSpent
      <4>2. c \in SealedTo(n, p)
        BY <3>6, SealedBefore
      <4>3. Spent(n, MessageId(c)) /\ MessageId(c) \in Ids
        BY <4>2, SlotTypes DEF KeysInv, IdsSpent
      <4> QED
        BY <1>0, <3>2, <3>3, <3>6, <4>1, <4>3, SealedIsNew
    <3>7. CASE c \notin SealedNow(n, p) /\ d \notin SealedNow(m, q)
      <4>1. c \in SealedTo(n, p) /\ d \in SealedTo(m, q)
        BY <3>7, SealedBefore
      <4>2. c \in Sealings /\ d \in Sealings
        BY <4>1, SealingsAre DEF SealingsOfPairs
      <4> QED
        BY <2>1, <4>2 DEF KeysInv, NonceNeverReused
    <3> QED
      BY <3>4, <3>5, <3>6, <3>7
  <2>2. \A ct : ct \in Sealings' => \E n \in Node : \E p \in Peers(n) : ct \in SealedTo(n, p)'
    <3>1. SealingsOfPairs'
      BY SealingsAre, PTL
    <3> QED
      BY <3>1 DEF SealingsOfPairs
  <2>3. SUFFICES ASSUME NEW c \in Sealings', NEW d \in Sealings', c.key = d.key, c.nonce = d.nonce
                 PROVE  c = d
    BY DEF NonceNeverReused
  <2>4. PICK n \in Node : \E p \in Peers(n) : c \in SealedTo(n, p)'
    BY <2>2
  <2>5. PICK p \in Peers(n) : c \in SealedTo(n, p)'
    BY <2>4
  <2>6. PICK m \in Node : \E q \in Peers(m) : d \in SealedTo(m, q)'
    BY <2>2
  <2>7. PICK q \in Peers(m) : d \in SealedTo(m, q)'
    BY <2>6
  <2> QED
    BY <2>1, <2>3, <2>5, <2>7
<1> QED
  BY <1>1, <1>2, <1>3, <1>4, <1>5 DEF KeysInv

-----------------------------------------------------------------------------
(* A step of one session: what becomes of it, and what it sends.             *)
Local(n, p, t, out) ==
    /\ Becomes(n, p, t) \/ (session' = session /\ t = session[n][p])
    /\ \/ Emit(n, p, out)
       \/ Exchange(n, p, out) /\ Arrivals(net[p][n]) # {}
       \/ net' = net

(* It changes that session alone, and sends nothing but its packets.         *)
LEMMA LocalStep ==
  ASSUME SlotsOK, NEW n \in Node, NEW p \in Peers(n), NEW t \in Sessions,
         NEW out \in Seq(Packets), Local(n, p, t, out)
  PROVE  /\ SlotsOK'
         /\ session'[n][p] = t /\ New(n, p) \subseteq Elements(out)
         /\ \A a \in Node : \A b \in Peers(a) : (a # n \/ b # p) =>
               session'[a][b] = session[a][b] /\ New(a, b) = {}
<1>1. p \in Node /\ n \in Peers(p) /\ n # p
  BY DEF Peers
<1>2. session' = [session EXCEPT ![n][p] = t] \/ (session' = session /\ t = session[n][p])
  BY DEF Local, Becomes
<1>3. DOMAIN session = Node /\ \A a \in Node : DOMAIN session[a] = Peers(a)
  BY DEF SlotsOK
<1>4. /\ DOMAIN session' = Node /\ \A a \in Node : DOMAIN session'[a] = Peers(a)
      /\ session'[n][p] = t
      /\ \A a \in Node : \A b \in Peers(a) : (a # n \/ b # p) => session'[a][b] = session[a][b]
  BY <1>2, <1>3
<1>5. \A a \in Node : \A b \in Peers(a) : session'[a][b] \in Sessions
  BY <1>4 DEF SlotsOK
<1>6. DOMAIN net = Node /\ \A a \in Node : DOMAIN net[a] = Peers(a)
  BY DEF SlotsOK
<1>7. \A a \in Node : \A b \in Peers(a) : net[a][b] \in Media
  BY DEF SlotsOK
<1>8. /\ DOMAIN net' = Node /\ \A a \in Node : DOMAIN net'[a] = Peers(a)
      /\ net'[n][p] = Transmit(net[n][p], out) \/ net'[n][p] = net[n][p]
      /\ net'[p][n] = net[p][n]
           \/ (Arrivals(net[p][n]) # {} /\ net'[p][n] = AfterArrival(net[p][n]))
      /\ \A a \in Node : \A b \in Peers(a) :
           (a # n \/ b # p) /\ (a # p \/ b # n) => net'[a][b] = net[a][b]
  <2>1. CASE Emit(n, p, out)
    <3>1. net' = [net EXCEPT ![n][p] = Transmit(net[n][p], out)]
      BY <2>1 DEF Emit
    <3> QED
      BY <1>1, <1>6, <3>1
  <2>2. CASE Exchange(n, p, out) /\ Arrivals(net[p][n]) # {}
    <3>1. net' = [net EXCEPT ![p][n] = AfterArrival(net[p][n]), ![n][p] = Transmit(net[n][p], out)]
      BY <1>1, <1>6, <2>2 DEF Exchange
    <3> QED
      BY <1>1, <1>6, <2>2, <3>1
  <2>3. CASE net' = net
    BY <1>1, <1>6, <2>3
  <2> QED
    BY <2>1, <2>2, <2>3 DEF Local
<1>9. /\ net'[n][p] \in Media /\ New(n, p) \subseteq Elements(out)
  BY <1>1, <1>7, <1>8, Transmitting DEF New
<1>10. net'[p][n] \in Media /\ New(p, n) = {}
  BY <1>1, <1>7, <1>8, Arriving DEF New
<1>11. \A a \in Node : \A b \in Peers(a) : (a # n \/ b # p) => net'[a][b] \in Media /\ New(a, b) = {}
  BY <1>7, <1>8, <1>10 DEF New
<1>12. \A a \in Node : \A b \in Peers(a) : net'[a][b] \in Media
  BY <1>9, <1>11
<1>13. SlotsOK'
  BY <1>4, <1>5, <1>8, <1>12 DEF SlotsOK
<1> QED
  BY <1>4, <1>9, <1>11, <1>13

(* A session that is not touched is kept.                                    *)
LEMMA SteppedAside ==
  ASSUME SlotsOK, SessionsOK, NEW n \in Node, NEW p \in Peers(n),
         session'[n][p] = session[n][p], New(n, p) = {}
  PROVE  Stepped(n, p)
<1>1. session[n][p].send.nonce \in Nat
  BY DEF SlotsOK, Sessions, Ciphers
<1>2. Kept(session[n][p], session[n][p])
  BY <1>1 DEF Kept
<1> QED
  BY <1>2 DEF Stepped, SessionsOK, SealedNow

(* One session under the key it had, or none.                                *)
LEMMA LocalKeyKept ==
  ASSUME SlotsOK, SessionsOK, NEW n \in Node, NEW p \in Peers(n), NEW t,
         NEW out \in Seq(Packets), Local(n, p, t, out),
         \A a \in Node : ephemerals[a] <= ephemerals'[a],
         SessionGood(n, p, t), OwnKey(t) = NoKey \/ Kept(session[n][p], t)
            \/ (OwnKey(t) = Fresh(n) /\ ephemerals'[n] = ephemerals[n] + 1),
         \A x \in Elements(out) : x.type = "NoiseHandshakeInit" => NoiseGood(n, x.noise),
         \A x \in Elements(out) : x.type = "NoiseEncrypted" => SealsNow(session[n][p], t, x.sealed),
         \A x, y \in Elements(out) :
            x.type = "NoiseEncrypted" /\ y.type = "NoiseEncrypted" /\ x.sealed.nonce = y.sealed.nonce
               => x.sealed = y.sealed
  PROVE  StepOfKeys
<1>1. t \in Sessions
  BY DEF SessionGood
<1>2. /\ session'[n][p] = t /\ New(n, p) \subseteq Elements(out)
      /\ \A a \in Node : \A b \in Peers(a) : (a # n \/ b # p) =>
            session'[a][b] = session[a][b] /\ New(a, b) = {}
  BY <1>1, LocalStep
<1>3. \A q \in Peers(n) \ {p} : session'[n][q] = session[n][q]
  BY <1>2
<1>4. \A ct \in SealedNow(n, p) : \E x \in Elements(out) : x.type = "NoiseEncrypted" /\ ct = x.sealed
  BY <1>2 DEF SealedNow
<1>5. Stepped(n, p)
  <2>1. \A x \in New(n, p) : x.type = "NoiseHandshakeInit" => NoiseGood(n, x.noise)
    BY <1>2
  <2>2. \A ct \in SealedNow(n, p) : SealsNow(session[n][p], t, ct)
    BY <1>4
  <2>3. \A c, d \in SealedNow(n, p) : c.nonce = d.nonce => c = d
    BY <1>4
  <2> QED
    BY <1>2, <1>3, <2>1, <2>2, <2>3 DEF Stepped
<1>6. \A a \in Node : \A b \in Peers(a) : (a # n \/ b # p) => Stepped(a, b)
  BY <1>2, SteppedAside
<1> QED
  BY <1>5, <1>6 DEF StepOfKeys

-----------------------------------------------------------------------------
(* What a step may do to the messages.                                       *)

(* What n claims after a step and did not claim before.                      *)
NewClaim(n, x) ==
    \/ x \in tracked'[n] \ tracked[n]
    \/ \E p \in Peers(n) : \E ct \in SealedNow(n, p) :
          ct.payload.type = "message" /\ x = ClaimOf(ct.payload)
    \/ \E m \in Node : \E y \in ShownFrom(n, m)' \ ShownFrom(n, m) : x = ClaimOf(y)

(* Where a claim may be made.                                                *)
ClaimsAre ==
    \A n \in Node : \A x : x \in ClaimedBy(n) <=>
        \/ x \in tracked[n]
        \/ \E p \in Peers(n) : \E ct \in SealedTo(n, p) :
              ct.payload.type = "message" /\ x = ClaimOf(ct.payload)
        \/ \E m \in Node : \E y \in ShownFrom(n, m) : x = ClaimOf(y)

(* The union that is written out there, place by place.                      *)
LEMMA ClaimPlaces == ClaimsAre
<1> SUFFICES ASSUME NEW n \in Node, NEW x
             PROVE  x \in ClaimedBy(n) <=>
                      \/ x \in tracked[n]
                      \/ \E p \in Peers(n) : \E ct \in SealedTo(n, p) :
                            ct.payload.type = "message" /\ x = ClaimOf(ct.payload)
                      \/ \E m \in Node : \E y \in ShownFrom(n, m) : x = ClaimOf(y)
  BY DEF ClaimsAre
<1>1. (\E p \in Peers(n) : x \in SealedClaims(n, p))
        <=> \E p \in Peers(n) : \E ct \in SealedTo(n, p) :
              ct.payload.type = "message" /\ x = ClaimOf(ct.payload)
  BY DEF SealedClaims
<1>2. (\E m \in Node : x \in ShownClaims(n, m))
        <=> \E m \in Node : \E y \in ShownFrom(n, m) : x = ClaimOf(y)
  BY DEF ShownClaims
<1> QED
  BY <1>1, <1>2 DEF ClaimedBy

(* What is claimed after a step was claimed before it or is new.             *)
LEMMA ClaimedNow ==
  ASSUME NEW n \in Node, NEW x \in ClaimedBy(n)'
  PROVE  x \in ClaimedBy(n) \/ NewClaim(n, x)
<1>1. CASE x \in tracked'[n]
  BY <1>1, ClaimPlaces DEF ClaimsAre, NewClaim
<1>2. ASSUME NEW p \in Peers(n), NEW ct \in SealedTo(n, p)', ct.payload.type = "message",
             x = ClaimOf(ct.payload)
      PROVE  x \in ClaimedBy(n) \/ NewClaim(n, x)
  <2>1. CASE ct \in SealedNow(n, p)
    BY <1>2, <2>1 DEF NewClaim
  <2>2. CASE ct \notin SealedNow(n, p)
    BY <1>2, <2>2, SealedBefore, ClaimPlaces DEF ClaimsAre
  <2> QED
    BY <2>1, <2>2
<1>3. ASSUME NEW m \in Node, NEW y \in ShownFrom(n, m)', x = ClaimOf(y)
      PROVE  x \in ClaimedBy(n) \/ NewClaim(n, x)
  <2>1. CASE y \in ShownFrom(n, m)
    BY <1>3, <2>1, ClaimPlaces DEF ClaimsAre
  <2>2. CASE y \notin ShownFrom(n, m)
    BY <1>3, <2>2 DEF NewClaim
  <2> QED
    BY <2>1, <2>2
<1>4. ClaimsAre'
  BY ClaimPlaces, PTL
<1> QED
  BY <1>1, <1>2, <1>3, <1>4 DEF ClaimsAre

(* Claims have the type of claims.                                           *)
LEMMA ClaimTypes ==
  ASSUME ShapesOK, NEW n \in Node, NEW x \in ClaimedBy(n)
  PROVE  x.id \in Ids
<1>1. CASE x \in tracked[n]
  BY <1>1 DEF ShapesOK, HistoriesOK, Claims
<1>2. ASSUME NEW p \in Peers(n), NEW ct \in SealedTo(n, p), ct.payload.type = "message",
             x = ClaimOf(ct.payload)
      PROVE  x.id \in Ids
  <2>1. ct \in Ciphertexts
    BY SlotTypes
  <2>2. ct.payload \in Payloads
    BY <2>1 DEF Ciphertexts
  <2> QED
    BY <1>2, <2>2 DEF ClaimOf, Payloads
<1>3. ASSUME NEW m \in Node, NEW y \in ShownFrom(n, m), x = ClaimOf(y)
      PROVE  x.id \in Ids
  <2>1. PICK i \in 1..Len(inbox[m]) : y = inbox[m][i]
    BY DEF ShownFrom
  <2>2. inbox[m] \in Seq(Entries)
    BY DEF ShapesOK, HistoriesOK
  <2>3. y \in Entries
    BY <2>1, <2>2
  <2> QED
    BY <1>3, <2>3 DEF ClaimOf, Entries
<1> QED
  BY <1>1, <1>2, <1>3, ClaimPlaces DEF ClaimsAre

(* The histories only grow.                                                  *)
Grows ==
    \A n \in Node :
        /\ asked[n] \subseteq asked'[n] /\ tracked[n] \subseteq tracked'[n]
        /\ \A m \in Node : ShownFrom(n, m) \subseteq ShownFrom(n, m)'

(* The new claims of n are about messages and ids that nothing is claimed of.*)
NewClaimsOK(n, x) ==
    /\ x.dm \in asked'[n] /\ x.dm.from = n /\ Spent(n, x.id)'
    /\ \A y \in ClaimedBy(n) : x.dm # y.dm /\ x.id # y.id
    /\ \A y : NewClaim(n, y) => (x.dm = y.dm <=> x.id = y.id)

(* Such claims leave the bijection of messages and ids one.                  *)
LEMMA ClaimsKept ==
  ASSUME ShapesOK, ShapesOK', StepOfKeys, Grows, ClaimsOK,
         \A n \in Node : \A x : NewClaim(n, x) => x \in ClaimedBy(n) \/ NewClaimsOK(n, x)
  PROVE  ClaimsOK'
<1>1. SUFFICES ASSUME NEW n \in Node, NEW x \in ClaimedBy(n)'
               PROVE  /\ x.dm \in asked'[n] /\ x.dm.from = n /\ Spent(n, x.id)'
                      /\ \A y \in ClaimedBy(n)' : x.dm = y.dm <=> x.id = y.id
  BY DEF ClaimsOK
<1>2. ASSUME NEW y \in ClaimedBy(n)'
      PROVE  y \in ClaimedBy(n) \/ (NewClaim(n, y) /\ NewClaimsOK(n, y))
  BY ClaimedNow
<1>3. ASSUME NEW y \in ClaimedBy(n)
      PROVE  y.dm \in asked'[n] /\ y.dm.from = n /\ Spent(n, y.id)'
  <2>1. y.dm \in asked[n] /\ y.dm.from = n /\ Spent(n, y.id) /\ y.id \in Ids
    BY ClaimTypes DEF ClaimsOK
  <2> QED
    BY <2>1, SpentKept DEF Grows
<1>4. x.dm \in asked'[n] /\ x.dm.from = n /\ Spent(n, x.id)'
  BY <1>2, <1>3 DEF NewClaimsOK
<1>5. ASSUME NEW y \in ClaimedBy(n)'
      PROVE  x.dm = y.dm <=> x.id = y.id
  <2>1. CASE x \in ClaimedBy(n) /\ y \in ClaimedBy(n)
    BY <2>1 DEF ClaimsOK
  <2>2. CASE NewClaimsOK(n, x) /\ y \in ClaimedBy(n)
    BY <2>2 DEF NewClaimsOK
  <2>3. CASE NewClaimsOK(n, y) /\ x \in ClaimedBy(n)
    BY <2>3 DEF NewClaimsOK
  <2>4. CASE NewClaimsOK(n, x) /\ NewClaim(n, y)
    BY <2>4 DEF NewClaimsOK
  <2> QED
    BY <1>2, <2>1, <2>2, <2>3, <2>4
<1> QED
  BY <1>4, <1>5

(* What is in flight stays good as long as what is new is good.              *)
LEMMA SealedKept ==
  ASSUME Grows, SealedOK,
         \A n \in Node : \A p \in Peers(n) : \A ct \in SealedNow(n, p) : SealedGood(n, p, ct)'
  PROVE  SealedOK'
<1>1. SUFFICES ASSUME NEW n \in Node, NEW p \in Peers(n), NEW ct \in SealedTo(n, p)',
                      ct \notin SealedNow(n, p)
               PROVE  SealedGood(n, p, ct)'
  BY DEF SealedOK
<1>2. SealedGood(n, p, ct)
  BY <1>1, SealedBefore DEF SealedOK
<1>3. p \in Node
  BY DEF Peers
<1> QED
  BY <1>2, <1>3 DEF SealedGood, Grows

(* A queue is kept, or emptied, or given one more message that was just asked*)
(* for.                                                                      *)
QueueStep(n, p) ==
    \/ session'[n][p].pending = session[n][p].pending
    \/ session'[n][p].pending = <<>>
    \/ \E dm \in asked'[n] \ asked[n] :
          /\ session'[n][p].pending = Append(session[n][p].pending, dm)
          /\ dm.from = n /\ dm.to = p

(* A queue stays unsent if nothing that is in it is claimed now.             *)
LEMMA QueuesKept ==
  ASSUME ShapesOK, Grows, ClaimsOK, QueuesOK,
         NEW n \in Node, NEW p \in Peers(n), QueueStep(n, p),
         \A x : NewClaim(n, x) => x \in ClaimedBy(n)
                   \/ \A i \in 1..Len(session'[n][p].pending) : x.dm # session'[n][p].pending[i]
  PROVE  LET q == session'[n][p].pending
         IN  \A i \in 1..Len(q) :
              /\ q[i] \in asked'[n] /\ q[i].from = n /\ q[i].to = p
              /\ \A j \in 1..Len(q) : q[i] = q[j] => i = j
              /\ \A x \in ClaimedBy(n)' : x.dm # q[i]
<1>1. PICK o : o = session[n][p].pending
  OBVIOUS
<1>2. PICK q : q = session'[n][p].pending
  OBVIOUS
<1>3. o \in Seq(Dms)
  BY <1>1, SlotTypes DEF Sessions
<1>4. \A i \in 1..Len(o) :
        /\ o[i] \in asked[n] /\ o[i].from = n /\ o[i].to = p
        /\ \A j \in 1..Len(o) : o[i] = o[j] => i = j
        /\ \A x \in ClaimedBy(n) : x.dm # o[i]
  BY <1>1 DEF QueuesOK
<1>5. ASSUME NEW i \in 1..Len(q)
      PROVE  /\ q[i] \in asked'[n] /\ q[i].from = n /\ q[i].to = p
             /\ \A j \in 1..Len(q) : q[i] = q[j] => i = j
             /\ \A x \in ClaimedBy(n) : x.dm # q[i]
  <2>1. CASE q = o
    BY <1>4, <2>1 DEF Grows
  <2>2. CASE q = <<>>
    BY <2>2
  <2>3. ASSUME NEW dm \in asked'[n] \ asked[n], q = Append(o, dm), dm.from = n, dm.to = p
        PROVE  /\ q[i] \in asked'[n] /\ q[i].from = n /\ q[i].to = p
               /\ \A j \in 1..Len(q) : q[i] = q[j] => i = j
               /\ \A x \in ClaimedBy(n) : x.dm # q[i]
    <3>1. /\ Len(o) \in Nat /\ Len(q) = Len(o) + 1 /\ q[Len(o) + 1] = dm
          /\ \A j \in 1..Len(o) : q[j] = o[j]
      BY <1>3, <2>3
    <3>2. \A x \in ClaimedBy(n) : x.dm # dm
      BY <2>3 DEF ClaimsOK
    <3>3. \A j \in 1..Len(o) : o[j] # dm
      BY <1>4, <2>3
    <3> QED
      BY <1>4, <2>3, <3>1, <3>2, <3>3 DEF Grows
  <2> QED
    BY <1>1, <1>2, <2>1, <2>2, <2>3 DEF QueueStep
<1>6. ASSUME NEW i \in 1..Len(q), NEW x \in ClaimedBy(n)'
      PROVE  x.dm # q[i]
  BY <1>2, <1>5, ClaimedNow
<1> QED
  BY <1>2, <1>5, <1>6

(* What was shown stays shown, so what was delivered stays so.               *)
LEMMA DeliveredKept ==
  ASSUME Grows, DeliveredOK,
         \A n \in Node : \A x \in delivered'[n] \ delivered[n] :
            /\ x \in tracked'[n]
            /\ \E m \in Node : x.dm.to = m /\ \E y \in ShownFrom(n, m)' : ClaimOf(y) = x
  PROVE  DeliveredOK'
<1>1. SUFFICES ASSUME NEW n \in Node, NEW x \in delivered[n]
               PROVE  /\ x \in tracked'[n]
                      /\ \E m \in Node : x.dm.to = m /\ \E y \in ShownFrom(n, m)' : ClaimOf(y) = x
  BY DEF DeliveredOK
<1>2. /\ x \in tracked[n]
      /\ \E m \in Node : x.dm.to = m /\ \E y \in ShownFrom(n, m) : ClaimOf(y) = x
  BY DEF DeliveredOK
<1> QED
  BY <1>2 DEF Grows

-----------------------------------------------------------------------------
(* Steps that seal nothing.                                                  *)

(* The messages' invariant through a step that shows, tracks and seals       *)
(* nothing new.                                                              *)
LEMMA QuietStep ==
  ASSUME ShapesOK, ShapesOK', StepOfKeys, MessagesInv,
         UNCHANGED <<inbox, tracked, bloom>>, \A n \in Node : asked[n] \subseteq asked'[n],
         \A n \in Node : \A p \in Peers(n) : SealedNow(n, p) = {} /\ QueueStep(n, p),
         \A n \in Node : \A x \in delivered'[n] \ delivered[n] :
            /\ x \in tracked[n]
            /\ \E m \in Node : x.dm.to = m /\ \E y \in ShownFrom(n, m) : ClaimOf(y) = x
  PROVE  MessagesInv'
<1>1. \A n \in Node : \A m \in Node : ShownFrom(n, m)' = ShownFrom(n, m)
  BY DEF ShownFrom
<1>2. Grows
  BY <1>1 DEF Grows
<1>3. \A n \in Node : \A x : ~NewClaim(n, x)
  BY <1>1 DEF NewClaim
<1>4. ClaimsOK'
  BY <1>2, <1>3, ClaimsKept DEF MessagesInv
<1>5. SealedOK'
  BY <1>2, SealedKept DEF MessagesInv
<1>6. QueuesOK'
  <2>1. SUFFICES ASSUME NEW n \in Node, NEW p \in Peers(n)
                 PROVE  LET q == session'[n][p].pending
                        IN  \A i \in 1..Len(q) :
                              /\ q[i] \in asked'[n] /\ q[i].from = n /\ q[i].to = p
                              /\ \A j \in 1..Len(q) : q[i] = q[j] => i = j
                              /\ \A x \in ClaimedBy(n)' : x.dm # q[i]
    BY DEF QueuesOK
  <2> QED
    BY <1>2, <1>3, QueuesKept DEF MessagesInv
<1>7. InboxesOK'
  BY DEF MessagesInv, InboxesOK
<1>8. DeliveredOK'
  BY <1>1, <1>2, DeliveredKept DEF MessagesInv
<1> QED
  BY <1>4, <1>5, <1>6, <1>7, <1>8 DEF MessagesInv

(* A step of one session that sends no ciphertext.                           *)
LEMMA LocalQuietStep ==
  ASSUME IInv, HistoriesOK', NEW n \in Node, NEW p \in Peers(n), NEW t,
         NEW out \in Seq(Packets), Local(n, p, t, out),
         \A a \in Node : ephemerals[a] <= ephemerals'[a],
         SessionGood(n, p, t),
         \/ OwnKey(t) = NoKey \/ Kept(session[n][p], t)
         \/ (OwnKey(t) = Fresh(n) /\ ephemerals'[n] = ephemerals[n] + 1),
         \A x \in Elements(out) :
            /\ x.type # "NoiseEncrypted"
            /\ x.type = "NoiseHandshakeInit" => NoiseGood(n, x.noise),
         UNCHANGED <<inbox, tracked, bloom>>, \A a \in Node : asked[a] \subseteq asked'[a],
         \/ t.pending = session[n][p].pending \/ t.pending = <<>>
         \/ \E dm \in asked'[n] \ asked[n] :
               t.pending = Append(session[n][p].pending, dm) /\ dm.from = n /\ dm.to = p,
         \A a \in Node : \A x \in delivered'[a] \ delivered[a] :
            /\ x \in tracked[a]
            /\ \E m \in Node : x.dm.to = m /\ \E y \in ShownFrom(a, m) : ClaimOf(y) = x
  PROVE  IInv'
<1>1. SlotsOK /\ ShapesOK /\ SessionsOK /\ KeysInv /\ MessagesInv /\ t \in Sessions
  BY DEF IInv, ShapesOK, KeysInv, SessionGood
<1>2. /\ SlotsOK'
      /\ session'[n][p] = t /\ New(n, p) \subseteq Elements(out)
      /\ \A a \in Node : \A b \in Peers(a) : (a # n \/ b # p) =>
            session'[a][b] = session[a][b] /\ New(a, b) = {}
  BY <1>1, LocalStep
<1>3. ShapesOK'
  BY <1>2 DEF ShapesOK
<1>4. StepOfKeys
  BY <1>1, LocalKeyKept
<1>5. KeysInv'
  BY <1>1, <1>3, <1>4, KeysKept
<1>6. \A a \in Node : \A b \in Peers(a) : SealedNow(a, b) = {} /\ QueueStep(a, b)
  <2>1. SealedNow(n, p) = {}
    BY <1>2 DEF SealedNow
  <2>2. QueueStep(n, p)
    BY <1>2 DEF QueueStep
  <2>3. \A a \in Node : \A b \in Peers(a) : (a # n \/ b # p) =>
           SealedNow(a, b) = {} /\ QueueStep(a, b)
    BY <1>2 DEF SealedNow, QueueStep
  <2> QED
    BY <2>1, <2>2, <2>3
<1>7. MessagesInv'
  BY <1>1, <1>3, <1>4, <1>6, QuietStep
<1> QED
  BY <1>3, <1>5, <1>7 DEF IInv

-----------------------------------------------------------------------------
(* The actions.                                                              *)

(* The packets are packets.                                                  *)
LEMMA OutPackets ==
  /\ <<>> \in Seq(Packets) /\ Elements(<<>>) = {}
  /\ \A q \in Packets : <<q>> \in Seq(Packets) /\ Elements(<<q>>) = {q}
  /\ \A msg \in Noises : /\ HandshakePacket(msg) \in Packets
                         /\ HandshakePacket(msg).type = "NoiseHandshakeInit"
                         /\ HandshakePacket(msg).noise = msg
  /\ RequestPacket \in Packets /\ RequestPacket.type = "HandshakeRequest"
  /\ LeavePacket("channel") \in Packets /\ LeavePacket("channel").type = "Leave"
  /\ \A ct \in Ciphertexts : /\ EncryptedPacket(ct) \in Packets
                             /\ EncryptedPacket(ct).type = "NoiseEncrypted"
                             /\ EncryptedPacket(ct).sealed = ct
<1>1. <<>> \in Seq(Packets) /\ Elements(<<>>) = {}
  BY DEF Elements
<1>2. ASSUME NEW q \in Packets PROVE <<q>> \in Seq(Packets) /\ Elements(<<q>>) = {q}
  BY DEF Elements
<1>3. ASSUME NEW msg \in Noises
      PROVE  /\ HandshakePacket(msg) \in Packets
             /\ HandshakePacket(msg).type = "NoiseHandshakeInit"
             /\ HandshakePacket(msg).noise = msg
  BY DEF HandshakePacket, Packets
<1>4. /\ RequestPacket \in Packets /\ RequestPacket.type = "HandshakeRequest"
      /\ LeavePacket("channel") \in Packets /\ LeavePacket("channel").type = "Leave"
  BY DEF RequestPacket, LeavePacket, Packets
<1>5. ASSUME NEW ct \in Ciphertexts
      PROVE  /\ EncryptedPacket(ct) \in Packets
             /\ EncryptedPacket(ct).type = "NoiseEncrypted"
             /\ EncryptedPacket(ct).sealed = ct
  BY DEF EncryptedPacket, Packets
<1> QED
  BY <1>1, <1>2, <1>3, <1>4, <1>5

(* What the invariant says of a packet that arrives.                         *)
LEMMA Arrived ==
  ASSUME IInv, NEW n \in Node, NEW p \in Peers(n), NEW packet, Arrives(p, n, packet)
  PROVE  /\ p \in Node /\ n \in Peers(p) /\ Arrivals(net[p][n]) # {}
         /\ packet.type = "NoiseHandshakeInit" =>
              packet.noise \in Noises /\ NoiseGood(p, packet.noise)
         /\ packet.type = "NoiseEncrypted" =>
              /\ packet.sealed \in Ciphertexts /\ packet.sealed \in SealedTo(p, n)
              /\ packet.sealed.payload \in Payloads /\ SealedGood(p, n, packet.sealed)
<1>1. p \in Node /\ n \in Peers(p)
  BY DEF Peers
<1>2. ShapesOK /\ NoisesOK /\ SealedOK
  BY DEF IInv, KeysInv, MessagesInv
<1>3. net[p][n] \in Media /\ Contents(net[p][n]) \subseteq Packets /\ SealedTo(p, n) \subseteq Ciphertexts
  BY <1>1, <1>2, SlotTypes
<1>4. packet \in Contents(net[p][n]) /\ Arrivals(net[p][n]) # {}
  BY <1>3, MediaContents DEF Arrives
<1>5. packet.type = "NoiseHandshakeInit" => packet.noise \in Noises /\ NoiseGood(p, packet.noise)
  BY <1>1, <1>2, <1>3, <1>4 DEF Packets, NoisesOK
<1>6. ASSUME packet.type = "NoiseEncrypted"
      PROVE  /\ packet.sealed \in Ciphertexts /\ packet.sealed \in SealedTo(p, n)
             /\ packet.sealed.payload \in Payloads /\ SealedGood(p, n, packet.sealed)
  <2>1. packet.sealed \in SealedTo(p, n)
    BY <1>4, <1>6 DEF SealedTo
  <2>2. packet.sealed \in Ciphertexts
    BY <1>3, <2>1
  <2> QED
    BY <1>1, <1>2, <2>1, <2>2 DEF SealedOK, Ciphertexts
<1> QED
  BY <1>1, <1>4, <1>5, <1>6

(* The key that a handshake draws is one of the bounded ones.                *)
LEMMA FreshKey ==
  ASSUME HistoriesOK, NEW n \in Node
  PROVE  /\ Fresh(n).owner = n /\ Fresh(n) # NoKey
         /\ ephemerals[n] < MaxEphemerals => Fresh(n) \in Ephemerals
         /\ UNCHANGED ephemerals =>
              /\ ephemerals' \in [Node -> 0..MaxEphemerals]
              /\ \A a \in Node : ephemerals[a] <= ephemerals'[a]
         /\ ephemerals[n] < MaxEphemerals /\ ephemerals' = [ephemerals EXCEPT ![n] = @ + 1] =>
              /\ ephemerals' \in [Node -> 0..MaxEphemerals]
              /\ ephemerals'[n] = ephemerals[n] + 1
              /\ \A a \in Node : ephemerals[a] <= ephemerals'[a]
<1>1. ephemerals \in [Node -> 0..MaxEphemerals] /\ MaxEphemerals \in Nat
  BY BoundsAssumption DEF HistoriesOK
<1>2. Fresh(n) = [owner |-> n, serial |-> ephemerals[n] + 1] /\ Fresh(n).owner = n
  BY DEF Fresh, Ephemeral
<1>3. ephemerals[n] < MaxEphemerals => ephemerals[n] + 1 \in 1..MaxEphemerals
  BY <1>1
<1>4. ephemerals[n] < MaxEphemerals => Fresh(n) \in Ephemerals
  BY <1>2, <1>3 DEF Ephemerals
<1>5. Fresh(n) # NoKey
  BY <1>2, NoKeyIsNobodys
<1> QED
  BY <1>1, <1>2, <1>4, <1>5

(* What the invariant says of one session.                                   *)
LEMMA OfSession ==
  ASSUME IInv, NEW n \in Node, NEW p \in Peers(n)
  PROVE  /\ SessionGood(n, p, session[n][p]) /\ session[n][p] \in Sessions
         /\ Kept(session[n][p], session[n][p])
         /\ p \in Node /\ SlotsOK /\ HistoriesOK
<1>1. SessionGood(n, p, session[n][p]) /\ SlotsOK /\ HistoriesOK
  BY DEF IInv, KeysInv, SessionsOK, ShapesOK
<1>2. session[n][p] \in Sessions
  BY <1>1 DEF SessionGood
<1>3. session[n][p].send.nonce \in Nat
  BY <1>2 DEF Sessions, Ciphers
<1> QED
  BY <1>1, <1>2, <1>3 DEF Kept, Peers

(* A step that changes no history.                                           *)
LEMMA HistoriesKept ==
  ASSUME HistoriesOK, UNCHANGED <<ephemerals, asked, bloom, inbox, tracked, delivered>>
  PROVE  HistoriesOK'
BY DEF HistoriesOK

(* A step that gives a session up, keeps it or decrypts with it, sends at    *)
(* most a request, and leaves what the user sees alone.                      *)
LEMMA PlainStep ==
  ASSUME IInv, NEW n \in Node, NEW p \in Peers(n), NEW t, NEW out, Local(n, p, t, out),
         t = NoSession \/ t = session[n][p]
           \/ (IsEstablished(session[n][p])
                 /\ \E ct \in Ciphertexts : t = AfterDecryption(session[n][p], ct)),
         out = <<>> \/ out = <<RequestPacket>>,
         UNCHANGED <<ephemerals, asked, bloom, inbox, tracked, delivered>>
  PROVE  IInv'
<1>1. /\ SessionGood(n, p, session[n][p]) /\ session[n][p] \in Sessions
      /\ Kept(session[n][p], session[n][p])
      /\ p \in Node /\ SlotsOK /\ HistoriesOK
  BY OfSession
<1>2. SessionGood(n, p, t) /\ (OwnKey(t) = NoKey \/ Kept(session[n][p], t))
      /\ (t.pending = session[n][p].pending \/ t.pending = <<>>)
  <2>1. CASE t = NoSession
    <3>1. NoSession.pending = <<>>
      BY DEF NoSession
    <3> QED
      BY <2>1, <3>1, NoSessionGood
  <2>2. CASE t = session[n][p]
    BY <1>1, <2>2
  <2>3. ASSUME IsEstablished(session[n][p]), NEW ct \in Ciphertexts,
               t = AfterDecryption(session[n][p], ct)
        PROVE  SessionGood(n, p, t) /\ Kept(session[n][p], t) /\ t.pending = session[n][p].pending
    <3>1. /\ SessionGood(n, p, t) /\ IsEstablished(t) /\ OwnKey(t) = OwnKey(session[n][p])
          /\ t.send = session[n][p].send /\ t.pending = session[n][p].pending
      BY <1>1, <2>3, Decrypting
    <3> QED
      BY <1>1, <3>1 DEF Kept, IsEstablished
  <2> QED
    BY <2>1, <2>2, <2>3
<1>3. /\ out \in Seq(Packets)
      /\ \A x \in Elements(out) : x.type # "NoiseEncrypted" /\ x.type # "NoiseHandshakeInit"
  <2>1. CASE out = <<>>
    BY <2>1, OutPackets
  <2>2. CASE out = <<RequestPacket>>
    <3>1. out \in Seq(Packets) /\ Elements(out) = {RequestPacket}
      BY <2>2, OutPackets
    <3> QED
      BY <3>1, OutPackets
  <2> QED
    BY <2>1, <2>2
<1>4. HistoriesOK' /\ \A a \in Node : ephemerals[a] <= ephemerals'[a]
  BY <1>1, HistoriesKept, FreshKey
<1>5. /\ \A a \in Node : asked[a] \subseteq asked'[a]
      /\ \A a \in Node : \A x \in delivered'[a] \ delivered[a] :
            /\ x \in tracked[a]
            /\ \E m \in Node : x.dm.to = m /\ \E y \in ShownFrom(a, m) : ClaimOf(y) = x
  OBVIOUS
<1>6. UNCHANGED <<inbox, tracked, bloom>>
  OBVIOUS
<1> QED
  BY <1>2, <1>3, <1>4, <1>5, <1>6, LocalQuietStep

(* A ciphertext that finds no session removes what there is.                 *)
LEMMA EncryptedWithoutSessionStep ==
  ASSUME IInv, NEW n \in Node, NEW p \in Peers(n), NEW packet,
         HandleEncryptedWithoutSession(n, p, packet)
  PROVE  IInv'
<1>1. Arrivals(net[p][n]) # {}
  BY Arrived DEF HandleEncryptedWithoutSession
<1>2. PICK sent \in SendOutcomes : Exchange(n, p, IF sent THEN <<RequestPacket>> ELSE <<>>)
  BY DEF HandleEncryptedWithoutSession, SendHandshakeRequest
<1>3. Local(n, p, NoSession, IF sent THEN <<RequestPacket>> ELSE <<>>)
  BY <1>1, <1>2 DEF HandleEncryptedWithoutSession, Local, RemoveSession
<1>4. UNCHANGED <<ephemerals, asked, bloom, inbox, tracked, delivered>>
  BY DEF HandleEncryptedWithoutSession, uiVars
<1> QED
  BY <1>3, <1>4, PlainStep

(* A ciphertext that does not open changes nothing but the medium.           *)
LEMMA UnreadableStep ==
  ASSUME IInv, NEW n \in Node, NEW p \in Peers(n), NEW packet, HandleUnreadable(n, p, packet)
  PROVE  IInv'
<1>1. Arrivals(net[p][n]) # {}
  BY Arrived DEF HandleUnreadable
<1>2. Local(n, p, session[n][p], <<>>)
  BY <1>1 DEF HandleUnreadable, Local
<1>3. UNCHANGED <<ephemerals, asked, bloom, inbox, tracked, delivered>>
  BY DEF HandleUnreadable, uiVars
<1> QED
  BY <1>2, <1>3, PlainStep

(* A Leave packet removes the session.                                       *)
LEMMA LeaveStep ==
  ASSUME IInv, NEW n \in Node, NEW p \in Peers(n), NEW packet, HandleLeave(n, p, packet)
  PROVE  IInv'
<1>1. Arrivals(net[p][n]) # {}
  BY Arrived DEF HandleLeave
<1>2. Local(n, p, NoSession, <<>>)
  BY <1>1 DEF HandleLeave, Local, RemoveSession
<1>3. UNCHANGED <<ephemerals, asked, bloom, inbox, tracked, delivered>>
  BY DEF HandleLeave, uiVars
<1> QED
  BY <1>2, <1>3, PlainStep

(* A RequestSync sends a request, and leaves the session as it is.           *)
LEMMA RequestSyncStep ==
  ASSUME IInv, NEW n \in Node, NEW p \in Peers(n), HandleRequestSync(n, p)
  PROVE  IInv'
<1>1. PICK sent \in SendOutcomes : Emit(n, p, IF sent THEN <<RequestPacket>> ELSE <<>>)
  BY DEF HandleRequestSync
<1>2. Local(n, p, session[n][p], IF sent THEN <<RequestPacket>> ELSE <<>>)
  BY <1>1 DEF HandleRequestSync, Local
<1>3. UNCHANGED <<ephemerals, asked, bloom, inbox, tracked, delivered>>
  BY DEF HandleRequestSync, uiVars
<1> QED
  BY <1>2, <1>3, PlainStep

(* A request for a handshake starts one if there is no session.              *)
LEMMA HandshakeRequestStep ==
  ASSUME IInv, NEW n \in Node, NEW p \in Peers(n), NEW packet,
         HandleHandshakeRequest(n, p, packet)
  PROVE  IInv'
<1> DEFINE s == CreateSession(NoSession, "Initiator")
           t == InitiateHandshake(s, Fresh(n))
<1>1. /\ SessionGood(n, p, session[n][p]) /\ session[n][p] \in Sessions
      /\ SlotsOK /\ HistoriesOK
  BY OfSession
<1>2. Arrivals(net[p][n]) # {}
  BY Arrived DEF HandleHandshakeRequest
<1>3. UNCHANGED <<asked, bloom, inbox, tracked, delivered>>
  BY DEF HandleHandshakeRequest, uiVars
<1>4. CASE ~HasSession(session[n][p]) /\ n < p
  <2>1. /\ ephemerals[n] < MaxEphemerals /\ ephemerals' = [ephemerals EXCEPT ![n] = @ + 1]
        /\ Becomes(n, p, t)
    BY <1>4 DEF HandleHandshakeRequest
  <2>2. PICK sent \in SendOutcomes :
           Exchange(n, p, IF sent THEN <<HandshakePacket(WrittenMessage(s.handshake, Fresh(n)))>>
                          ELSE <<>>)
    BY <1>4 DEF HandleHandshakeRequest
  <2>3. /\ Fresh(n) \in Ephemerals /\ Fresh(n).owner = n
        /\ ephemerals' \in [Node -> 0..MaxEphemerals]
        /\ ephemerals'[n] = ephemerals[n] + 1
        /\ \A a \in Node : ephemerals[a] <= ephemerals'[a]
    BY <1>1, <2>1, FreshKey
  <2>4. /\ NoSession \in Sessions /\ ~IsEstablished(NoSession) /\ NoSession.pending = <<>>
        /\ <<>> \in Seq(Dms)
    BY NoSessionGood DEF SessionGood, IsEstablished, NoSession
  <2>5. PICK hs : hs = NewHandshake("Initiator")
    OBVIOUS
  <2>6. s = [NoSession EXCEPT !.state = "Handshaking", !.handshake = hs] /\ hs \in Handshakes
    BY <2>4, <2>5, NoKeyIsNobodys DEF CreateSession, NewHandshake, Handshakes, Patterns
  <2>7. s \in Sessions /\ s.state = "Handshaking" /\ s.handshake = hs /\ s.pending = <<>>
    BY <2>4, <2>6 DEF Sessions
  <2> HIDE DEF s
  <2>8. /\ SessionGood(n, p, t) /\ OwnKey(t) = Fresh(n) /\ t.pending = <<>>
        /\ WrittenMessage(s.handshake, Fresh(n)) \in Noises
        /\ NoiseGood(n, WrittenMessage(s.handshake, Fresh(n)))
    BY <2>3, <2>5, <2>7, Starting
  <2> HIDE DEF t
  <2>9. PICK out : out = IF sent THEN <<HandshakePacket(WrittenMessage(s.handshake, Fresh(n)))>>
                         ELSE <<>>
    OBVIOUS
  <2>10. /\ out \in Seq(Packets)
        /\ \A x \in Elements(out) : x.type = "NoiseHandshakeInit" /\ NoiseGood(n, x.noise)
    BY <2>8, <2>9, OutPackets
  <2>11. Local(n, p, t, out)
    BY <1>2, <2>1, <2>2, <2>9 DEF Local
  <2>12. HistoriesOK'
    BY <1>1, <1>3, <2>3 DEF HistoriesOK
  <2> QED
    BY <1>3, <2>3, <2>8, <2>10, <2>11, <2>12, LocalQuietStep
<1>5. CASE ~(~HasSession(session[n][p]) /\ n < p)
  <2>1. Exchange(n, p, <<>>) /\ session' = session /\ ephemerals' = ephemerals
    BY <1>5 DEF HandleHandshakeRequest
  <2>2. Local(n, p, session[n][p], <<>>)
    BY <1>2, <2>1 DEF Local
  <2> QED
    BY <1>3, <2>1, <2>2, PlainStep
<1> QED
  BY <1>4, <1>5

(* What a user asks for.                                                     *)
LEMMA Asking ==
  ASSUME HistoriesOK, NEW n \in Node, NEW p \in Peers(n), NEW dm, Ask(n, p, dm)
  PROVE  /\ dm \in Dms /\ dm.from = n /\ dm.to = p /\ dm \in asked'[n] \ asked[n]
         /\ asked' \in [Node -> SUBSET Dms]
         /\ \A a \in Node : asked[a] \subseteq asked'[a]
         /\ UNCHANGED <<bloom, inbox, delivered>>
<1>1. PICK k \in 1..MaxDms : dm = Dm(n, p, k)
  BY DEF Ask
<1>2. <<n, p>> \in Pair
  BY DEF Pair, Peers
<1>3. dm \in Dms
  <2>1. PICK pr \in Pair : pr = <<n, p>>
    BY <1>2
  <2> QED
    BY <1>1, <2>1 DEF Dms
<1>4. dm.from = n /\ dm.to = p
  BY <1>1 DEF Dm
<1>5. dm \notin asked[n] /\ asked' = [asked EXCEPT ![n] = @ \cup {dm}]
      /\ UNCHANGED <<bloom, inbox, delivered>>
  BY DEF Ask
<1> QED
  BY <1>3, <1>4, <1>5 DEF HistoriesOK

(* A message that has to wait is queued, and the handshake is begun or       *)
(* interrupted.                                                              *)
LEMMA StartStep ==
  ASSUME IInv, NEW n \in Node, NEW p \in Peers(n), NEW dm, Ask(n, p, dm),
         NEW s \in Sessions, StartHandshake(n, p, s),
         s.pending = Append(session[n][p].pending, dm),
         \/ s.state = "Handshaking" /\ s.handshake = NewHandshake("Initiator")
         \/ s.state = "Handshaking" /\ HandshakeGood(n, p, s.handshake)
  PROVE  IInv'
<1>1. /\ SessionGood(n, p, session[n][p]) /\ session[n][p] \in Sessions
      /\ SlotsOK /\ HistoriesOK
  BY OfSession
<1>2. /\ dm \in Dms /\ dm.from = n /\ dm.to = p /\ dm \in asked'[n] \ asked[n]
      /\ asked' \in [Node -> SUBSET Dms]
      /\ \A a \in Node : asked[a] \subseteq asked'[a]
      /\ UNCHANGED <<bloom, inbox, delivered>>
  BY <1>1, Asking
<1>3. \A a \in Node : \A x \in delivered'[a] \ delivered[a] :
            /\ x \in tracked[a]
            /\ \E m \in Node : x.dm.to = m /\ \E y \in ShownFrom(a, m) : ClaimOf(y) = x
  BY <1>2
<1>4. s.pending \in Seq(Dms)
  BY DEF Sessions
<1>5. CASE s.state = "Handshaking" /\ s.handshake = NewHandshake("Initiator")
  <2>1. NewHandshake("Initiator").current_pattern = 0
    BY DEF NewHandshake
  <2>2. CanWrite(s.handshake)
    BY <1>5, <2>1 DEF CanWrite
  <2>3. PICK t : t = InitiateHandshake(s, Fresh(n))
    OBVIOUS
  <2>4. PICK q : q = HandshakePacket(WrittenMessage(s.handshake, Fresh(n)))
    OBVIOUS
  <2>5. PICK sent \in SendOutcomes : Emit(n, p, IF sent THEN <<q>> ELSE <<>>)
    BY <2>2, <2>4 DEF StartHandshake
  <2>6. PICK out : out = IF sent THEN <<q>> ELSE <<>>
    OBVIOUS
  <2>7. /\ ephemerals[n] < MaxEphemerals /\ ephemerals' = [ephemerals EXCEPT ![n] = @ + 1]
        /\ Local(n, p, t, out) /\ UNCHANGED tracked
    BY <2>2, <2>3, <2>5, <2>6 DEF StartHandshake, Local
  <2>8. /\ Fresh(n) \in Ephemerals /\ Fresh(n).owner = n
        /\ ephemerals' \in [Node -> 0..MaxEphemerals]
        /\ ephemerals'[n] = ephemerals[n] + 1
        /\ \A a \in Node : ephemerals[a] <= ephemerals'[a]
    BY <1>1, <2>7, FreshKey
  <2>9. /\ SessionGood(n, p, t) /\ OwnKey(t) = Fresh(n) /\ t.pending = s.pending
        /\ WrittenMessage(s.handshake, Fresh(n)) \in Noises
        /\ NoiseGood(n, WrittenMessage(s.handshake, Fresh(n)))
    BY <1>5, <2>3, <2>8, Starting
  <2>10. /\ q \in Packets /\ q.type = "NoiseHandshakeInit" /\ NoiseGood(n, q.noise)
    BY <2>4, <2>9, OutPackets
  <2>11. /\ out \in Seq(Packets)
         /\ \A x \in Elements(out) : x.type # "NoiseEncrypted" /\ NoiseGood(n, x.noise)
    BY <2>6, <2>10, OutPackets
  <2>12. HistoriesOK'
    BY <1>1, <1>2, <2>7, <2>8 DEF HistoriesOK
  <2>13. UNCHANGED <<inbox, tracked, bloom>>
    BY <1>2, <2>7
  <2>14. \E d \in asked'[n] \ asked[n] :
            t.pending = Append(session[n][p].pending, d) /\ d.from = n /\ d.to = p
    BY <1>2, <2>9
  <2> QED
    BY <1>2, <1>3, <2>7, <2>8, <2>9, <2>11, <2>12, <2>13, <2>14, LocalQuietStep
<1>6. CASE s.state = "Handshaking" /\ HandshakeGood(n, p, s.handshake)
  <2>1. PICK t : t = InitiateHandshake(s, NoKey)
    OBVIOUS
  <2>2. /\ ~CanWrite(s.handshake) /\ SessionGood(n, p, t) /\ OwnKey(t) = NoKey
        /\ t.pending = s.pending
    BY <1>6, <2>1, Interrupting
  <2>3. Becomes(n, p, t) /\ UNCHANGED <<ephemerals, net, tracked>>
    BY <2>1, <2>2 DEF StartHandshake
  <2>4. Local(n, p, t, <<>>)
    BY <2>3 DEF Local
  <2>5. \A a \in Node : ephemerals[a] <= ephemerals'[a]
    BY <1>1, <2>3, FreshKey
  <2>6. HistoriesOK'
    BY <1>1, <1>2, <2>3 DEF HistoriesOK
  <2>7. \E d \in asked'[n] \ asked[n] :
            t.pending = Append(session[n][p].pending, d) /\ d.from = n /\ d.to = p
    BY <1>2, <2>2
  <2>8. <<>> \in Seq(Packets) /\ Elements(<<>>) = {}
    BY OutPackets
  <2>9. UNCHANGED <<inbox, tracked, bloom>>
    BY <1>2, <2>3
  <2> QED
    BY <1>2, <1>3, <2>2, <2>4, <2>5, <2>6, <2>7, <2>8, <2>9, LocalQuietStep
<1> QED
  BY <1>5, <1>6

-----------------------------------------------------------------------------
(* Steps that seal messages.                                                 *)

(* A message that n seals in a step is one that nobody has seen, and waits   *)
(* in no queue any more.                                                     *)
SealsMessage(n, p, t, ct) ==
    /\ SealsNow(session[n][p], t, ct)
    /\ ct.payload.type = "message" /\ ct.payload.id = MessageId(ct)
    /\ ct.payload.dm.from = n /\ ct.payload.dm.to = p /\ ct.payload.dm \in asked'[n]
    /\ \A x \in ClaimedBy(n) : x.dm # ct.payload.dm
    /\ \A i \in 1..Len(t.pending) : t.pending[i] # ct.payload.dm

(* ... and every one of them another.                                        *)
DistinctMessages(out) ==
    \A x, y \in Elements(out) :
        x.type = "NoiseEncrypted" /\ y.type = "NoiseEncrypted"
          /\ (x.sealed.nonce = y.sealed.nonce \/ x.sealed.payload.dm = y.sealed.payload.dm)
        => x.sealed = y.sealed

(* A step of one session that seals only such messages.                      *)
LEMMA SealingStep ==
  ASSUME IInv, HistoriesOK', NEW n \in Node, NEW p \in Peers(n), NEW t,
         NEW out \in Seq(Packets), Local(n, p, t, out),
         \A a \in Node : ephemerals[a] <= ephemerals'[a],
         SessionGood(n, p, t),
         \/ OwnKey(t) = NoKey \/ Kept(session[n][p], t)
         \/ (OwnKey(t) = Fresh(n) /\ ephemerals'[n] = ephemerals[n] + 1),
         \A x \in Elements(out) :
            /\ x.type = "NoiseEncrypted" => SealsMessage(n, p, t, x.sealed)
            /\ x.type = "NoiseHandshakeInit" => NoiseGood(n, x.noise),
         DistinctMessages(out),
         UNCHANGED <<inbox, bloom, delivered>>,
         \A a \in Node : asked[a] \subseteq asked'[a] /\ tracked[a] \subseteq tracked'[a],
         \A a \in Node : \A x \in tracked'[a] \ tracked[a] :
            a = n /\ \E y \in Elements(out) :
                        y.type = "NoiseEncrypted" /\ x = ClaimOf(y.sealed.payload),
         t.pending = session[n][p].pending \/ t.pending = <<>>
  PROVE  IInv'
<1>1. SlotsOK /\ ShapesOK /\ SessionsOK /\ KeysInv /\ MessagesInv /\ t \in Sessions
  BY DEF IInv, ShapesOK, KeysInv, SessionGood
<1>2. /\ SlotsOK'
      /\ session'[n][p] = t /\ New(n, p) \subseteq Elements(out)
      /\ \A a \in Node : \A b \in Peers(a) : (a # n \/ b # p) =>
            session'[a][b] = session[a][b] /\ New(a, b) = {}
  BY <1>1, LocalStep
<1>3. ShapesOK'
  BY <1>2 DEF ShapesOK
<1>4. StepOfKeys
  BY <1>1, LocalKeyKept DEF SealsMessage, DistinctMessages
<1>5. KeysInv'
  BY <1>1, <1>3, <1>4, KeysKept
<1>6. \A a \in Node : \A m \in Node : ShownFrom(a, m)' = ShownFrom(a, m)
  BY DEF ShownFrom
<1>7. Grows
  BY <1>6 DEF Grows
<1>8. /\ \A ct \in SealedNow(n, p) : \E y \in Elements(out) : y.type = "NoiseEncrypted" /\ ct = y.sealed
      /\ \A a \in Node : \A b \in Peers(a) : (a # n \/ b # p) => SealedNow(a, b) = {}
  BY <1>2 DEF SealedNow
<1>9. ASSUME NEW a \in Node, NEW x, NewClaim(a, x)
      PROVE  a = n /\ \E y \in Elements(out) :
                        y.type = "NoiseEncrypted" /\ x = ClaimOf(y.sealed.payload)
  BY <1>6, <1>8, <1>9 DEF NewClaim
<1>10. ASSUME NEW y \in Elements(out), y.type = "NoiseEncrypted",
              NEW x, x = ClaimOf(y.sealed.payload)
       PROVE  NewClaimsOK(n, x) /\ \A i \in 1..Len(t.pending) : x.dm # t.pending[i]
  <2>1. PICK ct : ct = y.sealed
    OBVIOUS
  <2>2. /\ SealsNow(session[n][p], t, ct)
        /\ ct.payload.id = MessageId(ct)
        /\ ct.payload.dm.from = n /\ ct.payload.dm \in asked'[n]
        /\ \A z \in ClaimedBy(n) : z.dm # ct.payload.dm
        /\ \A i \in 1..Len(t.pending) : t.pending[i] # ct.payload.dm
    BY <1>10, <2>1 DEF SealsMessage
  <2>3. x.dm = ct.payload.dm /\ x.id = MessageId(ct)
    BY <1>10, <2>1, <2>2 DEF ClaimOf
  <2>4. SealsNow(session[n][p], session'[n][p], ct) /\ OwnKeysOK'
    BY <1>2, <1>5, <2>2 DEF KeysInv
  <2>5. /\ Spent(n, x.id)' /\ OwnKey(session'[n][p]) = SenderKey(ct.key)
        /\ SenderKey(ct.key) # NoKey
    BY <1>3, <1>4, <2>3, <2>4, SealedIsSpent
  <2>6. ASSUME NEW z \in ClaimedBy(n)
        PROVE  x.id # z.id
    <3>1. Spent(n, z.id) /\ z.id \in Ids
      BY <1>1, ClaimTypes DEF MessagesInv, ClaimsOK
    <3> QED
      BY <1>1, <1>3, <1>4, <2>3, <2>4, <2>5, <3>1, SealedIsNew
  <2>7. ASSUME NEW z, NewClaim(n, z)
        PROVE  x.dm = z.dm <=> x.id = z.id
    <3>1. PICK w \in Elements(out) : w.type = "NoiseEncrypted" /\ z = ClaimOf(w.sealed.payload)
      BY <1>9, <2>7
    <3>2. w.sealed.payload.id = MessageId(w.sealed)
      BY <3>1 DEF SealsMessage
    <3>3. z.dm = w.sealed.payload.dm /\ z.id = MessageId(w.sealed)
      BY <3>1, <3>2 DEF ClaimOf
    <3>4. x.dm = z.dm => x.id = z.id
      BY <1>10, <2>1, <2>3, <3>1, <3>3 DEF DistinctMessages
    <3>5. x.id = z.id => ct.nonce = w.sealed.nonce
      BY <2>3, <3>3 DEF MessageId
    <3>6. x.id = z.id => x.dm = z.dm
      BY <1>10, <2>1, <2>3, <3>1, <3>3, <3>5 DEF DistinctMessages
    <3> QED
      BY <3>4, <3>6
  <2> QED
    BY <2>2, <2>3, <2>5, <2>6, <2>7 DEF NewClaimsOK
<1>11. ClaimsOK'
  BY <1>1, <1>3, <1>4, <1>7, <1>9, <1>10, ClaimsKept DEF MessagesInv
<1>12. SealedOK'
  <2>1. ASSUME NEW ct \in SealedNow(n, p)
        PROVE  SealedGood(n, p, ct)'
    BY <1>8 DEF SealsMessage, SealedGood
  <2> QED
    BY <1>1, <1>7, <1>8, <2>1, SealedKept DEF MessagesInv
<1>13. QueuesOK'
  <2>1. SUFFICES ASSUME NEW a \in Node, NEW b \in Peers(a)
                 PROVE  LET q == session'[a][b].pending
                        IN  \A i \in 1..Len(q) :
                              /\ q[i] \in asked'[a] /\ q[i].from = a /\ q[i].to = b
                              /\ \A j \in 1..Len(q) : q[i] = q[j] => i = j
                              /\ \A x \in ClaimedBy(a)' : x.dm # q[i]
    BY DEF QueuesOK
  <2>2. QueueStep(a, b)
    BY <1>2 DEF QueueStep
  <2>3. ASSUME NEW x, NewClaim(a, x)
        PROVE  \A i \in 1..Len(session'[a][b].pending) : x.dm # session'[a][b].pending[i]
    <3>1. a = n
      BY <1>9, <2>3
    <3>2. PICK y \in Elements(out) : y.type = "NoiseEncrypted" /\ x = ClaimOf(y.sealed.payload)
      BY <1>9, <2>3
    <3>3. CASE b = p
      BY <1>2, <1>10, <3>1, <3>2, <3>3
    <3>4. CASE b # p
      <4>1. session'[a][b] = session[a][b]
        BY <1>2, <3>4
      <4>2. \A i \in 1..Len(session[a][b].pending) : session[a][b].pending[i].to = b
        BY <1>1 DEF MessagesInv, QueuesOK
      <4>3. x.dm.to = p
        BY <3>2 DEF SealsMessage, ClaimOf
      <4> QED
        BY <3>4, <4>1, <4>2, <4>3
    <3> QED
      BY <3>3, <3>4
  <2> QED
    BY <1>1, <1>7, <2>2, <2>3, QueuesKept DEF MessagesInv
<1>14. InboxesOK'
  BY <1>1 DEF MessagesInv, InboxesOK
<1>15. DeliveredOK'
  BY <1>1, <1>7, DeliveredKept DEF MessagesInv
<1> QED
  BY <1>3, <1>5, <1>11, <1>12, <1>13, <1>14, <1>15 DEF IInv, MessagesInv

(* A message on an established session is sealed under the next nonce.       *)
LEMMA SendStep ==
  ASSUME IInv, NEW n \in Node, NEW p \in Peers(n), NEW dm, Ask(n, p, dm),
         IsEstablished(session[n][p]), SendEncrypted(n, p, dm)
  PROVE  IInv'
<1>1. /\ SessionGood(n, p, session[n][p]) /\ session[n][p] \in Sessions
      /\ SlotsOK /\ HistoriesOK /\ ClaimsOK /\ QueuesOK
  BY OfSession DEF IInv, MessagesInv
<1>2. /\ dm \in Dms /\ dm.from = n /\ dm.to = p /\ dm \in asked'[n] \ asked[n]
      /\ asked' \in [Node -> SUBSET Dms]
      /\ \A a \in Node : asked[a] \subseteq asked'[a]
      /\ UNCHANGED <<bloom, inbox, delivered>>
  BY <1>1, Asking
<1>3. PICK s : s = session[n][p]
  OBVIOUS
<1>4. PICK ct : ct = PrivateMessage(s.send, dm)
  OBVIOUS
<1>5. PICK t : t = AfterEncryption(s)
  OBVIOUS
<1>6. PICK x : x = [dm |-> dm, id |-> MessageId(s.send)]
  OBVIOUS
<1>7. /\ Becomes(n, p, t)
      /\ UNCHANGED ephemerals
      /\ \E sent \in SendOutcomes :
           /\ Emit(n, p, IF sent THEN <<EncryptedPacket(ct)>> ELSE <<>>)
           /\ tracked' = IF sent THEN [tracked EXCEPT ![n] = @ \cup {x}] ELSE tracked
  BY <1>3, <1>4, <1>5, <1>6 DEF SendEncrypted
<1>8. PICK sent \in SendOutcomes :
        /\ Emit(n, p, IF sent THEN <<EncryptedPacket(ct)>> ELSE <<>>)
        /\ tracked' = IF sent THEN [tracked EXCEPT ![n] = @ \cup {x}] ELSE tracked
  BY <1>7
<1>9. PICK out : out = IF sent THEN <<EncryptedPacket(ct)>> ELSE <<>>
  OBVIOUS
<1>10. Local(n, p, t, out)
  BY <1>7, <1>8, <1>9 DEF Local
<1>11. s.send \in Ciphers /\ s.send.nonce \in Nat
  BY <1>1, <1>3 DEF Sessions, Ciphers
<1>12. /\ ct \in Ciphertexts /\ ct.key = s.send.key /\ ct.nonce = s.send.nonce
       /\ ct.payload.type = "message" /\ ct.payload.dm = dm
       /\ ct.payload.id = MessageId(s.send) /\ MessageId(ct) = MessageId(s.send)
       /\ MessageId(s.send) \in Ids
  BY <1>2, <1>4, <1>11, SealingMessage
<1>13. /\ SessionGood(n, p, t) /\ IsEstablished(t) /\ OwnKey(t) = OwnKey(s)
       /\ t.send.key = s.send.key /\ t.send.nonce = s.send.nonce + 1
       /\ t.pending = s.pending
  BY <1>1, <1>3, <1>5, Encrypting
<1>14. Kept(session[n][p], t)
  BY <1>3, <1>11, <1>13 DEF Kept, IsEstablished
<1>15. SealsNow(session[n][p], t, ct)
  BY <1>3, <1>11, <1>12, <1>13 DEF SealsNow, IsEstablished
<1>16. SealsMessage(n, p, t, ct)
  <2>1. \A y \in ClaimedBy(n) : y.dm # dm
    BY <1>1, <1>2 DEF ClaimsOK
  <2>2. \A i \in 1..Len(t.pending) : t.pending[i] # dm
    BY <1>1, <1>2, <1>3, <1>13 DEF QueuesOK
  <2> QED
    BY <1>2, <1>12, <1>15, <2>1, <2>2 DEF SealsMessage
<1>17. /\ out \in Seq(Packets)
       /\ \A y \in Elements(out) : y.type = "NoiseEncrypted" /\ y.sealed = ct /\ sent
       /\ sent => \E y \in Elements(out) : y.type = "NoiseEncrypted" /\ y.sealed = ct
  <2>1. CASE sent
    BY <1>9, <1>12, <2>1, OutPackets
  <2>2. CASE ~sent
    BY <1>9, <2>2, OutPackets
  <2> QED
    BY <2>1, <2>2
<1>18. DistinctMessages(out)
  BY <1>17 DEF DistinctMessages
<1>19. x = ClaimOf(ct.payload) /\ x \in Claims
  BY <1>2, <1>6, <1>12 DEF ClaimOf, Claims
<1>20. /\ tracked' \in [Node -> SUBSET Claims]
       /\ \A a \in Node : tracked[a] \subseteq tracked'[a]
       /\ \A a \in Node : \A y \in tracked'[a] \ tracked[a] : a = n /\ y = x /\ sent
  <2>1. CASE sent
    BY <1>1, <1>8, <1>19, <2>1 DEF HistoriesOK
  <2>2. CASE ~sent
    BY <1>1, <1>8, <2>2 DEF HistoriesOK
  <2> QED
    BY <2>1, <2>2
<1>21. HistoriesOK'
  BY <1>1, <1>2, <1>7, <1>20 DEF HistoriesOK
<1>22. \A a \in Node : ephemerals[a] <= ephemerals'[a]
  BY <1>1, <1>7, FreshKey
<1>23. \A y \in Elements(out) :
            /\ y.type = "NoiseEncrypted" => SealsMessage(n, p, t, y.sealed)
            /\ y.type = "NoiseHandshakeInit" => NoiseGood(n, y.noise)
  BY <1>16, <1>17
<1>24. \A a \in Node : \A y \in tracked'[a] \ tracked[a] :
            a = n /\ \E z \in Elements(out) :
                        z.type = "NoiseEncrypted" /\ y = ClaimOf(z.sealed.payload)
  BY <1>17, <1>19, <1>20
<1>25. \A a \in Node : asked[a] \subseteq asked'[a] /\ tracked[a] \subseteq tracked'[a]
  BY <1>2, <1>20
<1> QED
  BY <1>2, <1>3, <1>10, <1>13, <1>14, <1>17, <1>18, <1>21, <1>22, <1>23, <1>24, <1>25, SealingStep

(* A message that has to wait: the session that stores it is a new one, or   *)
(* one whose handshake is in progress.                                       *)
Waits(n, p, dm, s) ==
    /\ s.pending = Append(session[n][p].pending, dm) /\ s.state = "Handshaking"
    /\ s.handshake = NewHandshake("Initiator") \/ HandshakeGood(n, p, s.handshake)

(* A user's message, typed in a private chat or given to /dm, is sent or     *)
(* waits.                                                                    *)
LEMMA UserChoice ==
  ASSUME IInv, NEW n \in Node, NEW p \in Peers(n), UserSends(n, p)
  PROVE  \E dm : /\ Ask(n, p, dm)
                 /\ \/ IsEstablished(session[n][p]) /\ SendEncrypted(n, p, dm)
                    \/ /\ ~IsEstablished(session[n][p])
                       /\ \E s \in Sessions : StartHandshake(n, p, s) /\ Waits(n, p, dm, s)
<1>1. /\ SessionGood(n, p, session[n][p]) /\ session[n][p] \in Sessions /\ HistoriesOK
  BY OfSession
<1>2. PICK dm : ChatMessage(n, p, dm) \/ SlashDm(n, p, dm)
  BY DEF UserSends
<1>3. Ask(n, p, dm)
  BY <1>2 DEF ChatMessage, SlashDm
<1>4. dm \in Dms
  BY <1>1, <1>3, Asking
<1>5. CASE IsEstablished(session[n][p])
  <2>1. SendEncrypted(n, p, dm)
    BY <1>2, <1>5 DEF ChatMessage, SlashDm
  <2> QED
    BY <1>3, <1>5, <2>1
<1>6. PICK hs : hs = NewHandshake("Initiator")
  OBVIOUS
<1>7. hs \in Handshakes
  BY <1>6, NoKeyIsNobodys DEF NewHandshake, Handshakes, Patterns
<1>8. ASSUME NEW s \in Sessions, ~IsEstablished(s), NEW t,
             t = StorePending(CreateSession(s, "Initiator"), dm)
      PROVE  /\ t \in Sessions /\ t.state = "Handshaking" /\ t.handshake = hs
             /\ t.pending = Append(s.pending, dm)
  <2>1. PICK u : u = [s EXCEPT !.state = "Handshaking", !.handshake = hs]
    OBVIOUS
  <2>2. u \in Sessions /\ u.state = "Handshaking" /\ u.handshake = hs /\ u.pending = s.pending
    BY <1>7, <2>1 DEF Sessions
  <2>3. t = [u EXCEPT !.pending = Append(@, dm)]
    BY <1>6, <1>8, <2>1 DEF StorePending, CreateSession
  <2>4. s.pending \in Seq(Dms)
    BY DEF Sessions
  <2>5. Append(s.pending, dm) \in Seq(Dms)
    BY <1>4, <2>4
  <2> QED
    BY <2>2, <2>3, <2>5 DEF Sessions
<1>9. CASE ~IsEstablished(session[n][p])
  <2>1. CASE ChatMessage(n, p, dm)
    <3>1. PICK t : t = StorePending(CreateSession(session[n][p], "Initiator"), dm)
      OBVIOUS
    <3>2. StartHandshake(n, p, t)
      BY <1>9, <2>1, <3>1 DEF ChatMessage
    <3> QED
      BY <1>1, <1>3, <1>6, <1>8, <1>9, <3>1, <3>2 DEF Waits
  <2>2. CASE SlashDm(n, p, dm) /\ ~HasSession(session[n][p])
    <3>1. session[n][p] = NoSession
      BY <1>1, <2>2 DEF SessionGood, HasSession
    <3>2. PICK t : t = StorePending(CreateSession(NoSession, "Initiator"), dm)
      OBVIOUS
    <3>3. StartHandshake(n, p, t)
      BY <1>9, <2>2, <3>2 DEF SlashDm
    <3> QED
      BY <1>1, <1>3, <1>6, <1>8, <1>9, <3>1, <3>2, <3>3 DEF Waits
  <2>3. CASE SlashDm(n, p, dm) /\ HasSession(session[n][p])
    <3>1. PICK o \in Sessions : o = session[n][p]
      BY <1>1
    <3>2. o.state = "Handshaking" /\ HandshakeGood(n, p, o.handshake)
      BY <1>1, <1>9, <2>3, <3>1 DEF SessionGood, HasSession, IsEstablished, Sessions
    <3>3. PICK t : t = StorePending(o, dm)
      OBVIOUS
    <3>4. StartHandshake(n, p, t)
      BY <1>9, <2>3, <3>1, <3>3 DEF SlashDm
    <3>5. o.pending \in Seq(Dms)
      BY DEF Sessions
    <3>6. Append(o.pending, dm) \in Seq(Dms)
      BY <1>4, <3>5
    <3>7. /\ t \in Sessions /\ t.state = o.state /\ t.handshake = o.handshake
          /\ t.pending = Append(o.pending, dm)
      BY <3>3, <3>6 DEF StorePending, Sessions
    <3> QED
      BY <1>3, <1>9, <3>1, <3>2, <3>4, <3>7 DEF Waits
  <2> QED
    BY <1>2, <2>1, <2>2, <2>3
<1> QED
  BY <1>5, <1>9

(* ... either way.                                                           *)
LEMMA UserStep ==
  ASSUME IInv, NEW n \in Node, NEW p \in Peers(n), UserSends(n, p)
  PROVE  IInv'
BY UserChoice, SendStep, StartStep DEF Waits

(* An acknowledgement marks only what was shown to its sender.               *)
LEMMA DeliveredStep ==
  ASSUME IInv, NEW n \in Node, NEW p \in Peers(n), NEW packet, HandleDelivered(n, p, packet)
  PROVE  IInv'
<1>1. /\ SessionGood(n, p, session[n][p]) /\ session[n][p] \in Sessions
      /\ Kept(session[n][p], session[n][p])
      /\ SlotsOK /\ HistoriesOK /\ ClaimsOK /\ InboxesOK
  BY OfSession DEF IInv, MessagesInv
<1>2. PICK ct : ct = packet.sealed
  OBVIOUS
<1>3. /\ p \in Node /\ n \in Peers(p) /\ Arrivals(net[p][n]) # {}
      /\ ct \in Ciphertexts /\ SealedGood(p, n, ct)
  BY <1>2, Arrived DEF HandleDelivered
<1>4. IsEstablished(session[n][p]) /\ ct.payload.type = "delivered"
  BY <1>2 DEF HandleDelivered
<1>5. PICK t : t = AfterDecryption(session[n][p], ct)
  OBVIOUS
<1>6. Local(n, p, t, <<>>)
  BY <1>2, <1>3, <1>5 DEF HandleDelivered, Local
<1>7. /\ delivered' = [delivered EXCEPT ![n] = @ \cup Known(n, ct.payload.id)]
      /\ UNCHANGED <<ephemerals, asked, bloom, inbox, tracked>>
  BY <1>2 DEF HandleDelivered
<1>8. Known(n, ct.payload.id) \subseteq tracked[n]
  BY DEF Known
<1>9. HistoriesOK'
  BY <1>1, <1>7, <1>8 DEF HistoriesOK
<1>10. /\ SessionGood(n, p, t) /\ IsEstablished(t) /\ OwnKey(t) = OwnKey(session[n][p])
       /\ t.send = session[n][p].send /\ t.pending = session[n][p].pending
  BY <1>1, <1>3, <1>4, <1>5, Decrypting
<1>11. Kept(session[n][p], t)
  BY <1>1, <1>4, <1>10 DEF Kept, IsEstablished
<1>12. PICK y \in ShownFrom(n, p) : y.id = ct.payload.id
  BY <1>3, <1>4 DEF SealedGood
<1>13. y.dm.to = p
  BY <1>1, <1>3, <1>12 DEF ShownFrom, InboxesOK
<1>14. ASSUME NEW x \in Known(n, ct.payload.id)
       PROVE  x \in tracked[n] /\ x.dm.to = p /\ ClaimOf(y) = x
  <2>1. x \in tracked[n] /\ x.id = ct.payload.id
    BY DEF Known
  <2>2. x \in Claims
    BY <1>1, <2>1 DEF HistoriesOK
  <2>3. PICK z : z = ClaimOf(y)
    OBVIOUS
  <2>4. z.dm = y.dm /\ z.id = y.id /\ z = [dm |-> y.dm, id |-> y.id]
    BY <2>3 DEF ClaimOf
  <2>5. x \in ClaimedBy(n) /\ z \in ClaimedBy(n)
    BY <1>3, <2>1, <2>3, ClaimPlaces DEF ClaimsAre
  <2>6. x.dm = z.dm
    BY <1>1, <1>12, <2>1, <2>4, <2>5 DEF ClaimsOK
  <2>7. x = [dm |-> x.dm, id |-> x.id]
    BY <2>2 DEF Claims
  <2> QED
    BY <1>12, <1>13, <2>1, <2>3, <2>4, <2>6, <2>7
<1>15. \A a \in Node : \A x \in delivered'[a] \ delivered[a] :
            /\ x \in tracked[a]
            /\ \E m \in Node : x.dm.to = m /\ \E z \in ShownFrom(a, m) : ClaimOf(z) = x
  <2>1. SUFFICES ASSUME NEW a \in Node, NEW x \in delivered'[a] \ delivered[a]
                 PROVE  a = n /\ x \in Known(n, ct.payload.id)
    BY <1>3, <1>12, <1>14
  <2> QED
    BY <1>1, <1>7 DEF HistoriesOK
<1>16. \A a \in Node : ephemerals[a] <= ephemerals'[a]
  BY <1>1, <1>7, FreshKey
<1>17. \A a \in Node : asked[a] \subseteq asked'[a]
  BY <1>7
<1> QED
  BY <1>6, <1>7, <1>9, <1>10, <1>11, <1>15, <1>16, <1>17, OutPackets, LocalQuietStep

(* A message that is shown was claimed by its sender, and its                *)
(* acknowledgement names it.                                                 *)
LEMMA ShowStep ==
  ASSUME IInv, NEW n \in Node, NEW p \in Peers(n), NEW packet, Arrives(p, n, packet),
         packet.type = "NoiseEncrypted", IsEstablished(session[n][p]),
         packet.sealed.payload.type = "message",
         NEW id, id = packet.sealed.payload.id, id \notin bloom[n],
         bloom' = [bloom EXCEPT ![n] = @ \cup {id}],
         inbox' = [inbox EXCEPT ![n] =
                      Append(@, [from |-> p, dm |-> packet.sealed.payload.dm, id |-> id])],
         Acknowledge(n, p, AfterDecryption(session[n][p], packet.sealed), id, SendOutcomes),
         UNCHANGED <<ephemerals, asked, tracked, delivered>>
  PROVE  IInv'
<1>1. /\ SessionGood(n, p, session[n][p]) /\ session[n][p] \in Sessions
      /\ Kept(session[n][p], session[n][p]) /\ session[n][p].send.nonce \in Nat
      /\ SlotsOK /\ HistoriesOK /\ ShapesOK /\ KeysInv /\ SessionsOK /\ MessagesInv
  BY OfSession DEF IInv, KeysInv, Sessions, Ciphers
<1>2. PICK ct : ct = packet.sealed
  OBVIOUS
<1>3. /\ p \in Node /\ n \in Peers(p) /\ Arrivals(net[p][n]) # {}
      /\ ct \in Ciphertexts /\ ct \in SealedTo(p, n) /\ SealedGood(p, n, ct)
      /\ ct.payload \in Payloads
  BY <1>2, Arrived
<1>4. PICK x : x = [from |-> p, dm |-> ct.payload.dm, id |-> id]
  OBVIOUS
<1>5. id \in Ids /\ ct.payload.dm \in Dms /\ ct.payload.type = "message" /\ ct.payload.dm.to = n
  BY <1>2, <1>3 DEF Payloads, SealedGood
<1>6. x \in Entries /\ x.from = p /\ x.dm.to = n /\ x.id = id /\ ClaimOf(x) = ClaimOf(ct.payload)
  BY <1>2, <1>3, <1>4, <1>5 DEF Entries, ClaimOf
<1>7. PICK s : s = AfterDecryption(session[n][p], ct)
  OBVIOUS
<1>8. PICK t : t = AfterEncryption(s)
  OBVIOUS
<1>9. PICK ack : ack = DeliveredAck(s.send, id)
  OBVIOUS
<1>10. PICK sent \in SendOutcomes :
         Exchange(n, p, IF sent THEN <<EncryptedPacket(ack)>> ELSE <<>>)
  BY <1>2, <1>7, <1>9 DEF Acknowledge
<1>11. PICK out : out = IF sent THEN <<EncryptedPacket(ack)>> ELSE <<>>
  OBVIOUS
<1>12. Local(n, p, t, out)
  BY <1>2, <1>3, <1>7, <1>8, <1>10, <1>11 DEF Local, Acknowledge
<1>13. /\ SessionGood(n, p, s) /\ IsEstablished(s) /\ OwnKey(s) = OwnKey(session[n][p])
       /\ s.send = session[n][p].send /\ s.pending = session[n][p].pending
  BY <1>1, <1>3, <1>7, Decrypting
<1>14. /\ SessionGood(n, p, t) /\ IsEstablished(t) /\ OwnKey(t) = OwnKey(s)
       /\ t.send.key = s.send.key /\ t.send.nonce = s.send.nonce + 1 /\ t.pending = s.pending
  BY <1>8, <1>13, Encrypting
<1>15. s.send \in Ciphers
  BY <1>1, <1>13 DEF Sessions
<1>16. /\ ack \in Ciphertexts /\ ack.key = s.send.key /\ ack.nonce = s.send.nonce
       /\ ack.payload.type = "delivered" /\ ack.payload.id = id
  BY <1>5, <1>9, <1>15, SealingAck
<1>17. SealsNow(session[n][p], t, ack) /\ Kept(session[n][p], t)
  BY <1>1, <1>13, <1>14, <1>16 DEF SealsNow, Kept, IsEstablished
<1>18. /\ out \in Seq(Packets)
       /\ \A y \in Elements(out) : y.type = "NoiseEncrypted" /\ y.sealed = ack
  <2>1. CASE sent
    BY <1>11, <1>16, <2>1, OutPackets
  <2>2. CASE ~sent
    BY <1>11, <2>2, OutPackets
  <2> QED
    BY <2>1, <2>2
<1>19. t \in Sessions
  BY <1>14 DEF SessionGood
<1>20. /\ SlotsOK'
       /\ session'[n][p] = t /\ New(n, p) \subseteq Elements(out)
       /\ \A a \in Node : \A b \in Peers(a) : (a # n \/ b # p) =>
            session'[a][b] = session[a][b] /\ New(a, b) = {}
  BY <1>1, <1>12, <1>18, <1>19, LocalStep
<1>21. inbox' = [inbox EXCEPT ![n] = Append(@, x)]
  BY <1>2, <1>4
<1>22. /\ \A m \in Node : m # n => inbox'[m] = inbox[m] /\ bloom'[m] = bloom[m]
       /\ inbox[n] \in Seq(Entries) /\ inbox'[n] = Append(inbox[n], x)
       /\ bloom'[n] = bloom[n] \cup {id}
       /\ inbox' \in [Node -> Seq(Entries)] /\ bloom' \in [Node -> SUBSET Ids]
  BY <1>1, <1>5, <1>6, <1>21 DEF HistoriesOK
<1>23. PICK o \in Seq(Entries) : o = inbox[n]
  BY <1>22
<1>24. /\ Len(o) \in Nat /\ Len(inbox'[n]) = Len(o) + 1 /\ inbox'[n][Len(o) + 1] = x
       /\ \A i \in 1..Len(o) : inbox'[n][i] = o[i]
  BY <1>6, <1>22, <1>23
<1>25. ShapesOK'
  BY <1>1, <1>20, <1>22 DEF HistoriesOK, ShapesOK
<1>26. /\ \A a \in Node : \A m \in Node : (a # p \/ m # n) => ShownFrom(a, m)' = ShownFrom(a, m)
       /\ ShownFrom(p, n)' = ShownFrom(p, n) \cup {x}
  <2>1. {inbox'[n][i] : i \in 1..Len(inbox'[n])} = {inbox[n][i] : i \in 1..Len(inbox[n])} \cup {x}
    <3>1. \A y \in {inbox'[n][i] : i \in 1..Len(inbox'[n])} :
             y \in {inbox[n][i] : i \in 1..Len(inbox[n])} \cup {x}
      BY <1>23, <1>24
    <3>2. \A y \in {inbox[n][i] : i \in 1..Len(inbox[n])} :
             y \in {inbox'[n][i] : i \in 1..Len(inbox'[n])}
      BY <1>23, <1>24
    <3>3. x \in {inbox'[n][i] : i \in 1..Len(inbox'[n])}
      BY <1>24
    <3> QED
      BY <3>1, <3>2, <3>3
  <2>2. \A a \in Node : \A m \in Node : m # n => ShownFrom(a, m)' = ShownFrom(a, m)
    BY <1>22 DEF ShownFrom
  <2>3. \A a \in Node : a # p => ShownFrom(a, n)' = ShownFrom(a, n)
    BY <1>6, <2>1 DEF ShownFrom
  <2>4. ShownFrom(p, n)' = ShownFrom(p, n) \cup {x}
    BY <1>6, <2>1 DEF ShownFrom
  <2> QED
    BY <2>2, <2>3, <2>4
<1>27. Grows
  BY <1>26 DEF Grows
<1>28. \A a \in Node : ephemerals[a] <= ephemerals'[a]
  BY <1>1, FreshKey
<1>29. StepOfKeys
  BY <1>1, <1>12, <1>14, <1>17, <1>18, <1>28, LocalKeyKept
<1>30. KeysInv'
  BY <1>1, <1>25, <1>29, KeysKept
<1>31. /\ \A y \in SealedNow(n, p) : y = ack
       /\ \A a \in Node : \A b \in Peers(a) : (a # n \/ b # p) => SealedNow(a, b) = {}
  BY <1>18, <1>20 DEF SealedNow
<1>32. ASSUME NEW a \in Node, NEW y, NewClaim(a, y)
       PROVE  y \in ClaimedBy(a)
  <2>1. a = p /\ y = ClaimOf(x)
    BY <1>3, <1>16, <1>26, <1>31, <1>32 DEF NewClaim
  <2> QED
    BY <1>3, <1>5, <1>6, <2>1, ClaimPlaces DEF ClaimsAre
<1>33. ClaimsOK'
  BY <1>1, <1>25, <1>27, <1>29, <1>32, ClaimsKept DEF MessagesInv
<1>34. SealedOK'
  <2>1. SealedGood(n, p, ack)'
    BY <1>6, <1>16, <1>26 DEF SealedGood
  <2> QED
    BY <1>1, <1>27, <1>31, <2>1, SealedKept DEF MessagesInv
<1>35. QueuesOK'
  <2>1. SUFFICES ASSUME NEW a \in Node, NEW b \in Peers(a)
                 PROVE  LET q == session'[a][b].pending
                        IN  \A i \in 1..Len(q) :
                              /\ q[i] \in asked'[a] /\ q[i].from = a /\ q[i].to = b
                              /\ \A j \in 1..Len(q) : q[i] = q[j] => i = j
                              /\ \A y \in ClaimedBy(a)' : y.dm # q[i]
    BY DEF QueuesOK
  <2>2. QueueStep(a, b)
    BY <1>13, <1>14, <1>20 DEF QueueStep
  <2> QED
    BY <1>1, <1>27, <1>32, <2>2, QueuesKept DEF MessagesInv
<1>36. InboxesOK'
  <2>1. SUFFICES ASSUME NEW m \in Node, NEW i \in 1..Len(inbox'[m])
                 PROVE  /\ inbox'[m][i].from \in Peers(m) /\ inbox'[m][i].dm.to = m
                        /\ inbox'[m][i].id \in bloom'[m]
                        /\ \A j \in 1..Len(inbox'[m]) :
                              inbox'[m][i].id = inbox'[m][j].id => i = j
    BY DEF InboxesOK
  <2>2. InboxesOK
    BY <1>1 DEF MessagesInv
  <2>3. CASE m # n
    BY <1>22, <2>2, <2>3 DEF InboxesOK
  <2>4. CASE m = n
    <3>1. \A j \in 1..Len(o) :
            /\ o[j].from \in Peers(n) /\ o[j].dm.to = n /\ o[j].id \in bloom[n]
            /\ \A k \in 1..Len(o) : o[j].id = o[k].id => j = k
      BY <1>23, <2>2 DEF InboxesOK
    <3> QED
      BY <1>6, <1>22, <1>24, <2>4, <3>1
  <2> QED
    BY <2>3, <2>4
<1>37. DeliveredOK'
  BY <1>1, <1>27, DeliveredKept DEF MessagesInv
<1> QED
  BY <1>25, <1>30, <1>33, <1>34, <1>35, <1>36, <1>37 DEF IInv, MessagesInv

(* A private message that opens is dropped or shown.                         *)
LEMMA PrivateMessageStep ==
  ASSUME IInv, NEW n \in Node, NEW p \in Peers(n), NEW packet, HandlePrivateMessage(n, p, packet)
  PROVE  IInv'
<1>1. PICK ct : ct = packet.sealed
  OBVIOUS
<1>2. PICK id : id = ct.payload.id
  OBVIOUS
<1>3. PICK s : s = AfterDecryption(session[n][p], ct)
  OBVIOUS
<1>4. /\ Arrives(p, n, packet) /\ packet.type = "NoiseEncrypted"
      /\ IsEstablished(session[n][p]) /\ ct.payload.type = "message"
      /\ UNCHANGED <<ephemerals, asked, tracked, delivered>>
  BY <1>1 DEF HandlePrivateMessage
<1>5. Arrivals(net[p][n]) # {} /\ ct \in Ciphertexts
  BY <1>1, <1>4, Arrived
<1>6. \/ DropDuplicate(n, p, s, id)
      \/ /\ id \notin bloom[n]
         /\ bloom' = [bloom EXCEPT ![n] = @ \cup {id}]
         /\ inbox' = [inbox EXCEPT ![n] =
                         Append(@, [from |-> p, dm |-> ct.payload.dm, id |-> id])]
         /\ Acknowledge(n, p, s, id, SendOutcomes)
  BY <1>1, <1>2, <1>3 DEF HandlePrivateMessage
<1>7. CASE DropDuplicate(n, p, s, id)
  <2>1. Local(n, p, s, <<>>)
    BY <1>5, <1>7 DEF DropDuplicate, Local
  <2>2. UNCHANGED <<ephemerals, asked, bloom, inbox, tracked, delivered>>
    BY <1>4, <1>7 DEF DropDuplicate
  <2> QED
    BY <1>3, <1>4, <1>5, <2>1, <2>2, PlainStep
<1>8. CASE ~DropDuplicate(n, p, s, id)
  BY <1>1, <1>2, <1>3, <1>4, <1>6, <1>8, ShowStep
<1> QED
  BY <1>7, <1>8

(* The packets of a queue that is flushed carry some of its ciphertexts.     *)
LEMMA FlushedPackets ==
  ASSUME NEW cts \in Seq(Ciphertexts), NEW sent \in SentOf(Len(cts)),
         NEW f, f = [i \in DOMAIN sent |-> EncryptedPacket(cts[sent[i]])]
  PROVE  /\ f \in Seq(Packets)
         /\ \A x \in Elements(f) : x.type = "NoiseEncrypted" /\ \E j \in 1..Len(cts) : x.sealed = cts[j]
<1>1. PICK m \in 0..Len(cts) : sent \in [1..m -> 1..Len(cts)]
  BY DEF SentOf
<1>2. ASSUME NEW i \in 1..m
      PROVE  /\ f[i] \in Packets /\ f[i].type = "NoiseEncrypted"
             /\ \E j \in 1..Len(cts) : f[i].sealed = cts[j]
  <2>1. sent[i] \in 1..Len(cts) /\ f[i] = EncryptedPacket(cts[sent[i]])
    BY <1>1
  <2>2. cts[sent[i]] \in Ciphertexts
    BY <2>1
  <2> QED
    BY <2>1, <2>2, OutPackets
<1>3. f \in [1..m -> Packets]
  BY <1>1, <1>2
<1>4. f \in Seq(Packets) /\ Len(f) = m
  BY <1>3
<1> QED
  BY <1>2, <1>4 DEF Elements

(* A session that is established, now or before, sends what has waited for   *)
(* it.                                                                       *)
LEMMA FlushStep ==
  ASSUME IInv, HistoriesOK', NEW n \in Node, NEW p \in Peers(n), Arrivals(net[p][n]) # {},
         NEW s, SessionGood(n, p, s), IsEstablished(s), Kept(session[n][p], s),
         s.pending = session[n][p].pending, IsEstablished(session[n][p]) => s = session[n][p],
         NEW packets \in Seq(Packets),
         \A x \in Elements(packets) : x.type = "NoiseHandshakeInit" /\ NoiseGood(n, x.noise),
         FlushPending(n, p, s, packets),
         \A a \in Node : ephemerals[a] <= ephemerals'[a],
         UNCHANGED <<asked, bloom, inbox, tracked, delivered>>
  PROVE  IInv'
<1>1. ClaimsOK /\ QueuesOK /\ s \in Sessions
  BY DEF IInv, MessagesInv, SessionGood
<1>2. PICK q : q = s.pending
  OBVIOUS
<1>3. q \in Seq(Dms) /\ Len(q) \in Nat /\ s.send.nonce \in Nat
  BY <1>1, <1>2 DEF Sessions, Ciphers
<1>4. PICK expired \in 0..Len(q) :
        \E sent \in SentOf(Len(FlushedCiphertexts(s, expired))) :
              /\ Becomes(n, p, AfterFlush(s, expired))
              /\ Exchange(n, p, packets \o
                     [i \in DOMAIN sent |-> EncryptedPacket(FlushedCiphertexts(s, expired)[sent[i]])])
  <2>1. PICK expired \in IF "expiry" \in Faults THEN 0..Len(s.pending) ELSE {0} :
        \E sent \in SentOf(Len(FlushedCiphertexts(s, expired))) :
              /\ Becomes(n, p, AfterFlush(s, expired))
              /\ Exchange(n, p, packets \o
                     [i \in DOMAIN sent |-> EncryptedPacket(FlushedCiphertexts(s, expired)[sent[i]])])
    BY DEF FlushPending
  <2>2. expired \in 0..Len(q)
    BY <1>2, <1>3
  <2> QED
    BY <2>1, <2>2
<1>5. PICK cts : cts = FlushedCiphertexts(s, expired)
  OBVIOUS
<1>6. PICK t : t = AfterFlush(s, expired)
  OBVIOUS
<1>7. PICK sent \in SentOf(Len(cts)) :
        /\ Becomes(n, p, t)
        /\ Exchange(n, p, packets \o [i \in DOMAIN sent |-> EncryptedPacket(cts[sent[i]])])
  BY <1>4, <1>5, <1>6
<1>8. PICK f : f = [i \in DOMAIN sent |-> EncryptedPacket(cts[sent[i]])]
  OBVIOUS
<1>9. PICK out : out = packets \o f
  OBVIOUS
<1>10. Local(n, p, t, out)
  BY <1>7, <1>8, <1>9 DEF Local
<1>11. /\ SessionGood(n, p, t) /\ IsEstablished(t) /\ OwnKey(t) = OwnKey(s)
       /\ t.send.key = s.send.key
       /\ t.send.nonce = s.send.nonce + (Len(q) - expired)
       /\ t.pending = <<>>
       /\ cts \in Seq(Ciphertexts) /\ Len(cts) = Len(q) - expired
       /\ \A i \in 1..Len(cts) :
            /\ cts[i].key = s.send.key /\ cts[i].nonce = s.send.nonce + (i - 1)
            /\ cts[i].payload.type = "message"
            /\ i + expired \in 1..Len(q)
            /\ cts[i].payload.dm = q[i + expired]
            /\ cts[i].payload.id = MessageId(cts[i])
  <2>1. expired \in 0..Len(s.pending)
    BY <1>2
  <2>2. FlushingGood(n, p, s, expired, t, cts)
    BY <1>5, <1>6, <2>1, Flushing
  <2> QED
    BY <1>2, <2>2 DEF FlushingGood
<1>12. /\ f \in Seq(Packets)
       /\ \A x \in Elements(f) : x.type = "NoiseEncrypted" /\ \E j \in 1..Len(cts) : x.sealed = cts[j]
  BY <1>7, <1>8, <1>11, FlushedPackets
<1>13. /\ out \in Seq(Packets)
       /\ \A x \in Elements(out) :
            /\ x.type = "NoiseHandshakeInit" => NoiseGood(n, x.noise)
            /\ x.type = "NoiseEncrypted" => \E j \in 1..Len(cts) : x.sealed = cts[j]
  BY <1>9, <1>12, Concatenating
<1>14. Kept(session[n][p], t)
  <2>1. CASE IsEstablished(session[n][p])
    BY <1>3, <1>11, <2>1 DEF Kept, IsEstablished
  <2>2. CASE ~IsEstablished(session[n][p])
    BY <1>11, <2>2 DEF Kept, IsEstablished
  <2> QED
    BY <2>1, <2>2
<1>15. \A i \in 1..Len(q) :
          /\ q[i] \in asked[n] /\ q[i].from = n /\ q[i].to = p
          /\ \A j \in 1..Len(q) : q[i] = q[j] => i = j
          /\ \A x \in ClaimedBy(n) : x.dm # q[i]
  BY <1>1, <1>2 DEF QueuesOK
<1>16. ASSUME NEW j \in 1..Len(cts)
       PROVE  SealsMessage(n, p, t, cts[j])
  <2>1. /\ cts[j].key = t.send.key /\ cts[j].nonce < t.send.nonce
        /\ s.send.nonce <= cts[j].nonce
    <3>1. /\ t.send.key = s.send.key /\ cts[j].key = s.send.key
          /\ cts[j].nonce = s.send.nonce + (j - 1)
          /\ t.send.nonce = s.send.nonce + Len(cts) /\ Len(cts) \in Nat
      BY <1>11
    <3> QED
      BY <1>3, <3>1
  <2>2. SealsNow(session[n][p], t, cts[j])
    BY <1>11, <2>1 DEF SealsNow, IsEstablished
  <2>3. /\ cts[j].payload.dm.from = n /\ cts[j].payload.dm.to = p
        /\ cts[j].payload.dm \in asked'[n]
        /\ \A x \in ClaimedBy(n) : x.dm # cts[j].payload.dm
    BY <1>11, <1>15
  <2>4. \A i \in 1..Len(t.pending) : t.pending[i] # cts[j].payload.dm
    BY <1>11
  <2> QED
    BY <1>11, <2>2, <2>3, <2>4 DEF SealsMessage
<1>17. ASSUME NEW i \in 1..Len(cts), NEW j \in 1..Len(cts),
              cts[i].nonce = cts[j].nonce \/ cts[i].payload.dm = cts[j].payload.dm
       PROVE  i = j
  <2>1. cts[i].nonce = cts[j].nonce => i = j
    BY <1>3, <1>11
  <2>2. cts[i].payload.dm = cts[j].payload.dm => i + expired = j + expired
    BY <1>11, <1>15
  <2> QED
    BY <1>17, <2>1, <2>2
<1>18. DistinctMessages(out)
  <2>1. SUFFICES ASSUME NEW x \in Elements(out), NEW y \in Elements(out),
                        x.type = "NoiseEncrypted", y.type = "NoiseEncrypted",
                        x.sealed.nonce = y.sealed.nonce
                          \/ x.sealed.payload.dm = y.sealed.payload.dm
                 PROVE  x.sealed = y.sealed
    BY DEF DistinctMessages
  <2>2. PICK i \in 1..Len(cts) : x.sealed = cts[i]
    BY <1>13, <2>1
  <2>3. PICK j \in 1..Len(cts) : y.sealed = cts[j]
    BY <1>13, <2>1
  <2> QED
    BY <1>17, <2>1, <2>2, <2>3
<1>19. \A x \in Elements(out) :
          /\ x.type = "NoiseEncrypted" => SealsMessage(n, p, t, x.sealed)
          /\ x.type = "NoiseHandshakeInit" => NoiseGood(n, x.noise)
  BY <1>13, <1>16
<1>20. /\ UNCHANGED <<inbox, bloom, delivered>>
       /\ \A a \in Node : asked[a] \subseteq asked'[a] /\ tracked[a] \subseteq tracked'[a]
       /\ \A a \in Node : tracked'[a] \ tracked[a] = {}
  OBVIOUS
<1> QED
  BY <1>10, <1>11, <1>13, <1>14, <1>18, <1>19, <1>20, SealingStep

(* The session after a handshake message, compared with what was there.      *)
LEMMA Answering ==
  ASSUME IInv, NEW n \in Node, NEW p \in Peers(n), NEW msg \in Noises, NoiseGood(p, msg),
         NEW s, s = (IF HasSession(session[n][p]) THEN session[n][p]
                     ELSE CreateSession(NoSession, "Responder")),
         NEW after, after = AfterIncoming(s, msg, Fresh(n)),
         IF ResponseDrawsKey(s, msg)
         THEN /\ ephemerals[n] < MaxEphemerals
              /\ ephemerals' = [ephemerals EXCEPT ![n] = @ + 1]
         ELSE UNCHANGED ephemerals
  PROVE  /\ ephemerals' \in [Node -> 0..MaxEphemerals]
         /\ \A a \in Node : ephemerals[a] <= ephemerals'[a]
         /\ IncomingGood(n, p, s, msg, Fresh(n), after)
         /\ IsEstablished(s) => IsEstablished(session[n][p])
         /\ OwnKey(s) \in {NoKey, OwnKey(session[n][p])}
         /\ SessionGood(n, p, after) /\ after.pending = session[n][p].pending
         /\ IsEstablished(session[n][p]) => after = session[n][p]
         /\ IsEstablished(after) => Kept(session[n][p], after)
         /\ \/ OwnKey(after) = NoKey \/ Kept(session[n][p], after)
            \/ (OwnKey(after) = Fresh(n) /\ ephemerals'[n] = ephemerals[n] + 1)
<1>1. /\ SessionGood(n, p, session[n][p]) /\ session[n][p] \in Sessions
      /\ Kept(session[n][p], session[n][p])
      /\ p \in Node /\ SlotsOK /\ HistoriesOK
  BY OfSession
<1>2. /\ ephemerals' \in [Node -> 0..MaxEphemerals]
      /\ \A a \in Node : ephemerals[a] <= ephemerals'[a]
      /\ Fresh(n).owner = n
      /\ ResponseDrawsKey(s, msg) =>
            Fresh(n) \in Ephemerals /\ ephemerals'[n] = ephemerals[n] + 1
  BY <1>1, FreshKey
<1>3. Opened(n, p, s)
  BY <1>1 DEF Opened
<1>4. IncomingGood(n, p, s, msg, Fresh(n), after)
  BY <1>1, <1>2, <1>3, Incoming
<1>5. /\ s.pending = session[n][p].pending
      /\ HasSession(session[n][p]) => s = session[n][p]
      /\ ~HasSession(session[n][p]) =>
            OwnKey(s) = NoKey /\ ~IsEstablished(s) /\ session[n][p] = NoSession
  <2>1. CASE HasSession(session[n][p])
    BY <2>1
  <2>2. CASE ~HasSession(session[n][p])
    <3>1. session[n][p] = NoSession
      BY <1>1, <2>2 DEF SessionGood, HasSession
    <3>2. PICK hs : hs = NewHandshake("Responder")
      OBVIOUS
    <3>3. hs.e = NoKey /\ NoSession \in Sessions /\ hs \in Handshakes /\ ~IsEstablished(NoSession)
      BY <3>2, NoSessionGood, NoKeyIsNobodys
         DEF NewHandshake, SessionGood, HasSession, IsEstablished, Handshakes, Patterns
    <3>4. s = [NoSession EXCEPT !.state = "Handshaking", !.handshake = hs]
      BY <2>2, <3>2, <3>3 DEF CreateSession
    <3>5. s.state = "Handshaking" /\ s.handshake = hs /\ s.pending = NoSession.pending
      BY <3>3, <3>4 DEF Sessions
    <3> QED
      BY <2>2, <3>1, <3>3, <3>5 DEF OwnKey, IsEstablished
  <2> QED
    BY <2>1, <2>2
<1>6. /\ SessionGood(n, p, after) /\ after.pending = session[n][p].pending
      /\ IsEstablished(session[n][p]) => after = session[n][p]
      /\ IsEstablished(after) => Kept(session[n][p], after)
      /\ \/ OwnKey(after) = NoKey \/ Kept(session[n][p], after)
         \/ (OwnKey(after) = Fresh(n) /\ ephemerals'[n] = ephemerals[n] + 1)
  <2>1. CASE IsEstablished(session[n][p])
    <3>1. s = session[n][p]
      BY <1>5, <2>1 DEF HasSession, IsEstablished
    <3>2. after = s
      BY <1>4, <2>1, <3>1 DEF IncomingGood
    <3> QED
      BY <1>1, <3>1, <3>2
  <2>2. CASE ~IsEstablished(session[n][p])
    <3>1. OwnKey(s) \in {NoKey, OwnKey(session[n][p])}
      BY <1>5
    <3>2. /\ SessionGood(n, p, after) /\ after.pending = session[n][p].pending
          /\ ResponseDrawsKey(s, msg) => OwnKey(after) = Fresh(n) /\ ~IsEstablished(after)
          /\ ~ResponseDrawsKey(s, msg) => OwnKey(after) \in {NoKey, OwnKey(s)}
      BY <1>4, <1>5 DEF IncomingGood
    <3>3. OwnKey(after) = OwnKey(session[n][p]) => Kept(session[n][p], after)
      BY <2>2 DEF Kept, IsEstablished
    <3>4. IsEstablished(after) => OwnKey(after) # NoKey
      BY <3>2, OwnKeyIsOwn DEF IsEstablished
    <3> QED
      BY <1>2, <2>2, <3>1, <3>2, <3>3, <3>4
  <2> QED
    BY <2>1, <2>2
<1>7. /\ IsEstablished(s) => IsEstablished(session[n][p])
      /\ OwnKey(s) \in {NoKey, OwnKey(session[n][p])}
  BY <1>5
<1> QED
  BY <1>2, <1>4, <1>6, <1>7

(* A handshake message: what a peer answers, and what it is then free to     *)
(* send.                                                                     *)
LEMMA HandshakeInitStep ==
  ASSUME IInv, NEW n \in Node, NEW p \in Peers(n), NEW packet,
         HandleNoiseHandshakeInit(n, p, packet)
  PROVE  IInv'
<1>1. /\ SessionGood(n, p, session[n][p]) /\ session[n][p] \in Sessions
      /\ Kept(session[n][p], session[n][p])
      /\ p \in Node /\ SlotsOK /\ HistoriesOK
  BY OfSession
<1>2. PICK msg : msg = packet.noise
  OBVIOUS
<1>3. Arrivals(net[p][n]) # {} /\ msg \in Noises /\ NoiseGood(p, msg)
  BY <1>2, Arrived DEF HandleNoiseHandshakeInit
<1>4. PICK s : s = IF HasSession(session[n][p]) THEN session[n][p]
                   ELSE CreateSession(NoSession, "Responder")
  OBVIOUS
<1>5. PICK after : after = AfterIncoming(s, msg, Fresh(n))
  OBVIOUS
<1>6. PICK result : result = IncomingResult(s, msg)
  OBVIOUS
<1>7. PICK reply : reply = HandshakePacket(IncomingResponse(s, msg, Fresh(n)))
  OBVIOUS
<1>8. /\ UNCHANGED <<asked, bloom, inbox, tracked, delivered>>
      /\ IF ResponseDrawsKey(s, msg)
         THEN /\ ephemerals[n] < MaxEphemerals
              /\ ephemerals' = [ephemerals EXCEPT ![n] = @ + 1]
         ELSE UNCHANGED ephemerals
      /\ \/ /\ result = "Failed"
            /\ Becomes(n, p, after)
            /\ Exchange(n, p, <<>>)
         \/ /\ result \in {"Ignored", "Done"}
            /\ FlushPending(n, p, after, <<>>)
         \/ /\ result = "Response"
            /\ IF IsEstablished(after)
               THEN FlushPending(n, p, after, <<reply>>)
               ELSE Becomes(n, p, after) /\ Exchange(n, p, <<reply>>)
         \/ /\ result = "Response"
            /\ Becomes(n, p, after)
            /\ Exchange(n, p, <<>>)
  BY <1>2, <1>4, <1>5, <1>6, <1>7 DEF HandleNoiseHandshakeInit, uiVars
<1>9. /\ ephemerals' \in [Node -> 0..MaxEphemerals]
      /\ \A a \in Node : ephemerals[a] <= ephemerals'[a]
      /\ IncomingGood(n, p, s, msg, Fresh(n), after)
      /\ SessionGood(n, p, after) /\ after.pending = session[n][p].pending
      /\ IsEstablished(session[n][p]) => after = session[n][p]
      /\ IsEstablished(after) => Kept(session[n][p], after)
      /\ \/ OwnKey(after) = NoKey \/ Kept(session[n][p], after)
         \/ (OwnKey(after) = Fresh(n) /\ ephemerals'[n] = ephemerals[n] + 1)
  BY <1>3, <1>4, <1>5, <1>8, Answering
<1>10. HistoriesOK'
  BY <1>1, <1>8, <1>9 DEF HistoriesOK
<1>11. <<>> \in Seq(Packets) /\ Elements(<<>>) = {}
  BY OutPackets
<1>12. result = "Response" =>
         /\ <<reply>> \in Seq(Packets)
         /\ \A x \in Elements(<<reply>>) : x.type = "NoiseHandshakeInit" /\ NoiseGood(n, x.noise)
  <2>1. SUFFICES ASSUME result = "Response"
                 PROVE  /\ <<reply>> \in Seq(Packets)
                        /\ \A x \in Elements(<<reply>>) :
                              x.type = "NoiseHandshakeInit" /\ NoiseGood(n, x.noise)
    OBVIOUS
  <2>2. PICK answer : answer = IncomingResponse(s, msg, Fresh(n))
    OBVIOUS
  <2>3. answer \in Noises /\ NoiseGood(n, answer)
    BY <1>6, <1>9, <2>1, <2>2 DEF IncomingGood
  <2>4. reply \in Packets /\ reply.type = "NoiseHandshakeInit" /\ reply.noise = answer
    BY <1>7, <2>2, <2>3, OutPackets
  <2> QED
    BY <2>3, <2>4, OutPackets
<1>13. ASSUME NEW out \in Seq(Packets), Becomes(n, p, after), Exchange(n, p, out),
              \A x \in Elements(out) : x.type = "NoiseHandshakeInit" /\ NoiseGood(n, x.noise)
       PROVE  IInv'
  <2>1. Local(n, p, after, out)
    BY <1>3, <1>13 DEF Local
  <2>2. /\ UNCHANGED <<inbox, tracked, bloom>>
        /\ \A a \in Node : asked[a] \subseteq asked'[a]
        /\ \A a \in Node : \A x \in delivered'[a] \ delivered[a] :
            /\ x \in tracked[a]
            /\ \E m \in Node : x.dm.to = m /\ \E y \in ShownFrom(a, m) : ClaimOf(y) = x
    BY <1>8
  <2>3. \A x \in Elements(out) :
            /\ x.type # "NoiseEncrypted"
            /\ x.type = "NoiseHandshakeInit" => NoiseGood(n, x.noise)
    BY <1>13
  <2> QED
    BY <1>9, <1>10, <2>1, <2>2, <2>3, LocalQuietStep
<1>14. ASSUME NEW packets \in Seq(Packets), FlushPending(n, p, after, packets),
              IsEstablished(after),
              \A x \in Elements(packets) : x.type = "NoiseHandshakeInit" /\ NoiseGood(n, x.noise)
       PROVE  IInv'
  BY <1>3, <1>8, <1>9, <1>10, <1>14, FlushStep
<1>15. result \in {"Ignored", "Done"} => IsEstablished(after)
  BY <1>6, <1>9 DEF IncomingGood
<1> QED
  BY <1>8, <1>11, <1>12, <1>13, <1>14, <1>15

(* Leaving a channel tells every peer, and touches no session.               *)
LEMMA LeaveChannelStep ==
  ASSUME IInv, NEW n \in Node, LeaveChannel(n)
  PROVE  IInv'
<1>1. ShapesOK /\ SlotsOK /\ HistoriesOK /\ KeysInv /\ SessionsOK /\ MessagesInv
  BY DEF IInv, ShapesOK, KeysInv
<1>2. PICK q : q = LeavePacket("channel")
  OBVIOUS
<1>3. q.type = "Leave" /\ <<q>> \in Seq(Packets) /\ Elements(<<q>>) = {q}
  BY <1>2, OutPackets
<1>4. /\ net' = [net EXCEPT ![n] = [p \in Peers(n) |-> Transmit(net[n][p], <<q>>)]]
      /\ UNCHANGED <<session, ephemerals, asked, bloom, inbox, tracked, delivered>>
  BY <1>2 DEF LeaveChannel, uiVars
<1>5. DOMAIN net = Node /\ \A a \in Node : DOMAIN net[a] = Peers(a)
  BY <1>1 DEF SlotsOK
<1>6. /\ DOMAIN net' = Node /\ \A a \in Node : DOMAIN net'[a] = Peers(a)
      /\ \A a \in Node : \A b \in Peers(a) :
            net'[a][b] = IF a = n THEN Transmit(net[a][b], <<q>>) ELSE net[a][b]
  BY <1>4, <1>5
<1>7. ASSUME NEW a \in Node, NEW b \in Peers(a)
      PROVE  net'[a][b] \in Media /\ New(a, b) \subseteq {q}
  <2>1. net[a][b] \in Media
    BY <1>1 DEF SlotsOK
  <2>2. CASE a = n
    <3>1. net'[a][b] = Transmit(net[a][b], <<q>>)
      BY <1>6, <2>2
    <3> QED
      BY <1>3, <2>1, <3>1, Transmitting DEF New
  <2>3. CASE a # n
    BY <1>6, <2>1, <2>3 DEF New
  <2> QED
    BY <2>2, <2>3
<1>8. ShapesOK'
  <2>1. SlotsOK'
    BY <1>1, <1>4, <1>6, <1>7 DEF SlotsOK
  <2> QED
    BY <1>1, <1>4, <2>1, HistoriesKept DEF ShapesOK
<1>9. \A a \in Node : \A b \in Peers(a) : SealedNow(a, b) = {} /\ QueueStep(a, b)
  BY <1>3, <1>4, <1>7 DEF SealedNow, QueueStep
<1>10. StepOfKeys
  <2>1. \A a \in Node : ephemerals[a] <= ephemerals'[a]
    BY <1>1, <1>4, FreshKey
  <2>2. ASSUME NEW a \in Node, NEW b \in Peers(a)
        PROVE  Stepped(a, b)
    <3>1. SessionGood(a, b, session'[a][b]) /\ Kept(session[a][b], session'[a][b])
      BY <1>4, OfSession
    <3>2. \A x \in New(a, b) : x.type # "NoiseHandshakeInit"
      BY <1>3, <1>7
    <3> QED
      BY <1>9, <3>1, <3>2 DEF Stepped
  <2> QED
    BY <2>1, <2>2 DEF StepOfKeys
<1>11. KeysInv'
  BY <1>1, <1>8, <1>10, KeysKept
<1>12. MessagesInv'
  BY <1>1, <1>4, <1>8, <1>9, <1>10, QuietStep
<1> QED
  BY <1>8, <1>11, <1>12 DEF IInv

(* A connection retry gives up every session of a peer, and sends nothing.   *)
LEMMA ConnectionRetryStep ==
  ASSUME IInv, NEW n \in Node, ConnectionRetry(n)
  PROVE  IInv'
<1>1. ShapesOK /\ SlotsOK /\ HistoriesOK /\ KeysInv /\ SessionsOK /\ MessagesInv
  BY DEF IInv, ShapesOK, KeysInv
<1>2. /\ session' = [session EXCEPT ![n] = [p \in Peers(n) |-> NoSession]]
      /\ UNCHANGED <<net, ephemerals, asked, bloom, inbox, tracked, delivered>>
  BY DEF ConnectionRetry, uiVars
<1>3. DOMAIN session = Node /\ \A a \in Node : DOMAIN session[a] = Peers(a)
  BY <1>1 DEF SlotsOK
<1>4. /\ DOMAIN session' = Node /\ \A a \in Node : DOMAIN session'[a] = Peers(a)
      /\ \A a \in Node : \A b \in Peers(a) :
            session'[a][b] = IF a = n THEN NoSession ELSE session[a][b]
  BY <1>2, <1>3
<1>5. ASSUME NEW a \in Node, NEW b \in Peers(a)
      PROVE  /\ SessionGood(a, b, session'[a][b]) /\ session'[a][b] \in Sessions
             /\ OwnKey(session'[a][b]) = NoKey \/ Kept(session[a][b], session'[a][b])
             /\ QueueStep(a, b)
  <2>1. CASE a = n
    <3>1. session'[a][b] = NoSession /\ NoSession.pending = <<>>
      BY <1>4, <2>1 DEF NoSession
    <3> QED
      BY <3>1, NoSessionGood DEF SessionGood, QueueStep
  <2>2. CASE a # n
    <3>1. session'[a][b] = session[a][b]
      BY <1>4, <2>2
    <3> QED
      BY <3>1, OfSession DEF QueueStep
  <2> QED
    BY <2>1, <2>2
<1>6. \A a \in Node : \A b \in Peers(a) : New(a, b) = {} /\ SealedNow(a, b) = {}
  BY <1>2 DEF New, SealedNow
<1>7. ShapesOK'
  <2>1. SlotsOK'
    BY <1>1, <1>2, <1>4, <1>5 DEF SlotsOK
  <2> QED
    BY <1>1, <1>2, <2>1, HistoriesKept DEF ShapesOK
<1>8. StepOfKeys
  <2>1. \A a \in Node : ephemerals[a] <= ephemerals'[a]
    BY <1>1, <1>2, FreshKey
  <2> QED
    BY <1>5, <1>6, <2>1 DEF StepOfKeys, Stepped
<1>9. KeysInv'
  BY <1>1, <1>7, <1>8, KeysKept
<1>10. MessagesInv'
  BY <1>1, <1>2, <1>5, <1>6, <1>7, <1>8, QuietStep
<1> QED
  BY <1>7, <1>9, <1>10 DEF IInv

-----------------------------------------------------------------------------
(* The invariant.                                                            *)

(* It holds when nobody has done anything yet.                               *)
LEMMA InitInv == Init => IInv
<1> SUFFICES ASSUME Init PROVE IInv
  OBVIOUS
<1>1. ASSUME NEW n \in Node, NEW p \in Peers(n)
      PROVE  /\ session[n][p] = NoSession /\ net[n][p] = EmptyMedium
             /\ Contents(net[n][p]) = {} /\ net[n][p] \in Media
  <2>1. session[n][p] = NoSession /\ net[n][p] = EmptyMedium
    BY DEF Init
  <2>2. EmptyMedium \in Media /\ Contents(EmptyMedium) = {}
    BY OutPackets DEF Media, EmptyMedium, Contents
  <2> QED
    BY <2>1, <2>2
<1>2. NoSession \in Sessions /\ NoSession.pending = <<>>
  BY NoSessionGood DEF SessionGood, NoSession
<1>3. \A n \in Node : \A p \in Peers(n) : SealedTo(n, p) = {}
  BY <1>1 DEF SealedTo
<1>4. \A n \in Node : inbox[n] = <<>> /\ tracked[n] = {} /\ delivered[n] = {}
  BY DEF Init
<1>5. \A n \in Node : \A m \in Node : ShownFrom(n, m) = {}
  BY <1>4 DEF ShownFrom
<1>6. ShapesOK
  <2>1. SlotsOK
    BY <1>1, <1>2 DEF Init, SlotsOK
  <2>2. 0 \in 0..MaxEphemerals
    BY BoundsAssumption
  <2>3. HistoriesOK
    BY <2>2 DEF Init, HistoriesOK
  <2> QED
    BY <2>1, <2>3 DEF ShapesOK
<1>7. KeysInv
  <2>1. SessionsOK /\ NoisesOK /\ OwnKeysOK
    BY <1>1, NoSessionGood DEF SessionsOK, NoisesOK, OwnKeysOK
  <2>2. IdsSpent
    BY <1>3 DEF IdsSpent
  <2>3. Sealings = {}
    BY <1>3, SealingsAre DEF SealingsOfPairs
  <2> QED
    BY <2>1, <2>2, <2>3 DEF KeysInv, NonceNeverReused
<1>8. MessagesInv
  <2>1. \A n \in Node : \A x : x \notin ClaimedBy(n)
    BY <1>3, <1>4, <1>5, ClaimPlaces DEF ClaimsAre
  <2>2. ClaimsOK
    BY <2>1 DEF ClaimsOK
  <2>3. SealedOK
    BY <1>3 DEF SealedOK
  <2>4. QueuesOK
    BY <1>1, <1>2 DEF QueuesOK
  <2>5. InboxesOK /\ DeliveredOK
    BY <1>4 DEF InboxesOK, DeliveredOK
  <2> QED
    BY <2>2, <2>3, <2>4, <2>5 DEF MessagesInv
<1> QED
  BY <1>6, <1>7, <1>8 DEF IInv

(* It says nothing of a later step if nothing changes.                       *)
LEMMA Stuttering ==
  ASSUME IInv, UNCHANGED vars
  PROVE  IInv'
<1>1. UNCHANGED <<session, ephemerals, net, asked, bloom, inbox, tracked, delivered>>
  BY DEF vars
<1>2. ShapesOK /\ HistoriesOK /\ KeysInv /\ MessagesInv
  BY DEF IInv, ShapesOK
<1>3. ShapesOK'
  BY <1>1, <1>2 DEF ShapesOK, SlotsOK, HistoriesOK
<1>4. \A a \in Node : \A b \in Peers(a) : SealedNow(a, b) = {} /\ QueueStep(a, b) /\ New(a, b) = {}
  BY <1>1 DEF SealedNow, QueueStep, New
<1>5. StepOfKeys
  <2>1. \A a \in Node : ephemerals[a] <= ephemerals'[a]
    BY <1>1, <1>2, FreshKey
  <2>2. ASSUME NEW a \in Node, NEW b \in Peers(a)
        PROVE  Stepped(a, b)
    <3>1. SessionGood(a, b, session'[a][b]) /\ Kept(session[a][b], session'[a][b])
      BY <1>1, OfSession
    <3> QED
      BY <1>4, <3>1 DEF Stepped
  <2> QED
    BY <2>1, <2>2 DEF StepOfKeys
<1>6. KeysInv'
  BY <1>2, <1>3, <1>5, KeysKept
<1>7. MessagesInv'
  BY <1>1, <1>2, <1>3, <1>4, <1>5, QuietStep
<1> QED
  BY <1>3, <1>6, <1>7 DEF IInv

(* Every action keeps it.                                                    *)
LEMMA NextInv ==
  ASSUME IInv, Next
  PROVE  IInv'
<1>1. PICK n \in Node :
        \/ \E p \in Peers(n) : UserSends(n, p) \/ Receive(n, p) \/ HandleRequestSync(n, p)
        \/ LeaveChannel(n)
        \/ ConnectionRetry(n)
  BY DEF Next
<1>2. ASSUME NEW p \in Peers(n), UserSends(n, p)
      PROVE  IInv'
  BY <1>2, UserStep
<1>3. ASSUME NEW p \in Peers(n), Receive(n, p)
      PROVE  IInv'
  <2>1. PICK packet \in Arrivals(net[p][n]) : HandlePacket(n, p, packet)
    BY <1>3 DEF Receive
  <2>2. CASE HandleNoiseHandshakeInit(n, p, packet)
    BY <2>2, HandshakeInitStep
  <2>3. CASE HandleEncryptedWithoutSession(n, p, packet)
    BY <2>3, EncryptedWithoutSessionStep
  <2>4. CASE HandleUnreadable(n, p, packet)
    BY <2>4, UnreadableStep
  <2>5. CASE HandlePrivateMessage(n, p, packet)
    BY <2>5, PrivateMessageStep
  <2>6. CASE HandleDelivered(n, p, packet)
    BY <2>6, DeliveredStep
  <2>7. CASE HandleHandshakeRequest(n, p, packet)
    BY <2>7, HandshakeRequestStep
  <2>8. CASE HandleLeave(n, p, packet)
    BY <2>8, LeaveStep
  <2> QED
    BY <2>1, <2>2, <2>3, <2>4, <2>5, <2>6, <2>7, <2>8 DEF HandlePacket
<1>4. ASSUME NEW p \in Peers(n), HandleRequestSync(n, p)
      PROVE  IInv'
  BY <1>4, RequestSyncStep
<1>5. CASE LeaveChannel(n)
  BY <1>5, LeaveChannelStep
<1>6. CASE ConnectionRetry(n)
  BY <1>6, ConnectionRetryStep
<1> QED
  BY <1>1, <1>2, <1>3, <1>4, <1>5, <1>6

(* The inductive invariant: the sessions and their keys, what was sealed     *)
(* under them, and what every message and id stands for, from the user who   *)
(* asks to the acknowledgement.                                              *)
THEOREM Invariant == Spec => []IInv
<1>1. IInv /\ [Next]_vars => IInv'
  BY NextInv, Stuttering
<1> QED
  BY <1>1, InitInv, PTL DEF Spec

-----------------------------------------------------------------------------
(* What it says.                                                             *)

(* A pair of peers, as its two peers.                                        *)
LEMMA PairIs ==
  ASSUME NEW pr \in Pair
  PROVE  /\ pr[1] \in Node /\ pr[2] \in Node /\ pr[1] # pr[2]
         /\ pr[2] \in Peers(pr[1]) /\ pr[1] \in Peers(pr[2])
BY DEF Pair, Peers

(* Sessions, packets and histories have the shapes that the handlers give    *)
(* them.                                                                     *)
THEOREM TypeCorrect == Spec => []TypeOK
<1>1. IInv => TypeOK
  <2> SUFFICES ASSUME IInv PROVE TypeOK
    OBVIOUS
  <2>1. ShapesOK /\ SlotsOK /\ HistoriesOK /\ ClaimsOK /\ DeliveredOK
    BY DEF IInv, ShapesOK, MessagesInv
  <2>2. ASSUME NEW pr \in Pair, NEW s, s = session[pr[1]][pr[2]]
        PROVE  /\ s.state \in {"None", "Handshaking", "Established"}
               /\ HandshakeOK(s.handshake)
               /\ CipherOK(s.send) /\ CipherOK(s.receive)
               /\ s.pending \in Seq(Dms)
    <3>1. s \in Sessions
      BY <2>1, <2>2, PairIs, SlotTypes
    <3> QED
      BY <3>1 DEF Sessions, Ciphers, Handshakes, CipherOK, HandshakeOK
  <2>3. ASSUME NEW packet \in InFlight
        PROVE  packet.type \in PacketTypes
    <3>1. PICK pr \in Pair : packet \in Contents(net[pr[1]][pr[2]])
      BY DEF InFlight
    <3>2. packet \in Packets
      BY <2>1, <3>1, PairIs, SlotTypes
    <3> QED
      BY <3>2 DEF Packets, PacketTypes
  <2>4. ASSUME NEW n \in Node
        PROVE  /\ ephemerals[n] \in 0..MaxEphemerals
               /\ asked[n] \subseteq Dms
               /\ \A x \in tracked[n] : x.dm \in asked[n] /\ MessageIdOK(x.id)
               /\ \A id \in bloom[n] : MessageIdOK(id)
               /\ delivered[n] \subseteq tracked[n]
    <3>1. \A id \in Ids : MessageIdOK(id)
      BY DEF Ids, MessageIdOK
    <3>2. ephemerals[n] \in 0..MaxEphemerals /\ asked[n] \subseteq Dms
      BY <2>1 DEF HistoriesOK
    <3>3. \A id \in bloom[n] : MessageIdOK(id)
      BY <2>1, <3>1 DEF HistoriesOK
    <3>4. \A x \in tracked[n] : x.dm \in asked[n] /\ MessageIdOK(x.id)
      BY <2>1, <3>1, ClaimPlaces, ClaimTypes DEF ClaimsAre, ClaimsOK
    <3>5. delivered[n] \subseteq tracked[n]
      BY <2>1 DEF DeliveredOK
    <3> QED
      BY <3>2, <3>3, <3>4, <3>5
  <2>5. ASSUME NEW n \in Node, NEW i \in 1..Len(inbox[n]), NEW x, x = inbox[n][i]
        PROVE  x.from \in Node /\ x.dm \in Dms /\ MessageIdOK(x.id)
    <3>1. inbox[n] \in Seq(Entries)
      BY <2>1 DEF HistoriesOK
    <3>2. x \in Entries
      BY <2>5, <3>1
    <3> QED
      BY <3>2 DEF Entries, Ids, MessageIdOK
  <2> QED
    BY <2>2, <2>3, <2>4, <2>5 DEF TypeOK
<1> QED
  BY <1>1, Invariant, PTL

(* The keys of a session belong to one handshake, and to one direction each. *)
Agree(n, p, k, l) ==    \* n sends to p under k and receives under l
    /\ k.i = l.i /\ k.r = l.r
    /\ {k.i.owner, k.r.owner} = {n, p}
    /\ k.direction = IF k.i.owner = n THEN 1 ELSE 2
    /\ l.direction = 3 - k.direction

(* The keys of an established session are such.                              *)
LEMMA KeysGoodAgree ==
  ASSUME NEW n, NEW p, n # p, NEW s, KeysGood(n, p, s)
  PROVE  Agree(n, p, s.send.key, s.receive.key)
<1>1. PICK k : k = s.send.key
  OBVIOUS
<1>2. PICK l : l = s.receive.key
  OBVIOUS
<1>3. /\ k.i = l.i /\ k.r = l.r
      /\ \/ k.direction = 1 /\ l.direction = 2 /\ k.i.owner = n /\ k.r.owner = p
         \/ k.direction = 2 /\ l.direction = 1 /\ k.i.owner = p /\ k.r.owner = n
  BY <1>1, <1>2 DEF KeysGood
<1>4. CASE k.direction = 1 /\ l.direction = 2 /\ k.i.owner = n /\ k.r.owner = p
  BY <1>1, <1>2, <1>3, <1>4 DEF Agree
<1>5. CASE k.direction = 2 /\ l.direction = 1 /\ k.i.owner = p /\ k.r.owner = n
  BY <1>1, <1>2, <1>3, <1>5 DEF Agree
<1> QED
  BY <1>3, <1>4, <1>5

(* Two peers whose sessions are of one handshake agree on its keys, each of  *)
(* which has an ephemeral of either (split).                                 *)
THEOREM KeysAgree == Spec => []KeyAgreement
<1>1. IInv => KeyAgreement
  <2> SUFFICES ASSUME IInv, NEW pr \in Pair, IsEstablished(session[pr[1]][pr[2]])
               PROVE  LET s == session[pr[1]][pr[2]]
                          t == session[pr[2]][pr[1]]
                      IN  /\ Agree(pr[1], pr[2], s.send.key, s.receive.key)
                          /\ (IsEstablished(t) /\ t.send.key.i = s.send.key.i
                                               /\ t.send.key.r = s.send.key.r)
                               => t.send.key = s.receive.key /\ t.receive.key = s.send.key
    BY Zenon DEF KeyAgreement, Agree
  <2>1. PICK s : s = session[pr[1]][pr[2]]
    OBVIOUS
  <2>2. PICK t : t = session[pr[2]][pr[1]]
    OBVIOUS
  <2>3. pr[1] # pr[2] /\ SessionGood(pr[1], pr[2], s) /\ SessionGood(pr[2], pr[1], t)
    BY <2>1, <2>2, PairIs, OfSession
  <2>4. KeysGood(pr[1], pr[2], s) /\ (IsEstablished(t) => KeysGood(pr[2], pr[1], t))
    BY <2>1, <2>3 DEF SessionGood, IsEstablished
  <2>5. Agree(pr[1], pr[2], s.send.key, s.receive.key)
    BY <2>3, <2>4, KeysGoodAgree
  <2>6. ASSUME IsEstablished(t), t.send.key.i = s.send.key.i, t.send.key.r = s.send.key.r
        PROVE  t.send.key = s.receive.key /\ t.receive.key = s.send.key
    <3>1. /\ t.send.key.direction = s.receive.key.direction
          /\ t.receive.key.direction = s.send.key.direction
          /\ t.receive.key.i = s.send.key.i /\ t.receive.key.r = s.send.key.r
          /\ t.send.key.i = s.receive.key.i /\ t.send.key.r = s.receive.key.r
      BY <2>3, <2>4, <2>6 DEF KeysGood
    <3>2. ASSUME NEW k \in CipherKeys, NEW l \in CipherKeys,
                 k.i = l.i, k.r = l.r, k.direction = l.direction
          PROVE  k = l
      BY <3>2 DEF CipherKeys
    <3>3. /\ t.send.key \in CipherKeys /\ t.receive.key \in CipherKeys
          /\ s.send.key \in CipherKeys /\ s.receive.key \in CipherKeys
      BY <2>3 DEF SessionGood, Sessions, Ciphers
    <3>4. t.send.key = s.receive.key
      BY <3>1, <3>2, <3>3
    <3>5. t.receive.key = s.send.key
      BY <3>1, <3>2, <3>3
    <3> QED
      BY <3>4, <3>5
  <2> QED
    BY <2>1, <2>2, <2>5, <2>6
<1> QED
  BY <1>1, Invariant, PTL

(* No key seals two plaintexts under one nonce, through every removal, retry *)
(* and new handshake.                                                        *)
THEOREM NoncesAreNew == Spec => []NonceNeverReused
<1>1. IInv => NonceNeverReused
  BY DEF IInv, KeysInv
<1> QED
  BY <1>1, Invariant, PTL

(* What is shown was asked for by the peer it is shown to come from, and is  *)
(* shown once (handle_noise_encrypted_message).                              *)
THEOREM ShownWasAsked == Spec => []ShownIsAuthentic
<1>1. IInv => ShownIsAuthentic
  <2> SUFFICES ASSUME IInv, NEW n \in Node, NEW i \in 1..Len(inbox[n]), NEW x, x = inbox[n][i]
               PROVE  /\ x.dm \in asked[x.from] /\ x.dm.to = n /\ x.dm.from = x.from
                      /\ \A j \in 1..Len(inbox[n]) : inbox[n][j].dm = x.dm => i = j
    BY DEF ShownIsAuthentic
  <2>1. ClaimsOK /\ InboxesOK
    BY DEF IInv, MessagesInv
  <2>2. ASSUME NEW j \in 1..Len(inbox[n]), NEW y, y = inbox[n][j]
        PROVE  /\ y.from \in Node /\ y.dm.to = n /\ y.dm \in asked[y.from] /\ y.dm.from = y.from
               /\ ClaimOf(y) \in ClaimedBy(y.from) /\ ClaimOf(y).dm = y.dm /\ ClaimOf(y).id = y.id
    <3>1. y.from \in Node /\ y.dm.to = n /\ y \in ShownFrom(y.from, n)
      BY <2>1, <2>2 DEF InboxesOK, ShownFrom, Peers
    <3>2. PICK z : z = ClaimOf(y)
      OBVIOUS
    <3>3. z \in ClaimedBy(y.from) /\ z.dm = y.dm /\ z.id = y.id
      <4>1. z \in ClaimedBy(y.from)
        BY <3>1, <3>2, ClaimPlaces DEF ClaimsAre
      <4> QED
        BY <3>2, <4>1 DEF ClaimOf
    <3> QED
      BY <2>1, <3>1, <3>2, <3>3 DEF ClaimsOK
  <2>3. ASSUME NEW j \in 1..Len(inbox[n]), inbox[n][j].dm = x.dm
        PROVE  i = j
    <3>1. PICK y : y = inbox[n][j]
      OBVIOUS
    <3>2. PICK c : c = ClaimOf(x)
      OBVIOUS
    <3>3. PICK d : d = ClaimOf(y)
      OBVIOUS
    <3>4. /\ x.from \in Node /\ c \in ClaimedBy(x.from) /\ c.dm = x.dm /\ c.id = x.id
          /\ x.dm.from = x.from
      BY <2>2, <3>2
    <3>5. /\ d \in ClaimedBy(y.from) /\ d.dm = y.dm /\ d.id = y.id
          /\ y.dm.from = y.from
      BY <2>2, <3>1, <3>3
    <3>6. c.id = d.id
      BY <2>1, <2>3, <3>1, <3>4, <3>5 DEF ClaimsOK
    <3>7. inbox[n][i].id = inbox[n][j].id
      BY <3>1, <3>4, <3>5, <3>6
    <3> QED
      BY <2>1, <3>7 DEF InboxesOK
  <2> QED
    BY <2>2, <2>3
<1> QED
  BY <1>1, Invariant, PTL

(* What waits for a session has not been sent, and waits only once           *)
(* (pending_messages, send_pending_messages).                                *)
THEOREM QueuedIsUnsent == Spec => []QueuedWasNotSent
<1>1. IInv => QueuedWasNotSent
  <2> SUFFICES ASSUME IInv, NEW pr \in Pair, NEW q, q = session[pr[1]][pr[2]].pending
               PROVE  /\ \A i, j \in 1..Len(q) : q[i] = q[j] => i = j
                      /\ \A dm \in Queued(pr[1], pr[2]) :
                           /\ dm.from = pr[1] /\ dm.to = pr[2]
                           /\ dm \notin Shown(pr[2])
                           /\ \A ct \in Sealings : ~Carries(ct, dm)
    BY DEF QueuedWasNotSent
  <2>1. ClaimsOK /\ InboxesOK /\ QueuesOK /\ SealedOK
    BY DEF IInv, MessagesInv
  <2>2. PICK n \in Node : n = pr[1]
    BY PairIs
  <2>3. PICK p \in Peers(n) : p = pr[2]
    BY <2>2, PairIs
  <2>4. \A i \in 1..Len(q) :
          /\ q[i].from = n /\ q[i].to = p
          /\ \A j \in 1..Len(q) : q[i] = q[j] => i = j
          /\ \A x \in ClaimedBy(n) : x.dm # q[i]
    BY <2>1, <2>2, <2>3 DEF QueuesOK
  <2>5. ASSUME NEW dm \in Queued(n, p)
        PROVE  dm.from = n /\ dm.to = p /\ \A x \in ClaimedBy(n) : x.dm # dm
    BY <2>2, <2>3, <2>4 DEF Queued
  <2>6. ASSUME NEW dm \in Queued(n, p), dm \in Shown(p)
        PROVE  FALSE
    <3>1. PICK i \in 1..Len(inbox[p]) : inbox[p][i].dm = dm
      BY <2>6 DEF Shown
    <3>2. PICK y : y = inbox[p][i]
      OBVIOUS
    <3>3. p \in Node /\ y.from \in Node /\ y \in ShownFrom(y.from, p)
      BY <2>1, <3>2 DEF InboxesOK, ShownFrom, Peers
    <3>4. PICK z : z = ClaimOf(y)
      OBVIOUS
    <3>5. z \in ClaimedBy(y.from) /\ z.dm = dm
      <4>1. z \in ClaimedBy(y.from)
        BY <3>3, <3>4, ClaimPlaces DEF ClaimsAre
      <4> QED
        BY <3>1, <3>2, <3>4, <4>1 DEF ClaimOf
    <3>6. y.from = n
      BY <2>1, <2>5, <2>6, <3>3, <3>5 DEF ClaimsOK
    <3> QED
      BY <2>5, <2>6, <3>5, <3>6
  <2>7. ASSUME NEW dm \in Queued(n, p), NEW ct \in Sealings, Carries(ct, dm)
        PROVE  FALSE
    <3>1. PICK a \in Node : \E b \in Peers(a) : ct \in SealedTo(a, b)
      BY SealingsAre DEF SealingsOfPairs
    <3>2. PICK b \in Peers(a) : ct \in SealedTo(a, b)
      BY <3>1
    <3>3. PICK z : z = ClaimOf(ct.payload)
      OBVIOUS
    <3>4. z \in ClaimedBy(a) /\ z.dm = dm
      <4>1. z \in ClaimedBy(a)
        BY <2>7, <3>2, <3>3, ClaimPlaces DEF ClaimsAre, Carries
      <4> QED
        BY <2>7, <3>3, <4>1 DEF ClaimOf, Carries
    <3>5. a = n
      BY <2>1, <2>5, <2>7, <3>4 DEF ClaimsOK
    <3> QED
      BY <2>5, <2>7, <3>4, <3>5
  <2> QED
    BY <2>2, <2>3, <2>4, <2>5, <2>6, <2>7
<1> QED
  BY <1>1, Invariant, PTL

(* What is marked as delivered was shown, under the id that its sender gave  *)
(* it, although an acknowledgement carries nothing but that id               *)
(* (send_private_noise_ack).                                                 *)
THEOREM DeliveredIsShown == Spec => []DeliveredWasShown
<1>1. IInv => DeliveredWasShown
  <2> SUFFICES ASSUME IInv, NEW n \in Node, NEW x \in delivered[n]
               PROVE  /\ x.dm.from = n
                      /\ \E i \in 1..Len(inbox[x.dm.to]) :
                            inbox[x.dm.to][i] = [from |-> n, dm |-> x.dm, id |-> x.id]
    BY DEF DeliveredWasShown
  <2>1. ClaimsOK /\ DeliveredOK /\ HistoriesOK
    BY DEF IInv, MessagesInv, ShapesOK
  <2>2. PICK m \in Node : x.dm.to = m /\ \E y \in ShownFrom(n, m) : ClaimOf(y) = x
    BY <2>1 DEF DeliveredOK
  <2>3. PICK y \in ShownFrom(n, m) : ClaimOf(y) = x
    BY <2>2
  <2>4. PICK i \in 1..Len(inbox[m]) : y = inbox[m][i] /\ y.from = n
    BY DEF ShownFrom
  <2>5. inbox[m] \in Seq(Entries)
    BY <2>1 DEF HistoriesOK
  <2>6. y \in Entries /\ x.dm = y.dm /\ x.id = y.id
    BY <2>3, <2>4, <2>5 DEF ClaimOf
  <2>7. y = [from |-> n, dm |-> x.dm, id |-> x.id]
    BY <2>4, <2>6 DEF Entries
  <2>8. x \in ClaimedBy(n)
    BY <2>3, <2>2, ClaimPlaces DEF ClaimsAre
  <2> QED
    BY <2>1, <2>2, <2>4, <2>7, <2>8 DEF ClaimsOK
<1> QED
  BY <1>1, Invariant, PTL

-----------------------------------------------------------------------------
(* The queue of an established session.                                      *)

EmptyIfEstablished(s) == IsEstablished(s) => s.pending = <<>>
QueuesEmpty == \A n \in Node : \A p \in Peers(n) : EmptyIfEstablished(session[n][p])

(* A step that changes one session, and leaves it with nothing in its queue  *)
(* if it is established.                                                     *)
LEMMA EmptyKept ==
  ASSUME SlotsOK, QueuesEmpty, NEW n \in Node, NEW p \in Peers(n), NEW t, Becomes(n, p, t),
         EmptyIfEstablished(t)
  PROVE  QueuesEmpty'
<1>1. session' = [session EXCEPT ![n][p] = t]
  BY DEF Becomes
<1>2. DOMAIN session = Node /\ \A a \in Node : DOMAIN session[a] = Peers(a)
  BY DEF SlotsOK
<1>3. \A a \in Node : \A b \in Peers(a) : session'[a][b] = session[a][b] \/ session'[a][b] = t
  BY <1>1, <1>2
<1> QED
  BY <1>3 DEF QueuesEmpty

(* The sessions that the handlers leave without flushing are not             *)
(* established, or their queue is the one they had.                          *)
LEMMA EmptySessions ==
  ASSUME NEW n \in Node, NEW p \in Peers(n), NEW s, SessionGood(n, p, s), EmptyIfEstablished(s)
  PROVE  /\ EmptyIfEstablished(NoSession)
         /\ IsEstablished(s) =>
              /\ EmptyIfEstablished(AfterEncryption(s))
              /\ \A ct \in Ciphertexts :
                    /\ EmptyIfEstablished(AfterDecryption(s, ct))
                    /\ EmptyIfEstablished(AfterEncryption(AfterDecryption(s, ct)))
         /\ ~IsEstablished(s) => \A dm, fresh, role :
              /\ ~IsEstablished(InitiateHandshake(StorePending(s, dm), fresh))
              /\ ~IsEstablished(InitiateHandshake(CreateSession(s, role), fresh))
              /\ ~IsEstablished(InitiateHandshake(StorePending(CreateSession(s, role), dm), fresh))
<1>1. s \in Sessions
  BY DEF SessionGood
<1>2. EmptyIfEstablished(NoSession)
  BY DEF EmptyIfEstablished, NoSession, IsEstablished
<1>3. ASSUME IsEstablished(s)
      PROVE  EmptyIfEstablished(AfterEncryption(s))
  <2>1. AfterEncryption(s).pending = s.pending
    BY <1>3, Encrypting
  <2> QED
    BY <1>3, <2>1 DEF EmptyIfEstablished
<1>4. ASSUME IsEstablished(s), NEW ct \in Ciphertexts
      PROVE  /\ EmptyIfEstablished(AfterDecryption(s, ct))
             /\ EmptyIfEstablished(AfterEncryption(AfterDecryption(s, ct)))
  <2>1. PICK t : t = AfterDecryption(s, ct)
    OBVIOUS
  <2>2. SessionGood(n, p, t) /\ IsEstablished(t) /\ t.pending = s.pending
    BY <1>4, <2>1, Decrypting
  <2>3. AfterEncryption(t).pending = t.pending
    BY <2>2, Encrypting
  <2> QED
    BY <1>4, <2>1, <2>2, <2>3 DEF EmptyIfEstablished
<1>5. ASSUME ~IsEstablished(s), NEW dm, NEW fresh, NEW role
      PROVE  /\ ~IsEstablished(InitiateHandshake(StorePending(s, dm), fresh))
             /\ ~IsEstablished(InitiateHandshake(CreateSession(s, role), fresh))
             /\ ~IsEstablished(InitiateHandshake(StorePending(CreateSession(s, role), dm), fresh))
  <2>1. PICK t : t = CreateSession(s, role)
    OBVIOUS
  <2>2. /\ "state" \in DOMAIN s /\ "pending" \in DOMAIN s /\ "handshake" \in DOMAIN s
        /\ s.state # "Established"
    BY <1>1, <1>5 DEF Sessions, IsEstablished
  <2>3. /\ "state" \in DOMAIN t /\ "pending" \in DOMAIN t /\ "handshake" \in DOMAIN t
        /\ t.state # "Established"
    BY <1>5, <2>1, <2>2 DEF CreateSession
  <2>4. ASSUME NEW u, "state" \in DOMAIN u, u.state # "Established"
        PROVE  ~IsEstablished(InitiateHandshake(u, fresh))
    BY <2>4 DEF InitiateHandshake, IsEstablished
  <2>5. ASSUME NEW u, "state" \in DOMAIN u, u.state # "Established"
        PROVE  ~IsEstablished(InitiateHandshake(StorePending(u, dm), fresh))
    BY <2>5 DEF InitiateHandshake, StorePending, IsEstablished
  <2> QED
    BY <2>1, <2>2, <2>3, <2>4, <2>5
<1> QED
  BY <1>2, <1>3, <1>4, <1>5

(* A handshake message leaves a session established only with its queue      *)
(* flushed, as long as no response is lost.                                  *)
LEMMA EmptyAfterHandshake ==
  ASSUME IInv, QueuesEmpty, "send" \notin Faults,
         NEW n \in Node, NEW p \in Peers(n), NEW packet, HandleNoiseHandshakeInit(n, p, packet)
  PROVE  QueuesEmpty'
<1>1. /\ SessionGood(n, p, session[n][p]) /\ p \in Node /\ SlotsOK /\ HistoriesOK
  BY OfSession
<1>2. PICK msg : msg = packet.noise
  OBVIOUS
<1>3. msg \in Noises /\ NoiseGood(p, msg)
  BY <1>2, Arrived DEF HandleNoiseHandshakeInit
<1>4. PICK s : s = IF HasSession(session[n][p]) THEN session[n][p]
                   ELSE CreateSession(NoSession, "Responder")
  OBVIOUS
<1>5. PICK after : after = AfterIncoming(s, msg, Fresh(n))
  OBVIOUS
<1>6. PICK result : result = IncomingResult(s, msg)
  OBVIOUS
<1>7. PICK reply : reply = HandshakePacket(IncomingResponse(s, msg, Fresh(n)))
  OBVIOUS
<1>8. /\ ResponseDrawsKey(s, msg) => ephemerals[n] < MaxEphemerals
      /\ \/ /\ result = "Failed"
            /\ Becomes(n, p, after)
         \/ /\ result \in {"Ignored", "Done"}
            /\ FlushPending(n, p, after, <<>>)
         \/ /\ result = "Response"
            /\ IF IsEstablished(after)
               THEN FlushPending(n, p, after, <<reply>>)
               ELSE Becomes(n, p, after)
  BY <1>2, <1>4, <1>5, <1>6, <1>7 DEF HandleNoiseHandshakeInit
<1>9. IncomingGood(n, p, s, msg, Fresh(n), after)
  <2>1. Fresh(n).owner = n /\ (ResponseDrawsKey(s, msg) => Fresh(n) \in Ephemerals)
    BY <1>1, <1>8, FreshKey
  <2>2. Opened(n, p, s)
    BY <1>1, <1>4 DEF Opened
  <2> QED
    BY <1>1, <1>3, <1>5, <2>1, <2>2, Incoming
<1>10. ASSUME NEW packets, FlushPending(n, p, after, packets)
       PROVE  QueuesEmpty'
  <2>1. PICK expired : Becomes(n, p, AfterFlush(after, expired))
    BY <1>10 DEF FlushPending
  <2>2. after \in Sessions
    BY <1>9 DEF IncomingGood, SessionGood
  <2>3. AfterFlush(after, expired).pending = <<>>
    BY <2>2 DEF AfterFlush, Sessions
  <2> QED
    BY <1>1, <2>1, <2>3, EmptyKept DEF EmptyIfEstablished
<1>11. result = "Failed" => ~IsEstablished(after)
  BY <1>6, <1>9 DEF IncomingGood
<1>12. CASE Becomes(n, p, after) /\ ~IsEstablished(after)
  BY <1>1, <1>12, EmptyKept DEF EmptyIfEstablished
<1> QED
  BY <1>8, <1>10, <1>11, <1>12

(* When no send fails, a session that is established has nothing left in its *)
(* queue (handle_noise_handshake_init, send_pending_messages).               *)
THEOREM EstablishedIsFlushed == Spec => []EstablishedQueueEmpty
<1> DEFINE Inv == "send" \notin Faults => QueuesEmpty
<1>1. Init => Inv
  <2>1. SUFFICES ASSUME Init, NEW n \in Node, NEW p \in Peers(n)
                 PROVE  EmptyIfEstablished(session[n][p])
    BY DEF QueuesEmpty
  <2>2. session[n][p] = NoSession
    BY <2>1 DEF Init
  <2> QED
    BY <2>2 DEF EmptyIfEstablished, IsEstablished, NoSession
<1>2. ASSUME IInv, Inv, [Next]_vars
      PROVE  Inv'
  <2> SUFFICES ASSUME "send" \notin Faults
               PROVE  QueuesEmpty'
    OBVIOUS
  <2>1. SlotsOK /\ QueuesEmpty
    BY <1>2 DEF IInv, ShapesOK
  <2>2. CASE UNCHANGED session
    BY <2>1, <2>2 DEF QueuesEmpty
  <2>3. ASSUME NEW n \in Node, NEW p \in Peers(n), UserSends(n, p)
        PROVE  QueuesEmpty'
    <3>1. SessionGood(n, p, session[n][p]) /\ EmptyIfEstablished(session[n][p])
      BY <1>2, <2>1, OfSession DEF QueuesEmpty
    <3>2. PICK dm : ChatMessage(n, p, dm) \/ SlashDm(n, p, dm)
      BY <2>3 DEF UserSends
    <3>3. CASE IsEstablished(session[n][p])
      <4>1. Becomes(n, p, AfterEncryption(session[n][p]))
        BY <3>2, <3>3 DEF ChatMessage, SlashDm, SendEncrypted
      <4> QED
        BY <2>1, <3>1, <3>3, <4>1, EmptyKept, EmptySessions
    <3>4. CASE ~IsEstablished(session[n][p])
      <4>1. PICK s : /\ StartHandshake(n, p, s)
                     /\ \A fresh : ~IsEstablished(InitiateHandshake(s, fresh))
        <5>1. session[n][p].state = "None" => session[n][p] = NoSession
          BY <3>1 DEF SessionGood
        <5> QED
          BY <3>1, <3>2, <3>4, <5>1, EmptySessions DEF ChatMessage, SlashDm, HasSession
      <4>2. PICK fresh : Becomes(n, p, InitiateHandshake(s, fresh))
        BY <4>1 DEF StartHandshake
      <4> QED
        BY <2>1, <4>1, <4>2, EmptyKept DEF EmptyIfEstablished
    <3> QED
      BY <3>3, <3>4
  <2>4. ASSUME NEW n \in Node, NEW p \in Peers(n), NEW packet, HandlePacket(n, p, packet)
        PROVE  QueuesEmpty'
    <3>1. SessionGood(n, p, session[n][p]) /\ EmptyIfEstablished(session[n][p])
      BY <1>2, <2>1, OfSession DEF QueuesEmpty
    <3>2. EmptyIfEstablished(NoSession)
      BY <3>1, EmptySessions
    <3>3. ASSUME Becomes(n, p, NoSession)
          PROVE  QueuesEmpty'
      BY <2>1, <3>2, <3>3, EmptyKept
    <3>4. CASE HandleNoiseHandshakeInit(n, p, packet)
      BY <1>2, <2>1, <3>4, EmptyAfterHandshake
    <3>5. CASE HandleEncryptedWithoutSession(n, p, packet)
      BY <3>3, <3>5 DEF HandleEncryptedWithoutSession, RemoveSession
    <3>6. CASE HandleUnreadable(n, p, packet)
      BY <2>2, <3>6 DEF HandleUnreadable
    <3>7. CASE HandlePrivateMessage(n, p, packet)
      <4>1. PICK ct : ct = packet.sealed
        OBVIOUS
      <4>2. ct \in Ciphertexts /\ IsEstablished(session[n][p])
        BY <1>2, <3>7, <4>1, Arrived DEF HandlePrivateMessage
      <4>3. PICK t : t = AfterDecryption(session[n][p], ct)
        OBVIOUS
      <4>4. Becomes(n, p, t) \/ Becomes(n, p, AfterEncryption(t))
        BY <3>7, <4>1, <4>3 DEF HandlePrivateMessage, DropDuplicate, Acknowledge
      <4> QED
        BY <2>1, <3>1, <4>2, <4>3, <4>4, EmptyKept, EmptySessions
    <3>8. CASE HandleDelivered(n, p, packet)
      <4>1. PICK ct : ct = packet.sealed
        OBVIOUS
      <4>2. /\ ct \in Ciphertexts /\ IsEstablished(session[n][p])
            /\ Becomes(n, p, AfterDecryption(session[n][p], ct))
        BY <1>2, <3>8, <4>1, Arrived DEF HandleDelivered
      <4> QED
        BY <2>1, <3>1, <4>2, EmptyKept, EmptySessions
    <3>9. CASE HandleHandshakeRequest(n, p, packet)
      <4>1. PICK s : s = CreateSession(NoSession, "Initiator")
        OBVIOUS
      <4>2. \/ UNCHANGED session
            \/ Becomes(n, p, InitiateHandshake(s, Fresh(n)))
        BY <3>9, <4>1 DEF HandleHandshakeRequest
      <4>3. ~IsEstablished(InitiateHandshake(s, Fresh(n)))
        BY <3>2, <4>1, NoSessionGood, EmptySessions DEF IsEstablished, HasSession, NoSession
      <4> QED
        BY <2>1, <2>2, <4>2, <4>3, EmptyKept DEF EmptyIfEstablished
    <3>10. CASE HandleLeave(n, p, packet)
      BY <3>3, <3>10 DEF HandleLeave, RemoveSession
    <3> QED
      BY <2>4, <3>4, <3>5, <3>6, <3>7, <3>8, <3>9, <3>10 DEF HandlePacket
  <2>5. ASSUME NEW n \in Node, ConnectionRetry(n)
        PROVE  QueuesEmpty'
    <3>1. session' = [session EXCEPT ![n] = [p \in Peers(n) |-> NoSession]]
      BY <2>5 DEF ConnectionRetry
    <3>2. DOMAIN session = Node
      BY <2>1 DEF SlotsOK
    <3>3. \A a \in Node : \A b \in Peers(a) :
             session'[a][b] = session[a][b] \/ session'[a][b] = NoSession
      BY <3>1, <3>2
    <3>4. EmptyIfEstablished(NoSession)
      BY DEF EmptyIfEstablished, IsEstablished, NoSession
    <3> QED
      BY <2>1, <3>3, <3>4 DEF QueuesEmpty
  <2>6. CASE Next
    <3>1. PICK n \in Node :
        \/ \E p \in Peers(n) : UserSends(n, p) \/ Receive(n, p) \/ HandleRequestSync(n, p)
        \/ LeaveChannel(n)
        \/ ConnectionRetry(n)
      BY <2>6 DEF Next
    <3> QED
      BY <2>2, <2>3, <2>4, <2>5, <3>1 DEF Receive, HandleRequestSync, LeaveChannel
  <2> QED
    BY <1>2, <2>2, <2>6 DEF vars
<1>3. IInv /\ Inv => EstablishedQueueEmpty
  <2>1. SUFFICES ASSUME QueuesEmpty, NEW pr \in Pair, IsEstablished(session[pr[1]][pr[2]])
                 PROVE  session[pr[1]][pr[2]].pending = <<>>
    BY DEF EstablishedQueueEmpty
  <2> QED
    BY <2>1, PairIs DEF QueuesEmpty, EmptyIfEstablished
<1> HIDE DEF Inv
<1> QED
  BY <1>1, <1>2, <1>3, Invariant, PTL DEF Spec

-----------------------------------------------------------------------------
(* Order.  Over one link, messages that wait for a session and messages that *)
(* are sent at once must not overtake each other, also if the message that   *)
(* completes a handshake could not be sent: the session is established then  *)
(* with its queue not flushed, and later messages of its user go out before  *)
(* those that wait, but under keys that its peer never gets.                 *)

(* The peer gets the keys of an initiator with the third message.            *)
IsThird(q) == q.type = "NoiseHandshakeInit" /\ q.noise.number = 3 /\ q.noise.honest
Hands(q, key) == IsThird(q) /\ q.noise.e = key.i /\ q.noise.re = key.r

(* p can read what n sends under key as the initiator, or will.              *)
Heard(n, p, key) ==
    /\ key.direction = 1
    /\ \/ IsEstablished(session[p][n]) /\ session[p][n].receive.key = key
       \/ \E q \in Contents(net[n][p]) : Hands(q, key)

(* The handshake of such a key is over; the queue of its session was flushed.*)
HeardOK ==
    \A n \in Node : \A p \in Peers(n) : \A key \in CipherKeys : Heard(n, p, key) =>
        /\ Drawn(n, key.i)
        /\ \A q \in Peers(n) : OwnKey(session[n][q]) = key.i =>
              IsEstablished(session[n][q]) /\ session[n][q].pending = <<>>

(* A responder flushes its queue when its session is established.            *)
Flushed(s) == IsEstablished(s) /\ s.send.key.direction = 2 => s.pending = <<>>
FlushedOK == \A n \in Node : \A p \in Peers(n) : Flushed(session[n][p])

(* Serial numbers are asked for one after the other.                         *)
AskedOK ==
    \A n \in Node : \A dm \in asked[n] : \A k \in 1..dm.serial - 1 : Dm(n, dm.to, k) \in asked[n]

(* The messages that p can read, or will.                                    *)
CarriesMessage(q) == q.type = "NoiseEncrypted" /\ q.sealed.payload.type = "message"
Readable(n, p, q) ==
    /\ CarriesMessage(q)
    /\ q.sealed.key.direction = 2 \/ Heard(n, p, q.sealed.key)
SerialOf(q) == q.sealed.payload.dm.serial

(* From the oldest message of n in box, over those of m that can be read, to *)
(* the newest in a queue that waits for a session.                           *)
InOrder(n, box, m, read, waits, queue) ==
    /\ \A i, j \in 1..Len(box) :
          i < j /\ box[i].from = n /\ box[j].from = n => box[i].dm.serial < box[j].dm.serial
    /\ \A i \in 1..Len(box) : \A j \in 1..Len(m) :
          box[i].from = n /\ m[j] \in read => box[i].dm.serial < SerialOf(m[j])
    /\ \A i, j \in 1..Len(m) :
          i < j /\ m[i] \in read /\ m[j] \in read => SerialOf(m[i]) < SerialOf(m[j])
    /\ waits =>
         /\ \A i \in 1..Len(box) : \A j \in 1..Len(queue) :
               box[i].from = n => box[i].dm.serial < queue[j].serial
         /\ \A i \in 1..Len(m) : \A j \in 1..Len(queue) :
               m[i] \in read => SerialOf(m[i]) < queue[j].serial
         /\ \A i, j \in 1..Len(queue) : i < j => queue[i].serial < queue[j].serial

ReadBy(n, p) == {q \in Packets : Readable(n, p, q)}
OrderOK ==
    \A n \in Node : \A p \in Peers(n) :
        InOrder(n, inbox[p], net[n][p], ReadBy(n, p),
                ~IsEstablished(session[n][p]), session[n][p].pending)

OrderInv == HeardOK /\ FlushedOK /\ AskedOK /\ OrderOK

(* A message that is taken from the medium comes next in the box.            *)
LEMMA ReceivedInOrder ==
  ASSUME NEW n, NEW box \in Seq(Entries), NEW m \in Seq(Packets), NEW read,
         NEW waits, NEW queue \in Seq(Dms), InOrder(n, box, m, read, waits, queue),
         NEW m2, m2 = m \/ (m # <<>> /\ m2 = Tail(m)),
         NEW box2 \in Seq(Entries),
         \/ box2 = box
         \/ \E x \in Entries :
              /\ box2 = Append(box, x)
              /\ x.from = n => /\ m # <<>> /\ m2 = Tail(m) /\ m[1] \in read
                               /\ x.dm.serial = SerialOf(m[1]),
         NEW read2 \in SUBSET read
  PROVE  InOrder(n, box2, m2, read2, waits, queue)
<1>1. PICK o \in {0, 1} :
        /\ Len(m2) = Len(m) - o
        /\ \A i \in 1..Len(m2) : i + o \in 1..Len(m) /\ m2[i] = m[i + o]
  <2>1. CASE m2 = m
    <3>1. Len(m2) = Len(m) - 0 /\ \A i \in 1..Len(m2) : i + 0 \in 1..Len(m) /\ m2[i] = m[i + 0]
      BY <2>1
    <3> QED
      BY <2>1, <3>1
  <2>2. CASE m # <<>> /\ m2 = Tail(m)
    <3>1. /\ Len(m2) = Len(m) - 1
          /\ \A i \in 1..Len(m2) : i + 1 \in 1..Len(m) /\ m2[i] = m[i + 1]
      BY <2>2
    <3> QED
      BY <2>2, <3>1
  <2> QED
    BY <2>1, <2>2
<1>2. Len(box) \in Nat /\ Len(m) \in Nat /\ Len(m2) \in Nat
  BY <1>1
<1>3. /\ \A i, j \in 1..Len(m2) :
           i < j /\ m2[i] \in read2 /\ m2[j] \in read2 => SerialOf(m2[i]) < SerialOf(m2[j])
      /\ \A i \in 1..Len(box) : \A j \in 1..Len(m2) :
           box[i].from = n /\ m2[j] \in read2 => box[i].dm.serial < SerialOf(m2[j])
  <2>1. \A i \in 1..Len(m2) : m2[i] \in read2 => m[i + o] \in read
    BY <1>1
  <2>2. \A i, j \in 1..Len(m2) : i < j => i + o < j + o
    BY <1>2
  <2>3. ASSUME NEW i \in 1..Len(m2), NEW j \in 1..Len(m2), i < j, m2[i] \in read2, m2[j] \in read2
        PROVE  SerialOf(m2[i]) < SerialOf(m2[j])
    <3>1. m[i + o] \in read /\ m[j + o] \in read /\ i + o < j + o
      BY <2>1, <2>2, <2>3
    <3>2. SerialOf(m[i + o]) < SerialOf(m[j + o])
      BY <1>1, <3>1 DEF InOrder
    <3> QED
      BY <1>1, <3>2
  <2> QED
    BY <1>1, <2>1, <2>3 DEF InOrder
<1>4. waits =>
         \A i \in 1..Len(m2) : \A j \in 1..Len(queue) :
             m2[i] \in read2 => SerialOf(m2[i]) < queue[j].serial
  BY <1>1 DEF InOrder
<1>5. CASE box2 = box
  BY <1>3, <1>4, <1>5 DEF InOrder
<1>6. ASSUME NEW x \in Entries, box2 = Append(box, x),
             x.from = n => /\ m # <<>> /\ m2 = Tail(m) /\ m[1] \in read
                           /\ x.dm.serial = SerialOf(m[1])
      PROVE  InOrder(n, box2, m2, read2, waits, queue)
  <2>1. /\ Len(box2) = Len(box) + 1
        /\ \A i \in 1..Len(box2) :
              \/ i \in 1..Len(box) /\ box2[i] = box[i]
              \/ i = Len(box) + 1 /\ box2[i] = x
    BY <1>6
  <2>2. x.from = n =>
          /\ 1 \in 1..Len(m) /\ m[1] \in read /\ x.dm.serial = SerialOf(m[1])
          /\ \A i \in 1..Len(m2) : i + 1 \in 1..Len(m) /\ m2[i] = m[i + 1]
    <3>1. m # <<>> => 1 \in 1..Len(m)
      OBVIOUS
    <3>2. m # <<>> /\ m2 = Tail(m) =>
            \A i \in 1..Len(m2) : i + 1 \in 1..Len(m) /\ m2[i] = m[i + 1]
      OBVIOUS
    <3> QED
      BY <1>6, <3>1, <3>2
  <2>3. x.from = n =>
          /\ \A i \in 1..Len(box) : box[i].from = n => box[i].dm.serial < x.dm.serial
          /\ \A i \in 1..Len(m2) : m2[i] \in read2 => x.dm.serial < SerialOf(m2[i])
    <3>1. ASSUME x.from = n, NEW i \in 1..Len(m2), m2[i] \in read2
          PROVE  x.dm.serial < SerialOf(m2[i])
      <4>1. 1 < i + 1 /\ i + 1 \in 1..Len(m) /\ m2[i] = m[i + 1] /\ m[i + 1] \in read
        BY <1>2, <2>2, <3>1
      <4>2. SerialOf(m[1]) < SerialOf(m[i + 1])
        BY <2>2, <3>1, <4>1 DEF InOrder
      <4> QED
        BY <2>2, <3>1, <4>1, <4>2
    <3> QED
      BY <2>2, <3>1 DEF InOrder
  <2>4. x.from = n => (waits => \A j \in 1..Len(queue) : x.dm.serial < queue[j].serial)
    BY <2>2 DEF InOrder
  <2>5. \A i, j \in 1..Len(box2) :
           i < j /\ box2[i].from = n /\ box2[j].from = n
              => box2[i].dm.serial < box2[j].dm.serial
    BY <1>2, <2>1, <2>3 DEF InOrder
  <2>6. \A i \in 1..Len(box2) : \A j \in 1..Len(m2) :
           box2[i].from = n /\ m2[j] \in read2 => box2[i].dm.serial < SerialOf(m2[j])
    BY <1>3, <2>1, <2>3
  <2>7. waits =>
         \A i \in 1..Len(box2) : \A j \in 1..Len(queue) :
             box2[i].from = n => box2[i].dm.serial < queue[j].serial
    BY <2>1, <2>4 DEF InOrder
  <2>8. waits => \A i, j \in 1..Len(queue) : i < j => queue[i].serial < queue[j].serial
    BY DEF InOrder
  <2> QED
    BY <1>3, <1>4, <2>5, <2>6, <2>7, <2>8 DEF InOrder
<1> QED
  BY <1>5, <1>6

(* What is sent is newer than what was, and if it had waited, nothing waits  *)
(* any more.                                                                 *)
LEMMA SentInOrder ==
  ASSUME NEW n, NEW box \in Seq(Entries), NEW m \in Seq(Packets), NEW read,
         NEW waits, NEW queue \in Seq(Dms), InOrder(n, box, m, read, waits, queue),
         NEW read2, \A i \in 1..Len(m) : m[i] \in read2 => m[i] \in read,
         NEW out \in Seq(Packets),
         \A i \in 1..Len(out) : out[i] \in read2 =>
            /\ \A j \in 1..Len(box) : box[j].from = n => box[j].dm.serial < SerialOf(out[i])
            /\ \A j \in 1..Len(m) : m[j] \in read => SerialOf(m[j]) < SerialOf(out[i])
            /\ \A j \in 1..Len(out) :
                 i < j /\ out[j] \in read2 => SerialOf(out[i]) < SerialOf(out[j]),
         NEW waits2, NEW queue2 \in Seq(Dms),
         waits2 => /\ \A i \in 1..Len(out) : out[i] \notin read2
                   /\ \/ queue2 = <<>>
                      \/ waits /\ queue2 = queue
                      \/ /\ waits
                         /\ \E dm \in Dms :
                            /\ queue2 = Append(queue, dm)
                            /\ \A j \in 1..Len(box) : box[j].from = n => box[j].dm.serial < dm.serial
                            /\ \A j \in 1..Len(m) : m[j] \in read => SerialOf(m[j]) < dm.serial
                            /\ \A j \in 1..Len(queue) : queue[j].serial < dm.serial
  PROVE  InOrder(n, box, m \o out, read2, waits2, queue2)
<1>1. PICK w : w = m \o out
  OBVIOUS
<1>2. /\ Len(w) = Len(m) + Len(out) /\ Len(m) \in Nat /\ Len(out) \in Nat
      /\ \A i \in 1..Len(w) :
           \/ i \in 1..Len(m) /\ w[i] = m[i]
           \/ /\ i \notin 1..Len(m) /\ i - Len(m) \in 1..Len(out)
              /\ w[i] = out[i - Len(m)]
  BY <1>1
<1>3. \A i, j \in 1..Len(w) :
        i < j /\ w[i] \in read2 /\ w[j] \in read2 => SerialOf(w[i]) < SerialOf(w[j])
  <2>1. SUFFICES ASSUME NEW i \in 1..Len(w), NEW j \in 1..Len(w), i < j,
                        w[i] \in read2, w[j] \in read2
                 PROVE  SerialOf(w[i]) < SerialOf(w[j])
    OBVIOUS
  <2>2. CASE i \in 1..Len(m) /\ w[i] = m[i] /\ j \in 1..Len(m) /\ w[j] = m[j]
    BY <2>1, <2>2 DEF InOrder
  <2>3. CASE i \in 1..Len(m) /\ w[i] = m[i] /\ j - Len(m) \in 1..Len(out) /\ w[j] = out[j - Len(m)]
    BY <2>1, <2>3
  <2>4. CASE /\ i - Len(m) \in 1..Len(out) /\ w[i] = out[i - Len(m)]
             /\ j - Len(m) \in 1..Len(out) /\ w[j] = out[j - Len(m)]
    <3>1. i - Len(m) < j - Len(m)
      BY <1>2, <2>1
    <3> QED
      BY <2>1, <2>4, <3>1
  <2> QED
    BY <1>2, <2>1, <2>2, <2>3, <2>4
<1>4. \A i \in 1..Len(box) : \A j \in 1..Len(w) :
          box[i].from = n /\ w[j] \in read2 => box[i].dm.serial < SerialOf(w[j])
  BY <1>2 DEF InOrder
<1>5. ASSUME waits2, NEW j \in 1..Len(queue2)
      PROVE  /\ \A i \in 1..Len(box) : box[i].from = n => box[i].dm.serial < queue2[j].serial
             /\ \A i \in 1..Len(w) : w[i] \in read2 => SerialOf(w[i]) < queue2[j].serial
             /\ \A i \in 1..Len(queue2) : i < j => queue2[i].serial < queue2[j].serial
  <2>1. \A i \in 1..Len(w) : w[i] \in read2 =>
           i \in 1..Len(m) /\ w[i] = m[i] /\ m[i] \in read
    BY <1>2, <1>5
  <2>2. queue2 # <<>>
    BY <1>5
  <2>3. CASE waits /\ queue2 = queue
    BY <1>5, <2>1, <2>3 DEF InOrder
  <2>4. ASSUME waits,
               NEW dm \in Dms, queue2 = Append(queue, dm),
               \A i \in 1..Len(box) : box[i].from = n => box[i].dm.serial < dm.serial,
               \A i \in 1..Len(m) : m[i] \in read => SerialOf(m[i]) < dm.serial,
               \A i \in 1..Len(queue) : queue[i].serial < dm.serial
        PROVE  /\ \A i \in 1..Len(box) : box[i].from = n => box[i].dm.serial < queue2[j].serial
               /\ \A i \in 1..Len(w) : w[i] \in read2 => SerialOf(w[i]) < queue2[j].serial
               /\ \A i \in 1..Len(queue2) : i < j => queue2[i].serial < queue2[j].serial
    <3>1. /\ Len(queue2) = Len(queue) + 1 /\ Len(queue) \in Nat
          /\ \A i \in 1..Len(queue2) :
                \/ i \in 1..Len(queue) /\ queue2[i] = queue[i]
                \/ i = Len(queue) + 1 /\ queue2[i] = dm
      BY <2>4
    <3>2. CASE j \in 1..Len(queue) /\ queue2[j] = queue[j]
      <4>1. \A i \in 1..Len(queue2) : i < j => i \in 1..Len(queue) /\ queue2[i] = queue[i]
        BY <3>1, <3>2
      <4> QED
        BY <2>1, <2>4, <3>2, <4>1 DEF InOrder
    <3>3. CASE j = Len(queue) + 1 /\ queue2[j] = dm
      <4>1. \A i \in 1..Len(queue2) : i < j => i \in 1..Len(queue) /\ queue2[i] = queue[i]
        BY <3>1, <3>3
      <4> QED
        BY <2>1, <2>4, <3>3, <4>1
    <3> QED
      BY <3>1, <3>2, <3>3
  <2> QED
    BY <1>5, <2>2, <2>3, <2>4
<1>6. InOrder(n, box, w, read2, waits2, queue2)
  BY <1>3, <1>4, <1>5 DEF InOrder
<1> QED
  BY <1>1, <1>6

-----------------------------------------------------------------------------
(* What a step may do to the order.                                          *)

(* A session that stays established keeps its keys, and its queue or none of *)
(* it; one that gets established as a responder has flushed its queue.       *)
Moved(n, s, t) ==
    /\ OwnKey(t) = NoKey \/ Kept(s, t) \/ (OwnKey(t) = Fresh(n) /\ ~IsEstablished(t))
    /\ IsEstablished(s) /\ IsEstablished(t) =>
          t.receive.key = s.receive.key /\ t.pending \in {s.pending, <<>>}
    /\ ~IsEstablished(s) => Flushed(t)

AskedNow(n, p, dm) == dm \in asked'[n] \ asked[n] /\ dm.from = n /\ dm.to = p

(* Nothing but the third message of the session's handshake, which leaves    *)
(* its queue flushed.                                                        *)
ThirdsGood(s, t, out) ==
    \A i \in 1..Len(out) : IsThird(out[i]) =>
        /\ ~IsEstablished(s) /\ OwnKey(s) = out[i].noise.e
        /\ IsEstablished(t) /\ OwnKey(t) = out[i].noise.e /\ t.pending = <<>>

(* Nothing is sealed, or one new message, or what has waited, in its order.  *)
Quiet(n, p, s, t, out) ==
    /\ \A i \in 1..Len(out) : ~CarriesMessage(out[i])
    /\ \/ IsEstablished(t) \/ t.pending = <<>>
       \/ ~IsEstablished(s) /\ t.pending = s.pending
       \/ ~IsEstablished(s) /\ \E dm \in Dms : AskedNow(n, p, dm) /\ t.pending = Append(s.pending, dm)
AtOnce(n, p, s, t, out) ==
    /\ IsEstablished(s) /\ IsEstablished(t) /\ Len(out) = 1
    /\ \E dm \in Dms : AskedNow(n, p, dm) /\ out[1].sealed.payload.dm = dm
InTurn(s, t, out) ==
    /\ IsEstablished(t)
    /\ \E place : \A i \in 1..Len(out) : CarriesMessage(out[i]) =>
          /\ out[i].sealed.key = t.send.key
          /\ place[i] \in 1..Len(s.pending)
          /\ out[i].sealed.payload.dm = s.pending[place[i]]
          /\ \A j \in 1..Len(out) : i < j /\ CarriesMessage(out[j]) => place[i] < place[j]

SentGood(n, p, s, t, out) ==
    /\ ThirdsGood(s, t, out)
    /\ Quiet(n, p, s, t, out) \/ AtOnce(n, p, s, t, out) \/ InTurn(s, t, out)

(* n sends to p.                                                             *)
SenderStep(n, p) ==
    /\ session'[p][n] = session[p][n] /\ inbox'[p] = inbox[p]
    /\ \E out \in Seq(Packets) :
          /\ net'[n][p] = net[n][p] \o out
          /\ SentGood(n, p, session[n][p], session'[n][p], out)

(* p may take what comes next from n, may show it, if it can read it, and may*)
(* get its keys from it.                                                     *)
Taken(n, p) == net[n][p] # <<>> /\ net'[n][p] = Tail(net[n][p])
Shows(n, p, x) ==
    /\ Taken(n, p) /\ CarriesMessage(net[n][p][1])
    /\ IsEstablished(session[p][n])
    /\ net[n][p][1].sealed.key = session[p][n].receive.key
    /\ x.dm = net[n][p][1].sealed.payload.dm
ReceiverStep(n, p) ==
    /\ session'[n][p] = session[n][p]
    /\ net'[n][p] = net[n][p] \/ Taken(n, p)
    /\ \/ inbox'[p] = inbox[p]
       \/ \E x \in Entries : inbox'[p] = Append(inbox[p], x) /\ (x.from = n => Shows(n, p, x))
    /\ IsEstablished(session'[p][n]) /\ session'[p][n].receive.key.direction = 1 =>
          \/ /\ IsEstablished(session[p][n])
             /\ session'[p][n].receive.key = session[p][n].receive.key
          \/ Taken(n, p) /\ Hands(net[n][p][1], session'[p][n].receive.key)

(* Key and message are drawn and asked for one after the other.              *)
Counted ==
    /\ \A n \in Node : ephemerals[n] <= ephemerals'[n] /\ asked[n] \subseteq asked'[n]
    /\ \A n \in Node : \A dm \in asked'[n] \ asked[n] : \A k \in 1..dm.serial - 1 :
          Dm(n, dm.to, k) \in asked[n]

StepOfOrder ==
    /\ Counted
    /\ \A n \in Node : \A p \in Peers(n) :
          /\ Moved(n, session[n][p], session'[n][p])
          /\ SenderStep(n, p) \/ ReceiverStep(n, p)

(* p hears of a key when n sends its third message, which ends the handshake *)
(* under that key.                                                           *)
LEMMA HeardBefore ==
  ASSUME Ordered, ShapesOK, ShapesOK', NEW n \in Node, NEW p \in Peers(n),
         SenderStep(n, p) \/ ReceiverStep(n, p), NEW key, Heard(n, p, key)'
  PROVE  \/ Heard(n, p, key)
         \/ LET s == session[n][p]
                t == session'[n][p]
            IN  /\ ~IsEstablished(s) /\ OwnKey(s) = key.i
                /\ IsEstablished(t) /\ OwnKey(t) = key.i /\ t.pending = <<>>
<1>1. net[n][p] \in Seq(Packets) /\ net'[n][p] \in Seq(Packets)
  BY DEF ShapesOK, SlotsOK, Media
<1>2. PICK m, m2 : m = net[n][p] /\ m2 = net'[n][p]
  OBVIOUS
<1>3. /\ key.direction = 1
      /\ \/ IsEstablished(session'[p][n]) /\ session'[p][n].receive.key = key
         \/ \E i \in 1..Len(m2) : Hands(m2[i], key)
  BY <1>2 DEF Heard, Contents, Elements
<1>4. key.direction = 1 /\ (\E i \in 1..Len(m) : Hands(m[i], key)) => Heard(n, p, key)
  BY <1>2 DEF Heard, Contents, Elements
<1>5. key.direction = 1 /\ IsEstablished(session[p][n]) /\ session[p][n].receive.key = key
         => Heard(n, p, key)
  BY DEF Heard
<1>6. CASE ReceiverStep(n, p)
  <2>1. m2 = m \/ (m # <<>> /\ m2 = Tail(m))
    BY <1>2, <1>6 DEF ReceiverStep, Taken
  <2>2. \A i \in 1..Len(m2) : \E j \in 1..Len(m) : m2[i] = m[j]
    <3>1. m # <<>> /\ m2 = Tail(m) => \A i \in 1..Len(m2) : i + 1 \in 1..Len(m) /\ m2[i] = m[i + 1]
      BY <1>1, <1>2
    <3> QED
      BY <2>1, <3>1
  <2>3. m # <<>> => 1 \in 1..Len(m)
    BY <1>1, <1>2
  <2>4. CASE IsEstablished(session'[p][n]) /\ session'[p][n].receive.key = key
    BY <1>2, <1>3, <1>4, <1>5, <1>6, <2>3, <2>4 DEF ReceiverStep, Taken
  <2> QED
    BY <1>3, <1>4, <2>2, <2>4
<1>7. CASE SenderStep(n, p)
  <2>1. PICK out \in Seq(Packets) :
           m2 = m \o out /\ SentGood(n, p, session[n][p], session'[n][p], out)
    BY <1>2, <1>7 DEF SenderStep
  <2>2. \A i \in 1..Len(m2) : \/ \E j \in 1..Len(m) : m2[i] = m[j]
                              \/ \E j \in 1..Len(out) : m2[i] = out[j]
    <3>1. /\ Len(m) \in Nat /\ Len(m2) = Len(m) + Len(out)
          /\ \A i \in 1..Len(m2) : \/ i \in 1..Len(m) /\ m2[i] = m[i]
                                   \/ i - Len(m) \in 1..Len(out) /\ m2[i] = out[i - Len(m)]
      BY <1>1, <1>2, <2>1
    <3> QED
      BY <3>1
  <2>3. CASE IsEstablished(session'[p][n]) /\ session'[p][n].receive.key = key
    BY <1>3, <1>5, <1>7, <2>3 DEF SenderStep
  <2>4. ASSUME NEW j \in 1..Len(out), Hands(out[j], key)
        PROVE  LET s == session[n][p]
                   t == session'[n][p]
               IN  /\ ~IsEstablished(s) /\ OwnKey(s) = key.i
                   /\ IsEstablished(t) /\ OwnKey(t) = key.i /\ t.pending = <<>>
    BY <2>1, <2>4 DEF SentGood, ThirdsGood, Hands
  <2> QED
    BY <1>3, <1>4, <2>2, <2>3, <2>4
<1> QED
  BY <1>6, <1>7

(* The handshakes of the keys that are heard of stay over.                   *)
LEMMA HeardKept ==
  ASSUME Ordered, IInv, IInv', HeardOK, StepOfOrder
  PROVE  HeardOK'
<1>1. /\ ShapesOK /\ ShapesOK' /\ SessionsOK /\ SessionsOK' /\ OwnKeysOK
      /\ HistoriesOK /\ HistoriesOK'
  BY DEF IInv, KeysInv, ShapesOK
<1>2. SUFFICES ASSUME NEW n \in Node, NEW p \in Peers(n), NEW key \in CipherKeys,
                      Heard(n, p, key)', NEW q \in Peers(n)
               PROVE  /\ Drawn(n, key.i)'
                      /\ OwnKey(session'[n][q]) = key.i =>
                            IsEstablished(session'[n][q]) /\ session'[n][q].pending = <<>>
  BY DEF HeardOK
<1>3. PICK s, t : s = session[n][q] /\ t = session'[n][q]
  OBVIOUS
<1>4. /\ Moved(n, s, t) /\ SessionGood(n, q, s) /\ SessionGood(n, q, t)
      /\ ephemerals[n] \in Nat /\ ephemerals'[n] \in Nat /\ ephemerals[n] <= ephemerals'[n]
  BY <1>1, <1>3 DEF StepOfOrder, Counted, SessionsOK, HistoriesOK
<1>5. \A e : Drawn(n, e) => Drawn(n, e)' /\ e # Fresh(n) /\ e # NoKey
  <2>1. SUFFICES ASSUME NEW e, Drawn(n, e)
                 PROVE  Drawn(n, e)' /\ e # Fresh(n) /\ e # NoKey
    OBVIOUS
  <2>2. e.owner = n /\ e.serial \in 1..ephemerals[n]
    BY <2>1 DEF Drawn
  <2>3. e.serial \in 1..ephemerals'[n] /\ e.serial # ephemerals[n] + 1
    BY <1>4, <2>2
  <2> QED
    BY <2>2, <2>3, NoKeyIsNobodys DEF Drawn, Fresh, Ephemeral
<1>6. CASE Heard(n, p, key)
  <2>1. /\ Drawn(n, key.i)
        /\ OwnKey(s) = key.i => IsEstablished(s) /\ s.pending = <<>>
    BY <1>2, <1>3, <1>6 DEF HeardOK
  <2>2. ASSUME OwnKey(t) = key.i
        PROVE  IsEstablished(t) /\ t.pending = <<>>
    <3>1. Kept(s, t)
      BY <1>4, <1>5, <2>1, <2>2 DEF Moved
    <3>2. IsEstablished(s) /\ s.pending = <<>> /\ IsEstablished(t)
      BY <2>1, <2>2, <3>1 DEF Kept, IsEstablished
    <3> QED
      BY <1>4, <3>2 DEF Moved
  <2> QED
    BY <1>3, <1>5, <2>1, <2>2
<1>7. CASE ~Heard(n, p, key)
  <2>1. /\ ~IsEstablished(session[n][p]) /\ OwnKey(session[n][p]) = key.i
        /\ IsEstablished(session'[n][p]) /\ OwnKey(session'[n][p]) = key.i
        /\ session'[n][p].pending = <<>>
    BY <1>1, <1>2, <1>7, HeardBefore DEF StepOfOrder
  <2>2. key.i # NoKey
    <3>1. SessionGood(n, p, session'[n][p])
      BY <1>1, <1>2 DEF SessionsOK
    <3> QED
      BY <2>1, <3>1, OwnKeyIsOwn DEF IsEstablished
  <2>3. Drawn(n, key.i) /\ (q # p => OwnKey(s) # key.i)
    BY <1>1, <1>3, <2>1, <2>2 DEF OwnKeysOK
  <2>4. q # p => OwnKey(t) # key.i
    BY <1>4, <1>5, <2>2, <2>3 DEF Moved, Kept
  <2> QED
    BY <1>3, <1>5, <2>1, <2>3, <2>4
<1> QED
  BY <1>6, <1>7

(* ... and a responder's queue stays flushed.                                *)
LEMMA FlushedKept ==
  ASSUME IInv, IInv', FlushedOK, StepOfOrder
  PROVE  FlushedOK'
<1>1. SUFFICES ASSUME NEW n \in Node, NEW p \in Peers(n)
               PROVE  Flushed(session'[n][p])
  BY DEF FlushedOK
<1>2. PICK s, t : s = session[n][p] /\ t = session'[n][p]
  OBVIOUS
<1>3. Moved(n, s, t) /\ Flushed(s)
  BY <1>1, <1>2 DEF StepOfOrder, FlushedOK
<1>4. IsEstablished(t) => OwnKey(t) # NoKey
  <2>1. SessionGood(n, p, t)
    BY <1>1, <1>2 DEF IInv, KeysInv, SessionsOK
  <2> QED
    BY <1>1, <2>1, OwnKeyIsOwn DEF IsEstablished
<1>5. CASE IsEstablished(s) /\ IsEstablished(t)
  <2>1. t.send.key = s.send.key
    BY <1>3, <1>4, <1>5 DEF Moved, Kept, IsEstablished
  <2> QED
    BY <1>2, <1>3, <1>5, <2>1 DEF Moved, Flushed
<1> QED
  BY <1>2, <1>3, <1>5 DEF Moved, Flushed

(* A message that has just been asked for is newer than all before it.       *)
LEMMA NewestIsLast ==
  ASSUME Ordered, IInv, IInv', AskedOK, StepOfOrder, NEW n \in Node, NEW p \in Peers(n),
         NEW dm \in Dms, AskedNow(n, p, dm)
  PROVE  /\ \A i \in 1..Len(inbox[p]) :
              inbox[p][i].from = n => inbox[p][i].dm.serial < dm.serial
         /\ \A i \in 1..Len(net[n][p]) :
              CarriesMessage(net[n][p][i]) => SerialOf(net[n][p][i]) < dm.serial
         /\ \A i \in 1..Len(session[n][p].pending) : session[n][p].pending[i].serial < dm.serial
<1>1. p \in Node
  BY DEF Peers
<1>2. \A d \in Dms : /\ d.serial \in 1..MaxDms /\ MaxDms \in Nat
                     /\ d = Dm(d.from, d.to, d.serial)
  BY BoundsAssumption DEF Dms, Dm
<1>3. ASSUME NEW d \in asked[n], d.from = n, d.to = p
      PROVE  d.serial < dm.serial
  <2>1. d \in Dms
    BY DEF IInv, ShapesOK, HistoriesOK
  <2>2. dm = Dm(n, p, dm.serial) /\ dm \notin asked[n] /\ d = Dm(n, p, d.serial)
    BY <1>2, <1>3, <2>1 DEF AskedNow
  <2>3. dm.serial # d.serial
    BY <1>3, <2>2
  <2>4. dm.serial \notin 1..d.serial - 1
    BY <1>3, <2>2 DEF AskedOK
  <2>5. d.serial \in 1..MaxDms /\ dm.serial \in 1..MaxDms /\ MaxDms \in Nat
    BY <1>2, <2>1
  <2> QED
    BY <2>3, <2>4, <2>5
<1>4. ClaimsOK /\ QueuesOK /\ SealedOK /\ InboxesOK
  BY DEF IInv, MessagesInv
<1>5. ASSUME NEW i \in 1..Len(inbox[p]), inbox[p][i].from = n
      PROVE  inbox[p][i].dm.serial < dm.serial
  <2>1. ClaimOf(inbox[p][i]) \in ClaimedBy(n)
    BY <1>1, <1>5 DEF ClaimedBy, ShownClaims, ShownFrom
  <2>2. inbox[p][i].dm \in asked[n] /\ inbox[p][i].dm.from = n
    BY <1>4, <2>1 DEF ClaimsOK, ClaimOf
  <2> QED
    BY <1>1, <1>3, <1>4, <2>2 DEF InboxesOK
<1>6. ASSUME NEW i \in 1..Len(net[n][p]), CarriesMessage(net[n][p][i])
      PROVE  SerialOf(net[n][p][i]) < dm.serial
  <2>1. PICK ct : ct = net[n][p][i].sealed
    OBVIOUS
  <2>2. ct \in SealedTo(n, p) /\ ct.payload.type = "message"
    BY <1>6, <2>1 DEF SealedTo, Contents, Elements, CarriesMessage
  <2>3. ClaimOf(ct.payload) \in ClaimedBy(n)
    BY <2>2 DEF ClaimedBy, SealedClaims
  <2>4. ct.payload.dm \in asked[n]
    BY <1>4, <2>3 DEF ClaimsOK, ClaimOf
  <2>5. ct.payload.dm.from = n /\ ct.payload.dm.to = p
    BY <1>4, <2>2 DEF SealedOK, SealedGood
  <2> QED
    BY <1>3, <2>1, <2>4, <2>5 DEF SerialOf
<1>7. ASSUME NEW i \in 1..Len(session[n][p].pending)
      PROVE  session[n][p].pending[i].serial < dm.serial
  BY <1>3, <1>4, <1>7 DEF QueuesOK
<1> QED
  BY <1>5, <1>6, <1>7

(* A key that is new to p has sealed nothing yet.                            *)
LEMMA ReadBefore ==
  ASSUME Ordered, IInv, IInv', NEW n \in Node, NEW p \in Peers(n),
         SenderStep(n, p) \/ ReceiverStep(n, p),
         NEW q \in Contents(net[n][p]), q \in ReadBy(n, p)'
  PROVE  q \in ReadBy(n, p)
<1>1. ShapesOK /\ ShapesOK' /\ IdsSpent
  BY DEF IInv, KeysInv
<1>2. q \in Packets /\ CarriesMessage(q)
      /\ (q.sealed.key.direction = 2 \/ Heard(n, p, q.sealed.key)')
  BY DEF ReadBy, Readable
<1>3. PICK ct : ct = q.sealed
  OBVIOUS
<1>4. ct \in SealedTo(n, p)
  BY <1>2, <1>3 DEF SealedTo, CarriesMessage
<1>5. CASE Heard(n, p, ct.key)' /\ ~Heard(n, p, ct.key)
  <2>1. /\ ~IsEstablished(session[n][p]) /\ OwnKey(session[n][p]) = ct.key.i
    BY <1>1, <1>5, HeardBefore
  <2>2. ct.key.direction = 1
    BY <1>5 DEF Heard
  <2>3. Spent(n, MessageId(ct))
    BY <1>1, <1>4 DEF IdsSpent
  <2> QED
    BY <2>1, <2>2, <2>3 DEF Spent, SenderKey, MessageId, IsEstablished
<1> QED
  BY <1>2, <1>3, <1>5 DEF ReadBy, Readable

(* What is sent comes after all that was sent before.                        *)
LEMMA SenderInOrder ==
  ASSUME Ordered, IInv, IInv', OrderInv, StepOfOrder, NEW n \in Node, NEW p \in Peers(n),
         SenderStep(n, p)
  PROVE  InOrder(n, inbox'[p], net'[n][p], ReadBy(n, p)', ~IsEstablished(session'[n][p]),
                 session'[n][p].pending)
<1>1. ShapesOK /\ ShapesOK' /\ SessionsOK /\ p \in Node
  BY DEF IInv, KeysInv, Peers
<1>2. PICK s, t, box, m, read, read2 :
        /\ s = session[n][p] /\ t = session'[n][p] /\ box = inbox[p] /\ m = net[n][p]
        /\ read = ReadBy(n, p) /\ read2 = ReadBy(n, p)'
  OBVIOUS
<1>3. /\ box \in Seq(Entries) /\ m \in Seq(Packets)
      /\ s.pending \in Seq(Dms) /\ t.pending \in Seq(Dms)
  <2>1. s \in Sessions /\ t \in Sessions
    BY <1>1, <1>2 DEF ShapesOK, SlotsOK
  <2> QED
    BY <1>1, <1>2, <2>1 DEF ShapesOK, SlotsOK, HistoriesOK, Media, Sessions
<1>4. InOrder(n, box, m, read, ~IsEstablished(s), s.pending)
  BY <1>2 DEF OrderInv, OrderOK
<1>5. PICK out \in Seq(Packets) :
        /\ net'[n][p] = m \o out
        /\ SentGood(n, p, s, t, out)
  BY <1>2 DEF SenderStep
<1>6. inbox'[p] = box
  BY <1>2 DEF SenderStep
<1>7. \A i \in 1..Len(m) : m[i] \in read2 => m[i] \in read
  BY <1>2, ReadBefore DEF Contents, Elements
<1>8. \A i \in 1..Len(m) : m[i] \in read => CarriesMessage(m[i])
  BY <1>2 DEF ReadBy, Readable
<1>9. \A i \in 1..Len(out) : out[i] \in read2 =>
         /\ CarriesMessage(out[i])
         /\ out[i].sealed.key.direction = 2 \/ Heard(n, p, out[i].sealed.key)'
  BY <1>2 DEF ReadBy, Readable
<1>10. \A dm \in Dms : AskedNow(n, p, dm) =>
         /\ \A i \in 1..Len(box) : box[i].from = n => box[i].dm.serial < dm.serial
         /\ \A i \in 1..Len(m) : CarriesMessage(m[i]) => SerialOf(m[i]) < dm.serial
         /\ \A i \in 1..Len(s.pending) : s.pending[i].serial < dm.serial
  BY <1>2, NewestIsLast DEF OrderInv
<1>11. CASE Quiet(n, p, s, t, out)
  <2>1. \A i \in 1..Len(out) : out[i] \notin read2
    BY <1>9, <1>11 DEF Quiet
  <2>2. \/ IsEstablished(t) \/ t.pending = <<>>
        \/ ~IsEstablished(s) /\ t.pending = s.pending
        \/ /\ ~IsEstablished(s)
           /\ \E dm \in Dms : AskedNow(n, p, dm) /\ t.pending = Append(s.pending, dm)
    BY <1>11 DEF Quiet
  <2>3. ~IsEstablished(t) =>
          /\ \A i \in 1..Len(out) : out[i] \notin read2
          /\ \/ t.pending = <<>>
             \/ ~IsEstablished(s) /\ t.pending = s.pending
             \/ /\ ~IsEstablished(s)
                /\ \E dm \in Dms :
                     /\ t.pending = Append(s.pending, dm)
                     /\ \A j \in 1..Len(box) : box[j].from = n => box[j].dm.serial < dm.serial
                     /\ \A j \in 1..Len(m) : m[j] \in read => SerialOf(m[j]) < dm.serial
                     /\ \A j \in 1..Len(s.pending) : s.pending[j].serial < dm.serial
    BY <1>8, <1>10, <2>1, <2>2
  <2>4. InOrder(n, box, m \o out, read2, ~IsEstablished(t), t.pending)
    BY <1>3, <1>4, <1>7, <2>1, <2>3, SentInOrder
  <2> QED
    BY <1>2, <1>5, <1>6, <2>4
<1>12. CASE AtOnce(n, p, s, t, out)
  <2>1. PICK dm \in Dms : AskedNow(n, p, dm) /\ out[1].sealed.payload.dm = dm
    BY <1>12 DEF AtOnce
  <2>2. IsEstablished(t) /\ Len(out) = 1
    BY <1>12 DEF AtOnce
  <2>3. \A i \in 1..Len(out) : i = 1 /\ SerialOf(out[i]) = dm.serial
    BY <2>1, <2>2 DEF SerialOf
  <2>4. \A i \in 1..Len(out) : out[i] \in read2 =>
            /\ \A j \in 1..Len(box) : box[j].from = n => box[j].dm.serial < SerialOf(out[i])
            /\ \A j \in 1..Len(m) : m[j] \in read => SerialOf(m[j]) < SerialOf(out[i])
            /\ \A j \in 1..Len(out) :
                 i < j /\ out[j] \in read2 => SerialOf(out[i]) < SerialOf(out[j])
    BY <1>8, <1>10, <2>1, <2>3
  <2>5. InOrder(n, box, m \o out, read2, ~IsEstablished(t), t.pending)
    BY <1>3, <1>4, <1>7, <2>2, <2>4, SentInOrder
  <2> QED
    BY <1>2, <1>5, <1>6, <2>5
<1>13. CASE InTurn(s, t, out)
  <2>1. PICK place : \A i \in 1..Len(out) : CarriesMessage(out[i]) =>
          /\ out[i].sealed.key = t.send.key
          /\ place[i] \in 1..Len(s.pending)
          /\ out[i].sealed.payload.dm = s.pending[place[i]]
          /\ \A j \in 1..Len(out) : i < j /\ CarriesMessage(out[j]) => place[i] < place[j]
    BY <1>13 DEF InTurn
  <2>2. ASSUME IsEstablished(s), NEW i \in 1..Len(out), out[i] \in read2
        PROVE  FALSE
    <3>1. CarriesMessage(out[i]) /\ s.pending # <<>> /\ out[i].sealed.key = t.send.key
      BY <1>9, <2>1, <2>2
    <3>2. SessionGood(n, p, s) /\ SessionGood(n, p, t) /\ Moved(n, s, t) /\ IsEstablished(t)
      BY <1>2, <1>13 DEF IInv, KeysInv, SessionsOK, StepOfOrder, InTurn
    <3>3. t.send.key = s.send.key /\ OwnKey(s) = SenderKey(s.send.key)
      BY <2>2, <3>2, OwnKeyIsOwn DEF Moved, Kept, IsEstablished
    <3>4. s.send.key.direction # 2 /\ s.send.key \in CipherKeys
      BY <1>2, <2>2, <3>1, <3>2 DEF OrderInv, FlushedOK, Flushed, SessionGood, Sessions, Ciphers
    <3>5. Heard(n, p, s.send.key)'
      BY <1>9, <2>2, <3>1, <3>3, <3>4
    <3>6. Heard(n, p, s.send.key)
      BY <1>1, <1>2, <2>2, <3>5, HeardBefore
    <3>7. OwnKey(s) = s.send.key.i
      BY <3>3, <3>6 DEF SenderKey, Heard
    <3> QED
      BY <1>2, <3>1, <3>4, <3>6, <3>7 DEF OrderInv, HeardOK
  <2>3. ASSUME ~IsEstablished(s), NEW i \in 1..Len(out), out[i] \in read2
        PROVE  /\ \A j \in 1..Len(box) : box[j].from = n => box[j].dm.serial < SerialOf(out[i])
               /\ \A j \in 1..Len(m) : m[j] \in read => SerialOf(m[j]) < SerialOf(out[i])
               /\ \A j \in 1..Len(out) :
                    i < j /\ out[j] \in read2 => SerialOf(out[i]) < SerialOf(out[j])
    <3>1. /\ place[i] \in 1..Len(s.pending)
          /\ SerialOf(out[i]) = s.pending[place[i]].serial
          /\ \A j \in 1..Len(out) : i < j /\ out[j] \in read2 =>
                /\ place[j] \in 1..Len(s.pending) /\ place[i] < place[j]
                /\ SerialOf(out[j]) = s.pending[place[j]].serial
      BY <1>9, <2>1, <2>3 DEF SerialOf
    <3> QED
      BY <1>4, <2>3, <3>1 DEF InOrder
  <2>4. IsEstablished(t)
    BY <1>13 DEF InTurn
  <2>5. \A i \in 1..Len(out) : out[i] \in read2 =>
            /\ \A j \in 1..Len(box) : box[j].from = n => box[j].dm.serial < SerialOf(out[i])
            /\ \A j \in 1..Len(m) : m[j] \in read => SerialOf(m[j]) < SerialOf(out[i])
            /\ \A j \in 1..Len(out) :
                 i < j /\ out[j] \in read2 => SerialOf(out[i]) < SerialOf(out[j])
    BY <2>2, <2>3
  <2>6. InOrder(n, box, m \o out, read2, ~IsEstablished(t), t.pending)
    BY <1>3, <1>4, <1>7, <2>4, <2>5, SentInOrder
  <2> QED
    BY <1>2, <1>5, <1>6, <2>6
<1> QED
  BY <1>5, <1>11, <1>12, <1>13 DEF SentGood

(* What is shown is what came next.                                          *)
LEMMA ReceiverInOrder ==
  ASSUME Ordered, IInv, IInv', OrderInv, NEW n \in Node, NEW p \in Peers(n),
         ReceiverStep(n, p)
  PROVE  InOrder(n, inbox'[p], net'[n][p], ReadBy(n, p)', ~IsEstablished(session'[n][p]),
                 session'[n][p].pending)
<1>1. ShapesOK /\ ShapesOK' /\ SessionsOK /\ p \in Node /\ n \in Peers(p)
  BY DEF IInv, KeysInv, Peers
<1>2. PICK s, box, box2, m, m2, read, read2 :
        /\ s = session[n][p] /\ box = inbox[p] /\ box2 = inbox'[p]
        /\ m = net[n][p] /\ m2 = net'[n][p]
        /\ read = ReadBy(n, p) /\ read2 = ReadBy(n, p)'
  OBVIOUS
<1>3. /\ box \in Seq(Entries) /\ box2 \in Seq(Entries) /\ m \in Seq(Packets)
      /\ s.pending \in Seq(Dms)
  <2>1. s \in Sessions
    BY <1>1, <1>2 DEF ShapesOK, SlotsOK
  <2> QED
    BY <1>1, <1>2, <2>1 DEF ShapesOK, SlotsOK, HistoriesOK, Media, Sessions
<1>4. InOrder(n, box, m, read, ~IsEstablished(s), s.pending)
  BY <1>2 DEF OrderInv, OrderOK
<1>5. session'[n][p] = s /\ (m2 = m \/ (m # <<>> /\ m2 = Tail(m)))
  BY <1>2 DEF ReceiverStep, Taken
<1>6. read2 \in SUBSET read
  <2>1. SUFFICES ASSUME NEW q \in read2
                 PROVE  q \in read
    OBVIOUS
  <2>2. /\ q \in Packets /\ CarriesMessage(q)
        /\ q.sealed.key.direction = 2 \/ Heard(n, p, q.sealed.key)'
    BY <1>2, <2>1 DEF ReadBy, Readable
  <2>3. Heard(n, p, q.sealed.key)' => Heard(n, p, q.sealed.key)
    BY <1>1, HeardBefore DEF ReceiverStep
  <2> QED
    BY <1>2, <2>2, <2>3 DEF ReadBy, Readable
<1>7. ASSUME NEW x \in Entries, Shows(n, p, x)
      PROVE  /\ m # <<>> /\ m2 = Tail(m) /\ m[1] \in read
             /\ x.dm.serial = SerialOf(m[1])
  <2>1. /\ m # <<>> /\ m2 = Tail(m) /\ CarriesMessage(m[1])
        /\ IsEstablished(session[p][n])
        /\ m[1].sealed.key = session[p][n].receive.key
        /\ x.dm = m[1].sealed.payload.dm
    BY <1>2, <1>7 DEF Shows, Taken
  <2>2. KeysGood(p, n, session[p][n])
    BY <1>1, <2>1 DEF SessionsOK, SessionGood, IsEstablished
  <2>3. m[1].sealed.key.direction = 2 \/ Heard(n, p, m[1].sealed.key)
    BY <2>1, <2>2 DEF KeysGood, Heard
  <2>4. m[1] \in Packets
    BY <1>3, <2>1
  <2> QED
    BY <1>2, <2>1, <2>3, <2>4 DEF ReadBy, Readable, SerialOf
<1>8. \/ box2 = box
      \/ \E x \in Entries :
           /\ box2 = Append(box, x)
           /\ x.from = n => /\ m # <<>> /\ m2 = Tail(m) /\ m[1] \in read
                            /\ x.dm.serial = SerialOf(m[1])
  BY <1>2, <1>7 DEF ReceiverStep
<1>9. InOrder(n, box2, m2, read2, ~IsEstablished(s), s.pending)
  BY <1>3, <1>4, <1>5, <1>6, <1>8, ReceivedInOrder
<1> QED
  BY <1>2, <1>5, <1>9

(* The order is kept.                                                        *)
LEMMA OrderKept ==
  ASSUME Ordered, IInv, IInv', OrderInv, StepOfOrder
  PROVE  OrderInv'
<1>1. HeardOK' /\ FlushedOK'
  BY HeardKept, FlushedKept DEF OrderInv
<1>2. AskedOK'
  BY DEF OrderInv, AskedOK, StepOfOrder, Counted
<1>3. OrderOK'
  BY SenderInOrder, ReceiverInOrder DEF OrderOK, StepOfOrder
<1> QED
  BY <1>1, <1>2, <1>3 DEF OrderInv

-----------------------------------------------------------------------------
(* The actions.  A handler of n that takes and sends packets for p.          *)
Acts(n, p, t, out) ==
    /\ Becomes(n, p, t) \/ (session' = session /\ t = session[n][p])
    /\ \/ Emit(n, p, out)
       \/ Exchange(n, p, out) /\ Arrivals(net[p][n]) # {}
       \/ net' = net /\ out = <<>>

(* The receiving key of an established session is the one it had, or comes   *)
(* with a third message.                                                     *)
KeysFrom(n, p, s, t) ==
    IsEstablished(t) /\ t.receive.key.direction = 1 =>
        IsEstablished(s) \/ (Taken(p, n) /\ Hands(net[p][n][1], t.receive.key))

(* A session that is left alone has not moved.                               *)
LEMMA NotMoved ==
  ASSUME NEW n \in Node, NEW p \in Peers(n), NEW s, SessionGood(n, p, s)
  PROVE  Moved(n, s, s) /\ Kept(s, s)
<1>1. s.send.nonce \in Nat
  BY DEF SessionGood, Sessions, Ciphers
<1> QED
  BY <1>1 DEF Moved, Kept, Flushed, IsEstablished

(* An exchange takes the packet that came next.                              *)
LEMMA Exchanging ==
  ASSUME Ordered, SlotsOK, NEW n \in Node, NEW p \in Peers(n), NEW out \in Seq(Packets),
         Exchange(n, p, out), Arrivals(net[p][n]) # {}
  PROVE  /\ Taken(p, n) /\ net'[n][p] = net[n][p] \o out
         /\ \A packet : Arrives(p, n, packet) => packet = net[p][n][1]
         /\ \A a \in Node : \A b \in Peers(a) :
               (a # n \/ b # p) /\ (a # p \/ b # n) => net'[a][b] = net[a][b]
<1>1. p \in Node /\ n \in Peers(p) /\ n # p
  BY DEF Peers
<1>2. /\ DOMAIN net = Node /\ \A a \in Node : DOMAIN net[a] = Peers(a)
      /\ net[p][n] \in Seq(Packets)
  BY <1>1 DEF SlotsOK, Media
<1>3. net' = [net EXCEPT ![p][n] = Tail(net[p][n]), ![n][p] = net[n][p] \o out]
  BY <1>1, <1>2 DEF Exchange, Transmit, AfterArrival
<1>4. net[p][n] # <<>>
  BY <1>2 DEF Arrivals
<1> QED
  BY <1>1, <1>2, <1>3, <1>4 DEF Taken, Arrives, Arrivals

(* What such a handler does to the slots.                                    *)
LEMMA ActsOn ==
  ASSUME Ordered, SlotsOK, NEW n \in Node, NEW p \in Peers(n), NEW t,
         NEW out \in Seq(Packets), Acts(n, p, t, out)
  PROVE  /\ session'[n][p] = t
         /\ net'[n][p] = net[n][p] \o out
         /\ net'[p][n] = net[p][n] \/ Taken(p, n)
         /\ \A a \in Node : \A b \in Peers(a) : (a # n \/ b # p) =>
               /\ session'[a][b] = session[a][b]
               /\ (a # p \/ b # n) => net'[a][b] = net[a][b]
<1>1. p \in Node /\ n \in Peers(p) /\ n # p
  BY DEF Peers
<1>2. /\ DOMAIN session = Node /\ \A a \in Node : DOMAIN session[a] = Peers(a)
      /\ DOMAIN net = Node /\ \A a \in Node : DOMAIN net[a] = Peers(a)
      /\ net[n][p] \in Seq(Packets)
  BY <1>1 DEF SlotsOK, Media
<1>3. session' = [session EXCEPT ![n][p] = t] \/ (session' = session /\ t = session[n][p])
  BY DEF Acts, Becomes
<1>4. /\ session'[n][p] = t
      /\ \A a \in Node : \A b \in Peers(a) : (a # n \/ b # p) => session'[a][b] = session[a][b]
  BY <1>2, <1>3
<1>5. CASE Emit(n, p, out)
  <2>1. net' = [net EXCEPT ![n][p] = net[n][p] \o out]
    BY <1>5 DEF Emit, Transmit
  <2> QED
    BY <1>1, <1>2, <1>4, <2>1
<1>6. CASE Exchange(n, p, out) /\ Arrivals(net[p][n]) # {}
  BY <1>4, <1>6, Exchanging
<1>7. CASE net' = net /\ out = <<>>
  BY <1>2, <1>4, <1>7
<1> QED
  BY <1>5, <1>6, <1>7 DEF Acts

(* Such a handler keeps the order, if what it sends is in order and what it  *)
(* shows is what it took.                                                    *)
LEMMA ActsInOrder ==
  ASSUME Ordered, IInv, Counted, NEW n \in Node, NEW p \in Peers(n), NEW t,
         NEW out \in Seq(Packets), Acts(n, p, t, out),
         Moved(n, session[n][p], t), KeysFrom(n, p, session[n][p], t),
         SentGood(n, p, session[n][p], t, out),
         \/ inbox' = inbox
         \/ \E x \in Entries : /\ inbox' = [inbox EXCEPT ![n] = Append(@, x)]
                               /\ x.from = p /\ Shows(p, n, x)
  PROVE  StepOfOrder
<1>1. SlotsOK /\ HistoriesOK /\ p \in Node /\ n \in Peers(p) /\ n # p
  BY DEF IInv, ShapesOK, Peers
<1>2. /\ session'[n][p] = t
      /\ net'[n][p] = net[n][p] \o out
      /\ net'[p][n] = net[p][n] \/ Taken(p, n)
      /\ \A a \in Node : \A b \in Peers(a) : (a # n \/ b # p) =>
            /\ session'[a][b] = session[a][b]
            /\ (a # p \/ b # n) => net'[a][b] = net[a][b]
  BY <1>1, ActsOn
<1>3. \/ inbox' = inbox
      \/ \E x \in Entries : /\ inbox'[n] = Append(inbox[n], x) /\ x.from = p /\ Shows(p, n, x)
                            /\ \A b \in Node : b # n => inbox'[b] = inbox[b]
  BY <1>1 DEF HistoriesOK
<1>4. SenderStep(n, p)
  <2>1. session'[p][n] = session[p][n] /\ inbox'[p] = inbox[p]
    BY <1>1, <1>2, <1>3
  <2> QED
    BY <1>2, <2>1 DEF SenderStep
<1>5. ReceiverStep(p, n)
  <2>1. session'[p][n] = session[p][n] /\ (net'[p][n] = net[p][n] \/ Taken(p, n))
    BY <1>1, <1>2
  <2>2. \/ inbox'[n] = inbox[n]
        \/ \E x \in Entries : inbox'[n] = Append(inbox[n], x) /\ (x.from = p => Shows(p, n, x))
    BY <1>3
  <2>3. IsEstablished(t) /\ t.receive.key.direction = 1 =>
          \/ IsEstablished(session[n][p]) /\ t.receive.key = session[n][p].receive.key
          \/ Taken(p, n) /\ Hands(net[p][n][1], t.receive.key)
    BY DEF Moved, KeysFrom
  <2> QED
    BY <1>2, <2>1, <2>2, <2>3 DEF ReceiverStep
<1>6. ASSUME NEW a \in Node, NEW b \in Peers(a), a # n \/ b # p, a # p \/ b # n
      PROVE  ReceiverStep(a, b)
  <2>1. b \in Node /\ a \in Peers(b) /\ (b # n \/ a # p)
    BY <1>6 DEF Peers
  <2>2. /\ session'[a][b] = session[a][b] /\ net'[a][b] = net[a][b]
        /\ session'[b][a] = session[b][a]
    BY <1>2, <1>6, <2>1
  <2>3. \/ inbox'[b] = inbox[b]
        \/ \E x \in Entries : inbox'[b] = Append(inbox[b], x) /\ x.from # a
    BY <1>3, <1>6, <2>1
  <2> QED
    BY <2>2, <2>3 DEF ReceiverStep
<1>7. ASSUME NEW a \in Node, NEW b \in Peers(a)
      PROVE  Moved(a, session[a][b], session'[a][b])
  <2>1. Moved(a, session[a][b], session[a][b])
    BY OfSession, NotMoved
  <2> QED
    BY <1>2, <2>1
<1> QED
  BY <1>4, <1>5, <1>6, <1>7 DEF StepOfOrder

(* Nobody asks for anything.                                                 *)
LEMMA NothingAsked ==
  ASSUME UNCHANGED asked, \A n \in Node : ephemerals[n] <= ephemerals'[n]
  PROVE  Counted
BY DEF Counted

(* What is sent is no third message, and carries no message.                 *)
LEMMA SmallTalk ==
  /\ ~IsThird(RequestPacket) /\ ~CarriesMessage(RequestPacket)
  /\ ~IsThird(LeavePacket("channel")) /\ ~CarriesMessage(LeavePacket("channel"))
  /\ \A msg : ~CarriesMessage(HandshakePacket(msg))
  /\ \A msg : msg.number # 3 => ~IsThird(HandshakePacket(msg))
  /\ \A ct : ~IsThird(EncryptedPacket(ct))
  /\ \A ct : ct.payload.type # "message" => ~CarriesMessage(EncryptedPacket(ct))
BY DEF IsThird, CarriesMessage, RequestPacket, LeavePacket, HandshakePacket, EncryptedPacket

(* A step that removes a session, leaves it or decrypts with it, and that    *)
(* sends a request at most.                                                  *)
LEMMA PlainInOrder ==
  ASSUME Ordered, IInv, NEW n \in Node, NEW p \in Peers(n), NEW t, NEW out,
         Acts(n, p, t, out),
         t = NoSession \/ t = session[n][p]
           \/ (IsEstablished(session[n][p])
                 /\ \E ct \in Ciphertexts : t = AfterDecryption(session[n][p], ct)),
         out = <<>> \/ out = <<RequestPacket>>,
         UNCHANGED <<ephemerals, asked, inbox>>
  PROVE  StepOfOrder
<1>1. PICK s : s = session[n][p]
  OBVIOUS
<1>2. SessionGood(n, p, s) /\ HistoriesOK
  BY <1>1, OfSession
<1>3. /\ Moved(n, s, t)
      /\ IsEstablished(t) => IsEstablished(s)
      /\ IsEstablished(t) \/ t.pending = <<>> \/ (~IsEstablished(s) /\ t.pending = s.pending)
  <2>1. CASE t = NoSession
    <3>1. ~IsEstablished(t) /\ OwnKey(t) = NoKey /\ t.pending = <<>>
      BY <2>1, NoSessionGood DEF IsEstablished, HasSession, NoSession
    <3> QED
      BY <3>1 DEF Moved, Flushed
  <2>2. CASE t = s
    BY <1>2, <2>2, NotMoved
  <2>3. ASSUME IsEstablished(s), NEW ct \in Ciphertexts, t = AfterDecryption(s, ct)
        PROVE  Moved(n, s, t) /\ IsEstablished(t)
    <3>1. /\ IsEstablished(t) /\ OwnKey(t) = OwnKey(s) /\ t.send = s.send
          /\ t.pending = s.pending /\ t.receive.key = s.receive.key
      BY <1>2, <2>3, Decrypting
    <3>2. Kept(s, s)
      BY <1>2, NotMoved
    <3> QED
      BY <2>3, <3>1, <3>2 DEF Moved, Kept, IsEstablished
  <2> QED
    BY <1>1, <2>1, <2>2, <2>3
<1>4. KeysFrom(n, p, s, t)
  BY <1>3 DEF KeysFrom
<1>5. /\ out \in Seq(Packets)
      /\ \A i \in 1..Len(out) : ~IsThird(out[i]) /\ ~CarriesMessage(out[i])
  <2>1. CASE out = <<>>
    BY <2>1, OutPackets
  <2>2. CASE out = <<RequestPacket>>
    <3>1. out \in Seq(Packets) /\ \A i \in 1..Len(out) : out[i] = RequestPacket
      BY <2>2, OutPackets
    <3> QED
      BY <3>1, SmallTalk
  <2> QED
    BY <2>1, <2>2
<1>6. SentGood(n, p, s, t, out)
  BY <1>3, <1>5 DEF SentGood, ThirdsGood, Quiet
<1>7. Counted
  BY <1>2, FreshKey, NothingAsked
<1> QED
  BY <1>1, <1>3, <1>4, <1>5, <1>6, <1>7, ActsInOrder

(* What the user asks for next.                                              *)
LEMMA AskedInTurn ==
  ASSUME HistoriesOK, NEW n \in Node, NEW p \in Peers(n), NEW dm, Ask(n, p, dm),
         \A a \in Node : ephemerals[a] <= ephemerals'[a]
  PROVE  Counted /\ dm \in Dms /\ AskedNow(n, p, dm) /\ UNCHANGED inbox
<1>1. /\ dm \in Dms /\ dm.from = n /\ dm.to = p /\ dm \in asked'[n] \ asked[n]
      /\ \A a \in Node : asked[a] \subseteq asked'[a]
      /\ UNCHANGED inbox
  BY Asking
<1>2. /\ \A k \in 1..dm.serial - 1 : Dm(n, p, k) \in asked[n]
      /\ \A a \in Node : asked'[a] \ asked[a] = IF a = n THEN {dm} ELSE {}
  BY <1>1 DEF Ask, HistoriesOK
<1>3. ASSUME NEW a \in Node, NEW d \in asked'[a] \ asked[a], NEW k \in 1..d.serial - 1
      PROVE  Dm(a, d.to, k) \in asked[a]
  BY <1>1, <1>2
<1> QED
  BY <1>1, <1>3 DEF Counted, AskedNow

(* A message on an established session is sent at once, or not at all.       *)
LEMMA SendInOrder ==
  ASSUME Ordered, IInv, NEW n \in Node, NEW p \in Peers(n), NEW dm, Ask(n, p, dm),
         IsEstablished(session[n][p]), SendEncrypted(n, p, dm)
  PROVE  StepOfOrder
<1>1. PICK s : s = session[n][p]
  OBVIOUS
<1>2. SessionGood(n, p, s) /\ s \in Sessions /\ HistoriesOK
  BY <1>1, OfSession
<1>3. PICK t, ct : t = AfterEncryption(s) /\ ct = PrivateMessage(s.send, dm)
  OBVIOUS
<1>4. PICK sent \in SendOutcomes : Emit(n, p, IF sent THEN <<EncryptedPacket(ct)>> ELSE <<>>)
  BY <1>1, <1>3 DEF SendEncrypted
<1>5. PICK out : out = IF sent THEN <<EncryptedPacket(ct)>> ELSE <<>>
  OBVIOUS
<1>6. Acts(n, p, t, out) /\ UNCHANGED ephemerals
  BY <1>1, <1>3, <1>4, <1>5 DEF Acts, SendEncrypted
<1>7. Counted /\ dm \in Dms /\ AskedNow(n, p, dm) /\ UNCHANGED inbox
  BY <1>2, <1>6, AskedInTurn, FreshKey
<1>8. ct \in Ciphertexts /\ ct.payload.dm = dm
  <2>1. s.send \in Ciphers
    BY <1>2 DEF Sessions
  <2> QED
    BY <1>3, <1>7, <2>1, SealingMessage
<1>9. /\ IsEstablished(t) /\ OwnKey(t) = OwnKey(s) /\ t.send.key = s.send.key
      /\ t.send.nonce = s.send.nonce + 1 /\ t.pending = s.pending /\ t.receive = s.receive
  BY <1>1, <1>2, <1>3, Encrypting
<1>10. Moved(n, s, t)
  <2>1. s.send.nonce <= t.send.nonce
    BY <1>2, <1>9 DEF Sessions, Ciphers
  <2> QED
    BY <1>1, <1>9, <2>1 DEF Moved, Kept, IsEstablished
<1>11. SentGood(n, p, s, t, out) /\ out \in Seq(Packets)
  <2>1. CASE sent
    <3>1. out \in Seq(Packets) /\ Len(out) = 1 /\ out[1] = EncryptedPacket(ct)
      BY <1>5, <1>8, <2>1, OutPackets
    <3>2. out[1].sealed = ct /\ \A i \in 1..Len(out) : ~IsThird(out[i])
      BY <1>8, <3>1, OutPackets, SmallTalk
    <3> QED
      BY <1>1, <1>7, <1>8, <1>9, <3>1, <3>2 DEF SentGood, ThirdsGood, AtOnce
  <2>2. CASE ~sent
    <3>1. out \in Seq(Packets) /\ Len(out) = 0
      BY <1>5, <2>2, OutPackets
    <3> QED
      BY <1>9, <3>1 DEF SentGood, ThirdsGood, Quiet
  <2> QED
    BY <2>1, <2>2
<1>12. KeysFrom(n, p, s, t)
  BY <1>1 DEF KeysFrom
<1> QED
  BY <1>1, <1>6, <1>7, <1>10, <1>11, <1>12, ActsInOrder

(* One that has to wait is put at the end of the queue.                      *)
LEMMA StartInOrder ==
  ASSUME Ordered, IInv, NEW n \in Node, NEW p \in Peers(n), NEW dm, Ask(n, p, dm),
         ~IsEstablished(session[n][p]),
         NEW s \in Sessions, StartHandshake(n, p, s), Waits(n, p, dm, s)
  PROVE  StepOfOrder
<1>1. HistoriesOK
  BY DEF IInv, ShapesOK
<1>2. ASSUME NEW t, NEW out \in Seq(Packets), Acts(n, p, t, out),
             \A a \in Node : ephemerals[a] <= ephemerals'[a],
             ~IsEstablished(t), OwnKey(t) \in {NoKey, Fresh(n)}, t.pending = s.pending,
             \A i \in 1..Len(out) : ~IsThird(out[i]) /\ ~CarriesMessage(out[i])
      PROVE  StepOfOrder
  <2>1. Counted /\ dm \in Dms /\ AskedNow(n, p, dm) /\ UNCHANGED inbox
    BY <1>1, <1>2, AskedInTurn
  <2>2. Moved(n, session[n][p], t) /\ KeysFrom(n, p, session[n][p], t)
    BY <1>2 DEF Moved, KeysFrom, Flushed
  <2>3. SentGood(n, p, session[n][p], t, out)
    BY <1>2, <2>1 DEF SentGood, ThirdsGood, Quiet, Waits
  <2> QED
    BY <1>2, <2>1, <2>2, <2>3, ActsInOrder
<1>3. CASE s.handshake = NewHandshake("Initiator")
  <2>1. CanWrite(s.handshake)
    BY <1>3 DEF NewHandshake, CanWrite
  <2>2. PICK t, msg : t = InitiateHandshake(s, Fresh(n)) /\ msg = WrittenMessage(s.handshake, Fresh(n))
    OBVIOUS
  <2>3. PICK sent \in SendOutcomes : Emit(n, p, IF sent THEN <<HandshakePacket(msg)>> ELSE <<>>)
    BY <2>1, <2>2 DEF StartHandshake
  <2>4. PICK out : out = IF sent THEN <<HandshakePacket(msg)>> ELSE <<>>
    OBVIOUS
  <2>5. /\ Acts(n, p, t, out) /\ ephemerals[n] < MaxEphemerals
        /\ ephemerals' = [ephemerals EXCEPT ![n] = @ + 1]
    BY <2>1, <2>2, <2>3, <2>4 DEF Acts, StartHandshake
  <2>6. /\ Fresh(n) \in Ephemerals /\ Fresh(n).owner = n
        /\ \A a \in Node : ephemerals[a] <= ephemerals'[a]
    BY <1>1, <2>5, FreshKey
  <2>7. /\ OwnKey(t) = Fresh(n) /\ ~IsEstablished(t) /\ t.pending = s.pending
        /\ msg \in Noises /\ msg.number = 1
    BY <1>3, <2>2, <2>6, Starting DEF Waits
  <2>8. out \in Seq(Packets) /\ \A i \in 1..Len(out) : out[i] = HandshakePacket(msg)
    BY <2>4, <2>7, OutPackets
  <2>9. \A i \in 1..Len(out) : ~IsThird(out[i]) /\ ~CarriesMessage(out[i])
    BY <2>7, <2>8, SmallTalk
  <2> QED
    BY <1>2, <2>5, <2>6, <2>7, <2>8, <2>9
<1>4. CASE HandshakeGood(n, p, s.handshake)
  <2>1. PICK t : t = InitiateHandshake(s, NoKey)
    OBVIOUS
  <2>2. /\ ~CanWrite(s.handshake) /\ OwnKey(t) = NoKey /\ ~IsEstablished(t)
        /\ t.pending = s.pending
    BY <1>4, <2>1, Interrupting DEF Waits
  <2>3. Becomes(n, p, t) /\ UNCHANGED <<ephemerals, net>>
    BY <2>1, <2>2 DEF StartHandshake
  <2>4. PICK out : out = <<>>
    OBVIOUS
  <2>5. /\ Acts(n, p, t, out) /\ out \in Seq(Packets)
        /\ \A i \in 1..Len(out) : ~IsThird(out[i]) /\ ~CarriesMessage(out[i])
    BY <2>3, <2>4 DEF Acts
  <2>6. /\ \A a \in Node : ephemerals[a] <= ephemerals'[a]
        /\ OwnKey(t) \in {NoKey, Fresh(n)}
    BY <1>1, <2>2, <2>3, FreshKey
  <2> QED
    BY <1>2, <2>2, <2>5, <2>6
<1> QED
  BY <1>3, <1>4 DEF Waits

(* A request for a handshake starts one with an empty queue.                 *)
LEMMA RequestInOrder ==
  ASSUME Ordered, IInv, NEW n \in Node, NEW p \in Peers(n), NEW packet,
         HandleHandshakeRequest(n, p, packet)
  PROVE  StepOfOrder
<1>1. HistoriesOK /\ SessionGood(n, p, session[n][p]) /\ Arrivals(net[p][n]) # {}
  BY OfSession, Arrived DEF HandleHandshakeRequest
<1>2. UNCHANGED <<asked, inbox>>
  BY DEF HandleHandshakeRequest, uiVars
<1>3. CASE ~HasSession(session[n][p]) /\ n < p
  <2>1. PICK s : s = CreateSession(NoSession, "Initiator")
    OBVIOUS
  <2>2. PICK t, msg : t = InitiateHandshake(s, Fresh(n)) /\ msg = WrittenMessage(s.handshake, Fresh(n))
    OBVIOUS
  <2>3. PICK sent \in SendOutcomes :
           Exchange(n, p, IF sent THEN <<HandshakePacket(msg)>> ELSE <<>>)
    BY <1>3, <2>1, <2>2 DEF HandleHandshakeRequest
  <2>4. PICK out : out = IF sent THEN <<HandshakePacket(msg)>> ELSE <<>>
    OBVIOUS
  <2>5. /\ Acts(n, p, t, out) /\ ephemerals[n] < MaxEphemerals
        /\ ephemerals' = [ephemerals EXCEPT ![n] = @ + 1]
    BY <1>1, <1>3, <2>1, <2>2, <2>3, <2>4 DEF Acts, HandleHandshakeRequest
  <2>6. /\ Fresh(n) \in Ephemerals /\ Fresh(n).owner = n
        /\ \A a \in Node : ephemerals[a] <= ephemerals'[a]
    BY <1>1, <2>5, FreshKey
  <2>7. s \in Sessions /\ s.state = "Handshaking" /\ s.handshake = NewHandshake("Initiator")
        /\ s.pending = <<>>
    <3>1. PICK hs : hs = NewHandshake("Initiator")
      OBVIOUS
    <3>2. hs \in Handshakes /\ NoSession \in Sessions /\ ~IsEstablished(NoSession)
          /\ NoSession.pending = <<>>
      BY <3>1, NoSessionGood, NoKeyIsNobodys
         DEF NewHandshake, Handshakes, Patterns, SessionGood, IsEstablished, NoSession
    <3>3. s = [NoSession EXCEPT !.state = "Handshaking", !.handshake = hs]
      BY <2>1, <3>1, <3>2 DEF CreateSession
    <3> QED
      BY <3>1, <3>2, <3>3 DEF Sessions
  <2>8. /\ OwnKey(t) = Fresh(n) /\ ~IsEstablished(t) /\ t.pending = <<>>
        /\ msg \in Noises /\ msg.number = 1
    BY <2>2, <2>6, <2>7, Starting
  <2>9. out \in Seq(Packets) /\ \A i \in 1..Len(out) : out[i] = HandshakePacket(msg)
    BY <2>4, <2>8, OutPackets
  <2>10. \A i \in 1..Len(out) : ~IsThird(out[i]) /\ ~CarriesMessage(out[i])
    BY <2>8, <2>9, SmallTalk
  <2>11. Moved(n, session[n][p], t) /\ KeysFrom(n, p, session[n][p], t)
    BY <2>8 DEF Moved, KeysFrom, Flushed
  <2>12. SentGood(n, p, session[n][p], t, out)
    BY <2>8, <2>10 DEF SentGood, ThirdsGood, Quiet
  <2>13. Counted
    BY <1>2, <2>6, NothingAsked
  <2> QED
    BY <1>2, <2>5, <2>9, <2>11, <2>12, <2>13, ActsInOrder
<1>4. CASE ~(~HasSession(session[n][p]) /\ n < p)
  <2>1. Acts(n, p, session[n][p], <<>>) /\ UNCHANGED ephemerals
    BY <1>1, <1>4 DEF Acts, HandleHandshakeRequest
  <2> QED
    BY <1>2, <2>1, PlainInOrder
<1> QED
  BY <1>3, <1>4

(* The user's message.                                                       *)
LEMMA UserInOrder ==
  ASSUME Ordered, IInv, NEW n \in Node, NEW p \in Peers(n), UserSends(n, p)
  PROVE  StepOfOrder
BY UserChoice, SendInOrder, StartInOrder

(* The handlers that only take a packet, and maybe the session with it.      *)
LEMMA PlainHandlersInOrder ==
  ASSUME Ordered, IInv, NEW n \in Node, NEW p \in Peers(n), NEW packet,
         \/ HandleEncryptedWithoutSession(n, p, packet)
         \/ HandleUnreadable(n, p, packet)
         \/ HandleLeave(n, p, packet)
         \/ HandleDelivered(n, p, packet)
  PROVE  StepOfOrder
<1>1. Arrivals(net[p][n]) # {} /\ (packet.type = "NoiseEncrypted" => packet.sealed \in Ciphertexts)
  BY Arrived DEF HandleEncryptedWithoutSession, HandleUnreadable, HandleLeave, HandleDelivered
<1>2. UNCHANGED <<ephemerals, asked, inbox>>
  BY DEF HandleEncryptedWithoutSession, HandleUnreadable, HandleLeave, HandleDelivered, uiVars
<1>3. CASE HandleEncryptedWithoutSession(n, p, packet)
  <2>1. PICK sent \in SendOutcomes : Exchange(n, p, IF sent THEN <<RequestPacket>> ELSE <<>>)
    BY <1>3 DEF HandleEncryptedWithoutSession, SendHandshakeRequest
  <2>2. Acts(n, p, NoSession, IF sent THEN <<RequestPacket>> ELSE <<>>)
    BY <1>1, <1>3, <2>1 DEF HandleEncryptedWithoutSession, Acts, RemoveSession
  <2> QED
    BY <1>2, <2>2, PlainInOrder
<1>4. CASE HandleUnreadable(n, p, packet)
  <2>1. Acts(n, p, session[n][p], <<>>)
    BY <1>1, <1>4 DEF HandleUnreadable, Acts
  <2> QED
    BY <1>2, <2>1, PlainInOrder
<1>5. CASE HandleLeave(n, p, packet)
  <2>1. Acts(n, p, NoSession, <<>>)
    BY <1>1, <1>5 DEF HandleLeave, Acts, RemoveSession
  <2> QED
    BY <1>2, <2>1, PlainInOrder
<1>6. CASE HandleDelivered(n, p, packet)
  <2>1. PICK t : t = AfterDecryption(session[n][p], packet.sealed)
    OBVIOUS
  <2>2. Acts(n, p, t, <<>>)
    BY <1>1, <1>6, <2>1 DEF HandleDelivered, Acts
  <2>3. IsEstablished(session[n][p]) /\ packet.sealed \in Ciphertexts
    BY <1>1, <1>6 DEF HandleDelivered
  <2> QED
    BY <1>2, <2>1, <2>2, <2>3, PlainInOrder
<1> QED
  BY <1>3, <1>4, <1>5, <1>6

(* A RequestSync.                                                            *)
LEMMA RequestSyncInOrder ==
  ASSUME Ordered, IInv, NEW n \in Node, NEW p \in Peers(n), HandleRequestSync(n, p)
  PROVE  StepOfOrder
<1>1. PICK sent \in SendOutcomes : Emit(n, p, IF sent THEN <<RequestPacket>> ELSE <<>>)
  BY DEF HandleRequestSync
<1>2. Acts(n, p, session[n][p], IF sent THEN <<RequestPacket>> ELSE <<>>)
  BY <1>1 DEF HandleRequestSync, Acts
<1>3. UNCHANGED <<ephemerals, asked, inbox>>
  BY DEF HandleRequestSync, uiVars
<1> QED
  BY <1>2, <1>3, PlainInOrder

(* A message is shown when it is the next to come, and opens.                *)
LEMMA ShowInOrder ==
  ASSUME Ordered, IInv, NEW n \in Node, NEW p \in Peers(n), NEW packet, Arrives(p, n, packet),
         packet.type = "NoiseEncrypted", IsEstablished(session[n][p]),
         DecryptResult(session[n][p].receive, packet.sealed) = "Ok",
         packet.sealed.payload.type = "message",
         NEW id, id = packet.sealed.payload.id,
         inbox' = [inbox EXCEPT ![n] =
                      Append(@, [from |-> p, dm |-> packet.sealed.payload.dm, id |-> id])],
         Acknowledge(n, p, AfterDecryption(session[n][p], packet.sealed), id, SendOutcomes),
         UNCHANGED <<ephemerals, asked>>
  PROVE  StepOfOrder
<1>1. PICK s, ct : s = session[n][p] /\ ct = packet.sealed
  OBVIOUS
<1>2. SessionGood(n, p, s) /\ SlotsOK /\ HistoriesOK /\ p \in Node
  BY <1>1, OfSession
<1>3. /\ Arrivals(net[p][n]) # {} /\ ct \in Ciphertexts
      /\ ct.payload \in Payloads /\ ct.payload.type = "message"
  BY <1>1, Arrived
<1>4. PICK x : x = [from |-> p, dm |-> ct.payload.dm, id |-> id]
  OBVIOUS
<1>5. x \in Entries /\ x.from = p /\ x.dm = ct.payload.dm /\ id \in Ids
  <2>1. ct.payload.dm \in Dms /\ ct.payload.id \in Ids
    BY <1>3 DEF Payloads
  <2> QED
    BY <1>1, <1>2, <1>4, <2>1 DEF Entries
<1>6. PICK u : u = AfterDecryption(s, ct)
  OBVIOUS
<1>7. PICK t, ack : t = AfterEncryption(u) /\ ack = DeliveredAck(u.send, id)
  OBVIOUS
<1>8. PICK sent \in SendOutcomes : Exchange(n, p, IF sent THEN <<EncryptedPacket(ack)>> ELSE <<>>)
  BY <1>1, <1>6, <1>7 DEF Acknowledge
<1>9. PICK out : out = IF sent THEN <<EncryptedPacket(ack)>> ELSE <<>>
  OBVIOUS
<1>10. Acts(n, p, t, out)
  BY <1>1, <1>3, <1>6, <1>7, <1>8, <1>9 DEF Acts, Acknowledge
<1>11. /\ SessionGood(n, p, u) /\ IsEstablished(u) /\ OwnKey(u) = OwnKey(s)
       /\ u.send = s.send /\ u.pending = s.pending /\ u.receive.key = s.receive.key
  BY <1>1, <1>2, <1>3, <1>6, Decrypting
<1>12. /\ SessionGood(n, p, t) /\ IsEstablished(t) /\ OwnKey(t) = OwnKey(u)
       /\ t.send.key = u.send.key /\ t.send.nonce = u.send.nonce + 1
       /\ t.pending = u.pending /\ t.receive = u.receive
  BY <1>7, <1>11, Encrypting
<1>13. u.send \in Ciphers /\ u.send.nonce \in Nat
  BY <1>11 DEF SessionGood, Sessions, Ciphers
<1>14. ack \in Ciphertexts /\ ack.payload.type = "delivered"
  BY <1>5, <1>7, <1>13, SealingAck
<1>15. /\ out \in Seq(Packets)
       /\ \A i \in 1..Len(out) : ~IsThird(out[i]) /\ ~CarriesMessage(out[i])
  <2>1. CASE sent
    <3>1. out \in Seq(Packets) /\ \A i \in 1..Len(out) : out[i] = EncryptedPacket(ack)
      BY <1>9, <1>14, <2>1, OutPackets
    <3> QED
      BY <1>14, <3>1, SmallTalk
  <2>2. CASE ~sent
    <3>1. out \in Seq(Packets) /\ Len(out) = 0
      BY <1>9, <2>2, OutPackets
    <3> QED
      BY <3>1
  <2> QED
    BY <2>1, <2>2
<1>16. Moved(n, s, t)
  <2>1. s.send.nonce <= t.send.nonce
    BY <1>11, <1>12, <1>13
  <2> QED
    BY <1>1, <1>11, <1>12, <2>1 DEF Moved, Kept, IsEstablished
<1>17. SentGood(n, p, s, t, out) /\ KeysFrom(n, p, s, t)
  BY <1>1, <1>12, <1>15 DEF SentGood, ThirdsGood, Quiet, KeysFrom
<1>18. Shows(p, n, x)
  <2>1. Taken(p, n) /\ packet = net[p][n][1]
    BY <1>1, <1>2, <1>3, <1>8, <1>9, <1>15, Exchanging
  <2>2. ct.key = s.receive.key
    BY <1>1 DEF DecryptResult, Opens
  <2> QED
    BY <1>1, <1>5, <2>1, <2>2 DEF Shows, CarriesMessage
<1>19. inbox' = [inbox EXCEPT ![n] = Append(@, x)]
  BY <1>1, <1>4
<1>20. Counted
  BY <1>2, FreshKey, NothingAsked
<1> QED
  BY <1>1, <1>5, <1>10, <1>15, <1>16, <1>17, <1>18, <1>19, <1>20, ActsInOrder

(* A private message is shown, or dropped.                                   *)
LEMMA PrivateMessageInOrder ==
  ASSUME Ordered, IInv, NEW n \in Node, NEW p \in Peers(n), NEW packet,
         HandlePrivateMessage(n, p, packet)
  PROVE  StepOfOrder
<1>1. PICK ct, id, s : /\ ct = packet.sealed /\ id = ct.payload.id
                       /\ s = AfterDecryption(session[n][p], ct)
  OBVIOUS
<1>2. /\ Arrives(p, n, packet) /\ packet.type = "NoiseEncrypted"
      /\ IsEstablished(session[n][p]) /\ ct.payload.type = "message"
      /\ DecryptResult(session[n][p].receive, ct) = "Ok"
      /\ UNCHANGED <<ephemerals, asked>>
  BY <1>1 DEF HandlePrivateMessage
<1>3. Arrivals(net[p][n]) # {} /\ ct \in Ciphertexts
  BY <1>1, <1>2, Arrived
<1>4. \/ DropDuplicate(n, p, s, id)
      \/ /\ inbox' = [inbox EXCEPT ![n] =
                         Append(@, [from |-> p, dm |-> ct.payload.dm, id |-> id])]
         /\ Acknowledge(n, p, s, id, SendOutcomes)
  BY <1>1 DEF HandlePrivateMessage
<1>5. CASE DropDuplicate(n, p, s, id)
  <2>1. Acts(n, p, s, <<>>) /\ UNCHANGED inbox
    BY <1>3, <1>5 DEF DropDuplicate, Acts
  <2> QED
    BY <1>1, <1>2, <1>3, <2>1, PlainInOrder
<1>6. CASE ~DropDuplicate(n, p, s, id)
  BY <1>1, <1>2, <1>4, <1>6, ShowInOrder
<1> QED
  BY <1>5, <1>6

(* The packets of a flushed queue come in the order of the queue.            *)
LEMMA FlushedInTurn ==
  ASSUME NEW cts \in Seq(Ciphertexts), NEW sent \in SentOf(Len(cts)),
         NEW f, f = [i \in DOMAIN sent |-> EncryptedPacket(cts[sent[i]])]
  PROVE  /\ f \in Seq(Packets)
         /\ \A i \in 1..Len(f) :
              /\ sent[i] \in 1..Len(cts) /\ f[i].sealed = cts[sent[i]] /\ ~IsThird(f[i])
              /\ \A j \in 1..Len(f) : i < j => sent[i] < sent[j]
<1>1. PICK m \in 0..Len(cts) : /\ sent \in [1..m -> 1..Len(cts)]
                              /\ \A i, j \in 1..m : i < j => sent[i] < sent[j]
  BY DEF SentOf
<1>2. ASSUME NEW i \in 1..m
      PROVE  /\ sent[i] \in 1..Len(cts)
             /\ f[i] \in Packets /\ f[i].sealed = cts[sent[i]] /\ ~IsThird(f[i])
  <2>1. sent[i] \in 1..Len(cts) /\ f[i] = EncryptedPacket(cts[sent[i]])
    BY <1>1
  <2>2. cts[sent[i]] \in Ciphertexts
    BY <2>1
  <2> QED
    BY <2>1, <2>2, OutPackets, SmallTalk
<1>3. f \in [1..m -> Packets]
  BY <1>1, <1>2
<1>4. f \in Seq(Packets) /\ Len(f) = m
  BY <1>3
<1> QED
  BY <1>1, <1>2, <1>4

(* What waited for a session goes out in its order, after the third message. *)
LEMMA FlushInOrder ==
  ASSUME Ordered, IInv, NEW n \in Node, NEW p \in Peers(n), Arrivals(net[p][n]) # {},
         NEW s, SessionGood(n, p, s), IsEstablished(s), Kept(session[n][p], s),
         s.pending = session[n][p].pending, IsEstablished(session[n][p]) => s = session[n][p],
         s.receive.key.direction = 1 =>
            \/ IsEstablished(session[n][p])
            \/ \E packet : Arrives(p, n, packet) /\ Hands(packet, s.receive.key),
         NEW packets \in Seq(Packets),
         \A i \in 1..Len(packets) :
            /\ ~CarriesMessage(packets[i])
            /\ ~IsEstablished(session[n][p]) /\ packets[i].noise.e = OwnKey(s),
         FlushPending(n, p, s, packets),
         \A a \in Node : ephemerals[a] <= ephemerals'[a],
         UNCHANGED <<asked, inbox>>
  PROVE  StepOfOrder
<1>1. PICK o : o = session[n][p]
  OBVIOUS
<1>2. s \in Sessions /\ s.pending \in Seq(Dms) /\ SlotsOK /\ HistoriesOK
  BY OfSession DEF SessionGood, Sessions
<1>3. PICK expired \in 0..Len(s.pending) :
        \E sent \in SentOf(Len(FlushedCiphertexts(s, expired))) :
              /\ Becomes(n, p, AfterFlush(s, expired))
              /\ Exchange(n, p, packets \o
                     [i \in DOMAIN sent |-> EncryptedPacket(FlushedCiphertexts(s, expired)[sent[i]])])
  <2>1. 0 \in 0..Len(s.pending)
    BY <1>2
  <2> QED
    BY <2>1 DEF FlushPending
<1>4. PICK t, cts : t = AfterFlush(s, expired) /\ cts = FlushedCiphertexts(s, expired)
  OBVIOUS
<1>5. PICK sent \in SentOf(Len(cts)) :
        /\ Becomes(n, p, t)
        /\ Exchange(n, p, packets \o [i \in DOMAIN sent |-> EncryptedPacket(cts[sent[i]])])
  BY <1>3, <1>4
<1>6. PICK f : f = [i \in DOMAIN sent |-> EncryptedPacket(cts[sent[i]])]
  OBVIOUS
<1>7. PICK out : out = packets \o f
  OBVIOUS
<1>8. Acts(n, p, t, out) /\ Exchange(n, p, out)
  BY <1>5, <1>6, <1>7 DEF Acts
<1>9. FlushingGood(n, p, s, expired, t, cts)
  BY <1>4, Flushing
<1>10. /\ IsEstablished(t) /\ OwnKey(t) = OwnKey(s) /\ t.send.key = s.send.key
       /\ t.receive = s.receive /\ t.pending = <<>>
       /\ t.send.nonce = s.send.nonce + Len(cts) /\ cts \in Seq(Ciphertexts)
       /\ \A i \in 1..Len(cts) :
            /\ cts[i].key = s.send.key
            /\ i + expired \in 1..Len(s.pending)
            /\ cts[i].payload.dm = s.pending[i + expired]
  BY <1>9 DEF FlushingGood
<1>11. /\ f \in Seq(Packets)
       /\ \A i \in 1..Len(f) :
            /\ sent[i] \in 1..Len(cts) /\ f[i].sealed = cts[sent[i]] /\ ~IsThird(f[i])
            /\ \A j \in 1..Len(f) : i < j => sent[i] < sent[j]
  BY <1>6, <1>10, FlushedInTurn
<1>12. PICK l \in Nat : l = Len(packets)
  OBVIOUS
<1>13. /\ out \in Seq(Packets)
       /\ \A i \in 1..Len(out) : \/ i \in 1..l /\ out[i] = packets[i]
                                 \/ /\ i \notin 1..l /\ i - l \in 1..Len(f)
                                    /\ out[i] = f[i - l]
  BY <1>7, <1>11, <1>12
<1>14. ThirdsGood(o, t, out)
  <2>1. ASSUME NEW i \in 1..Len(out), IsThird(out[i])
        PROVE  /\ ~IsEstablished(o) /\ OwnKey(o) = out[i].noise.e
               /\ OwnKey(t) = out[i].noise.e
    <3>1. i \in 1..l /\ out[i] = packets[i]
      BY <1>11, <1>13, <2>1
    <3>2. OwnKey(s) = OwnKey(o)
      BY <1>1 DEF Kept
    <3> QED
      BY <1>1, <1>10, <1>12, <3>1, <3>2
  <2> QED
    BY <1>10, <2>1 DEF ThirdsGood
<1>15. InTurn(o, t, out)
  <2>1. PICK place : place = [i \in 1..Len(out) |-> sent[i - l] + expired]
    OBVIOUS
  <2>2. ASSUME NEW i \in 1..Len(out), CarriesMessage(out[i])
        PROVE  /\ i - l \in 1..Len(f) /\ out[i] = f[i - l] /\ place[i] = sent[i - l] + expired
               /\ sent[i - l] \in 1..Len(cts) /\ out[i].sealed = cts[sent[i - l]]
    <3>1. i - l \in 1..Len(f) /\ out[i] = f[i - l]
      BY <1>12, <1>13, <2>2
    <3> QED
      BY <1>11, <2>1, <3>1
  <2>3. ASSUME NEW i \in 1..Len(out), CarriesMessage(out[i])
        PROVE  /\ out[i].sealed.key = t.send.key
               /\ place[i] \in 1..Len(o.pending)
               /\ out[i].sealed.payload.dm = o.pending[place[i]]
    BY <1>1, <1>10, <2>2, <2>3
  <2>4. ASSUME NEW i \in 1..Len(out), CarriesMessage(out[i]),
               NEW j \in 1..Len(out), CarriesMessage(out[j]), i < j
        PROVE  place[i] < place[j]
    <3>1. i - l \in 1..Len(f) /\ j - l \in 1..Len(f) /\ i - l < j - l
      BY <2>2, <2>4
    <3>2. sent[i - l] < sent[j - l]
      BY <1>11, <3>1
    <3>3. /\ place[i] = sent[i - l] + expired /\ place[j] = sent[j - l] + expired
          /\ sent[i - l] \in Nat /\ sent[j - l] \in Nat
      BY <2>2, <2>4
    <3> QED
      BY <3>2, <3>3
  <2> QED
    BY <1>10, <2>3, <2>4 DEF InTurn
<1>16. Moved(n, o, t)
  <2>1. Kept(o, t)
    <3>1. s.send.nonce <= t.send.nonce /\ s.send.nonce \in Nat
      BY <1>2, <1>10 DEF Sessions, Ciphers
    <3> QED
      BY <1>1, <1>10, <3>1 DEF Kept, IsEstablished
  <2> QED
    BY <1>1, <1>10, <2>1 DEF Moved, Flushed
<1>17. KeysFrom(n, p, o, t)
  BY <1>1, <1>2, <1>8, <1>10, <1>13, Exchanging DEF KeysFrom
<1>18. SentGood(n, p, o, t, out)
  BY <1>14, <1>15 DEF SentGood
<1>19. Counted /\ UNCHANGED inbox
  BY NothingAsked
<1> QED
  BY <1>1, <1>8, <1>13, <1>16, <1>17, <1>18, <1>19, ActsInOrder

(* A handshake message is answered, and ends the wait if it completes the    *)
(* handshake, or its answer does and is sent.                                *)
LEMMA HandshakeInitInOrder ==
  ASSUME Ordered, IInv, NEW n \in Node, NEW p \in Peers(n), NEW packet,
         HandleNoiseHandshakeInit(n, p, packet)
  PROVE  StepOfOrder
<1>1. PICK o, msg : o = session[n][p] /\ msg = packet.noise
  OBVIOUS
<1>2. /\ Arrives(p, n, packet) /\ packet.type = "NoiseHandshakeInit"
      /\ Arrivals(net[p][n]) # {} /\ msg \in Noises /\ NoiseGood(p, msg)
  BY <1>1, Arrived DEF HandleNoiseHandshakeInit
<1>3. PICK s : s = IF HasSession(session[n][p]) THEN session[n][p]
                   ELSE CreateSession(NoSession, "Responder")
  OBVIOUS
<1>4. PICK after, result, answer :
        /\ after = AfterIncoming(s, msg, Fresh(n)) /\ result = IncomingResult(s, msg)
        /\ answer = IncomingResponse(s, msg, Fresh(n))
  OBVIOUS
<1>5. PICK reply : reply = HandshakePacket(answer)
  OBVIOUS
<1>6. /\ UNCHANGED <<asked, inbox>>
      /\ IF ResponseDrawsKey(s, msg)
         THEN /\ ephemerals[n] < MaxEphemerals
              /\ ephemerals' = [ephemerals EXCEPT ![n] = @ + 1]
         ELSE UNCHANGED ephemerals
      /\ \/ /\ result = "Failed"
            /\ Becomes(n, p, after)
            /\ Exchange(n, p, <<>>)
         \/ /\ result \in {"Ignored", "Done"}
            /\ FlushPending(n, p, after, <<>>)
         \/ /\ result = "Response"
            /\ IF IsEstablished(after)
               THEN FlushPending(n, p, after, <<reply>>)
               ELSE Becomes(n, p, after) /\ Exchange(n, p, <<reply>>)
         \/ /\ result = "Response"
            /\ Becomes(n, p, after)
            /\ Exchange(n, p, <<>>)
  BY <1>1, <1>3, <1>4, <1>5 DEF HandleNoiseHandshakeInit, uiVars
<1>7. /\ \A a \in Node : ephemerals[a] <= ephemerals'[a]
      /\ IncomingGood(n, p, s, msg, Fresh(n), after)
      /\ IsEstablished(s) => IsEstablished(session[n][p])
      /\ OwnKey(s) \in {NoKey, OwnKey(session[n][p])}
      /\ SessionGood(n, p, after) /\ after.pending = session[n][p].pending
      /\ IsEstablished(session[n][p]) => after = session[n][p]
      /\ IsEstablished(after) => Kept(session[n][p], after)
      /\ \/ OwnKey(after) = NoKey \/ Kept(session[n][p], after)
         \/ (OwnKey(after) = Fresh(n) /\ ephemerals'[n] = ephemerals[n] + 1)
  BY <1>2, <1>3, <1>4, <1>6, Answering
<1>8. Counted
  BY <1>6, <1>7, NothingAsked
<1>9. /\ result = "Ignored" => IsEstablished(o) /\ IsEstablished(after)
      /\ result = "Failed" => ~IsEstablished(after)
      /\ result = "Response" => answer \in Noises
      /\ result = "Response" /\ IsEstablished(after) =>
            /\ ~IsEstablished(o) /\ after.send.key.direction = 1
            /\ OwnKey(after) = OwnKey(s) /\ answer.e = OwnKey(s)
      /\ result = "Response" /\ ~IsEstablished(after) => answer.number = 2
      /\ result = "Done" =>
            /\ IsEstablished(after) /\ msg.number = 3 /\ msg.honest
            /\ msg.e = after.receive.key.i /\ msg.re = after.receive.key.r
  <2>1. result = "Response" => ~IsEstablished(s)
    BY <1>4, <1>7 DEF IncomingGood
  <2>2. IsEstablished(o) => s = o
    BY <1>1, <1>3 DEF IsEstablished, HasSession
  <2> QED
    BY <1>1, <1>4, <1>7, <2>1, <2>2 DEF IncomingGood, CompletingGood
<1>10. after.send.key.direction = 1 /\ IsEstablished(after) => after.receive.key.direction = 2
  BY <1>7 DEF SessionGood, KeysGood, IsEstablished
<1>11. result = "Response" =>
         /\ <<reply>> \in Seq(Packets) /\ \A i \in 1..Len(<<reply>>) : <<reply>>[i] = reply
         /\ reply.noise = answer /\ ~CarriesMessage(reply)
         /\ answer.number # 3 => ~IsThird(reply)
  BY <1>5, <1>9, OutPackets, SmallTalk
<1>12. ASSUME NEW out \in Seq(Packets), Becomes(n, p, after), Exchange(n, p, out),
              IsEstablished(after) => ~IsEstablished(o) /\ after.send.key.direction = 1,
              \A i \in 1..Len(out) : ~IsThird(out[i]) /\ ~CarriesMessage(out[i])
       PROVE  StepOfOrder
  <2>1. Acts(n, p, after, out)
    BY <1>2, <1>12 DEF Acts
  <2>2. ~IsEstablished(o)
    BY <1>1, <1>7, <1>12
  <2>3. Moved(n, o, after)
    BY <1>1, <1>7, <1>12, <2>2 DEF Moved, Flushed
  <2>4. KeysFrom(n, p, o, after)
    BY <1>10, <1>12 DEF KeysFrom
  <2>5. SentGood(n, p, o, after, out)
    BY <1>1, <1>7, <1>12, <2>2 DEF SentGood, ThirdsGood, Quiet
  <2> QED
    BY <1>1, <1>6, <1>8, <1>12, <2>1, <2>3, <2>4, <2>5, ActsInOrder
<1>13. ASSUME NEW packets \in Seq(Packets), FlushPending(n, p, after, packets),
              IsEstablished(after),
              after.receive.key.direction = 1 =>
                 IsEstablished(o) \/ Hands(packet, after.receive.key),
              \A i \in 1..Len(packets) :
                 /\ ~CarriesMessage(packets[i])
                 /\ ~IsEstablished(o) /\ packets[i].noise.e = OwnKey(after)
       PROVE  StepOfOrder
  BY <1>1, <1>2, <1>6, <1>7, <1>13, FlushInOrder
<1>14. CASE result = "Failed" /\ Becomes(n, p, after) /\ Exchange(n, p, <<>>)
  <2>1. PICK out : out = <<>>
    OBVIOUS
  <2>2. out \in Seq(Packets) /\ \A i \in 1..Len(out) : ~IsThird(out[i]) /\ ~CarriesMessage(out[i])
    BY <2>1
  <2> QED
    BY <1>9, <1>12, <1>14, <2>1, <2>2
<1>15. CASE result = "Response" /\ Becomes(n, p, after) /\ Exchange(n, p, <<>>)
  <2>1. PICK out : out = <<>>
    OBVIOUS
  <2>2. out \in Seq(Packets) /\ \A i \in 1..Len(out) : ~IsThird(out[i]) /\ ~CarriesMessage(out[i])
    BY <2>1
  <2> QED
    BY <1>9, <1>12, <1>15, <2>1, <2>2
<1>16. CASE /\ result = "Response" /\ ~IsEstablished(after)
            /\ Becomes(n, p, after) /\ Exchange(n, p, <<reply>>)
  <2>1. PICK out : out = <<reply>>
    OBVIOUS
  <2>2. out \in Seq(Packets) /\ \A i \in 1..Len(out) : ~IsThird(out[i]) /\ ~CarriesMessage(out[i])
    BY <1>9, <1>11, <1>16, <2>1
  <2> QED
    BY <1>12, <1>16, <2>1, <2>2
<1>17. CASE /\ result = "Response" /\ IsEstablished(after)
            /\ FlushPending(n, p, after, <<reply>>)
  <2>1. PICK packets : packets = <<reply>>
    OBVIOUS
  <2>2. /\ packets \in Seq(Packets)
        /\ \A i \in 1..Len(packets) :
             /\ ~CarriesMessage(packets[i])
             /\ ~IsEstablished(o) /\ packets[i].noise.e = OwnKey(after)
    BY <1>9, <1>11, <1>17, <2>1
  <2>3. after.receive.key.direction # 1
    BY <1>9, <1>10, <1>17
  <2> QED
    BY <1>13, <1>17, <2>1, <2>2, <2>3
<1>18. CASE result \in {"Ignored", "Done"} /\ FlushPending(n, p, after, <<>>)
  <2>1. PICK packets : packets = <<>>
    OBVIOUS
  <2>2. /\ packets \in Seq(Packets)
        /\ \A i \in 1..Len(packets) :
             /\ ~CarriesMessage(packets[i])
             /\ ~IsEstablished(o) /\ packets[i].noise.e = OwnKey(after)
    BY <2>1
  <2>3. IsEstablished(after) /\ (IsEstablished(o) \/ Hands(packet, after.receive.key))
    BY <1>1, <1>2, <1>9, <1>18 DEF Hands, IsThird
  <2> QED
    BY <1>13, <1>18, <2>1, <2>2, <2>3
<1> QED
  BY <1>6, <1>14, <1>15, <1>16, <1>17, <1>18

(* A packet to every peer, which carries nothing.                            *)
LEMMA LeaveChannelInOrder ==
  ASSUME Ordered, IInv, NEW n \in Node, LeaveChannel(n)
  PROVE  StepOfOrder
<1>1. SlotsOK /\ HistoriesOK
  BY DEF IInv, ShapesOK
<1>2. PICK q, out : q = LeavePacket("channel") /\ out = <<q>>
  OBVIOUS
<1>3. /\ out \in Seq(Packets)
      /\ \A i \in 1..Len(out) : ~IsThird(out[i]) /\ ~CarriesMessage(out[i])
  <2>1. q \in Packets /\ ~IsThird(q) /\ ~CarriesMessage(q)
    BY <1>2, OutPackets, SmallTalk
  <2> QED
    BY <1>2, <2>1
<1>4. /\ net' = [net EXCEPT ![n] = [p \in Peers(n) |-> Transmit(net[n][p], out)]]
      /\ UNCHANGED <<session, ephemerals, asked, inbox>>
  BY <1>2 DEF LeaveChannel, uiVars
<1>5. \A a \in Node : \A b \in Peers(a) :
         net'[a][b] = IF a = n THEN net[a][b] \o out ELSE net[a][b]
  BY <1>1, <1>4 DEF SlotsOK, Transmit
<1>6. Counted
  BY <1>1, <1>4, FreshKey, NothingAsked
<1>7. ASSUME NEW a \in Node, NEW b \in Peers(a)
      PROVE  /\ Moved(a, session[a][b], session'[a][b])
             /\ SenderStep(a, b) \/ ReceiverStep(a, b)
  <2>1. PICK s : s = session[a][b]
    OBVIOUS
  <2>2. SessionGood(a, b, s) /\ session'[a][b] = s
    BY <1>4, <2>1, OfSession
  <2>3. Moved(a, s, s)
    BY <2>2, NotMoved
  <2>4. CASE a = n
    <3>1. IsEstablished(s) \/ s.pending = s.pending
      OBVIOUS
    <3>2. SentGood(a, b, s, s, out)
      BY <1>3, <3>1 DEF SentGood, ThirdsGood, Quiet
    <3>3. net'[a][b] = net[a][b] \o out
      BY <1>5, <2>4
    <3> QED
      BY <1>3, <1>4, <2>1, <2>2, <2>3, <3>2, <3>3 DEF SenderStep
  <2>5. CASE a # n
    <3>1. net'[a][b] = net[a][b]
      BY <1>5, <2>5
    <3> QED
      BY <1>4, <2>1, <2>2, <2>3, <3>1 DEF ReceiverStep
  <2> QED
    BY <2>4, <2>5
<1> QED
  BY <1>6, <1>7 DEF StepOfOrder

(* A peer that gives its sessions up has no keys of anybody.                 *)
LEMMA ConnectionRetryInOrder ==
  ASSUME Ordered, IInv, NEW n \in Node, ConnectionRetry(n)
  PROVE  StepOfOrder
<1>1. SlotsOK /\ HistoriesOK
  BY DEF IInv, ShapesOK
<1>2. /\ session' = [session EXCEPT ![n] = [p \in Peers(n) |-> NoSession]]
      /\ UNCHANGED <<net, ephemerals, asked, inbox>>
  BY DEF ConnectionRetry, uiVars
<1>3. \A a \in Node : \A b \in Peers(a) :
         session'[a][b] = IF a = n THEN NoSession ELSE session[a][b]
  BY <1>1, <1>2 DEF SlotsOK
<1>4. ~IsEstablished(NoSession) /\ OwnKey(NoSession) = NoKey /\ NoSession.pending = <<>>
  BY NoSessionGood DEF IsEstablished, NoSession
<1>5. Counted
  BY <1>1, <1>2, FreshKey, NothingAsked
<1>6. ASSUME NEW a \in Node, NEW b \in Peers(a)
      PROVE  /\ Moved(a, session[a][b], session'[a][b])
             /\ SenderStep(a, b) \/ ReceiverStep(a, b)
  <2>1. b \in Node /\ a \in Peers(b) /\ b # a
    BY DEF Peers
  <2>2. CASE a = n
    <3>1. session'[a][b] = NoSession /\ session'[b][a] = session[b][a]
      BY <1>3, <2>1, <2>2
    <3>2. Moved(a, session[a][b], session'[a][b])
      BY <1>4, <3>1 DEF Moved, Flushed
    <3>3. PICK out : out = <<>>
      OBVIOUS
    <3>4. out \in Seq(Packets) /\ Len(out) = 0
      BY <3>3
    <3>5. SentGood(a, b, session[a][b], session'[a][b], out)
      BY <1>4, <3>1, <3>4 DEF SentGood, ThirdsGood, Quiet
    <3>6. net'[a][b] = net[a][b] \o out
      <4>1. net[a][b] \in Seq(Packets)
        BY <1>1 DEF SlotsOK, Media
      <4> QED
        BY <1>2, <3>3, <4>1
    <3> QED
      BY <1>2, <3>1, <3>2, <3>4, <3>5, <3>6 DEF SenderStep
  <2>3. CASE a # n
    <3>1. /\ session'[a][b] = session[a][b]
          /\ session'[b][a] = session[b][a] \/ session'[b][a] = NoSession
      BY <1>3, <2>1, <2>3
    <3>2. Moved(a, session[a][b], session[a][b])
      BY OfSession, NotMoved
    <3> QED
      BY <1>2, <1>4, <3>1, <3>2 DEF ReceiverStep
  <2> QED
    BY <2>2, <2>3
<1> QED
  BY <1>5, <1>6 DEF StepOfOrder

(* Every action is such a step.                                              *)
LEMMA NextInOrder ==
  ASSUME Ordered, IInv, Next
  PROVE  StepOfOrder
<1>1. PICK n \in Node :
        \/ \E p \in Peers(n) : UserSends(n, p) \/ Receive(n, p) \/ HandleRequestSync(n, p)
        \/ LeaveChannel(n)
        \/ ConnectionRetry(n)
  BY DEF Next
<1>2. ASSUME NEW p \in Peers(n), UserSends(n, p)
      PROVE  StepOfOrder
  BY <1>2, UserInOrder
<1>3. ASSUME NEW p \in Peers(n), Receive(n, p)
      PROVE  StepOfOrder
  <2>1. PICK packet \in Arrivals(net[p][n]) : HandlePacket(n, p, packet)
    BY <1>3 DEF Receive
  <2>2. CASE HandleNoiseHandshakeInit(n, p, packet)
    BY <2>2, HandshakeInitInOrder
  <2>3. CASE HandlePrivateMessage(n, p, packet)
    BY <2>3, PrivateMessageInOrder
  <2>4. CASE HandleHandshakeRequest(n, p, packet)
    BY <2>4, RequestInOrder
  <2> QED
    BY <2>1, <2>2, <2>3, <2>4, PlainHandlersInOrder DEF HandlePacket
<1>4. ASSUME NEW p \in Peers(n), HandleRequestSync(n, p)
      PROVE  StepOfOrder
  BY <1>4, RequestSyncInOrder
<1>5. CASE LeaveChannel(n)
  BY <1>5, LeaveChannelInOrder
<1>6. CASE ConnectionRetry(n)
  BY <1>6, ConnectionRetryInOrder
<1> QED
  BY <1>1, <1>2, <1>3, <1>4, <1>5, <1>6

(* ... as is one that changes nothing.                                       *)
LEMMA StutteringInOrder ==
  ASSUME Ordered, IInv, UNCHANGED vars
  PROVE  StepOfOrder
<1>1. UNCHANGED <<session, ephemerals, net, asked, inbox>> /\ HistoriesOK
  BY DEF vars, IInv, ShapesOK
<1>2. Counted
  BY <1>1, NothingAsked, FreshKey DEF HistoriesOK
<1>3. ASSUME NEW a \in Node, NEW b \in Peers(a)
      PROVE  Moved(a, session[a][b], session[a][b]) /\ ReceiverStep(a, b)
  <2>1. Moved(a, session[a][b], session[a][b])
    BY OfSession, NotMoved
  <2> QED
    BY <1>1, <2>1 DEF ReceiverStep
<1> QED
  BY <1>1, <1>2, <1>3 DEF StepOfOrder

(* Nothing is out of order before anything is sent.                          *)
LEMMA InitInOrder ==
  ASSUME Ordered, Init
  PROVE  OrderInv
<1>1. ASSUME NEW n \in Node, NEW p \in Peers(n)
      PROVE  /\ session[n][p] = NoSession /\ net[n][p] = <<>>
             /\ session[p][n] = NoSession /\ inbox[p] = <<>>
  BY DEF Init, EmptyMedium, Peers
<1>2. ~IsEstablished(NoSession) /\ NoSession.pending = <<>>
  BY DEF IsEstablished, NoSession
<1>3. \A n \in Node : \A p \in Peers(n) : \A key : ~Heard(n, p, key)
  BY <1>1, <1>2 DEF Heard, Contents, Elements
<1>4. HeardOK /\ FlushedOK
  BY <1>1, <1>2, <1>3 DEF HeardOK, FlushedOK, Flushed
<1>5. AskedOK
  BY DEF Init, AskedOK
<1>6. OrderOK
  BY <1>1, <1>2 DEF OrderOK, InOrder
<1> QED
  BY <1>4, <1>5, <1>6 DEF OrderInv

-----------------------------------------------------------------------------
(* Over one link every message is shown after those that were asked for      *)
(* before it, if they are shown at all: those that waited for a session do   *)
(* not overtake those sent at once, nor the other way round, through lost    *)
(* sends, expired messages, removed sessions and repeated handshakes.        *)
THEOREM MessagesStayInOrder == Spec => []ShownInOrder
<1> DEFINE Inv == IInv /\ (Ordered => OrderInv)
<1>1. Init => Inv
  BY InitInv, InitInOrder
<1>2. Inv /\ [Next]_vars => Inv'
  <2>1. IInv /\ [Next]_vars => IInv'
    BY NextInv, Stuttering
  <2>2. ASSUME Ordered, IInv, IInv', OrderInv, [Next]_vars
        PROVE  OrderInv'
    <3>1. StepOfOrder
      BY <2>2, NextInOrder, StutteringInOrder
    <3> QED
      BY <2>2, <3>1, OrderKept
  <2> QED
    BY <2>1, <2>2
<1>3. Inv => ShownInOrder
  <2>1. SUFFICES ASSUME IInv, OrderOK, NEW n \in Node,
                        NEW i \in 1..Len(inbox[n]), NEW j \in 1..Len(inbox[n]),
                        i < j, inbox[n][i].from = inbox[n][j].from
                 PROVE  inbox[n][i].dm.serial < inbox[n][j].dm.serial
    BY DEF ShownInOrder, OrderInv
  <2>2. PICK p : p = inbox[n][i].from
    OBVIOUS
  <2>3. p \in Node /\ n \in Peers(p)
    BY <2>1, <2>2 DEF IInv, MessagesInv, InboxesOK, Peers
  <2> QED
    BY <2>1, <2>2, <2>3 DEF OrderOK, InOrder
<1> QED
  BY <1>1, <1>2, <1>3, PTL DEF Spec
=============================================================================
