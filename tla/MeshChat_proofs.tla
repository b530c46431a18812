----------------------------- MODULE MeshChat_proofs -----------------------------
(***************************************************************************)
(* Proofs about MeshChat, for any packets, senders, texts, filter errors    *)
(* and bounds.                                                              *)
(*                                                                          *)
(* EachOnce is not inductive.  A line is shown again only if its id left    *)
(* the filter, so IInv says that the filter knows what was shown; a text is *)
(* tracked again only if it was not written, so it says that what was not   *)
(* written was not reported as delivered.  The types need that no packet is *)
(* counted more often than packets arrived.                                 *)
(***************************************************************************)
EXTENDS MeshChat, TLAPS

(* A count by id, of at most n. *)
Count(n) == [Ids -> 0..n]

(* What arrived bounds what was shown, acknowledged, relayed and delivered. *)
Counted ==
    /\ arrivals \in 0..MaxArrivals
    /\ shown \in Count(arrivals) /\ acked \in Count(arrivals) /\ relayed \in Count(arrivals)
    /\ delivered \in [Texts -> 0..arrivals]

(* The duplicate filter knows what was shown. *)
FilterKnowsShown == \A id \in Ids : shown[id] # 0 => id \in bloom

(* A text that was not written was not delivered. *)
UnsentIsUndelivered == \A x \in Texts : sent[x] = "no" => delivered[x] = 0

IInv ==
    /\ TypeOK /\ Counted
    /\ EachOnce /\ FilterKnowsShown /\ UnsentIsUndelivered
    /\ KeysFollowChannel

-----------------------------------------------------------------------------
(* Counting one more. *)
LEMMA OneMore ==
  ASSUME NEW n \in Nat, NEW f \in Count(n), NEW i \in Ids
  PROVE  /\ [f EXCEPT ![i] = @ + 1] \in Count(n + 1)
         /\ \A j \in Ids : [f EXCEPT ![i] = @ + 1][j] = IF j = i THEN f[j] + 1 ELSE f[j]
<1> USE DEF Count
<1>1. \A j \in Ids : f[j] \in 0..n /\ f[j] + 1 \in 0..n + 1 /\ f[j] \in 0..n + 1
  OBVIOUS
<1>2. DOMAIN f = Ids
  OBVIOUS
<1> QED
  BY <1>1, <1>2

(* A count stays one when the bound grows. *)
LEMMA CountGrows ==
  ASSUME NEW S, NEW n \in Nat, NEW k \in Nat, n <= k, NEW f \in [S -> 0..n]
  PROVE  f \in [S -> 0..k]
<1>1. \A j \in S : f[j] \in 0..k
  OBVIOUS
<1> QED
  BY <1>1

(* A count g that counts packet p once more than f does. *)
CountsOnceMore(f, g, p) ==
    \A id \in Ids : g[id] = IF id = p.id THEN f[id] + 1 ELSE f[id]

(* What Show, Acknowledge and Relay do to the counts of a packet. *)
LEMMA Counting ==
  ASSUME Counted, NEW p \in Packets, NEW ttl
  PROVE  /\ Show(p) => shown' \in Count(arrivals + 1) /\ CountsOnceMore(shown, shown', p)
         /\ Relay(p, ttl) =>
               /\ relayed' \in Count(arrivals + 1)
               /\ relayed' = relayed \/ CountsOnceMore(relayed, relayed', p)
         /\ Acknowledge(p) =>
               /\ acked' \in Count(arrivals + 1)
               /\ acked' = acked \/ CountsOnceMore(acked, acked', p)
               /\ sent_acks' \subseteq sent_acks \cup Ids
<1>1. arrivals \in Nat /\ arrivals <= arrivals + 1 /\ arrivals + 1 \in Nat
  BY BoundsAssumption DEF Counted
<1>2. p.id \in Ids
  BY DEF Ids
<1>3. /\ shown \in Count(arrivals) /\ acked \in Count(arrivals)
      /\ relayed \in Count(arrivals)
  BY DEF Counted
<1>4. acked \in Count(arrivals + 1) /\ relayed \in Count(arrivals + 1)
  BY <1>1, <1>3, CountGrows DEF Count
<1>5. ASSUME Show(p)
      PROVE  shown' \in Count(arrivals + 1) /\ CountsOnceMore(shown, shown', p)
  BY <1>1, <1>2, <1>3, <1>5, OneMore DEF Show, CountsOnceMore
<1>6. ASSUME Relay(p, ttl)
      PROVE  /\ relayed' \in Count(arrivals + 1)
             /\ relayed' = relayed \/ CountsOnceMore(relayed, relayed', p)
  <2>1. CASE relayed' = relayed
    BY <1>4, <2>1
  <2>2. CASE relayed' = [relayed EXCEPT ![p.id] = @ + 1]
    BY <1>1, <1>2, <1>3, <2>2, OneMore DEF CountsOnceMore
  <2> QED
    BY <1>6, <2>1, <2>2 DEF Relay
<1>7. ASSUME Acknowledge(p)
      PROVE  /\ acked' \in Count(arrivals + 1)
             /\ acked' = acked \/ CountsOnceMore(acked, acked', p)
             /\ sent_acks' \subseteq sent_acks \cup Ids
  <2>1. CASE acked' = acked /\ sent_acks' = sent_acks
    BY <1>4, <2>1
  <2>2. CASE acked' = [acked EXCEPT ![p.id] = @ + 1] /\ sent_acks' = sent_acks \cup {p.id}
    <3>1. acked' \in Count(arrivals + 1) /\ CountsOnceMore(acked, acked', p)
      BY <1>1, <1>2, <1>3, <2>2, OneMore DEF CountsOnceMore
    <3> QED
      BY <1>2, <2>2, <3>1
  <2> QED
    BY <1>7, <2>1, <2>2 DEF Acknowledge
<1> QED
  BY <1>5, <1>6, <1>7

(* What the handling of one arrival of p may do to the counts: p is shown   *)
(* only if the filter did not know it, and then knows it; it is             *)
(* acknowledged, and relayed if it can be read, only if it is shown.        *)
Readable == {"public", "channel", "private"}
Handles(p) ==
    /\ arrivals' \in 1..MaxArrivals /\ arrivals' = arrivals + 1
    /\ shown' \in Count(arrivals + 1) /\ acked' \in Count(arrivals + 1)
    /\ relayed' \in Count(arrivals + 1)
    /\ bloom' \in {bloom, bloom \cup {p.id}} /\ sent_acks' \subseteq sent_acks \cup Ids
    /\ \/ shown' = shown
       \/ p.id \notin bloom /\ p.id \in bloom' /\ CountsOnceMore(shown, shown', p)
    /\ \/ acked' = acked
       \/ CountsOnceMore(shown, shown', p) /\ CountsOnceMore(acked, acked', p)
    /\ \/ relayed' = relayed
       \/ /\ p.type \in Readable => CountsOnceMore(shown, shown', p)
          /\ CountsOnceMore(relayed, relayed', p)

LEMMA ReceiveHandles ==
  ASSUME Counted, NEW p \in Packets, Receive(p)
  PROVE  Handles(p) /\ UNCHANGED txVars
<1>1. ASSUME Arrives
      PROVE  /\ arrivals' \in 1..MaxArrivals /\ arrivals' = arrivals + 1
             /\ arrivals \in Nat /\ arrivals + 1 \in Nat /\ arrivals <= arrivals + 1
  BY <1>1, BoundsAssumption DEF Counted, Arrives
<1>2. ASSUME Arrives
      PROVE  /\ shown \in Count(arrivals + 1) /\ acked \in Count(arrivals + 1)
             /\ relayed \in Count(arrivals + 1)
  BY <1>1, <1>2, CountGrows DEF Counted, Count
<1>a. Show(p) => shown' \in Count(arrivals + 1) /\ CountsOnceMore(shown, shown', p)
  BY Counting
<1>b. ASSUME NEW ttl, Relay(p, ttl)
      PROVE  /\ relayed' \in Count(arrivals + 1)
             /\ relayed' = relayed \/ CountsOnceMore(relayed, relayed', p)
  BY <1>b, Counting
<1>c. Acknowledge(p) => /\ acked' \in Count(arrivals + 1)
                        /\ acked' = acked \/ CountsOnceMore(acked, acked', p)
                        /\ sent_acks' \subseteq sent_acks \cup Ids
  BY Counting
<1> USE <1>a, <1>b, <1>c DEF Handles, txVars
<1>3. ASSUME NEW ttl \in 1..2, ReceiveMessage(p, ttl) PROVE Handles(p) /\ UNCHANGED txVars
  BY <1>1, <1>2, <1>3 DEF ReceiveMessage, Discover, IsNew
<1>4. ASSUME NEW ttl \in 1..2, ReceiveText(p, ttl) PROVE Handles(p) /\ UNCHANGED txVars
  BY <1>1, <1>2, <1>4 DEF ReceiveText, IsNew, Readable
<1>5. ASSUME NEW ttl \in 1..2, ReceiveTransit(p, ttl) \/ ReceiveNoiseTransit(p, ttl)
      PROVE  Handles(p) /\ UNCHANGED txVars
  BY <1>1, <1>2, <1>5 DEF ReceiveTransit, ReceiveNoiseTransit, Readable
<1>6. ASSUME ReceiveReassembled(p) PROVE Handles(p) /\ UNCHANGED txVars
  BY <1>1, <1>2, <1>6 DEF ReceiveReassembled, Discover, IsNew
<1>7. ASSUME ReceiveFile(p) PROVE Handles(p) /\ UNCHANGED txVars
  BY <1>1, <1>2, <1>7 DEF ReceiveFile, IsNew
<1>8. ASSUME ReceiveAnnounce(p) \/ ReceiveLeave(p) \/ ReceiveKey(p)
      PROVE  Handles(p) /\ UNCHANGED txVars
  BY <1>1, <1>2, <1>8 DEF ReceiveAnnounce, ReceiveLeave, ReceiveKey
<1>9. ASSUME ReceiveChannelAnnounce(p) PROVE Handles(p) /\ UNCHANGED txVars
  BY <1>1, <1>2, <1>9 DEF ReceiveChannelAnnounce
<1> QED
  BY <1>3, <1>4, <1>5, <1>6, <1>7, <1>8, <1>9 DEF Receive

(* A count by id is a count within the bound on arrivals. *)
LEMMA CountBounded ==
  ASSUME NEW n \in 0..MaxArrivals, NEW S, NEW f \in [S -> 0..n]
  PROVE  f \in [S -> 0..MaxArrivals]
<1> QED
  BY CountGrows, BoundsAssumption

(* Receiving a packet keeps what is said about counts. *)
LEMMA ReceiveKeepsOnce ==
  ASSUME IInv, NEW p \in Packets, Receive(p)
  PROVE  Counted' /\ EachOnce' /\ FilterKnowsShown' /\ UnsentIsUndelivered'
<1>1. Handles(p) /\ pending' = pending /\ sent' = sent /\ delivered' = delivered
  BY ReceiveHandles DEF IInv, txVars
<1>2. /\ arrivals \in Nat /\ arrivals' \in 0..MaxArrivals /\ arrivals' = arrivals + 1
      /\ p.id \in Ids
  BY <1>1, BoundsAssumption DEF IInv, Counted, Handles, Ids
<1>3. delivered \in [Texts -> 0..arrivals + 1]
  BY <1>2, CountGrows DEF IInv, Counted
<1>4. Counted'
  BY <1>1, <1>2, <1>3 DEF Counted, Handles, Count
<1>5. \A id \in Ids : shown[id] \in Nat /\ acked[id] \in Nat /\ relayed[id] \in Nat
  BY <1>2 DEF IInv, Counted, Count
<1>6. \A id \in Ids : shown'[id] \in {shown[id], shown[id] + 1}
  BY <1>1, <1>5 DEF Handles, CountsOnceMore
<1>7. ShownOnce'
  <2>1. CASE shown' = shown
    BY <2>1 DEF IInv, EachOnce, ShownOnce
  <2>2. CASE p.id \notin bloom /\ CountsOnceMore(shown, shown', p)
    BY <1>2, <1>5, <2>2 DEF IInv, EachOnce, ShownOnce, FilterKnowsShown, CountsOnceMore
  <2> QED
    BY <1>1, <2>1, <2>2 DEF Handles
<1>8. AckedWasShown'
  <2>1. CASE acked' = acked
    BY <1>5, <1>6, <2>1 DEF IInv, EachOnce, AckedWasShown
  <2>2. CASE CountsOnceMore(shown, shown', p) /\ CountsOnceMore(acked, acked', p)
    BY <1>5, <2>2 DEF IInv, EachOnce, AckedWasShown, CountsOnceMore
  <2> QED
    BY <1>1, <2>1, <2>2 DEF Handles
<1>9. RelayedOnce'
  <2> SUFFICES ASSUME NEW q \in Packets, q.type \in Readable
               PROVE  relayed'[q.id] <= shown'[q.id]
    BY DEF RelayedOnce, Readable
  <2>1. q.id \in Ids /\ relayed[q.id] <= shown[q.id]
    BY DEF IInv, EachOnce, RelayedOnce, Readable, Ids
  <2>2. CASE relayed'[q.id] = relayed[q.id]
    BY <1>5, <1>6, <2>1, <2>2
  <2>3. CASE relayed'[q.id] # relayed[q.id]
    <3>1. CountsOnceMore(relayed, relayed', p) /\ q.id = p.id
      BY <1>1, <2>1, <2>3 DEF Handles, CountsOnceMore
    <3>2. q = p
      BY <3>1, PacketsAssumption
    <3>3. CountsOnceMore(shown, shown', p)
      BY <1>1, <2>3, <3>2 DEF Handles
    <3> QED
      BY <1>5, <2>1, <3>1, <3>3 DEF CountsOnceMore
  <2> QED
    BY <2>2, <2>3
<1>10. FilterKnowsShown'
  <2>1. CASE shown' = shown
    BY <1>1, <2>1 DEF IInv, FilterKnowsShown, Handles
  <2>2. CASE p.id \in bloom' /\ CountsOnceMore(shown, shown', p)
    BY <1>1, <2>2 DEF IInv, FilterKnowsShown, Handles, CountsOnceMore
  <2> QED
    BY <1>1, <2>1, <2>2 DEF Handles
<1>11. DeliveredOnce' /\ UnsentIsUndelivered'
  BY <1>1 DEF IInv, EachOnce, DeliveredOnce, UnsentIsUndelivered
<1> QED
  BY <1>4, <1>7, <1>8, <1>9, <1>10, <1>11 DEF EachOnce

-----------------------------------------------------------------------------
(* The types of what the packets and the user change besides the counts, and *)
(* the keys.                                                                 *)
File == [protected : BOOLEAN, commitment : BOOLEAN]
KeyTypes ==
    /\ peers \subseteq Senders /\ peer_keys \subseteq Senders
    /\ in_channel \in BOOLEAN /\ protected \in BOOLEAN /\ commitment \in BOOLEAN
    /\ key \in {"none", "right", "wrong"}
    /\ saved \in File /\ loaded \in File /\ restarts \in 0..MaxRestarts
KeysOK == KeyTypes /\ KeysFollowChannel

(* A file that is written now is consistent if the memory is. *)
LEMMA SavesFile ==
  ASSUME Saves, protected' \in BOOLEAN, commitment' \in BOOLEAN, commitment' => protected'
  PROVE  saved' \in File /\ (saved'.commitment => saved'.protected)
<1> QED
  BY DEF Saves, File

LEMMA ReceiveKeepsKeys ==
  ASSUME KeysOK, NEW p \in Packets, Receive(p)
  PROVE  KeysOK'
<1> USE DEF KeysOK, KeyTypes, KeysFollowChannel, KeyOnlyIfProtected, CommittedIsProtected
<1>1. p.from \in Senders /\ p.locked \in BOOLEAN
  BY PacketsAssumption DEF Senders
<1>2. ASSUME UNCHANGED <<in_channel, key, commitment, stateVars>>,
             peers' \in {peers, peers \cup {p.from}}, peer_keys' = peer_keys,
             protected' \in {protected, protected \/ p.locked}
      PROVE  KeysOK'
  BY <1>1, <1>2 DEF stateVars
<1>3. ASSUME NEW ttl \in 1..2, ReceiveMessage(p, ttl) PROVE KeysOK'
  BY <1>2, <1>3 DEF ReceiveMessage, Discover
<1>4. ASSUME ReceiveReassembled(p) PROVE KeysOK'
  BY <1>2, <1>4 DEF ReceiveReassembled, Discover
<1>5. ASSUME UNCHANGED <<channelVars, stateVars>>, peers' \subseteq Senders,
             peer_keys' \subseteq Senders
      PROVE  KeysOK'
  BY <1>5 DEF channelVars, stateVars
<1>6. ASSUME NEW ttl \in 1..2, ReceiveText(p, ttl) \/ ReceiveTransit(p, ttl)
                                \/ ReceiveNoiseTransit(p, ttl)
      PROVE  KeysOK'
  BY <1>5, <1>6 DEF ReceiveText, ReceiveTransit, ReceiveNoiseTransit
<1>7. ASSUME ReceiveFile(p) \/ ReceiveAnnounce(p) \/ ReceiveLeave(p) \/ ReceiveKey(p)
      PROVE  KeysOK'
  BY <1>1, <1>5, <1>7 DEF ReceiveFile, ReceiveAnnounce, ReceiveLeave, ReceiveKey
<1>8. ASSUME ReceiveChannelAnnounce(p) PROVE KeysOK'
  <2>1. /\ protected' = (p.type = "protect") /\ commitment' \in BOOLEAN
        /\ \/ p.type = "protect" /\ key' = key
           \/ p.type = "open" /\ commitment' = FALSE /\ key' = "none"
        /\ Saves
    BY <1>8 DEF ReceiveChannelAnnounce, ForgetKey
  <2>2. commitment' => protected'
    BY <2>1
  <2>3. saved' \in File /\ (saved'.commitment => saved'.protected)
    BY <2>1, <2>2, SavesFile
  <2> QED
    BY <1>8, <2>1, <2>2, <2>3 DEF ReceiveChannelAnnounce
<1> QED
  BY <1>3, <1>4, <1>6, <1>7, <1>8 DEF Receive

-----------------------------------------------------------------------------
(* What the user does.                                                       *)

LEMMA AckKeeps ==
  ASSUME IInv, NEW x \in Texts, ReceiveAck(x)
  PROVE  Counted' /\ EachOnce' /\ FilterKnowsShown' /\ UnsentIsUndelivered'
<1>1. /\ arrivals \in Nat /\ arrivals' = arrivals + 1 /\ arrivals' \in 0..MaxArrivals
      /\ arrivals <= arrivals + 1 /\ arrivals + 1 \in Nat
  BY BoundsAssumption DEF IInv, Counted, ReceiveAck, Arrives
<1>2. /\ shown \in Count(arrivals + 1) /\ acked \in Count(arrivals + 1)
      /\ relayed \in Count(arrivals + 1) /\ delivered \in [Texts -> 0..arrivals + 1]
  BY <1>1, CountGrows DEF IInv, Counted, Count
<1>3. UNCHANGED <<shown, acked, relayed, bloom, sent>> /\ sent[x] # "no"
  BY DEF ReceiveAck
<1>4. pending' = pending \ {x}
  BY DEF ReceiveAck, Marked
<1>5. CASE x \in pending
  <2>1. delivered[x] \in Nat /\ delivered[x] <= 1 /\ delivered[x] # 1
    BY <1>1, <1>5 DEF IInv, EachOnce, DeliveredOnce, Counted
  <2>2. \A y \in Texts : delivered'[y] = IF y = x THEN 1 ELSE delivered[y]
    BY <1>2, <1>5, <2>1 DEF ReceiveAck
  <2>3. delivered' \in [Texts -> 0..arrivals + 1]
    BY <1>1, <1>2, <1>5, <2>1 DEF ReceiveAck
  <2>4. DeliveredOnce' /\ UnsentIsUndelivered'
    BY <1>3, <1>4, <2>2 DEF IInv, EachOnce, DeliveredOnce, UnsentIsUndelivered
  <2> QED
    BY <1>1, <1>2, <1>3, <2>3, <2>4
    DEF IInv, Counted, EachOnce, ShownOnce, AckedWasShown, RelayedOnce, FilterKnowsShown
<1>6. CASE x \notin pending
  <2>1. delivered' = delivered
    BY <1>6 DEF ReceiveAck
  <2>2. DeliveredOnce' /\ UnsentIsUndelivered'
    BY <1>3, <1>4, <2>1 DEF IInv, EachOnce, DeliveredOnce, UnsentIsUndelivered
  <2> QED
    BY <1>1, <1>2, <1>3, <2>1, <2>2
    DEF IInv, Counted, EachOnce, ShownOnce, AckedWasShown, RelayedOnce, FilterKnowsShown
<1> QED
  BY <1>5, <1>6

(* A new start counts from zero, and keeps what was delivered. *)
LEMMA StartKeeps ==
  ASSUME IInv, NEW file \in File, StartsWith(file)
  PROVE  Counted' /\ EachOnce' /\ FilterKnowsShown' /\ UnsentIsUndelivered'
<1>1. /\ shown' = Zero /\ acked' = Zero /\ relayed' = Zero /\ pending' = {}
      /\ UNCHANGED <<arrivals, sent, delivered>>
  BY DEF StartsWith
<1>2. Zero \in Count(arrivals) /\ \A id \in Ids : Zero[id] = 0
  BY BoundsAssumption DEF IInv, Counted, Count, Zero
<1>3. Counted'
  BY <1>1, <1>2 DEF IInv, Counted, Count
<1>4. \A p \in Packets : p.id \in Ids
  BY DEF Ids
<1>5. EachOnce' /\ FilterKnowsShown' /\ UnsentIsUndelivered'
  BY <1>1, <1>2, <1>4
  DEF IInv, EachOnce, ShownOnce, AckedWasShown, RelayedOnce, DeliveredOnce,
      FilterKnowsShown, UnsentIsUndelivered
<1> QED
  BY <1>3, <1>5

(* Whatever else the user does does not touch the counts; a text is tracked *)
(* when it is written, and was not delivered before.                        *)
LEMMA UserKeepsOnce ==
  ASSUME IInv, UNCHANGED <<rxVars, delivered>>,
         \/ UNCHANGED <<pending, sent>>
         \/ \E x \in Texts : Write(x)
  PROVE  Counted' /\ EachOnce' /\ FilterKnowsShown' /\ UnsentIsUndelivered'
<1>1. Counted' /\ FilterKnowsShown' /\ ShownOnce' /\ AckedWasShown' /\ RelayedOnce'
  BY DEF IInv, rxVars, Counted, Count, FilterKnowsShown, EachOnce, ShownOnce,
         AckedWasShown, RelayedOnce
<1>2. CASE UNCHANGED <<pending, sent>>
  BY <1>1, <1>2 DEF IInv, EachOnce, DeliveredOnce, UnsentIsUndelivered
<1>3. ASSUME NEW x \in Texts, Write(x) PROVE DeliveredOnce' /\ UnsentIsUndelivered'
  <2>1. /\ sent[x] = "no" /\ delivered[x] = 0 /\ delivered' = delivered
        /\ pending' = pending \cup {x}
    BY <1>3 DEF Write, IInv, UnsentIsUndelivered
  <2>2. \A y \in Texts : sent'[y] = "no" => sent[y] = "no"
    BY <1>3, <2>1 DEF Write, IInv, TypeOK
  <2> QED
    BY <2>1, <2>2 DEF IInv, EachOnce, DeliveredOnce, UnsentIsUndelivered
<1> QED
  BY <1>1, <1>2, <1>3 DEF EachOnce

LEMMA UserKeepsKeys ==
  ASSUME KeysOK,
         \/ \E x \in Texts : ReceiveAck(x) \/ Write(x)
         \/ \E password \in {"none", "right", "wrong"} : Join(password)
         \/ LeaveChannel \/ SwitchToPublic \/ SaveSettings \/ SaveLabel
         \/ UNCHANGED vars
  PROVE  KeysOK'
<1> USE DEF KeysOK, KeyTypes, KeysFollowChannel, KeyOnlyIfProtected, CommittedIsProtected,
            rxVars, channelVars, stateVars
<1>1. ASSUME NEW x \in Texts, ReceiveAck(x) \/ Write(x) PROVE KeysOK'
  BY <1>1 DEF ReceiveAck, Write
<1>2. ASSUME NEW password \in {"none", "right", "wrong"}, Join(password) PROVE KeysOK'
  <2>1. /\ saved' \in File /\ (saved'.commitment => saved'.protected)
        /\ UNCHANGED <<protected, commitment>>
    BY <1>2, SavesFile DEF Join
  <2>2. key' \in {"none", "right", "wrong"} /\ (key' # "none" => protected)
    BY <1>2 DEF Join
  <2> QED
    BY <1>2, <2>1, <2>2 DEF Join
<1>3. ASSUME LeaveChannel \/ SaveSettings PROVE KeysOK'
  <2>1. UNCHANGED <<protected, commitment, peers, peer_keys, loaded, restarts>>
        /\ Saves /\ key' \in {"none", key} /\ in_channel' \in BOOLEAN
    BY <1>3 DEF LeaveChannel, SaveSettings, ForgetKey
  <2>2. saved' \in File /\ (saved'.commitment => saved'.protected)
    BY <2>1, SavesFile
  <2> QED
    BY <2>1, <2>2
<1>4. ASSUME UNCHANGED <<peers, peer_keys, protected, key, commitment, loaded, restarts>>,
             in_channel' \in BOOLEAN, saved' \in {saved, loaded}
      PROVE  KeysOK'
  BY <1>4
<1>5. CASE SwitchToPublic
  BY <1>4, <1>5 DEF SwitchToPublic
<1>6. CASE SaveLabel
  BY <1>4, <1>6 DEF SaveLabel
<1>7. CASE UNCHANGED vars
  BY <1>4, <1>7 DEF vars
<1> QED
  BY <1>1, <1>2, <1>3, <1>5, <1>6, <1>7

LEMMA StartKeepsKeys ==
  ASSUME KeysOK, NEW file \in File, file.commitment => file.protected, StartsWith(file)
  PROVE  KeysOK'
<1>1. restarts' \in 0..MaxRestarts
  BY BoundsAssumption DEF KeysOK, KeyTypes, StartsWith
<1> QED
  BY <1>1 DEF StartsWith, KeysOK, KeyTypes, KeysFollowChannel, KeyOnlyIfProtected,
              CommittedIsProtected, File

-----------------------------------------------------------------------------
(* The types that are left, and the whole of IInv.                           *)
SetTypes ==
    /\ bloom \subseteq Ids /\ sent_acks \subseteq Ids /\ pending \subseteq Texts
    /\ sent \in [Texts -> {"no", "failed", "public", "clear", "right", "wrong"}]

LEMMA TypesAreParts ==
  ASSUME Counted
  PROVE  TypeOK <=> KeyTypes /\ SetTypes
<1>1. shown \in [Ids -> 0..MaxArrivals] /\ acked \in [Ids -> 0..MaxArrivals]
      /\ relayed \in [Ids -> 0..MaxArrivals] /\ delivered \in [Texts -> 0..MaxArrivals]
  BY CountBounded DEF Counted, Count
<1> QED
  BY <1>1 DEF TypeOK, KeyTypes, SetTypes, File, Counted

LEMMA KeepsSets ==
  ASSUME IInv, [Next]_vars
  PROVE  SetTypes'
<1> USE DEF SetTypes
<1>0. SetTypes
  BY TypesAreParts DEF IInv
<1>1. ASSUME NEW p \in Packets, Receive(p) PROVE SetTypes'
  BY <1>0, <1>1, ReceiveHandles DEF IInv, Handles, txVars, Ids
<1>2. ASSUME NEW x \in Texts, ReceiveAck(x) PROVE SetTypes'
  BY <1>0, <1>2 DEF ReceiveAck, Marked
<1>3. ASSUME NEW x \in Texts, Write(x) PROVE SetTypes'
  <2>1. Form \in {"public", "clear", "right", "wrong"}
    BY DEF Form, IInv, KeysFollowChannel, TypeOK
  <2> QED
    BY <1>0, <1>3, <2>1 DEF Write, rxVars
<1>4. ASSUME NEW file, StartsWith(file) PROVE SetTypes'
  BY <1>0, <1>4 DEF StartsWith
<1>5. ASSUME UNCHANGED <<rxVars, txVars>> PROVE SetTypes'
  BY <1>0, <1>5 DEF rxVars, txVars
<1> QED
  BY <1>1, <1>2, <1>3, <1>4, <1>5
  DEF Next, Join, LeaveChannel, SwitchToPublic, SaveSettings, SaveLabel, Crash, Exit, vars

LEMMA InitIInv == Init => IInv
<1> SUFFICES ASSUME Init PROVE IInv
  OBVIOUS
<1>1. Zero \in Count(arrivals) /\ \A id \in Ids : Zero[id] = 0
  BY BoundsAssumption DEF Init, Count, Zero
<1>2. Counted
  BY <1>1, BoundsAssumption DEF Init, Counted
<1>3. KeyTypes /\ SetTypes /\ KeysFollowChannel
  <2>1. SetTypes
    BY DEF Init, SetTypes
  <2>2. /\ protected \in BOOLEAN /\ commitment \in BOOLEAN /\ (commitment => protected)
        /\ saved = [protected |-> protected, commitment |-> commitment] /\ loaded = saved
    BY DEF Init
  <2>3. saved \in File /\ saved.protected = protected /\ saved.commitment = commitment
    BY <2>2 DEF File
  <2>4. KeyTypes
    <3>1. peers \subseteq Senders /\ peer_keys \subseteq Senders
      BY DEF Init
    <3>2. in_channel \in BOOLEAN
      BY DEF Init
    <3>3. key \in {"none", "right", "wrong"} /\ restarts \in 0..MaxRestarts
      BY BoundsAssumption DEF Init
    <3>4. protected \in BOOLEAN /\ commitment \in BOOLEAN /\ saved \in File /\ loaded \in File
      BY <2>2, <2>3
    <3> QED
      BY <3>1, <3>2, <3>3, <3>4 DEF KeyTypes
  <2>5. KeysFollowChannel
    <3>1. key = "none" /\ (commitment => protected)
      BY <2>2 DEF Init
    <3>2. \A file \in {saved, loaded} : file.commitment => file.protected
      BY <2>2, <2>3
    <3> QED
      BY <3>1, <3>2 DEF KeysFollowChannel, KeyOnlyIfProtected, CommittedIsProtected
  <2> QED
    BY <2>1, <2>4, <2>5
<1>4. \A p \in Packets : p.id \in Ids
  BY DEF Ids
<1>5. EachOnce /\ FilterKnowsShown /\ UnsentIsUndelivered
  BY <1>1, <1>4
  DEF Init, EachOnce, ShownOnce, AckedWasShown, RelayedOnce, DeliveredOnce,
      FilterKnowsShown, UnsentIsUndelivered
<1> QED
  BY <1>2, <1>3, <1>5, TypesAreParts DEF IInv

LEMMA NextIInv == IInv /\ [Next]_vars => IInv'
<1> SUFFICES ASSUME IInv, [Next]_vars PROVE IInv'
  OBVIOUS
<1>1. KeysOK
  BY TypesAreParts DEF IInv, KeysOK
<1>2. /\ [protected |-> protected, commitment |-> commitment] \in File
      /\ saved \in File /\ (saved.commitment => saved.protected)
      /\ commitment => protected
  BY <1>1 DEF KeysOK, KeyTypes, KeysFollowChannel, CommittedIsProtected, File
<1> DEFINE Once == Counted /\ EachOnce /\ FilterKnowsShown /\ UnsentIsUndelivered
<1>3. Once' /\ KeysOK'
  <2>1. CASE \E p \in Packets : Receive(p)
    BY <1>1, <2>1, ReceiveKeepsOnce, ReceiveKeepsKeys
  <2>2. CASE \E x \in Texts : ReceiveAck(x)
    BY <1>1, <2>2, AckKeeps, UserKeepsKeys
  <2>3. CASE \E x \in Texts : Write(x)
    <3>1. UNCHANGED <<rxVars, delivered>>
      BY <2>3 DEF Write
    <3> QED
      BY <1>1, <2>3, <3>1, UserKeepsOnce, UserKeepsKeys
  <2>4. CASE \/ \E password \in {"none", "right", "wrong"} : Join(password)
             \/ LeaveChannel \/ SwitchToPublic \/ SaveSettings \/ SaveLabel
             \/ UNCHANGED vars
    <3>1. UNCHANGED <<rxVars, txVars>>
      BY <2>4 DEF Join, LeaveChannel, SwitchToPublic, SaveSettings, SaveLabel, vars
    <3>2. Once'
      BY <3>1, UserKeepsOnce DEF txVars
    <3> QED
      BY <1>1, <2>4, <3>2, UserKeepsKeys
  <2>5. CASE Crash
    BY <1>1, <1>2, <2>5, StartKeeps, StartKeepsKeys DEF Crash
  <2>6. CASE Exit
    BY <1>1, <1>2, <2>6, StartKeeps, StartKeepsKeys DEF Exit
  <2> QED
    BY <2>1, <2>2, <2>3, <2>4, <2>5, <2>6 DEF Next
<1>4. SetTypes'
  BY KeepsSets
<1>5. TypeOK'
  BY <1>3, <1>4, TypesAreParts, PTL DEF KeysOK
<1> QED
  BY <1>3, <1>5 DEF IInv, KeysOK

(* IInv is an invariant of the specification. *)
THEOREM Invariant == Spec => []IInv
<1> QED
  BY InitIInv, NextIInv, PTL DEF Spec

(* The variables of a device keep their types, whatever arrives, and none of *)
(* its counts passes the number of packets that arrived.                     *)
THEOREM TypeCorrect == Spec => []TypeOK
<1>1. IInv => TypeOK
  BY DEF IInv
<1> QED
  BY <1>1, Invariant, PTL

(* For any packets, filter errors and number of arrivals and restarts: one   *)
(* run of the program shows a packet at most once, acknowledges it at most   *)
(* once and only if it was shown, writes a message it could read back at     *)
(* most once, and reports a text as delivered at most once                   *)
(* (handle_message_packet, handle_fragment_packet, DeliveryTracker).         *)
THEOREM CopiesCountOnce == Spec => []EachOnce
<1>1. IInv => EachOnce
  BY DEF IInv
<1> QED
  BY <1>1, Invariant, PTL

(* With any packets, joins, leaves, restarts and saves in any order the      *)
(* device holds a key only for a channel it knows to be protected, and its   *)
(* state file never holds a commitment for an open channel                   *)
(* (handle_join_command, handle_channel_announce_message, AppState).         *)
THEOREM KeysFollow == Spec => []KeysFollowChannel
<1>1. IInv => KeysFollowChannel
  BY DEF IInv
<1> QED
  BY <1>1, Invariant, PTL
=============================================================================
