-------------------------- MODULE Fragmentation_proofs --------------------------
(***************************************************************************)
(* Proofs about fragments and their reassembly, for any packets, any       *)
(* number of chunks and links, and any order and number of arrivals.       *)
(*                                                                         *)
(* ReassembledIsIntact speaks of finished packets only; the invariant IInv *)
(* adds what makes it inductive: whatever the collector holds under an id  *)
(* is, index by index, a chunk of the packet that id was drawn for         *)
(* (HeldIsRight), and the duplicate filter holds what was shown            *)
(* (FilterKnowsShown).  OutcomeIsTrue has an invariant of its own, SendInv, *)
(* which says how far the send in progress is on which link.               *)
(***************************************************************************)
EXTENDS Fragmentation, FiniteSetTheorems, TLAPS

Shown == {shown[i] : i \in 1..Len(shown)}

HeldIsRight ==
    \A id \in FragmentIds :
        collector[id] = [i \in DOMAIN collector[id] |-> Chunk(id.packet, i)]

FilterKnowsShown == bloom = Shown

IInv ==
    /\ TypeOK
    /\ HeldIsRight
    /\ ReassembledIsIntact
    /\ NothingCompleteIsHeld
    /\ FilterKnowsShown
    /\ ShownOnce

(* What a fragment on the wire is. *)
LEMMA WireFragment ==
  ASSUME TypeOK, NEW f \in wire
  PROVE  /\ f.id \in FragmentIds
         /\ f.index \in 0..Chunks[f.id.packet] - 1
         /\ f.total = Chunks[f.id.packet]
         /\ f.data = Chunk(f.id.packet, f.index)
<1>1. PICK k \in Packet, link \in 1..Links : f \in FragmentsOf(k, link)
  BY DEF TypeOK
<1>2. PICK i \in 0..Chunks[k] - 1 : f = FragmentAt(k, link, i)
  BY <1>1 DEF FragmentsOf
<1> QED
  BY <1>2 DEF FragmentAt, FragmentIds

(* add_fragment stores the chunk at its index: what is held afterwards is   *)
(* right if what was held before is.                                        *)
LEMMA PutIsRight ==
  ASSUME IInv, NEW f \in wire
  PROVE  LET held == collector[f.id]
         IN  /\ DOMAIN Put(held, f) = DOMAIN held \cup {f.index}
             /\ DOMAIN Put(held, f) \subseteq 0..Chunks[f.id.packet] - 1
             /\ Put(held, f) =
                  [i \in DOMAIN Put(held, f) |-> Chunk(f.id.packet, i)]
<1> DEFINE held == collector[f.id]
<1>1. /\ f.id \in FragmentIds
      /\ f.index \in 0..Chunks[f.id.packet] - 1
      /\ f.data = Chunk(f.id.packet, f.index)
  BY WireFragment DEF IInv
<1>2. /\ DOMAIN held \subseteq 0..Chunks[f.id.packet] - 1
      /\ held = [i \in DOMAIN held |-> Chunk(f.id.packet, i)]
  BY <1>1 DEF IInv, TypeOK, HeldIsRight
<1>3. DOMAIN Put(held, f) = DOMAIN held \cup {f.index}
  BY DEF Put
<1>4. \A i \in DOMAIN held : held[i] = Chunk(f.id.packet, i)
  BY <1>2
<1>5. Put(held, f) = [i \in DOMAIN held \cup {f.index} |-> Chunk(f.id.packet, i)]
  BY <1>1, <1>4 DEF Put
<1> QED
  BY <1>1, <1>2, <1>3, <1>5

(* When all indices are there, the data is the packet, in order.            *)
LEMMA ReassembledIsWhole ==
  ASSUME IInv, NEW f \in wire, NoneMissing(collector[f.id], f)
  PROVE  Reassembled(collector[f.id], f) = Whole(f.id.packet)
<1> DEFINE held == collector[f.id]
<1>1. /\ f.total = Chunks[f.id.packet]
      /\ Put(held, f) = [i \in DOMAIN Put(held, f) |-> Chunk(f.id.packet, i)]
  BY WireFragment, PutIsRight DEF IInv
<1>2. \A i \in Indices(f) : Put(held, f)[i] = Chunk(f.id.packet, i)
  BY <1>1 DEF NoneMissing
<1> QED
  BY <1>1, <1>2 DEF Reassembled, Whole, Indices

(* A set of chunks with every index in it is seen to be complete.           *)
LEMMA FullIsComplete ==
  ASSUME IInv, NEW f \in wire,
         DOMAIN Put(collector[f.id], f) = 0..Chunks[f.id.packet] - 1
  PROVE  Completes(collector[f.id], f) /\ NoneMissing(collector[f.id], f)
<1>1. f.total = Chunks[f.id.packet] /\ f.id \in FragmentIds
  BY WireFragment DEF IInv
<1>2. Chunks[f.id.packet] \in Nat /\ Chunks[f.id.packet] >= 2
  BY <1>1, ChunksAssumption DEF FragmentIds
<1>3. Cardinality(0..Chunks[f.id.packet] - 1) = Chunks[f.id.packet]
  <2>1. Chunks[f.id.packet] - 1 \in Int /\ 0 \in Int
    BY <1>2
  <2>2. Cardinality(0..Chunks[f.id.packet] - 1) =
          IF 0 > Chunks[f.id.packet] - 1 THEN 0 ELSE (Chunks[f.id.packet] - 1) - 0 + 1
    BY <2>1, FS_Interval
  <2> QED
    BY <1>2, <2>2
<1> QED
  BY <1>1, <1>3 DEF Completes, NoneMissing, Indices

(* The message types that are shown, shown once: HandleReassembled.         *)
LEMMA ShowingKeepsFilter ==
  ASSUME IInv, NEW data, HandleReassembled(data)
  PROVE  /\ bloom' \subseteq Packet
         /\ shown' \in Seq(Packet)
         /\ FilterKnowsShown'
         /\ ShownOnce'
<1>1. CASE UNCHANGED <<bloom, shown>>
  BY <1>1 DEF IInv, TypeOK, FilterKnowsShown, ShownOnce, Shown
<1>2. CASE ~UNCHANGED <<bloom, shown>>
  <2>1. PICK k \in Packet : /\ IsNew(k)
                            /\ bloom' = bloom \cup {k}
                            /\ shown' = Append(shown, k)
    BY <1>2 DEF HandleReassembled
  <2>2. k \notin Shown
    BY <2>1 DEF IInv, FilterKnowsShown, IsNew
  <2>3. shown \in Seq(Packet) /\ bloom \subseteq Packet
    BY DEF IInv, TypeOK
  <2>4. /\ Len(shown') = Len(shown) + 1
        /\ \A i \in 1..Len(shown) : shown'[i] = shown[i]
        /\ shown'[Len(shown) + 1] = k
        /\ Len(shown) \in Nat
    BY <2>1, <2>3
  <2>5. Shown' = Shown \cup {k}
    BY <2>4 DEF Shown
  <2>6. ShownOnce'
    BY <2>2, <2>4 DEF IInv, ShownOnce, Shown
  <2> QED
    BY <2>1, <2>3, <2>5, <2>6 DEF IInv, FilterKnowsShown
<1> QED
  BY <1>1, <1>2

(* IInv holds at the start: nothing is sent, held or shown.                 *)
LEMMA InitIInv == Init => IInv
<1> SUFFICES ASSUME Init PROVE IInv
  OBVIOUS
<1>1. TypeOK
  BY DEF Init, TypeOK, Sending, Idle, NothingHeld
<1>2. HeldIsRight
  <2> SUFFICES ASSUME NEW id \in FragmentIds
               PROVE  collector[id] = [i \in DOMAIN collector[id] |-> Chunk(id.packet, i)]
    BY DEF HeldIsRight
  <2>1. collector[id] = [i \in {} |-> 0] /\ DOMAIN collector[id] = {}
    BY DEF Init, NothingHeld
  <2> QED
    BY <2>1
<1>3. NothingCompleteIsHeld
  <2> SUFFICES ASSUME NEW id \in FragmentIds
               PROVE  DOMAIN collector[id] # 0..Chunks[id.packet] - 1
    BY DEF NothingCompleteIsHeld
  <2>1. DOMAIN collector[id] = {}
    BY DEF Init, NothingHeld
  <2>2. Chunks[id.packet] \in Nat /\ Chunks[id.packet] >= 2
    BY ChunksAssumption DEF FragmentIds
  <2>3. 0 \in 0..Chunks[id.packet] - 1
    BY <2>2
  <2> QED
    BY <2>1, <2>3
<1>4. FilterKnowsShown /\ ShownOnce /\ ReassembledIsIntact
  BY DEF Init, FilterKnowsShown, ShownOnce, Shown, ReassembledIsIntact
<1> QED
  BY <1>1, <1>2, <1>3, <1>4 DEF IInv

(* The state of a receiver is not touched by the sender.                    *)
LEMMA ReceiverUntouched ==
  ASSUME IInv, UNCHANGED receiverVars, TypeOK'
  PROVE  IInv'
BY DEF IInv, receiverVars, HeldIsRight, ReassembledIsIntact,
       NothingCompleteIsHeld, FilterKnowsShown, ShownOnce, Shown

(* A send in progress is a record of a packet, a link and an index.         *)
LEMMA BusySend ==
  ASSUME TypeOK, sending.busy
  PROVE  /\ sending \in BusySends
         /\ sending.index < Chunks[sending.packet]
         /\ Chunks[sending.packet] \in Nat /\ Chunks[sending.packet] >= 2
<1>1. ~Idle.busy
  BY DEF Idle
<1>2. sending \in BusySends
  BY <1>1 DEF TypeOK, Sending
<1>3. sending.packet \in Packet
  BY <1>2 DEF BusySends
<1> QED
  BY <1>2, <1>3, ChunksAssumption DEF TypeOK

(* A send to a link starts with the first index.                            *)
LEMMA SendToType ==
  ASSUME NEW k \in Packet, NEW link \in 1..Links, NEW ok \in BOOLEAN
  PROVE  /\ SendTo(k, link, ok) \in Sending
         /\ SendTo(k, link, ok).index < Chunks[SendTo(k, link, ok).packet]
<1>1. Chunks[k] \in Nat /\ Chunks[k] >= 2
  BY ChunksAssumption
<1>2. SendTo(k, link, ok) \in BusySends
  BY DEF SendTo, BusySends
<1>3. SendTo(k, link, ok).index = 0 /\ SendTo(k, link, ok).packet = k
  BY DEF SendTo
<1> QED
  BY <1>1, <1>2, <1>3 DEF Sending

(* Going to the next link keeps the type of the sender's state.             *)
LEMMA EndLinkType ==
  ASSUME TypeOK, sending.busy, NEW linkOk \in BOOLEAN, EndLink(linkOk)
  PROVE  /\ sending' \in Sending
         /\ sending'.busy => sending'.index < Chunks[sending'.packet]
         /\ outcome' \in [Packet -> {"none", "Ok", "Err"}]
<1> DEFINE ok == SentAny(sending.ok, linkOk)
<1>1. /\ sending.packet \in Packet /\ sending.link \in 1..Links
      /\ sending.ok \in BOOLEAN
  BY BusySend DEF BusySends
<1>2. ok \in BOOLEAN
  BY <1>1 DEF SentAny
<1>3. outcome \in [Packet -> {"none", "Ok", "Err"}]
  BY DEF TypeOK
<1>4. CASE sending.link < LastLink(sending.packet)
  <2>1. sending' = SendTo(sending.packet, sending.link + 1, ok) /\ outcome' = outcome
    BY <1>4 DEF EndLink
  <2>2. sending.link + 1 \in 1..Links
    BY <1>1, <1>4, LinksAssumption DEF LastLink
  <2> HIDE DEF ok
  <2> QED
    BY <1>1, <1>2, <1>3, <2>1, <2>2, SendToType
<1>5. CASE ~(sending.link < LastLink(sending.packet))
  <2>1. sending' = Idle
    BY <1>5 DEF EndLink
  <2>2. outcome' = [outcome EXCEPT ![sending.packet] = IF ok THEN "Ok" ELSE "Err"]
    BY <1>5 DEF EndLink
  <2>3. outcome' \in [Packet -> {"none", "Ok", "Err"}]
    BY <1>3, <2>2
  <2>4. ~sending'.busy
    BY <2>1 DEF Idle
  <2> QED
    BY <2>1, <2>3, <2>4 DEF Sending
<1> QED
  BY <1>4, <1>5

(* IInv is inductive. *)
LEMMA NextIInv == IInv /\ [Next]_vars => IInv'
<1> SUFFICES ASSUME IInv, [Next]_vars PROVE IInv'
  OBVIOUS
<1>0. TypeOK
  BY DEF IInv
<1>1. ASSUME NEW k \in Packet, StartSend(k) PROVE IInv'
  <2>1. 1 \in 1..Links /\ FALSE \in BOOLEAN
    BY LinksAssumption
  <2>2. TypeOK'
    BY <1>0, <1>1, <2>1, SendToType DEF TypeOK, StartSend, receiverVars
  <2> QED
    BY <1>1, <2>2, ReceiverUntouched DEF StartSend
<1>2. CASE WriteFragment
  <2>1. /\ sending.packet \in Packet /\ sending.link \in 1..Links
        /\ sending.index \in 0..Chunks[sending.packet] - 1
        /\ Chunks[sending.packet] \in Nat
    BY <1>0, <1>2, BusySend DEF WriteFragment, BusySends
  <2>2. FragmentAt(sending.packet, sending.link, sending.index)
          \in FragmentsOf(sending.packet, sending.link)
    BY <2>1 DEF FragmentsOf
  <2>3. \A f \in wire' : \E k \in Packet : \E link \in 1..Links : f \in FragmentsOf(k, link)
    BY <1>0, <1>2, <2>1, <2>2 DEF WriteFragment, TypeOK
  <2>4. /\ sending' \in Sending
        /\ sending'.busy => sending'.index < Chunks[sending'.packet]
        /\ outcome' \in [Packet -> {"none", "Ok", "Err"}]
    <3>1. CASE sending.index + 1 < Chunks[sending.packet]
      <4>1. sending' = [sending EXCEPT !.index = @ + 1] /\ outcome' = outcome
        BY <1>2, <3>1 DEF WriteFragment
      <4>2. sending \in BusySends
        BY <1>0, <1>2, BusySend DEF WriteFragment
      <4>3. /\ sending' \in BusySends
            /\ sending'.index = sending.index + 1
            /\ sending'.packet = sending.packet
        <5> DEFINE next == sending.index + 1
        <5>1. next \in Nat
          BY <4>2 DEF BusySends
        <5>2. sending' = [sending EXCEPT !.index = next]
          BY <4>1
        <5> HIDE DEF next
        <5>3. sending' \in BusySends
          BY <4>2, <5>1, <5>2 DEF BusySends
        <5>4. sending'.index = next /\ sending'.packet = sending.packet
          BY <4>2, <5>2 DEF BusySends
        <5> QED
          BY <5>3, <5>4 DEF next
      <4> QED
        BY <1>0, <3>1, <4>1, <4>3 DEF TypeOK, Sending
    <3>2. CASE ~(sending.index + 1 < Chunks[sending.packet])
      BY <1>0, <1>2, <3>2, EndLinkType DEF WriteFragment
    <3> QED
      BY <3>1, <3>2
  <2>5. TypeOK'
    BY <1>0, <1>2, <2>3, <2>4 DEF WriteFragment, TypeOK, receiverVars
  <2> QED
    BY <1>2, <2>5, ReceiverUntouched DEF WriteFragment
<1>3. CASE WriteFails
  <2>1. TypeOK'
    BY <1>0, <1>3, EndLinkType DEF WriteFails, TypeOK, receiverVars
  <2> QED
    BY <1>3, <2>1, ReceiverUntouched DEF WriteFails
<1>4. ASSUME NEW f \in wire, HandleFragment(f) PROVE IInv'
  <2> DEFINE held == collector[f.id]
             id   == f.id
  <2>1. /\ id \in FragmentIds
        /\ DOMAIN Put(held, f) \subseteq 0..Chunks[id.packet] - 1
        /\ Put(held, f) = [i \in DOMAIN Put(held, f) |-> Chunk(id.packet, i)]
    BY <1>0, WireFragment, PutIsRight
  <2>2. DOMAIN collector = FragmentIds
    BY <1>0 DEF TypeOK
  <2>3. UNCHANGED senderVars
    BY <1>4 DEF HandleFragment
  <2>4. CASE Completes(held, f) /\ NoneMissing(held, f)
    <3>1. /\ collector' = [collector EXCEPT ![id] = NothingHeld]
          /\ assembled' = assembled \cup {[id |-> id, data |-> Reassembled(held, f)]}
          /\ HandleReassembled(Reassembled(held, f))
      BY <1>4, <2>4 DEF HandleFragment, HeldAfter
    <3>2. /\ bloom' \subseteq Packet /\ shown' \in Seq(Packet)
          /\ FilterKnowsShown' /\ ShownOnce'
      BY <3>1, ShowingKeepsFilter
    <3>3. \A a \in assembled' : a.data = Whole(a.id.packet)
      BY <2>4, <3>1, ReassembledIsWhole DEF IInv, ReassembledIsIntact
    <3>4. /\ DOMAIN collector' = FragmentIds
          /\ \A j \in FragmentIds : collector'[j] = IF j = id THEN NothingHeld
                                                    ELSE collector[j]
      BY <2>1, <2>2, <3>1
    <3>5. DOMAIN NothingHeld = {}
      BY DEF NothingHeld
    <3>6. TypeOK'
      BY <1>0, <2>3, <3>2, <3>4, <3>5 DEF TypeOK, senderVars
    <3>7. HeldIsRight'
      <4> SUFFICES ASSUME NEW j \in FragmentIds
                   PROVE  collector'[j] =
                            [i \in DOMAIN collector'[j] |-> Chunk(j.packet, i)]
        BY DEF HeldIsRight
      <4>1. CASE j = id
        <5>1. collector'[j] = [i \in {} |-> 0]
          BY <3>4, <4>1 DEF NothingHeld
        <5> QED
          BY <5>1
      <4>2. CASE j # id
        BY <3>4, <4>2 DEF IInv, HeldIsRight
      <4> QED
        BY <4>1, <4>2
    <3>8. NothingCompleteIsHeld'
      <4> SUFFICES ASSUME NEW j \in FragmentIds
                   PROVE  DOMAIN collector'[j] # 0..Chunks[j.packet] - 1
        BY DEF NothingCompleteIsHeld
      <4>1. Chunks[j.packet] \in Nat /\ Chunks[j.packet] >= 2
        BY ChunksAssumption DEF FragmentIds
      <4>2. 0 \in 0..Chunks[j.packet] - 1
        BY <4>1
      <4> QED
        BY <3>4, <3>5, <4>2 DEF IInv, NothingCompleteIsHeld
    <3> QED
      BY <3>2, <3>3, <3>6, <3>7, <3>8 DEF IInv, ReassembledIsIntact
  <2>5. CASE ~(Completes(held, f) /\ NoneMissing(held, f))
    <3>1. /\ collector' = [collector EXCEPT ![id] = Put(held, f)]
          /\ UNCHANGED <<bloom, shown, assembled>>
      BY <1>4, <2>5 DEF HandleFragment
    <3>2. /\ DOMAIN collector' = FragmentIds
          /\ \A j \in FragmentIds : collector'[j] = IF j = id THEN Put(held, f)
                                                    ELSE collector[j]
      BY <2>1, <2>2, <3>1
    <3>3. TypeOK'
      BY <1>0, <2>1, <2>3, <3>1, <3>2 DEF TypeOK, senderVars
    <3>4. HeldIsRight'
      <4> SUFFICES ASSUME NEW j \in FragmentIds
                   PROVE  collector'[j] =
                            [i \in DOMAIN collector'[j] |-> Chunk(j.packet, i)]
        BY DEF HeldIsRight
      <4>1. CASE j = id
        BY <2>1, <3>2, <4>1
      <4>2. CASE j # id
        BY <3>2, <4>2 DEF IInv, HeldIsRight
      <4> QED
        BY <4>1, <4>2
    <3>5. NothingCompleteIsHeld'
      <4> SUFFICES ASSUME NEW j \in FragmentIds
                   PROVE  DOMAIN collector'[j] # 0..Chunks[j.packet] - 1
        BY DEF NothingCompleteIsHeld
      <4>1. CASE j = id
        BY <2>5, <3>2, <4>1, FullIsComplete
      <4>2. CASE j # id
        BY <3>2, <4>2 DEF IInv, NothingCompleteIsHeld
      <4> QED
        BY <4>1, <4>2
    <3> QED
      BY <3>1, <3>3, <3>4, <3>5
      DEF IInv, ReassembledIsIntact, FilterKnowsShown, ShownOnce, Shown
  <2> QED
    BY <2>4, <2>5
<1>5. CASE UNCHANGED vars
  <2>1. TypeOK'
    BY <1>0, <1>5 DEF TypeOK, vars
  <2> QED
    BY <1>5, <2>1, ReceiverUntouched DEF vars, receiverVars
<1> QED
  BY <1>1, <1>2, <1>3, <1>4, <1>5 DEF Next

(* IInv holds in every reachable state. *)
LEMMA Invariance == Spec => []IInv
BY InitIInv, NextIInv, PTL DEF Spec

(* Type correctness of sender, wire and collector. *)
THEOREM TypeCorrect == Spec => []TypeOK
<1>1. IInv => TypeOK
  BY DEF IInv
<1> QED
  BY <1>1, Invariance, PTL

(* Whatever add_fragment returns is one packet, whole and in order, for     *)
(* every order, repetition and mixture in which fragments arrive.           *)
THEOREM ReassemblyIsIntact == Spec => []ReassembledIsIntact
<1>1. IInv => ReassembledIsIntact
  BY DEF IInv
<1> QED
  BY <1>1, Invariance, PTL

(* The fragment that arrives last completes its packet: nothing complete    *)
(* is ever left in the collector.                                           *)
THEOREM CompleteIsTaken == Spec => []NothingCompleteIsHeld
<1>1. IInv => NothingCompleteIsHeld
  BY DEF IInv
<1> QED
  BY <1>1, Invariance, PTL

(* A message or a file is shown at most once, however many links carried it *)
(* and however often its copies were put together.                          *)
THEOREM ShownAtMostOnce == Spec => []ShownOnce
<1>1. IInv => ShownOnce
  BY DEF IInv
<1> QED
  BY <1>1, Invariance, PTL
-----------------------------------------------------------------------------
(* What the send of a packet returns.  OutcomeIsTrue speaks of sends that   *)
(* are over; ProgressOK adds what is known of the one in progress: it has *)
(* written the current link up to its index and no later link, and its flag *)
(* tells of the links before.                                               *)
Written(k, link, i) == FragmentAt(k, link, i) \in wire
Took(k, link) == \A i \in 0..Chunks[k] - 1 : Written(k, link, i)
Spared(k, link) == \A i \in 0..Chunks[k] - 1 : ~Written(k, link, i)

OutcomeTells ==
    \A k \in Packet :
        outcome[k] # "none" => (outcome[k] = "Ok" <=> \E link \in 1..Links : Took(k, link))

UnsentIsUnwritten ==
    \A k \in Packet :
        outcome[k] = "none" /\ ~(sending.busy /\ sending.packet = k) =>
            \A link \in 1..Links : Spared(k, link)

ProgressOK ==
    sending.busy =>
        /\ outcome[sending.packet] = "none"
        /\ \A link \in 1..Links : link > sending.link => Spared(sending.packet, link)
        /\ \A i \in 0..Chunks[sending.packet] - 1 :
              Written(sending.packet, sending.link, i) <=> i < sending.index
        /\ sending.ok <=> \E link \in 1..Links : link < sending.link /\ Took(sending.packet, link)

SendInv == TypeOK /\ OutcomeTells /\ UnsentIsUnwritten /\ ProgressOK

LEMMA TookAll ==
  ASSUME NEW k, NEW link
  PROVE  Took(k, link) <=> FragmentsOf(k, link) \subseteq wire
BY DEF Took, Written, FragmentsOf

LEMMA SparedDidNotTake ==
  ASSUME NEW k \in Packet, NEW link, Spared(k, link)
  PROVE  ~Took(k, link)
<1>1. Chunks[k] \in Nat /\ Chunks[k] >= 2
  BY ChunksAssumption
<1>2. 0 \in 0..Chunks[k] - 1
  BY <1>1
<1> QED
  BY <1>2 DEF Spared, Took

(* A step that leaves the sender alone.                                     *)
LEMMA SenderUntouched ==
  ASSUME SendInv, UNCHANGED senderVars, TypeOK'
  PROVE  SendInv'
BY DEF SendInv, senderVars, OutcomeTells, UnsentIsUnwritten, ProgressOK, Took, Spared, Written

(* The end of link l of packet p, with what it took.                        *)
LEMMA EndLinkProgress ==
  ASSUME SendInv, sending.busy, NEW linkOk \in BOOLEAN, EndLink(linkOk), TypeOK',
         NEW p, NEW l, p = sending.packet, l = sending.link,
         \A k \in Packet : \A link \in 1..Links :
            ~(k = p /\ link = l) =>
               (Took(k, link)' <=> Took(k, link)) /\ (Spared(k, link) => Spared(k, link)'),
         linkOk <=> Took(p, l)'
  PROVE  SendInv'
<1> DEFINE ok == SentAny(sending.ok, linkOk)
<1>1. /\ p \in Packet /\ l \in 1..Links /\ sending.ok \in BOOLEAN
      /\ Chunks[p] \in Nat /\ Chunks[p] >= 2
      /\ Links \in Nat
      /\ outcome \in [Packet -> {"none", "Ok", "Err"}]
  BY BusySend, LinksAssumption DEF SendInv, BusySends, TypeOK
<1>2. ok <=> \E link \in 1..Links : link <= l /\ Took(p, link)'
  <2>1. ok <=> sending.ok \/ linkOk
    BY DEF SentAny
  <2>2. sending.ok <=> \E link \in 1..Links : link < l /\ Took(p, link)
    BY DEF SendInv, ProgressOK
  <2>3. \A link \in 1..Links : link < l => (Took(p, link)' <=> Took(p, link))
    BY <1>1
  <2>4. \A link \in 1..Links : link <= l <=> link < l \/ link = l
    BY <1>1
  <2> QED
    BY <1>1, <2>1, <2>2, <2>3, <2>4
<1>3. \A link \in 1..Links : link > l => Spared(p, link)'
  <2>1. \A link \in 1..Links : link > l => Spared(p, link) /\ link # l
    BY <1>1 DEF SendInv, ProgressOK
  <2> QED
    BY <1>1, <2>1
<1>4. \A k \in Packet : k # p => \A link \in 1..Links :
         (Took(k, link)' <=> Took(k, link)) /\ (Spared(k, link) => Spared(k, link)')
  OBVIOUS
<1>5. outcome[p] = "none"
  BY DEF SendInv, ProgressOK
<1> HIDE DEF ok
<1>6. CASE l < LastLink(p)
  <2>1. sending' = SendTo(p, l + 1, ok) /\ outcome' = outcome
    BY <1>6 DEF EndLink, ok
  <2>2. /\ sending'.busy /\ sending'.packet = p /\ sending'.link = l + 1
        /\ sending'.index = 0 /\ sending'.ok = ok
    BY <2>1 DEF SendTo
  <2>3. l + 1 \in 1..Links /\ l + 1 > l
    BY <1>1, <1>6 DEF LastLink
  <2>4. OutcomeTells'
    BY <1>4, <1>5, <2>1 DEF SendInv, OutcomeTells
  <2>5. UnsentIsUnwritten'
    BY <1>4, <2>1, <2>2 DEF SendInv, UnsentIsUnwritten
  <2>6. \A link \in 1..Links : link > l + 1 => Spared(p, link)'
    <3>1. \A link \in 1..Links : link > l + 1 => link > l
      BY <1>1
    <3> QED
      BY <1>3, <3>1
  <2>7. \A i \in 0..Chunks[p] - 1 : ~Written(p, l + 1, i)' /\ ~(i < 0)
    BY <1>1, <1>3, <2>3 DEF Spared
  <2>8. \A link \in 1..Links : link < l + 1 <=> link <= l
    BY <1>1
  <2>9. ProgressOK'
    BY <1>2, <1>5, <2>1, <2>2, <2>6, <2>7, <2>8 DEF ProgressOK
  <2> QED
    BY <2>4, <2>5, <2>9 DEF SendInv
<1>7. CASE ~(l < LastLink(p))
  <2>1. /\ sending' = Idle
        /\ outcome' = [outcome EXCEPT ![p] = IF ok THEN "Ok" ELSE "Err"]
    BY <1>7 DEF EndLink, ok
  <2>2. ~sending'.busy
    BY <2>1 DEF Idle
  <2>3. /\ \A k \in Packet : k # p => outcome'[k] = outcome[k]
        /\ outcome'[p] # "none" /\ (outcome'[p] = "Ok" <=> ok)
    BY <1>1, <2>1
  <2>4. ok <=> \E link \in 1..Links : Took(p, link)'
    <3>1. \A link \in 1..Links : link > l => ~Took(p, link)'
      <4>1. Spared(p, l) => ~Took(p, l)
        BY <1>1, SparedDidNotTake
      <4>2. \A link \in 1..Links : Spared(p, link)' => ~Took(p, link)'
        <5>1. 0 \in 0..Chunks[p] - 1
          BY <1>1
        <5> QED
          BY <5>1 DEF Spared, Took
      <4> QED
        BY <1>3, <4>2
    <3>2. \A link \in 1..Links : link <= l \/ link > l
      BY <1>1
    <3> QED
      BY <1>2, <3>1, <3>2
  <2>5. OutcomeTells'
    BY <1>4, <2>3, <2>4 DEF SendInv, OutcomeTells
  <2>6. UnsentIsUnwritten'
    BY <1>4, <2>2, <2>3 DEF SendInv, UnsentIsUnwritten
  <2> QED
    BY <2>2, <2>5, <2>6 DEF SendInv, ProgressOK
<1> QED
  BY <1>6, <1>7

LEMMA InitSendInv == Init => SendInv
<1> SUFFICES ASSUME Init PROVE SendInv
  OBVIOUS
<1>1. TypeOK
  BY InitIInv DEF IInv
<1>2. ~sending.busy /\ \A k \in Packet : outcome[k] = "none"
  BY DEF Init, Idle
<1>3. \A k, link, i : ~Written(k, link, i)
  BY DEF Init, Written
<1> QED
  BY <1>1, <1>2, <1>3 DEF SendInv, OutcomeTells, UnsentIsUnwritten, ProgressOK, Spared

LEMMA NextSendInv == SendInv /\ TypeOK' /\ [Next]_vars => SendInv'
<1> SUFFICES ASSUME SendInv, TypeOK', [Next]_vars PROVE SendInv'
  OBVIOUS
<1>0. TypeOK
  BY DEF SendInv
<1>1. ASSUME NEW k \in Packet, StartSend(k) PROVE SendInv'
  <2>1. /\ ~sending.busy /\ outcome[k] = "none"
        /\ sending' = SendTo(k, 1, FALSE) /\ outcome' = outcome /\ wire' = wire
    BY <1>1 DEF StartSend
  <2>2. /\ sending'.busy /\ sending'.packet = k /\ sending'.link = 1
        /\ sending'.index = 0 /\ ~sending'.ok
    BY <2>1 DEF SendTo
  <2>3. /\ \A link \in 1..Links : Spared(k, link)
        /\ \A j, link, i : Written(j, link, i)' <=> Written(j, link, i)
    BY <2>1 DEF SendInv, UnsentIsUnwritten, Written
  <2>4. \A j, link : /\ Spared(j, link)' <=> Spared(j, link)
                     /\ Took(j, link)' <=> Took(j, link)
    BY <2>3 DEF Spared, Took
  <2>5. Links \in Nat /\ 1 \in 1..Links /\ Chunks[k] \in Nat
    BY LinksAssumption, ChunksAssumption
  <2>6. \A i \in 0..Chunks[k] - 1 : ~Written(k, 1, i)' /\ ~(i < 0)
    BY <2>3, <2>5 DEF Spared
  <2>7. \A link \in 1..Links : ~(link < 1)
    BY <2>5
  <2>8. OutcomeTells'
    BY <2>1, <2>4 DEF SendInv, OutcomeTells
  <2>9. UnsentIsUnwritten'
    BY <2>1, <2>2, <2>4 DEF SendInv, UnsentIsUnwritten
  <2>10. ProgressOK'
    <3>1. /\ outcome'[k] = "none"
          /\ \A link \in 1..Links : link > 1 => Spared(k, link)'
          /\ \A i \in 0..Chunks[k] - 1 : Written(k, 1, i)' <=> i < 0
          /\ ~\E link \in 1..Links : link < 1 /\ Took(k, link)'
      BY <2>1, <2>3, <2>4, <2>6, <2>7
    <3> QED
      BY <2>2, <3>1 DEF ProgressOK
  <2> QED
    BY <2>8, <2>9, <2>10 DEF SendInv
<1>2. CASE WriteFragment
  <2>0. PICK p, l, n : p = sending.packet /\ l = sending.link /\ n = sending.index
    OBVIOUS
  <2>1. /\ sending.busy /\ sending \in BusySends
        /\ p \in Packet /\ l \in 1..Links /\ n \in 0..Chunks[p] - 1
        /\ n \in Nat /\ Chunks[p] \in Nat /\ Chunks[p] >= 2
    <3>1. /\ sending.busy /\ sending \in BusySends /\ sending.index < Chunks[sending.packet]
          /\ Chunks[sending.packet] \in Nat /\ Chunks[sending.packet] >= 2
      BY <1>0, <1>2, BusySend DEF WriteFragment
    <3>2. /\ p \in Packet /\ l \in 1..Links /\ n \in Nat
      BY <2>0, <3>1 DEF BusySends
    <3>3. n < Chunks[p] /\ Chunks[p] \in Nat /\ Chunks[p] >= 2
      BY <2>0, <3>1
    <3> QED
      BY <3>1, <3>2, <3>3
  <2>2. wire' = wire \cup {FragmentAt(p, l, n)}
    BY <1>2, <2>0 DEF WriteFragment
  <2>3. \A k, link, i :
           Written(k, link, i)' <=> Written(k, link, i) \/ (k = p /\ link = l /\ i = n)
    BY <2>2 DEF Written, FragmentAt
  <2>4. \A k, link : ~(k = p /\ link = l) =>
           (Took(k, link)' <=> Took(k, link)) /\ (Spared(k, link) => Spared(k, link)')
    BY <2>3 DEF Took, Spared
  <2>5. \A i \in 0..Chunks[p] - 1 : Written(p, l, i)' <=> i < n + 1
    <3>1. \A i \in 0..Chunks[p] - 1 : Written(p, l, i) <=> i < n
      BY <2>0, <2>1 DEF SendInv, ProgressOK
    <3>2. \A i \in 0..Chunks[p] - 1 : i < n + 1 <=> i < n \/ i = n
      BY <2>1
    <3> QED
      BY <2>3, <3>1, <3>2
  <2>6. CASE n + 1 < Chunks[p]
    <3>1. sending' = [sending EXCEPT !.index = n + 1] /\ outcome' = outcome
      BY <1>2, <2>0, <2>6 DEF WriteFragment
    <3>2. /\ sending'.busy /\ sending'.packet = p /\ sending'.link = l
          /\ sending'.index = n + 1 /\ sending'.ok = sending.ok
      BY <2>0, <2>1, <3>1 DEF BusySends
    <3>3. /\ outcome[p] = "none"
          /\ \A link \in 1..Links : link > l => Spared(p, link) /\ link # l
          /\ sending.ok <=> \E link \in 1..Links : link < l /\ Took(p, link)
      BY <2>0, <2>1 DEF SendInv, ProgressOK
    <3>4. \A link \in 1..Links : link < l => link # l
      BY <2>1
    <3>5. /\ \A link \in 1..Links : link > l => Spared(p, link)'
          /\ sending.ok <=> \E link \in 1..Links : link < l /\ Took(p, link)'
      BY <2>4, <3>3, <3>4
    <3>6. ProgressOK'
      BY <2>5, <3>1, <3>2, <3>3, <3>5 DEF ProgressOK
    <3>7. OutcomeTells'
      BY <2>4, <3>1, <3>3 DEF SendInv, OutcomeTells
    <3>8. UnsentIsUnwritten'
      BY <2>0, <2>1, <2>4, <3>1, <3>2 DEF SendInv, UnsentIsUnwritten
    <3> QED
      BY <3>6, <3>7, <3>8 DEF SendInv
  <2>7. CASE ~(n + 1 < Chunks[p])
    <3>1. EndLink(TRUE)
      BY <1>2, <2>0, <2>7 DEF WriteFragment
    <3>2. \A i \in 0..Chunks[p] - 1 : i < n + 1
      BY <2>1, <2>7
    <3>3. Took(p, l)'
      BY <2>5, <3>2 DEF Took
    <3> QED
      BY <2>0, <2>1, <2>4, <3>1, <3>3, EndLinkProgress
  <2> QED
    BY <2>6, <2>7
<1>3. CASE WriteFails
  <2>0. PICK p, l : p = sending.packet /\ l = sending.link
    OBVIOUS
  <2>1. /\ sending.busy /\ sending \in BusySends /\ wire' = wire /\ EndLink(FALSE)
        /\ p \in Packet /\ sending.index \in Nat /\ sending.index < Chunks[p]
        /\ Chunks[p] \in Nat
    BY <1>0, <1>3, <2>0, BusySend DEF WriteFails, BusySends
  <2>2. \A k, link : /\ Took(k, link)' <=> Took(k, link)
                     /\ Spared(k, link)' <=> Spared(k, link)
    BY <2>1 DEF Took, Spared, Written
  <2>3. sending.index \in 0..Chunks[p] - 1 /\ ~(sending.index < sending.index)
    BY <2>0, <2>1
  <2>4. ~Took(p, l)
    BY <2>0, <2>1, <2>3 DEF SendInv, ProgressOK, Took
  <2> QED
    BY <2>0, <2>1, <2>2, <2>4, EndLinkProgress
<1>4. ASSUME NEW f \in wire, HandleFragment(f) PROVE SendInv'
  BY <1>4, SenderUntouched DEF HandleFragment
<1>5. CASE UNCHANGED vars
  BY <1>5, SenderUntouched DEF vars, senderVars
<1> QED
  BY <1>1, <1>2, <1>3, <1>4, <1>5 DEF Next

(* What a send returns is the truth about the links: Ok if one of them took *)
(* all of the packet, whatever failed on the others, and an error if none   *)
(* did, though some may have taken a part of it.                            *)
THEOREM OutcomeTrue == Spec => []OutcomeIsTrue
<1>1. SendInv => OutcomeIsTrue
  BY TookAll DEF SendInv, OutcomeTells, OutcomeIsTrue
<1> QED
  BY <1>1, InitSendInv, NextSendInv, TypeCorrect, PTL DEF Spec
=============================================================================
