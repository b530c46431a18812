-------------------------- MODULE NoiseTransport_proofs --------------------------
(***************************************************************************)
(* Proofs about one direction of an established session, for every window  *)
(* size, every prefix width and every number of messages.                  *)
(*                                                                         *)
(* AtMostOnce is not inductive: the window only remembers recent nonces.   *)
(* IInv adds that the window holds exactly the accepted nonces that are    *)
(* young enough (WindowExact) and that no accepted nonce is above the      *)
(* highest one (BelowHighest), so a nonce that passes is_valid_nonce is a  *)
(* new one: it is above everything accepted, or in the window's range and  *)
(* absent from the window.                                                 *)
(***************************************************************************)
EXTENDS NoiseTransport, TLAPS

(* Every accepted nonce is at most the highest one. *)
BelowHighest == \A n \in Delivered : n <= rx.highest

(* The counter is above every nonce this session has used, and only what   *)
(* was sealed in this session has been delivered.                          *)
SentBelowCounter ==
    /\ \A ct \in wire : ct.key = Key => ct.nonce < tx.nonce
    /\ tx.nonce <= MaxSends
    /\ \A n \in Delivered : \E ct \in wire : ct.key = Key /\ ct.nonce = n

IInv ==
    /\ TypeOK
    /\ AtMostOnce
    /\ WindowExact
    /\ BelowHighest
    /\ NothingAfterWrap

(* A ciphertext that decrypt accepts carries its nonce as its prefix, and   *)
(* that nonce was not accepted before.                                      *)
LEMMA AcceptedIsFresh ==
  ASSUME IInv, NEW ct \in wire, DecryptResult(rx, ct) = "Ok"
  PROVE  /\ ct.payload = ct.prefix
         /\ ct.nonce = ct.prefix
         /\ ct.key = Key
         /\ ct.prefix \in Nat
         /\ ct.prefix < WireNonces
         /\ ct.prefix \notin Delivered
<1>1. IsValidNonce(rx, ct.prefix) /\ Opens(rx, ct)
  BY DEF DecryptResult
<1>2. /\ ct.payload = ct.nonce /\ ct.nonce = ct.prefix /\ ct.key = Key
      /\ ct.nonce \in Nat
  BY <1>1 DEF IInv, TypeOK, CipherTypeOK, Opens, Ciphertexts
<1>3. ct.prefix < WireNonces
  BY <1>2, WireAssumption DEF IInv, TypeOK, NonceToBytes
<1>4. ct.prefix \notin Delivered
  BY <1>1, <1>2, WindowAssumption
  DEF IInv, IsValidNonce, WindowExact, BelowHighest, TypeOK, CipherTypeOK
<1> QED
  BY <1>2, <1>3, <1>4

(* A nonce below the modulus is its own prefix. *)
LEMMA ModSmall ==
  ASSUME NEW a \in Nat, NEW b \in Nat \ {0}, a < b
  PROVE  a % b = a
<1> QED
  BY Z3

(* mark_nonce_as_seen: what the window and the highest nonce become. *)
LEMMA MarkedCipher ==
  ASSUME NEW c, CipherTypeOK(c), NEW n \in Nat
  PROVE  /\ CipherTypeOK(MarkNonceAsSeen(c, n))
         /\ MarkNonceAsSeen(c, n).highest = IF n > c.highest THEN n ELSE c.highest
         /\ n <= c.highest =>
              MarkNonceAsSeen(c, n).replay_window = c.replay_window \cup {n}
         /\ n > c.highest =>
              MarkNonceAsSeen(c, n).replay_window =
                {n} \cup IF n - c.highest >= ReplayWindowSize THEN {}
                          ELSE {x \in c.replay_window : x + ReplayWindowSize > n}
<1> USE DEF CipherTypeOK
<1>1. CASE n > c.highest
  <2> DEFINE kept == IF n - c.highest >= ReplayWindowSize THEN {}
                     ELSE {x \in c.replay_window : x + ReplayWindowSize > n}
  <2>1. kept \in SUBSET Nat
    OBVIOUS
  <2>2. Slide(c, n) = [c EXCEPT !.highest = n, !.replay_window = kept]
    BY DEF Slide
  <2> HIDE DEF kept
  <2>3. /\ CipherTypeOK(Slide(c, n))
        /\ Slide(c, n).highest = n
        /\ Slide(c, n).replay_window = kept
    BY <2>1, <2>2
  <2>4. MarkNonceAsSeen(c, n) =
          [Slide(c, n) EXCEPT !.replay_window = Slide(c, n).replay_window \cup {n}]
    BY <1>1 DEF MarkNonceAsSeen
  <2>5. /\ CipherTypeOK(MarkNonceAsSeen(c, n))
        /\ MarkNonceAsSeen(c, n).highest = n
        /\ MarkNonceAsSeen(c, n).replay_window = {n} \cup kept
    BY <2>3, <2>4
  <2> QED
    BY <1>1, <2>5 DEF kept
<1>2. CASE ~(n > c.highest)
  BY <1>2 DEF MarkNonceAsSeen
<1> QED
  BY <1>1, <1>2

(* IInv holds at the start: nothing was sent or accepted. *)
LEMMA InitIInv == Init => IInv
<1> SUFFICES ASSUME Init PROVE IInv
  OBVIOUS
<1> USE WireAssumption, WindowAssumption, SendsAssumption
<1>1. \A ct \in wire : /\ ct \in Ciphertexts
                       /\ ct.prefix = NonceToBytes(ct.nonce)
                       /\ ct.payload = ct.nonce
  BY DEF Init, StaleCiphertexts, Ciphertexts, NonceToBytes
<1>2. delivered = <<>> /\ Delivered = {}
  BY DEF Init, Delivered
<1>3. CipherTypeOK(tx) /\ CipherTypeOK(rx)
  BY DEF Init, NewCipher, CipherTypeOK
<1>4. rx.replay_window = {} /\ rx.highest = 0
  BY DEF Init, NewCipher
<1> QED
  BY <1>1, <1>2, <1>3, <1>4
  DEF IInv, TypeOK, AtMostOnce, WindowExact, BelowHighest, NothingAfterWrap

(* IInv is inductive: encrypt and decrypt preserve it. *)
LEMMA NextIInv == IInv /\ [Next]_vars => IInv'
<1> SUFFICES ASSUME IInv, [Next]_vars PROVE IInv'
  OBVIOUS
<1> USE WireAssumption, WindowAssumption
<1>1. CASE Send
  <2>1. UNCHANGED <<rx, delivered, Delivered>>
    BY <1>1 DEF Send, Delivered
  <2>2. CipherTypeOK(tx)'
    <3>1. tx \in [key : {Key}, nonce : Nat, replay_window : SUBSET Nat, highest : Nat]
      BY DEF IInv, TypeOK, CipherTypeOK
    <3>2. tx' = [tx EXCEPT !.nonce = tx.nonce + 1] /\ tx.nonce + 1 \in Nat
      BY <1>1, <3>1 DEF Send, AfterEncrypt
    <3> QED
      BY <3>1, <3>2 DEF CipherTypeOK
  <2>3. \A ct \in wire' : /\ ct \in Ciphertexts
                          /\ ct.prefix = NonceToBytes(ct.nonce)
                          /\ ct.payload = ct.nonce
    BY <1>1 DEF Send, Sealed, IInv, TypeOK, CipherTypeOK, Ciphertexts, NonceToBytes
  <2>4. TypeOK'
    BY <2>1, <2>2, <2>3 DEF IInv, TypeOK, CipherTypeOK
  <2> QED
    BY <2>1, <2>4 DEF IInv, AtMostOnce, WindowExact, BelowHighest, NothingAfterWrap
<1>2. ASSUME NEW ct \in wire, Receive(ct), DecryptResult(rx, ct) = "Ok"
      PROVE  IInv'
  <2> DEFINE n == ct.prefix
  <2>1. /\ n \in Nat /\ n < WireNonces /\ n \notin Delivered /\ ct.payload = n
    BY <1>2, AcceptedIsFresh
  <2>2. /\ rx' = MarkNonceAsSeen(rx, n)
        /\ delivered' = Append(delivered, n)
        /\ UNCHANGED <<tx, wire>>
    BY <1>2, <2>1 DEF Receive, AfterDecrypt
  <2>0. n + ReplayWindowSize > rx.highest
    BY <1>2 DEF DecryptResult, IsValidNonce
  <2> HIDE DEF n
  <2>3. /\ delivered \in Seq(Nat)
        /\ delivered' \in Seq(Nat)
        /\ Len(delivered') = Len(delivered) + 1
        /\ \A i \in 1..Len(delivered) : delivered'[i] = delivered[i]
        /\ delivered'[Len(delivered) + 1] = n
    BY <2>1, <2>2 DEF IInv, TypeOK
  <2>4. Delivered' = Delivered \cup {n}
    <3>1. Delivered' \subseteq Delivered \cup {n}
      BY <2>3 DEF Delivered
    <3>2. Delivered \subseteq Delivered'
      BY <2>3 DEF Delivered
    <3>3. n \in Delivered'
      BY <2>3 DEF Delivered
    <3> QED
      BY <3>1, <3>2, <3>3
  <2>5. CipherTypeOK(rx)
    BY DEF IInv, TypeOK
  <2>6. TypeOK'
    BY <2>1, <2>2, <2>3, <2>5, MarkedCipher DEF IInv, TypeOK, CipherTypeOK
  <2>7. AtMostOnce'
    <3>1. \A i \in 1..Len(delivered) : delivered[i] # n
      BY <2>1 DEF Delivered
    <3>2. \A i, j \in 1..Len(delivered) : delivered[i] = delivered[j] => i = j
      BY DEF IInv, AtMostOnce
    <3>3. Len(delivered) \in Nat
      BY <2>3
    <3>4. 1..Len(delivered') = 1..Len(delivered) \cup {Len(delivered) + 1}
      BY <2>3, <3>3
    <3> QED
      BY <2>3, <3>1, <3>2, <3>3, <3>4 DEF AtMostOnce
  <2>8. Delivered \subseteq Nat /\ rx.highest \in Nat
    BY <2>3, <2>5 DEF Delivered, CipherTypeOK
  <2>9. WindowExact' /\ BelowHighest'
    <3>0. /\ rx.replay_window = {x \in Delivered : x + ReplayWindowSize > rx.highest}
          /\ \A x \in Delivered : x <= rx.highest
      BY DEF IInv, WindowExact, BelowHighest
    <3>1. CASE n > rx.highest
      <4>1. /\ rx'.highest = n
            /\ rx'.replay_window =
                 {n} \cup IF n - rx.highest >= ReplayWindowSize THEN {}
                         ELSE {x \in rx.replay_window : x + ReplayWindowSize > n}
        BY <2>1, <2>2, <2>5, <3>1, MarkedCipher
      <4>2. BelowHighest'
        BY <2>1, <2>4, <2>8, <3>0, <3>1, <4>1 DEF BelowHighest
      <4>3. {n} \cup {x \in Delivered : x + ReplayWindowSize > n}
              = {x \in Delivered' : x + ReplayWindowSize > rx'.highest}
        BY <2>1, <2>4, <2>8, <4>1
      <4>4. CASE n - rx.highest >= ReplayWindowSize
        <5>0. \A x \in Delivered : ~(x + ReplayWindowSize > n)
          <6> SUFFICES ASSUME NEW x \in Delivered
                       PROVE  ~(x + ReplayWindowSize > n)
            OBVIOUS
          <6>1. x \in Nat /\ x <= rx.highest
            BY <2>8, <3>0
          <6> QED
            BY <2>1, <2>8, <4>4, <6>1
        <5>1. {x \in Delivered : x + ReplayWindowSize > n} = {}
          BY <5>0
        <5> QED
          BY <4>1, <4>2, <4>3, <4>4, <5>1 DEF WindowExact
      <4>5. CASE ~(n - rx.highest >= ReplayWindowSize)
        <5>0. \A x \in Delivered : x + ReplayWindowSize > n
                                    => x + ReplayWindowSize > rx.highest
          BY <2>1, <2>8, <3>1
        <5>1. {x \in rx.replay_window : x + ReplayWindowSize > n}
                = {x \in Delivered : x + ReplayWindowSize > n}
          BY <3>0, <5>0
        <5> QED
          BY <4>1, <4>2, <4>3, <4>5, <5>1 DEF WindowExact
      <4> QED
        BY <4>4, <4>5
    <3>2. CASE ~(n > rx.highest)
      <4>1. n + ReplayWindowSize > rx.highest
        BY <2>0
      <4>2. /\ rx'.highest = rx.highest
            /\ rx'.replay_window = rx.replay_window \cup {n}
        <5>1. n <= rx.highest
          BY <2>1, <2>8, <3>2
        <5> QED
          BY <2>1, <2>2, <2>5, <3>2, <5>1, MarkedCipher
      <4>3. BelowHighest'
        BY <2>1, <2>4, <2>8, <3>0, <3>2, <4>2 DEF BelowHighest
      <4>4. rx'.replay_window = {x \in Delivered' : x + ReplayWindowSize > rx'.highest}
        BY <2>1, <2>4, <3>0, <4>1, <4>2
      <4> QED
        BY <4>3, <4>4 DEF WindowExact
    <3> QED
      BY <3>1, <3>2
  <2>10. NothingAfterWrap'
    BY <2>1, <2>3 DEF IInv, NothingAfterWrap
  <2> QED
    BY <2>6, <2>7, <2>9, <2>10 DEF IInv
<1>3. ASSUME NEW ct \in wire, Receive(ct), DecryptResult(rx, ct) # "Ok"
      PROVE  IInv'
  <2>1. UNCHANGED vars
    BY <1>3 DEF Receive, AfterDecrypt, vars
  <2> QED
    BY <2>1 DEF IInv, TypeOK, CipherTypeOK, AtMostOnce, WindowExact, BelowHighest,
                NothingAfterWrap, Delivered, vars
<1>4. CASE UNCHANGED vars
  BY <1>4 DEF IInv, TypeOK, CipherTypeOK, AtMostOnce, WindowExact, BelowHighest,
              NothingAfterWrap, Delivered, vars
<1> QED
  BY <1>1, <1>2, <1>3, <1>4 DEF Next

(* The inductive invariant holds in every reachable state. *)
LEMMA Invariance == Spec => []IInv
<1> QED
  BY InitIInv, NextIInv, PTL DEF Spec

(* Type correctness of the two ciphers, the wire and the history. *)
THEOREM TypeCorrect == Spec => []TypeOK
<1>1. IInv => TypeOK
  BY DEF IInv
<1> QED
  BY <1>1, Invariance, PTL

(* decrypt returns each plaintext at most once, for every window size.      *)
THEOREM AtMostOnceDelivery == Spec => []AtMostOnce
<1>1. IInv => AtMostOnce
  BY DEF IInv
<1> QED
  BY <1>1, Invariance, PTL

(* The replay window holds exactly the accepted nonces that are not yet too *)
(* old.                                                                     *)
THEOREM WindowIsExact == Spec => []WindowExact
<1>1. IInv => WindowExact
  BY DEF IInv
<1> QED
  BY <1>1, Invariance, PTL

(* Nothing sealed after the 4-byte prefix wrapped is ever returned. *)
THEOREM WrapIsSilent == Spec => []NothingAfterWrap
<1>1. IInv => NothingAfterWrap
  BY DEF IInv
<1> QED
  BY <1>1, Invariance, PTL

(* decrypt refuses no fresh in-window message sent before the prefix wraps. *)
THEOREM FreshIsAccepted == Spec => []FreshAccepted
<1>1. ASSUME IInv, NEW ct \in wire, ct.key = Key, ct.nonce \notin Delivered,
             ct.nonce + ReplayWindowSize > rx.highest, ct.nonce < WireNonces
      PROVE  DecryptResult(rx, ct) = "Ok"
  <2>1. ct.nonce \in Nat /\ ct.prefix = ct.nonce
    <3>1. ct.nonce \in Nat /\ ct.prefix = ct.nonce % WireNonces
      BY <1>1 DEF IInv, TypeOK, Ciphertexts, NonceToBytes
    <3> QED
      BY <1>1, <3>1, WireAssumption, ModSmall
  <2>2. ct.nonce \notin rx.replay_window
    BY <1>1 DEF IInv, WindowExact
  <2>3. rx.highest \in Nat /\ rx.key = Key
    BY <1>1 DEF IInv, TypeOK, CipherTypeOK
  <2>4. IsValidNonce(rx, ct.prefix) /\ Opens(rx, ct)
    BY <1>1, <2>1, <2>2, <2>3 DEF IsValidNonce, Opens
  <2> QED
    BY <2>4 DEF DecryptResult
<1>2. IInv => FreshAccepted
  BY <1>1 DEF FreshAccepted
<1> QED
  BY <1>2, Invariance, PTL

-----------------------------------------------------------------------------
(* Refinement: sends map to sends, an accepted ciphertext to a delivery, and *)
(* a refused one to a stutter.                                               *)

(* At the start no ciphertext of this session is on the wire. *)
LEMMA InitSent == Init => SentBelowCounter
<1> SUFFICES ASSUME Init PROVE SentBelowCounter
  OBVIOUS
<1>1. \A ct \in wire : ct.key # Key
  BY KeyAssumption DEF Init, StaleCiphertexts
<1>2. tx.nonce = 0 /\ Delivered = {}
  BY DEF Init, NewCipher, Delivered
<1> QED
  BY <1>1, <1>2, SendsAssumption DEF SentBelowCounter

(* encrypt takes each nonce below the counter once. *)
LEMMA NextSent == IInv /\ SentBelowCounter /\ [Next]_vars => SentBelowCounter'
<1> SUFFICES ASSUME IInv, SentBelowCounter, [Next]_vars PROVE SentBelowCounter'
  OBVIOUS
<1>0. tx \in [key : {Key}, nonce : Nat, replay_window : SUBSET Nat, highest : Nat]
  BY DEF IInv, TypeOK, CipherTypeOK
<1>1. CASE Send
  <2>1. tx'.nonce = tx.nonce + 1 /\ tx.nonce < MaxSends /\ Delivered' = Delivered
    BY <1>0, <1>1 DEF Send, AfterEncrypt, Delivered
  <2>2. wire' = wire \cup {Sealed(tx, tx.nonce)} /\ Sealed(tx, tx.nonce).nonce = tx.nonce
    BY <1>1 DEF Send, Sealed
  <2>3. \A ct \in wire' : ct.key = Key => ct.nonce < tx'.nonce
    <3>1. \A ct \in wire : ct.nonce \in Nat
      BY DEF IInv, TypeOK, Ciphertexts
    <3> QED
      BY <1>0, <2>1, <2>2, <3>1 DEF SentBelowCounter
  <2>4. tx'.nonce <= MaxSends
    BY <1>0, <2>1, SendsAssumption
  <2> QED
    BY <2>1, <2>2, <2>3, <2>4 DEF SentBelowCounter
<1>2. ASSUME NEW ct \in wire, Receive(ct)
      PROVE  SentBelowCounter'
  <2>1. UNCHANGED <<tx, wire>>
    BY <1>2 DEF Receive
  <2>2. CASE DecryptResult(rx, ct) = "Ok"
    <3>1. ct.payload = ct.nonce /\ ct.key = Key
      BY <2>2, AcceptedIsFresh
    <3>2. delivered' = Append(delivered, ct.nonce) /\ delivered \in Seq(Nat)
      BY <1>2, <2>2, <3>1 DEF Receive, IInv, TypeOK
    <3>3. Delivered' \subseteq Delivered \cup {ct.nonce}
      BY <3>2 DEF Delivered
    <3> QED
      BY <2>1, <3>1, <3>3 DEF SentBelowCounter
  <2>3. CASE DecryptResult(rx, ct) # "Ok"
    <3>1. Delivered' = Delivered
      BY <1>2, <2>3 DEF Receive, Delivered
    <3> QED
      BY <2>1, <3>1 DEF SentBelowCounter
  <2> QED
    BY <2>2, <2>3
<1>3. CASE UNCHANGED vars
  BY <1>3 DEF vars, SentBelowCounter, Delivered
<1> QED
  BY <1>1, <1>2, <1>3 DEF Next

(* Every step of the direction is a step of the channel or a stutter. *)
LEMMA StepRefines ==
  ASSUME IInv, SentBelowCounter, [Next]_vars
  PROVE  [Channel!ChannelNext]_<<{ct.nonce : ct \in {c \in wire : c.key = Key}}, delivered>>
<1> DEFINE Sent == {ct.nonce : ct \in {c \in wire : c.key = Key}}
<1>0. tx \in [key : {Key}, nonce : Nat, replay_window : SUBSET Nat, highest : Nat]
  BY DEF IInv, TypeOK, CipherTypeOK
<1>1. CASE Send
  <2>1. wire' = wire \cup {Sealed(tx, tx.nonce)} /\ delivered' = delivered
    BY <1>1 DEF Send
  <2>2. Sealed(tx, tx.nonce).nonce = tx.nonce /\ Sealed(tx, tx.nonce).key = Key
    BY <1>0 DEF Sealed
  <2>3. Sent' = Sent \cup {tx.nonce}
    BY <2>1, <2>2
  <2>4. tx.nonce \notin Sent
    BY <1>0 DEF SentBelowCounter
  <2>5. tx.nonce \in 0..MaxSends - 1
    <3>1. tx.nonce < MaxSends /\ tx.nonce \in Nat
      BY <1>0, <1>1 DEF Send
    <3> QED
      BY <3>1, SendsAssumption
  <2>6. PICK m \in 0..MaxSends - 1 : m = tx.nonce
    BY <2>5
  <2>7. Channel!ChannelSend(m)
    BY <2>1, <2>3, <2>4, <2>6 DEF Channel!ChannelSend
  <2> QED
    BY <2>6, <2>7 DEF Channel!ChannelNext
<1>2. ASSUME NEW ct \in wire, Receive(ct), DecryptResult(rx, ct) = "Ok"
      PROVE  Channel!ChannelNext
  <2>1. /\ ct.payload = ct.nonce /\ ct.key = Key /\ ct.nonce \in Nat
        /\ ct.nonce \notin Delivered
    BY <1>2, AcceptedIsFresh
  <2>2. delivered' = Append(delivered, ct.nonce) /\ UNCHANGED wire
    BY <1>2, <2>1 DEF Receive
  <2>3. ct.nonce \in Sent /\ Sent' = Sent
    BY <2>1, <2>2
  <2>4. ct.nonce \notin Channel!Received
    BY <2>1 DEF Channel!Received, Delivered
  <2>5. ct.nonce \in 0..MaxSends - 1
    <3>1. ct.nonce < tx.nonce /\ tx.nonce <= MaxSends /\ tx.nonce \in Nat
      BY <1>0, <1>2, <2>1 DEF SentBelowCounter
    <3> QED
      BY <2>1, <3>1, SendsAssumption
  <2>6. Channel!ChannelDeliver(ct.nonce)
    BY <2>2, <2>3, <2>4 DEF Channel!ChannelDeliver
  <2> QED
    BY <2>5, <2>6 DEF Channel!ChannelNext
<1>3. ASSUME NEW ct \in wire, Receive(ct), DecryptResult(rx, ct) # "Ok"
      PROVE  UNCHANGED <<Sent, delivered>>
  BY <1>3 DEF Receive
<1>4. CASE UNCHANGED vars
  BY <1>4 DEF vars
<1> QED
  BY <1>1, <1>2, <1>3, <1>4 DEF Next

(* One direction of a session implements the at-most-once channel.          *)
THEOREM TransportImplementsChannel == Spec => ImplementsChannel
<1>1. Init => Channel!ChannelInit
  BY KeyAssumption DEF Init, StaleCiphertexts, Channel!ChannelInit
<1>2. Spec => []SentBelowCounter
  BY InitIInv, InitSent, NextIInv, NextSent, PTL DEF Spec
<1> QED
  BY <1>1, <1>2, Invariance, StepRefines, PTL
  DEF Spec, ImplementsChannel, Channel!ChannelSpec
=============================================================================
