----------------------------- MODULE NoiseTransport -----------------------------
(***************************************************************************)
(* One direction of an established session over the mesh.  The mesh sends  *)
(* one copy of a packet per link and relays it, so a ciphertext that was   *)
(* sent may arrive late, out of order, any number of times, or never; and  *)
(* ciphertexts of an earlier session with the same peer may still be       *)
(* around.  The receiver calls decrypt on whatever arrives.                *)
(***************************************************************************)
EXTENDS NoiseCipher, Sequences

CONSTANTS
    Key,        \* the key of this session's direction
    StaleKey,   \* the key of an earlier session with the same peer
    MaxSends    \* bound: number of ciphertexts of each session

ASSUME KeyAssumption == Key # StaleKey
ASSUME SendsAssumption == MaxSends \in Nat

VARIABLES
    tx,         \* the sender's send_cipher
    rx,         \* the receiver's receive_cipher
    wire,       \* every ciphertext that may still arrive
    delivered   \* history: AEAD nonces whose plaintext was returned, in order

vars == <<tx, rx, wire, delivered>>

Delivered == {delivered[i] : i \in 1..Len(delivered)}

StaleCiphertexts ==
    {[key |-> StaleKey, nonce |-> n, prefix |-> NonceToBytes(n),
      payload |-> n] : n \in 0..MaxSends - 1}

Init ==
    /\ tx = NewCipher(Key)
    /\ rx = NewCipher(Key)
    /\ wire = StaleCiphertexts
    /\ delivered = <<>>

(* The payload of a message is identified with the nonce it is sealed with. *)
Send ==
    /\ tx.nonce < MaxSends
    /\ wire' = wire \cup {Sealed(tx, tx.nonce)}
    /\ tx' = AfterEncrypt(tx)
    /\ UNCHANGED <<rx, delivered>>

(* decrypt of a ciphertext that arrives: a fresh one is returned to the     *)
(* caller, a replayed one and one that does not open change nothing.        *)
Receive(ct) ==
    /\ rx' = AfterDecrypt(rx, ct)
    /\ delivered' = IF DecryptResult(rx, ct) = "Ok"
                    THEN Append(delivered, ct.payload)
                    ELSE delivered
    /\ UNCHANGED <<tx, wire>>

Next == Send \/ \E ct \in wire : Receive(ct)

Spec == Init /\ [][Next]_vars

-----------------------------------------------------------------------------
(* Type invariant: the shape of the two ciphers, the wire and the history. *)
CipherTypeOK(c) ==
    c \in [key : {Key}, nonce : Nat, replay_window : SUBSET Nat, highest : Nat]

Ciphertexts ==
    [key : {Key, StaleKey}, nonce : Nat, prefix : Nat, payload : Nat]

TypeOK ==
    /\ CipherTypeOK(tx)
    /\ CipherTypeOK(rx)
    /\ \A ct \in wire :
         /\ ct \in Ciphertexts
         /\ ct.prefix = NonceToBytes(ct.nonce)
         /\ ct.payload = ct.nonce
    /\ delivered \in Seq(Nat)

(* At most once: a plaintext is returned to the caller only once, however   *)
(* often and in whatever order copies of its ciphertext arrive              *)
(* (is_valid_nonce and mark_nonce_as_seen around the AEAD in decrypt).      *)
AtMostOnce ==
    \A i, j \in 1..Len(delivered) : delivered[i] = delivered[j] => i = j

(* The window is exact: it holds the accepted nonces that are not too old,  *)
(* all of them and nothing else, and so never outgrows REPLAY_WINDOW_SIZE   *)
(* (the retain and clear of mark_nonce_as_seen agree with the age test of   *)
(* is_valid_nonce).                                                         *)
WindowExact ==
    rx.replay_window =
        {n \in Delivered : n + ReplayWindowSize > rx.highest}

(* No fresh message is refused: a ciphertext of this session that was not   *)
(* returned yet, is not older than the window and was sent before the wire  *)
(* prefix wrapped would be returned if it arrived now.                      *)
FreshAccepted ==
    \A ct \in wire :
        ( /\ ct.key = Key
          /\ ct.nonce \notin Delivered
          /\ ct.nonce + ReplayWindowSize > rx.highest
          /\ ct.nonce < WireNonces )
        => DecryptResult(rx, ct) = "Ok"

(* Wrap-around is silent but never confuses messages: once the counter has  *)
(* passed the 4-byte prefix (nonce_to_bytes truncates, encrypt has no       *)
(* NonceExceeded check) nothing sent later is ever returned.                *)
NothingAfterWrap ==
    \A i \in 1..Len(delivered) : delivered[i] < WireNonces

(* The direction implements the at-most-once channel. *)
Channel == INSTANCE AtMostOnceChannel
             WITH Ids  <- 0..MaxSends - 1,
                  sent <- {ct.nonce : ct \in {c \in wire : c.key = Key}},
                  got  <- delivered
ImplementsChannel == Channel!ChannelSpec
=============================================================================
