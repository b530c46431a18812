------------------------------ MODULE NoiseCipher ------------------------------
(***************************************************************************)
(* The transport cipher of a Noise session (NoiseCipherState with           *)
(* use_extracted_nonce = true, noise_protocol.rs): a counter nonce on the   *)
(* sending side, a sliding replay window on the receiving side.             *)
(*                                                                         *)
(* The AEAD is symbolic: a ciphertext records the key and the 64-bit nonce  *)
(* it was sealed under, and opens only under the same two.  The wire        *)
(* carries a 32-bit prefix of the nonce (WireNonces = 2^32 in the code) and *)
(* the receiver opens with that prefix, not with the counter.               *)
(***************************************************************************)
EXTENDS Integers

CONSTANTS
    ReplayWindowSize,   \* REPLAY_WINDOW_SIZE: 1024 in the code
    WireNonces          \* values of the 4-byte nonce prefix: 2^32 in the code

ASSUME WindowAssumption == ReplayWindowSize \in Nat \ {0}
ASSUME WireAssumption   == WireNonces \in Nat \ {0}

NewCipher(key) ==
    [key |-> key, nonce |-> 0, replay_window |-> {}, highest |-> 0]

(* Definitions marked "mutant" are mistakes one could make in the definition*)
(* that follows; the properties are known to catch them.                    *)

(* Too old, newer than everything, or inside the window and not seen yet. *)
IsValidNonceUnseen(c, n) ==     \* mutant: the seen ones are not looked up
    n + ReplayWindowSize > c.highest
IsValidNonceStrict(c, n) ==     \* mutant: the age test is off by one
    /\ n + ReplayWindowSize > c.highest + 1
    /\ n > c.highest \/ n \notin c.replay_window
IsValidNonce(c, n) ==
    /\ n + ReplayWindowSize > c.highest
    /\ n > c.highest \/ n \notin c.replay_window

SlideKeepingAll(c, n) ==        \* mutant: retain is missing
    [c EXCEPT !.highest = n]
SlideToBottom(c, n) ==          \* mutant: the bottom of the window is kept
    [c EXCEPT !.highest = n - ReplayWindowSize]
Slide(c, n) ==
    [c EXCEPT !.highest = n,
              !.replay_window =
                  IF n - c.highest >= ReplayWindowSize
                  THEN {}
                  ELSE {x \in @ : x + ReplayWindowSize > n}]

MarkNonceAsSeen(c, n) ==
    LET slid == IF n > c.highest THEN Slide(c, n) ELSE c
    IN  [slid EXCEPT !.replay_window = @ \cup {n}]

NonceToBytes(n) == n % WireNonces

(* encrypt: the packet it returns, and the cipher state it leaves behind. *)
SealedUntruncated(c, payload) ==  \* mutant: the prefix is not truncated
    [key |-> c.key, nonce |-> c.nonce, prefix |-> c.nonce, payload |-> payload]
SealedUnderPrefix(c, payload) ==  \* mutant: sealed under the prefix
    [key |-> c.key, nonce |-> NonceToBytes(c.nonce),
     prefix |-> NonceToBytes(c.nonce), payload |-> payload]
Sealed(c, payload) ==
    [key |-> c.key, nonce |-> c.nonce, prefix |-> NonceToBytes(c.nonce),
     payload |-> payload]
AfterEncrypt(c) == [c EXCEPT !.nonce = @ + 1]

(* decrypt: replay check first, then the AEAD, and the window is touched   *)
(* only by a ciphertext that opened.                                       *)
Opens(c, ct) == ct.key = c.key /\ ct.nonce = ct.prefix
DecryptResult(c, ct) ==
    IF ~IsValidNonce(c, ct.prefix) THEN "ReplayDetected"
    ELSE IF ~Opens(c, ct) THEN "DecryptionFailed"
    ELSE "Ok"
AfterDecryptUnmarked(c, ct) == c  \* mutant: the nonce is never marked
AfterDecrypt(c, ct) ==
    IF DecryptResult(c, ct) = "Ok" THEN MarkNonceAsSeen(c, ct.prefix) ELSE c
=============================================================================
