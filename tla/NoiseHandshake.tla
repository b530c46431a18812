----------------------------- MODULE NoiseHandshake -----------------------------
(***************************************************************************)
(* The XX handshake (NoiseHandshakeState, noise_protocol.rs), symbolically.*)
(*                                                                         *)
(*   message 1   E              32 bytes                                   *)
(*   message 2   E EE S ES      96 bytes                                   *)
(*   message 3   S SE           64 bytes                                   *)
(*                                                                         *)
(* write_message and read_message mix each token into the chaining key and *)
(* the hash as they go and return early on an error, so a failed call may  *)
(* leave a transcript nobody else has.  Such a handshake can never open or *)
(* produce anything its peer accepts; what exactly its transcript holds no *)
(* longer matters, and Spoiled forgets it.                                 *)
(***************************************************************************)
EXTENDS Integers

NoKey == [owner |-> 0, serial |-> 0]      \* no ephemeral key
Ephemeral(n, k) == [owner |-> n, serial |-> k]

Patterns == 3                             \* message_patterns.len()

NewHandshake(role) ==
    [role |-> role, current_pattern |-> 0, e |-> NoKey, re |-> NoKey,
     honest |-> TRUE]

Spoiled(hs) == [hs EXCEPT !.e = NoKey, !.re = NoKey, !.honest = FALSE]

IsHandshakeComplete(hs) == hs.current_pattern >= Patterns

(* A message: its number, the ephemeral of its E token, the ephemeral of    *)
(* the other side it was computed with, and whether its writer's transcript *)
(* is one its peer can have.                                                *)
Message(number, e, re, honest) ==
    [number |-> number, e |-> e, re |-> re, honest |-> honest]

(***************************************************************************)
(* write_message.  The second message needs a remote ephemeral and, for    *)
(* the ES of an initiator, a remote static key it cannot have yet; the     *)
(* third needs, for the SE of a responder, the static key that only the    *)
(* third message carries.  Both fail with MissingKeys, after E or S was    *)
(* already mixed in.                                                       *)
(***************************************************************************)
NeedsEphemeral(hs) == hs.current_pattern \in {0, 1}

CanWrite(hs) ==
    CASE hs.current_pattern = 0 -> TRUE
      [] hs.current_pattern = 1 -> hs.role = "Responder"
      [] hs.current_pattern = 2 -> hs.role = "Initiator"
      [] OTHER -> FALSE

AfterWrite(hs, fresh) ==
    IF ~CanWrite(hs) THEN Spoiled(hs)
    ELSE [hs EXCEPT !.current_pattern = @ + 1,
                    !.e = IF NeedsEphemeral(hs) /\ hs.honest THEN fresh ELSE @]

WrittenMessage(hs, fresh) ==
    LET e == IF hs.honest THEN AfterWrite(hs, fresh).e ELSE NoKey
    IN  Message(hs.current_pattern + 1, e, hs.re, hs.honest)

(***************************************************************************)
(* read_message.                                                           *)
(*  - Pattern 0 takes the first 32 bytes of anything as the ephemeral and  *)
(*    hashes the rest as a plaintext payload: it accepts every message.    *)
(*  - Pattern 1 mixes E and EE before the static key turns out to be       *)
(*    missing (messages 1 and 3 are too short) or does not decrypt.        *)
(*  - Pattern 2 starts with the static key, so a wrong message leaves the  *)
(*    transcript as it was.                                                *)
(***************************************************************************)
CanRead(hs, msg) ==
    CASE hs.current_pattern = 0 -> TRUE
      [] hs.current_pattern = 1 ->
           /\ msg.number = 2 /\ hs.role = "Initiator"
           /\ hs.honest /\ msg.honest
           /\ msg.re = hs.e
      [] hs.current_pattern = 2 ->
           /\ msg.number = 3 /\ hs.role = "Responder"
           /\ hs.honest /\ msg.honest
           /\ msg.e = hs.re /\ msg.re = hs.e
      [] OTHER -> FALSE

AfterRead(hs, msg) ==
    CASE CanRead(hs, msg) /\ hs.current_pattern = 0 ->
           IF msg.number = 1 /\ hs.honest
           THEN [hs EXCEPT !.current_pattern = 1, !.re = msg.e]
           ELSE [Spoiled(hs) EXCEPT !.current_pattern = 1]
      [] CanRead(hs, msg) /\ hs.current_pattern = 1 ->
           [hs EXCEPT !.current_pattern = 2, !.re = msg.e]
      [] CanRead(hs, msg) /\ hs.current_pattern = 2 ->
           [hs EXCEPT !.current_pattern = 3]
      [] ~CanRead(hs, msg) /\ hs.current_pattern = 1 -> Spoiled(hs)
      [] OTHER -> hs

(* split and get_transport_ciphers: one key per direction, named by the two *)
(* ephemerals; the initiator sends with the first and receives with the     *)
(* second, the responder the other way round.                               *)
TransportKey(hs, direction) ==
    IF hs.role = "Initiator"
    THEN [i |-> hs.e, r |-> hs.re, direction |-> direction]
    ELSE [i |-> hs.re, r |-> hs.e, direction |-> direction]

SendKey(hs) == TransportKey(hs, IF hs.role = "Initiator" THEN 1 ELSE 2)
RecvKeySwapped(hs) ==   \* mutant: both roles take the second key
    TransportKey(hs, 2)
RecvKey(hs) == TransportKey(hs, IF hs.role = "Initiator" THEN 2 ELSE 1)
=============================================================================
