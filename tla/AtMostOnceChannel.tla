--------------------------- MODULE AtMostOnceChannel ---------------------------
(***************************************************************************)
(* What one direction of an established Noise session promises: every      *)
(* message carries a fresh identifier, and the receiver is handed each     *)
(* identifier at most once, in any order, possibly never.                  *)
(***************************************************************************)
EXTENDS Naturals, Sequences

CONSTANT Ids   \* the identifiers messages may carry

VARIABLES
    sent,   \* identifiers the sender has used
    got     \* identifiers handed to the receiver, oldest first

Received == {got[i] : i \in 1..Len(got)}

ChannelInit == sent = {} /\ got = <<>>

ChannelSend(m) ==
    /\ m \notin sent
    /\ sent' = sent \cup {m}
    /\ UNCHANGED got

ChannelDeliver(m) ==
    /\ m \in sent \ Received
    /\ got' = Append(got, m)
    /\ UNCHANGED sent

ChannelNext == \E m \in Ids : ChannelSend(m) \/ ChannelDeliver(m)

ChannelSpec == ChannelInit /\ [][ChannelNext]_<<sent, got>>
=============================================================================
