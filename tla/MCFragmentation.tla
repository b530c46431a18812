---------------------------- MODULE MCFragmentation ----------------------------
(* Small instances of Fragmentation: a message and a file of three chunks.   *)
EXTENDS Fragmentation

CONSTANTS message, file     \* the packets of the instances

MCType ==
    [k \in Packet |-> CASE k = message -> "Message"
                        [] k = file    -> "FileTransfer"]
MCChunks == [k \in Packet |-> 3]
=============================================================================
