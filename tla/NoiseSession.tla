------------------------------ MODULE NoiseSession ------------------------------
(***************************************************************************)
(* The session a NoiseSessionManager keeps with one peer (noise_session.rs)*)
(* and its operations, as operators on the session record.                 *)
(*                                                                         *)
(* The code never puts a session in state Failed, and through the packet   *)
(* handlers a session always has a handshake state from the moment it is   *)
(* created, so "None" (no entry in the map), "Handshaking" and             *)
(* "Established" are the states that occur.                                *)
(***************************************************************************)
EXTENDS NoiseHandshake, NoiseCipher, Sequences

NoHandshake == NewHandshake("Initiator")
NoCipher    == NewCipher([i |-> NoKey, r |-> NoKey, direction |-> 0])

NoSession ==
    [state |-> "None", handshake |-> NoHandshake, send |-> NoCipher,
     receive |-> NoCipher, pending |-> <<>>]

HasSession(s)    == s.state # "None"
IsEstablished(s) == s.state = "Established"

(* create_session: an established session is kept; of any other one only    *)
(* the handshake state is replaced, its pending messages stay.              *)
CreateSession(s, role) ==
    IF IsEstablished(s) THEN s
    ELSE [s EXCEPT !.state = "Handshaking",
                   !.handshake = NewHandshake(role)]

StorePendingFirst(s, dm) == [s EXCEPT !.pending = <<dm>> \o @]   \* mutant
StorePending(s, dm) == [s EXCEPT !.pending = Append(@, dm)]

RemoveSession == NoSession

(* initiate_handshake writes the next message of whatever handshake is in   *)
(* progress; on an error the session keeps the handshake the failed write   *)
(* left behind.                                                             *)
InitiateHandshake(s, fresh) ==
    [s EXCEPT !.handshake = AfterWrite(@, fresh)]

Establish(s, hs) ==
    [s EXCEPT !.state = "Established",
              !.handshake = NoHandshake,
              !.send = NewCipher(SendKey(hs)),
              !.receive = NewCipher(RecvKey(hs))]

(***************************************************************************)
(* handle_incoming_handshake and process_handshake_message on a session    *)
(* that exists.  result is "Ignored" (established already), "Failed" (an   *)
(* error), "Done" (established by reading) or "Response" (a message to     *)
(* send, which may have completed the handshake as well).                  *)
(***************************************************************************)
IncomingResult(s, msg) ==
    CASE IsEstablished(s) -> "Ignored"
      [] ~IsEstablished(s) /\ ~CanRead(s.handshake, msg) -> "Failed"
      [] ~IsEstablished(s) /\ CanRead(s.handshake, msg) ->
           LET read == AfterRead(s.handshake, msg)
           IN  IF IsHandshakeComplete(read) THEN "Done"
               ELSE IF CanWrite(read) THEN "Response"
               ELSE "Failed"

IncomingResponse(s, msg, fresh) ==
    WrittenMessage(AfterRead(s.handshake, msg), fresh)

AfterIncoming(s, msg, fresh) ==
    LET read    == AfterRead(s.handshake, msg)
        written == AfterWrite(read, fresh)
    IN  CASE IncomingResult(s, msg) = "Ignored" -> s
          [] IncomingResult(s, msg) = "Done" -> Establish(s, read)
          [] IncomingResult(s, msg) = "Response" ->
               IF IsHandshakeComplete(written)
               THEN Establish(s, written)
               ELSE [s EXCEPT !.handshake = written]
          [] IncomingResult(s, msg) = "Failed" ->
               [s EXCEPT !.handshake =
                    IF CanRead(s.handshake, msg) THEN written ELSE read]

(* Whether a response draws an ephemeral key that its message carries. *)
ResponseDrawsKey(s, msg) ==
    /\ IncomingResult(s, msg) = "Response"
    /\ NeedsEphemeral(AfterRead(s.handshake, msg))
    /\ AfterRead(s.handshake, msg).honest

(* encrypt_message and decrypt_message of an established session. *)
AfterEncryptionOfCopy(s) == s       \* mutant: a clone of the cipher encrypts
AfterEncryption(s) == [s EXCEPT !.send = AfterEncrypt(@)]
AfterDecryption(s, ct) == [s EXCEPT !.receive = AfterDecrypt(@, ct)]

(* The id of a message is a uuid drawn when it is encrypted.  It is as new  *)
(* as the key and nonce the message is sealed under, and named by the two.  *)
MessageId(c) == [key |-> c.key, nonce |-> c.nonce]
PrivateMessage(c, dm) ==
    Sealed(c, [type |-> "message", dm |-> dm, id |-> MessageId(c)])
ReadAck(c, id)      == Sealed(c, [type |-> "read", id |-> id])    \* mutant
DeliveredAck(c, id) == Sealed(c, [type |-> "delivered", id |-> id])

(***************************************************************************)
(* send_pending_messages: the queue is taken and emptied, the messages     *)
(* older than PENDING_MESSAGE_MAX_AGE (the first expired of them, since    *)
(* the queue is in the order of its timestamps) are dropped, and the rest  *)
(* is encrypted one by one.                                                *)
(***************************************************************************)
FlushedMessagesSkipping(s, expired) ==   \* mutant: one too many is dropped
    SubSeq(s.pending, expired + 2, Len(s.pending))
FlushedMessages(s, expired) == SubSeq(s.pending, expired + 1, Len(s.pending))

FlushedCiphertexts(s, expired) ==
    LET unexpired == FlushedMessages(s, expired)
    IN  [i \in 1..Len(unexpired) |->
            PrivateMessage([s.send EXCEPT !.nonce = @ + i - 1], unexpired[i])]

AfterFlushUntaken(s, expired) ==         \* mutant: the queue is not emptied
    [s EXCEPT !.send.nonce = @ + Len(FlushedMessages(s, expired))]
AfterFlushHead(s, expired) ==            \* mutant: only the head is taken
    [s EXCEPT !.pending = SubSeq(@, 2, Len(@)),
              !.send.nonce = @ + Len(FlushedMessages(s, expired))]
AfterFlush(s, expired) ==
    [s EXCEPT !.pending = <<>>,
              !.send.nonce = @ + Len(FlushedMessages(s, expired))]
=============================================================================
