----------------------------- MODULE Fragmentation -----------------------------
(***************************************************************************)
(* A packet of more than 500 bytes travels as fragments of 150 bytes       *)
(* (fragmentation.rs) and is put together again by the FragmentCollector   *)
(* of whoever receives them (data_structures.rs, handle_fragment_packet).  *)
(*                                                                         *)
(* The sender writes the packet to one link after the other, a file to one *)
(* link only, to each under a fragment id of its own and with a pause      *)
(* after every fragment, during which receivers run.  What was written may *)
(* arrive in any order and any number of times: receivers relay fragments. *)
(* (They do so over the link the fragment came from only, and a peer       *)
(* ignores packets of its own, so the relayed copies add nothing but       *)
(* repetitions.)                                                           *)
(*                                                                         *)
(* The peripheral role, which exists on Windows only, is left out.         *)
(***************************************************************************)
EXTENDS Integers, Sequences, FiniteSets

CONSTANTS
    Packet,         \* packets of more than 500 bytes, each sent at most once
    Type,           \* Type[k]: the message type of packet k
    Chunks,         \* Chunks[k]: number of 150-byte chunks of packet k
    Links,          \* number of central links of the sender
    MaxFragments,   \* fragments a receiver accepts per packet: 10000
    FilterErrs      \* packets the duplicate filter may take for known ones

MessageTypes == {"Message", "FileTransfer", "NoiseEncrypted"}

ASSUME TypeAssumption   == Type \in [Packet -> MessageTypes]
ASSUME LinksAssumption  == Links \in Nat \ {0}
ASSUME FilterAssumption == FilterErrs \subseteq Packet
(* More than 500 bytes are at least 4 chunks; a file has at most 1 MiB,      *)
(* which is below 10000 chunks.                                              *)
ASSUME ChunksAssumption ==
    /\ MaxFragments \in Nat
    /\ Chunks \in [Packet -> 2..MaxFragments]

VARIABLES
    sending,    \* the send in progress: packet, link, next index, any link ok
    outcome,    \* outcome[k]: what the send of k returned
    wire,       \* fragments that were written, and may arrive
    collector,  \* collector[id]: chunks the receiver holds of a fragment id
    bloom,      \* message ids in the receiver's duplicate filter
    shown,      \* packets whose message or file reached the receiver's user
    assembled   \* history: the reassembled data, with the id it came under

vars == <<sending, outcome, wire, collector, bloom, shown, assembled>>
senderVars   == <<sending, outcome, wire>>
receiverVars == <<collector, bloom, shown, assembled>>

(* The random fragment id is drawn once per link. *)
FragmentIds == [packet : Packet, link : 1..Links]
Chunk(k, i) == [packet |-> k, number |-> i]
Whole(k)    == [i \in 0..Chunks[k] - 1 |-> Chunk(k, i)]

FragmentAt(k, link, i) ==
    [id |-> [packet |-> k, link |-> link], index |-> i, total |-> Chunks[k],
     data |-> Chunk(k, i)]
FragmentsOf(k, link) == {FragmentAt(k, link, i) : i \in 0..Chunks[k] - 1}

NothingHeld == [i \in {} |-> 0]

Idle == [busy |-> FALSE]
SendTo(k, link, ok) ==
    [busy |-> TRUE, packet |-> k, link |-> link, index |-> 0, ok |-> ok]

Init ==
    /\ sending = Idle
    /\ outcome = [k \in Packet |-> "none"]
    /\ wire = {}
    /\ collector = [id \in FragmentIds |-> NothingHeld]
    /\ bloom = {}
    /\ shown = <<>>
    /\ assembled = {}

-----------------------------------------------------------------------------
(* send_packet_to_mesh_targets over send_packet_with_fragmentation_as.       *)

StartSend(k) ==
    /\ ~sending.busy /\ outcome[k] = "none"
    /\ sending' = SendTo(k, 1, FALSE)
    /\ UNCHANGED <<outcome, wire, receiverVars>>

(* handle_file_command sends over the first link only.                      *)
LastLink(k) == IF Type[k] = "FileTransfer" THEN 1 ELSE Links

(* The link is done, with or without an error; the send as a whole is Ok if *)
(* any link took all of the packet.                                         *)
AnyFragmentOk(ok, linkOk) == TRUE    \* mutant: errors of a link are forgotten
SentAny(ok, linkOk) == ok \/ linkOk

EndLink(linkOk) ==
    LET ok == SentAny(sending.ok, linkOk)
    IN  IF sending.link < LastLink(sending.packet)
        THEN /\ sending' = SendTo(sending.packet, sending.link + 1, ok)
             /\ UNCHANGED outcome
        ELSE /\ sending' = Idle
             /\ outcome' = [outcome EXCEPT ![sending.packet] =
                               IF ok THEN "Ok" ELSE "Err"]

WriteFragment ==
    /\ sending.busy
    /\ wire' = wire \cup {FragmentAt(sending.packet, sending.link, sending.index)}
    /\ IF sending.index + 1 < Chunks[sending.packet]
       THEN /\ sending' = [sending EXCEPT !.index = @ + 1]
            /\ UNCHANGED outcome
       ELSE EndLink(TRUE)
    /\ UNCHANGED receiverVars

(* A write error gives up on the link, however much of the packet it took.  *)
WriteFails ==
    /\ sending.busy
    /\ EndLink(FALSE)
    /\ UNCHANGED <<wire, receiverVars>>

-----------------------------------------------------------------------------
(* FragmentCollector.add_fragment, as operators on the chunks held under an *)
(* id (none is the same as no entry).                                       *)

PutAbove(held, f) ==    \* mutant: indices are taken to count from one
    [i \in DOMAIN held \cup {f.index + 1} |->
        IF i = f.index + 1 THEN f.data ELSE held[i]]
PutLast(held, f) ==     \* mutant: stored in order of arrival
    LET next == Cardinality(DOMAIN held)
    IN  [i \in DOMAIN held \cup {next} |-> IF i = next THEN f.data ELSE held[i]]
Put(held, f) ==
    [i \in DOMAIN held \cup {f.index} |-> IF i = f.index THEN f.data ELSE held[i]]

CompletesEarly(held, f) ==  \* mutant: off by one
    Cardinality(DOMAIN Put(held, f)) = f.total - 1
Completes(held, f) == Cardinality(DOMAIN Put(held, f)) = f.total

Indices(f) == 0..f.total - 1
NoneMissing(held, f) == Indices(f) \subseteq DOMAIN Put(held, f)
Reassembled(held, f) == [i \in Indices(f) |-> Put(held, f)[i]]

KeptAfter(held) == held     \* mutant: the entry is not removed
HeldAfter(held) == NothingHeld

(* What handle_fragment_packet does with the packet that was put together:  *)
(* only messages and files have a branch there, each behind the duplicate   *)
(* filter, which may take a new id for a known one; a packet of any other   *)
(* type is dropped.                                                         *)
HasBranch(k) == Type[k] \in {"Message", "FileTransfer"}
IsNewAlways(k) == TRUE      \* mutant: the filter is not consulted
IsNew(k) == k \notin bloom

HandleReassembled(data) ==
    \/ \E k \in Packet :
          /\ data = Whole(k) /\ HasBranch(k) /\ IsNew(k)
          /\ bloom' = bloom \cup {k}
          /\ shown' = Append(shown, k)
    \/ /\ \/ \E k \in FilterErrs : data = Whole(k)
          \/ ~\E k \in Packet : data = Whole(k) /\ HasBranch(k) /\ IsNew(k)
       /\ UNCHANGED <<bloom, shown>>

HandleFragment(f) ==
    /\ f \in wire
    /\ f.total # 0 /\ f.total <= MaxFragments /\ f.index < f.total
    /\ LET held == collector[f.id]
       IN  IF Completes(held, f) /\ NoneMissing(held, f)
           THEN /\ collector' = [collector EXCEPT ![f.id] = HeldAfter(Put(held, f))]
                /\ assembled' = assembled \cup
                       {[id |-> f.id, data |-> Reassembled(held, f)]}
                /\ HandleReassembled(Reassembled(held, f))
           ELSE /\ collector' = [collector EXCEPT ![f.id] = Put(held, f)]
                /\ UNCHANGED <<bloom, shown, assembled>>
    /\ UNCHANGED senderVars

-----------------------------------------------------------------------------
Next ==
    \/ \E k \in Packet : StartSend(k)
    \/ WriteFragment
    \/ WriteFails
    \/ \E f \in wire : HandleFragment(f)

Spec == Init /\ [][Next]_vars

(* The sender's loop goes on, and what a link accepted arrives: a BLE link  *)
(* that is up delivers its writes, and the main loop drains its queue.      *)
FairSpec ==
    /\ Spec
    /\ WF_vars(WriteFragment \/ WriteFails)
    /\ \A k \in Packet : \A link \in 1..Links : \A i \in 0..Chunks[k] - 1 :
          WF_vars(HandleFragment(FragmentAt(k, link, i)))

-----------------------------------------------------------------------------
(* Type invariant: the fragments on the wire are those of the packets, and   *)
(* the collector holds chunks by index.                                      *)
BusySends ==
    [busy : {TRUE}, packet : Packet, link : 1..Links, index : Nat, ok : BOOLEAN]
Sending == {Idle} \cup BusySends

TypeOK ==
    /\ sending \in Sending
    /\ sending.busy => sending.index < Chunks[sending.packet]
    /\ outcome \in [Packet -> {"none", "Ok", "Err"}]
    /\ \A f \in wire : \E k \in Packet : \E link \in 1..Links : f \in FragmentsOf(k, link)
    /\ DOMAIN collector = FragmentIds
    /\ \A id \in FragmentIds : DOMAIN collector[id] \subseteq 0..Chunks[id.packet] - 1
    /\ bloom \subseteq Packet
    /\ shown \in Seq(Packet)

(* Whatever is put together is one packet, whole and in order, although      *)
(* fragments of several packets and of several copies of one arrive mixed,   *)
(* reordered and repeated (add_fragment keys them by id and index).          *)
ReassembledIsIntact ==
    \A a \in assembled : a.data = Whole(a.id.packet)

(* Nothing complete is left lying in the collector: the fragment that        *)
(* arrives last, whichever it is, completes the packet.                      *)
NothingCompleteIsHeld ==
    \A id \in FragmentIds : DOMAIN collector[id] # 0..Chunks[id.packet] - 1

(* A message is shown once, though each link carries a copy of its own and   *)
(* the copies may be put together several times each.                        *)
ShownOnce ==
    \A i, j \in 1..Len(shown) : shown[i] = shown[j] => i = j

(* Ok means that some link took the whole packet; an error, that none did,   *)
(* though fragments of it may be on their way.                               *)
OutcomeIsTrue ==
    \A k \in Packet :
        outcome[k] # "none" =>
            (outcome[k] = "Ok" <=> \E link \in 1..Links : FragmentsOf(k, link) \subseteq wire)

(* A message or a file whose send returned Ok is shown in the end, whatever  *)
(* other links failed and whatever was left of them in the collector.  Those *)
(* the duplicate filter may err about (FilterErrs) are excepted.             *)
SentIsShown ==
    \A k \in Packet :
        (HasBranch(k) /\ k \notin FilterErrs) =>
            (outcome[k] = "Ok" ~> \E i \in 1..Len(shown) : shown[i] = k)
=============================================================================
