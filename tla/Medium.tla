--------------------------------- MODULE Medium ---------------------------------
(***************************************************************************)
(* The packets on their way from one peer to another.                      *)
(*                                                                         *)
(* Over the mesh a packet is written once per link, queued for every       *)
(* subscriber of our own peripheral and relayed by others, so what was     *)
(* sent may arrive in any order, any number of times, or never: the medium *)
(* is the set of everything sent.  Over one direct link the writes of one  *)
(* peer arrive once, in order: the medium is a queue.                      *)
(***************************************************************************)
EXTENDS Sequences, Integers

CONSTANT Ordered    \* TRUE: one direct link; FALSE: a mesh of links

ASSUME OrderedAssumption == Ordered \in BOOLEAN

Elements(packets) == {packets[i] : i \in 1..Len(packets)}

EmptyMedium == IF Ordered THEN <<>> ELSE {}

(* Everything the medium holds, and everything one packet of it may be. *)
Contents(m) == IF Ordered THEN Elements(m) ELSE m

Transmit(m, packets) ==
    IF Ordered THEN m \o packets ELSE m \cup Elements(packets)

(* The packets that may be the next to arrive, and the medium after that. *)
Arrivals(m) == IF Ordered THEN {m[1] : i \in 1..Len(m)} ELSE m
AfterArrival(m) == IF Ordered THEN Tail(m) ELSE m
=============================================================================
