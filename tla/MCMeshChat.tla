------------------------------- MODULE MCMeshChat -------------------------------
(* Model checking of MeshChat: packets of every kind, from two senders.        *)
EXTENDS MeshChat

CONSTANTS a, b

Packet(id, type, from, locked, cover) ==
    [id |-> id, type |-> type, from |-> from, locked |-> locked, cover |-> cover]
MCPackets ==
    {Packet("message", "channel", a, TRUE, FALSE), Packet("direct", "private", a, FALSE, FALSE),
     Packet("news", "public", b, FALSE, FALSE),
     Packet("dummy", "private", a, FALSE, TRUE), Packet("line", "text", b, FALSE, FALSE),
     Packet("noise", "text", a, FALSE, TRUE), Packet("through", "transit", b, FALSE, FALSE),
     Packet("sealed", "noise", a, FALSE, FALSE),
     Packet("picture", "file", a, FALSE, FALSE), Packet("hello", "announce", b, FALSE, FALSE),
     Packet("bye", "leave", a, FALSE, FALSE), Packet("keys", "key", a, FALSE, FALSE),
     Packet("others", "key", b, FALSE, FALSE),
     Packet("lock", "protect", a, FALSE, FALSE), Packet("unlock", "open", a, FALSE, FALSE)}
MCConfused == {"line"}
=============================================================================
