--------------------------- MODULE MCNodeTransport ---------------------------
(* Commands of the Hub with two sequences, a malformed one, a packet for     *)
(* somebody else, and noise                                                 *)
EXTENDS NodeTransport

Command(seq, op, body) == Packet("COMMAND", Peer, Me, seq, op, body, 0)

MCInbound ==
    {[type |-> "BAD"], Packet("ACK", Peer, Me, 0, "TEST", "SUCCESS", 0),
     Command(0, "TEST", "NONE"), Command(0, "PING", "BAD")}
    \cup {Command(s, "PING", "NONE") : s \in Sequences8}
=============================================================================
