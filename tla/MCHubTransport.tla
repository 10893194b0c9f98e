--------------------------- MODULE MCHubTransport ---------------------------
(* Sequences of two values; the Node's acceptances and responses for either, *)
(* refusals for the first, an event, and noise                              *)
EXTENDS HubTransport

Answer(type, seq, op, body) == Packet(type, Node, Hub, seq, op, body, 0)

MCInbound ==
    {[type |-> "EVENT"], [type |-> "BAD"]}
    \cup {Answer("ACK", s, op, "SUCCESS") : s \in Sequences8, op \in {"TEST", "PING"}}
    \cup {Answer("ACK", 0, "TEST", b) : b \in {"UNSUPPORTED_OPCODE", "UNDEFINED"}}
    \cup {Answer("ACK", 0, "PING", "UNSUPPORTED_OPCODE")}
    \cup {Answer("RESPONSE", s, "PING", "OK") : s \in Sequences8}
=============================================================================
