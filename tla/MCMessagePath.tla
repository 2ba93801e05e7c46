---------------------------- MODULE MCMessagePath ----------------------------
(***************************************************************************)
(* MessagePath on a small instance.                                        *)
(***************************************************************************)
EXTENDS MessagePath

CONSTANTS p1, handshake, data, sender1, sender2

MCPeerOf == [s \in Streams |-> p1]
MCCallers == Senders \cup {Forwarder}
=============================================================================
