--------------------------- MODULE MCUDPTransport ---------------------------
(* Two queries, one of them with a large buffer, share two connections and   *)
(* few identifiers.                                                         *)
EXTENDS UDPTransport
=============================================================================
