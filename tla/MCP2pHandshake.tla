--------------------------- MODULE MCP2pHandshake ---------------------------
(* Small instances of P2pHandshake. *)
EXTENDS P2pHandshake

MCSymmetry == Permutations(Conns) \cup Permutations(Peers)
=============================================================================
