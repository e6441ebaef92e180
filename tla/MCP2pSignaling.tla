--------------------------- MODULE MCP2pSignaling ---------------------------
(* Small instances of P2pSignaling. *)
EXTENDS P2pSignaling

MCSymmetry ==
    Permutations(Conns) \cup Permutations(Peers) \cup Permutations(Rooms) \cup Permutations(Codes)
=============================================================================
