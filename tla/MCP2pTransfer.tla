--------------------------- MODULE MCP2pTransfer ----------------------------
(* Small instances of P2pTransfer: f1 has five chunks, f2 none, f3 two. *)
EXTENDS P2pTransfer

CONSTANTS b1, b2, f1, f2, f3

MCChunkCount == [f \in Files |-> CASE f = f1 -> 5 [] f = f2 -> 0 [] f = f3 -> 2]
\* One call with all files, or f1 in one call and the rest in another.
MCOneCall == (b1 :> <<f1, f2, f3>>)
MCTwoCalls == (b1 :> <<f1>>) @@ (b2 :> <<f2, f3>>)
=============================================================================
