--------------------------- MODULE MCWebhookStore ---------------------------
(* Small instances of WebhookStore: h1 and h2 belong to alice, h3 to bob. *)
EXTENDS WebhookStore

CONSTANTS h1, h2, h3, alice, bob

MCOwnerOf == [h \in Hooks |-> IF h = h3 THEN bob ELSE alice]
=============================================================================
