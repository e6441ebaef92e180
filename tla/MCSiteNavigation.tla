-------------------------- MODULE MCSiteNavigation --------------------------
(* Every slug any table knows, and one nobody knows, may be typed.        *)
EXTENDS SiteNavigation

MCBookmarks == DOMAIN RouteAliases \cup DOMAIN PageRegistry \cup DOMAIN ToolDefinitions \cup StaticPages \cup {"", "nowhere"}
=============================================================================
