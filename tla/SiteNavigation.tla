--------------------------- MODULE SiteNavigation ---------------------------
(***************************************************************************)
(* Moving about the site. An address is either served by the server, which *)
(* resolves it with its own aliases and registry and renders a page for it, *)
(* or taken over by the script of a tool page, which resolves it with the  *)
(* browser's aliases and definitions, switches the tool in place and pushes *)
(* the address on the history of the document. Back and forward only tell  *)
(* the script that the address has changed.                                *)
(*                                                                         *)
(* Addresses are slugs without their slash; "" is the landing page. Assets *)
(* and the API, which are served before the pages, are left out.           *)
(***************************************************************************)
EXTENDS ToolRegistry, Naturals, Sequences

CONSTANTS Bookmarks,    \* the addresses a visitor may type or have bookmarked
          MaxTrail      \* bound on the entries one document has in its history

ASSUME NavAssumption == MaxTrail \in Nat \ {0}

VARIABLES page,         \* the page the server rendered: its kind, and the tool it is for
          active,       \* the active tool of the page's script, or NoTool until it has run
          trail,        \* the history of the document
          entry,        \* the entry it is at
          via           \* how the document was reached: typed, a link of the site, the sitemap

navVars == <<page, active, trail, entry, via>>

NoTool == "no tool"
StaticPages == {"pricing", "privacy", "terms", "security"}
NoPage == [kind |-> "missing", for |-> NoTool]

(* What the server renders for an address. *)
Served(path) ==
    CASE path \in StaticPages -> [kind |-> path, for |-> NoTool]
      [] path = "" -> [kind |-> "home", for |-> NoTool]
      [] ServerResolve(path) \in DOMAIN PageRegistry -> [kind |-> "tool", for |-> ServerResolve(path)]
      [] OTHER -> NoPage

Address == trail[entry]
Booted == active # NoTool
Known(slug) == ClientResolve(slug) \in DOMAIN ToolDefinitions
-----------------------------------------------------------------------------
(* The links of the pages. *)

CatalogueCore ==
    {"merge-pdf", "split-pdf", "compress-pdf", "rotate-pdf", "organize-pages", "crop-pdf", "extract-pages", "flatten-pdf",
     "repair-pdf", "pdf-to-jpg", "jpg-to-pdf", "word-to-pdf", "pdf-to-word", "excel-to-pdf", "pdf-to-excel", "markdown-to-pdf",
     "pdf-to-markdown"}
CatalogueRest ==
    {"edit-pdf", "add-watermark", "page-numbers", "redact-pdf", "encrypt-pdf", "remove-password", "privacy-scanner",
     "draw-signature", "p2p-share", "chat-with-pdf", "summarize-pdf", "ocr-pdf", "extract-tables", "compare-pdfs",
     "gst-invoice", "pos-billing", "tax-receipt", "estimate-maker"}

MenuCore ==
    {"merge-pdf", "split-pdf", "compress-pdf", "delete-pdf-pages", "rotate-pdf", "crop-pdf", "extract-pages", "flatten-pdf",
     "repair-pdf", "edit-pdf", "pdf-to-word", "word-to-pdf", "pdf-to-excel", "excel-to-pdf", "jpg-to-pdf", "pdf-to-jpg",
     "markdown-to-pdf", "pdf-to-markdown"}
MenuRest ==
    {"draw-signature", "protect-pdf", "unlock-pdf", "watermark-pdf", "page-numbers-pdf", "strip-metadata-pdf", "redact-pdf",
     "p2p-share", "chat-with-pdf", "ai-summarize", "ai-extract-table", "ocr-pdf", "compare-pdf", "gst-invoice", "clean-billing",
     "tax-receipt", "estimate-maker", "", "pricing"}
Footer == {"", "merge-pdf", "gst-invoice", "chat-with-pdf", "ocr-pdf", "pricing", "privacy", "security", "terms"}
Spotlights == {"merge-pdf", "gst-invoice", "p2p-share", "pricing"}
Suggestions ==
    {"", "merge-pdf", "split-pdf", "compress-pdf", "gst-invoice", "pos-billing", "tax-receipt", "estimate-maker", "flatten-pdf",
     "chat-with-pdf"}

(* The sitemap: the landing page, the prices and every tool, each in every  *)
(* language; the first needs no prefix.                                    *)
Locales == {"es", "fr", "de", "hi", "ja"}
Localized(locale, path) == IF path = "" THEN locale ELSE locale \o "/" \o path
SitemapPaths == {"", "pricing"} \cup DOMAIN PageRegistry
Sitemap == SitemapPaths \cup {Localized(locale, path) : locale \in Locales, path \in SitemapPaths}

(* The related tools of a page as the server renders it: known slugs only. *)
RelatedTable ==
    ("p2p-share" :> {"draw-signature", "protect-pdf", "compress-pdf", "merge-pdf"}) @@
    ("crop-pdf" :> {"split-pdf", "rotate-pdf", "compress-pdf", "merge-pdf"}) @@
    ("edit-pdf" :> {"draw-signature", "sign-pdf", "flatten-pdf", "protect-pdf"}) @@
    ("pdf-to-word" :> {"word-to-pdf", "compress-pdf", "ocr-pdf", "protect-pdf"}) @@
    ("word-to-pdf" :> {"pdf-to-word", "compress-pdf", "merge-pdf", "protect-pdf"}) @@
    ("pdf-to-excel" :> {"excel-to-pdf", "ai-extract-table", "pdf-to-word", "compress-pdf"}) @@
    ("excel-to-pdf" :> {"pdf-to-excel", "word-to-pdf", "compress-pdf", "merge-pdf"}) @@
    ("merge-pdf" :> {"split-pdf", "compress-pdf", "rotate-pdf", "pdf-to-word"}) @@
    ("split-pdf" :> {"merge-pdf", "extract-pages", "delete-pdf-pages", "compress-pdf"}) @@
    ("compress-pdf" :> {"merge-pdf", "pdf-to-word", "protect-pdf", "redact-pdf"}) @@
    ("protect-pdf" :> {"unlock-pdf", "watermark-pdf", "redact-pdf", "sign-pdf"}) @@
    ("unlock-pdf" :> {"protect-pdf", "compress-pdf", "pdf-to-word", "merge-pdf"}) @@
    ("ai-ask" :> {"ai-summarize", "ai-extract-table", "ocr-pdf", "pdf-to-word"}) @@
    ("ai-summarize" :> {"ai-ask", "ai-extract-table", "ocr-pdf", "compress-pdf"}) @@
    ("ocr-pdf" :> {"pdf-to-word", "ai-ask", "compress-pdf", "compare-pdf"}) @@
    ("redact-pdf" :> {"protect-pdf", "strip-metadata-pdf", "flatten-pdf", "watermark-pdf"}) @@
    ("draw-signature" :> {"p2p-share", "sign-pdf", "flatten-pdf", "protect-pdf"}) @@
    ("pdf-to-markdown" :> {"markdown-to-pdf", "pdf-to-word", "ai-summarize", "ocr-pdf"}) @@
    ("markdown-to-pdf" :> {"pdf-to-markdown", "word-to-pdf", "compress-pdf", "merge-pdf"}) @@
    ("gst-invoice-pdf" :> {"sign-pdf", "protect-pdf", "pdf-to-excel", "compress-pdf"})
AnyRelated == {"merge-pdf", "pdf-to-word", "compress-pdf", "ai-ask"}
RelatedPages(key) ==
    {k \in IF key \in DOMAIN RelatedTable THEN RelatedTable[key] ELSE AnyRelated : k \in DOMAIN PageRegistry}

(* The related tools the script puts in their place when it switches. *)
DetailTable ==
    ("merge-pdf" :> {"split-pdf", "compress-pdf", "rotate-pdf", "pdf-to-word"}) @@
    ("split-pdf" :> {"merge-pdf", "extract-pages", "delete-pdf-pages", "compress-pdf"}) @@
    ("compress-pdf" :> {"merge-pdf", "pdf-to-word", "protect-pdf", "redact-pdf"}) @@
    ("pdf-to-word" :> {"word-to-pdf", "compress-pdf", "ocr-pdf", "protect-pdf"}) @@
    ("word-to-pdf" :> {"pdf-to-word", "compress-pdf", "merge-pdf", "protect-pdf"}) @@
    ("ai-ask" :> {"ai-summarize", "ai-extract-table", "ocr-pdf", "pdf-to-word"}) @@
    ("ai-summarize" :> {"ai-ask", "ai-extract-table", "compress-pdf", "pdf-to-word"}) @@
    ("ocr-pdf" :> {"pdf-to-word", "ai-ask", "compress-pdf", "word-to-pdf"}) @@
    ("protect-pdf" :> {"unlock-pdf", "watermark-pdf", "redact-pdf", "sign-pdf"})
BusinessDetailTable ==
    ("pdf-to-markdown" :> {"markdown-to-pdf", "pdf-to-word", "ai-extract-table", "ocr-pdf"}) @@
    ("markdown-to-pdf" :> {"pdf-to-markdown", "word-to-pdf", "compress-pdf", "protect-pdf"}) @@
    ("gst-invoice-pdf" :> {"pdf-to-excel", "ai-extract-table", "draw-signature", "sign-pdf"}) @@
    ("pos-billing" :> {"gst-invoice-pdf", "tax-receipt", "estimate-maker", "compress-pdf"}) @@
    ("tax-receipt" :> {"gst-invoice-pdf", "pos-billing", "estimate-maker", "sign-pdf"}) @@
    ("estimate-maker" :> {"gst-invoice-pdf", "pos-billing", "tax-receipt", "pdf-to-word"}) @@
    ("crop-pdf" :> {"split-pdf", "merge-pdf", "compress-pdf", "rotate-pdf"}) @@
    ("edit-pdf" :> {"draw-signature", "sign-pdf", "flatten-pdf", "protect-pdf"}) @@
    ("p2p-share" :> {"protect-pdf", "strip-metadata-pdf", "merge-pdf", "draw-signature"})
Detailed == DetailTable @@ BusinessDetailTable
Details == Detailed @@ [a \in {k \in DOMAIN ToolAliases : ToolAliases[k] \in DOMAIN Detailed} |-> Detailed[ToolAliases[a]]]
RelatedTools(key) ==
    {k \in IF key \in DOMAIN Details THEN Details[key] ELSE {"merge-pdf", "compress-pdf", "pdf-to-word", "protect-pdf"} :
        k \in DOMAIN ToolDefinitions}

(* The chips a finished operation offers. *)
NextSteps ==
    {"markdown-to-pdf", "pdf-to-markdown", "pdf-to-word", "compress-pdf", "protect-pdf", "draw-signature", "merge-pdf",
     "ai-summarize", "ai-extract-table"}

(* Every tab of the script is a definition, aliases among them. *)
Tabs == DOMAIN ToolDefinitions

PageLinks ==
    Footer \cup
    CASE page.kind = "home" -> CatalogueCore \cup CatalogueRest \cup Spotlights
      [] page.kind = "tool" -> MenuCore \cup MenuRest \cup (IF Booted THEN {} ELSE RelatedPages(page.for))
      [] page.kind = "missing" -> MenuCore \cup MenuRest \cup Suggestions
      [] OTHER -> MenuCore \cup MenuRest

ScriptLinks == IF Booted THEN Tabs \cup RelatedTools(active) \cup NextSteps ELSE {}
-----------------------------------------------------------------------------
NavTypeOK ==
    /\ page \in [kind: StaticPages \cup {"home", "tool", "missing"}, for: DOMAIN PageRegistry \cup {NoTool}]
    /\ active \in DOMAIN ToolDefinitions \cup {NoTool}
    /\ Len(trail) \in 1 .. MaxTrail
    /\ entry \in DOMAIN trail
    /\ via \in {"typed", "link", "sitemap"}

(* A new document. *)
Load(path, how) ==
    /\ page' = Served(path)
    /\ active' = NoTool
    /\ trail' = <<path>>
    /\ entry' = 1
    /\ via' = how

NavInit ==
    /\ page = Served("")
    /\ active = NoTool
    /\ trail = <<"">>
    /\ entry = 1
    /\ via = "typed"

(* An address is typed, or the document reloaded. *)
Visit == \E path \in Bookmarks \cup {Address} : Load(path, "typed")

(* A plain link of the page: the server is asked for it. *)
Follow == \E path \in PageLinks : Load(path, "link")

(* A search engine takes an address from the sitemap. *)
Crawl == \E path \in Sitemap : Load(path, "sitemap")

(* DOMContentLoaded: the script starts with the tool of the address, or    *)
(* with merge-pdf if it does not know it.                                  *)
Boot ==
    /\ page.kind = "tool"
    /\ ~Booted
    /\ active' = IF Known(Address) THEN ClientResolve(Address) ELSE "merge-pdf"
    /\ UNCHANGED <<page, trail, entry, via>>

(* switchTool on an address of the page's own: the entries ahead of the    *)
(* current one are lost.                                                   *)
PushAddress(path) == trail' = Append(SubSeq(trail, 1, entry), path) /\ entry' = entry + 1

Switch ==
    \E key \in ScriptLinks :
        IF Known(key)
            THEN /\ active' = ClientResolve(key)
                 /\ IF key = Address THEN UNCHANGED <<trail, entry>> ELSE entry < MaxTrail /\ PushAddress(key)
                 /\ UNCHANGED <<page, via>>
            ELSE Load(key, "link")

(* Slip: popstate redraws the address only. *)
PopStateBlind ==
    /\ Booted
    /\ entry' \in DOMAIN trail \ {entry}
    /\ UNCHANGED <<page, active, trail, via>>

(* Back or forward within the document: popstate switches without pushing, *)
(* and leaves the tool alone when the address is not one of the script's.  *)
PopState ==
    /\ Booted
    /\ entry' \in DOMAIN trail \ {entry}
    /\ active' = IF Known(trail[entry']) THEN ClientResolve(trail[entry']) ELSE active
    /\ UNCHANGED <<page, trail, via>>

NavNext == Visit \/ Follow \/ Crawl \/ Boot \/ Switch \/ PopState

NavSpec == NavInit /\ [][NavNext]_navVars
-----------------------------------------------------------------------------
SameUse(c, d) ==
    /\ c.mode = d.mode
    /\ c.input = d.input
    /\ c.mode # "processor" => c.studio = d.studio
    /\ RequiresInputFile(c) => c.many = d.many

(* However the visitor clicks, goes back and goes forward, the tool on the *)
(* screen is the one the address names, if it names one the script knows   *)
(* (switchTool and popstate).                                              *)
ToolIsTheAddressed == Booted /\ Known(Address) => active = ClientResolve(Address)

(* The document, its history and its tool fit each other wherever the       *)
(* visitor goes (app.js:274-310, 896-916).                                  *)
NavIsSound == NavTypeOK /\ ToolIsTheAddressed

(* Whatever the script has put in the address bar, reloading or sharing it *)
(* leads to a page for the same use: the server's aliases and contracts    *)
(* agree with the browser's (getToolContract, getClientToolContract).      *)
AddressCanBeShared ==
    Booted /\ Known(Address) =>
        /\ Served(Address).kind = "tool"
        /\ SameUse(ServerContract(Served(Address).for), ClientContract(active))

(* Someone who only follows the links of the site never meets the page for *)
(* unknown addresses.                                                      *)
NoDeadLinks == via = "link" => page.kind # "missing"

(* A tool that takes a file can always be sent to the worker: there is a   *)
(* processor for the operation under the tool's own key.                   *)
OperationsHaveProcessors == Booted /\ RequiresInputFile(ClientContract(active)) => active \in Processors

(* The browser, the server and the worker mean the same by every address    *)
(* and tool the script can show (app.js:77, seo.ts:936, job-runner.js:50).  *)
TablesAgree == AddressCanBeShared /\ OperationsHaveProcessors

(* "Dynamically generated XML sitemap incorporating all 27 tools across    *)
(* all 6 supported languages" (ADR-0003:29): what the sitemap lists, the   *)
(* server has a page for.                                                  *)
SitemapIsServed == via = "sitemap" => page.kind # "missing"

(* The page starts as the tool the server rendered it for.                 *)
StartsAsServed ==
    [][Boot => SameUse(ServerContract(page.for), ClientContract(active'))]_navVars
=============================================================================
