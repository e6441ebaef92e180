---------------------------- MODULE ToolRegistry ----------------------------
(***************************************************************************)
(* The tables every part of the site is driven by: the tools the page in  *)
(* the browser defines, the tools the server renders pages for, the two   *)
(* tables of aliases, the processors of the worker, and the links of the  *)
(* pages. They are kept by hand in five files of two packages; a slug is  *)
(* the key that joins them.                                                *)
(*                                                                         *)
(* Of a tool only its contract is kept: the mode, what it takes as input,  *)
(* whether it takes several files, and its studio. Titles, texts, icons    *)
(* and option forms are left out.                                          *)
(***************************************************************************)
EXTENDS TLC

Contract(mode, input, many, studio) == [mode |-> mode, input |-> input, many |-> many, studio |-> studio]
NoStudio == "none"
Plain(input, many) == Contract("processor", input, many, NoStudio)

(* Two tables in one; an entry of the first hides those of its key in the       *)
(* second. It is what @@ is to TLC, in a form that can be reasoned about.      *)
Joined(f, g) == [k \in DOMAIN f \cup DOMAIN g |-> IF k \in DOMAIN f THEN f[k] ELSE g[k]]
f ++ g == Joined(f, g)

(* A tool's keys, each with the same contract. *)
All(keys, contract) == [k \in keys |-> contract]

RequiresInputFile(contract) == contract.mode \in {"processor", "editor"}
-----------------------------------------------------------------------------
(* The browser's tools: tool-registry.js, group by group, with the modes  *)
(* and input types its normalisation fills in.                            *)

CorePdfTools ==
    All({"merge-pdf"}, Plain("pdf", TRUE)) ++
    All({"split-pdf", "compress-pdf", "rotate-pdf", "delete-pdf-pages", "extract-pages", "crop-pdf"}, Plain("pdf", FALSE))

ConvertTools ==
    All({"jpg-to-pdf"}, Plain("image", TRUE)) ++
    All({"word-to-pdf", "excel-to-pdf"}, Plain("office", FALSE)) ++
    All({"pdf-to-jpg", "pdf-to-word", "pdf-to-excel"}, Plain("pdf", FALSE))

MarkTools ==
    All({"watermark-pdf", "page-numbers-pdf", "strip-metadata-pdf", "sign-pdf"}, Plain("pdf", FALSE)) ++
    All({"draw-signature"}, Contract("creator", "none", FALSE, "signature-studio"))

EditorTools == All({"edit-pdf", "pdf-editor"}, Contract("editor", "pdf", FALSE, "pdf-editor-studio"))

SafetyTools == All({"flatten-pdf", "repair-pdf", "protect-pdf", "unlock-pdf", "redact-pdf"}, Plain("pdf", FALSE))

ReadingTools ==
    All({"ocr-pdf"}, Plain("pdf-or-image", FALSE)) ++
    All({"compare-pdf"}, Plain("pdf", TRUE)) ++
    All({"markdown-to-pdf"}, Plain("markdown", FALSE)) ++
    All({"ai-summarize", "ai-ask", "ai-extract-table", "pdf-to-markdown"}, Plain("pdf", FALSE))

BusinessTools ==
    All({"gst-invoice-pdf"}, Contract("generator", "none", FALSE, "gst-invoice-studio")) ++
    All({"pos-billing", "clean-billing"}, Contract("generator", "none", FALSE, "pos-billing-studio")) ++
    All({"tax-receipt"}, Contract("generator", "none", FALSE, "tax-receipt-studio")) ++
    All({"estimate-maker"}, Contract("generator", "none", FALSE, "estimate-studio")) ++
    All({"p2p-share"}, Contract("creator", "none", TRUE, "p2p-share-studio"))

(* The aliases of the browser's router and of its registry; the second    *)
(* have four more, which become tools under their own key.                *)
ClientRouteAliases ==
    All({"gst-invoice"}, "gst-invoice-pdf") ++ All({"pos-billing", "clean-billing"}, "pos-billing") ++
    [k \in {"tax-receipt", "estimate-maker", "crop-pdf", "edit-pdf", "extract-pages", "flatten-pdf", "repair-pdf"} |-> k] ++
    All({"chat-with-pdf"}, "ai-ask") ++ All({"summarize-pdf", "pdf-to-audio"}, "ai-summarize") ++
    All({"organize-pages"}, "delete-pdf-pages") ++ All({"resize-pdf"}, "crop-pdf") ++ All({"pdf-editor"}, "edit-pdf") ++
    All({"sign-pdf"}, "draw-signature") ++ All({"add-watermark", "fingerprint-pdf"}, "watermark-pdf") ++
    All({"page-numbers", "headers-footers"}, "page-numbers-pdf") ++ All({"extract-text"}, "ocr-pdf") ++
    All({"encrypt-pdf"}, "protect-pdf") ++ All({"remove-password"}, "unlock-pdf") ++
    All({"privacy-scanner"}, "strip-metadata-pdf") ++ All({"compare-pdfs"}, "compare-pdf") ++
    All({"extract-tables"}, "ai-extract-table") ++ All({"split-pages"}, "split-pdf")

AirDropNames == {"p2p", "p2p-transfer", "airdrop", "air-drop"}
ToolAliases == ClientRouteAliases ++ All(AirDropNames, "p2p-share")

DefinedTools == CorePdfTools ++ ConvertTools ++ MarkTools ++ EditorTools ++ SafetyTools ++ ReadingTools ++ BusinessTools

(* An alias becomes a tool of its own unless its key is one already. *)
ToolDefinitions ==
    DefinedTools ++ [a \in {k \in DOMAIN ToolAliases : ToolAliases[k] \in DOMAIN DefinedTools} |-> DefinedTools[ToolAliases[a]]]

ClientContract(tool) == IF tool \in DOMAIN ToolDefinitions THEN ToolDefinitions[tool] ELSE Plain("pdf", FALSE)

ClientResolve(slug) == IF slug \in DOMAIN ClientRouteAliases THEN ClientRouteAliases[slug] ELSE slug
-----------------------------------------------------------------------------
(* The server's tools: seo.ts, group by group. An entry may state its     *)
(* contract; what it leaves open getToolContract decides from the key.    *)

Open(keys) == All(keys, Contract("open", "open", FALSE, "open"))

CorePages == Open({"merge-pdf", "split-pdf", "compress-pdf", "rotate-pdf", "delete-pdf-pages", "jpg-to-pdf", "pdf-to-jpg"})

OfficePages ==
    Open({"word-to-pdf", "excel-to-pdf", "pdf-to-word", "pdf-to-excel", "watermark-pdf", "protect-pdf", "unlock-pdf"})

ReadingPages ==
    Open({"redact-pdf", "ocr-pdf", "compare-pdf", "ai-summarize", "ai-ask"}) ++
    All({"draw-signature"}, Contract("creator", "none", FALSE, "signature-studio"))

BillingPages ==
    Open({"pdf-to-markdown", "markdown-to-pdf"}) ++
    All({"gst-invoice-pdf"}, Contract("generator", "none", FALSE, "gst-invoice-studio")) ++
    All({"pos-billing", "clean-billing"}, Contract("generator", "none", FALSE, "pos-billing-studio"))

TrustPages ==
    All({"tax-receipt"}, Contract("generator", "none", FALSE, "tax-receipt-studio")) ++
    All({"estimate-maker"}, Contract("generator", "none", FALSE, "estimate-studio")) ++
    Open({"flatten-pdf", "repair-pdf", "page-numbers-pdf", "strip-metadata-pdf"})

LaterPages ==
    Open({"ai-extract-table", "extract-pages", "crop-pdf"}) ++
    All({"edit-pdf"}, Contract("editor", "pdf", FALSE, "pdf-editor-studio")) ++
    All({"p2p-share"}, Contract("creator", "none", FALSE, "p2p-share-studio"))

StatedPages == CorePages ++ OfficePages ++ ReadingPages ++ BillingPages ++ TrustPages ++ LaterPages

(* Four friendly slugs are copies of an entry under another key. *)
PageRegistry ==
    StatedPages ++ All({"chat-with-pdf"}, StatedPages["ai-ask"]) ++ All({"gst-invoice"}, StatedPages["gst-invoice-pdf"]) ++
    All({"p2p"}, StatedPages["p2p-share"])

ModeOf(key) ==
    CASE key \in {"gst-invoice-pdf", "gst-invoice", "pos-billing", "clean-billing", "tax-receipt", "estimate-maker"} -> "generator"
      [] key \in {"draw-signature", "p2p-share", "p2p"} -> "creator"
      [] key \in {"edit-pdf", "pdf-editor"} -> "editor"
      [] OTHER -> "processor"

(* Slip: the server's list of inputs knows documents only. *)
InputOfDocuments(key, mode) == IF RequiresInputFile([mode |-> mode]) THEN "pdf" ELSE "none"

InputOf(key, mode) ==
    CASE ~RequiresInputFile([mode |-> mode]) -> "none"
      [] key \in {"jpg-to-pdf", "image-to-pdf"} -> "image"
      [] key = "markdown-to-pdf" -> "markdown"
      [] key \in {"word-to-pdf", "excel-to-pdf", "powerpoint-to-pdf", "ppt-to-pdf"} -> "office"
      [] key = "ocr-pdf" -> "pdf-or-image"
      [] OTHER -> "pdf"

ServerContract(key) ==
    IF PageRegistry[key].mode # "open"
        THEN PageRegistry[key]
        ELSE Contract(ModeOf(key), InputOf(key, ModeOf(key)),
                      key \in {"merge-pdf", "jpg-to-pdf", "image-to-pdf", "compare-pdf"}, NoStudio)

RouteAliases == ClientRouteAliases ++ All({"image-to-pdf"}, "jpg-to-pdf") ++ All(AirDropNames, "p2p-share")

(* Slip: a slug of the catalogue is not among the server's aliases. *)
ServerResolveMost(slug) == IF slug \in DOMAIN RouteAliases \ {"organize-pages"} THEN RouteAliases[slug] ELSE slug

ServerResolve(slug) == IF slug \in DOMAIN RouteAliases THEN RouteAliases[slug] ELSE slug

(* Slip: the worker's registry before its last tools. *)
ProcessorsOnce == {"merge-pdf", "split-pdf", "rotate-pdf", "compress-pdf", "jpg-to-pdf", "extract-pages", "delete-pdf-pages"}

(* The operations the worker has a processor for. *)
Processors ==
    {"merge-pdf", "split-pdf", "rotate-pdf", "compress-pdf", "image-to-pdf", "jpg-to-pdf", "extract-pages", "delete-pdf-pages",
     "delete-pages", "reorder-pdf", "watermark-pdf", "page-numbers-pdf", "protect-pdf", "unlock-pdf", "repair-pdf",
     "strip-metadata-pdf", "word-to-pdf", "excel-to-pdf", "powerpoint-to-pdf", "ppt-to-pdf", "pdf-to-image", "pdf-to-jpg",
     "sign-pdf", "flatten-pdf", "pdf-to-word", "pdf-to-excel", "redact-pdf", "ocr-pdf", "compare-pdf", "ai-summarize", "ai-ask",
     "ai-extract-table", "pipeline", "pdf-to-markdown", "markdown-to-pdf", "gst-invoice-pdf", "pos-billing", "clean-billing",
     "tax-receipt", "estimate-maker", "crop-pdf", "edit-pdf", "pdf-editor"}
=============================================================================
