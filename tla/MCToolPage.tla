----------------------------- MODULE MCToolPage -----------------------------
(* Small instances of ToolPage: one tool that merges in the browser, one   *)
(* that is a job, one of AI and one studio, and three files.               *)
EXTENDS ToolPage

CONSTANTS p1, p2, p3, word

ToolsDef == {"merge-pdf", "pdf-to-word", "ai-ask", "gst-invoice-pdf"}
OfficeToo == {"merge-pdf", "word-to-pdf"}
KindOfDef == [f \in Files |-> IF f = word THEN "office" ELSE "pdf"]
Symmetric == Permutations(Files \ {word})
=============================================================================
