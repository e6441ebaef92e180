---------------------------- MODULE MCPdfEditor -----------------------------
(* Small instances of PdfEditor: a document of two pages and, in some, a short *)
(* one beside it.                                                              *)
EXTENDS PdfEditor

CONSTANTS long, short

MCPageCount == [d \in Docs |-> IF d = long THEN 2 ELSE 1]
MCSymmetry == Permutations(Ids)
=============================================================================
