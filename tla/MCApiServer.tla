---------------------------- MODULE MCApiServer -----------------------------
(* Small instances of ApiServer: three submissions have files of one name   *)
(* in one place, one of them twice; one of the three posts names and sizes  *)
(* only, as the widget does, and the key of an upload; two stop at a file   *)
(* without a name; one is too large; one is malformed.                      *)
EXTENDS ApiServer

CONSTANTS one, two, widget, nameless, unnamed, large, broken, aPdf, bPdf

File(name, kind, size) == [name |-> name, kind |-> kind, size |-> size]

MCFilesOf == [s \in Submissions |->
    CASE s = one -> <<File(aPdf, "data", 1), File(aPdf, "data", 1)>>
      [] s = two -> <<File(aPdf, "data", 1)>>
      [] s = widget -> <<File(aPdf, "bare", 1), File(bPdf, "key", 1)>>
      [] s = nameless -> <<File(Nameless, "data", 1)>>
      [] s = unnamed -> <<File(Nameless, "bare", 1)>>
      [] s = large -> <<File(bPdf, "data", 3)>>
      [] OTHER -> <<File(Nameless, "data", 1)>>]
MCSizeLimit == [s \in Submissions |-> 2]
MCMaxRequests == [g \in Groups |-> IF g = GeneralGroup THEN 3 ELSE 1]
\* A short window, for the promise that it rolls.
MCRollRequests == [g \in Groups |-> IF g = GeneralGroup THEN 2 ELSE 1]
=============================================================================
