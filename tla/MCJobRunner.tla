---------------------------- MODULE MCJobRunner -----------------------------
(* Small instances of JobRunner.  Submitted jobs carry no idempotency key. *)
EXTENDS JobRunner

CONSTANTS
    good, bad, hung,    \* jobs
    lost, odd           \* a job without input object, one without processor

MCKeyOf == [j \in Jobs |-> NoKey]
MCPercents == {40}
MCFate ==
    [j \in Jobs |->
        CASE j = bad -> {"fail"}
          [] j = hung -> {"hang"}
          [] OTHER -> {"done"}]
\* Any run may fail, hang or finish late.
MCAnyFate == [j \in Jobs |-> {"done", "fail", "hang"}]
MCSymmetry == Permutations(Tokens)
MCUnhandled == Jobs \cap {odd}
MCNoInput == Jobs \cap {lost}
=============================================================================
