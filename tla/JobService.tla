----------------------------- MODULE JobService -----------------------------
(***************************************************************************)
(* What the job pipeline promises whoever submits a job, whatever happens  *)
(* behind it (retries, timeouts, runs that outlive their lease): a job is  *)
(* accepted once, its result is delivered at most once and complete, and   *)
(* a delivered job is put on the usage record once, never an undelivered   *)
(* one.                                                                    *)
(***************************************************************************)
CONSTANT Jobs

VARIABLE stage  \* where the submitter sees each job

Stages == {"absent", "pending", "delivered", "billed"}

Init == stage = [j \in Jobs |-> "absent"]

Advance(j, from, to) == stage[j] = from /\ stage' = [stage EXCEPT ![j] = to]

Accept(j) == Advance(j, "absent", "pending")
Deliver(j) == Advance(j, "pending", "delivered")
Bill(j) == Advance(j, "delivered", "billed")

Next == \E j \in Jobs : Accept(j) \/ Deliver(j) \/ Bill(j)

Spec == Init /\ [][Next]_stage
=============================================================================
