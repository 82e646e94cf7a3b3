---------------------------- MODULE MCQueueSystem ----------------------------
(* Small instances of QueueSystem for TLC. *)
EXTENDS QueueSystem, TLC

CONSTANTS j1, j2

MCJobs1 == {j1}
MCJobs2 == {j1, j2}
OnlyFirst == {j1}
OnlySecond == {j2}
Nobody == {}
OneLane == {1}

JobSpec(priority, mode, steps, limit) ==
    [ priority |-> priority, target |-> AnyResource, mode |-> mode,
      window |-> FALSE, steps |-> steps, limit |-> limit ]

\* A low job that yields, and a high job that waits for it
Once   == JobSpec(0, "yield", 1, 1)
Urgent == JobSpec(2, "wait", 1, 1)

OnceSpecs == {Once, Urgent}
OnceSubmissions == {<<j1, Once>>, <<j2, Urgent>>}

\* One job with a second run after its launch was abandoned
Retried == JobSpec(0, "restart", 1, 2)
RetriedSpecs == {Retried}
RetriedSubmissions == {<<j1, Retried>>}

=============================================================================
