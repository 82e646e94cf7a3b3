---------------------------- MODULE MCQueueStore ----------------------------
(* Small instances of QueueStore for TLC. *)
EXTENDS QueueStore, TLC

CONSTANTS j1, j2, j3

MCJobs2 == {j1, j2}
MCJobs3 == {j1, j2, j3}
OnlyThird == {j3}
Nobody == {}
Lanes1 == {1}
Lanes2 == {1, 2}

JobSpec(priority, target, mode, window, steps, limit) ==
    [ priority |-> priority, target |-> target, mode |-> mode,
      window |-> window, steps |-> steps, limit |-> limit ]

\* A two-step low job that yields, or restarts inside its window, and a
\* one-step high job that never gives way
Trainer == JobSpec(0, AnyResource, "yield", TRUE, 2, 2)
Urgent  == JobSpec(2, AnyResource, "wait", FALSE, 1, 1)

StepSpecs == {Trainer, Urgent}
StepSubmissions == {<<j1, Trainer>>, <<j2, Urgent>>}

\* Two low jobs, one restartable and one that yields, each pinned to its own
\* resource, and a high job that takes either
Restartable == JobSpec(0, 1, "restart", FALSE, 1, 1)
Yielding    == JobSpec(0, 2, "yield", FALSE, 1, 1)

LaneSpecs == {Restartable, Yielding, Urgent}
LaneSubmissions == {<<j1, Restartable>>, <<j2, Yielding>>, <<j3, Urgent>>}

=============================================================================
