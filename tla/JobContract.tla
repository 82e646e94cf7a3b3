----------------------------- MODULE JobContract -----------------------------
(***************************************************************************)
(* What the queue promises about jobs and resources, without priorities,   *)
(* stops, workers or cleanup attempts: a job runs its steps in order, on   *)
(* one resource at a time, and ends once; a resource serves one job at a   *)
(* time, and between two jobs it is settled.                               *)
(***************************************************************************)
EXTENDS Naturals

CONSTANTS Jobs, Resources, NoJob

VARIABLES
    life,   \* where each job is in its life
    done,   \* steps each job finished
    lane    \* what each resource is used for, and by which job

contractVars == <<life, done, lane>>

Ended == {"succeeded", "failed", "cancelled"}

FreeLane == [use |-> "free", job |-> NoJob]
Lane(use, j) == [use |-> use, job |-> j]

Init ==
    /\ life = [j \in Jobs |-> "absent"]
    /\ done = [j \in Jobs |-> 0]
    /\ lane = [r \in Resources |-> FreeLane]

Accept(j) ==
    /\ life[j] = "absent"
    /\ life' = [life EXCEPT ![j] = "queued"]
    /\ UNCHANGED <<done, lane>>

\* No resource works for the job or is still settling after it
Unplaced(j) == \A r \in Resources : lane[r].job # j

Start(j, r) ==
    /\ life[j] = "queued" /\ lane[r] = FreeLane /\ Unplaced(j)
    /\ life' = [life EXCEPT ![j] = "active"]
    /\ lane' = [lane EXCEPT ![r] = Lane("work", j)]
    /\ UNCHANGED done

\* The run on r ends: the job waits again, one step further or for the same
\* step, or it ends
Leave(r, after, steps) ==
    LET j == lane[r].job IN
    /\ lane[r].use = "work"
    /\ steps = 1 => after = "queued"
    /\ life' = [life EXCEPT ![j] = after]
    /\ done' = [done EXCEPT ![j] = @ + steps]
    /\ lane' = [lane EXCEPT ![r] = Lane("settle", j)]

\* A step whose program is gone fails without running
FailAtOnce(j, r) ==
    /\ life[j] = "queued" /\ lane[r] = FreeLane /\ Unplaced(j)
    /\ life' = [life EXCEPT ![j] = "failed"]
    /\ lane' = [lane EXCEPT ![r] = Lane("settle", j)]
    /\ UNCHANGED done

Withdraw(j) ==
    /\ life[j] = "queued"
    /\ life' = [life EXCEPT ![j] = "cancelled"]
    /\ UNCHANGED <<done, lane>>

Free(r) ==
    /\ lane[r].use = "settle"
    /\ lane' = [lane EXCEPT ![r] = FreeLane]
    /\ UNCHANGED <<life, done>>

Next ==
    \/ \E j \in Jobs : Accept(j) \/ Withdraw(j)
    \/ \E j \in Jobs, r \in Resources : Start(j, r) \/ FailAtOnce(j, r)
    \/ \E r \in Resources, after \in {"queued"} \cup Ended, steps \in {0, 1} :
            Leave(r, after, steps)
    \/ \E r \in Resources : Free(r)

Spec == Init /\ [][Next]_contractVars

=============================================================================
