---------------------------- MODULE MCQueueRules ----------------------------
(***************************************************************************)
(* The scheduling decision against what it is meant to be, on every        *)
(* snapshot of two resources, two jobs that run or ran on them and two     *)
(* jobs that wait.  A snapshot is chosen at the start; one step decides.   *)
(* Jobs is 1..4 and Resources {1, 2} here; MCQueueLanes gives them so.     *)
(***************************************************************************)
EXTENDS QueueRules

VARIABLES jb, rn, young, out

-----------------------------------------------------------------------------
JobSpec(target, mode, window) ==
    [ priority |-> 0, target |-> target, mode |-> mode, window |-> window,
      steps |-> 1, limit |-> 1 ]

RunSpecs ==
    {JobSpec(AnyResource, m, FALSE) : m \in Modes}
        \cup {JobSpec(AnyResource, "yield", TRUE), JobSpec(AnyResource, "wait", TRUE)}
WaitSpecs == {JobSpec(t, "wait", FALSE) : t \in {AnyResource, 1, 2}}

Undecided == [waiting |-> <<0>>]

\* What resource r may hold, and what its job looks like.  A cleaning run's
\* job waits again or is gone
Holdings ==
    LET Held(phase, level, spec, started, cause, state) ==
            [ phase |-> phase, level |-> level, spec |-> spec,
              started |-> started, cause |-> cause, state |-> state ]
        anyone == JobSpec(AnyResource, "wait", FALSE)
    IN  {Held("idle", 0, anyone, 0, NoCause, "cancelled")}
        \cup {Held("launching", 1, anyone, 0, NoCause, "active")}
        \cup {Held("executing", p, s, n, NoCause, "active") :
                p \in Priorities, s \in RunSpecs, n \in 1..2}
        \cup {Held("stopping", 0, JobSpec(AnyResource, "yield", FALSE), 1, c, "active") :
                c \in Causes}
        \cup {Held(x, 1, anyone, 0, NoCause, s) :
                x \in {"cleaning", "attention"}, s \in {"queued", "cancelled"}}

\* A waiting job of the lowest level would stop nobody
Waiters == {[level |-> p, spec |-> s] : p \in Priorities \ {0}, s \in WaitSpecs}

\* Dense positions: jobs of one level in the order of their numbers
Row(state, p, spec, ahead) ==
    [ state |-> state, priority |-> p, spec |-> spec,
      position |-> IF state \in TerminalJob THEN 0 ELSE 1 + Cardinality(ahead) ]

Table(held, wait) ==
    LET State(j) == IF j <= 2 THEN held[j].state ELSE "queued"
        Level(j) == IF j <= 2 THEN held[j].level ELSE wait[j].level
        Spec(j)  == IF j <= 2 THEN held[j].spec ELSE wait[j].spec
        Ahead(j) == {i \in 1..(j - 1) : State(i) \notin TerminalJob /\ Level(i) = Level(j)}
    IN  [j \in Jobs |-> Row(State(j), Level(j), Spec(j), Ahead(j))]

Runs(held) ==
    [r \in Resources |->
        [ phase |-> held[r].phase, job |-> r, task |-> <<r, 1>>,
          started |-> held[r].started, cause |-> held[r].cause ]]

Init ==
    \E held \in [1..2 -> Holdings], wait \in [3..4 -> Waiters] :
        /\ jb = Table(held, wait) /\ rn = Runs(held)
        /\ young \in SUBSET {r \in Resources : rn[r].phase = "executing"
                                                /\ jb[rn[r].job].spec.window}
        /\ out = Undecided

Decision ==
    /\ out = Undecided
    /\ out' = decide(jb, rn, young)
    /\ UNCHANGED <<jb, rn, young>>

Next == Decision

Spec == Init /\ [][Next]_<<jb, rn, young, out>>

-----------------------------------------------------------------------------
Decided == out # Undecided
Launched(j) == \E n \in DOMAIN out.launches : out.launches[n].job = j
Given(r, j) ==
    \E n \in DOMAIN out.launches : out.launches[n] = [job |-> j, resource |-> r]
GivenAhead(r, j) == \E i \in Jobs : Given(r, i) /\ Precedes(jb, i, j)

\* docs/resource-queue.md: free resources go to waiting jobs in serving order
\* and a job that cannot start blocks nobody.  So a startable job is left out
\* only where every free resource it may use went to a job ahead of it, it
\* gets the first one that did not, and nothing is given twice
ServesInOrder == Decided =>
    /\ \A j \in Jobs, r \in Resources : Given(r, j) =>
            /\ startable(jb, rn, j) /\ rn[r].phase = "idle"
            /\ Allows(jb[j].spec.target, r)
            /\ \A s \in Idle(rn) : s < r /\ Allows(jb[j].spec.target, s) => GivenAhead(s, j)
            /\ \A i \in Jobs, s \in Resources :
                    Given(s, i) /\ (i = j \/ s = r) => i = j /\ s = r
    /\ \A j \in Jobs : startable(jb, rn, j) /\ ~Launched(j) =>
            \A r \in Idle(rn) : Allows(jb[j].spec.target, r) => GivenAhead(r, j)

\* A run that w may have stopped: strictly below w and not protected by its
\* mode, or by a window that is over
MayStopFor(w, r) ==
    LET v == jb[rn[r].job] IN
    /\ startable(jb, rn, w) /\ ~Launched(w)
    /\ Allows(jb[w].spec.target, r) /\ rn[r].phase = "executing"
    /\ v.priority < jb[w].priority
    /\ v.spec.mode # "wait" \/ (v.spec.window /\ r \in young)

\* Lowest level, then lost work before asked work, then the latest start
StopKey(r) ==
    LET v == jb[rn[r].job]
        killed == v.spec.mode = "restart" \/ (v.spec.window /\ r \in young)
    IN  100 * v.priority + (IF killed THEN 0 ELSE 10) + (9 - rn[r].started)

\* queue/schedule.rs: a stop is decided exactly when none is in flight and
\* some waiting job may have one; it is for the first such job in serving
\* order and hits its cheapest victim
StopIsBest == Decided =>
    LET r == out.preemption.resource
        able == {w \in Jobs : \E s \in Resources : MayStopFor(w, s)}
    IN  IF PreemptionInFlight(rn) \/ able = {} THEN r = NoResource
        ELSE \E w \in able :
                /\ \A v \in able \ {w} : Precedes(jb, w, v)
                /\ MayStopFor(w, r)
                /\ \A s \in Resources : MayStopFor(w, s) => StopKey(r) <= StopKey(s)
                /\ out.preemption.task = rn[r].task

\* The decision is the one the documentation describes
DecisionIsRight == ServesInOrder /\ StopIsBest

=============================================================================
