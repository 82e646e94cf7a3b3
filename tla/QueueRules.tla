----------------------------- MODULE QueueRules -----------------------------
(***************************************************************************)
(* The rules of one machine's resource queue that need no state of their   *)
(* own: the order of priorities and stop causes, how the end of a run      *)
(* moves its job (queue/classify.rs), and the scheduling decision that     *)
(* fills free resources and picks at most one run to preempt               *)
(* (queue/schedule.rs).                                                    *)
(*                                                                         *)
(* A resource is a positive number, its place in the order of resource     *)
(* names.  A job table jb maps every job to its stored row and a run table *)
(* rn maps every resource to its single active run; phase "idle" is a      *)
(* resource without a run.                                                 *)
(***************************************************************************)
EXTENDS Naturals, Sequences, FiniteSets

CONSTANTS
    Jobs,       \* job identities
    Resources,  \* the resources of the machine, by name order
    Priorities, \* levels by rank; the code has low 0, medium 1, high 2
    Specs       \* the accepted job specifications

NoResource == 0
AnyResource == 0            \* the target of a job that is not pinned
Modes == {"restart", "wait", "yield"}

SpecType ==
    [ priority : Priorities,
      target   : Resources \cup {AnyResource},
      mode     : Modes,
      window   : BOOLEAN,         \* the mode carries a restart_within window
      steps    : Nat \ {0},
      limit    : Nat ]            \* bound: runs of a job with this specification

ASSUME RulesAssumption ==
    /\ Resources \subseteq Nat \ {0}
    /\ Priorities \subseteq 0..2
    /\ IsFiniteSet(Resources)
    /\ IsFiniteSet(Jobs)
    /\ Specs \subseteq SpecType /\ Specs # {}

-----------------------------------------------------------------------------
(* Job states, run phases and stop causes *)

TerminalJob == {"succeeded", "failed", "cancelled"}
JobStates == {"absent", "queued", "active"} \cup TerminalJob

\* Phases in which the run still executes its job
HoldingPhases == {"launching", "executing", "stopping"}
Phases == {"idle", "cleaning", "attention"} \cup HoldingPhases
HoldsJob(rec) == rec.phase \in HoldingPhases

Causes == {"yield", "restart", "user_cancel"}
NoCause == "none"
CauseRank(c) ==
    CASE c = "none" -> 0 [] c = "yield" -> 1 [] c = "restart" -> 2
      [] c = "user_cancel" -> 3

\* A weaker cause never replaces a stronger one
Upgrade(earlier, later) ==
    IF CauseRank(later) > CauseRank(earlier) THEN later ELSE earlier

\* The stop the store committed for this run, if any
StopCauseOf(rec) == IF rec.phase = "stopping" THEN rec.cause ELSE NoCause

Allows(target, r) == target = AnyResource \/ target = r
IsLast(spec, step) == step + 1 = spec.steps

-----------------------------------------------------------------------------
(* How the end of a run moves its job *)

TerminalStatus == {"succeeded", "failed", "cancelled", "lost", "preempted"}
TaskStatuses == {"absent", "queued", "running"} \cup TerminalStatus

RunEnds == {"exit0", "exit75", "cancelled", "other", "lost"}

Class(outcome, move) == [outcome |-> outcome, move |-> move]

classify(end, cause, last) ==
    CASE end = "exit0" /\ last -> Class("succeeded", "succeeded")
      [] end = "exit0" /\ ~last /\ cause = "user_cancel" ->
            Class("succeeded", "cancelled")
      [] end = "exit0" /\ ~last /\ cause # "user_cancel" ->
            Class("succeeded", "next_step")
      [] end = "exit75" /\ cause = "yield" -> Class("preempted", "resume")
      [] end = "cancelled" /\ cause = "restart" -> Class("preempted", "restart")
      [] end = "cancelled" /\ cause # "restart" -> Class("cancelled", "cancelled")
      [] end \in {"exit75", "other"} /\ cause = "user_cancel" ->
            Class("cancelled", "cancelled")
      [] end = "exit75" /\ cause \notin {"yield", "user_cancel"} ->
            Class("failed", "failed")
      [] end = "other" /\ cause # "user_cancel" -> Class("failed", "failed")
      [] end = "lost" /\ cause = "user_cancel" -> Class("lost", "cancelled")
      [] end = "lost" /\ cause # "user_cancel" -> Class("lost", "failed")

\* The task transitions the store lets through
StatusMayMove(from, to) ==
    \/ from = "queued"  /\ to \in {"running", "failed", "cancelled", "lost"}
    \/ from = "running" /\ to \in TerminalStatus

-----------------------------------------------------------------------------
(* Scheduling: the decision reads one snapshot (jb, rn) of the store.      *)
(* young is the set of resources whose run is inside its restart window at *)
(* the time of the decision.                                               *)

InQueue(jb) == {j \in DOMAIN jb : jb[j].position # 0}

\* Serving order: the higher level first, then the position in the level
Precedes(jb, i, j) ==
    \/ jb[i].priority > jb[j].priority
    \/ jb[i].priority = jb[j].priority /\ jb[i].position < jb[j].position

machine_queue(jb) ==
    LET Q == InQueue(jb)
        Ahead(j) == Cardinality({i \in Q : Precedes(jb, i, j)})
    IN  [n \in 1..Cardinality(Q) |-> CHOOSE j \in Q : Ahead(j) = n - 1]

startable(jb, rn, j) ==
    /\ jb[j].state = "queued"
    /\ \A r \in Resources : rn[r].phase # "idle" => rn[r].job # j

Idle(rn) == {r \in Resources : rn[r].phase = "idle"}

\* Mutated form: a job that finds no resource blocks the jobs behind it
ServeBehindHead(jb, rn, j, before) ==
    LET usable == {r \in before.free : Allows(jb[j].spec.target, r)}
        first  == CHOOSE r \in usable : \A s \in usable : r <= s
    IN  IF ~startable(jb, rn, j) THEN before
        ELSE IF usable = {} \/ before.waiting # <<>>
        THEN [before EXCEPT !.waiting = Append(@, j)]
        ELSE [before EXCEPT
                !.free = @ \ {first},
                !.launches = Append(@, [job |-> j, resource |-> first])]

\* A startable job gets the first free resource it may use; one without waits
Serve(jb, rn, j, before) ==
    LET usable == {r \in before.free : Allows(jb[j].spec.target, r)}
        first  == CHOOSE r \in usable : \A s \in usable : r <= s
    IN  IF ~startable(jb, rn, j) THEN before
        ELSE IF usable = {}
        THEN [before EXCEPT !.waiting = Append(@, j)]
        ELSE [before EXCEPT
                !.free = @ \ {first},
                !.launches = Append(@, [job |-> j, resource |-> first])]

\* Walk the queue: a job that waits blocks nobody behind it
Fill(jb, rn) ==
    LET q == machine_queue(jb)
        place[n \in 0..Len(q)] ==
            IF n = 0
            THEN [free |-> Idle(rn), launches |-> <<>>, waiting |-> <<>>]
            ELSE Serve(jb, rn, q[n], place[n - 1])
    IN  place[Len(q)]

\* How a run of this mode may be stopped now; "none" means it may not
stop_at(spec, young) ==
    CASE spec.mode = "restart" \/ (spec.window /\ young) -> "restart"
      [] spec.mode = "yield" /\ ~(spec.window /\ young) -> "yield"
      [] spec.mode = "wait" /\ ~(spec.window /\ young) -> NoCause

NoStop == [resource |-> NoResource]

\* Mutated form: a run of the waiting job's own level may be stopped
CandidatesOfOwnLevel(jb, rn, young, w) ==
    {r \in Resources :
        /\ Allows(jb[w].spec.target, r)
        /\ rn[r].phase = "executing"
        /\ jb[rn[r].job].position # 0
        /\ jb[rn[r].job].priority <= jb[w].priority
        /\ stop_at(jb[rn[r].job].spec, r \in young) # NoCause}

\* Runs that may be stopped for the waiting job w
Candidates(jb, rn, young, w) ==
    {r \in Resources :
        /\ Allows(jb[w].spec.target, r)
        /\ rn[r].phase = "executing"
        /\ jb[rn[r].job].position # 0
        /\ jb[rn[r].job].priority < jb[w].priority
        /\ stop_at(jb[rn[r].job].spec, r \in young) # NoCause}

\* The lowest level first, then the cheapest stop, then the latest start.
\* Equal starts are told apart by resource, whose order stands for the id's
PreferredVictim(jb, rn, young, r, s) ==
    LET Level(x) == jb[rn[x].job].priority
        Cost(x)  == IF stop_at(jb[rn[x].job].spec, x \in young) = "restart"
                    THEN 0 ELSE 1
    IN  \/ Level(r) < Level(s)
        \/ /\ Level(r) = Level(s)
           /\ \/ Cost(r) < Cost(s)
              \/ /\ Cost(r) = Cost(s)
                 /\ \/ rn[r].started > rn[s].started
                    \/ rn[r].started = rn[s].started /\ r <= s

preempt_for(jb, rn, young, w) ==
    LET C == Candidates(jb, rn, young, w)
        r == CHOOSE x \in C : \A y \in C : PreferredVictim(jb, rn, young, x, y)
    IN  IF C = {} THEN NoStop
        ELSE [resource |-> r, task |-> rn[r].task,
              cause |-> stop_at(jb[rn[r].job].spec, r \in young)]

\* Mutated form: a restart in flight is forgotten
YieldInFlight(rn) ==
    \E r \in Resources : rn[r].phase = "stopping" /\ rn[r].cause = "yield"

PreemptionInFlight(rn) ==
    \E r \in Resources : rn[r].phase = "stopping"
                         /\ rn[r].cause \in {"yield", "restart"}

\* Launches in serving order, at most one stop, and the blocked head
decide(jb, rn, young) ==
    LET fill == Fill(jb, rn)
        w    == fill.waiting
        able == {n \in DOMAIN w : Candidates(jb, rn, young, w[n]) # {}}
        stop == IF PreemptionInFlight(rn) \/ able = {} THEN NoStop
                ELSE preempt_for(jb, rn, young,
                        w[CHOOSE n \in able : \A m \in able : n <= m])
    IN  [launches |-> fill.launches, preemption |-> stop, waiting |-> w]

=============================================================================
