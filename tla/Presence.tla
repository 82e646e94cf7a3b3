------------------------------ MODULE Presence -------------------------------
(***************************************************************************)
(* Whether a Mac with a battery takes a task that waited for it to wake: it *)
(* samples whether someone uses it, and says yes once the use has lasted.   *)
(* The host sleeps, wakes with its display dark, and its clock is set back. *)
(***************************************************************************)
EXTENDS Naturals

CONSTANTS
    InUseFor,      \* IN_USE_FOR, in periods of SAMPLE_EVERY
    MaxSampleGap,  \* MAX_SAMPLE_GAP, in the same periods
    MaxClock       \* bound on the clock

ASSUME PresenceAssumption ==
    InUseFor \in Nat \ {0} /\ MaxSampleGap \in Nat \ {0} /\ MaxClock \in Nat

VARIABLES
    clock,     \* SystemTime: it runs on while the host sleeps
    activity,  \* Activity: the start of the use and the last sample (0: none)
    readied,   \* the last answer to an origin
    unused,    \* history: time since a sample saw no use or the samples had a gap
    unseen,    \* history: time since the last sample
    hidden     \* history: no sample saw the clock behind the last one before it
               \* caught up, and the use of then goes on

presenceVars == <<clock, activity, readied, unused, unseen, hidden>>

PresenceInit ==
    /\ clock = 1 /\ activity = [since |-> 0, last_sample |-> 0]
    /\ readied = "none" /\ unused = 0 /\ unseen = 0 /\ hidden = FALSE

AtMost(n, bound) == IF n > bound THEN bound ELSE n

\* Time passes without a sample: a period that the host is awake, or a sleep,
\* also after the clock was set back.
Passes(periods) ==
    /\ clock + periods <= MaxClock
    /\ clock' = clock + periods
    /\ hidden' = IF clock < activity.last_sample /\ clock' >= activity.last_sample THEN TRUE ELSE hidden
    /\ unused' = AtMost(unused + periods, InUseFor)
    /\ unseen' = AtMost(unseen + periods, MaxSampleGap + 1)
    /\ readied' = "none" /\ UNCHANGED activity

\* The clock is set to a time before the last sample.  A smaller correction is
\* as if less time had passed.
SetBack(to) ==
    /\ to \in 1 .. activity.last_sample - 1
    /\ clock' = to /\ unused' = 0
    /\ readied' = "none" /\ UNCHANGED <<activity, unseen, hidden>>

\* `user_is_active`: a dark wake may still hold the assertion of a user, so the
\* wake state decides where it is known.
user_is_active(asserted, awake) ==
    IF asserted = "unreadable" THEN "unreadable"
    ELSE IF asserted = "held" /\ awake \in {"fully", "unknown"} THEN "active" ELSE "idle"

\* Mutated form: a gap between samples does not end the use
ContinuousAlways(now) == activity.last_sample # 0

continuous(now) ==
    /\ activity.last_sample # 0 /\ now >= activity.last_sample
    /\ now - activity.last_sample <= MaxSampleGap

ObserveUse(active, now) ==
    [since |-> IF active = "idle" THEN 0
               ELSE IF activity.since # 0 /\ continuous(now) THEN activity.since ELSE now,
     last_sample |-> now]

readiness(act, now) ==
    IF act.since = 0 THEN "idle"
    ELSE IF now >= act.since /\ now - act.since >= InUseFor THEN "ready" ELSE "settling"

\* A sample of the daemon's timer, or of a request that asks for readiness; a
\* host whose activity cannot be read takes the task.
Samples(asserted, awake, asked) ==
    LET active == user_is_active(asserted, awake)
        act    == ObserveUse(active, clock)
    IN  /\ IF active = "unreadable"
           THEN /\ UNCHANGED <<activity, unused, unseen, hidden>>
                /\ readied' = IF asked THEN "taken unread" ELSE "none"
           ELSE /\ activity' = act
                /\ unseen' = 0
                /\ hidden' = IF active = "active" /\ continuous(clock) THEN hidden ELSE FALSE
                /\ unused' = IF active = "idle" \/ unseen > MaxSampleGap THEN 0 ELSE unused
                /\ readied' = IF asked THEN readiness(act, clock) ELSE "none"
        /\ UNCHANGED clock

PresenceNext ==
    \/ \E periods \in {1, MaxSampleGap + 1} : Passes(periods)
    \/ \E to \in 1 .. MaxClock : SetBack(to)
    \/ \E asserted \in {"unreadable", "held", "free"}, awake \in {"fully", "dark", "unknown"},
          asked \in BOOLEAN : Samples(asserted, awake, asked)

PresenceSpec == PresenceInit /\ [][PresenceNext]_presenceVars

\* power/presence.rs: a Mac "says yes only once someone has used it for
\* IN_USE_FOR".  Whenever it answers from a sample, every sample of that time
\* found it in use and fully awake, and none was missing for longer than a
\* sleep of MAX_SAMPLE_GAP, wherever its clock was set back to; unless the clock
\* caught up with the last sample before the next one was taken: set back and
\* asleep for as long, the host seems not to have slept at all.
ReadyAfterUse == readied = "ready" /\ ~hidden => unused = InUseFor

=============================================================================
