----------------------------- MODULE HostProofs -----------------------------
(***************************************************************************)
(* What the daemon promises about the host it runs on: a Mac answers       *)
(* "ready" only after lasting use (Presence), a stop or an uninstall that  *)
(* succeeds was of the daemon it addressed (DaemonLife), the row of a      *)
(* container task says what its container did (ContainerRun), and a        *)
(* cleanup signals only processes of the run (ProcessSweep).               *)
(***************************************************************************)
EXTENDS Presence, DaemonLife, ContainerRun, ProcessSweep, Integers, WellFoundedInduction, TLAPS

-----------------------------------------------------------------------------
(* Presence, for any IN_USE_FOR, MAX_SAMPLE_GAP and settings of the clock    *)

PresenceTypeOK ==
    /\ clock \in Nat \ {0}
    /\ activity \in [since: Nat, last_sample: Nat]
    /\ unused \in 0 .. InUseFor /\ unseen \in 0 .. MaxSampleGap + 1

\* What the daemon remembers tells the time that passed, while its clock is not
\* behind its last sample and was not since: the gap since that sample, and a use that is no
\* longer than the time since it was last contradicted
RemembersTheGap ==
    clock >= activity.last_sample /\ activity.last_sample # 0 /\ ~hidden
        => unseen = AtMost(clock - activity.last_sample, MaxSampleGap + 1)

UseIsCovered ==
    clock >= activity.last_sample /\ activity.since # 0 /\ ~hidden
        => unused >= AtMost(clock - activity.since, InUseFor)

PresenceInv ==
    /\ PresenceTypeOK /\ RemembersTheGap /\ UseIsCovered /\ ReadyAfterUse
    /\ activity.since # 0 => activity.last_sample # 0

LEMMA PresenceInitially == PresenceInit => PresenceInv
<1>1. PresenceInit => PresenceTypeOK /\ activity.since = 0 /\ activity.last_sample = 0 /\ readied = "none"
  BY PresenceAssumption DEF PresenceInit, PresenceTypeOK
<1> QED BY <1>1 DEF PresenceInv, RemembersTheGap, UseIsCovered, ReadyAfterUse

\* A sample keeps a use only if no gap hides behind it, so the use it keeps was
\* watched; every other use starts with the sample
LEMMA SampleKeepsInv ==
    ASSUME PresenceInv,
           NEW asserted \in {"unreadable", "held", "free"},
           NEW awake \in {"fully", "dark", "unknown"},
           NEW asked \in BOOLEAN,
           Samples(asserted, awake, asked)
    PROVE  PresenceInv'
<1> DEFINE active == user_is_active(asserted, awake)
           act == ObserveUse(active, clock)
<1>1. CASE active = "unreadable"
  <2>0. /\ activity' = activity /\ unused' = unused /\ unseen' = unseen /\ clock' = clock
        /\ readied' \in {"taken unread", "none"}
    BY <1>1, Zenon DEF Samples
  <2>1. /\ activity' = activity /\ unused' = unused /\ unseen' = unseen /\ clock' = clock
        /\ readied' # "ready"
    BY <2>0
  <2>2. hidden' = hidden
    BY <1>1, Zenon DEF Samples
  <2>3. PresenceTypeOK' /\ (activity'.since # 0 => activity'.last_sample # 0)
    BY <2>1 DEF PresenceInv, PresenceTypeOK
  <2>4. RemembersTheGap' /\ UseIsCovered' /\ ReadyAfterUse'
    BY <2>1, <2>2 DEF PresenceInv, RemembersTheGap, UseIsCovered, ReadyAfterUse, AtMost
  <2> QED BY <2>3, <2>4 DEF PresenceInv
<1>2. CASE active # "unreadable"
  <2>1. /\ activity' = act /\ clock' = clock /\ unseen' = 0
        /\ unused' = IF active = "idle" \/ unseen > MaxSampleGap THEN 0 ELSE unused
        /\ readied' = IF asked THEN readiness(act, clock) ELSE "none"
        /\ hidden' = IF active = "active" /\ continuous(clock) THEN hidden ELSE FALSE
    BY <1>2 DEF Samples
  <2>2. act.last_sample = clock
        /\ act.since = IF active = "idle" THEN 0
                       ELSE IF activity.since # 0 /\ continuous(clock) THEN activity.since ELSE clock
    BY DEF ObserveUse
  <2> HIDE DEF act
  <2>11. active # "idle" /\ continuous(clock) /\ ~hidden' => ~hidden
    <3>1. active \in {"unreadable", "active", "idle"}
      BY DEF user_is_active
    <3>2. active # "idle" => active = "active"
      BY <1>2, <3>1
    <3> QED BY <2>1, <3>2, Zenon
  <2>3. activity.since # 0 /\ continuous(clock) /\ ~hidden
           => unseen <= MaxSampleGap /\ unused >= AtMost(clock - activity.since, InUseFor)
    BY PresenceAssumption
       DEF PresenceInv, PresenceTypeOK, RemembersTheGap, UseIsCovered, continuous, AtMost
  <2>4. act \in [since: Nat, last_sample: Nat]
    BY DEF act, ObserveUse, PresenceInv, PresenceTypeOK
  <2>5. PresenceTypeOK'
    BY <2>1, <2>4, PresenceAssumption DEF PresenceInv, PresenceTypeOK
  <2>6. RemembersTheGap'
    BY <2>1, <2>2, PresenceAssumption DEF PresenceInv, PresenceTypeOK, RemembersTheGap, AtMost
  <2>7. act.since # 0 /\ ~hidden' => unused' >= AtMost(clock - act.since, InUseFor)
    BY <2>1, <2>2, <2>3, <2>4, <2>11, PresenceAssumption DEF PresenceInv, PresenceTypeOK, AtMost
  <2>8. UseIsCovered'
    BY <2>1, <2>7 DEF UseIsCovered, AtMost
  <2>9. ReadyAfterUse'
    BY <2>1, <2>4, <2>5, <2>7, PresenceAssumption
       DEF ReadyAfterUse, readiness, AtMost, PresenceInv, PresenceTypeOK
  <2>10. activity'.since # 0 => activity'.last_sample # 0
    BY <2>1, <2>2 DEF PresenceInv, PresenceTypeOK
  <2> QED BY <2>5, <2>6, <2>8, <2>9, <2>10 DEF PresenceInv
<1> QED BY <1>1, <1>2

LEMMA PresenceStep == PresenceInv /\ [PresenceNext]_presenceVars => PresenceInv'
<1> SUFFICES ASSUME PresenceInv, [PresenceNext]_presenceVars PROVE PresenceInv'
  OBVIOUS
<1> USE PresenceAssumption DEF PresenceInv
<1>1. ASSUME NEW periods \in {1, MaxSampleGap + 1}, Passes(periods)
      PROVE  PresenceInv'
  <2>1. /\ clock' = clock + periods /\ activity' = activity /\ readied' = "none"
        /\ unused' = AtMost(unused + periods, InUseFor)
        /\ unseen' = AtMost(unseen + periods, MaxSampleGap + 1)
    BY <1>1 DEF Passes
  <2>2. ~hidden' => ~hidden /\ ~(clock < activity.last_sample /\ clock' >= activity.last_sample)
    BY <1>1, Zenon DEF Passes
  <2>3. PresenceTypeOK' /\ ReadyAfterUse'
    BY <2>1 DEF PresenceTypeOK, ReadyAfterUse, AtMost
  <2>4. RemembersTheGap' /\ UseIsCovered'
    BY <2>1, <2>2 DEF PresenceTypeOK, RemembersTheGap, UseIsCovered, AtMost
  <2> QED BY <2>1, <2>3, <2>4
<1>2. ASSUME NEW to \in 1 .. MaxClock, SetBack(to)
      PROVE  PresenceInv'
  BY <1>2 DEF SetBack, PresenceTypeOK, RemembersTheGap, UseIsCovered, ReadyAfterUse
<1>3. CASE UNCHANGED presenceVars
  BY <1>3 DEF presenceVars, PresenceTypeOK, RemembersTheGap, UseIsCovered, ReadyAfterUse
<1> QED BY <1>1, <1>2, <1>3, SampleKeepsInv DEF PresenceNext

\* power/presence.rs: whenever the Mac answers "ready" from a sample, the use
\* lasted IN_USE_FOR with every sample in use and no gap longer than
\* MAX_SAMPLE_GAP, wherever the clock was set back to, unless it caught up before
\* the next sample
THEOREM ReadyAfterUseCorrect == PresenceSpec => []ReadyAfterUse
<1>1. PresenceInv => ReadyAfterUse
  BY DEF PresenceInv
<1> QED BY <1>1, PresenceInitially, PresenceStep, PTL DEF PresenceSpec

-----------------------------------------------------------------------------
(* The life of the daemon, for any number of daemons, commands, tasks and    *)
(* crashes                                                                   *)

Stops == {"stop", "uninstall"}
Holds == {"clear", "bind", "start", "serve", "drain", "close"}
Ended == {"drain", "close", "gone"}
DaemonRecord == [at : DaemonSteps, failed : BOOLEAN]
CommandRecord ==
    [at : CommandSteps, kind : Kinds \cup {"stop"}, yes : BOOLEAN, saw : HostUnitState,
     peer : Daemons \cup {None}, held : SUBSET Works, spawned : BOOLEAN, gone : BOOLEAN,
     result : {"none", "done", "failed", "refused", "timeout"}]

\* Past the lock a daemon holds it, and from its bind to its end the socket is its own
OneHome ==
    \A d \in Daemons :
        /\ daemon[d].at \in Holds => lock = d
        /\ daemon[d].at \in {"start", "serve", "drain"} => sock = d

HomeTypes ==
    /\ daemon \in [Daemons -> DaemonRecord]
    /\ lock \in Daemons \cup {None} /\ sock \in Daemons \cup {None}
Home == HomeTypes /\ OneHome

HostState ==
    /\ unit \in HostUnitState /\ job \in Daemons \cup {None, Other}
    /\ job \in Daemons => daemon[job].at # "free"
    /\ work \in [Works -> WorkSteps]
    /\ crashes \in 0 .. MaxCrashes

\* What a command's record says of the daemon it addressed and the tasks it cancelled
Good(r, dm, wk) ==
    /\ r \in CommandRecord
    /\ r.at \in {"ready", "fetch", "look"} => r.peer = None
    /\ r.at \in {"ready", "fetch", "look", "ask", "check"} \/ r.kind \notin Stops => r.held = {}
    /\ r.at \in {"spawn", "up"} => r.kind \notin Stops
    /\ r.at \in {"check", "wait"} => r.kind \in Stops
    /\ r.at # "end" => r.result = "none"
    /\ r.peer # None => dm[r.peer].at \in Ended \cup {"serve"}
    /\ r.peer # None /\ (r.kind \notin Stops \/ r.at = "remove" \/ r.result = "done") => dm[r.peer].at \in Ended
    /\ \A w \in r.held : wk[w] \in {"run", "stop", "ended"} \cup Tried
    /\ r.peer # None /\ (r.at \in {"route", "halt", "absent", "remove"} \/ r.result = "done") =>
          \A w \in r.held : wk[w] \in Tried

CommandsAreGood ==
    command \in [Commands -> CommandRecord] /\ \A c \in Commands : Good(command[c], daemon, work)

DaemonInv == Home /\ HostState /\ CommandsAreGood

\* A daemon's process and a task's row only move on
Later(dm, dn) ==
    \A d \in Daemons :
        /\ dm[d].at \in Ended => dn[d].at \in Ended
        /\ dm[d].at = "serve" => dn[d].at \in Ended \cup {"serve"}
        /\ dm[d].at # "free" => dn[d].at # "free"
LaterWork(wk, wn) ==
    \A w \in Works :
        /\ wk[w] \in Tried => wn[w] \in Tried
        /\ wk[w] \in {"run", "stop", "ended"} \cup Tried => wn[w] \in {"run", "stop", "ended"} \cup Tried

LEMMA NoneIsNoDaemon == None \notin Daemons /\ Other \notin Daemons /\ None # Other
BY DaemonAssumption DEF None, Other

LEMMA LeastNumber ==
    ASSUME NEW S \in SUBSET Nat, S # {}
    PROVE  \E m \in S : \A n \in S : ~(n < m)
<1> DEFINE R == {ss \in Nat \X Nat : ss[1] < ss[2]}
<1>1. IsWellFoundedOn(R, Nat)
  BY NatLessThanWellFounded DEF OpToRel
<1> HIDE DEF R
<1>2. PICK m \in S : \A n \in S : ~(<<n, m>> \in R)
  BY <1>1, WFMin
<1> QED BY <1>2 DEF R

LEMMA SlotIsFree ==
    ASSUME HasSlot
    PROVE  Slot \in Daemons /\ daemon[Slot].at = "free"
<1> DEFINE F == {d \in Daemons : daemon[d].at = "free"}
<1>1. F # {} /\ F \in SUBSET Nat
  BY DaemonAssumption DEF HasSlot
<1>2. PICK m \in F : \A n \in F : ~(n < m)
  BY <1>1, LeastNumber
<1>3. \E d \in Daemons : daemon[d].at = "free" /\ \A e \in Daemons : e < d => daemon[e].at # "free"
  BY <1>2
<1> QED BY <1>3 DEF Slot

-----------------------------------------------------------------------------

\* A process moves, and with it nothing but its own part of the home
LEMMA ExecsHome ==
    ASSUME Home, HasSlot, Execs, UNCHANGED <<lock, sock>>
    PROVE  Home' /\ Later(daemon, daemon') /\ Slot \in Daemons /\ daemon'[Slot].at # "free"
<1>1. Slot \in Daemons /\ daemon[Slot].at = "free"
  BY SlotIsFree
<1>2. daemon \in [Daemons -> DaemonRecord] /\ daemon' = [daemon EXCEPT ![Slot].at = "lock"]
  BY DEF Home, HomeTypes, Execs
<1>3. /\ daemon'[Slot].at = "lock" /\ \A e \in Daemons \ {Slot} : daemon'[e] = daemon[e]
      /\ daemon' \in [Daemons -> DaemonRecord]
  BY <1>1, <1>2 DEF DaemonRecord, DaemonSteps
<1>4. OneHome'
  BY <1>1, <1>3 DEF Home, OneHome, Holds
<1>5. Later(daemon, daemon')
  BY <1>1, <1>3 DEF Later, Ended
<1> QED BY <1>1, <1>3, <1>4, <1>5 DEF Home, HomeTypes

LEMMA DiesHome ==
    ASSUME Home, NEW d \in Daemons, Lives(d), Dies(d), UNCHANGED sock
    PROVE  Home' /\ Later(daemon, daemon')
<1>1. daemon \in [Daemons -> DaemonRecord]
  BY DEF Home, HomeTypes
<1>2. /\ daemon'[d].at = "gone" /\ \A e \in Daemons \ {d} : daemon'[e] = daemon[e]
      /\ daemon' \in [Daemons -> DaemonRecord]
  BY <1>1 DEF Dies, DaemonRecord, DaemonSteps
<1>3. lock' = IF lock = d THEN None ELSE lock
  BY DEF Dies
<1>4. OneHome'
  BY <1>2, <1>3 DEF Home, OneHome, Holds
<1>5. Later(daemon, daemon')
  BY <1>2 DEF Later, Ended
<1> QED BY <1>2, <1>3, <1>4, <1>5 DEF Home, HomeTypes

LEMMA TerminatedHome ==
    ASSUME Home, NEW d \in Daemons, Terminated(d), UNCHANGED sock
    PROVE  /\ Home' /\ Later(daemon, daemon')
           /\ daemon[d].at # "free" => daemon'[d].at \in Ended
<1>1. daemon \in [Daemons -> DaemonRecord]
  BY DEF Home, HomeTypes
<1>2. daemon[d].at \in DaemonSteps
  BY <1>1 DEF DaemonRecord
<1>3. CASE daemon[d].at = "serve"
  <2>1. daemon' = [daemon EXCEPT ![d].at = "drain"] /\ lock' = lock
    BY <1>3 DEF Terminated
  <2>2. /\ daemon'[d].at = "drain" /\ \A e \in Daemons \ {d} : daemon'[e] = daemon[e]
        /\ daemon' \in [Daemons -> DaemonRecord]
    BY <1>1, <2>1 DEF DaemonRecord, DaemonSteps
  <2> QED BY <1>3, <2>1, <2>2 DEF Home, HomeTypes, OneHome, Holds, Later, Ended
<1>4. CASE daemon[d].at \in {"lock", "clear", "bind", "start"}
  <2>1. daemon' = [daemon EXCEPT ![d].at = "gone"] /\ lock' \in {lock, None}
    BY <1>4 DEF Terminated
  <2>2. /\ daemon'[d].at = "gone" /\ \A e \in Daemons \ {d} : daemon'[e] = daemon[e]
        /\ daemon' \in [Daemons -> DaemonRecord]
    BY <1>1, <2>1 DEF DaemonRecord, DaemonSteps
  <2>3. lock' # lock => lock = d
    BY DEF Terminated
  <2>4. OneHome'
    BY <2>2, <2>3 DEF Home, OneHome, Holds
  <2>5. Later(daemon, daemon')
    BY <1>4, <2>2 DEF Later, Ended
  <2> QED BY <2>1, <2>2, <2>4, <2>5 DEF Home, HomeTypes, Ended
<1>5. CASE daemon[d].at \in {"free", "drain", "close", "gone"}
  <2>1. daemon' = daemon /\ lock' = lock
    BY <1>5 DEF Terminated
  <2> QED BY <1>5, <2>1 DEF Home, HomeTypes, OneHome, Later, Ended
<1> QED BY <1>2, <1>3, <1>4, <1>5 DEF DaemonSteps

LEMMA ServeHome ==
    ASSUME Home, NEW d \in Daemons, ServeStep(d)
    PROVE  Home' /\ Later(daemon, daemon')
<1>1. daemon \in [Daemons -> DaemonRecord] /\ lock \in Daemons \cup {None} /\ sock \in Daemons \cup {None}
  BY DEF Home, HomeTypes
<1>2. ASSUME NEW from, NEW to \in DaemonSteps, Moves(d, from, to)
      PROVE  /\ daemon[d].at = from /\ daemon'[d].at = to /\ \A e \in Daemons \ {d} : daemon'[e] = daemon[e]
             /\ daemon' \in [Daemons -> DaemonRecord]
  BY <1>1, <1>2 DEF Moves, DaemonRecord
<1>3. {"clear", "bind", "start", "serve", "close", "gone"} \subseteq DaemonSteps
  BY DEF DaemonSteps
<1>4. CASE acquire_daemon_lock(d)
  <2>1. CASE lock = None
    <3>1. Moves(d, "lock", "clear") /\ lock' = d /\ sock' = sock
      BY <1>4, <2>1 DEF acquire_daemon_lock
    <3>2. /\ daemon[d].at = "lock" /\ daemon'[d].at = "clear" /\ \A e \in Daemons \ {d} : daemon'[e] = daemon[e]
          /\ daemon' \in [Daemons -> DaemonRecord]
      BY <1>2, <1>3, <3>1
    <3>3. OneHome'
      BY <2>1, <3>1, <3>2, NoneIsNoDaemon DEF Home, OneHome, Holds
    <3>4. Later(daemon, daemon')
      BY <3>2 DEF Later, Ended
    <3> QED BY <1>1, <3>1, <3>2, <3>3, <3>4 DEF Home, HomeTypes
  <2>2. CASE lock # None
    BY <1>4, <2>2, DiesHome DEF acquire_daemon_lock, Lives
  <2> QED BY <2>1, <2>2
<1>5. CASE ClearSocket(d)
  <2>1. Moves(d, "clear", "bind") /\ lock' = lock /\ sock' = None
    BY <1>5 DEF ClearSocket
  <2>2. /\ daemon[d].at = "clear" /\ daemon'[d].at = "bind" /\ \A e \in Daemons \ {d} : daemon'[e] = daemon[e]
        /\ daemon' \in [Daemons -> DaemonRecord]
    BY <1>2, <1>3, <2>1
  <2>3. \A e \in Daemons \ {d} : daemon[e].at \notin Holds
    BY <2>2 DEF Home, OneHome, Holds
  <2>4. OneHome'
    BY <2>1, <2>2, <2>3 DEF Home, OneHome, Holds
  <2>5. Later(daemon, daemon')
    BY <2>2 DEF Later, Ended
  <2> QED BY <1>1, <2>1, <2>2, <2>4, <2>5 DEF Home, HomeTypes
<1>6. CASE BindSocket(d)
  <2>1. CASE sock = None
    <3>1. Moves(d, "bind", "start") /\ lock' = lock /\ sock' = d
      BY <1>6, <2>1 DEF BindSocket
    <3>2. /\ daemon[d].at = "bind" /\ daemon'[d].at = "start" /\ \A e \in Daemons \ {d} : daemon'[e] = daemon[e]
          /\ daemon' \in [Daemons -> DaemonRecord]
      BY <1>2, <1>3, <3>1
    <3>3. OneHome'
      BY <2>1, <3>1, <3>2, NoneIsNoDaemon DEF Home, OneHome, Holds
    <3>4. Later(daemon, daemon')
      BY <3>2 DEF Later, Ended
    <3> QED BY <1>1, <3>1, <3>2, <3>3, <3>4 DEF Home, HomeTypes
  <2>2. CASE sock # None
    BY <1>6, <2>2, DiesHome DEF BindSocket, Lives
  <2> QED BY <2>1, <2>2
<1>7. CASE Listen(d)
  <2>1. Moves(d, "start", "serve") /\ lock' = lock /\ sock' = sock
    BY <1>7 DEF Listen
  <2>2. /\ daemon[d].at = "start" /\ daemon'[d].at = "serve" /\ \A e \in Daemons \ {d} : daemon'[e] = daemon[e]
        /\ daemon' \in [Daemons -> DaemonRecord]
    BY <1>2, <1>3, <2>1
  <2>3. OneHome'
    BY <2>1, <2>2 DEF Home, OneHome, Holds
  <2>4. Later(daemon, daemon')
    BY <2>2 DEF Later, Ended
  <2> QED BY <1>1, <2>1, <2>2, <2>3, <2>4 DEF Home, HomeTypes
<1>8. CASE CloseSocket(d)
  <2>1. Moves(d, "drain", "close") /\ lock' = lock /\ sock' = None
    BY <1>8 DEF CloseSocket
  <2>2. /\ daemon[d].at = "drain" /\ daemon'[d].at = "close" /\ \A e \in Daemons \ {d} : daemon'[e] = daemon[e]
        /\ daemon' \in [Daemons -> DaemonRecord]
    BY <1>2, <1>3, <2>1
  <2>3. \A e \in Daemons \ {d} : daemon[e].at \notin Holds
    BY <2>2 DEF Home, OneHome, Holds
  <2>4. OneHome'
    BY <2>1, <2>2, <2>3 DEF Home, OneHome, Holds
  <2>5. Later(daemon, daemon')
    BY <2>2 DEF Later, Ended
  <2> QED BY <1>1, <2>1, <2>2, <2>4, <2>5 DEF Home, HomeTypes
<1>9. CASE ReleaseLock(d)
  <2>1. Moves(d, "close", "gone") /\ lock' = None /\ sock' = sock
    BY <1>9 DEF ReleaseLock
  <2>2. /\ daemon[d].at = "close" /\ daemon'[d].at = "gone" /\ \A e \in Daemons \ {d} : daemon'[e] = daemon[e]
        /\ daemon' \in [Daemons -> DaemonRecord]
    BY <1>2, <1>3, <2>1
  <2>3. \A e \in Daemons \ {d} : daemon[e].at \notin Holds
    BY <2>2 DEF Home, OneHome, Holds
  <2>4. OneHome'
    BY <2>1, <2>2, <2>3 DEF Home, OneHome, Holds
  <2>5. Later(daemon, daemon')
    BY <2>2 DEF Later, Ended
  <2> QED BY <1>1, <2>1, <2>2, <2>4, <2>5 DEF Home, HomeTypes
<1> QED BY <1>4, <1>5, <1>6, <1>7, <1>8, <1>9 DEF ServeStep

-----------------------------------------------------------------------------

LEMMA SameIsLater == Later(daemon, daemon) /\ LaterWork(work, work)
BY DEF Later, LaterWork

\* What a command relies on lasts while processes and tasks move on
LEMMA GoodLasts ==
    ASSUME NEW r, NEW dm, NEW dn, NEW wk, NEW wn, Good(r, dm, wk), Later(dm, dn), LaterWork(wk, wn)
    PROVE  Good(r, dn, wn)
<1>1. r.peer \in Daemons \cup {None} /\ r.held \in SUBSET Works
  BY DEF Good, CommandRecord
<1>2. /\ r.peer # None => dn[r.peer].at \in Ended \cup {"serve"}
      /\ r.peer # None /\ (r.kind \notin Stops \/ r.at = "remove" \/ r.result = "done") => dn[r.peer].at \in Ended
  BY <1>1 DEF Good, Later
<1>3. /\ \A w \in r.held : wn[w] \in {"run", "stop", "ended"} \cup Tried
      /\ r.peer # None /\ (r.at \in {"route", "halt", "absent", "remove"} \/ r.result = "done") =>
            \A w \in r.held : wn[w] \in Tried
  BY <1>1 DEF Good, LaterWork
<1> QED BY <1>2, <1>3 DEF Good

\* A step of the host, of a daemon or of a task, while no command moves
LEMMA HostMoves ==
    ASSUME DaemonInv, Home', HostState', Later(daemon, daemon'), LaterWork(work, work'), UNCHANGED command
    PROVE  DaemonInv'
<1>1. ASSUME NEW c \in Commands PROVE Good(command'[c], daemon', work')
  BY GoodLasts DEF DaemonInv, CommandsAreGood
<1> QED BY <1>1 DEF DaemonInv, CommandsAreGood

\* A step of a command
LEMMA CommandMoves ==
    ASSUME DaemonInv, Home', HostState', Later(daemon, daemon'), LaterWork(work, work'),
           NEW c \in Commands, NEW r, command' = [command EXCEPT ![c] = r], Good(r, daemon', work')
    PROVE  DaemonInv'
<1>1. r \in CommandRecord /\ command \in [Commands -> CommandRecord]
  BY DEF Good, DaemonInv, CommandsAreGood
<1>2. ASSUME NEW e \in Commands PROVE Good(command'[e], daemon', work')
  <2>1. CASE e = c
    BY <1>1, <2>1
  <2>2. CASE e # c
    <3>1. command'[e] = command[e] /\ Good(command[e], daemon, work)
      BY <1>1, <2>2 DEF DaemonInv, CommandsAreGood
    <3> QED BY <3>1, GoodLasts
  <2> QED BY <2>1, <2>2
<1> QED BY <1>1, <1>2 DEF DaemonInv, CommandsAreGood

LEMMA HostStateLasts ==
    ASSUME HostState, Home, Later(daemon, daemon'), UNCHANGED <<unit, job, work, crashes>>
    PROVE  HostState'
BY DEF HostState, Later

LEMMA ItsGood ==
    ASSUME DaemonInv, NEW c \in Commands
    PROVE  Its(c) \in CommandRecord /\ Good(Its(c), daemon, work)
BY DEF DaemonInv, CommandsAreGood, Its

\* A command that goes on, or ends without success
LEMMA GoesGood ==
    ASSUME NEW r \in CommandRecord, NEW dm, NEW wk, Good(r, dm, wk),
           NEW to \in {"route", "absent", "spawn", "remove", "ask"},
           r.at \notin {"ready", "fetch", "look", "end"},
           to = "ask" => r.held = {},
           to = "spawn" => r.kind \notin Stops,
           to = "remove" /\ r.peer # None => dm[r.peer].at \in Ended,
           r.peer # None /\ to \in {"route", "absent", "remove"} => \A w \in r.held : wk[w] \in Tried
    PROVE  Good([r EXCEPT !.at = to], dm, wk)
<1> DEFINE q == [r EXCEPT !.at = to]
<1>1. /\ q \in CommandRecord /\ q.at = to /\ q.kind = r.kind /\ q.peer = r.peer /\ q.held = r.held
      /\ q.result = r.result
  BY DEF CommandRecord, CommandSteps
<1> HIDE DEF q
<1>2. r.result = "none"
  BY DEF Good
<1> SUFFICES Good(q, dm, wk)
  BY DEF q
<1> QED BY <1>1, <1>2 DEF Good

LEMMA EndsGood ==
    ASSUME NEW r \in CommandRecord, NEW dm, NEW wk, Good(r, dm, wk),
           NEW how \in {"done", "failed", "refused", "timeout"},
           how = "done" /\ r.peer # None => dm[r.peer].at \in Ended /\ \A w \in r.held : wk[w] \in Tried
    PROVE  Good([r EXCEPT !.at = "end", !.result = how, !.saw = "absent", !.yes = FALSE], dm, wk)
<1> DEFINE q == [r EXCEPT !.at = "end", !.result = how, !.saw = "absent", !.yes = FALSE]
<1>1. /\ q \in CommandRecord /\ q.at = "end" /\ q.kind = r.kind /\ q.peer = r.peer /\ q.held = r.held
      /\ q.result = how
  BY DEF CommandRecord, CommandSteps, HostUnitState
<1> HIDE DEF q
<1> SUFFICES Good(q, dm, wk)
  BY DEF q
<1> QED BY <1>1 DEF Good

\* Success needs the addressed daemon ended and its tasks told
LEMMA FinishesKeeps ==
    ASSUME DaemonInv, Home', HostState', Later(daemon, daemon'), LaterWork(work, work'),
           NEW c \in Commands, NEW how \in {"done", "failed", "refused", "timeout"}, Finishes(c, how),
           how = "done" /\ Its(c).peer # None =>
              daemon'[Its(c).peer].at \in Ended /\ \A w \in Its(c).held : work'[w] \in Tried
    PROVE  DaemonInv'
<1>1. Its(c) \in CommandRecord /\ Good(Its(c), daemon', work')
  BY ItsGood, GoodLasts
<1>2. Good([Its(c) EXCEPT !.at = "end", !.result = how, !.saw = "absent", !.yes = FALSE], daemon', work')
  BY <1>1, EndsGood
<1> QED BY <1>2, CommandMoves DEF Finishes, Set

LEMMA GoesKeeps ==
    ASSUME DaemonInv, Home', HostState', Later(daemon, daemon'), LaterWork(work, work'),
           NEW c \in Commands, NEW to \in {"route", "absent", "spawn", "remove", "ask"}, Goes(c, to),
           Its(c).at \notin {"ready", "fetch", "look", "end"},
           to = "ask" => Its(c).held = {},
           to = "spawn" => Its(c).kind \notin Stops,
           to = "remove" /\ Its(c).peer # None => daemon'[Its(c).peer].at \in Ended,
           Its(c).peer # None /\ to \in {"route", "absent", "remove"} => \A w \in Its(c).held : work'[w] \in Tried
    PROVE  DaemonInv'
<1>1. Its(c) \in CommandRecord /\ Good(Its(c), daemon', work')
  BY ItsGood, GoodLasts
<1>2. Good([Its(c) EXCEPT !.at = to], daemon', work')
  BY <1>1, GoesGood
<1> QED BY <1>2, CommandMoves DEF Goes, Set

\* A step that leaves the host alone
LEMMA HostSame ==
    ASSUME DaemonInv, UNCHANGED <<daemon, lock, sock, unit, job, work, crashes>>
    PROVE  Home' /\ HostState' /\ Later(daemon, daemon') /\ LaterWork(work, work')
BY SameIsLater DEF DaemonInv, Home, HomeTypes, OneHome, HostState

-----------------------------------------------------------------------------

LEMMA BeginCommandKeeps ==
    ASSUME DaemonInv, NEW c \in Commands, NEW k \in Kinds, NEW yes \in BOOLEAN, BeginCommand(c, k, yes)
    PROVE  DaemonInv'
<1> DEFINE r == [NoCommand EXCEPT !.at = IF k \in {"install", "update"} THEN "fetch" ELSE "look",
                                  !.kind = k, !.yes = yes]
<1>1. UNCHANGED <<daemon, lock, sock, unit, job, work, crashes>> /\ command' = [command EXCEPT ![c] = r]
  BY DEF BeginCommand, Set
<1>2. /\ r \in CommandRecord /\ r.at \in {"fetch", "look"} /\ r.peer = None /\ r.held = {} /\ r.result = "none"
  BY DEF NoCommand, CommandRecord, CommandSteps, HostUnitState
<1> HIDE DEF r
<1>3. Good(r, daemon', work')
  BY <1>2 DEF Good
<1> QED BY <1>1, <1>3, HostSame, CommandMoves

LEMMA installKeeps ==
    ASSUME DaemonInv, NEW c \in Commands, install(c)
    PROVE  DaemonInv'
<1>1. /\ Its(c).peer = None /\ unit' = "mine" /\ UNCHANGED <<lock, sock, work, crashes>>
      /\ Finishes(c, "failed") \/ Finishes(c, "done")
  BY ItsGood DEF install, Good
<1>2. Home' /\ HostState' /\ Later(daemon, daemon')
  <2>1. CASE UNCHANGED <<daemon, job>>
    BY <1>1, <2>1, SameIsLater DEF DaemonInv, Home, HomeTypes, OneHome, HostState, HostUnitState
  <2>2. CASE HasSlot /\ Execs /\ job' = Slot
    BY <1>1, <2>2, ExecsHome DEF DaemonInv, HostState, HostUnitState
  <2> QED BY <2>1, <2>2 DEF install
<1> QED BY <1>1, <1>2, SameIsLater, FinishesKeeps

LEMMA replace_binaryKeeps ==
    ASSUME DaemonInv, NEW c \in Commands, replace_binary(c)
    PROVE  DaemonInv'
<1>1. UNCHANGED <<daemon, lock, sock, unit, job, work, crashes>> /\ Its(c).at = "fetch"
  BY DEF replace_binary
<1>2. CASE Finishes(c, "failed")
  BY <1>1, <1>2, HostSame, FinishesKeeps
<1>3. ASSUME NEW inPlace \in BOOLEAN, Set(c, [Its(c) EXCEPT !.at = "look", !.gone = inPlace])
      PROVE  DaemonInv'
  <2> DEFINE r == [Its(c) EXCEPT !.at = "look", !.gone = inPlace]
  <2>1. /\ r \in CommandRecord /\ r.at = "look" /\ r.peer = Its(c).peer /\ r.held = Its(c).held
        /\ r.result = Its(c).result /\ r.kind = Its(c).kind
    BY ItsGood DEF CommandRecord, CommandSteps
  <2>2. Its(c).peer = None /\ Its(c).held = {} /\ Its(c).result = "none"
    BY <1>1, ItsGood DEF Good
  <2>3. command' = [command EXCEPT ![c] = r]
    BY <1>3 DEF Set
  <2> HIDE DEF r
  <2>4. Good(r, daemon', work')
    BY <2>1, <2>2 DEF Good
  <2> QED BY <1>1, <2>3, <2>4, HostSame, CommandMoves
<1> QED BY <1>2, <1>3 DEF replace_binary

LEMMA inspect_host_unitKeeps ==
    ASSUME DaemonInv, NEW c \in Commands, inspect_host_unit(c)
    PROVE  DaemonInv'
<1>1. UNCHANGED <<daemon, lock, sock, unit, job, work, crashes>> /\ Its(c).at = "look" /\ unit \in HostUnitState
  BY DEF inspect_host_unit, DaemonInv, HostState
<1>2. CASE UninstallRefuses(c)
  BY <1>1, <1>2, HostSame, FinishesKeeps DEF inspect_host_unit
<1>3. CASE ~UninstallRefuses(c)
  <2> DEFINE to == IF Its(c).kind \in {"stop", "uninstall"} THEN "ask" ELSE "route"
             r == [Its(c) EXCEPT !.at = to, !.saw = unit]
  <2>1. /\ r \in CommandRecord /\ r.at \in {"ask", "route"} /\ r.peer = Its(c).peer /\ r.held = Its(c).held
        /\ r.result = Its(c).result /\ r.kind = Its(c).kind
    BY <1>1, ItsGood DEF CommandRecord, CommandSteps
  <2>2. Its(c).peer = None /\ Its(c).held = {} /\ Its(c).result = "none"
    BY <1>1, ItsGood DEF Good
  <2>3. command' = [command EXCEPT ![c] = r]
    BY <1>3 DEF inspect_host_unit, Set
  <2> HIDE DEF r
  <2>4. Good(r, daemon', work')
    BY <2>1, <2>2 DEF Good
  <2> QED BY <1>1, <2>3, <2>4, HostSame, CommandMoves
<1> QED BY <1>2, <1>3

LEMMA AskStatusKeeps ==
    ASSUME DaemonInv, NEW c \in Commands, AskStatus(c)
    PROVE  DaemonInv'
<1> DEFINE peer == Answering
           next == IF Its(c).kind \in {"stop", "uninstall"} THEN "check"
                   ELSE IF peer = None THEN "spawn"
                   ELSE "absent"
           r == [Its(c) EXCEPT !.at = next, !.peer = peer]
<1>1. /\ Its(c).at = "ask" /\ command' = [command EXCEPT ![c] = r]
      /\ UNCHANGED <<sock, unit, job, work, crashes>>
      /\ IF next = "absent" THEN Terminated(peer) ELSE UNCHANGED <<daemon, lock>>
  BY DEF AskStatus, Set
<1>2. peer \in Daemons \cup {None} /\ (peer # None => peer \in Daemons /\ daemon[peer].at = "serve")
  BY DEF Answering, Serves
<1>3. /\ Its(c).kind \in Stops => next = "check"
      /\ Its(c).kind \notin Stops /\ peer = None => next = "spawn"
      /\ Its(c).kind \notin Stops /\ peer # None => next = "absent"
  <2> HIDE DEF peer
  <2>1. CASE Its(c).kind \in {"stop", "uninstall"}
    BY <2>1 DEF Stops
  <2>2. CASE Its(c).kind \notin {"stop", "uninstall"} /\ peer = None
    BY <2>2 DEF Stops
  <2>3. CASE Its(c).kind \notin {"stop", "uninstall"} /\ peer # None
    BY <2>3 DEF Stops
  <2> QED BY <2>1, <2>2, <2>3
<1>4. /\ r \in CommandRecord /\ r.at = next /\ r.peer = peer /\ r.held = Its(c).held
      /\ r.result = Its(c).result /\ r.kind = Its(c).kind
  BY <1>2, <1>3, ItsGood DEF CommandRecord, CommandSteps
<1>5. Its(c).held = {} /\ Its(c).result = "none"
  BY <1>1, ItsGood DEF Good
<1> HIDE DEF r, next, peer
<1>6. CASE next = "absent"
  <2>1. peer \in Daemons /\ Terminated(peer) /\ Its(c).kind \notin Stops /\ daemon[peer].at # "free"
    BY <1>1, <1>2, <1>3, <1>6
  <2>2. Home' /\ Later(daemon, daemon') /\ daemon'[peer].at \in Ended
    BY <1>1, <2>1, TerminatedHome DEF DaemonInv
  <2>3. HostState'
    BY <1>1, <2>2, HostStateLasts DEF DaemonInv
  <2>4. Good(r, daemon', work')
    BY <1>4, <1>5, <1>6, <2>1, <2>2 DEF Good
  <2>5. LaterWork(work, work')
    BY <1>1, SameIsLater
  <2> QED BY <1>1, <2>2, <2>3, <2>4, <2>5, CommandMoves
<1>7. CASE next # "absent"
  <2>1. UNCHANGED <<daemon, lock, sock, unit, job, work, crashes>>
    BY <1>1, <1>7
  <2>2. next \in {"check", "spawn"} /\ (peer # None => next = "check" /\ Its(c).kind \in Stops)
        /\ (next = "spawn" <=> Its(c).kind \notin Stops)
    BY <1>3, <1>7
  <2>3. Good(r, daemon', work')
    BY <1>2, <1>4, <1>5, <2>1, <2>2 DEF Good
  <2> QED BY <1>1, <2>1, <2>3, HostSame, CommandMoves
<1> QED BY <1>6, <1>7

LEMMA ensure_idle_or_cancelKeeps ==
    ASSUME DaemonInv, NEW c \in Commands, ensure_idle_or_cancel(c)
    PROVE  DaemonInv'
<1>1. Its(c).at = "check" /\ UNCHANGED <<daemon, lock, sock, unit, job, crashes>> /\ Its(c).held = {}
      /\ Its(c).result = "none"
  BY ItsGood DEF ensure_idle_or_cancel, Good
<1>2. CASE in_flight = {}
  BY <1>1, <1>2, HostSame, GoesKeeps DEF ensure_idle_or_cancel
<1>3. CASE in_flight # {} /\ ~Its(c).yes
  BY <1>1, <1>3, HostSame, FinishesKeeps DEF ensure_idle_or_cancel
<1>4. CASE in_flight # {} /\ Its(c).yes
  <2> DEFINE r == [Its(c) EXCEPT !.at = "wait", !.held = in_flight]
  <2>1. /\ command' = [command EXCEPT ![c] = r]
        /\ \/ work' = work
           \/ work' = [w \in Works |-> IF w \in in_flight THEN "stop" ELSE work[w]]
    BY <1>4 DEF ensure_idle_or_cancel, Set
  <2>2. work \in [Works -> WorkSteps]
    BY DEF DaemonInv, HostState
  <2>3. LaterWork(work, work') /\ work' \in [Works -> WorkSteps]
    BY <2>1, <2>2 DEF LaterWork, in_flight, Tried, WorkSteps
  <2>4. \A w \in in_flight : work'[w] \in {"run", "stop"}
    BY <2>1, <2>2 DEF in_flight
  <2>5. Home' /\ HostState' /\ Later(daemon, daemon')
    BY <1>1, <2>3, SameIsLater DEF DaemonInv, Home, HomeTypes, OneHome, HostState
  <2>6. /\ r \in CommandRecord /\ r.at = "wait" /\ r.peer = Its(c).peer /\ r.held = in_flight
        /\ r.result = Its(c).result /\ r.kind = Its(c).kind
    BY ItsGood DEF CommandRecord, CommandSteps, in_flight
  <2>7. Its(c).kind \in Stops
    BY <1>1, <1>4, ItsGood DEF Good
  <2> HIDE DEF r
  <2>8. Good(r, daemon', work')
    BY <1>1, <2>4, <2>6, <2>7, ItsGood DEF Good
  <2> QED BY <2>1, <2>3, <2>5, <2>8, CommandMoves
<1> QED BY <1>2, <1>3, <1>4

LEMMA wait_terminal_and_callbackKeeps ==
    ASSUME DaemonInv, NEW c \in Commands, wait_terminal_and_callback(c)
    PROVE  DaemonInv'
<1>1. UNCHANGED <<daemon, lock, sock, unit, job, work, crashes>> /\ Its(c).at = "wait"
  BY DEF wait_terminal_and_callback
<1>2. CASE Busy(c)
  BY <1>1, <1>2, HostSame, FinishesKeeps DEF wait_terminal_and_callback
<1>3. CASE ~Busy(c)
  <2>1. Goes(c, "route")
    BY <1>3 DEF wait_terminal_and_callback
  <2>2. Its(c).peer # None => in_flight = {} /\ PendingCallbacks = {}
    BY <1>3 DEF Busy
  <2>3. \A w \in Its(c).held : w \in Works /\ work[w] \in {"run", "stop", "ended"} \cup Tried
    BY ItsGood DEF Good, CommandRecord
  <2>4. Its(c).peer # None => \A w \in Its(c).held : work'[w] \in Tried
    BY <1>1, <2>2, <2>3 DEF in_flight, PendingCallbacks
  <2> QED BY <1>1, <2>1, <2>4, HostSame, GoesKeeps
<1> QED BY <1>2, <1>3

\* The host signals the main process of the unit
LEMMA HostSignalsHome ==
    ASSUME DaemonInv, HostSignals, UNCHANGED sock
    PROVE  /\ Home' /\ Later(daemon, daemon')
           /\ job \in Daemons => daemon'[job].at \in Ended
<1>1. CASE job \in Daemons
  BY <1>1, TerminatedHome DEF HostSignals, DaemonInv, HostState
<1>2. CASE job \notin Daemons
  BY <1>2, SameIsLater DEF HostSignals, DaemonInv, Home, HomeTypes, OneHome
<1> QED BY <1>1, <1>2

LEMMA TakeRouteKeeps ==
    ASSUME DaemonInv, NEW c \in Commands, TakeRoute(c)
    PROVE  DaemonInv'
<1> DEFINE stops == Its(c).kind \in {"stop", "uninstall"}
           peer == IF stops THEN Its(c).peer ELSE IF job = Other THEN None ELSE job
<1>1. /\ Its(c).at = "route" /\ UNCHANGED <<sock, unit, job, work, crashes>>
      /\ LaterWork(work, work') /\ stops = (Its(c).kind \in Stops)
  BY SameIsLater DEF TakeRoute, Stops
<1>2. /\ Its(c).peer \in Daemons \cup {None} /\ Its(c).result = "none"
      /\ Its(c).peer # None => /\ daemon[Its(c).peer].at \in Ended \cup {"serve"}
                               /\ \A w \in Its(c).held : work[w] \in Tried
      /\ Its(c).kind \notin Stops => Its(c).held = {}
      /\ Its(c).peer # None /\ Its(c).kind \notin Stops => daemon[Its(c).peer].at \in Ended
  BY <1>1, ItsGood DEF Good, CommandRecord
<1>3. CASE Route(c) = "host"
  <2> DEFINE r == [Its(c) EXCEPT !.at = "halt", !.peer = peer]
  <2>1. HostSignals /\ command' = [command EXCEPT ![c] = r]
    BY <1>3 DEF TakeRoute, Set
  <2>2. Home' /\ Later(daemon, daemon') /\ (job \in Daemons => daemon'[job].at \in Ended)
    BY <1>1, <2>1, HostSignalsHome
  <2>3. HostState'
    BY <1>1, <2>2, HostStateLasts DEF DaemonInv
  <2>4. peer \in Daemons \cup {None} /\ (~stops /\ peer # None => job \in Daemons /\ peer = job)
    BY <1>2 DEF DaemonInv, HostState
  <2>5. /\ r \in CommandRecord /\ r.at = "halt" /\ r.peer = peer /\ r.held = Its(c).held
        /\ r.result = "none" /\ r.kind = Its(c).kind
    BY ZenonT(60), <1>2, <2>4, ItsGood DEF CommandRecord, CommandSteps
  <2>6. CASE stops
    <3>1. peer = Its(c).peer /\ Its(c).kind \in Stops
      BY <1>1, <2>6
    <3> HIDE DEF r, peer, stops
    <3>2. peer # None => daemon'[peer].at \in Ended \cup {"serve"}
      BY <1>2, <2>2, <3>1 DEF Later
    <3>3. (peer # None => \A w \in Its(c).held : work'[w] \in Tried)
          /\ \A w \in Its(c).held : work'[w] \in {"run", "stop", "ended"} \cup Tried
      BY <1>1, <1>2, <3>1, ItsGood DEF Good
    <3>4. Good(r, daemon', work')
      BY <2>5, <3>1, <3>2, <3>3 DEF Good
    <3> QED BY <1>1, <2>1, <2>2, <2>3, <3>4, CommandMoves
  <2>7. CASE ~stops
    <3>1. Its(c).kind \notin Stops /\ (peer # None => daemon'[peer].at \in Ended) /\ Its(c).held = {}
      BY <1>1, <1>2, <2>2, <2>4, <2>7
    <3> HIDE DEF r, peer, stops
    <3>2. Good(r, daemon', work')
      BY <2>5, <3>1 DEF Good
    <3> QED BY <1>1, <2>1, <2>2, <2>3, <3>2, CommandMoves
  <2> QED BY <2>6, <2>7
<1>4. CASE Route(c) # "host" /\ stops
  <2>1. /\ Goes(c, "absent")
        /\ IF Its(c).peer = None THEN UNCHANGED <<daemon, lock>> ELSE Terminated(Its(c).peer)
    BY <1>4 DEF TakeRoute
  <2>2. Home' /\ Later(daemon, daemon')
    <3>1. CASE Its(c).peer = None
      BY <1>1, <2>1, <3>1, SameIsLater DEF DaemonInv, Home, HomeTypes, OneHome
    <3>2. CASE Its(c).peer # None
      BY <1>1, <1>2, <2>1, <3>2, TerminatedHome DEF DaemonInv
    <3> QED BY <3>1, <3>2
  <2>3. HostState'
    BY <1>1, <2>2, HostStateLasts DEF DaemonInv
  <2> QED BY <1>1, <1>2, <2>1, <2>2, <2>3, GoesKeeps
<1>5. CASE Route(c) # "host" /\ ~stops
  <2>1. Goes(c, "ask") /\ UNCHANGED <<daemon, lock>>
    BY <1>5 DEF TakeRoute
  <2>2. Its(c).held = {}
    BY <1>1, <1>2, <1>5
  <2> QED BY <1>1, <2>1, <2>2, HostSame, GoesKeeps
<1> QED BY <1>3, <1>4, <1>5

LEMMA StartsUp ==
    ASSUME NEW r \in CommandRecord, NEW dm, NEW wk, Good(r, dm, wk), r.kind \notin Stops,
           r.at \in {"halt", "spawn"}
    PROVE  Good([r EXCEPT !.at = "up", !.spawned = TRUE], dm, wk)
<1> DEFINE q == [r EXCEPT !.at = "up", !.spawned = TRUE]
<1>1. /\ q \in CommandRecord /\ q.at = "up" /\ q.kind = r.kind /\ q.peer = r.peer /\ q.held = r.held
      /\ q.result = r.result
  BY DEF CommandRecord, CommandSteps
<1> HIDE DEF q
<1>2. r.result = "none" /\ r.held = {}
  BY DEF Good
<1> SUFFICES Good(q, dm, wk)
  BY DEF q
<1> QED BY <1>1, <1>2 DEF Good

LEMMA HostHaltsKeeps ==
    ASSUME DaemonInv, NEW c \in Commands, HostHalts(c)
    PROVE  DaemonInv'
<1>1. Its(c).at = "halt" /\ UNCHANGED <<lock, sock, unit, work, crashes>> /\ LaterWork(work, work')
  BY SameIsLater DEF HostHalts
<1>2. CASE Its(c).kind \in Stops
  <2>1. Goes(c, "absent") /\ job' = None /\ UNCHANGED daemon
    BY <1>2 DEF HostHalts, Stops
  <2>2. Home' /\ HostState' /\ Later(daemon, daemon')
    BY <1>1, <2>1, SameIsLater, NoneIsNoDaemon DEF DaemonInv, Home, HomeTypes, OneHome, HostState
  <2>3. Its(c).peer # None => \A w \in Its(c).held : work'[w] \in Tried
    BY <1>1, ItsGood DEF Good
  <2> QED BY <1>1, <2>1, <2>2, <2>3, GoesKeeps
<1>3. CASE Its(c).kind \notin Stops
  <2>1. /\ HasSlot /\ Execs /\ job' = Slot
        /\ command' = [command EXCEPT ![c] = [Its(c) EXCEPT !.at = "up", !.spawned = TRUE]]
    BY <1>3 DEF HostHalts, Stops, Set
  <2>2. Home' /\ HostState' /\ Later(daemon, daemon')
    BY <1>1, <2>1, ExecsHome DEF DaemonInv, HostState
  <2>3. Good(Its(c), daemon', work') /\ Its(c) \in CommandRecord
    BY <1>1, <2>2, ItsGood, GoodLasts
  <2>4. Good([Its(c) EXCEPT !.at = "up", !.spawned = TRUE], daemon', work')
    BY <1>1, <1>3, <2>3, StartsUp
  <2> QED BY <1>1, <2>1, <2>2, <2>4, CommandMoves
<1> QED BY <1>2, <1>3

\* Nobody serves where no socket is
LEMMA NoSocketNoService ==
    ASSUME DaemonInv, sock = None, NEW c \in Commands, Its(c).peer # None
    PROVE  daemon[Its(c).peer].at \in Ended
<1>1. Its(c).peer \in Daemons /\ daemon[Its(c).peer].at \in Ended \cup {"serve"}
  BY ItsGood DEF Good, CommandRecord
<1> QED BY <1>1, NoneIsNoDaemon DEF DaemonInv, Home, OneHome

LEMMA wait_socket_goneKeeps ==
    ASSUME DaemonInv, NEW c \in Commands, wait_socket_gone(c)
    PROVE  DaemonInv'
<1>1. /\ Its(c).at = "absent" /\ UNCHANGED <<daemon, lock, sock, unit, job, work, crashes>>
      /\ Its(c).peer # None => \A w \in Its(c).held : work'[w] \in Tried
  BY ItsGood DEF wait_socket_gone, Good
<1>2. CASE sock # None
  BY <1>1, <1>2, HostSame, FinishesKeeps DEF wait_socket_gone, SocketGone
<1>3. CASE sock = None
  <2>1. Its(c).peer # None => daemon'[Its(c).peer].at \in Ended
    BY <1>1, <1>3, NoSocketNoService
  <2>2. CASE Its(c).kind = "stop"
    <3>1. Finishes(c, "done")
      BY <1>3, <2>2 DEF wait_socket_gone, SocketGone
    <3> QED BY <1>1, <2>1, <3>1, HostSame, FinishesKeeps
  <2>3. CASE Its(c).kind = "uninstall"
    <3>1. Goes(c, "remove")
      BY <1>3, <2>3 DEF wait_socket_gone, SocketGone
    <3> QED BY <1>1, <2>1, <3>1, HostSame, GoesKeeps
  <2>4. CASE Its(c).kind \notin Stops
    <3>1. Goes(c, "spawn")
      BY <1>3, <2>4 DEF wait_socket_gone, SocketGone, Stops
    <3> QED BY <1>1, <2>1, <2>4, <3>1, HostSame, GoesKeeps
  <2> QED BY <2>2, <2>3, <2>4 DEF Stops
<1> QED BY <1>2, <1>3

LEMMA uninstallKeeps ==
    ASSUME DaemonInv, NEW c \in Commands, uninstall(c)
    PROVE  DaemonInv'
<1>1. /\ Its(c).at = "remove" /\ UNCHANGED <<sock, work, crashes>> /\ LaterWork(work, work')
      /\ Its(c).peer # None => /\ daemon[Its(c).peer].at \in Ended
                               /\ \A w \in Its(c).held : work'[w] \in Tried
      /\ Its(c).peer \in Daemons \cup {None}
  BY SameIsLater, ItsGood DEF uninstall, Good, CommandRecord
<1>2. CASE unit = "other"
  <2>1. UNCHANGED <<daemon, lock, unit, job>> /\ Finishes(c, "refused")
    BY <1>2 DEF uninstall
  <2> QED BY <1>1, <2>1, HostSame, FinishesKeeps
<1>3. CASE unit = "mine"
  <2>1. HostSignals /\ job' = None /\ unit' = "absent" /\ Finishes(c, "done")
    BY <1>3 DEF uninstall
  <2>2. Home' /\ Later(daemon, daemon')
    BY <1>1, <2>1, HostSignalsHome
  <2>3. HostState'
    BY <1>1, <2>1, NoneIsNoDaemon DEF DaemonInv, HostState, HostUnitState
  <2>4. Its(c).peer # None => daemon'[Its(c).peer].at \in Ended
    BY <1>1, <2>2 DEF Later
  <2> QED BY <1>1, <2>1, <2>2, <2>3, <2>4, FinishesKeeps
<1>4. CASE unit \notin {"mine", "other"}
  <2>1. UNCHANGED <<daemon, lock, job>> /\ unit' = "absent" /\ Finishes(c, "done")
    BY <1>4 DEF uninstall
  <2>2. Home' /\ Later(daemon, daemon') /\ HostState'
    BY <1>1, <2>1, SameIsLater DEF DaemonInv, Home, HomeTypes, OneHome, HostState, HostUnitState
  <2> QED BY <1>1, <2>1, <2>2, FinishesKeeps
<1> QED BY <1>2, <1>3, <1>4

LEMMA SpawnServeKeeps ==
    ASSUME DaemonInv, NEW c \in Commands, SpawnServe(c)
    PROVE  DaemonInv'
<1>1. Its(c).at = "spawn" /\ UNCHANGED <<lock, sock, unit, job, work, crashes>> /\ LaterWork(work, work')
  BY SameIsLater DEF SpawnServe
<1>2. CASE Its(c).gone
  BY <1>1, <1>2, HostSame, FinishesKeeps DEF SpawnServe
<1>3. CASE ~Its(c).gone
  <2>1. HasSlot /\ Execs /\ command' = [command EXCEPT ![c] = [Its(c) EXCEPT !.at = "up", !.spawned = TRUE]]
    BY <1>3 DEF SpawnServe, Set
  <2>2. Home' /\ Later(daemon, daemon')
    BY <1>1, <2>1, ExecsHome DEF DaemonInv
  <2>3. HostState'
    BY <1>1, <2>2, HostStateLasts DEF DaemonInv
  <2>4. Good(Its(c), daemon', work') /\ Its(c) \in CommandRecord /\ Its(c).kind \notin Stops
    BY <1>1, <2>2, ItsGood, GoodLasts DEF Good
  <2>5. Good([Its(c) EXCEPT !.at = "up", !.spawned = TRUE], daemon', work')
    BY <1>1, <2>4, StartsUp
  <2> QED BY <1>1, <2>1, <2>2, <2>3, <2>5, CommandMoves
<1> QED BY <1>2, <1>3

LEMMA wait_socket_upKeeps ==
    ASSUME DaemonInv, NEW c \in Commands, wait_socket_up(c)
    PROVE  DaemonInv'
<1>1. /\ Its(c).at = "up" /\ UNCHANGED <<daemon, lock, sock, unit, job, work, crashes>>
      /\ Finishes(c, IF sock # None THEN "done" ELSE "timeout")
  BY DEF wait_socket_up
<1>2. Its(c).peer # None => daemon'[Its(c).peer].at \in Ended /\ \A w \in Its(c).held : work'[w] \in Tried
  BY <1>1, ItsGood DEF Good
<1>3. Finishes(c, "done") \/ Finishes(c, "timeout")
  BY <1>1
<1> QED BY <1>1, <1>2, <1>3, HostSame, FinishesKeeps

LEMMA HostStepKeeps ==
    ASSUME DaemonInv, ServeByHand \/ UnitRestarts \/ OtherInstalls
    PROVE  DaemonInv'
<1>1. CASE ServeByHand
  <2>1. Home' /\ Later(daemon, daemon')
    BY <1>1, ExecsHome DEF ServeByHand, DaemonInv
  <2>2. HostState'
    BY <1>1, <2>1, HostStateLasts DEF ServeByHand, DaemonInv
  <2> QED BY <1>1, <2>1, <2>2, SameIsLater, HostMoves DEF ServeByHand
<1>2. CASE UnitRestarts
  <2>1. Home' /\ Later(daemon, daemon') /\ Slot \in Daemons /\ daemon'[Slot].at # "free"
    BY <1>2, ExecsHome DEF UnitRestarts, DaemonInv
  <2>2. HostState'
    BY <1>2, <2>1 DEF UnitRestarts, DaemonInv, HostState
  <2> QED BY <1>2, <2>1, <2>2, SameIsLater, HostMoves DEF UnitRestarts
<1>3. CASE OtherInstalls
  <2>1. UNCHANGED <<daemon, lock, sock, work, command, crashes>> /\ unit' = "other" /\ job' \in {job, Other}
    BY <1>3 DEF OtherInstalls
  <2>2. HostState'
    BY <2>1, NoneIsNoDaemon DEF DaemonInv, HostState, HostUnitState
  <2>3. Home' /\ Later(daemon, daemon') /\ LaterWork(work, work')
    BY <2>1, SameIsLater DEF DaemonInv, Home, HomeTypes, OneHome
  <2> QED BY <2>1, <2>2, <2>3, HostMoves
<1> QED BY <1>1, <1>2, <1>3

LEMMA DaemonStepKeeps ==
    ASSUME DaemonInv, NEW d \in Daemons, ServeStep(d) \/ SupervisorDies(d) \/ DaemonCrashes(d)
    PROVE  DaemonInv'
<1>1. CASE ServeStep(d)
  <2>1. UNCHANGED <<unit, job, work, command, crashes>>
    BY <1>1 DEF ServeStep, acquire_daemon_lock, ClearSocket, BindSocket, Listen, CloseSocket, ReleaseLock
  <2>2. Home' /\ Later(daemon, daemon')
    BY <1>1, ServeHome DEF DaemonInv
  <2>3. HostState'
    BY <2>1, <2>2, HostStateLasts DEF DaemonInv
  <2> QED BY <2>1, <2>2, <2>3, SameIsLater, HostMoves
<1>2. CASE DaemonCrashes(d)
  <2>1. Home' /\ Later(daemon, daemon')
    BY <1>2, DiesHome DEF DaemonCrashes, DaemonInv
  <2>2. HostState'
    BY <1>2, <2>1, DaemonAssumption DEF DaemonCrashes, DaemonInv, HostState, Later
  <2> QED BY <1>2, <2>1, <2>2, SameIsLater, HostMoves DEF DaemonCrashes
<1>3. CASE SupervisorDies(d)
  <2>1. /\ daemon[d].at = "serve" /\ daemon' = [daemon EXCEPT ![d].at = "drain", ![d].failed = TRUE]
        /\ UNCHANGED <<lock, sock, unit, job, work, command>> /\ crashes < MaxCrashes /\ crashes' = crashes + 1
    BY <1>3 DEF SupervisorDies
  <2>2. daemon \in [Daemons -> DaemonRecord]
    BY DEF DaemonInv, Home, HomeTypes
  <2>3. /\ daemon'[d].at = "drain" /\ \A e \in Daemons \ {d} : daemon'[e] = daemon[e]
        /\ daemon' \in [Daemons -> DaemonRecord]
    BY <2>1, <2>2 DEF DaemonRecord, DaemonSteps
  <2>4. Home'
    BY <2>1, <2>3 DEF DaemonInv, Home, HomeTypes, OneHome, Holds
  <2>5. Later(daemon, daemon')
    BY <2>1, <2>3 DEF Later, Ended
  <2>6. HostState'
    <3>1. crashes' \in 0..MaxCrashes
      BY <2>1, DaemonAssumption DEF DaemonInv, HostState
    <3>2. job \in Daemons \cup {None, Other} /\ job' = job /\ unit' = unit /\ work' = work
      BY <2>1 DEF DaemonInv, HostState
    <3> QED BY <3>1, <3>2, <2>5 DEF DaemonInv, HostState, Later
  <2> QED BY <2>1, <2>4, <2>5, <2>6, SameIsLater, HostMoves
<1> QED BY <1>1, <1>2, <1>3

LEMMA WorkStepKeeps ==
    ASSUME DaemonInv, NEW w \in Works, SubmitWork(w) \/ WorkEnds(w) \/ CallbackSettles(w)
    PROVE  DaemonInv'
<1>1. /\ UNCHANGED <<daemon, lock, sock, unit, job, command, crashes>>
      /\ \/ work[w] = "none" /\ work' = [work EXCEPT ![w] = "run"]
         \/ work[w] \in {"run", "stop"} /\ \E owed \in {"ended", "elsewhere"} : work' = [work EXCEPT ![w] = owed]
         \/ work[w] \in {"ended", "sending"} /\ \E to \in {"told", "failed", "waiting"} : work' = [work EXCEPT ![w] = to]
         \/ work[w] = "waiting" /\ work' = [work EXCEPT ![w] = "sending"]
  BY DEF SubmitWork, WorkEnds, CallbackSettles, in_flight, PendingCallbacks
<1>2. work \in [Works -> WorkSteps]
  BY DEF DaemonInv, HostState
<1>3. LaterWork(work, work') /\ work' \in [Works -> WorkSteps]
  BY <1>1, <1>2 DEF LaterWork, Tried, WorkSteps
<1>4. Home' /\ HostState' /\ Later(daemon, daemon')
  BY <1>1, <1>3, SameIsLater DEF DaemonInv, Home, HomeTypes, OneHome, HostState
<1> QED BY <1>1, <1>3, <1>4, HostMoves

LEMMA DaemonStarts == DaemonInit => DaemonInv
<1> SUFFICES ASSUME DaemonInit PROVE DaemonInv
  OBVIOUS
<1>1. Home
  BY DEF DaemonInit, Home, HomeTypes, OneHome, Unborn, DaemonRecord, DaemonSteps, Holds
<1>2. HostState
  BY DaemonAssumption, NoneIsNoDaemon DEF DaemonInit, HostState, WorkSteps
<1>3. /\ NoCommand \in CommandRecord /\ NoCommand.at = "ready" /\ NoCommand.peer = None /\ NoCommand.held = {}
      /\ NoCommand.result = "none"
  BY DEF NoCommand, CommandRecord, CommandSteps, HostUnitState
<1>4. Good(NoCommand, daemon, work)
  BY <1>3 DEF Good
<1> QED BY <1>1, <1>2, <1>3, <1>4 DEF DaemonInit, DaemonInv, CommandsAreGood

LEMMA DaemonImplies == DaemonInv => StopIsTrue
<1> SUFFICES ASSUME DaemonInv PROVE StopIsTrue
  OBVIOUS
<1>1. DaemonTypeOK
  BY ItsGood DEF DaemonInv, Home, HomeTypes, DaemonRecord, HostState, DaemonTypeOK, CommandRecord
<1>2. ServingOwnsSocket
  BY DEF DaemonInv, Home, OneHome, Holds, ServingOwnsSocket, Serves
<1>3. ReportedIsEnded
  BY ItsGood DEF Good, Ended, ReportedIsEnded, Serves
<1>4. StopTriesCallbacks
  BY ItsGood DEF Good, StopTriesCallbacks
<1> QED BY <1>1, <1>2, <1>3, <1>4 DEF StopIsTrue

\* A daemon that serves owns its home's lock and socket, a stop, uninstall or
\* restart that reports success has ended the daemon it addressed, and of all
\* that `stop --yes' cancelled nothing runs and every callback this machine owes
\* was delivered, failed or put off by its thread, for any number of daemons,
\* commands and tasks that run at once (`serve', `stop_with_route',
\* `restart_daemon', `wait_socket_gone').
THEOREM StopIsTrueCorrect == DaemonSpec => []StopIsTrue
<1>1. DaemonInv /\ [DaemonNext]_daemonVars => DaemonInv'
  <2> SUFFICES ASSUME DaemonInv, [DaemonNext]_daemonVars PROVE DaemonInv'
    OBVIOUS
  <2>1. CASE UNCHANGED daemonVars
    BY <2>1, HostSame, HostMoves DEF daemonVars
  <2>2. ASSUME NEW c \in Commands, CommandStep(c) PROVE DaemonInv'
    BY <2>2, installKeeps, replace_binaryKeeps, inspect_host_unitKeeps, AskStatusKeeps,
       ensure_idle_or_cancelKeeps, wait_terminal_and_callbackKeeps, TakeRouteKeeps, HostHaltsKeeps,
       wait_socket_goneKeeps, uninstallKeeps, SpawnServeKeeps, wait_socket_upKeeps DEF CommandStep
  <2>3. CASE DaemonNext
    BY <2>2, <2>3, HostStepKeeps, DaemonStepKeeps, WorkStepKeeps, BeginCommandKeeps DEF DaemonNext
  <2> QED BY <2>1, <2>3
<1> QED BY <1>1, DaemonStarts, DaemonImplies, PTL DEF DaemonSpec

-----------------------------------------------------------------------------
(* A container task, for any bound of the daemon's failures and adoptions    *)

WorkerRecord == [at: WorkerPhases, adopts: BOOLEAN, reason: Reasons, killed: BOOLEAN,
                 reply: {"none", "ok", "refused"}]
RowRecord == [status: {"queued", "running", "exited", "lost"}, reason: Reasons, evidence: ExitEvidence]

\* ContainerTypeOK, one variable at a time
ContainerTypes ==
    /\ box \in ContainerStatus /\ inflight \subseteq DockerRequests /\ adoptions \in 0 .. AdoptionLimit
    /\ cid \in BOOLEAN /\ saved \in BOOLEAN /\ nameTaken \in BOOLEAN
    /\ cancelled \in BOOLEAN /\ ran \in BOOLEAN /\ outage \in BOOLEAN
    /\ runner \in WorkerRecord /\ row \in RowRecord
    /\ exits \subseteq {"own", "stopped"} /\ finishedAt \in {"none", "before", "after"}
    /\ unreached \in 0 .. containerFaults /\ containerFaults \in 0 .. MaxFaults

\* One create is ever sent, and nothing is started whose ID is not saved
RequestsOfTask ==
    /\ "create" \in inflight => box = "none"
    /\ "start" \in inflight => saved
    /\ row.status = "queued" => box = "none" /\ inflight = {}
    /\ saved \/ cid => box # "none"
    /\ box = "exited" => exits # {}

HasSavedId == {"saved", "starting", "looking", "removing", "supervising", "cancelling", "issuing",
               "stopping", "settling", "killing", "clearing"}

\* What a worker in a phase may rely on
PhaseOfWorker ==
    /\ row.status = "queued" <=> runner.at = "new"
    /\ row.status \in {"exited", "lost"} => runner.at = "none"
    /\ runner.at \in {"new", "creating", "probing", "saving"} => ~saved
    /\ runner.at \in HasSavedId => saved
    /\ runner.at \in {"saving", "dropping", "confirming"} => box # "none"
    /\ runner.at = "creating" /\ runner.reply = "ok" => box # "none"
    /\ runner.at = "clearing" => exits # {} /\ (runner.reason = "Cancelled" => finishedAt # "before")

\* The evidence stays true whatever dockerd still has to process
EvidenceLasts ==
    /\ row.evidence # "none" => row.status = "exited"
    /\ row.evidence = "NeverStarted" =>
          box \in {"none", "created", "gone"} /\ ("start" \in inflight => box = "gone")
    /\ row.evidence = "Confirmed" => box = "gone" /\ exits # {}
    /\ row.reason = "Cancelled" /\ row.evidence = "Confirmed" => finishedAt # "before"
    /\ row.status = "lost" => box = "gone" \/ outage \/ unreached >= AdoptionLimit

\* While the store keeps what it is told, a claimed adoption is a worker on its way to
\* the container, or one that died there
Reaching == runner.adopts /\ runner.at \in {"adopting", "adopting_again", "looking"}
AdoptionsAreDeaths ==
    row.status \in {"queued", "running"} /\ ~outage => adoptions <= unreached + (IF Reaching THEN 1 ELSE 0)

ContainerInv ==
    /\ ContainerTypes /\ RequestsOfTask /\ PhaseOfWorker /\ EvidenceLasts /\ AdoptionsAreDeaths

LEMMA NoWorkerIs ==
    /\ NoWorker \in WorkerRecord /\ NoWorker.at = "none" /\ NoWorker.adopts = FALSE
    /\ NoWorker.reason = "none" /\ NoWorker.killed = FALSE /\ NoWorker.reply = "none"
BY DEF NoWorker, WorkerRecord, WorkerPhases, Reasons

LEMMA LostRecorded ==
    ASSUME row \in RowRecord, lost
    PROVE  row'.status = "lost" /\ row'.evidence = row.evidence /\ row'.reason = row.reason
           /\ runner' = NoWorker /\ runner'.at = "none"
  BY NoWorkerIs DEF lost, RowRecord

LEMMA TurnsTo ==
    ASSUME runner \in WorkerRecord, NEW phase, Turns(phase)
    PROVE  /\ runner'.at = phase /\ runner'.reply = "none"
           /\ runner'.reason = runner.reason /\ runner'.adopts = runner.adopts
BY DEF Turns, WorkerRecord

LEMMA PlannedTo ==
    ASSUME runner \in WorkerRecord, NEW phase, NEW reason, Planned(phase, reason)
    PROVE  runner'.at = phase /\ runner'.reason = reason /\ runner'.adopts = runner.adopts
BY DEF Planned, WorkerRecord

LEMMA ExitRecorded ==
    ASSUME NEW reason, NEW evidence, record_exit(reason, evidence)
    PROVE  row'.status = "exited" /\ runner'.at = "none"
BY NoWorkerIs DEF record_exit

LEMMA LossRecorded ==
    ASSUME row \in RowRecord, lost
    PROVE  row'.status = "lost" /\ runner'.at = "none"
BY NoWorkerIs DEF lost, RowRecord

LEMMA engine_createKeeps ==
    ASSUME ContainerInv, engine_create
    PROVE  ContainerInv'
<1> USE DEF ContainerInv, dockerd, records, engine_create, Answers
<1>1. ContainerTypes'
  <2>1. runner' \in WorkerRecord
    BY DEF ContainerTypes, WorkerRecord, WorkerPhases, Reasons
  <2>2. row' \in RowRecord
    BY DEF ContainerTypes, WorkerRecord, RowRecord, Reasons, ExitEvidence
  <2>3. /\ box' \in ContainerStatus /\ inflight' \subseteq DockerRequests
        /\ exits' \subseteq {"own", "stopped"} /\ finishedAt' \in {"none", "before", "after"}
    BY DEF ContainerTypes, ContainerStatus, DockerRequests
  <2>4. /\ cid' \in BOOLEAN /\ saved' \in BOOLEAN /\ nameTaken' \in BOOLEAN
        /\ cancelled' \in BOOLEAN /\ ran' \in BOOLEAN /\ outage' \in BOOLEAN
    BY DEF ContainerTypes
  <2>5. /\ adoptions' \in 0 .. AdoptionLimit /\ containerFaults' \in 0 .. MaxFaults
        /\ unreached' \in 0 .. containerFaults'
    BY ContainerAssumption DEF ContainerTypes
  <2> QED BY <2>1, <2>2, <2>3, <2>4, <2>5 DEF ContainerTypes
<1>2. RequestsOfTask'
  BY ContainerAssumption DEF ContainerTypes, WorkerRecord, RowRecord, RequestsOfTask, PhaseOfWorker, HasSavedId
<1>3. PhaseOfWorker'
  BY ContainerAssumption DEF ContainerTypes, WorkerRecord, RowRecord, RequestsOfTask, PhaseOfWorker, HasSavedId
<1>4. EvidenceLasts'
  BY ContainerAssumption DEF ContainerTypes, WorkerRecord, RowRecord, RequestsOfTask, PhaseOfWorker, HasSavedId, EvidenceLasts, AdoptionsAreDeaths, Reaching
<1>5. AdoptionsAreDeaths'
  BY ContainerAssumption DEF ContainerTypes, WorkerRecord, RowRecord, PhaseOfWorker, AdoptionsAreDeaths, Reaching
<1> QED BY <1>1, <1>2, <1>3, <1>4, <1>5

LEMMA engine_startKeeps ==
    ASSUME ContainerInv, engine_start
    PROVE  ContainerInv'
<1> USE DEF ContainerInv, dockerd, records, engine_start, Answers
<1>1. ContainerTypes'
  <2>1. runner' \in WorkerRecord
    BY DEF ContainerTypes, WorkerRecord, WorkerPhases, Reasons
  <2>2. row' \in RowRecord
    BY DEF ContainerTypes, WorkerRecord, RowRecord, Reasons, ExitEvidence
  <2>3. /\ box' \in ContainerStatus /\ inflight' \subseteq DockerRequests
        /\ exits' \subseteq {"own", "stopped"} /\ finishedAt' \in {"none", "before", "after"}
    BY DEF ContainerTypes, ContainerStatus, DockerRequests
  <2>4. /\ cid' \in BOOLEAN /\ saved' \in BOOLEAN /\ nameTaken' \in BOOLEAN
        /\ cancelled' \in BOOLEAN /\ ran' \in BOOLEAN /\ outage' \in BOOLEAN
    BY DEF ContainerTypes
  <2>5. /\ adoptions' \in 0 .. AdoptionLimit /\ containerFaults' \in 0 .. MaxFaults
        /\ unreached' \in 0 .. containerFaults'
    BY ContainerAssumption DEF ContainerTypes
  <2> QED BY <2>1, <2>2, <2>3, <2>4, <2>5 DEF ContainerTypes
<1>2. RequestsOfTask'
  BY ContainerAssumption DEF ContainerTypes, WorkerRecord, RowRecord, RequestsOfTask, PhaseOfWorker, HasSavedId
<1>3. PhaseOfWorker'
  BY ContainerAssumption DEF ContainerTypes, WorkerRecord, RowRecord, RequestsOfTask, PhaseOfWorker, HasSavedId
<1>4. EvidenceLasts'
  BY ContainerAssumption DEF ContainerTypes, WorkerRecord, RowRecord, RequestsOfTask, PhaseOfWorker, HasSavedId, EvidenceLasts, AdoptionsAreDeaths, Reaching
<1>5. AdoptionsAreDeaths'
  BY ContainerAssumption DEF ContainerTypes, WorkerRecord, RowRecord, PhaseOfWorker, AdoptionsAreDeaths, Reaching
<1> QED BY <1>1, <1>2, <1>3, <1>4, <1>5

LEMMA engine_removeKeeps ==
    ASSUME ContainerInv, engine_remove
    PROVE  ContainerInv'
<1> USE DEF ContainerInv, dockerd, records, engine_remove, Answers
<1>1. ContainerTypes'
  <2>1. runner' \in WorkerRecord
    BY DEF ContainerTypes, WorkerRecord, WorkerPhases, Reasons
  <2>2. row' \in RowRecord
    BY DEF ContainerTypes, WorkerRecord, RowRecord, Reasons, ExitEvidence
  <2>3. /\ box' \in ContainerStatus /\ inflight' \subseteq DockerRequests
        /\ exits' \subseteq {"own", "stopped"} /\ finishedAt' \in {"none", "before", "after"}
    BY DEF ContainerTypes, ContainerStatus, DockerRequests
  <2>4. /\ cid' \in BOOLEAN /\ saved' \in BOOLEAN /\ nameTaken' \in BOOLEAN
        /\ cancelled' \in BOOLEAN /\ ran' \in BOOLEAN /\ outage' \in BOOLEAN
    BY DEF ContainerTypes
  <2>5. /\ adoptions' \in 0 .. AdoptionLimit /\ containerFaults' \in 0 .. MaxFaults
        /\ unreached' \in 0 .. containerFaults'
    BY ContainerAssumption DEF ContainerTypes
  <2> QED BY <2>1, <2>2, <2>3, <2>4, <2>5 DEF ContainerTypes
<1>2. RequestsOfTask'
  BY ContainerAssumption DEF ContainerTypes, WorkerRecord, RowRecord, RequestsOfTask, PhaseOfWorker, HasSavedId
<1>3. PhaseOfWorker'
  BY ContainerAssumption DEF ContainerTypes, WorkerRecord, RowRecord, RequestsOfTask, PhaseOfWorker, HasSavedId
<1>4. EvidenceLasts'
  BY ContainerAssumption DEF ContainerTypes, WorkerRecord, RowRecord, RequestsOfTask, PhaseOfWorker, HasSavedId, EvidenceLasts, AdoptionsAreDeaths, Reaching
<1>5. AdoptionsAreDeaths'
  BY ContainerAssumption DEF ContainerTypes, WorkerRecord, RowRecord, PhaseOfWorker, AdoptionsAreDeaths, Reaching
<1> QED BY <1>1, <1>2, <1>3, <1>4, <1>5

LEMMA engine_stopPhase ==
    ASSUME ContainerInv, NEW op \in {"stop", "kill"}, engine_stop(op)
    PROVE  PhaseOfWorker'
<1>1. /\ runner'.at = runner.at /\ runner'.reason = runner.reason
      /\ runner.at = "creating" => runner' = runner
  BY DEF engine_stop, Answers, ContainerInv, ContainerTypes, WorkerRecord, AwaitedExit
<1>2. /\ UNCHANGED <<row, saved>> /\ exits \subseteq exits' /\ finishedAt' \in {finishedAt, "after"}
      /\ box' = box \/ box' = "exited"
  BY DEF engine_stop, records, Exits
<1>3. exits # {} => exits' # {}
  BY <1>2
<1>4. /\ row.status = "queued" <=> runner.at = "new"
      /\ row.status \in {"exited", "lost"} => runner.at = "none"
      /\ runner.at \in {"new", "creating", "probing", "saving"} => ~saved
      /\ runner.at \in HasSavedId => saved
  BY DEF ContainerInv, PhaseOfWorker
<1>5. /\ runner.at \in {"saving", "dropping", "confirming"} => box' # "none"
      /\ runner.at = "creating" /\ runner'.reply = "ok" => box' # "none"
      /\ runner.at = "clearing" => exits' # {} /\ (runner.reason = "Cancelled" => finishedAt' # "before")
  BY <1>1, <1>2, <1>3 DEF ContainerInv, PhaseOfWorker
<1> QED BY <1>1, <1>2, <1>4, <1>5 DEF PhaseOfWorker

LEMMA engine_stopKeeps ==
    ASSUME ContainerInv, NEW op \in {"stop", "kill"}, engine_stop(op)
    PROVE  ContainerInv'
<1> USE DEF ContainerInv, dockerd, records, engine_stop, Answers, is_live, Exits
<1>1. ContainerTypes'
  <2>1. runner' \in WorkerRecord
    BY DEF ContainerTypes, WorkerRecord, WorkerPhases, Reasons
  <2>2. row' \in RowRecord
    BY DEF ContainerTypes, WorkerRecord, RowRecord, Reasons, ExitEvidence
  <2>3. /\ box' \in ContainerStatus /\ inflight' \subseteq DockerRequests
        /\ exits' \subseteq {"own", "stopped"} /\ finishedAt' \in {"none", "before", "after"}
    BY DEF ContainerTypes, ContainerStatus, DockerRequests
  <2>4. /\ cid' \in BOOLEAN /\ saved' \in BOOLEAN /\ nameTaken' \in BOOLEAN
        /\ cancelled' \in BOOLEAN /\ ran' \in BOOLEAN /\ outage' \in BOOLEAN
    BY DEF ContainerTypes
  <2>5. /\ adoptions' \in 0 .. AdoptionLimit /\ containerFaults' \in 0 .. MaxFaults
        /\ unreached' \in 0 .. containerFaults'
    BY ContainerAssumption DEF ContainerTypes
  <2> QED BY <2>1, <2>2, <2>3, <2>4, <2>5 DEF ContainerTypes
<1>2. RequestsOfTask'
  BY ContainerAssumption DEF ContainerTypes, WorkerRecord, RowRecord, RequestsOfTask, PhaseOfWorker, HasSavedId
<1>3. PhaseOfWorker'
  BY engine_stopPhase
<1>4. EvidenceLasts'
  BY ContainerAssumption DEF ContainerTypes, WorkerRecord, RowRecord, RequestsOfTask, PhaseOfWorker, HasSavedId, EvidenceLasts, AdoptionsAreDeaths, Reaching
<1>5. AdoptionsAreDeaths'
  BY ContainerAssumption DEF ContainerTypes, WorkerRecord, RowRecord, PhaseOfWorker, AdoptionsAreDeaths, Reaching
<1> QED BY <1>1, <1>2, <1>3, <1>4, <1>5

LEMMA ContainerExitsKeeps ==
    ASSUME ContainerInv, ContainerExits
    PROVE  ContainerInv'
<1> USE DEF ContainerInv, dockerd, records, ContainerExits, is_live, Exits
<1>1. ContainerTypes'
  <2>1. runner' \in WorkerRecord
    BY DEF ContainerTypes, WorkerRecord, WorkerPhases, Reasons
  <2>2. row' \in RowRecord
    BY DEF ContainerTypes, WorkerRecord, RowRecord, Reasons, ExitEvidence
  <2>3. /\ box' \in ContainerStatus /\ inflight' \subseteq DockerRequests
        /\ exits' \subseteq {"own", "stopped"} /\ finishedAt' \in {"none", "before", "after"}
    BY DEF ContainerTypes, ContainerStatus, DockerRequests
  <2>4. /\ cid' \in BOOLEAN /\ saved' \in BOOLEAN /\ nameTaken' \in BOOLEAN
        /\ cancelled' \in BOOLEAN /\ ran' \in BOOLEAN /\ outage' \in BOOLEAN
    BY DEF ContainerTypes
  <2>5. /\ adoptions' \in 0 .. AdoptionLimit /\ containerFaults' \in 0 .. MaxFaults
        /\ unreached' \in 0 .. containerFaults'
    BY ContainerAssumption DEF ContainerTypes
  <2> QED BY <2>1, <2>2, <2>3, <2>4, <2>5 DEF ContainerTypes
<1>2. RequestsOfTask'
  BY ContainerAssumption DEF ContainerTypes, WorkerRecord, RowRecord, RequestsOfTask, PhaseOfWorker, HasSavedId
<1>3. PhaseOfWorker'
  BY ContainerAssumption DEF ContainerTypes, WorkerRecord, RowRecord, RequestsOfTask, PhaseOfWorker, HasSavedId
<1>4. EvidenceLasts'
  BY ContainerAssumption DEF ContainerTypes, WorkerRecord, RowRecord, RequestsOfTask, PhaseOfWorker, HasSavedId, EvidenceLasts, AdoptionsAreDeaths, Reaching
<1>5. AdoptionsAreDeaths'
  BY ContainerAssumption DEF ContainerTypes, WorkerRecord, RowRecord, PhaseOfWorker, AdoptionsAreDeaths, Reaching
<1> QED BY <1>1, <1>2, <1>3, <1>4, <1>5

LEMMA OutsideCommandKeeps ==
    ASSUME ContainerInv, OutsideCommand
    PROVE  ContainerInv'
<1> USE DEF ContainerInv, dockerd, records, OutsideCommand, Fault, Present
<1>1. ContainerTypes'
  <2>1. runner' \in WorkerRecord
    BY DEF ContainerTypes, WorkerRecord, WorkerPhases, Reasons
  <2>2. row' \in RowRecord
    BY DEF ContainerTypes, WorkerRecord, RowRecord, Reasons, ExitEvidence
  <2>3. /\ box' \in ContainerStatus /\ inflight' \subseteq DockerRequests
        /\ exits' \subseteq {"own", "stopped"} /\ finishedAt' \in {"none", "before", "after"}
    BY DEF ContainerTypes, ContainerStatus, DockerRequests
  <2>4. /\ cid' \in BOOLEAN /\ saved' \in BOOLEAN /\ nameTaken' \in BOOLEAN
        /\ cancelled' \in BOOLEAN /\ ran' \in BOOLEAN /\ outage' \in BOOLEAN
    BY DEF ContainerTypes
  <2>5. /\ adoptions' \in 0 .. AdoptionLimit /\ containerFaults' \in 0 .. MaxFaults
        /\ unreached' \in 0 .. containerFaults'
    BY ContainerAssumption DEF ContainerTypes
  <2> QED BY <2>1, <2>2, <2>3, <2>4, <2>5 DEF ContainerTypes
<1>2. RequestsOfTask'
  BY ContainerAssumption DEF ContainerTypes, WorkerRecord, RowRecord, RequestsOfTask, PhaseOfWorker, HasSavedId
<1>3. PhaseOfWorker'
  BY ContainerAssumption DEF ContainerTypes, WorkerRecord, RowRecord, RequestsOfTask, PhaseOfWorker, HasSavedId
<1>4. EvidenceLasts'
  BY ContainerAssumption DEF ContainerTypes, WorkerRecord, RowRecord, RequestsOfTask, PhaseOfWorker, HasSavedId, EvidenceLasts, AdoptionsAreDeaths, Reaching
<1>5. AdoptionsAreDeaths'
  BY ContainerAssumption DEF ContainerTypes, WorkerRecord, RowRecord, PhaseOfWorker, AdoptionsAreDeaths, Reaching
<1> QED BY <1>1, <1>2, <1>3, <1>4, <1>5

LEMMA RequestCancelKeeps ==
    ASSUME ContainerInv, RequestCancel
    PROVE  ContainerInv'
<1> USE DEF ContainerInv, dockerd, records, RequestCancel
<1>1. ContainerTypes'
  <2>1. runner' \in WorkerRecord
    BY DEF ContainerTypes, WorkerRecord, WorkerPhases, Reasons
  <2>2. row' \in RowRecord
    BY DEF ContainerTypes, WorkerRecord, RowRecord, Reasons, ExitEvidence
  <2>3. /\ box' \in ContainerStatus /\ inflight' \subseteq DockerRequests
        /\ exits' \subseteq {"own", "stopped"} /\ finishedAt' \in {"none", "before", "after"}
    BY DEF ContainerTypes, ContainerStatus, DockerRequests
  <2>4. /\ cid' \in BOOLEAN /\ saved' \in BOOLEAN /\ nameTaken' \in BOOLEAN
        /\ cancelled' \in BOOLEAN /\ ran' \in BOOLEAN /\ outage' \in BOOLEAN
    BY DEF ContainerTypes
  <2>5. /\ adoptions' \in 0 .. AdoptionLimit /\ containerFaults' \in 0 .. MaxFaults
        /\ unreached' \in 0 .. containerFaults'
    BY ContainerAssumption DEF ContainerTypes
  <2> QED BY <2>1, <2>2, <2>3, <2>4, <2>5 DEF ContainerTypes
<1>2. RequestsOfTask'
  BY ContainerAssumption DEF ContainerTypes, WorkerRecord, RowRecord, RequestsOfTask, PhaseOfWorker, HasSavedId
<1>3. PhaseOfWorker'
  BY ContainerAssumption DEF ContainerTypes, WorkerRecord, RowRecord, RequestsOfTask, PhaseOfWorker, HasSavedId
<1>4. EvidenceLasts'
  BY ContainerAssumption DEF ContainerTypes, WorkerRecord, RowRecord, RequestsOfTask, PhaseOfWorker, HasSavedId, EvidenceLasts, AdoptionsAreDeaths, Reaching
<1>5. AdoptionsAreDeaths'
  BY ContainerAssumption DEF ContainerTypes, WorkerRecord, RowRecord, PhaseOfWorker, AdoptionsAreDeaths, Reaching
<1> QED BY <1>1, <1>2, <1>3, <1>4, <1>5

LEMMA launchPhase ==
    ASSUME ContainerInv, launch
    PROVE  PhaseOfWorker'
<1>1. runner \in WorkerRecord /\ row \in RowRecord /\ row.status \in {"queued", "running", "exited", "lost"}
  BY DEF ContainerInv, ContainerTypes, RowRecord
<1>2. UNCHANGED <<box, exits, finishedAt, saved>> /\ ~saved
  BY DEF launch, At, KeepDocker, records, ContainerInv, PhaseOfWorker
<1>3. \/ record_exit("Cancelled", "NeverStarted")
      \/ row' = [row EXCEPT !.status = "running"] /\ (Turns("adopting") \/ Turns("creating"))
  BY DEF launch, Sends
<1>4. \/ row'.status = "exited" /\ runner'.at = "none"
      \/ row'.status = "running" /\ runner'.at \in {"adopting", "creating"} /\ runner'.reply = "none"
  BY <1>1, <1>3, TurnsTo, ExitRecorded DEF RowRecord
<1> QED BY <1>2, <1>4 DEF PhaseOfWorker, HasSavedId

LEMMA launchKeeps ==
    ASSUME ContainerInv, launch
    PROVE  ContainerInv'
<1> USE DEF ContainerInv, dockerd, records, launch, At, record_exit, Turns, Sends, KeepDocker
<1>1. ContainerTypes'
  <2>1. runner' \in WorkerRecord
    BY ZenonT(60), NoWorkerIs DEF ContainerTypes, WorkerRecord, WorkerPhases, Reasons
  <2>2. row' \in RowRecord
    BY DEF ContainerTypes, WorkerRecord, RowRecord, Reasons, ExitEvidence
  <2>3. /\ box' \in ContainerStatus /\ inflight' \subseteq DockerRequests
        /\ exits' \subseteq {"own", "stopped"} /\ finishedAt' \in {"none", "before", "after"}
    BY DEF ContainerTypes, ContainerStatus, DockerRequests
  <2>4. /\ cid' \in BOOLEAN /\ saved' \in BOOLEAN /\ nameTaken' \in BOOLEAN
        /\ cancelled' \in BOOLEAN /\ ran' \in BOOLEAN /\ outage' \in BOOLEAN
    BY DEF ContainerTypes
  <2>5. /\ adoptions' \in 0 .. AdoptionLimit /\ containerFaults' \in 0 .. MaxFaults
        /\ unreached' \in 0 .. containerFaults'
    BY ContainerAssumption DEF ContainerTypes
  <2> QED BY <2>1, <2>2, <2>3, <2>4, <2>5 DEF ContainerTypes
<1>2. RequestsOfTask'
  BY ContainerAssumption, NoWorkerIs DEF ContainerTypes, WorkerRecord, RowRecord, RequestsOfTask, PhaseOfWorker, HasSavedId
<1>3. PhaseOfWorker'
  BY launchPhase
<1>4. EvidenceLasts'
  BY ContainerAssumption, NoWorkerIs DEF ContainerTypes, WorkerRecord, RowRecord, RequestsOfTask, PhaseOfWorker, HasSavedId, EvidenceLasts, AdoptionsAreDeaths, Reaching
<1>5. AdoptionsAreDeaths'
  BY ContainerAssumption, NoWorkerIs DEF ContainerTypes, WorkerRecord, RowRecord, PhaseOfWorker, AdoptionsAreDeaths, Reaching
<1> QED BY <1>1, <1>2, <1>3, <1>4, <1>5

LEMMA CreatedKeeps ==
    ASSUME ContainerInv, Created
    PROVE  ContainerInv'
<1> USE DEF ContainerInv, dockerd, records, Created, At, Turns, Fault
<1>1. ContainerTypes'
  <2>1. runner' \in WorkerRecord
    BY DEF ContainerTypes, WorkerRecord, WorkerPhases, Reasons
  <2>2. row' \in RowRecord
    BY DEF ContainerTypes, WorkerRecord, RowRecord, Reasons, ExitEvidence
  <2>3. /\ box' \in ContainerStatus /\ inflight' \subseteq DockerRequests
        /\ exits' \subseteq {"own", "stopped"} /\ finishedAt' \in {"none", "before", "after"}
    BY DEF ContainerTypes, ContainerStatus, DockerRequests
  <2>4. /\ cid' \in BOOLEAN /\ saved' \in BOOLEAN /\ nameTaken' \in BOOLEAN
        /\ cancelled' \in BOOLEAN /\ ran' \in BOOLEAN /\ outage' \in BOOLEAN
    BY DEF ContainerTypes
  <2>5. /\ adoptions' \in 0 .. AdoptionLimit /\ containerFaults' \in 0 .. MaxFaults
        /\ unreached' \in 0 .. containerFaults'
    BY ContainerAssumption DEF ContainerTypes
  <2> QED BY <2>1, <2>2, <2>3, <2>4, <2>5 DEF ContainerTypes
<1>2. RequestsOfTask'
  BY ContainerAssumption DEF ContainerTypes, WorkerRecord, RowRecord, RequestsOfTask, PhaseOfWorker, HasSavedId
<1>3. PhaseOfWorker'
  BY ZenonT(60), ContainerAssumption DEF ContainerTypes, WorkerRecord, RowRecord, RequestsOfTask, PhaseOfWorker, HasSavedId
<1>4. EvidenceLasts'
  BY ContainerAssumption DEF ContainerTypes, WorkerRecord, RowRecord, RequestsOfTask, PhaseOfWorker, HasSavedId, EvidenceLasts, AdoptionsAreDeaths, Reaching
<1>5. AdoptionsAreDeaths'
  BY ContainerAssumption DEF ContainerTypes, WorkerRecord, RowRecord, PhaseOfWorker, AdoptionsAreDeaths, Reaching
<1> QED BY <1>1, <1>2, <1>3, <1>4, <1>5

LEMMA after_failed_createPhase ==
    ASSUME ContainerInv, after_failed_create
    PROVE  PhaseOfWorker'
<1>1. runner \in WorkerRecord /\ row \in RowRecord /\ row.status \in {"queued", "running", "exited", "lost"}
  BY DEF ContainerInv, ContainerTypes, RowRecord
<1>2. UNCHANGED <<box, exits, finishedAt>> /\ row.status = "running"
  BY <1>1 DEF after_failed_create, At, dockerd, KeepDocker, ContainerInv, PhaseOfWorker
<1>3. CASE /\ row' = row /\ saved' = TRUE
           /\ runner' = [runner EXCEPT !.at = "looking", !.adopts = TRUE, !.reply = "none"]
  <2>2. runner'.at = "looking"
    BY <1>1, <1>3 DEF WorkerRecord
  <2> QED BY <1>2, <1>3, <2>2 DEF PhaseOfWorker, HasSavedId
<1>4. CASE record_exit("SpawnFailed", "NeverStarted")
  <2>2. row'.status = "exited" /\ runner'.at = "none"
    BY <1>4, ExitRecorded
  <2> QED BY <2>2 DEF PhaseOfWorker, HasSavedId
<1>5. CASE lost
  <2>2. row'.status = "lost" /\ runner'.at = "none"
    BY <1>1, <1>5, LostRecorded
  <2> QED BY <2>2 DEF PhaseOfWorker, HasSavedId
<1> QED BY <1>3, <1>4, <1>5 DEF after_failed_create, save_container

LEMMA after_failed_createKeeps ==
    ASSUME ContainerInv, after_failed_create
    PROVE  ContainerInv'
<1> USE DEF ContainerInv, dockerd, records, after_failed_create, At, Present, save_container, record_exit,
            lost, LedgerFails, Fault
<1>1. ContainerTypes'
  <2>1. runner' \in WorkerRecord
    BY ZenonT(60), NoWorkerIs DEF ContainerTypes, WorkerRecord, WorkerPhases, Reasons
  <2>2. row' \in RowRecord
    BY DEF ContainerTypes, WorkerRecord, RowRecord, Reasons, ExitEvidence
  <2>3. /\ box' \in ContainerStatus /\ inflight' \subseteq DockerRequests
        /\ exits' \subseteq {"own", "stopped"} /\ finishedAt' \in {"none", "before", "after"}
    BY DEF ContainerTypes, ContainerStatus, DockerRequests
  <2>4. /\ cid' \in BOOLEAN /\ saved' \in BOOLEAN /\ nameTaken' \in BOOLEAN
        /\ cancelled' \in BOOLEAN /\ ran' \in BOOLEAN /\ outage' \in BOOLEAN
    BY DEF ContainerTypes
  <2>5. /\ adoptions' \in 0 .. AdoptionLimit /\ containerFaults' \in 0 .. MaxFaults
        /\ unreached' \in 0 .. containerFaults'
    BY ContainerAssumption DEF ContainerTypes
  <2> QED BY <2>1, <2>2, <2>3, <2>4, <2>5 DEF ContainerTypes
<1>2. RequestsOfTask'
  BY ContainerAssumption, NoWorkerIs DEF ContainerTypes, WorkerRecord, RowRecord, RequestsOfTask, PhaseOfWorker, HasSavedId
<1>3. PhaseOfWorker'
  BY after_failed_createPhase
<1>4. EvidenceLasts'
  BY ContainerAssumption, NoWorkerIs DEF ContainerTypes, WorkerRecord, RowRecord, RequestsOfTask, PhaseOfWorker, HasSavedId, EvidenceLasts, AdoptionsAreDeaths, Reaching
<1>5. AdoptionsAreDeaths'
  BY ContainerAssumption, NoWorkerIs DEF ContainerTypes, WorkerRecord, RowRecord, PhaseOfWorker, AdoptionsAreDeaths, Reaching
<1> QED BY <1>1, <1>2, <1>3, <1>4, <1>5

LEMMA SaveCreatedKeeps ==
    ASSUME ContainerInv, SaveCreated
    PROVE  ContainerInv'
<1> USE DEF ContainerInv, dockerd, records, SaveCreated, At, save_container, Turns, Fault, Planned, KeepDocker
<1>1. ContainerTypes'
  <2>1. runner' \in WorkerRecord
    BY ZenonT(60) DEF ContainerTypes, WorkerRecord, WorkerPhases, Reasons
  <2>2. row' \in RowRecord
    BY DEF ContainerTypes, WorkerRecord, RowRecord, Reasons, ExitEvidence
  <2>3. /\ box' \in ContainerStatus /\ inflight' \subseteq DockerRequests
        /\ exits' \subseteq {"own", "stopped"} /\ finishedAt' \in {"none", "before", "after"}
    BY DEF ContainerTypes, ContainerStatus, DockerRequests
  <2>4. /\ cid' \in BOOLEAN /\ saved' \in BOOLEAN /\ nameTaken' \in BOOLEAN
        /\ cancelled' \in BOOLEAN /\ ran' \in BOOLEAN /\ outage' \in BOOLEAN
    BY DEF ContainerTypes
  <2>5. /\ adoptions' \in 0 .. AdoptionLimit /\ containerFaults' \in 0 .. MaxFaults
        /\ unreached' \in 0 .. containerFaults'
    BY ContainerAssumption DEF ContainerTypes
  <2> QED BY <2>1, <2>2, <2>3, <2>4, <2>5 DEF ContainerTypes
<1>2. RequestsOfTask'
  BY ContainerAssumption DEF ContainerTypes, WorkerRecord, RowRecord, RequestsOfTask, PhaseOfWorker, HasSavedId
<1>3. PhaseOfWorker'
  BY ZenonT(60), ContainerAssumption DEF ContainerTypes, WorkerRecord, RowRecord, RequestsOfTask, PhaseOfWorker, HasSavedId
<1>4. EvidenceLasts'
  BY ContainerAssumption DEF ContainerTypes, WorkerRecord, RowRecord, RequestsOfTask, PhaseOfWorker, HasSavedId, EvidenceLasts, AdoptionsAreDeaths, Reaching
<1>5. AdoptionsAreDeaths'
  BY ContainerAssumption DEF ContainerTypes, WorkerRecord, RowRecord, PhaseOfWorker, AdoptionsAreDeaths, Reaching
<1> QED BY <1>1, <1>2, <1>3, <1>4, <1>5

LEMMA StartSavedKeeps ==
    ASSUME ContainerInv, StartSaved
    PROVE  ContainerInv'
<1> USE DEF ContainerInv, dockerd, records, StartSaved, At, Planned, Sends, Turns, KeepDocker
<1>1. ContainerTypes'
  <2>1. runner' \in WorkerRecord
    BY ZenonT(60) DEF ContainerTypes, WorkerRecord, WorkerPhases, Reasons
  <2>2. row' \in RowRecord
    BY DEF ContainerTypes, WorkerRecord, RowRecord, Reasons, ExitEvidence
  <2>3. /\ box' \in ContainerStatus /\ inflight' \subseteq DockerRequests
        /\ exits' \subseteq {"own", "stopped"} /\ finishedAt' \in {"none", "before", "after"}
    BY DEF ContainerTypes, ContainerStatus, DockerRequests
  <2>4. /\ cid' \in BOOLEAN /\ saved' \in BOOLEAN /\ nameTaken' \in BOOLEAN
        /\ cancelled' \in BOOLEAN /\ ran' \in BOOLEAN /\ outage' \in BOOLEAN
    BY DEF ContainerTypes
  <2>5. /\ adoptions' \in 0 .. AdoptionLimit /\ containerFaults' \in 0 .. MaxFaults
        /\ unreached' \in 0 .. containerFaults'
    BY ContainerAssumption DEF ContainerTypes
  <2> QED BY <2>1, <2>2, <2>3, <2>4, <2>5 DEF ContainerTypes
<1>2. RequestsOfTask'
  BY ContainerAssumption DEF ContainerTypes, WorkerRecord, RowRecord, RequestsOfTask, PhaseOfWorker, HasSavedId
<1>3. PhaseOfWorker'
  BY ZenonT(60), ContainerAssumption DEF ContainerTypes, WorkerRecord, RowRecord, RequestsOfTask, PhaseOfWorker, HasSavedId
<1>4. EvidenceLasts'
  BY ContainerAssumption DEF ContainerTypes, WorkerRecord, RowRecord, RequestsOfTask, PhaseOfWorker, HasSavedId, EvidenceLasts, AdoptionsAreDeaths, Reaching
<1>5. AdoptionsAreDeaths'
  BY ContainerAssumption DEF ContainerTypes, WorkerRecord, RowRecord, PhaseOfWorker, AdoptionsAreDeaths, Reaching
<1> QED BY <1>1, <1>2, <1>3, <1>4, <1>5

LEMMA StartedKeeps ==
    ASSUME ContainerInv, Started
    PROVE  ContainerInv'
<1> USE DEF ContainerInv, dockerd, records, Started, At, Turns, Fault
<1>1. ContainerTypes'
  <2>1. runner' \in WorkerRecord
    BY DEF ContainerTypes, WorkerRecord, WorkerPhases, Reasons
  <2>2. row' \in RowRecord
    BY DEF ContainerTypes, WorkerRecord, RowRecord, Reasons, ExitEvidence
  <2>3. /\ box' \in ContainerStatus /\ inflight' \subseteq DockerRequests
        /\ exits' \subseteq {"own", "stopped"} /\ finishedAt' \in {"none", "before", "after"}
    BY DEF ContainerTypes, ContainerStatus, DockerRequests
  <2>4. /\ cid' \in BOOLEAN /\ saved' \in BOOLEAN /\ nameTaken' \in BOOLEAN
        /\ cancelled' \in BOOLEAN /\ ran' \in BOOLEAN /\ outage' \in BOOLEAN
    BY DEF ContainerTypes
  <2>5. /\ adoptions' \in 0 .. AdoptionLimit /\ containerFaults' \in 0 .. MaxFaults
        /\ unreached' \in 0 .. containerFaults'
    BY ContainerAssumption DEF ContainerTypes
  <2> QED BY <2>1, <2>2, <2>3, <2>4, <2>5 DEF ContainerTypes
<1>2. RequestsOfTask'
  BY ContainerAssumption DEF ContainerTypes, WorkerRecord, RowRecord, RequestsOfTask, PhaseOfWorker, HasSavedId
<1>3. PhaseOfWorker'
  BY ContainerAssumption DEF ContainerTypes, WorkerRecord, RowRecord, RequestsOfTask, PhaseOfWorker, HasSavedId
<1>4. EvidenceLasts'
  BY ContainerAssumption DEF ContainerTypes, WorkerRecord, RowRecord, RequestsOfTask, PhaseOfWorker, HasSavedId, EvidenceLasts, AdoptionsAreDeaths, Reaching
<1>5. AdoptionsAreDeaths'
  BY ContainerAssumption DEF ContainerTypes, WorkerRecord, RowRecord, PhaseOfWorker, AdoptionsAreDeaths, Reaching
<1> QED BY <1>1, <1>2, <1>3, <1>4, <1>5

LEMMA find_own_containerPhase ==
    ASSUME ContainerInv, find_own_container
    PROVE  PhaseOfWorker'
<1>1. runner \in WorkerRecord /\ row \in RowRecord /\ row.status \in {"queued", "running", "exited", "lost"}
  BY DEF ContainerInv, ContainerTypes, RowRecord
<1>2. UNCHANGED <<box, exits, finishedAt>> /\ row.status = "running"
  BY <1>1 DEF find_own_container, adopt, At, dockerd, KeepDocker, ContainerInv, PhaseOfWorker
<1>3. \/ saved' = TRUE /\ Turns("looking") /\ row' = row
      \/ Turns("adopting_again") /\ row' = row
      \/ record_exit("SpawnFailed", "NeverStarted")
      \/ lost
  BY DEF find_own_container, adopt, save_container
<1>4. \/ runner'.at = "looking" /\ saved' = TRUE /\ row' = row
      \/ runner'.at = "adopting_again" /\ row' = row
      \/ row'.status \in {"exited", "lost"} /\ runner'.at = "none"
  BY <1>1, <1>3, TurnsTo, ExitRecorded, LostRecorded
<1> QED BY <1>2, <1>4 DEF PhaseOfWorker, HasSavedId

LEMMA find_own_containerDeaths ==
    ASSUME ContainerInv, find_own_container
    PROVE  AdoptionsAreDeaths'
<1>1. /\ runner \in WorkerRecord /\ row \in RowRecord /\ row.status = "running"
      /\ UNCHANGED <<adoptions, unreached>>
      /\ runner.at \in {"adopting", "adopting_again"}
  BY DEF find_own_container, adopt, At, ContainerInv, ContainerTypes, RowRecord, PhaseOfWorker
<1>2. \/ Turns("looking") /\ outage' = outage
      \/ Turns("adopting_again") /\ outage' = outage
      \/ record_exit("SpawnFailed", "NeverStarted") \/ lost
  BY DEF find_own_container, adopt, save_container
<1>3. \/ runner'.at \in {"looking", "adopting_again"} /\ runner'.adopts = runner.adopts /\ outage' = outage
      \/ row'.status \in {"exited", "lost"}
  BY <1>1, <1>2, TurnsTo, ExitRecorded, LostRecorded
<1> QED BY <1>1, <1>3 DEF ContainerInv, AdoptionsAreDeaths, Reaching

LEMMA find_own_containerKeeps ==
    ASSUME ContainerInv, find_own_container
    PROVE  ContainerInv'
<1> USE DEF ContainerInv, dockerd, records, find_own_container, adopt, At, Present, save_container, Turns, record_exit,
            lost, LedgerFails, Fault
<1>1. ContainerTypes'
  <2>1. runner' \in WorkerRecord
    <3>1. \/ runner' = [runner EXCEPT !.at = "looking", !.reply = "none"]
          \/ runner' = [runner EXCEPT !.at = "adopting_again", !.reply = "none"]
          \/ runner' = NoWorker
      OBVIOUS
    <3>2. runner \in WorkerRecord
      BY DEF ContainerTypes
    <3>3. {"looking", "adopting_again"} \subseteq WorkerPhases
      BY DEF WorkerPhases
    <3> QED BY ONLY <3>1, <3>2, <3>3, NoWorkerIs DEF WorkerRecord
  <2>2. row' \in RowRecord
    BY DEF ContainerTypes, WorkerRecord, RowRecord, Reasons, ExitEvidence
  <2>3. /\ box' \in ContainerStatus /\ inflight' \subseteq DockerRequests
        /\ exits' \subseteq {"own", "stopped"} /\ finishedAt' \in {"none", "before", "after"}
    BY DEF ContainerTypes, ContainerStatus, DockerRequests
  <2>4. /\ cid' \in BOOLEAN /\ saved' \in BOOLEAN /\ nameTaken' \in BOOLEAN
        /\ cancelled' \in BOOLEAN /\ ran' \in BOOLEAN /\ outage' \in BOOLEAN
    BY DEF ContainerTypes
  <2>5. /\ adoptions' \in 0 .. AdoptionLimit /\ containerFaults' \in 0 .. MaxFaults
        /\ unreached' \in 0 .. containerFaults'
    BY ContainerAssumption DEF ContainerTypes
  <2> QED BY <2>1, <2>2, <2>3, <2>4, <2>5 DEF ContainerTypes
<1>2. RequestsOfTask'
  BY ContainerAssumption, NoWorkerIs DEF ContainerTypes, WorkerRecord, RowRecord, RequestsOfTask, PhaseOfWorker, HasSavedId
<1>3. PhaseOfWorker'
  BY find_own_containerPhase
<1>4. EvidenceLasts'
  BY ContainerAssumption, NoWorkerIs DEF ContainerTypes, WorkerRecord, RowRecord, RequestsOfTask, PhaseOfWorker, HasSavedId, EvidenceLasts, AdoptionsAreDeaths, Reaching
<1>5. AdoptionsAreDeaths'
  BY find_own_containerDeaths
<1> QED BY <1>1, <1>2, <1>3, <1>4, <1>5

LEMMA continue_withKeeps ==
    ASSUME ContainerInv, continue_with
    PROVE  ContainerInv'
<1> USE DEF ContainerInv, dockerd, records, continue_with, At, Present, lost, record_observed, RemoveCreated, Planned, Turns, is_live, KeepDocker,
            LedgerFails, Fault
<1>1. ContainerTypes'
  <2>1. runner' \in WorkerRecord
    BY NoWorkerIs DEF ContainerTypes, WorkerRecord, WorkerPhases, Reasons
  <2>2. row' \in RowRecord
    BY DEF ContainerTypes, WorkerRecord, RowRecord, Reasons, ExitEvidence
  <2>3. /\ box' \in ContainerStatus /\ inflight' \subseteq DockerRequests
        /\ exits' \subseteq {"own", "stopped"} /\ finishedAt' \in {"none", "before", "after"}
    BY DEF ContainerTypes, ContainerStatus, DockerRequests
  <2>4. /\ cid' \in BOOLEAN /\ saved' \in BOOLEAN /\ nameTaken' \in BOOLEAN
        /\ cancelled' \in BOOLEAN /\ ran' \in BOOLEAN /\ outage' \in BOOLEAN
    BY DEF ContainerTypes
  <2>5. /\ adoptions' \in 0 .. AdoptionLimit /\ containerFaults' \in 0 .. MaxFaults
        /\ unreached' \in 0 .. containerFaults'
    BY ContainerAssumption DEF ContainerTypes
  <2> QED BY <2>1, <2>2, <2>3, <2>4, <2>5 DEF ContainerTypes
<1>2. RequestsOfTask'
  BY ContainerAssumption, NoWorkerIs DEF ContainerTypes, WorkerRecord, RowRecord, RequestsOfTask, PhaseOfWorker, HasSavedId
<1>3. PhaseOfWorker'
  BY ZenonT(60), ContainerAssumption, NoWorkerIs DEF ContainerTypes, WorkerRecord, RowRecord, RequestsOfTask, PhaseOfWorker, HasSavedId
<1>4. EvidenceLasts'
  BY ContainerAssumption, NoWorkerIs DEF ContainerTypes, WorkerRecord, RowRecord, RequestsOfTask, PhaseOfWorker, HasSavedId, EvidenceLasts, AdoptionsAreDeaths, Reaching
<1>5. AdoptionsAreDeaths'
  BY ContainerAssumption, NoWorkerIs DEF ContainerTypes, WorkerRecord, RowRecord, PhaseOfWorker, AdoptionsAreDeaths, Reaching
<1> QED BY <1>1, <1>2, <1>3, <1>4, <1>5

LEMMA RemovedKeeps ==
    ASSUME ContainerInv, Removed
    PROVE  ContainerInv'
<1> USE DEF ContainerInv, dockerd, records, Removed, At, Turns, Fault
<1>1. ContainerTypes'
  <2>1. runner' \in WorkerRecord
    BY DEF ContainerTypes, WorkerRecord, WorkerPhases, Reasons
  <2>2. row' \in RowRecord
    BY DEF ContainerTypes, WorkerRecord, RowRecord, Reasons, ExitEvidence
  <2>3. /\ box' \in ContainerStatus /\ inflight' \subseteq DockerRequests
        /\ exits' \subseteq {"own", "stopped"} /\ finishedAt' \in {"none", "before", "after"}
    BY DEF ContainerTypes, ContainerStatus, DockerRequests
  <2>4. /\ cid' \in BOOLEAN /\ saved' \in BOOLEAN /\ nameTaken' \in BOOLEAN
        /\ cancelled' \in BOOLEAN /\ ran' \in BOOLEAN /\ outage' \in BOOLEAN
    BY DEF ContainerTypes
  <2>5. /\ adoptions' \in 0 .. AdoptionLimit /\ containerFaults' \in 0 .. MaxFaults
        /\ unreached' \in 0 .. containerFaults'
    BY ContainerAssumption DEF ContainerTypes
  <2> QED BY <2>1, <2>2, <2>3, <2>4, <2>5 DEF ContainerTypes
<1>2. RequestsOfTask'
  BY ContainerAssumption DEF ContainerTypes, WorkerRecord, RowRecord, RequestsOfTask, PhaseOfWorker, HasSavedId
<1>3. PhaseOfWorker'
  BY ContainerAssumption DEF ContainerTypes, WorkerRecord, RowRecord, RequestsOfTask, PhaseOfWorker, HasSavedId
<1>4. EvidenceLasts'
  BY ContainerAssumption DEF ContainerTypes, WorkerRecord, RowRecord, RequestsOfTask, PhaseOfWorker, HasSavedId, EvidenceLasts, AdoptionsAreDeaths, Reaching
<1>5. AdoptionsAreDeaths'
  BY ContainerAssumption DEF ContainerTypes, WorkerRecord, RowRecord, PhaseOfWorker, AdoptionsAreDeaths, Reaching
<1> QED BY <1>1, <1>2, <1>3, <1>4, <1>5

LEMMA remove_unstartedKeeps ==
    ASSUME ContainerInv, remove_unstarted
    PROVE  ContainerInv'
<1> USE DEF ContainerInv, dockerd, records, remove_unstarted, At, Turns, Fault
<1>1. ContainerTypes'
  <2>1. runner' \in WorkerRecord
    BY DEF ContainerTypes, WorkerRecord, WorkerPhases, Reasons
  <2>2. row' \in RowRecord
    BY DEF ContainerTypes, WorkerRecord, RowRecord, Reasons, ExitEvidence
  <2>3. /\ box' \in ContainerStatus /\ inflight' \subseteq DockerRequests
        /\ exits' \subseteq {"own", "stopped"} /\ finishedAt' \in {"none", "before", "after"}
    BY DEF ContainerTypes, ContainerStatus, DockerRequests
  <2>4. /\ cid' \in BOOLEAN /\ saved' \in BOOLEAN /\ nameTaken' \in BOOLEAN
        /\ cancelled' \in BOOLEAN /\ ran' \in BOOLEAN /\ outage' \in BOOLEAN
    BY DEF ContainerTypes
  <2>5. /\ adoptions' \in 0 .. AdoptionLimit /\ containerFaults' \in 0 .. MaxFaults
        /\ unreached' \in 0 .. containerFaults'
    BY ContainerAssumption DEF ContainerTypes
  <2> QED BY <2>1, <2>2, <2>3, <2>4, <2>5 DEF ContainerTypes
<1>2. RequestsOfTask'
  BY ContainerAssumption DEF ContainerTypes, WorkerRecord, RowRecord, RequestsOfTask, PhaseOfWorker, HasSavedId
<1>3. PhaseOfWorker'
  BY ContainerAssumption DEF ContainerTypes, WorkerRecord, RowRecord, RequestsOfTask, PhaseOfWorker, HasSavedId
<1>4. EvidenceLasts'
  BY ContainerAssumption DEF ContainerTypes, WorkerRecord, RowRecord, RequestsOfTask, PhaseOfWorker, HasSavedId, EvidenceLasts, AdoptionsAreDeaths, Reaching
<1>5. AdoptionsAreDeaths'
  BY ContainerAssumption DEF ContainerTypes, WorkerRecord, RowRecord, PhaseOfWorker, AdoptionsAreDeaths, Reaching
<1> QED BY <1>1, <1>2, <1>3, <1>4, <1>5

LEMMA confirm_unstarted_removedKeeps ==
    ASSUME ContainerInv, confirm_unstarted_removed
    PROVE  ContainerInv'
<1> USE DEF ContainerInv, dockerd, records, confirm_unstarted_removed, At, record_exit, Present
<1>1. ContainerTypes'
  <2>1. runner' \in WorkerRecord
    BY NoWorkerIs DEF ContainerTypes, WorkerRecord, WorkerPhases, Reasons
  <2>2. row' \in RowRecord
    BY DEF ContainerTypes, WorkerRecord, RowRecord, Reasons, ExitEvidence
  <2>3. /\ box' \in ContainerStatus /\ inflight' \subseteq DockerRequests
        /\ exits' \subseteq {"own", "stopped"} /\ finishedAt' \in {"none", "before", "after"}
    BY DEF ContainerTypes, ContainerStatus, DockerRequests
  <2>4. /\ cid' \in BOOLEAN /\ saved' \in BOOLEAN /\ nameTaken' \in BOOLEAN
        /\ cancelled' \in BOOLEAN /\ ran' \in BOOLEAN /\ outage' \in BOOLEAN
    BY DEF ContainerTypes
  <2>5. /\ adoptions' \in 0 .. AdoptionLimit /\ containerFaults' \in 0 .. MaxFaults
        /\ unreached' \in 0 .. containerFaults'
    BY ContainerAssumption DEF ContainerTypes
  <2> QED BY <2>1, <2>2, <2>3, <2>4, <2>5 DEF ContainerTypes
<1>2. RequestsOfTask'
  BY ContainerAssumption, NoWorkerIs DEF ContainerTypes, WorkerRecord, RowRecord, RequestsOfTask, PhaseOfWorker, HasSavedId
<1>3. PhaseOfWorker'
  BY ContainerAssumption, NoWorkerIs DEF ContainerTypes, WorkerRecord, RowRecord, RequestsOfTask, PhaseOfWorker, HasSavedId
<1>4. EvidenceLasts'
  BY ContainerAssumption, NoWorkerIs DEF ContainerTypes, WorkerRecord, RowRecord, RequestsOfTask, PhaseOfWorker, HasSavedId, EvidenceLasts, AdoptionsAreDeaths, Reaching
<1>5. AdoptionsAreDeaths'
  BY ContainerAssumption, NoWorkerIs DEF ContainerTypes, WorkerRecord, RowRecord, PhaseOfWorker, AdoptionsAreDeaths, Reaching
<1> QED BY <1>1, <1>2, <1>3, <1>4, <1>5

LEMMA superviseKeeps ==
    ASSUME ContainerInv, supervise
    PROVE  ContainerInv'
<1> USE DEF ContainerInv, dockerd, records, supervise, At, Planned, Present, lost, Interrupted, Turns, KeepDocker
<1>1. ContainerTypes'
  <2>1. runner' \in WorkerRecord
    BY NoWorkerIs DEF ContainerTypes, WorkerRecord, WorkerPhases, Reasons
  <2>2. row' \in RowRecord
    BY DEF ContainerTypes, WorkerRecord, RowRecord, Reasons, ExitEvidence
  <2>3. /\ box' \in ContainerStatus /\ inflight' \subseteq DockerRequests
        /\ exits' \subseteq {"own", "stopped"} /\ finishedAt' \in {"none", "before", "after"}
    BY DEF ContainerTypes, ContainerStatus, DockerRequests
  <2>4. /\ cid' \in BOOLEAN /\ saved' \in BOOLEAN /\ nameTaken' \in BOOLEAN
        /\ cancelled' \in BOOLEAN /\ ran' \in BOOLEAN /\ outage' \in BOOLEAN
    BY DEF ContainerTypes
  <2>5. /\ adoptions' \in 0 .. AdoptionLimit /\ containerFaults' \in 0 .. MaxFaults
        /\ unreached' \in 0 .. containerFaults'
    BY ContainerAssumption DEF ContainerTypes
  <2> QED BY <2>1, <2>2, <2>3, <2>4, <2>5 DEF ContainerTypes
<1>2. RequestsOfTask'
  BY ContainerAssumption, NoWorkerIs DEF ContainerTypes, WorkerRecord, RowRecord, RequestsOfTask, PhaseOfWorker, HasSavedId
<1>3. PhaseOfWorker'
  BY ZenonT(60), ContainerAssumption, NoWorkerIs DEF ContainerTypes, WorkerRecord, RowRecord, RequestsOfTask, PhaseOfWorker, HasSavedId
<1>4. EvidenceLasts'
  BY ContainerAssumption, NoWorkerIs DEF ContainerTypes, WorkerRecord, RowRecord, RequestsOfTask, PhaseOfWorker, HasSavedId, EvidenceLasts, AdoptionsAreDeaths, Reaching
<1>5. AdoptionsAreDeaths'
  BY ContainerAssumption, NoWorkerIs DEF ContainerTypes, WorkerRecord, RowRecord, PhaseOfWorker, AdoptionsAreDeaths, Reaching
<1> QED BY <1>1, <1>2, <1>3, <1>4, <1>5

LEMMA cancelKeeps ==
    ASSUME ContainerInv, cancel
    PROVE  ContainerInv'
<1> USE DEF ContainerInv, dockerd, records, cancel, At, Planned, Turns, KeepDocker
<1>1. ContainerTypes'
  <2>1. runner' \in WorkerRecord
    BY ZenonT(60) DEF ContainerTypes, WorkerRecord, WorkerPhases, Reasons
  <2>2. row' \in RowRecord
    BY DEF ContainerTypes, WorkerRecord, RowRecord, Reasons, ExitEvidence
  <2>3. /\ box' \in ContainerStatus /\ inflight' \subseteq DockerRequests
        /\ exits' \subseteq {"own", "stopped"} /\ finishedAt' \in {"none", "before", "after"}
    BY DEF ContainerTypes, ContainerStatus, DockerRequests
  <2>4. /\ cid' \in BOOLEAN /\ saved' \in BOOLEAN /\ nameTaken' \in BOOLEAN
        /\ cancelled' \in BOOLEAN /\ ran' \in BOOLEAN /\ outage' \in BOOLEAN
    BY DEF ContainerTypes
  <2>5. /\ adoptions' \in 0 .. AdoptionLimit /\ containerFaults' \in 0 .. MaxFaults
        /\ unreached' \in 0 .. containerFaults'
    BY ContainerAssumption DEF ContainerTypes
  <2> QED BY <2>1, <2>2, <2>3, <2>4, <2>5 DEF ContainerTypes
<1>2. RequestsOfTask'
  BY ContainerAssumption DEF ContainerTypes, WorkerRecord, RowRecord, RequestsOfTask, PhaseOfWorker, HasSavedId
<1>3. PhaseOfWorker'
  BY ZenonT(60), ContainerAssumption DEF ContainerTypes, WorkerRecord, RowRecord, RequestsOfTask, PhaseOfWorker, HasSavedId
<1>4. EvidenceLasts'
  BY ContainerAssumption DEF ContainerTypes, WorkerRecord, RowRecord, RequestsOfTask, PhaseOfWorker, HasSavedId, EvidenceLasts, AdoptionsAreDeaths, Reaching
<1>5. AdoptionsAreDeaths'
  BY ContainerAssumption DEF ContainerTypes, WorkerRecord, RowRecord, PhaseOfWorker, AdoptionsAreDeaths, Reaching
<1> QED BY <1>1, <1>2, <1>3, <1>4, <1>5

LEMMA IssueStopKeeps ==
    ASSUME ContainerInv, IssueStop
    PROVE  ContainerInv'
<1> USE DEF ContainerInv, dockerd, records, IssueStop, At, Sends, Turns
<1>1. ContainerTypes'
  <2>1. runner' \in WorkerRecord
    BY DEF ContainerTypes, WorkerRecord, WorkerPhases, Reasons
  <2>2. row' \in RowRecord
    BY DEF ContainerTypes, WorkerRecord, RowRecord, Reasons, ExitEvidence
  <2>3. /\ box' \in ContainerStatus /\ inflight' \subseteq DockerRequests
        /\ exits' \subseteq {"own", "stopped"} /\ finishedAt' \in {"none", "before", "after"}
    BY DEF ContainerTypes, ContainerStatus, DockerRequests
  <2>4. /\ cid' \in BOOLEAN /\ saved' \in BOOLEAN /\ nameTaken' \in BOOLEAN
        /\ cancelled' \in BOOLEAN /\ ran' \in BOOLEAN /\ outage' \in BOOLEAN
    BY DEF ContainerTypes
  <2>5. /\ adoptions' \in 0 .. AdoptionLimit /\ containerFaults' \in 0 .. MaxFaults
        /\ unreached' \in 0 .. containerFaults'
    BY ContainerAssumption DEF ContainerTypes
  <2> QED BY <2>1, <2>2, <2>3, <2>4, <2>5 DEF ContainerTypes
<1>2. RequestsOfTask'
  BY ContainerAssumption DEF ContainerTypes, WorkerRecord, RowRecord, RequestsOfTask, PhaseOfWorker, HasSavedId
<1>3. PhaseOfWorker'
  BY ContainerAssumption DEF ContainerTypes, WorkerRecord, RowRecord, RequestsOfTask, PhaseOfWorker, HasSavedId
<1>4. EvidenceLasts'
  BY ContainerAssumption DEF ContainerTypes, WorkerRecord, RowRecord, RequestsOfTask, PhaseOfWorker, HasSavedId, EvidenceLasts, AdoptionsAreDeaths, Reaching
<1>5. AdoptionsAreDeaths'
  BY ContainerAssumption DEF ContainerTypes, WorkerRecord, RowRecord, PhaseOfWorker, AdoptionsAreDeaths, Reaching
<1> QED BY <1>1, <1>2, <1>3, <1>4, <1>5

LEMMA StopAnsweredKeeps ==
    ASSUME ContainerInv, StopAnswered
    PROVE  ContainerInv'
<1> USE DEF ContainerInv, dockerd, records, StopAnswered, Turns, Fault
<1>1. ContainerTypes'
  <2>1. runner' \in WorkerRecord
    BY DEF ContainerTypes, WorkerRecord, WorkerPhases, Reasons
  <2>2. row' \in RowRecord
    BY DEF ContainerTypes, WorkerRecord, RowRecord, Reasons, ExitEvidence
  <2>3. /\ box' \in ContainerStatus /\ inflight' \subseteq DockerRequests
        /\ exits' \subseteq {"own", "stopped"} /\ finishedAt' \in {"none", "before", "after"}
    BY DEF ContainerTypes, ContainerStatus, DockerRequests
  <2>4. /\ cid' \in BOOLEAN /\ saved' \in BOOLEAN /\ nameTaken' \in BOOLEAN
        /\ cancelled' \in BOOLEAN /\ ran' \in BOOLEAN /\ outage' \in BOOLEAN
    BY DEF ContainerTypes
  <2>5. /\ adoptions' \in 0 .. AdoptionLimit /\ containerFaults' \in 0 .. MaxFaults
        /\ unreached' \in 0 .. containerFaults'
    BY ContainerAssumption DEF ContainerTypes
  <2> QED BY <2>1, <2>2, <2>3, <2>4, <2>5 DEF ContainerTypes
<1>2. RequestsOfTask'
  BY ContainerAssumption DEF ContainerTypes, WorkerRecord, RowRecord, RequestsOfTask, PhaseOfWorker, HasSavedId
<1>3. PhaseOfWorker'
  BY ContainerAssumption DEF ContainerTypes, WorkerRecord, RowRecord, RequestsOfTask, PhaseOfWorker, HasSavedId
<1>4. EvidenceLasts'
  BY ContainerAssumption DEF ContainerTypes, WorkerRecord, RowRecord, RequestsOfTask, PhaseOfWorker, HasSavedId, EvidenceLasts, AdoptionsAreDeaths, Reaching
<1>5. AdoptionsAreDeaths'
  BY ContainerAssumption DEF ContainerTypes, WorkerRecord, RowRecord, PhaseOfWorker, AdoptionsAreDeaths, Reaching
<1> QED BY <1>1, <1>2, <1>3, <1>4, <1>5

LEMMA SettleRowPhase ==
    ASSUME ContainerInv, SettleRow
    PROVE  PhaseOfWorker'
<1>1. runner \in WorkerRecord /\ row \in RowRecord /\ row.status \in {"queued", "running", "exited", "lost"}
  BY DEF ContainerInv, ContainerTypes, RowRecord
<1>2. UNCHANGED <<box, exits, finishedAt>> /\ row.status = "running"
  BY <1>1 DEF SettleRow, At, dockerd, KeepDocker, ContainerInv, PhaseOfWorker
<1>3. UNCHANGED saved /\ saved
  BY DEF SettleRow, At, records, ContainerInv, PhaseOfWorker, HasSavedId
<1>4. \/ runner' = [runner EXCEPT !.at = "killing", !.killed = TRUE, !.reply = "none"] /\ row' = row
      \/ record_exit("Cancelled", "Unconfirmed")
      \/ box = "exited" /\ Planned("clearing", ReasonAfterStop) /\ row' = row
  BY DEF SettleRow
<1>5. \/ runner'.at = "killing" /\ row' = row
      \/ row'.status = "exited" /\ runner'.at = "none"
      \/ box = "exited" /\ runner'.at = "clearing" /\ runner'.reason = ReasonAfterStop /\ row' = row
  BY <1>1, <1>4, PlannedTo, ExitRecorded DEF WorkerRecord
<1>6. /\ box = "exited" => exits # {}
      /\ ReasonAfterStop = "Cancelled" => finishedAt # "before"
  BY DEF ContainerInv, RequestsOfTask, ReasonAfterStop
<1> QED BY <1>2, <1>3, <1>5, <1>6 DEF PhaseOfWorker, HasSavedId

LEMMA SettleRowKeeps ==
    ASSUME ContainerInv, SettleRow
    PROVE  ContainerInv'
<1> USE DEF ContainerInv, dockerd, records, SettleRow, At, is_live, record_exit, Planned, ReasonAfterStop, Present, KeepDocker
<1>1. ContainerTypes'
  <2>1. runner' \in WorkerRecord
    BY NoWorkerIs DEF ContainerTypes, WorkerRecord, WorkerPhases, Reasons
  <2>2. row' \in RowRecord
    BY DEF ContainerTypes, WorkerRecord, RowRecord, Reasons, ExitEvidence
  <2>3. /\ box' \in ContainerStatus /\ inflight' \subseteq DockerRequests
        /\ exits' \subseteq {"own", "stopped"} /\ finishedAt' \in {"none", "before", "after"}
    BY DEF ContainerTypes, ContainerStatus, DockerRequests
  <2>4. /\ cid' \in BOOLEAN /\ saved' \in BOOLEAN /\ nameTaken' \in BOOLEAN
        /\ cancelled' \in BOOLEAN /\ ran' \in BOOLEAN /\ outage' \in BOOLEAN
    BY DEF ContainerTypes
  <2>5. /\ adoptions' \in 0 .. AdoptionLimit /\ containerFaults' \in 0 .. MaxFaults
        /\ unreached' \in 0 .. containerFaults'
    BY ContainerAssumption DEF ContainerTypes
  <2> QED BY <2>1, <2>2, <2>3, <2>4, <2>5 DEF ContainerTypes
<1>2. RequestsOfTask'
  BY ContainerAssumption, NoWorkerIs DEF ContainerTypes, WorkerRecord, RowRecord, RequestsOfTask, PhaseOfWorker, HasSavedId
<1>3. PhaseOfWorker'
  BY SettleRowPhase
<1>4. EvidenceLasts'
  BY ContainerAssumption, NoWorkerIs DEF ContainerTypes, WorkerRecord, RowRecord, RequestsOfTask, PhaseOfWorker, HasSavedId, EvidenceLasts, AdoptionsAreDeaths, Reaching
<1>5. AdoptionsAreDeaths'
  BY ContainerAssumption, NoWorkerIs DEF ContainerTypes, WorkerRecord, RowRecord, PhaseOfWorker, AdoptionsAreDeaths, Reaching
<1> QED BY <1>1, <1>2, <1>3, <1>4, <1>5

LEMMA finishPhase ==
    ASSUME ContainerInv, finish
    PROVE  PhaseOfWorker'
<1>1. runner \in WorkerRecord /\ row \in RowRecord /\ row.status \in {"queued", "running", "exited", "lost"}
  BY DEF ContainerInv, ContainerTypes, RowRecord
<1>2. UNCHANGED <<box, exits, finishedAt>> /\ row.status = "running"
  BY <1>1 DEF finish, At, dockerd, KeepDocker, ContainerInv, PhaseOfWorker
<1>3. UNCHANGED saved /\ saved /\ exits # {} /\ (runner.reason = "Cancelled" => finishedAt # "before")
  BY DEF finish, At, records, ContainerInv, PhaseOfWorker, HasSavedId
<1>4. \/ record_exit(runner.reason, Witness)
      \/ Turns("clearing") /\ row' = row
  BY DEF finish, Sends
<1>5. \/ row'.status = "exited" /\ runner'.at = "none"
      \/ runner'.at = "clearing" /\ runner'.reason = runner.reason /\ row' = row
  BY <1>1, <1>4, TurnsTo, ExitRecorded
<1> QED BY <1>2, <1>3, <1>5 DEF PhaseOfWorker, HasSavedId

LEMMA finishKeeps ==
    ASSUME ContainerInv, finish
    PROVE  ContainerInv'
<1> USE DEF ContainerInv, dockerd, records, finish, At, record_exit, Witness, Present, Sends, Turns, Fault, KeepDocker
<1>1. ContainerTypes'
  <2>1. runner' \in WorkerRecord
    BY NoWorkerIs DEF ContainerTypes, WorkerRecord, WorkerPhases, Reasons
  <2>2. row' \in RowRecord
    BY DEF ContainerTypes, WorkerRecord, RowRecord, Reasons, ExitEvidence
  <2>3. /\ box' \in ContainerStatus /\ inflight' \subseteq DockerRequests
        /\ exits' \subseteq {"own", "stopped"} /\ finishedAt' \in {"none", "before", "after"}
    BY DEF ContainerTypes, ContainerStatus, DockerRequests
  <2>4. /\ cid' \in BOOLEAN /\ saved' \in BOOLEAN /\ nameTaken' \in BOOLEAN
        /\ cancelled' \in BOOLEAN /\ ran' \in BOOLEAN /\ outage' \in BOOLEAN
    BY DEF ContainerTypes
  <2>5. /\ adoptions' \in 0 .. AdoptionLimit /\ containerFaults' \in 0 .. MaxFaults
        /\ unreached' \in 0 .. containerFaults'
    BY ContainerAssumption DEF ContainerTypes
  <2> QED BY <2>1, <2>2, <2>3, <2>4, <2>5 DEF ContainerTypes
<1>2. RequestsOfTask'
  BY ContainerAssumption, NoWorkerIs DEF ContainerTypes, WorkerRecord, RowRecord, RequestsOfTask, PhaseOfWorker, HasSavedId
<1>3. PhaseOfWorker'
  BY finishPhase
<1>4. EvidenceLasts'
  BY ContainerAssumption, NoWorkerIs DEF ContainerTypes, WorkerRecord, RowRecord, RequestsOfTask, PhaseOfWorker, HasSavedId, EvidenceLasts, AdoptionsAreDeaths, Reaching
<1>5. AdoptionsAreDeaths'
  BY ContainerAssumption, NoWorkerIs DEF ContainerTypes, WorkerRecord, RowRecord, PhaseOfWorker, AdoptionsAreDeaths, Reaching
<1> QED BY <1>1, <1>2, <1>3, <1>4, <1>5

LEMMA UnavailablePhase ==
    ASSUME ContainerInv, Unavailable
    PROVE  PhaseOfWorker'
<1>1. runner \in WorkerRecord /\ row \in RowRecord /\ row.status \in {"queued", "running", "exited", "lost"}
  BY DEF ContainerInv, ContainerTypes, RowRecord
<1>2. /\ UNCHANGED <<box, exits, finishedAt, saved>>
      /\ runner.at = "cancelling" => row.status = "running" /\ saved
  BY <1>1 DEF Unavailable, dockerd, records, ContainerInv, PhaseOfWorker, HasSavedId
<1>3. \/ lost
      \/ record_exit(runner.reason, "Unconfirmed")
      \/ record_exit("Cancelled", "Unconfirmed")
      \/ runner.at = "cancelling" /\ Turns("issuing") /\ row' = row
  BY DEF Unavailable
<1>4. \/ row'.status \in {"exited", "lost"} /\ runner'.at = "none"
      \/ runner.at = "cancelling" /\ runner'.at = "issuing" /\ row' = row
  BY <1>1, <1>3, TurnsTo, ExitRecorded, LossRecorded
<1> QED BY <1>2, <1>4 DEF PhaseOfWorker, HasSavedId

LEMMA UnavailableKeeps ==
    ASSUME ContainerInv, Unavailable
    PROVE  ContainerInv'
<1> USE DEF ContainerInv, dockerd, records, Unavailable, Fault, lost, record_exit, Turns
<1>1. ContainerTypes'
  <2>1. runner' \in WorkerRecord
    BY NoWorkerIs DEF ContainerTypes, WorkerRecord, WorkerPhases, Reasons
  <2>2. row' \in RowRecord
    BY DEF ContainerTypes, WorkerRecord, RowRecord, Reasons, ExitEvidence
  <2>3. /\ box' \in ContainerStatus /\ inflight' \subseteq DockerRequests
        /\ exits' \subseteq {"own", "stopped"} /\ finishedAt' \in {"none", "before", "after"}
    BY DEF ContainerTypes, ContainerStatus, DockerRequests
  <2>4. /\ cid' \in BOOLEAN /\ saved' \in BOOLEAN /\ nameTaken' \in BOOLEAN
        /\ cancelled' \in BOOLEAN /\ ran' \in BOOLEAN /\ outage' \in BOOLEAN
    BY DEF ContainerTypes
  <2>5. /\ adoptions' \in 0 .. AdoptionLimit /\ containerFaults' \in 0 .. MaxFaults
        /\ unreached' \in 0 .. containerFaults'
    BY ContainerAssumption DEF ContainerTypes
  <2> QED BY <2>1, <2>2, <2>3, <2>4, <2>5 DEF ContainerTypes
<1>2. RequestsOfTask'
  BY ContainerAssumption, NoWorkerIs DEF ContainerTypes, WorkerRecord, RowRecord, RequestsOfTask, PhaseOfWorker, HasSavedId
<1>3. PhaseOfWorker'
  BY UnavailablePhase
<1>4. EvidenceLasts'
  BY ContainerAssumption, NoWorkerIs DEF ContainerTypes, WorkerRecord, RowRecord, RequestsOfTask, PhaseOfWorker, HasSavedId, EvidenceLasts, AdoptionsAreDeaths, Reaching
<1>5. AdoptionsAreDeaths'
  BY ContainerAssumption, NoWorkerIs DEF ContainerTypes, WorkerRecord, RowRecord, PhaseOfWorker, AdoptionsAreDeaths, Reaching
<1> QED BY <1>1, <1>2, <1>3, <1>4, <1>5

LEMMA WorkerEndsKeeps ==
    ASSUME ContainerInv, WorkerEnds
    PROVE  ContainerInv'
<1> USE DEF ContainerInv, dockerd, records, WorkerEnds, Fault
<1>1. ContainerTypes'
  <2>1. runner' \in WorkerRecord
    BY NoWorkerIs DEF ContainerTypes, WorkerRecord, WorkerPhases, Reasons
  <2>2. row' \in RowRecord
    BY DEF ContainerTypes, WorkerRecord, RowRecord, Reasons, ExitEvidence
  <2>3. /\ box' \in ContainerStatus /\ inflight' \subseteq DockerRequests
        /\ exits' \subseteq {"own", "stopped"} /\ finishedAt' \in {"none", "before", "after"}
    BY DEF ContainerTypes, ContainerStatus, DockerRequests
  <2>4. /\ cid' \in BOOLEAN /\ saved' \in BOOLEAN /\ nameTaken' \in BOOLEAN
        /\ cancelled' \in BOOLEAN /\ ran' \in BOOLEAN /\ outage' \in BOOLEAN
    BY DEF ContainerTypes
  <2>5. /\ adoptions' \in 0 .. AdoptionLimit /\ containerFaults' \in 0 .. MaxFaults
        /\ unreached' \in 0 .. containerFaults'
    BY ContainerAssumption DEF ContainerTypes
  <2> QED BY <2>1, <2>2, <2>3, <2>4, <2>5 DEF ContainerTypes
<1>2. RequestsOfTask'
  BY ContainerAssumption, NoWorkerIs DEF ContainerTypes, WorkerRecord, RowRecord, RequestsOfTask, PhaseOfWorker, HasSavedId
<1>3. PhaseOfWorker'
  BY ContainerAssumption, NoWorkerIs DEF ContainerTypes, WorkerRecord, RowRecord, RequestsOfTask, PhaseOfWorker, HasSavedId
<1>4. EvidenceLasts'
  BY ContainerAssumption, NoWorkerIs DEF ContainerTypes, WorkerRecord, RowRecord, RequestsOfTask, PhaseOfWorker, HasSavedId, EvidenceLasts, AdoptionsAreDeaths, Reaching
<1>5. AdoptionsAreDeaths'
  BY ContainerAssumption, NoWorkerIs DEF ContainerTypes, WorkerRecord, RowRecord, PhaseOfWorker, AdoptionsAreDeaths, Reaching
<1> QED BY <1>1, <1>2, <1>3, <1>4, <1>5

LEMMA adopt_containerKeeps ==
    ASSUME ContainerInv, adopt_container
    PROVE  ContainerInv'
<1> USE DEF ContainerInv, dockerd, records, adopt_container, claim_task_container_adoption, WorkerAt, Fault, lost
<1>1. ContainerTypes'
  <2>1. runner' \in WorkerRecord
    BY NoWorkerIs DEF ContainerTypes, WorkerRecord, WorkerPhases, Reasons
  <2>2. row' \in RowRecord
    BY DEF ContainerTypes, WorkerRecord, RowRecord, Reasons, ExitEvidence
  <2>3. /\ box' \in ContainerStatus /\ inflight' \subseteq DockerRequests
        /\ exits' \subseteq {"own", "stopped"} /\ finishedAt' \in {"none", "before", "after"}
    BY DEF ContainerTypes, ContainerStatus, DockerRequests
  <2>4. /\ cid' \in BOOLEAN /\ saved' \in BOOLEAN /\ nameTaken' \in BOOLEAN
        /\ cancelled' \in BOOLEAN /\ ran' \in BOOLEAN /\ outage' \in BOOLEAN
    BY DEF ContainerTypes
  <2>5. /\ adoptions' \in 0 .. AdoptionLimit /\ containerFaults' \in 0 .. MaxFaults
        /\ unreached' \in 0 .. containerFaults'
    BY ContainerAssumption DEF ContainerTypes
  <2> QED BY <2>1, <2>2, <2>3, <2>4, <2>5 DEF ContainerTypes
<1>2. RequestsOfTask'
  BY ContainerAssumption, NoWorkerIs DEF ContainerTypes, WorkerRecord, RowRecord, RequestsOfTask, PhaseOfWorker, HasSavedId
<1>3. PhaseOfWorker'
  BY ZenonT(60), ContainerAssumption, NoWorkerIs DEF ContainerTypes, WorkerRecord, RowRecord, RequestsOfTask, PhaseOfWorker, HasSavedId
<1>4. EvidenceLasts'
  BY ContainerAssumption, NoWorkerIs DEF ContainerTypes, WorkerRecord, RowRecord, RequestsOfTask, PhaseOfWorker, HasSavedId, EvidenceLasts, AdoptionsAreDeaths, Reaching
<1>5. AdoptionsAreDeaths'
  <2>1. \/ row'.status = "lost"
        \/ /\ row' = row /\ adoptions' = adoptions + 1 /\ unreached' = unreached
           /\ runner'.adopts = TRUE /\ runner'.at = "adopting"
    BY NoWorkerIs DEF ContainerTypes, WorkerRecord, RowRecord
  <2>2. adoptions \in Nat /\ unreached \in Nat /\ (~outage => adoptions <= unreached)
    BY ContainerAssumption DEF AdoptionsAreDeaths, Reaching, ContainerTypes
  <2>3. row'.status # "lost" => outage' = outage
    BY DEF ContainerTypes, RowRecord
  <2> QED BY <2>1, <2>2, <2>3 DEF AdoptionsAreDeaths, Reaching
<1> QED BY <1>1, <1>2, <1>3, <1>4, <1>5

LEMMA ContainerStarts == ContainerInit => ContainerInv
<1> SUFFICES ASSUME ContainerInit PROVE ContainerInv
  OBVIOUS
<1>1. ContainerTypes
  <2>1. runner \in WorkerRecord
    BY NoWorkerIs DEF ContainerInit, WorkerAt, WorkerRecord, WorkerPhases
  <2>2. row \in RowRecord
    BY DEF ContainerInit, RowRecord, Reasons, ExitEvidence
  <2>3. /\ adoptions \in 0 .. AdoptionLimit /\ containerFaults \in 0 .. MaxFaults
        /\ unreached \in 0 .. containerFaults
    BY ContainerAssumption DEF ContainerInit
  <2>4. box \in ContainerStatus /\ inflight \subseteq DockerRequests
    BY DEF ContainerInit, ContainerStatus
  <2> QED BY <2>1, <2>2, <2>3, <2>4 DEF ContainerInit, ContainerTypes
<1>2. RequestsOfTask /\ PhaseOfWorker /\ EvidenceLasts /\ AdoptionsAreDeaths
  BY DEF ContainerInit, WorkerAt, NoWorker, RequestsOfTask, PhaseOfWorker, HasSavedId, EvidenceLasts,
         AdoptionsAreDeaths, Reaching
<1> QED BY <1>1, <1>2 DEF ContainerInv

LEMMA ContainerImplies == ContainerInv => ContainerRowIsTrue
<1> SUFFICES ASSUME ContainerInv PROVE ContainerRowIsTrue
  OBVIOUS
<1> USE DEF ContainerInv
<1>1. ContainerTypeOK
  BY ContainerAssumption DEF ContainerTypes, ContainerTypeOK, WorkerRecord, RowRecord
<1>2. NeverStartedStaysDown /\ ConfirmedIsGone /\ NaturalExitKept /\ LostOnlyUnreachable
  BY DEF EvidenceLasts, NeverStartedStaysDown, ConfirmedIsGone, NaturalExitKept, LostOnlyUnreachable
<1> QED BY <1>1, <1>2 DEF ContainerRowIsTrue

\* The evidence, the reason and the loss that a task's row gives for its container
\* stay true, for any adoption limit and any number of dead workers, late
\* requests and outside commands (`finish', `confirm_unstarted_removed',
\* `claim_task_container_adoption').
THEOREM ContainerRowCorrect == ContainerSpec => []ContainerRowIsTrue
<1>1. ContainerInv /\ [ContainerNext]_containerVars => ContainerInv'
  <2> SUFFICES ASSUME ContainerInv, [ContainerNext]_containerVars PROVE ContainerInv'
    OBVIOUS
  <2>1. CASE UNCHANGED containerVars
    BY <2>1 DEF containerVars, dockerd, records, ContainerInv, ContainerTypes, RequestsOfTask, PhaseOfWorker,
                EvidenceLasts, AdoptionsAreDeaths, Reaching
  <2>2. CASE EngineStep
    BY <2>2, engine_createKeeps, engine_startKeeps, engine_removeKeeps, engine_stopKeeps DEF EngineStep
  <2>3. CASE ContainerStep
    BY <2>3, launchKeeps, CreatedKeeps, after_failed_createKeeps, SaveCreatedKeeps, StartSavedKeeps,
       StartedKeeps, find_own_containerKeeps, continue_withKeeps, RemovedKeeps, remove_unstartedKeeps,
       confirm_unstarted_removedKeeps, superviseKeeps, cancelKeeps, IssueStopKeeps, StopAnsweredKeeps,
       SettleRowKeeps, finishKeeps DEF ContainerStep
  <2>4. CASE ContainerNext /\ ~EngineStep /\ ~ContainerStep
    BY <2>4, adopt_containerKeeps, WorkerEndsKeeps, UnavailableKeeps, ContainerExitsKeeps,
       OutsideCommandKeeps, RequestCancelKeeps DEF ContainerNext
  <2> QED BY <2>1, <2>2, <2>3, <2>4
<1> QED BY <1>1, ContainerStarts, ContainerImplies, PTL DEF ContainerSpec

-----------------------------------------------------------------------------
(* The sweep, for any pids, forks, exits and reuse of pids                   *)

ProcessRow ==
    [start: Nat, marked: BOOLEAN, open: BOOLEAN, run: BOOLEAN, home: BOOLEAN,
     astray: BOOLEAN, parent: Nat, group: Nat]
InfoRead == [start: Nat, parent: Nat]
ProcessId == [pid: Pids, start: Nat]
SweepPhases ==
    {"run", "probe", "attribute", "send_group", "wait_group", "list", "listing", "scan",
     "signal", "completed", "incomplete"}
SweeperRow ==
    [at: SweepPhases, mode: {"agent", "queue", "lost"}, killed: BOOLEAN,
     adopted: SUBSET ProcessId, bound: BOOLEAN, stage: {"first", "term", "kill"}, round: Nat,
     begun: SUBSET ProcessId, todo: SUBSET Pids, info: SUBSET [pid: Pids, read: InfoRead],
     targets: SUBSET ProcessId, suspects: SUBSET ProcessId, unsettled: BOOLEAN, empties: Nat,
     settled: Nat, sent: SUBSET ProcessId,
     handle: SUBSET [target: ProcessId, pinned: ProcessId], ok: BOOLEAN, hits: BOOLEAN]

\* A process of the run, or one that strayed from it; its kin are the homebased
\* ones too, and tied to it is what the tracker takes its children from
Ours(p) == table[p].run \/ table[p].astray
Kin(p) == Ours(p) \/ table[p].home
Tied(p) == Ours(p) \/ (table[p].home /\ Identity(p) \in recorded)

\* What holds of the process at pid p, beside the others of the machine
PlaceOf(p) ==
    /\ table[p].start <= starts
    /\ table[p].marked => table[p].run \/ (table[p].home /\ p \in protected)
    /\ table[p].home => ~table[p].run
    /\ table[p].parent \in Pids =>
          /\ Alive(table[p].parent)
          /\ Tied(table[p].parent) => Kin(p)

\* What a process tied to the run forked is its kin; those of a group are of one
\* kind; and the child's identity is nobody else's
Processes ==
    /\ table \in [Pids -> ProcessRow] /\ starts \in Nat /\ starts >= 2
    /\ \A p \in Pids : PlaceOf(p)
    /\ \A p, q \in Pids : Alive(p) /\ Alive(q) /\ table[p].group = table[q].group
                             => table[p].run = table[q].run
    /\ table[1].start = LeaderStart => table[1].run /\ table[1].group = 1

\* An identity that was read: no later process has it, and the one that has it
\* now, if any, is kin of the run, or the run's
Past(i) == i.start \in 1 .. starts
IsKin(i) == Past(i) /\ (table[i.pid].start = i.start => Kin(i.pid))
IsOurs(i) == Past(i) /\ (table[i.pid].start = i.start => Ours(i.pid))

Known ==
    /\ recorded \subseteq ProcessId /\ \A i \in recorded : IsKin(i)
    /\ \A i \in sweeper.adopted : IsOurs(i)
    /\ \A i \in sweeper.info : i.read.start <= starts
    /\ \A i \in sweeper.targets : Past(i) /\ i.pid \notin protected

\* What is about to be signalled: another process than the target was pinned
\* only after the target was gone, and a verified target is the run's
HandleIs(h) ==
    /\ Past(h.target) /\ h.target.pid \notin protected
    /\ h.pinned = h.target \/ table[h.target.pid].start # h.target.start
    /\ sweeper.ok => h.pinned = h.target /\ IsOurs(h.target)

\* Before a group signal the group is the run's, unless its id was taken over
Aimed ==
    /\ \A h \in sweeper.handle : HandleIs(h)
    /\ sweeper.at \in {"run", "probe", "send_group"} /\ ~taken => \A p \in Members(1) : table[p].run

OneHandle == \A g, h \in sweeper.handle : g = h

SweepInv ==
    /\ Processes /\ sweeper \in SweeperRow /\ Known /\ Aimed /\ OneHandle
    /\ taken \in BOOLEAN /\ wrong = FALSE

-----------------------------------------------------------------------------
(* The processes of the machine *)

\* A process takes a free pid: a child of a live one, kin of the run if that is
\* tied to it, or a stranger
LEMMA SeatKeeps ==
    ASSUME SweepInv, NEW q \in Pids, NEW pr \in ProcessRow, Available(q), Seat(q, pr),
           pr.start = starts + 1, pr.marked => pr.run, pr.home => ~pr.run,
           pr.parent \in Pids =>
              Alive(pr.parent) /\ (Tied(pr.parent) => pr.run \/ pr.astray \/ pr.home),
           pr.group = q \/ \E p \in Pids : Alive(p) /\ pr.group = table[p].group
                                            /\ pr.run = table[p].run
    PROVE  SweepInv'
<1>1. /\ table \in [Pids -> ProcessRow] /\ starts \in Nat /\ starts >= 2
      /\ \A p \in Pids : PlaceOf(p)
      /\ \A p, r \in Pids : Alive(p) /\ Alive(r) /\ table[p].group = table[r].group
                               => table[p].run = table[r].run
      /\ table[1].start = LeaderStart => table[1].run /\ table[1].group = 1
      /\ 1 \in Pids
  BY SweepAssumption DEF SweepInv, Processes
<1>2. /\ table' = [table EXCEPT ![q] = pr] /\ starts' = starts + 1 /\ taken' = (taken \/ q = 1)
      /\ protected' = protected /\ recorded' = recorded /\ sweeper' = sweeper /\ wrong' = wrong
  BY DEF Seat
<1>3. table'[q] = pr /\ \A p \in Pids : p # q => table'[p] = table[p]
  BY <1>1, <1>2
<1>4. table[q].start = 0 /\ (\A p \in Pids : table[p].start # 0 => table[p].group # q)
  BY DEF Available, Alive, Members
<1>5. ASSUME NEW p \in Pids PROVE PlaceOf(p)'
  <2>1. ASSUME NEW r \in Pids, r # q
        PROVE  Alive(r)' = Alive(r) /\ Tied(r)' = Tied(r) /\ Kin(r)' = Kin(r)
    BY <2>1, <1>2, <1>3 DEF Alive, Tied, Kin, Ours, Identity
  <2>2. CASE p = q
    <3>1. pr.parent \in Pids => pr.parent # q
      BY <1>4 DEF Alive
    <3>2. pr.parent \in Pids => Alive(pr.parent)' /\ (Tied(pr.parent)' => Kin(q)')
      BY <2>1, <3>1, <1>3 DEF Kin, Ours
    <3> QED BY <2>2, <3>2, <1>1, <1>2, <1>3 DEF PlaceOf, ProcessRow
  <2>3. CASE p # q
    <3>1. PlaceOf(p) /\ (table[p].parent \in Pids => table[p].parent # q)
      BY <1>1, <1>4 DEF PlaceOf, Alive
    <3>2. table[p].start \in Nat
      BY <1>1 DEF ProcessRow
    <3> QED BY <2>1, <2>3, <3>1, <3>2, <1>1, <1>2, <1>3 DEF PlaceOf
  <2> QED BY <2>2, <2>3
<1>6. ASSUME NEW p \in Pids, NEW r \in Pids, table'[p].start # 0, table'[r].start # 0,
             table'[p].group = table'[r].group
      PROVE  table'[p].run = table'[r].run
  <2>1. ASSUME NEW s \in Pids, s # q, table[s].start # 0, table[s].group = pr.group
        PROVE  table[s].run = pr.run
    BY <2>1, <1>1, <1>4 DEF Alive
  <2> QED BY <2>1, <1>1, <1>3, <1>6 DEF Alive
<1>7. table'[1].start = LeaderStart => table'[1].run /\ table'[1].group = 1
  BY <1>1, <1>3 DEF LeaderStart
<1>8. Processes'
  <2>1. table' \in [Pids -> ProcessRow] /\ starts' \in Nat /\ starts' >= 2
    BY <1>1, <1>2
  <2> QED BY <2>1, <1>5, <1>6, <1>7 DEF Processes, Alive, LeaderStart, ProcessRow
<1>9. ASSUME NEW i \in ProcessId, Past(i)
      PROVE  Past(i)' /\ (IsKin(i) => IsKin(i)') /\ (IsOurs(i) => IsOurs(i)')
  <2>1. i.pid \in Pids /\ i.start \in 1 .. starts /\ i.start # pr.start
    BY <1>1, <1>9 DEF ProcessId, Past
  <2>2. Past(i)'
    BY <2>1, <1>1, <1>2 DEF Past
  <2>3. table'[i.pid].start = i.start => i.pid # q /\ table'[i.pid] = table[i.pid]
    BY <2>1, <1>3
  <2> QED BY <2>2, <2>3 DEF IsKin, IsOurs, Kin, Ours
<1>10. sweeper \in SweeperRow /\ Known /\ Aimed /\ taken \in BOOLEAN /\ wrong = FALSE
  BY DEF SweepInv
<1>11. /\ sweeper.adopted \subseteq ProcessId /\ sweeper.targets \subseteq ProcessId
       /\ sweeper.handle \subseteq [target: ProcessId, pinned: ProcessId]
       /\ sweeper.info \subseteq [pid: Pids, read: InfoRead]
  BY <1>10 DEF SweeperRow
<1>12. Known'
  <2>1. \A i \in recorded' : IsKin(i)'
    BY <1>2, <1>9, <1>10 DEF Known, IsKin
  <2>2. \A i \in sweeper'.adopted : IsOurs(i)'
    BY <1>2, <1>9, <1>10, <1>11 DEF Known, IsOurs
  <2>3. \A i \in sweeper'.targets : Past(i)' /\ i.pid \notin protected'
    BY <1>2, <1>9, <1>10, <1>11 DEF Known
  <2>4. \A i \in sweeper'.info : i.read.start <= starts'
    <3>1. TAKE i \in sweeper'.info
    <3>2. i.read.start \in Nat /\ i.read.start <= starts
      BY <1>2, <1>10, <1>11 DEF Known, InfoRead
    <3> QED BY <3>2, <1>1, <1>2
  <2>5. recorded' \subseteq ProcessId
    BY <1>2, <1>10 DEF Known
  <2> QED BY <2>1, <2>2, <2>3, <2>4, <2>5 DEF Known, ProcessId
<1>13. Aimed'
  <2>1. ASSUME NEW h \in sweeper'.handle PROVE HandleIs(h)'
    <3>1. PICK t : t = h.target
      OBVIOUS
    <3>2. /\ t \in ProcessId /\ Past(t) /\ t.pid \notin protected
          /\ h.pinned = t \/ table[t.pid].start # t.start
          /\ sweeper.ok => h.pinned = t /\ IsOurs(t)
      BY <2>1, <3>1, <1>2, <1>10, <1>11 DEF Aimed, HandleIs
    <3>3. t.pid \in Pids /\ t.start # pr.start
      BY <3>2, <1>1 DEF ProcessId, Past
    <3>4. Past(t)' /\ (IsOurs(t) => IsOurs(t)')
      BY <3>2, <1>9
    <3> QED BY <3>1, <3>2, <3>3, <3>4, <1>2, <1>3 DEF HandleIs
  <2>2. ASSUME sweeper'.at \in {"run", "probe", "send_group"}, ~taken', NEW p \in Pids,
               table'[p].start # 0, table'[p].group = 1
        PROVE  table'[p].run
    <3>1. q # 1 /\ \A s \in Pids : table[s].start # 0 /\ table[s].group = 1 => table[s].run
      BY <2>2, <1>2, <1>10 DEF Aimed, Members, Alive
    <3> QED BY <3>1, <2>2, <1>3 DEF Alive
  <2> QED BY <2>1, <2>2 DEF Aimed, Members, Alive
<1> QED BY <1>2, <1>8, <1>10, <1>12, <1>13 DEF SweepInv, OneHandle, SweeperRow, ProcessId,
         ProcessRow, InfoRead, SweepPhases

LEMMA ChildIs ==
    ASSUME NEW p \in Pids, NEW q \in Pids, table[p] \in ProcessRow, starts \in Nat,
           NEW child, child = Child(p, q)
    PROVE  /\ child \in ProcessRow /\ child.start = starts + 1 /\ child.parent = p
           /\ child.group = q /\ child.run = table[p].run /\ child.home = table[p].home
           /\ child.marked = (table[p].marked /\ ~table[p].home)
           /\ child.astray = (table[p].astray \/ (table[p].home /\ Identity(p) \in recorded))
<1>0. PICK a \in BOOLEAN : a = (table[p].astray \/ (table[p].home /\ Identity(p) \in recorded))
  OBVIOUS
<1>1. PICK m \in BOOLEAN : m = (table[p].marked /\ ~table[p].home)
  OBVIOUS
<1>2. p \in Nat /\ q \in Nat /\ starts + 1 \in Nat
  BY SweepAssumption
<1>3. PICK forker \in ProcessRow : forker = table[p]
  OBVIOUS
<1>4. child = [forker EXCEPT !.start = starts + 1, !.parent = p, !.group = q, !.marked = m,
                                !.astray = a]
  BY <1>0, <1>1, <1>3 DEF Child
<1>5. /\ child \in ProcessRow /\ child.start = starts + 1 /\ child.parent = p
      /\ child.group = q /\ child.run = forker.run /\ child.home = forker.home /\ child.marked = m
      /\ child.astray = a
  BY <1>2, <1>3, <1>4 DEF ProcessRow
<1> QED BY <1>0, <1>1, <1>3, <1>5

LEMMA SweepFork ==
    ASSUME SweepInv, NEW p \in Pids, NEW q \in Pids, Fork(p, q) PROVE SweepInv'
<1> DEFINE child == Child(p, q)
<1>1. /\ table[p] \in ProcessRow /\ PlaceOf(p) /\ starts \in Nat /\ p \in Nat /\ q \in Nat
      /\ Alive(p) /\ Available(q)
  BY SweepAssumption DEF SweepInv, Processes, Fork
<1>2. /\ child \in ProcessRow /\ child.start = starts + 1 /\ child.parent = p /\ child.group = q
      /\ child.run = table[p].run /\ child.home = table[p].home
      /\ child.marked = (table[p].marked /\ ~table[p].home)
      /\ child.astray = (table[p].astray \/ (table[p].home /\ Identity(p) \in recorded))
  BY <1>1, ChildIs
<1>3. ASSUME NEW pr \in ProcessRow, pr.start = child.start, pr.parent = child.parent,
             pr.run = child.run, pr.astray = child.astray, pr.home => child.home,
             pr.marked => child.marked,
             pr.group \in {q, table[p].group}, Seat(q, pr)
      PROVE  SweepInv'
  <2>1. pr.marked => pr.run
    BY <1>1, <1>2, <1>3 DEF PlaceOf
  <2>2. pr.home => ~pr.run
    BY <1>1, <1>2, <1>3 DEF PlaceOf
  <2>3. pr.start = starts + 1 /\ pr.parent = p /\ pr.run = table[p].run
    BY <1>2, <1>3
  <2>5. Tied(p) => pr.run \/ pr.astray \/ pr.home
    BY <1>2, <1>3 DEF Tied, Ours
  <2>4. pr.group = q \/ \E r \in Pids : Alive(r) /\ pr.group = table[r].group
                                          /\ pr.run = table[r].run
    BY <2>3, <1>1, <1>3
  <2> HIDE DEF child
  <2> QED BY <2>1, <2>2, <2>3, <2>4, <2>5, <1>1, <1>3, SeatKeeps
<1> HIDE DEF child
<1>4. CASE Seat(q, [child EXCEPT !.group = table[p].group])
  <2>1. PICK pr : pr = [child EXCEPT !.group = table[p].group]
    OBVIOUS
  <2>2. pr \in ProcessRow /\ pr.start = child.start /\ pr.parent = child.parent
        /\ pr.run = child.run /\ pr.astray = child.astray /\ pr.home = child.home /\ pr.marked = child.marked
        /\ pr.group = table[p].group
    BY <2>1, <1>1, <1>2 DEF ProcessRow
  <2> QED BY <2>1, <2>2, <1>3, <1>4
<1>5. CASE Seat(q, child)
  BY <1>2, <1>3, <1>5
<1>6. CASE Seat(q, [child EXCEPT !.marked = FALSE])
  <2>1. PICK pr : pr = [child EXCEPT !.marked = FALSE]
    OBVIOUS
  <2>2. pr \in ProcessRow /\ pr.start = child.start /\ pr.parent = child.parent
        /\ pr.run = child.run /\ pr.astray = child.astray /\ pr.home = child.home /\ pr.marked = FALSE
        /\ pr.group = q
    BY <2>1, <1>1, <1>2 DEF ProcessRow
  <2> QED BY <2>1, <2>2, <1>3, <1>6
<1>7. CASE Seat(q, [child EXCEPT !.open = FALSE])
  <2>1. PICK pr : pr = [child EXCEPT !.open = FALSE]
    OBVIOUS
  <2>2. pr \in ProcessRow /\ pr.start = child.start /\ pr.parent = child.parent
        /\ pr.run = child.run /\ pr.astray = child.astray /\ pr.home = child.home /\ pr.marked = child.marked
        /\ pr.group = q
    BY <2>1, <1>1, <1>2 DEF ProcessRow
  <2> QED BY <2>1, <2>2, <1>3, <1>7
<1>8. CASE Seat(q, [child EXCEPT !.home = FALSE])
  <2>1. PICK pr : pr = [child EXCEPT !.home = FALSE]
    OBVIOUS
  <2>2. pr \in ProcessRow /\ pr.start = child.start /\ pr.parent = child.parent
        /\ pr.run = child.run /\ pr.astray = child.astray /\ pr.home = FALSE
        /\ pr.marked = child.marked /\ pr.group = q
    BY <2>1, <1>1, <1>2 DEF ProcessRow
  <2> QED BY <2>1, <2>2, <1>3, <1>8
<1> QED BY <1>4, <1>5, <1>6, <1>7, <1>8 DEF Fork, child

LEMMA FreeIs ==
    Free \in ProcessRow /\ Free.marked = FALSE /\ Free.home = FALSE /\ Free.parent = 0
  BY DEF Free, ProcessRow

LEMMA SweepStranger ==
    ASSUME SweepInv, NEW q \in Pids, Stranger(q) PROVE SweepInv'
<1>1. starts \in Nat /\ q \in Nat /\ Available(q) /\ OlderDaemon \notin Pids /\ 0 \notin Pids
      /\ OlderDaemon \in Nat /\ starts + 1 \in Nat
  BY SweepAssumption DEF SweepInv, Processes, Stranger, OlderDaemon
<1>0. PICK free \in ProcessRow : /\ free = Free /\ free.marked = FALSE /\ free.home = FALSE
                                 /\ free.parent = 0
  BY FreeIs
<1>2. CASE Seat(q, [Free EXCEPT !.start = starts + 1, !.group = q])
  <2>1. PICK pr : pr = [free EXCEPT !.start = starts + 1, !.group = q]
    OBVIOUS
  <2>2. /\ pr \in ProcessRow /\ pr.start = starts + 1 /\ pr.parent = 0 /\ pr.group = q
        /\ pr.marked = FALSE /\ pr.home = FALSE
    BY <2>1, <1>0, <1>1 DEF ProcessRow
  <2> QED BY <2>1, <2>2, <1>0, <1>1, <1>2, SeatKeeps
<1>3. CASE Seat(q, [Free EXCEPT !.start = starts + 1, !.group = q, !.open = FALSE,
                                !.parent = OlderDaemon])
  <2>1. PICK pr : pr = [free EXCEPT !.start = starts + 1, !.group = q, !.open = FALSE,
                                    !.parent = OlderDaemon]
    OBVIOUS
  <2>2. /\ pr \in ProcessRow /\ pr.start = starts + 1 /\ pr.parent = OlderDaemon /\ pr.group = q
        /\ pr.marked = FALSE /\ pr.home = FALSE
    BY <2>1, <1>0, <1>1 DEF ProcessRow
  <2> QED BY <2>1, <2>2, <1>0, <1>1, <1>3, SeatKeeps
<1> QED BY <1>2, <1>3 DEF Stranger

LEMMA SweepExit ==
    ASSUME SweepInv, NEW q \in Pids, Exit(q) PROVE SweepInv'
<1>1. /\ table \in [Pids -> ProcessRow] /\ starts \in Nat /\ starts >= 2
      /\ \A p \in Pids : PlaceOf(p)
      /\ \A p, r \in Pids : Alive(p) /\ Alive(r) /\ table[p].group = table[r].group
                               => table[p].run = table[r].run
      /\ table[1].start = LeaderStart => table[1].run /\ table[1].group = 1
      /\ 1 \in Pids /\ 0 \notin Pids
  BY SweepAssumption DEF SweepInv, Processes
<1>2. /\ table' = [p \in Pids |-> IF p = q THEN Free
                    ELSE IF table[p].parent = q THEN [table[p] EXCEPT !.parent = 0] ELSE table[p]]
      /\ starts' = starts /\ taken' = taken
      /\ protected' = protected /\ recorded' = recorded /\ sweeper' = sweeper /\ wrong' = wrong
  BY DEF Exit
<1>3. table'[q] = Free /\ Free \in ProcessRow /\ Free.start = 0 /\ Free.marked = FALSE
      /\ Free.home = FALSE /\ Free.parent = 0
  BY <1>2 DEF Free, ProcessRow
\* the others stay, without their parent if it was the one that exits
<1>4. ASSUME NEW p \in Pids, p # q
      PROVE  /\ table'[p] \in ProcessRow /\ table'[p].start = table[p].start
             /\ table'[p].marked = table[p].marked /\ table'[p].run = table[p].run
             /\ table'[p].home = table[p].home /\ table'[p].astray = table[p].astray
             /\ table'[p].group = table[p].group
             /\ table'[p].parent = IF table[p].parent = q THEN 0 ELSE table[p].parent
  <2>1. table[p] \in ProcessRow
    BY <1>1
  <2> QED BY <2>1, <1>2, <1>4 DEF ProcessRow
<1>5. table' \in [Pids -> ProcessRow]
  BY <1>2, <1>3, <1>4
<1>6. ASSUME NEW p \in Pids PROVE PlaceOf(p)'
  <2>1. CASE p = q
    BY <2>1, <1>1, <1>2, <1>3 DEF PlaceOf, Alive
  <2>2. CASE p # q
    <3>1. PlaceOf(p)
      BY <1>1
    <3>2. table'[p].parent \in Pids =>
             table'[p].parent = table[p].parent /\ table[p].parent # q
      BY <2>2, <1>1, <1>4
    <3>3. ASSUME NEW r \in Pids, r # q
          PROVE  Alive(r)' = Alive(r) /\ Tied(r)' = Tied(r) /\ Kin(r)' = Kin(r)
      BY <3>3, <1>2, <1>4 DEF Alive, Tied, Kin, Ours, Identity
    <3> QED BY <2>2, <3>1, <3>2, <3>3, <1>2, <1>4 DEF PlaceOf
  <2> QED BY <2>1, <2>2
<1>7. ASSUME NEW p \in Pids, NEW r \in Pids, table'[p].start # 0, table'[r].start # 0,
             table'[p].group = table'[r].group
      PROVE  table'[p].run = table'[r].run
  BY <1>1, <1>3, <1>4, <1>7 DEF Alive
<1>8. table'[1].start = LeaderStart => table'[1].run /\ table'[1].group = 1
  BY <1>1, <1>3, <1>4 DEF LeaderStart
<1>9. Processes'
  BY <1>1, <1>2, <1>5, <1>6, <1>7, <1>8 DEF Processes, Alive, LeaderStart, ProcessRow
<1>10. sweeper \in SweeperRow /\ Known /\ Aimed /\ taken \in BOOLEAN /\ wrong = FALSE
  BY DEF SweepInv
<1>11. /\ sweeper.adopted \subseteq ProcessId /\ sweeper.targets \subseteq ProcessId
       /\ sweeper.handle \subseteq [target: ProcessId, pinned: ProcessId]
       /\ recorded \subseteq ProcessId
  BY <1>10 DEF SweeperRow, Known
<1>12. ASSUME NEW i \in ProcessId, Past(i)
       PROVE  Past(i)' /\ (IsKin(i) => IsKin(i)') /\ (IsOurs(i) => IsOurs(i)')
  <2>1. i.pid \in Pids /\ i.start # 0 /\ Past(i)'
    BY <1>2, <1>12 DEF ProcessId, Past
  <2>2. table'[i.pid].start = i.start => i.pid # q /\ table[i.pid].start = i.start
    BY <2>1, <1>3, <1>4
  <2>3. i.pid # q => Kin(i.pid)' = Kin(i.pid) /\ Ours(i.pid)' = Ours(i.pid)
    BY <2>1, <1>4 DEF Kin, Ours
  <2> QED BY <2>1, <2>2, <2>3 DEF IsKin, IsOurs
<1>13. Known'
  <2>1. \A i \in recorded' : IsKin(i)'
    BY <1>2, <1>12, <1>10, <1>11 DEF Known, IsKin
  <2>2. \A i \in sweeper'.adopted : IsOurs(i)'
    BY <1>2, <1>12, <1>10, <1>11 DEF Known, IsOurs
  <2>3. \A i \in sweeper'.targets : Past(i)' /\ i.pid \notin protected'
    BY <1>2, <1>12, <1>10, <1>11 DEF Known
  <2> QED BY <2>1, <2>2, <2>3, <1>2, <1>10 DEF Known, ProcessId
<1>14. Aimed'
  <2>1. ASSUME NEW h \in sweeper'.handle PROVE HandleIs(h)'
    <3>1. PICK t : t = h.target
      OBVIOUS
    <3>2. /\ t \in ProcessId /\ Past(t) /\ t.pid \notin protected
          /\ h.pinned = t \/ table[t.pid].start # t.start
          /\ sweeper.ok => h.pinned = t /\ IsOurs(t)
      BY <2>1, <3>1, <1>2, <1>10, <1>11 DEF Aimed, HandleIs
    <3>3. t.pid \in Pids /\ t.start # 0
      BY <3>2 DEF ProcessId, Past
    <3>4. Past(t)' /\ (IsOurs(t) => IsOurs(t)')
      BY <3>2, <1>12
    <3> QED BY <3>1, <3>2, <3>3, <3>4, <1>2, <1>3, <1>4 DEF HandleIs
  <2>2. ASSUME sweeper'.at \in {"run", "probe", "send_group"}, ~taken', NEW p \in Pids,
               table'[p].start # 0, table'[p].group = 1
        PROVE  table'[p].run
    <3>1. \A s \in Pids : table[s].start # 0 /\ table[s].group = 1 => table[s].run
      BY <2>2, <1>2, <1>10 DEF Aimed, Members, Alive
    <3> QED BY <3>1, <2>2, <1>3, <1>4
  <2> QED BY <2>1, <2>2 DEF Aimed, Members, Alive
<1> QED BY <1>2, <1>9, <1>10, <1>13, <1>14 DEF SweepInv, OneHandle, SweeperRow, ProcessId,
         ProcessRow, InfoRead, SweepPhases

\* What turns homebased is alone in its group; if it was being adopted, or was
\* verified, it is astray
LEMMA ExecIs ==
    ASSUME SweepInv, NEW q \in Pids, Exec(q)
    PROVE  \E pr \in ProcessRow :
              /\ table' = [table EXCEPT ![q] = pr]
              /\ pr.start = table[q].start /\ pr.marked = FALSE /\ pr.run = FALSE /\ pr.home = TRUE
              /\ (Checked(q) => pr.astray) /\ pr.parent = table[q].parent /\ pr.group = table[q].group
<1>1. PICK old \in ProcessRow : old = table[q]
  BY DEF SweepInv, Processes
<1>2. PICK a \in BOOLEAN : a = (old.astray \/ Checked(q))
  OBVIOUS
<1>3. PICK pr : pr = [old EXCEPT !.marked = FALSE, !.open = TRUE, !.run = FALSE, !.home = TRUE,
                                 !.astray = a]
  OBVIOUS
<1>4. /\ pr \in ProcessRow /\ pr.start = old.start /\ pr.marked = FALSE /\ pr.run = FALSE
      /\ pr.home = TRUE /\ pr.astray = a /\ pr.parent = old.parent /\ pr.group = old.group
  BY <1>1, <1>2, <1>3 DEF ProcessRow
<1>5. table' = [table EXCEPT ![q] = pr]
  <2>1. table' = [table EXCEPT ![q] = [table[q] EXCEPT !.marked = FALSE, !.open = TRUE, !.run = FALSE,
                                           !.home = TRUE, !.astray = table[q].astray \/ Checked(q)]]
    BY Zenon DEF Exec
  <2>2. pr = [table[q] EXCEPT !.marked = FALSE, !.open = TRUE, !.run = FALSE,
                              !.home = TRUE, !.astray = table[q].astray \/ Checked(q)]
    BY <1>1, <1>2, <1>3, Zenon
  <2> QED BY <2>1, <2>2, Zenon
<1> QED BY <1>1, <1>2, <1>4, <1>5

LEMMA SweepExec ==
    ASSUME SweepInv, NEW q \in Pids, Exec(q) PROVE SweepInv'
<1>1. /\ table \in [Pids -> ProcessRow] /\ starts \in Nat /\ starts >= 2
      /\ \A p \in Pids : PlaceOf(p)
      /\ \A p, r \in Pids : Alive(p) /\ Alive(r) /\ table[p].group = table[r].group
                               => table[p].run = table[r].run
      /\ table[1].start = LeaderStart => table[1].run /\ table[1].group = 1
      /\ 1 \in Pids
  BY SweepAssumption DEF SweepInv, Processes
<1>2. /\ starts' = starts /\ taken' = (taken \/ q = 1)
      /\ protected' = protected /\ recorded' = recorded /\ sweeper' = sweeper /\ wrong' = wrong
      /\ table[q].start # 0 /\ table[q].run /\ table[q].start # LeaderStart /\ Members(q) = {q}
  BY DEF Exec, Alive
<1>3. PICK pr \in ProcessRow :
              /\ table' = [table EXCEPT ![q] = pr]
              /\ pr.start = table[q].start /\ pr.marked = FALSE /\ pr.run = FALSE /\ pr.home = TRUE
              /\ (Checked(q) => pr.astray) /\ pr.parent = table[q].parent /\ pr.group = table[q].group
  BY ExecIs
<1>4. table'[q] = pr /\ \A p \in Pids : p # q => table'[p] = table[p]
  BY <1>1, <1>3
<1>5. table[q].group = q /\ \A p \in Pids : table[p].start # 0 /\ table[p].group = q => p = q
  BY <1>2 DEF Members, Alive
<1>6. ASSUME NEW p \in Pids PROVE PlaceOf(p)'
  <2>1. ASSUME NEW r \in Pids
        PROVE  Alive(r)' = Alive(r) /\ (Tied(r)' => Tied(r)) /\ (Kin(r) => Kin(r)')
    <3>1. CASE r = q
      BY <3>1, <1>2, <1>3, <1>4 DEF Alive, Tied, Kin, Ours
    <3>2. CASE r # q
      BY <3>2, <1>2, <1>4 DEF Alive, Tied, Kin, Ours, Identity
    <3> QED BY <3>1, <3>2
  <2>2. PlaceOf(p) /\ table'[p].parent = table[p].parent /\ table'[p].start = table[p].start
    BY <1>1, <1>3, <1>4
  <2>3. table'[p].marked => table'[p].run \/ (table'[p].home /\ p \in protected')
    BY <2>2, <1>2, <1>3, <1>4 DEF PlaceOf
  <2>4. table'[p].home => ~table'[p].run
    BY <2>2, <1>3, <1>4 DEF PlaceOf
  <2> QED BY <2>1, <2>2, <2>3, <2>4, <1>2 DEF PlaceOf
<1>7. ASSUME NEW p \in Pids, NEW r \in Pids, table'[p].start # 0, table'[r].start # 0,
             table'[p].group = table'[r].group
      PROVE  table'[p].run = table'[r].run
  <2>1. table[p].start # 0 /\ table[r].start # 0 /\ table[p].group = table[r].group
    BY <1>3, <1>4, <1>7
  <2>2. p = q <=> r = q
    BY <2>1, <1>5
  <2> QED BY <2>1, <2>2, <1>1, <1>4 DEF Alive
<1>8. table'[1].start = LeaderStart => table'[1].run /\ table'[1].group = 1
  BY <1>1, <1>2, <1>3, <1>4
<1>9. Processes'
  <2>1. table' \in [Pids -> ProcessRow]
    BY <1>1, <1>3
  <2> QED BY <2>1, <1>1, <1>2, <1>6, <1>7, <1>8 DEF Processes, Alive, LeaderStart, ProcessRow
<1>10. sweeper \in SweeperRow /\ Known /\ Aimed /\ taken \in BOOLEAN /\ wrong = FALSE
  BY DEF SweepInv
<1>11. /\ sweeper.adopted \subseteq ProcessId /\ sweeper.targets \subseteq ProcessId
       /\ sweeper.handle \subseteq [target: ProcessId, pinned: ProcessId]
       /\ recorded \subseteq ProcessId
  BY <1>10 DEF SweeperRow, Known
<1>12. ASSUME NEW i \in ProcessId, Past(i)
       PROVE  /\ Past(i)' /\ (IsKin(i) => IsKin(i)')
              /\ (i.pid = q /\ table[q].start = i.start => Checked(q)) /\ IsOurs(i) => IsOurs(i)'
  <2>1. i.pid \in Pids /\ Past(i)' /\ table'[i.pid].start = table[i.pid].start
    BY <1>2, <1>3, <1>4, <1>12 DEF ProcessId, Past
  <2>2. CASE i.pid = q
    BY <2>1, <2>2, <1>3, <1>4 DEF IsKin, IsOurs, Kin, Ours
  <2>3. CASE i.pid # q
    BY <2>1, <2>3, <1>4 DEF IsKin, IsOurs, Kin, Ours
  <2> QED BY <2>1, <2>2, <2>3
<1>13. Known'
  <2>1. \A i \in recorded' : IsKin(i)'
    BY <1>2, <1>12, <1>10, <1>11 DEF Known, IsKin
  <2>2. ASSUME NEW i \in sweeper'.adopted PROVE IsOurs(i)'
    <3>1. i \in ProcessId /\ i \in sweeper.adopted /\ IsOurs(i)
      BY <2>2, <1>2, <1>10, <1>11 DEF Known
    <3>2. i.pid = q /\ table[q].start = i.start => Checked(q)
      BY <3>1 DEF Checked, Identity, ProcessId
    <3> QED BY <3>1, <3>2, <1>12 DEF IsOurs
  <2>3. \A i \in sweeper'.targets : Past(i)' /\ i.pid \notin protected'
    BY <1>2, <1>12, <1>10, <1>11 DEF Known
  <2> QED BY <2>1, <2>2, <2>3, <1>2, <1>10 DEF Known, ProcessId
<1>14. Aimed'
  <2>1. ASSUME NEW h \in sweeper'.handle PROVE HandleIs(h)'
    <3>1. PICK t : t = h.target
      OBVIOUS
    <3>2. /\ t \in ProcessId /\ Past(t) /\ t.pid \notin protected
          /\ h.pinned = t \/ table[t.pid].start # t.start
          /\ sweeper.ok => h.pinned = t /\ IsOurs(t)
      BY <2>1, <3>1, <1>2, <1>10, <1>11 DEF Aimed, HandleIs
    <3>3. t.pid \in Pids /\ table'[t.pid].start = table[t.pid].start
      BY <3>2, <1>3, <1>4 DEF ProcessId
    <3>4. sweeper.ok /\ t.pid = q /\ table[q].start = t.start => Checked(q)
      BY <2>1, <3>2, <1>2 DEF Checked, Identity, ProcessId
    <3>5. Past(t)' /\ (sweeper.ok => IsOurs(t)')
      BY <3>2, <3>4, <1>12
    <3> QED BY <3>1, <3>2, <3>3, <3>5, <1>2 DEF HandleIs
  <2>2. ASSUME sweeper'.at \in {"run", "probe", "send_group"}, ~taken', NEW p \in Pids,
               table'[p].start # 0, table'[p].group = 1
        PROVE  table'[p].run
    <3>1. q # 1 /\ \A s \in Pids : table[s].start # 0 /\ table[s].group = 1 => table[s].run
      BY <2>2, <1>2, <1>10 DEF Aimed, Members, Alive
    <3> QED BY <3>1, <2>2, <1>3, <1>4, <1>5
  <2> QED BY <2>1, <2>2 DEF Aimed, Members, Alive
<1> QED BY <1>2, <1>9, <1>10, <1>13, <1>14 DEF SweepInv, OneHandle, SweeperRow, ProcessId,
         ProcessRow, InfoRead, SweepPhases

-----------------------------------------------------------------------------
(* The sweeper, while the processes stay as they are *)

\* The state of the sweeper and what it recorded, over a table that stays
LEMMA SweeperStep ==
    ASSUME SweepInv, table' = table, starts' = starts, protected' = protected,
           sweeper' \in SweeperRow, recorded' \subseteq ProcessId,
           \A i \in recorded' : IsKin(i),
           \A p \in Pids : table[p].home /\ Identity(p) \in recorded' => Tied(p),
           \A i \in sweeper'.adopted : IsOurs(i),
           \A i \in sweeper'.info : i.read.start <= starts,
           \A i \in sweeper'.targets : Past(i) /\ i.pid \notin protected,
           \A h \in sweeper'.handle :
              /\ Past(h.target) /\ h.target.pid \notin protected
              /\ h.pinned = h.target \/ table[h.target.pid].start # h.target.start
              /\ sweeper'.ok => h.pinned = h.target /\ IsOurs(h.target),
           \A g, h \in sweeper'.handle : g = h,
           sweeper'.at \in {"run", "probe", "send_group"} /\ ~taken' =>
              \A p \in Members(1) : table[p].run,
           taken' \in BOOLEAN, wrong' = FALSE
    PROVE  SweepInv'
<1>1. Processes'
  <2>1. Processes
    BY DEF SweepInv
  <2>2. ASSUME NEW p \in Pids PROVE PlaceOf(p)'
    <3>1. PlaceOf(p)
      BY <2>1 DEF Processes
    <3>2. \A r \in Pids : Alive(r)' = Alive(r) /\ (Tied(r)' => Tied(r)) /\ Kin(r)' = Kin(r)
      BY DEF Alive, Tied, Kin, Ours, Identity
    <3> QED BY <3>1, <3>2 DEF PlaceOf
  <2> QED BY <2>1, <2>2 DEF Processes, Alive, ProcessRow
<1>2. Known'
  BY DEF Known, IsKin, IsOurs, Kin, Ours, Past, ProcessId
<1>3. Aimed'
  <2>1. \A h \in sweeper'.handle : HandleIs(h)'
    BY DEF HandleIs, IsOurs, Ours, Past
  <2> QED BY <2>1 DEF Aimed, Members, Alive
<1> QED BY <1>1, <1>2, <1>3 DEF SweepInv, OneHandle, SweeperRow, ProcessId, ProcessRow, InfoRead,
         SweepPhases

\* What SweepInv says of a sweeper that stays
LEMMA StaysAimed ==
    ASSUME SweepInv
    PROVE  /\ sweeper \in SweeperRow /\ recorded \subseteq ProcessId
           /\ \A i \in recorded : IsKin(i)
           /\ \A p \in Pids : table[p].home /\ Identity(p) \in recorded => Tied(p)
           /\ \A i \in sweeper.adopted : IsOurs(i)
           /\ \A i \in sweeper.info : i.read.start <= starts
           /\ \A i \in sweeper.targets : Past(i) /\ i.pid \notin protected
           /\ \A h \in sweeper.handle :
                 /\ Past(h.target) /\ h.target.pid \notin protected
                 /\ h.pinned = h.target \/ table[h.target.pid].start # h.target.start
                 /\ sweeper.ok => h.pinned = h.target /\ IsOurs(h.target)
           /\ \A g, h \in sweeper.handle : g = h
           /\ sweeper.at \in {"run", "probe", "send_group"} /\ ~taken =>
                 \A p \in Members(1) : table[p].run
           /\ taken \in BOOLEAN /\ wrong = FALSE
<1>1. \A p \in Pids : table[p].home /\ Identity(p) \in recorded => Tied(p)
  BY DEF Tied
<1> QED BY <1>1 DEF SweepInv, Known, Aimed, HandleIs, OneHandle

\* A step that aims at nothing new
LEMMA QuietStep ==
    ASSUME SweepInv, table' = table, starts' = starts, protected' = protected,
           recorded' = recorded, taken' = taken, wrong' = wrong,
           sweeper' \in SweeperRow,
           sweeper'.at \in {"run", "probe", "send_group"} =>
              sweeper.at \in {"run", "probe", "send_group"},
           sweeper'.adopted \subseteq sweeper.adopted,
           sweeper'.info \subseteq sweeper.info, sweeper'.targets \subseteq sweeper.targets,
           sweeper'.handle \subseteq sweeper.handle, sweeper'.ok => sweeper.ok
    PROVE  SweepInv'
<1>1. \A i \in sweeper'.adopted : IsOurs(i)
  BY StaysAimed
<1>2. \A i \in sweeper'.info : i.read.start <= starts
  BY StaysAimed
<1>3. \A i \in sweeper'.targets : Past(i) /\ i.pid \notin protected
  BY StaysAimed
<1>4. \A h \in sweeper'.handle :
              /\ Past(h.target) /\ h.target.pid \notin protected
              /\ h.pinned = h.target \/ table[h.target.pid].start # h.target.start
              /\ sweeper'.ok => h.pinned = h.target /\ IsOurs(h.target)
  BY StaysAimed
<1>5. \A g, h \in sweeper'.handle : g = h
  BY StaysAimed
<1> QED BY <1>1, <1>2, <1>3, <1>4, <1>5, StaysAimed, SweeperStep

\* What is recorded is tied to the run: its live processes are closed under
\* `Descends', whatever executables cannot be read
LEMMA ObservedIsTied ==
    ASSUME SweepInv, NEW unread
    PROVE  /\ try_observe(unread) \subseteq ProcessId /\ \A i \in try_observe(unread) : IsKin(i)
           /\ \A p \in Pids : Identity(p) \in try_observe(unread) => Tied(p)
<1> DEFINE ours == {i \in Living : Tied(i.pid)}
           leader == [pid |-> 1, start |-> LeaderStart]
           kept == {i \in recorded : Identity(i.pid) = i}
<1>1. /\ table \in [Pids -> ProcessRow] /\ starts \in Nat /\ \A p \in Pids : PlaceOf(p)
      /\ table[1].start = LeaderStart => table[1].run
      /\ 1 \in Pids /\ recorded \subseteq ProcessId /\ \A i \in recorded : IsKin(i)
  BY SweepAssumption DEF SweepInv, Processes, Known
<1>2. ASSUME NEW i \in Living
      PROVE  /\ i \in ProcessId /\ i.pid \in Pids /\ table[i.pid].start = i.start
             /\ i.start # 0 /\ i.start <= starts /\ i.start \in Nat
  <2>1. PICK p \in Pids : Alive(p) /\ i = Identity(p)
    BY DEF Living
  <2>2. table[p] \in ProcessRow /\ PlaceOf(p)
    BY <1>1
  <2> QED BY <2>1, <2>2 DEF Identity, Alive, ProcessId, ProcessRow, PlaceOf
<1>3. kept \subseteq ours
  <2>1. ASSUME NEW i \in recorded, Identity(i.pid) = i
        PROVE  i \in Living /\ Tied(i.pid)
    <3>1. i.pid \in Pids /\ i.start # 0 /\ (table[i.pid].start = i.start => Kin(i.pid))
      BY <1>1 DEF ProcessId, IsKin, Past
    <3>2. table[i.pid].start = i.start
      BY <2>1 DEF Identity
    <3>3. i \in Living
      BY <3>1, <3>2, <2>1 DEF Living, Alive
    <3> QED BY <3>1, <3>2, <3>3, <2>1 DEF Tied, Kin
  <2> QED BY <2>1
<1>4. Descends(ours \cup {leader}, unread) \subseteq ours
  <2>1. ASSUME NEW q \in Pids, Alive(q), ~is_boundary(q, unread), NEW i \in ours \cup {leader},
               table[q].parent = i.pid, Identity(i.pid) = i
        PROVE  Identity(q) \in Living /\ Tied(q)
    <3>1. i.pid \in Pids /\ Tied(i.pid)
      <4>1. CASE i \in ours
        BY <4>1, <1>2
      <4>2. CASE i = leader
        BY <4>2, <2>1, <1>1 DEF Identity, Tied, Ours
      <4> QED BY <4>1, <4>2, <2>1
    <3>2. Kin(q) /\ ~table[q].home
      BY <3>1, <2>1, <1>1 DEF PlaceOf, is_boundary
    <3> QED BY <3>2, <2>1 DEF Living, Tied, Kin
  <2>2. \A q \in Pids : Identity(q).pid = q
    BY DEF Identity
  <2> HIDE DEF leader
  <2>3. SUFFICES ASSUME NEW j \in Descends(ours \cup {leader}, unread) PROVE j \in ours
    OBVIOUS
  <2>4. PICK q \in Pids : /\ Alive(q) /\ ~is_boundary(q, unread) /\ j = Identity(q)
                          /\ \E i \in ours \cup {leader} :
                               table[q].parent = i.pid /\ Identity(i.pid) = i
    BY <2>3 DEF Descends
  <2>5. Identity(q) \in Living /\ Tied(q)
    BY <2>1, <2>4
  <2> QED BY <2>2, <2>4, <2>5
<1>5. ours \in SUBSET Living
  OBVIOUS
<1>6. try_observe(unread) \subseteq ours
  <2> HIDE DEF ours
  <2> QED BY <1>3, <1>4, <1>5 DEF try_observe
<1>7. ASSUME NEW i \in try_observe(unread) PROVE i \in ProcessId /\ IsKin(i) /\ Tied(i.pid)
  <2>1. i \in Living /\ Tied(i.pid)
    BY <1>6
  <2>2. Kin(i.pid)
    BY <2>1 DEF Tied, Kin
  <2> QED BY <2>1, <2>2, <1>1, <1>2 DEF IsKin, Past
<1>8. \A p \in Pids : Identity(p).pid = p
  BY DEF Identity
<1> QED BY <1>7, <1>8

\* A process that shows the marker, twice the same, and is not protected
LEMMA MarkedIsOurs ==
    ASSUME SweepInv, NEW p \in Pids, p \notin protected, NEW info, info.start \in Nat,
           info.start <= starts, NEW denied \in BOOLEAN, ObservedBy(p, info, denied) = "marked"
    PROVE  [pid |-> p, start |-> info.start] \in ProcessId
           /\ IsOurs([pid |-> p, start |-> info.start])
<1>1. PICK i : i = [pid |-> p, start |-> info.start]
  OBVIOUS
<1>2. i \in ProcessId /\ i.pid = p /\ i.start = info.start
  BY <1>1 DEF ProcessId
<1>3. info.start # 0
  BY DEF ObservedBy
<1>4. CASE i \in sweeper.adopted
  BY <1>1, <1>2, <1>4 DEF SweepInv, Known
<1>5. CASE i \notin sweeper.adopted
  <2>1. table[p].marked
    BY <1>1, <1>3, <1>5 DEF ObservedBy
  <2>2. table[p].run
    BY <2>1 DEF SweepInv, Processes, PlaceOf
  <2> QED BY <1>1, <1>2, <1>3, <2>2 DEF IsOurs, Ours, Past, SweepInv, Processes
<1> QED BY <1>4, <1>5

-----------------------------------------------------------------------------
(* Each step of the sweeper *)

LEMMA SweepObserves ==
    ASSUME SweepInv, observe_descendants PROVE SweepInv'
<1>1. /\ table' = table /\ starts' = starts /\ protected' = protected /\ sweeper' = sweeper
      /\ taken' = taken /\ wrong' = wrong /\ \E unread : recorded' = try_observe(unread)
  BY DEF observe_descendants
<1>2. /\ recorded' \subseteq ProcessId /\ \A i \in recorded' : IsKin(i)
      /\ \A p \in Pids : Identity(p) \in recorded' => Tied(p)
  BY <1>1, ObservedIsTied
<1> QED BY <1>1, <1>2, StaysAimed, SweeperStep

LEMMA SweepRunChild ==
    ASSUME SweepInv, run_child PROVE SweepInv'
<1>1. /\ table' = table /\ starts' = starts /\ protected' = protected
      /\ taken' = taken /\ wrong' = wrong
      /\ recorded' = recorded \/ \E unread : recorded' = try_observe(unread)
      /\ sweeper' = [sweeper EXCEPT !.at = "probe"] /\ sweeper.at = "run"
  BY DEF run_child, Watches, Ghosts, Is
<1>2. sweeper \in SweeperRow
  BY DEF SweepInv
<1>3. /\ recorded' \subseteq ProcessId /\ \A i \in recorded' : IsKin(i)
      /\ \A p \in Pids : table[p].home /\ Identity(p) \in recorded' => Tied(p)
  BY <1>1, ObservedIsTied, StaysAimed
<1>4. /\ sweeper' \in SweeperRow /\ sweeper'.at = "probe" /\ sweeper'.adopted = sweeper.adopted
      /\ sweeper'.info = sweeper.info /\ sweeper'.targets = sweeper.targets
      /\ sweeper'.handle = sweeper.handle /\ sweeper'.ok = sweeper.ok
  BY <1>1, <1>2 DEF SweeperRow, SweepPhases
<1> QED BY <1>1, <1>3, <1>4, StaysAimed, SweeperStep

\* A new phase and what goes with it leave identities, targets and handles alone
AimOf(s) == <<s.adopted, s.info, s.targets, s.handle, s.ok>>

LEMMA PhaseStep ==
    ASSUME NEW s \in SweeperRow, NEW at \in SweepPhases, NEW b \in BOOLEAN
    PROVE  /\ [s EXCEPT !.at = at] \in SweeperRow /\ [s EXCEPT !.at = at].at = at
           /\ AimOf([s EXCEPT !.at = at]) = AimOf(s)
           /\ [s EXCEPT !.killed = b] \in SweeperRow /\ [s EXCEPT !.killed = b].at = s.at
           /\ AimOf([s EXCEPT !.killed = b]) = AimOf(s)
           /\ [s EXCEPT !.at = at, !.bound = b] \in SweeperRow
           /\ [s EXCEPT !.at = at, !.bound = b].at = at
           /\ AimOf([s EXCEPT !.at = at, !.bound = b]) = AimOf(s)
           /\ [s EXCEPT !.at = at, !.killed = b] \in SweeperRow
           /\ [s EXCEPT !.at = at, !.killed = b].at = at
           /\ AimOf([s EXCEPT !.at = at, !.killed = b]) = AimOf(s)
<1>1. [s EXCEPT !.at = at] \in SweeperRow /\ [s EXCEPT !.at = at].at = at
      /\ AimOf([s EXCEPT !.at = at]) = AimOf(s)
  BY DEF SweeperRow, AimOf
<1>2. [s EXCEPT !.killed = b] \in SweeperRow /\ [s EXCEPT !.killed = b].at = s.at
      /\ AimOf([s EXCEPT !.killed = b]) = AimOf(s)
  BY DEF SweeperRow, AimOf
<1>3. /\ [s EXCEPT !.at = at, !.bound = b] \in SweeperRow
      /\ [s EXCEPT !.at = at, !.bound = b].at = at
      /\ AimOf([s EXCEPT !.at = at, !.bound = b]) = AimOf(s)
  BY DEF SweeperRow, AimOf
<1>4. /\ [s EXCEPT !.at = at, !.killed = b] \in SweeperRow
      /\ [s EXCEPT !.at = at, !.killed = b].at = at
      /\ AimOf([s EXCEPT !.at = at, !.killed = b]) = AimOf(s)
  BY DEF SweeperRow, AimOf
<1> QED BY <1>1, <1>2, <1>3, <1>4

LEMMA SameAim ==
    ASSUME SweepInv, table' = table, starts' = starts, protected' = protected,
           recorded' = recorded, taken' = taken, wrong' = wrong,
           sweeper' \in SweeperRow,
           sweeper'.at \in {"run", "probe", "send_group"} =>
              sweeper.at \in {"run", "probe", "send_group"},
           AimOf(sweeper') = AimOf(sweeper)
    PROVE  SweepInv'
<1>1. /\ sweeper'.adopted = sweeper.adopted /\ sweeper'.info = sweeper.info
      /\ sweeper'.targets = sweeper.targets /\ sweeper'.handle = sweeper.handle
      /\ sweeper'.ok = sweeper.ok
  BY DEF AimOf
<1> QED BY <1>1, QuietStep

\* The worker's group signals reach the run, unless the group's id was taken over
LEMMA GroupSignal ==
    ASSUME SweepInv, sweeper.at \in {"run", "probe", "send_group"}, SignalsGroup
    PROVE  wrong' = wrong
<1>1. wrong = FALSE /\ (~taken => \A p \in Members(1) : table[p].run)
  BY StaysAimed
<1> QED BY <1>1 DEF SignalsGroup

LEMMA SweepCleansGroup ==
    ASSUME SweepInv, cleanup_process_group PROVE SweepInv'
<1>1. /\ table' = table /\ starts' = starts /\ protected' = protected
      /\ taken' = taken /\ sweeper.at = "probe"
  BY DEF cleanup_process_group, Watches, Is
<1>2. sweeper \in SweeperRow /\ recorded \subseteq ProcessId
  BY DEF SweepInv, Known
<1>3. ASSUME NEW kill \in BOOLEAN, sweeper' = [sweeper EXCEPT !.killed = kill], SignalsGroup,
             recorded' = recorded
      PROVE  SweepInv'
  <2>1. "probe" \in SweepPhases
    BY DEF SweepPhases
  <2>2. sweeper' \in SweeperRow /\ sweeper'.at = "probe" /\ AimOf(sweeper') = AimOf(sweeper)
    BY <2>1, <1>1, <1>2, <1>3, PhaseStep
  <2>3. wrong' = wrong
    BY <1>1, <1>3, GroupSignal
  <2> QED BY <2>2, <2>3, <1>1, <1>3, SameAim
<1>4. ASSUME NEW evidence \in BOOLEAN, NEW unread, sweeper' = stop_leftovers(evidence, unread),
             recorded' = {}, wrong' = wrong
      PROVE  SweepInv'
  <2>0. /\ recorded' \subseteq ProcessId /\ \A i \in recorded' : IsKin(i)
        /\ \A p \in Pids : table[p].home /\ Identity(p) \in recorded' => Tied(p)
    BY <1>4
  <2>1. PICK s \in SweeperRow :
           /\ sweeper' = s /\ s.at \in {"list", "incomplete"}
           /\ s.info = sweeper.info /\ s.targets = sweeper.targets
           /\ s.handle = sweeper.handle /\ s.ok = sweeper.ok
           /\ s.adopted \in {sweeper.adopted, into_adopted(unread)}
    <3>1. CASE sweeper.mode = "agent"
      <4>1. PICK ids \in SUBSET ProcessId : ids = into_adopted(unread)
        BY <1>2 DEF into_adopted
      <4>2. sweeper' = [sweeper EXCEPT !.at = "list", !.adopted = ids]
        BY <4>1, <1>4, <3>1 DEF stop_leftovers
      <4>3. /\ sweeper' \in SweeperRow /\ sweeper'.at = "list" /\ sweeper'.adopted = ids
            /\ sweeper'.info = sweeper.info /\ sweeper'.targets = sweeper.targets
            /\ sweeper'.handle = sweeper.handle /\ sweeper'.ok = sweeper.ok
        BY <4>2, <1>2 DEF SweeperRow, SweepPhases
      <4> QED BY <4>1, <4>3
    <3>2. CASE sweeper.mode # "agent"
      <4>1. PICK at \in {"list", "incomplete"} :
               sweeper' = [sweeper EXCEPT !.at = at, !.bound = TRUE]
        BY <1>4, <3>2 DEF stop_leftovers
      <4>2. /\ sweeper' \in SweeperRow /\ sweeper'.at = at /\ sweeper'.adopted = sweeper.adopted
            /\ sweeper'.info = sweeper.info /\ sweeper'.targets = sweeper.targets
            /\ sweeper'.handle = sweeper.handle /\ sweeper'.ok = sweeper.ok
        BY <4>1, <1>2 DEF SweeperRow, SweepPhases
      <4> QED BY <4>2
    <3> QED BY <3>1, <3>2
  <2>2. ASSUME NEW i \in into_adopted(unread) PROVE IsOurs(i)
    <3>1. IsKin(i) /\ ~table[i.pid].home
      BY <2>2, StaysAimed DEF into_adopted, is_boundary
    <3> QED BY <3>1 DEF IsKin, IsOurs, Kin
  <2>3. \A i \in sweeper'.adopted : IsOurs(i)
    BY <2>1, <2>2, StaysAimed
  <2> QED BY <2>0, <2>1, <2>3, <1>1, <1>4, StaysAimed, SweeperStep
<1>5. \/ /\ recorded' = {} /\ wrong' = wrong
         /\ \E evidence \in BOOLEAN, unread \in SUBSET Unreadable :
               sweeper' = stop_leftovers(evidence, unread)
      \/ /\ SignalsGroup /\ recorded' = recorded
         /\ \E kill \in BOOLEAN : sweeper' = [sweeper EXCEPT !.killed = kill]
  BY DEF cleanup_process_group
<1> QED BY <1>3, <1>4, <1>5

LEMMA SweepsMarkerIs ==
    ASSUME SweepInv
    PROVE  SweepsMarker \in SweeperRow /\ SweepsMarker.at = "list"
           /\ AimOf(SweepsMarker) = AimOf(sweeper)
<1>1. sweeper \in SweeperRow /\ "list" \in SweepPhases
  BY DEF SweepInv, SweepPhases
<1> QED BY <1>1, PhaseStep DEF SweepsMarker

\* A group that is the run's by its leader, or by a member with the marker, has
\* no other member
LEMMA AttributedIsOfRun ==
    ASSUME SweepInv, NEW denied \in BOOLEAN, attribute_group(denied) = "run"
    PROVE  \A p \in Members(1) : table[p].run
<1>1. /\ Members(1) \cap protected = {}
      /\ Identity(1).start = LeaderStart \/ \E p \in Members(1) : table[p].marked
  BY DEF attribute_group
<1>2. /\ table \in [Pids -> ProcessRow] /\ starts \in Nat /\ \A p \in Pids : PlaceOf(p)
      /\ \A p, q \in Pids : Alive(p) /\ Alive(q) /\ table[p].group = table[q].group
                               => table[p].run = table[q].run
      /\ table[1].start = LeaderStart => table[1].run /\ table[1].group = 1
      /\ 1 \in Pids
  BY SweepAssumption DEF SweepInv, Processes
<1>3. PICK w \in Members(1) : table[w].run
  <2>1. CASE Identity(1).start = LeaderStart
    <3>1. table[1].start = LeaderStart
      BY <2>1 DEF Identity
    <3>2. 1 \in Members(1)
      BY <3>1, <1>2 DEF Members, Alive, LeaderStart
    <3> QED BY <3>1, <3>2, <1>2
  <2>2. ASSUME NEW p \in Members(1), table[p].marked
        PROVE  table[p].run
    BY <2>2, <1>1, <1>2 DEF Members, PlaceOf
  <2> QED BY <2>1, <2>2, <1>1
<1> QED BY <1>2, <1>3 DEF Members

LEMMA SweepLostGroup ==
    ASSUME SweepInv, lost_group PROVE SweepInv'
<1>1. /\ table' = table /\ starts' = starts /\ protected' = protected
      /\ taken' = FALSE /\ wrong' = wrong /\ recorded' = recorded
  BY DEF lost_group, Watches
<1>2. sweeper \in SweeperRow
  BY DEF SweepInv
<1>0. PICK denied \in BOOLEAN :
         sweeper' = CASE attribute_group(denied) = "gone" -> SweepsMarker
                      [] attribute_group(denied) = "run" -> [sweeper EXCEPT !.at = "send_group"]
                      [] OTHER -> [sweeper EXCEPT !.at = "incomplete"]
  BY DEF lost_group
<1>3. /\ sweeper' \in SweeperRow /\ AimOf(sweeper') = AimOf(sweeper)
      /\ sweeper'.at \in {"list", "send_group", "incomplete"}
      /\ sweeper'.at = "send_group" => attribute_group(denied) = "run"
  <2>1. CASE attribute_group(denied) = "gone"
    BY <2>1, <1>0, SweepsMarkerIs
  <2>2. CASE attribute_group(denied) = "run"
    <3>1. sweeper' = [sweeper EXCEPT !.at = "send_group"]
      BY <2>2, <1>0
    <3>2. "send_group" \in SweepPhases
      BY DEF SweepPhases
    <3> QED BY <3>1, <3>2, <2>2, <1>2, PhaseStep
  <2>3. CASE attribute_group(denied) \notin {"gone", "run"}
    <3>1. sweeper' = [sweeper EXCEPT !.at = "incomplete"]
      BY <2>3, <1>0
    <3>2. "incomplete" \in SweepPhases
      BY DEF SweepPhases
    <3> QED BY <3>1, <3>2, <1>2, PhaseStep
  <2> QED BY <2>1, <2>2, <2>3
<1>4. /\ sweeper'.adopted = sweeper.adopted /\ sweeper'.info = sweeper.info
      /\ sweeper'.targets = sweeper.targets /\ sweeper'.handle = sweeper.handle
      /\ sweeper'.ok = sweeper.ok
  BY <1>3 DEF AimOf
<1>5. sweeper'.at = "send_group" => \A p \in Members(1) : table[p].run
  BY <1>3, AttributedIsOfRun
<1> QED BY <1>1, <1>3, <1>4, <1>5, StaysAimed, SweeperStep

LEMMA SweepSendGroup ==
    ASSUME SweepInv, send_group PROVE SweepInv'
<1>1. /\ table' = table /\ starts' = starts /\ protected' = protected
      /\ taken' = taken /\ recorded' = recorded
      /\ sweeper.at = "send_group" /\ sweeper' = [sweeper EXCEPT !.at = "wait_group"]
  BY DEF send_group, Watches, Is
<1>2. sweeper \in SweeperRow /\ "wait_group" \in SweepPhases
  BY DEF SweepInv, SweepPhases
<1>4. wrong' = wrong
  BY <1>1, GroupSignal DEF send_group
<1> QED BY <1>1, <1>2, <1>4, PhaseStep, SameAim

LEMMA SweepWaitGroup ==
    ASSUME SweepInv, wait_group_gone PROVE SweepInv'
<1>1. /\ table' = table /\ starts' = starts /\ protected' = protected
      /\ taken' = taken /\ wrong' = wrong /\ recorded' = recorded
  BY DEF wait_group_gone, Watches, Ghosts
<1>2. sweeper \in SweeperRow /\ "incomplete" \in SweepPhases /\ "attribute" \in SweepPhases
  BY DEF SweepInv, SweepPhases
<1>3. /\ sweeper' \in SweeperRow /\ sweeper'.at \in {"list", "incomplete", "attribute"}
      /\ AimOf(sweeper') = AimOf(sweeper)
  <2>1. CASE sweeper' = SweepsMarker
    BY <2>1, SweepsMarkerIs
  <2>2. CASE sweeper' = [sweeper EXCEPT !.at = "incomplete"]
    BY <2>2, <1>2, PhaseStep
  <2>3. CASE sweeper' = [sweeper EXCEPT !.at = "attribute", !.killed = TRUE]
    BY <2>3, <1>2, PhaseStep
  <2> QED BY <2>1, <2>2, <2>3 DEF wait_group_gone
<1> QED BY <1>1, <1>3, SameAim

LEMMA SweepListBegins ==
    ASSUME SweepInv, list_begins PROVE SweepInv'
<1>1. /\ table' = table /\ starts' = starts /\ protected' = protected
      /\ taken' = taken /\ wrong' = wrong /\ recorded' = recorded
      /\ sweeper' = [sweeper EXCEPT !.at = "listing", !.begun = Living, !.targets = {},
                                    !.suspects = {}, !.unsettled = FALSE]
  BY DEF list_begins, Watches
<1>2. Living \subseteq ProcessId
  <2>1. table \in [Pids -> ProcessRow]
    BY DEF SweepInv, Processes
  <2> QED BY <2>1 DEF Living, Identity, ProcessId, ProcessRow
<1>3. sweeper \in SweeperRow
  BY DEF SweepInv
<1>4. /\ sweeper' \in SweeperRow /\ sweeper'.at = "listing" /\ sweeper'.adopted = sweeper.adopted
      /\ sweeper'.info = sweeper.info /\ sweeper'.targets = {}
      /\ sweeper'.handle = sweeper.handle /\ sweeper'.ok = sweeper.ok
  BY <1>1, <1>2, <1>3 DEF SweeperRow, SweepPhases
<1> QED BY <1>1, <1>4, QuietStep

LEMMA SweepListEnds ==
    ASSUME SweepInv, list_ends PROVE SweepInv'
<1>1. /\ table' = table /\ starts' = starts /\ protected' = protected
      /\ taken' = taken /\ wrong' = wrong /\ recorded' = recorded
  BY DEF list_ends, Watches, Ghosts
<1>2. sweeper \in SweeperRow
  BY DEF SweepInv
<1>3. PICK listed \in SUBSET Pids :
         sweeper' = [sweeper EXCEPT !.at = "scan", !.todo = listed, !.begun = {}]
  <2>1. {i.pid : i \in sweeper.begun} \subseteq Pids
    BY <1>2 DEF SweeperRow, ProcessId
  <2> QED BY <2>1 DEF list_ends
<1>4. /\ sweeper' \in SweeperRow /\ sweeper'.at = "scan" /\ sweeper'.adopted = sweeper.adopted
      /\ sweeper'.info = sweeper.info /\ sweeper'.targets = sweeper.targets
      /\ sweeper'.handle = sweeper.handle /\ sweeper'.ok = sweeper.ok
  BY <1>2, <1>3 DEF SweeperRow, SweepPhases
<1> QED BY <1>1, <1>4, QuietStep

LEMMA SweepReadInfo ==
    ASSUME SweepInv, read_info PROVE SweepInv'
<1>1. /\ table' = table /\ starts' = starts /\ protected' = protected
      /\ taken' = taken /\ wrong' = wrong /\ recorded' = recorded
      /\ sweeper.at = "scan" /\ sweeper.todo # {}
  BY DEF read_info, Watches, Ghosts, Is
<1>2. /\ sweeper \in SweeperRow /\ Known /\ Aimed /\ OneHandle /\ taken \in BOOLEAN /\ wrong = FALSE
      /\ table \in [Pids -> ProcessRow] /\ \A p \in Pids : PlaceOf(p)
  BY DEF SweepInv, Processes
<1>3. sweeper.todo \subseteq Pids /\ sweeper.todo \subseteq Nat
  BY <1>2, SweepAssumption DEF SweeperRow
<1>4. PICK p \in sweeper.todo : p = CHOOSE q \in sweeper.todo : \A r \in sweeper.todo : q <= r
  <2>1. PICK m \in sweeper.todo : \A n \in sweeper.todo : ~(n < m)
    BY <1>1, <1>3, LeastNumber
  <2>2. \A n \in sweeper.todo : m <= n
    BY <2>1, <1>3
  <2> QED BY <2>2
<1>5. PICK i : i = [pid |-> p, read |-> [start |-> table[p].start, parent |-> table[p].parent]]
  OBVIOUS
<1>6. i \in [pid: Pids, read: InfoRead] /\ i.read.start <= starts
  BY <1>2, <1>3, <1>5 DEF PlaceOf, InfoRead, ProcessRow
<1>7. sweeper' = [sweeper EXCEPT !.info = {i}]
  BY <1>4, <1>5 DEF read_info
<1>8. /\ sweeper' \in SweeperRow /\ sweeper'.at = sweeper.at /\ sweeper'.adopted = sweeper.adopted
      /\ sweeper'.info = {i} /\ sweeper'.targets = sweeper.targets
      /\ sweeper'.handle = sweeper.handle /\ sweeper'.ok = sweeper.ok
  BY <1>2, <1>6, <1>7 DEF SweeperRow
<1> QED BY <1>1, <1>6, <1>8, StaysAimed, SweeperStep

LEMMA SweepObserve ==
    ASSUME SweepInv, observe PROVE SweepInv'
<1>1. /\ table' = table /\ starts' = starts /\ protected' = protected
      /\ taken' = taken /\ wrong' = wrong /\ recorded' = recorded /\ sweeper.at = "scan"
  BY DEF observe, Watches, Ghosts, Is
<1>2. sweeper \in SweeperRow /\ Known /\ Aimed /\ OneHandle /\ taken \in BOOLEAN /\ wrong = FALSE
  BY DEF SweepInv
<1>3. PICK i \in sweeper.info, denied \in BOOLEAN :
         sweeper' = [sweeper EXCEPT !.info = {}, !.todo = @ \ {i.pid},
                       !.targets = IF ObservedBy(i.pid, i.read, denied) = "marked" /\ i.pid \notin protected
                                   THEN @ \cup {[pid |-> i.pid, start |-> i.read.start]} ELSE @,
                       !.suspects = IF ObservedBy(i.pid, i.read, denied) = "suspect"
                                    THEN @ \cup {[pid |-> i.pid, start |-> i.read.start]} ELSE @,
                       !.unsettled = @ \/ ObservedBy(i.pid, i.read, denied) = "vanished",
                       !.hits = @ \/ (ObservedBy(i.pid, i.read, denied) = "marked" /\ i.pid \in protected)]
  BY DEF observe
<1>4. i.pid \in Pids /\ i.read.start \in Nat /\ i.read.start <= starts
  BY <1>2 DEF SweeperRow, Known, InfoRead
<1>5. PICK t : t = [pid |-> i.pid, start |-> i.read.start]
  OBVIOUS
<1>6. t \in ProcessId /\ t.pid = i.pid
  BY <1>4, <1>5 DEF ProcessId
<1>7. PICK T \in SUBSET ProcessId :
         /\ T = IF ObservedBy(i.pid, i.read, denied) = "marked" /\ i.pid \notin protected
                THEN sweeper.targets \cup {t} ELSE sweeper.targets
  BY <1>2, <1>6 DEF SweeperRow
<1>8. PICK S \in SUBSET ProcessId :
         /\ S = IF ObservedBy(i.pid, i.read, denied) = "suspect"
                THEN sweeper.suspects \cup {t} ELSE sweeper.suspects
  BY <1>2, <1>6 DEF SweeperRow
<1>9. PICK u \in BOOLEAN : u = (sweeper.unsettled \/ ObservedBy(i.pid, i.read, denied) = "vanished")
  OBVIOUS
<1>10. PICK f \in BOOLEAN :
          f = (sweeper.hits \/ (ObservedBy(i.pid, i.read, denied) = "marked" /\ i.pid \in protected))
  OBVIOUS
<1>11. PICK D \in SUBSET Pids : D = sweeper.todo \ {i.pid}
  BY <1>2 DEF SweeperRow
<1>12. sweeper' = [sweeper EXCEPT !.info = {}, !.todo = D, !.targets = T, !.suspects = S,
                                  !.unsettled = u, !.hits = f]
  BY <1>3, <1>5, <1>7, <1>8, <1>9, <1>10, <1>11
<1>13. /\ sweeper' \in SweeperRow /\ sweeper'.at = sweeper.at /\ sweeper'.adopted = sweeper.adopted
       /\ sweeper'.info = {} /\ sweeper'.targets = T
       /\ sweeper'.handle = sweeper.handle /\ sweeper'.ok = sweeper.ok
  BY <1>2, <1>12 DEF SweeperRow
<1>14. \A j \in T : Past(j) /\ j.pid \notin protected
  <2>1. ObservedBy(i.pid, i.read, denied) = "marked" /\ i.pid \notin protected => Past(t)
    BY <1>4, <1>5, MarkedIsOurs DEF IsOurs
  <2> QED BY <2>1, <1>6, <1>7, StaysAimed
<1> QED BY <1>1, <1>13, <1>14, StaysAimed, SweeperStep

LEMMA SweepScanEnds ==
    ASSUME SweepInv, scan_ends PROVE SweepInv'
<1>1. /\ table' = table /\ starts' = starts /\ protected' = protected
      /\ taken' = taken /\ wrong' = wrong /\ recorded' = recorded
  BY DEF scan_ends, Watches
<1>2. sweeper \in SweeperRow
  BY DEF SweepInv
<1>3. PICK empties, settled :
         /\ empties = IF sweeper.targets = {} /\ sweeper.suspects = {} THEN sweeper.empties + 1 ELSE 0
         /\ settled = IF (sweeper.targets = {} /\ sweeper.suspects = {}) /\ ~sweeper.unsettled
                      THEN sweeper.settled + 1 ELSE 0
  OBVIOUS
<1>4. empties \in Nat /\ settled \in Nat
  BY <1>2, <1>3 DEF SweeperRow
<1>5. PICK counted : counted = [sweeper EXCEPT !.empties = empties, !.settled = settled]
  OBVIOUS
<1>6. counted \in SweeperRow /\ AimOf(counted) = AimOf(sweeper)
  BY <1>2, <1>4, <1>5 DEF SweeperRow, AimOf
<1>7. ASSUME NEW stage \in {"term", "kill"}, NEW sent \in SUBSET ProcessId, NEW s,
             s = [counted EXCEPT !.at = "signal", !.stage = stage, !.sent = sent]
      PROVE  s \in SweeperRow /\ s.at = "signal" /\ AimOf(s) = AimOf(counted)
  BY <1>6, <1>7 DEF SweeperRow, AimOf, SweepPhases
<1>8. ASSUME NEW at \in {"completed", "incomplete", "list"}, NEW s \in {sweeper, counted},
             sweeper' = [s EXCEPT !.at = at]
      PROVE  SweepInv'
  <2>1. at \in SweepPhases /\ s \in SweeperRow /\ AimOf(s) = AimOf(sweeper)
    BY <1>2, <1>6 DEF SweepPhases
  <2> QED BY <2>1, <1>1, <1>8, PhaseStep, SameAim
<1>9. ASSUME NEW stage \in {"term", "kill"}, NEW sent \in SUBSET ProcessId,
             sweeper' = [counted EXCEPT !.at = "signal", !.stage = stage, !.sent = sent]
      PROVE  SweepInv'
  BY <1>1, <1>6, <1>7, <1>9, SameAim
<1>10. ASSUME NEW s, s = [counted EXCEPT !.at = "signal", !.stage = "term", !.sent = {}],
              sweeper' = [s EXCEPT !.round = sweeper.round + 1]
       PROVE  SweepInv'
  <2>1. s \in SweeperRow /\ s.at = "signal" /\ AimOf(s) = AimOf(sweeper)
    BY <1>6, <1>7, <1>10
  <2>2. sweeper.round + 1 \in Nat
    BY <1>2 DEF SweeperRow
  <2>3. sweeper' \in SweeperRow /\ sweeper'.at = "signal" /\ AimOf(sweeper') = AimOf(s)
    BY <2>1, <2>2, <1>10 DEF SweeperRow, AimOf
  <2> QED BY <2>1, <2>3, <1>1, SameAim
<1>11. {} \in SUBSET ProcessId /\ sweeper.sent \in SUBSET ProcessId
  BY <1>2 DEF SweeperRow
<1>12. \/ \E at \in {"completed", "incomplete", "list"}, s \in {sweeper, counted} :
             sweeper' = [s EXCEPT !.at = at]
       \/ \E stage \in {"term", "kill"}, sent \in {{}, sweeper.sent} :
             sweeper' = [counted EXCEPT !.at = "signal", !.stage = stage, !.sent = sent]
       \/ sweeper' = [[counted EXCEPT !.at = "signal", !.stage = "term", !.sent = {}]
                         EXCEPT !.round = sweeper.round + 1]
  <2>1. \/ confirmed_empty(empties, settled) /\ sweeper' = Completes
        \/ ~confirmed_empty(empties, settled) /\ sweeper' =
              CASE sweeper.stage = "first" ->
                      [counted EXCEPT !.at = "signal", !.stage = "term", !.sent = {}]
                [] sweeper.stage = "term" ->
                      [counted EXCEPT !.at = "signal", !.stage = "term", !.sent = sweeper.sent]
                [] OTHER -> [counted EXCEPT !.at = "list"]
        \/ ~confirmed_empty(empties, settled) /\ sweeper.stage # "first" /\ sweeper' =
              IF sweeper.stage = "term"
              THEN [counted EXCEPT !.at = "signal", !.stage = "kill", !.sent = {}]
              ELSE IF sweeper.round < Rounds
              THEN [[counted EXCEPT !.at = "signal", !.stage = "term", !.sent = {}]
                       EXCEPT !.round = sweeper.round + 1]
              ELSE [counted EXCEPT !.at = "incomplete"]
    BY <1>3, <1>5 DEF scan_ends
  <2>2. CASE confirmed_empty(empties, settled) /\ sweeper' = Completes
    BY <2>2 DEF Completes
  <2>3. CASE sweeper' =
              CASE sweeper.stage = "first" ->
                      [counted EXCEPT !.at = "signal", !.stage = "term", !.sent = {}]
                [] sweeper.stage = "term" ->
                      [counted EXCEPT !.at = "signal", !.stage = "term", !.sent = sweeper.sent]
                [] OTHER -> [counted EXCEPT !.at = "list"]
    BY <2>3
  <2>4. CASE sweeper' =
              IF sweeper.stage = "term"
              THEN [counted EXCEPT !.at = "signal", !.stage = "kill", !.sent = {}]
              ELSE IF sweeper.round < Rounds
              THEN [[counted EXCEPT !.at = "signal", !.stage = "term", !.sent = {}]
                       EXCEPT !.round = sweeper.round + 1]
              ELSE [counted EXCEPT !.at = "incomplete"]
    BY <2>4
  <2> QED BY <2>1, <2>2, <2>3, <2>4
<1> QED BY <1>8, <1>9, <1>10, <1>11, <1>12

LEMMA SweepDeadline ==
    ASSUME SweepInv, Deadline PROVE SweepInv'
<1>1. /\ table' = table /\ starts' = starts /\ protected' = protected
      /\ taken' = taken /\ wrong' = wrong /\ recorded' = recorded
      /\ sweeper' = [sweeper EXCEPT !.at = "incomplete"]
  BY DEF Deadline, Watches, Ghosts, Ends
<1>2. sweeper \in SweeperRow /\ "incomplete" \in SweepPhases
  BY DEF SweepInv, SweepPhases
<1> QED BY <1>1, <1>2, PhaseStep, SameAim

LEMMA SweepPin ==
    ASSUME SweepInv, pin PROVE SweepInv'
<1>1. /\ table' = table /\ starts' = starts /\ protected' = protected
      /\ taken' = taken /\ wrong' = wrong /\ recorded' = recorded
      /\ sweeper.at = "signal" /\ sweeper.handle = {}
  BY DEF pin, Watches, Ghosts, Is
<1>2. /\ sweeper \in SweeperRow /\ Known /\ Aimed /\ OneHandle /\ taken \in BOOLEAN /\ wrong = FALSE
      /\ table \in [Pids -> ProcessRow]
  BY DEF SweepInv, Processes
<1>3. CASE sweeper.targets \subseteq sweeper.sent
  <2>1. sweeper' = [sweeper EXCEPT !.at = "list"] /\ "list" \in SweepPhases
    BY <1>3 DEF pin, Ends, SweepPhases
  <2>2. sweeper' \in SweeperRow /\ sweeper'.at = "list" /\ AimOf(sweeper') = AimOf(sweeper)
    BY <2>1, <1>2, PhaseStep
  <2> QED BY <2>2, <1>1, SameAim
<1>4. CASE ~(sweeper.targets \subseteq sweeper.sent)
  <2> DEFINE left == sweeper.targets \ sweeper.sent
  <2>1. left # {} /\ left \subseteq ProcessId /\ \A i \in left : i.pid \in Nat
    BY <1>2, <1>4, SweepAssumption DEF SweeperRow, ProcessId
  <2>2. PICK t \in left : t = CHOOSE i \in left : \A j \in left : i.pid <= j.pid
    <3> HIDE DEF left
    <3>1. {i.pid : i \in left} \in SUBSET Nat /\ {i.pid : i \in left} # {}
      BY <2>1
    <3>2. PICK m \in {i.pid : i \in left} : \A n \in {i.pid : i \in left} : ~(n < m)
      BY <3>1, LeastNumber
    <3>3. PICK i \in left : i.pid = m
      OBVIOUS
    <3>4. \A j \in left : i.pid <= j.pid
      BY <3>2, <3>3, <2>1
    <3> QED BY <3>4
  <2>3. t \in ProcessId /\ t.pid \in Pids /\ Past(t) /\ t.pid \notin protected
    BY <2>1, <2>2, <1>2 DEF ProcessId, Known
  <2>4. PICK h : h = [target |-> t, pinned |-> Identity(t.pid)]
    OBVIOUS
  <2>5. /\ h \in [target: ProcessId, pinned: ProcessId] /\ h.target = t
        /\ h.pinned = t \/ table[t.pid].start # t.start
    <3>1. Identity(t.pid) \in ProcessId
      BY <2>3, <1>2 DEF Identity, ProcessId, ProcessRow
    <3>2. table[t.pid].start = t.start => Identity(t.pid) = t
      BY <2>3 DEF Identity, ProcessId
    <3> QED BY <2>3, <2>4, <3>1, <3>2
  <2>6. PICK H \in {{}, {h}}, S \in SUBSET ProcessId :
           sweeper' = [sweeper EXCEPT !.sent = S, !.ok = FALSE, !.handle = H]
    <3>1. PICK S \in SUBSET ProcessId : S = sweeper.sent \cup {t}
      BY <2>3, <1>2 DEF SweeperRow
    <3>2. PICK H : H = IF Alive(t.pid) THEN {h} ELSE {}
      OBVIOUS
    <3>3. sweeper' = [sweeper EXCEPT !.sent = S, !.ok = FALSE, !.handle = H]
      BY <1>4, <2>2, <2>4, <3>1, <3>2 DEF pin
    <3> QED BY <3>2, <3>3
  <2>7. /\ sweeper' \in SweeperRow /\ sweeper'.at = sweeper.at /\ sweeper'.adopted = sweeper.adopted
        /\ sweeper'.info = sweeper.info /\ sweeper'.targets = sweeper.targets
        /\ sweeper'.handle = H /\ sweeper'.ok = FALSE
    <3>1. H \subseteq [target: ProcessId, pinned: ProcessId]
      BY <2>5
    <3> QED BY <3>1, <2>6, <1>2 DEF SweeperRow
  <2>8. \A g \in sweeper'.handle :
           /\ Past(g.target) /\ g.target.pid \notin protected
           /\ g.pinned = g.target \/ table[g.target.pid].start # g.target.start
           /\ sweeper'.ok => g.pinned = g.target /\ IsOurs(g.target)
    BY <2>3, <2>5, <2>7
  <2>9. \A f, g \in sweeper'.handle : f = g
    BY <2>7
  <2> HIDE DEF left
  <2> QED BY <2>7, <2>8, <2>9, <1>1, StaysAimed, SweeperStep
<1> QED BY <1>3, <1>4

LEMMA SweepVerify ==
    ASSUME SweepInv, signal_verified PROVE SweepInv'
<1>1. /\ table' = table /\ starts' = starts /\ protected' = protected
      /\ taken' = taken /\ wrong' = wrong /\ recorded' = recorded
      /\ sweeper.at = "signal"
  BY DEF signal_verified, Watches, Ghosts, Is
<1>2. sweeper \in SweeperRow /\ Known /\ Aimed /\ OneHandle /\ taken \in BOOLEAN /\ wrong = FALSE
  BY DEF SweepInv
<1>3. PICK h \in sweeper.handle, denied \in BOOLEAN :
         sweeper' = IF Identity(h.target.pid) = h.target
                       /\ ObservedBy(h.target.pid, table[h.target.pid], denied) = "marked"
                    THEN [sweeper EXCEPT !.ok = TRUE] ELSE [sweeper EXCEPT !.handle = {}]
  BY DEF signal_verified
<1>4. CASE sweeper' = [sweeper EXCEPT !.handle = {}]
  <2>1. /\ sweeper' \in SweeperRow /\ sweeper'.at = sweeper.at /\ sweeper'.adopted = sweeper.adopted
        /\ sweeper'.info = sweeper.info /\ sweeper'.targets = sweeper.targets
        /\ sweeper'.handle = {} /\ sweeper'.ok = sweeper.ok
    BY <1>2, <1>4 DEF SweeperRow
  <2> QED BY <2>1, <1>1, QuietStep
<1>5. CASE /\ Identity(h.target.pid) = h.target /\ sweeper' = [sweeper EXCEPT !.ok = TRUE]
           /\ ObservedBy(h.target.pid, table[h.target.pid], denied) = "marked"
  <2>1. /\ sweeper' \in SweeperRow /\ sweeper'.at = sweeper.at /\ sweeper'.adopted = sweeper.adopted
        /\ sweeper'.info = sweeper.info /\ sweeper'.targets = sweeper.targets
        /\ sweeper'.handle = sweeper.handle /\ sweeper'.ok = TRUE
    BY <1>2, <1>5 DEF SweeperRow
  <2>2. h.pinned = h.target
    BY <1>2, <1>3, <1>5 DEF Aimed, HandleIs, Identity
  <2>3. \A g \in sweeper.handle : g = h
    BY <1>2, <1>3 DEF OneHandle
  <2>4. IsOurs(h.target)
    <3>1. PICK p : p = h.target.pid
      OBVIOUS
    <3>2. p \in Pids /\ p \notin protected
      BY <3>1, <1>2, <1>3 DEF Aimed, HandleIs, SweeperRow, ProcessId
    <3>3. table[p].start \in Nat /\ table[p].start <= starts
      BY <3>2 DEF SweepInv, Processes, PlaceOf, ProcessRow
    <3>4. IsOurs([pid |-> p, start |-> table[p].start])
      BY <3>1, <3>2, <3>3, <1>5, MarkedIsOurs
    <3> QED BY <3>1, <3>4, <1>5 DEF Identity
  <2> QED BY <2>1, <2>2, <2>3, <2>4, <1>1, StaysAimed, SweeperStep
<1> QED BY <1>3, <1>4, <1>5

LEMMA SweepSendSignal ==
    ASSUME SweepInv, SendSignal PROVE SweepInv'
<1>1. /\ table' = table /\ starts' = starts /\ protected' = protected
      /\ taken' = taken /\ recorded' = recorded /\ sweeper.at = "signal" /\ sweeper.ok
      /\ sweeper' = [sweeper EXCEPT !.handle = {}, !.ok = FALSE]
  BY DEF SendSignal, Watches, Is
<1>2. sweeper \in SweeperRow /\ Known /\ Aimed /\ taken \in BOOLEAN /\ wrong = FALSE
  BY DEF SweepInv
<1>3. PICK h \in sweeper.handle :
         wrong' = (wrong \/ \E p \in send(h) : ~table[p].run /\ ~table[p].astray)
  BY DEF SendSignal
<1>4. h.pinned = h.target /\ IsOurs(h.target)
  BY <1>1, <1>2, <1>3 DEF Aimed, HandleIs
<1>5. \A p \in send(h) : Ours(p)
  <2>1. TAKE p \in send(h)
  <2>2. p = h.target.pid /\ table[p].start = h.target.start
    BY <2>1, <1>4 DEF send, Identity
  <2> QED BY <2>2, <1>4 DEF IsOurs
<1>6. wrong' = wrong
  BY <1>2, <1>3, <1>5 DEF Ours
<1>7. /\ sweeper' \in SweeperRow /\ sweeper'.at = sweeper.at /\ sweeper'.adopted = sweeper.adopted
      /\ sweeper'.info = sweeper.info /\ sweeper'.targets = sweeper.targets
      /\ sweeper'.handle = {} /\ sweeper'.ok = FALSE
  BY <1>1, <1>2 DEF SweeperRow
<1> QED BY <1>1, <1>6, <1>7, QuietStep

LEMMA SweepStarts == SweepInit => SweepInv
<1> SUFFICES ASSUME SweepInit PROVE SweepInv
  OBVIOUS
<1>1. PICK marked \in BOOLEAN, mode \in {"agent", "queue", "lost"} :
        /\ table = [p \in Pids |-> IF p = 1 THEN Leader
                                   ELSE IF p \in protected THEN TaskRun(marked) ELSE Free]
        /\ sweeper = [NewSweeper EXCEPT !.mode = mode,
                                        !.at = IF mode = "lost" THEN "attribute" ELSE "run"]
  BY DEF SweepInit
<1>2. /\ starts = 2 /\ recorded = {} /\ taken = FALSE /\ wrong = FALSE
      /\ protected \in {{}, {2}} /\ 1 \in Pids /\ 0 \notin Pids
  BY SweepAssumption DEF SweepInit
<1>3. /\ Leader \in ProcessRow /\ Leader.start = 1 /\ Leader.marked = TRUE /\ Leader.run = TRUE
      /\ Leader.home = FALSE /\ Leader.parent = 0 /\ Leader.group = 1
  BY DEF Leader, Free, LeaderStart, ProcessRow
<1>4. PICK t \in ProcessRow :
        /\ t = TaskRun(marked) /\ t.start = 2 /\ t.run = FALSE /\ t.home = TRUE
        /\ t.parent = 0 /\ t.group = 2
  <2>1. PICK free \in ProcessRow : free = Free /\ free.run = FALSE /\ free.parent = 0
    <3>1. Free \in ProcessRow /\ Free.run = FALSE /\ Free.parent = 0
      BY DEF Free, ProcessRow
    <3> QED BY <3>1
  <2>2. PICK t : t = [free EXCEPT !.start = 2, !.marked = marked, !.home = TRUE, !.group = 2]
    OBVIOUS
  <2>3. t = TaskRun(marked)
    BY <2>1, <2>2 DEF TaskRun
  <2>4. /\ t \in ProcessRow /\ t.start = 2 /\ t.run = FALSE /\ t.home = TRUE
        /\ t.parent = 0 /\ t.group = 2
    BY <2>1, <2>2 DEF ProcessRow
  <2> QED BY <2>3, <2>4
<1>5. /\ Free \in ProcessRow /\ Free.start = 0 /\ Free.marked = FALSE /\ Free.run = FALSE
      /\ Free.home = FALSE /\ Free.parent = 0
  BY DEF Free, ProcessRow
<1>6. ASSUME NEW p \in Pids
      PROVE  \/ p = 1 /\ table[p] = Leader
             \/ p = 2 /\ p \in protected /\ table[p] = t
             \/ p # 1 /\ table[p] = Free
  BY <1>1, <1>2, <1>4
<1>7. Processes
  <2>1. table \in [Pids -> ProcessRow]
    BY <1>1, <1>3, <1>4, <1>5
  <2>2. ASSUME NEW p \in Pids PROVE PlaceOf(p)
    BY <1>2, <1>3, <1>4, <1>5, <1>6 DEF PlaceOf
  <2>3. \A p, q \in Pids : Alive(p) /\ Alive(q) /\ table[p].group = table[q].group
                             => table[p].run = table[q].run
    BY <1>2, <1>3, <1>4, <1>5, <1>6 DEF Alive
  <2>4. table[1].start = LeaderStart => table[1].run /\ table[1].group = 1
    BY <1>2, <1>3, <1>6
  <2> QED BY <2>1, <2>2, <2>3, <2>4, <1>2 DEF Processes
<1>8. PICK new \in SweeperRow : /\ new = NewSweeper /\ new.adopted = {} /\ new.info = {}
                                /\ new.targets = {} /\ new.handle = {}
  <2>1. NewSweeper \in SweeperRow
    BY DEF NewSweeper, SweeperRow, SweepPhases
  <2>2. /\ NewSweeper.adopted = {} /\ NewSweeper.info = {}
        /\ NewSweeper.targets = {} /\ NewSweeper.handle = {}
    BY DEF NewSweeper
  <2> QED BY <2>1, <2>2
<1>9. PICK at \in {"attribute", "run"} : sweeper = [new EXCEPT !.mode = mode, !.at = at]
  BY <1>1, <1>8
<1>10. /\ sweeper \in SweeperRow /\ sweeper.at = at /\ sweeper.adopted = {} /\ sweeper.info = {}
       /\ sweeper.targets = {} /\ sweeper.handle = {}
  <2>1. at \in SweepPhases
    BY <1>9 DEF SweepPhases
  <2> QED BY <2>1, <1>8, <1>9 DEF SweeperRow
<1>11. \A p \in Members(1) : table[p].run
  BY <1>3, <1>4, <1>5, <1>6 DEF Members, Alive
<1>12. Known /\ Aimed /\ OneHandle
  BY <1>2, <1>9, <1>10, <1>11 DEF Known, Aimed, OneHandle
<1> QED BY <1>2, <1>7, <1>10, <1>12 DEF SweepInv

LEMMA SweepStep == SweepInv /\ [SweepNext]_sweepVars => SweepInv'
<1> SUFFICES ASSUME SweepInv, [SweepNext]_sweepVars PROVE SweepInv'
  OBVIOUS
<1>1. CASE UNCHANGED sweepVars
  BY <1>1, StaysAimed, SweeperStep DEF sweepVars
<1>2. CASE \E q \in Pids : Stranger(q) \/ Exit(q) \/ Exec(q) \/ \E p \in Pids : Fork(p, q)
  BY <1>2, SweepStranger, SweepExit, SweepExec, SweepFork
<1>3. CASE observe_descendants \/ run_child \/ cleanup_process_group \/ lost_group \/ send_group
           \/ wait_group_gone
  BY <1>3, SweepObserves, SweepRunChild, SweepCleansGroup, SweepLostGroup, SweepSendGroup,
     SweepWaitGroup
<1>4. CASE list_begins \/ list_ends \/ read_info \/ observe \/ scan_ends \/ Deadline
  BY <1>4, SweepListBegins, SweepListEnds, SweepReadInfo, SweepObserve, SweepScanEnds,
     SweepDeadline
<1>5. CASE pin \/ signal_verified \/ SendSignal
  BY <1>5, SweepPin, SweepVerify, SweepSendSignal
<1> QED BY <1>1, <1>2, <1>3, <1>4, <1>5 DEF SweepNext

\* The inductive invariant of processes and sweep: kinship and groups keep the
\* run's processes apart from the others, a group that is signalled is the run's
\* unless its id was taken over, what the tracker recorded is kin of the run, and
\* what was adopted or verified is the run's for as long as a process has that
\* identity, or turned homebased only afterwards.
THEOREM SweepInvariance == SweepSpec => []SweepInv
  BY SweepStarts, SweepStep, PTL DEF SweepSpec

\* A signal of the worker (runner.rs) or of a sweep (cleanup.rs) reaches
\* only processes of the run, whatever exits, forks, execs or takes over a pid
\* between two reads or before the call, for any pids, processes and rounds; left
\* out are a group whose id was taken over since its last check, and what turned
\* homebased after it was adopted, verified or recorded.
THEOREM SignalsReachTheRunCorrect == SweepSpec => []SignalsReachTheRun
<1>1. SweepInv => SignalsReachTheRun
  BY DEF SweepInv, SignalsReachTheRun
<1> QED BY <1>1, SweepInvariance, PTL

-----------------------------------------------------------------------------
(* What a completed sweep left behind                                       *)

\* Processes of the run that the sweep would find, protected or not
Remains ==
    {p \in Pids : /\ Alive(p) /\ table[p].run
                  /\ \/ Identity(p) \in sweeper.adopted
                     \/ table[p].marked /\ (table[p].open \/ sweeper.bound)}

Lasts == Remains # {} /\ ~sweeper.hits

Bounded ==
    /\ starts <= MaxStarts /\ \A p \in Pids : table[p].group \in Pids \cup {0}
    /\ \A p \in Pids : table[p].run => table[p].parent # OlderDaemon
    /\ sweeper.round \in 1 .. Rounds /\ sweeper.empties < BusyScans
    /\ sweeper.settled <= sweeper.empties /\ replaced \in Nat

Reading ==
    /\ sweeper.at # "scan" => sweeper.info = {}
    /\ \A i \in sweeper.info : i.pid \in sweeper.todo

Early == {"run", "probe", "attribute", "send_group", "wait_group"}

\* While something of the run remains, every empty scan of the row so far met an
\* exit of one of its processes
EmptyRow ==
    /\ sweeper.at \in Early => replaced = 0 /\ sweeper.empties = 0
    /\ sweeper.at \in {"list", "listing", "scan", "signal"} /\ Lasts => replaced = sweeper.empties
    /\ sweeper.at = "completed" /\ Remains # {} => replaced >= 2 /\ replaced = sweeper.empties + 1

\* Still to be read, or its first read is of the process that is there now
Seen(m) ==
    /\ m \in sweeper.todo
    /\ \A i \in sweeper.info :
          i.pid = m => i.read.start = table[m].start /\ i.read.parent # OlderDaemon

\* A scan during which no process of the run exited finds one that remains
Found ==
    /\ sweeper.at = "listing" /\ ~exited /\ Lasts =>
          \E m \in Remains : Identity(m) \in sweeper.begun
    /\ sweeper.at = "scan" /\ ~exited /\ Lasts =>
          sweeper.targets \cup sweeper.suspects # {} \/ \E m \in Remains : Seen(m)

ClearInv == Bounded /\ Reading /\ EmptyRow /\ Found

-----------------------------------------------------------------------------
(* The processes of the machine *)

\* A process takes a free pid: what a sweep would find stays, and the new one is
\* found only if the one that forked it is
LEMMA ClearSeat ==
    ASSUME SweepInv, ClearInv, NEW q \in Pids, NEW pr \in ProcessRow, Available(q), Seat(q, pr),
           pr.start = starts + 1, pr.group \in Pids \cup {0}, pr.run => pr.parent # OlderDaemon,
           pr.run /\ pr.marked =>
              \E p \in Pids : /\ Alive(p) /\ table[p].run /\ table[p].marked
                              /\ pr.open => table[p].open
    PROVE  ClearInv'
<1>1. /\ table \in [Pids -> ProcessRow] /\ starts \in Nat /\ sweeper \in SweeperRow
      /\ \A i \in sweeper.adopted : IsOurs(i)
  BY DEF SweepInv, Processes, Known
<1>2. /\ table' = [table EXCEPT ![q] = pr] /\ starts' = starts + 1 /\ sweeper' = sweeper
      /\ exited' = exited /\ replaced' = replaced
      /\ table[q].start = 0 /\ starts < MaxStarts
  BY DEF Seat, Available, Alive
<1>3. table'[q] = pr /\ \A p \in Pids : p # q => table'[p] = table[p]
  BY <1>1, <1>2
<1>4. ASSUME NEW m \in Remains
      PROVE  m \in Remains' /\ table'[m] = table[m] /\ Identity(m)' = Identity(m)
  <2>1. m \in Pids /\ m # q /\ Alive(m)
    BY <1>2 DEF Remains, Alive
  <2> QED BY <2>1, <1>2, <1>3, <1>4 DEF Remains, Alive, Identity
<1>5. ASSUME NEW m \in Remains' PROVE Remains # {}
  <2>1. CASE m = q
    <3>0. PICK new : new = [pid |-> q, start |-> pr.start]
      OBVIOUS
    <3>1. pr.run /\ (new \in sweeper.adopted \/ (pr.marked /\ (pr.open \/ sweeper.bound)))
      <4>1. /\ table'[q].run
            /\ \/ [pid |-> q, start |-> table'[q].start] \in sweeper'.adopted
               \/ table'[q].marked /\ (table'[q].open \/ sweeper'.bound)
        BY <2>1, <1>5 DEF Remains, Identity
      <4>2. sweeper' = sweeper /\ table'[q] = pr
        BY <1>2, <1>3
      <4> QED BY <4>1, <4>2, <3>0, Zenon
    <3>2. new \notin sweeper.adopted
      <4>1. new.start = starts + 1
        BY <3>0
      <4>2. \A i \in sweeper.adopted : i.start \in 1 .. starts
        BY <1>1 DEF IsOurs, Past
      <4> QED BY <4>1, <4>2, <1>1
    <3>3. PICK p \in Pids : /\ Alive(p) /\ table[p].run /\ table[p].marked
                            /\ pr.open => table[p].open
      BY <3>1, <3>2
    <3>4. p \in Remains
      BY <3>1, <3>2, <3>3 DEF Remains
    <3> QED BY <3>4
  <2>2. CASE m # q
    <3>1. m \in Remains
      BY <2>2, <1>2, <1>3, <1>5 DEF Remains, Alive, Identity
    <3> QED BY <3>1
  <2> QED BY <2>1, <2>2
<1>6. Bounded'
  <2>1. starts' <= MaxStarts
    BY <1>1, <1>2, SweepAssumption
  <2> QED BY <2>1, <1>1, <1>2, <1>3 DEF ClearInv, Bounded
<1>7. Reading'
  BY <1>2 DEF ClearInv, Reading
<1>8. Lasts' => Lasts
  BY <1>2, <1>5 DEF Lasts
<1>9. EmptyRow'
  <2>1. EmptyRow
    BY DEF ClearInv
  <2> QED BY <2>1, <1>2, <1>5, <1>8 DEF EmptyRow, Early
<1>10. Found'
  <2>1. ASSUME NEW m \in Remains, Seen(m) PROVE Seen(m)'
    BY <2>1, <1>2, <1>4 DEF Seen
  <2>2. Found
    BY DEF ClearInv
  <2> QED BY <2>1, <2>2, <1>2, <1>4, <1>8 DEF Found
<1> QED BY <1>6, <1>7, <1>9, <1>10 DEF ClearInv

LEMMA ClearFork ==
    ASSUME SweepInv, ClearInv, NEW p \in Pids, NEW q \in Pids, Fork(p, q) PROVE ClearInv'
<1>1. /\ table[p] \in ProcessRow /\ PlaceOf(p) /\ starts \in Nat
      /\ Alive(p) /\ Available(q) /\ table[p].group \in Pids \cup {0} /\ p # OlderDaemon
      /\ table[p].group \in Nat
  BY SweepAssumption DEF SweepInv, Processes, Fork, ClearInv, Bounded, ProcessRow
<1>2. PICK child : child = Child(p, q)
  OBVIOUS
<1>3. /\ child \in ProcessRow /\ child.start = starts + 1 /\ child.parent = p /\ child.group = q
      /\ child.run = table[p].run /\ child.marked = (table[p].marked /\ ~table[p].home)
  BY <1>1, <1>2, ChildIs
<1>4. child.open = table[p].open
  BY <1>1, <1>2 DEF Child, ProcessRow
<1>5. ASSUME NEW pr \in ProcessRow, pr.start = child.start, pr.parent = child.parent,
             pr.run = child.run, pr.marked => child.marked, pr.open => child.open,
             pr.group \in {q, table[p].group}, Seat(q, pr)
      PROVE  ClearInv'
  <2>1. pr.run /\ pr.marked => /\ table[p].run /\ table[p].marked
                               /\ pr.open => table[p].open
    BY <1>3, <1>4, <1>5
  <2>2. pr.start = starts + 1 /\ pr.group \in Pids \cup {0} /\ pr.parent # OlderDaemon
    BY <1>1, <1>3, <1>5
  <2> QED BY <2>1, <2>2, <1>1, <1>5, ClearSeat
<1>6. CASE Seat(q, [child EXCEPT !.group = table[p].group])
  <2>1. PICK pr : pr = [child EXCEPT !.group = table[p].group]
    OBVIOUS
  <2>2. pr \in ProcessRow /\ pr.start = child.start /\ pr.parent = child.parent
        /\ pr.run = child.run /\ pr.marked = child.marked /\ pr.open = child.open
        /\ pr.group = table[p].group
    BY <2>1, <1>1, <1>3 DEF ProcessRow
  <2> QED BY <2>1, <2>2, <1>5, <1>6
<1>7. CASE Seat(q, child)
  BY <1>3, <1>5, <1>7
<1>8. CASE Seat(q, [child EXCEPT !.marked = FALSE])
  <2>1. PICK pr : pr = [child EXCEPT !.marked = FALSE]
    OBVIOUS
  <2>2. pr \in ProcessRow /\ pr.start = child.start /\ pr.parent = child.parent
        /\ pr.run = child.run /\ pr.marked = FALSE /\ pr.open = child.open /\ pr.group = q
    BY <2>1, <1>3 DEF ProcessRow
  <2> QED BY <2>1, <2>2, <1>5, <1>8
<1>9. CASE Seat(q, [child EXCEPT !.open = FALSE])
  <2>1. PICK pr : pr = [child EXCEPT !.open = FALSE]
    OBVIOUS
  <2>2. pr \in ProcessRow /\ pr.start = child.start /\ pr.parent = child.parent
        /\ pr.run = child.run /\ pr.marked = child.marked /\ pr.open = FALSE /\ pr.group = q
    BY <2>1, <1>3 DEF ProcessRow
  <2> QED BY <2>1, <2>2, <1>5, <1>9
<1>10. CASE Seat(q, [child EXCEPT !.home = FALSE])
  <2>1. PICK pr : pr = [child EXCEPT !.home = FALSE]
    OBVIOUS
  <2>2. pr \in ProcessRow /\ pr.start = child.start /\ pr.parent = child.parent
        /\ pr.run = child.run /\ pr.marked = child.marked /\ pr.open = child.open /\ pr.group = q
    BY <2>1, <1>3 DEF ProcessRow
  <2> QED BY <2>1, <2>2, <1>5, <1>10
<1> QED BY <1>2, <1>6, <1>7, <1>8, <1>9, <1>10 DEF Fork

LEMMA ClearStranger ==
    ASSUME SweepInv, ClearInv, NEW q \in Pids, Stranger(q) PROVE ClearInv'
<1>1. starts \in Nat /\ q \in Nat /\ Available(q) /\ OlderDaemon \in Nat /\ starts + 1 \in Nat
  BY SweepAssumption DEF SweepInv, Processes, Stranger, OlderDaemon
<1>2. PICK free \in ProcessRow : free = Free /\ free.run = FALSE
  <2>1. Free \in ProcessRow /\ Free.run = FALSE
    BY DEF Free, ProcessRow
  <2> QED BY <2>1
<1>3. CASE Seat(q, [Free EXCEPT !.start = starts + 1, !.group = q])
  <2>1. PICK pr : pr = [free EXCEPT !.start = starts + 1, !.group = q]
    OBVIOUS
  <2>2. pr \in ProcessRow /\ pr.start = starts + 1 /\ pr.group = q /\ pr.run = FALSE
    BY <2>1, <1>1, <1>2 DEF ProcessRow
  <2> QED BY <2>1, <2>2, <1>1, <1>2, <1>3, ClearSeat
<1>4. CASE Seat(q, [Free EXCEPT !.start = starts + 1, !.group = q, !.open = FALSE,
                                !.parent = OlderDaemon])
  <2>1. PICK pr : pr = [free EXCEPT !.start = starts + 1, !.group = q, !.open = FALSE,
                                    !.parent = OlderDaemon]
    OBVIOUS
  <2>2. pr \in ProcessRow /\ pr.start = starts + 1 /\ pr.group = q /\ pr.run = FALSE
    BY <2>1, <1>1, <1>2 DEF ProcessRow
  <2> QED BY <2>1, <2>2, <1>1, <1>2, <1>4, ClearSeat
<1> QED BY <1>3, <1>4 DEF Stranger

\* An exit takes one from what remains, and is noted when it was the run's
LEMMA ClearExit ==
    ASSUME SweepInv, ClearInv, NEW q \in Pids, Exit(q) PROVE ClearInv'
<1>1. table \in [Pids -> ProcessRow] /\ starts \in Nat /\ sweeper \in SweeperRow
  BY DEF SweepInv, Processes
<1>2. /\ table' = [p \in Pids |-> IF p = q THEN Free
                    ELSE IF table[p].parent = q THEN [table[p] EXCEPT !.parent = 0] ELSE table[p]]
      /\ starts' = starts /\ sweeper' = sweeper /\ replaced' = replaced
      /\ exited' = (exited \/ table[q].run)
  BY DEF Exit
<1>3. table'[q] = Free /\ Free.start = 0 /\ Free.group = 0 /\ Free.run = FALSE
  BY <1>2 DEF Free
<1>4. ASSUME NEW p \in Pids, p # q
      PROVE  /\ table'[p].start = table[p].start /\ table'[p].open = table[p].open
             /\ table'[p].marked = table[p].marked /\ table'[p].run = table[p].run
             /\ table'[p].group = table[p].group
             /\ table'[p].parent = 0 \/ table'[p].parent = table[p].parent
  <2>1. table[p] \in ProcessRow
    BY <1>1
  <2> QED BY <2>1, <1>2, <1>4 DEF ProcessRow
<1>5. ASSUME NEW m \in Remains' PROVE m \in Remains
  <2>1. m \in Pids /\ m # q
    BY <1>3, <1>5 DEF Remains, Alive
  <2> QED BY <2>1, <1>2, <1>4, <1>5 DEF Remains, Alive, Identity
<1>6. ASSUME ~table[q].run, NEW m \in Remains
      PROVE  m \in Remains' /\ table'[m].start = table[m].start /\ Identity(m)' = Identity(m)
  <2>1. m \in Pids /\ m # q
    BY <1>6 DEF Remains
  <2> QED BY <2>1, <1>2, <1>4, <1>6 DEF Remains, Alive, Identity
<1>7. Bounded'
  <2>1. Bounded /\ 0 # OlderDaemon
    BY DEF ClearInv, OlderDaemon
  <2>2. \A p \in Pids : table'[p].group \in Pids \cup {0}
    BY <2>1, <1>3, <1>4 DEF Bounded
  <2>3. \A p \in Pids : table'[p].run => table'[p].parent # OlderDaemon
    BY <2>1, <1>3, <1>4 DEF Bounded
  <2> QED BY <2>1, <2>2, <2>3, <1>2 DEF Bounded, OlderDaemon
<1>8. Reading'
  BY <1>2 DEF ClearInv, Reading
<1>9. (Lasts' => Lasts) /\ (Remains' # {} => Remains # {})
  BY <1>2, <1>5 DEF Lasts
<1>10. EmptyRow'
  <2>1. EmptyRow
    BY DEF ClearInv
  <2> QED BY <2>1, <1>2, <1>9 DEF EmptyRow, Early
<1>11. Found'
  <2>1. ASSUME ~exited', NEW m \in Remains, Seen(m) PROVE Seen(m)'
    BY <2>1, <1>2, <1>6 DEF Seen
  <2>2. Found
    BY DEF ClearInv
  <2> QED BY <2>1, <2>2, <1>2, <1>6, <1>9 DEF Found
<1> QED BY <1>7, <1>8, <1>10, <1>11 DEF ClearInv

\* What turns homebased is one less of what remains, and is noted
LEMMA ClearExec ==
    ASSUME SweepInv, ClearInv, NEW q \in Pids, Exec(q) PROVE ClearInv'
<1>1. table \in [Pids -> ProcessRow]
  BY DEF SweepInv, Processes
<1>2. PICK pr \in ProcessRow :
              /\ table' = [table EXCEPT ![q] = pr] /\ pr.run = FALSE
              /\ pr.group = table[q].group
  BY ExecIs
<1>3. table'[q] = pr /\ \A p \in Pids : p # q => table'[p] = table[p]
  BY <1>1, <1>2
<1>4. starts' = starts /\ sweeper' = sweeper /\ replaced' = replaced /\ exited' = TRUE
  BY DEF Exec
<1>5. ASSUME NEW m \in Remains' PROVE m \in Remains
  <2>1. m \in Pids /\ m # q
    BY <1>2, <1>3, <1>5 DEF Remains
  <2> QED BY <2>1, <1>3, <1>4, <1>5 DEF Remains, Alive, Identity
<1>6. Bounded'
  <2>1. \A p \in Pids : table'[p].group = table[p].group /\ (table'[p].run => table'[p] = table[p])
    BY <1>2, <1>3
  <2> QED BY <2>1, <1>4 DEF ClearInv, Bounded, OlderDaemon
<1>7. Reading'
  BY <1>4 DEF ClearInv, Reading
<1>8. (Lasts' => Lasts) /\ (Remains' # {} => Remains # {})
  BY <1>4, <1>5 DEF Lasts
<1>9. EmptyRow'
  <2>1. EmptyRow
    BY DEF ClearInv
  <2> QED BY <2>1, <1>4, <1>8 DEF EmptyRow, Early
<1>10. Found'
  BY <1>4 DEF Found
<1> QED BY <1>6, <1>7, <1>9, <1>10 DEF ClearInv

-----------------------------------------------------------------------------
(* The sweeper, while the processes stay as they are *)

\* What remains depends on the sweeper only by what it adopted and whether the
\* marker binds
LEMMA SameRemains ==
    ASSUME table' = table, sweeper'.adopted = sweeper.adopted, sweeper'.bound = sweeper.bound
    PROVE  Remains' = Remains
  BY DEF Remains, Alive, Identity

\* The bounds over processes that stay
LEMMA BoundedStays ==
    ASSUME Bounded, table' = table, starts' = starts, sweeper'.round \in 1 .. Rounds,
           sweeper'.empties < BusyScans, sweeper'.settled <= sweeper'.empties, replaced' \in Nat
    PROVE  Bounded'
  BY DEF Bounded, OlderDaemon

\* Before the first listing nothing was counted
LEMMA EarlyStep ==
    ASSUME ClearInv, table' = table, starts' = starts, replaced' = replaced,
           sweeper.at \in Early, sweeper'.at \in Early \cup {"list", "incomplete"},
           sweeper'.round = sweeper.round, sweeper'.empties = sweeper.empties,
           sweeper'.settled = sweeper.settled, sweeper'.info = sweeper.info
    PROVE  ClearInv'
<1>1. Bounded /\ Reading /\ replaced = 0 /\ sweeper.empties = 0 /\ sweeper.info = {}
  BY DEF ClearInv, EmptyRow, Reading, Early
<1>2. Bounded'
  BY <1>1, BoundedStays DEF Bounded
<1>3. Reading'
  BY <1>1 DEF Reading
<1>4. EmptyRow'
  BY <1>1 DEF EmptyRow, Early
<1>5. Found'
  BY DEF Found, Early
<1> QED BY <1>2, <1>3, <1>4, <1>5 DEF ClearInv

\* Between two scans nothing is counted
CountOf(s) == <<s.adopted, s.bound, s.hits, s.round, s.empties, s.settled, s.info>>

LEMMA SignalStep ==
    ASSUME ClearInv, table' = table, starts' = starts, replaced' = replaced,
           sweeper.at = "signal", sweeper'.at \in {"signal", "list"},
           CountOf(sweeper') = CountOf(sweeper)
    PROVE  ClearInv'
<1>1. /\ sweeper'.adopted = sweeper.adopted /\ sweeper'.bound = sweeper.bound
      /\ sweeper'.hits = sweeper.hits /\ sweeper'.round = sweeper.round
      /\ sweeper'.empties = sweeper.empties /\ sweeper'.settled = sweeper.settled
      /\ sweeper'.info = sweeper.info
  BY DEF CountOf
<1>2. Bounded /\ Reading /\ EmptyRow /\ sweeper.info = {}
  BY DEF ClearInv, Reading
<1>3. Remains' = Remains /\ Lasts' = Lasts
  BY <1>1, SameRemains DEF Lasts
<1>4. Bounded'
  BY <1>1, <1>2, BoundedStays DEF Bounded
<1>5. Reading'
  BY <1>1, <1>2 DEF Reading
<1>6. EmptyRow'
  BY <1>1, <1>2, <1>3 DEF EmptyRow, Early
<1>7. Found'
  BY DEF Found
<1> QED BY <1>4, <1>5, <1>6, <1>7 DEF ClearInv

LEMMA ClearRests ==
    ASSUME ClearInv, table' = table, starts' = starts, sweeper' = sweeper, exited' = exited,
           replaced' = replaced
    PROVE  ClearInv'
<1>1. Remains' = Remains /\ Lasts' = Lasts
  BY SameRemains DEF Lasts
<1>2. Bounded' /\ Reading'
  BY BoundedStays DEF ClearInv, Bounded, Reading
<1>3. EmptyRow'
  BY <1>1 DEF ClearInv, EmptyRow, Early
<1>4. Found'
  BY <1>1 DEF ClearInv, Found, Seen, Identity
<1> QED BY <1>2, <1>3, <1>4 DEF ClearInv

LEMMA ClearRunChild ==
    ASSUME SweepInv, ClearInv, run_child PROVE ClearInv'
<1>1. /\ table' = table /\ starts' = starts /\ replaced' = replaced /\ sweeper.at = "run"
      /\ sweeper' = [sweeper EXCEPT !.at = "probe"] /\ sweeper \in SweeperRow
  BY DEF run_child, Watches, Ghosts, Is, SweepInv
<1>2. /\ sweeper'.at = "probe" /\ sweeper'.round = sweeper.round
      /\ sweeper'.empties = sweeper.empties /\ sweeper'.settled = sweeper.settled
      /\ sweeper'.info = sweeper.info
  BY <1>1 DEF SweeperRow
<1> QED BY <1>1, <1>2, EarlyStep DEF Early

\* The fields that an early step leaves alone
LEMMA EarlyFields ==
    ASSUME NEW s \in SweeperRow, NEW at, NEW b, NEW ids
    PROVE  /\ \A t \in {[s EXCEPT !.at = at], [s EXCEPT !.at = at, !.bound = b],
                         [s EXCEPT !.at = at, !.killed = b], [s EXCEPT !.at = at, !.adopted = ids]} :
                 /\ t.at = at /\ t.round = s.round /\ t.empties = s.empties
                 /\ t.settled = s.settled /\ t.info = s.info
           /\ [s EXCEPT !.killed = b].at = s.at /\ [s EXCEPT !.killed = b].round = s.round
           /\ [s EXCEPT !.killed = b].empties = s.empties
           /\ [s EXCEPT !.killed = b].settled = s.settled /\ [s EXCEPT !.killed = b].info = s.info
  BY DEF SweeperRow

LEMMA ClearCleansGroup ==
    ASSUME SweepInv, ClearInv, cleanup_process_group PROVE ClearInv'
<1>1. /\ table' = table /\ starts' = starts /\ replaced' = replaced /\ sweeper.at = "probe"
      /\ sweeper \in SweeperRow
  BY DEF cleanup_process_group, Watches, Ghosts, Is, SweepInv
<1>2. /\ sweeper'.at \in {"probe", "list", "incomplete"} /\ sweeper'.round = sweeper.round
      /\ sweeper'.empties = sweeper.empties /\ sweeper'.settled = sweeper.settled
      /\ sweeper'.info = sweeper.info
  <2>1. ASSUME NEW kill \in BOOLEAN, sweeper' = [sweeper EXCEPT !.killed = kill]
        PROVE  /\ sweeper'.at \in {"probe", "list", "incomplete"}
               /\ sweeper'.round = sweeper.round /\ sweeper'.empties = sweeper.empties
               /\ sweeper'.settled = sweeper.settled /\ sweeper'.info = sweeper.info
    BY <2>1, <1>1, EarlyFields
  <2>2. ASSUME NEW evidence \in BOOLEAN, NEW unread, sweeper' = stop_leftovers(evidence, unread)
        PROVE  /\ sweeper'.at \in {"probe", "list", "incomplete"}
               /\ sweeper'.round = sweeper.round /\ sweeper'.empties = sweeper.empties
               /\ sweeper'.settled = sweeper.settled /\ sweeper'.info = sweeper.info
    <3>1. CASE sweeper.mode = "agent"
      <4>1. PICK ids : sweeper' = [sweeper EXCEPT !.at = "list", !.adopted = ids]
        BY <2>2, <3>1 DEF stop_leftovers
      <4> QED BY <4>1, <1>1, EarlyFields
    <3>2. CASE sweeper.mode # "agent"
      <4>1. PICK at \in {"list", "incomplete"} :
               sweeper' = [sweeper EXCEPT !.at = at, !.bound = TRUE]
        BY <2>2, <3>2 DEF stop_leftovers
      <4> QED BY <4>1, <1>1, EarlyFields
    <3> QED BY <3>1, <3>2
  <2> QED BY <2>1, <2>2 DEF cleanup_process_group
<1> QED BY <1>1, <1>2, EarlyStep DEF Early

LEMMA ClearLostGroup ==
    ASSUME SweepInv, ClearInv, lost_group PROVE ClearInv'
<1>1. /\ table' = table /\ starts' = starts /\ replaced' = replaced /\ sweeper.at = "attribute"
      /\ sweeper \in SweeperRow
  BY DEF lost_group, Watches, Is, SweepInv
<1>2. \/ sweeper' = [sweeper EXCEPT !.at = "list", !.bound = TRUE]
      \/ sweeper' = [sweeper EXCEPT !.at = "send_group"]
      \/ sweeper' = [sweeper EXCEPT !.at = "incomplete"]
  BY DEF lost_group, SweepsMarker
<1>3. /\ sweeper'.at \in {"list", "send_group", "incomplete"} /\ sweeper'.round = sweeper.round
      /\ sweeper'.empties = sweeper.empties /\ sweeper'.settled = sweeper.settled
      /\ sweeper'.info = sweeper.info
  <2>1. CASE sweeper' = [sweeper EXCEPT !.at = "list", !.bound = TRUE]
    BY <2>1, <1>1, EarlyFields
  <2>2. CASE sweeper' = [sweeper EXCEPT !.at = "send_group"]
    BY <2>2, <1>1, EarlyFields
  <2>3. CASE sweeper' = [sweeper EXCEPT !.at = "incomplete"]
    BY <2>3, <1>1, EarlyFields
  <2> QED BY <2>1, <2>2, <2>3, <1>2
<1> QED BY <1>1, <1>3, EarlyStep DEF Early

LEMMA ClearSendGroup ==
    ASSUME SweepInv, ClearInv, send_group PROVE ClearInv'
<1>1. /\ table' = table /\ starts' = starts /\ replaced' = replaced /\ sweeper.at = "send_group"
      /\ sweeper' = [sweeper EXCEPT !.at = "wait_group"] /\ sweeper \in SweeperRow
  BY DEF send_group, Watches, Is, SweepInv
<1>2. /\ sweeper'.at = "wait_group" /\ sweeper'.round = sweeper.round
      /\ sweeper'.empties = sweeper.empties /\ sweeper'.settled = sweeper.settled
      /\ sweeper'.info = sweeper.info
  BY <1>1, EarlyFields
<1> QED BY <1>1, <1>2, EarlyStep DEF Early

LEMMA ClearWaitGroup ==
    ASSUME SweepInv, ClearInv, wait_group_gone PROVE ClearInv'
<1>1. /\ table' = table /\ starts' = starts /\ replaced' = replaced /\ sweeper.at = "wait_group"
      /\ sweeper \in SweeperRow
  BY DEF wait_group_gone, Watches, Ghosts, Is, SweepInv
<1>2. \/ sweeper' = [sweeper EXCEPT !.at = "list", !.bound = TRUE]
      \/ sweeper' = [sweeper EXCEPT !.at = "incomplete"]
      \/ sweeper' = [sweeper EXCEPT !.at = "attribute", !.killed = TRUE]
  BY DEF wait_group_gone, SweepsMarker
<1>3. /\ sweeper'.at \in {"list", "attribute", "incomplete"} /\ sweeper'.round = sweeper.round
      /\ sweeper'.empties = sweeper.empties /\ sweeper'.settled = sweeper.settled
      /\ sweeper'.info = sweeper.info
  <2>1. CASE sweeper' = [sweeper EXCEPT !.at = "list", !.bound = TRUE]
    BY <2>1, <1>1, EarlyFields
  <2>2. CASE sweeper' = [sweeper EXCEPT !.at = "attribute", !.killed = TRUE]
    BY <2>2, <1>1, EarlyFields
  <2>3. CASE sweeper' = [sweeper EXCEPT !.at = "incomplete"]
    BY <2>3, <1>1, EarlyFields
  <2> QED BY <2>1, <2>2, <2>3, <1>2
<1> QED BY <1>1, <1>3, EarlyStep DEF Early

LEMMA ClearListBegins ==
    ASSUME SweepInv, ClearInv, list_begins PROVE ClearInv'
<1>1. /\ table' = table /\ starts' = starts /\ replaced' = replaced /\ sweeper.at = "list"
      /\ sweeper' = [sweeper EXCEPT !.at = "listing", !.begun = Living, !.targets = {},
                                    !.suspects = {}, !.unsettled = FALSE]
      /\ sweeper \in SweeperRow
  BY DEF list_begins, Watches, Is, SweepInv
<1>2. sweeper'.at = "listing" /\ sweeper'.begun = Living /\ CountOf(sweeper') = CountOf(sweeper)
  BY <1>1 DEF SweeperRow, CountOf
<1>3. /\ sweeper'.adopted = sweeper.adopted /\ sweeper'.bound = sweeper.bound
      /\ sweeper'.hits = sweeper.hits /\ sweeper'.round = sweeper.round
      /\ sweeper'.empties = sweeper.empties /\ sweeper'.settled = sweeper.settled
      /\ sweeper'.info = sweeper.info
  BY <1>2 DEF CountOf
<1>4. Remains' = Remains /\ Lasts' = Lasts
  BY <1>1, <1>3, SameRemains DEF Lasts
<1>5. Bounded /\ EmptyRow /\ sweeper.info = {}
  BY <1>1 DEF ClearInv, Reading
<1>6. Bounded' /\ Reading'
  BY <1>1, <1>2, <1>3, <1>5, BoundedStays DEF Bounded, Reading
<1>7. EmptyRow'
  BY <1>1, <1>2, <1>3, <1>4, <1>5 DEF EmptyRow, Early
<1>8. ASSUME NEW m \in Remains PROVE Identity(m)' \in sweeper'.begun
  <2>1. Identity(m)' = Identity(m) /\ Identity(m) \in Living
    BY <1>1 DEF Identity, Living, Remains
  <2> QED BY <2>1, <1>2
<1>9. Found'
  BY <1>2, <1>4, <1>8 DEF Found, Lasts
<1> QED BY <1>6, <1>7, <1>9 DEF ClearInv

LEMMA ClearListEnds ==
    ASSUME SweepInv, ClearInv, list_ends PROVE ClearInv'
<1>1. /\ table' = table /\ starts' = starts /\ replaced' = replaced /\ exited' = exited
      /\ sweeper.at = "listing" /\ sweeper \in SweeperRow
  BY DEF list_ends, Watches, Ghosts, Is, SweepInv
<1>2. PICK listed :
         /\ {i.pid : i \in {j \in sweeper.begun : Identity(j.pid) = j}} \subseteq listed
         /\ sweeper' = [sweeper EXCEPT !.at = "scan", !.todo = listed, !.begun = {}]
  BY DEF list_ends
<1>3. sweeper'.at = "scan" /\ sweeper'.todo = listed /\ CountOf(sweeper') = CountOf(sweeper)
  BY <1>1, <1>2 DEF SweeperRow, CountOf
<1>4. /\ sweeper'.adopted = sweeper.adopted /\ sweeper'.bound = sweeper.bound
      /\ sweeper'.hits = sweeper.hits /\ sweeper'.round = sweeper.round
      /\ sweeper'.empties = sweeper.empties /\ sweeper'.settled = sweeper.settled
      /\ sweeper'.info = sweeper.info
  BY <1>3 DEF CountOf
<1>5. Remains' = Remains /\ Lasts' = Lasts
  BY <1>1, <1>4, SameRemains DEF Lasts
<1>6. Bounded /\ EmptyRow /\ sweeper.info = {}
  BY <1>1 DEF ClearInv, Reading
<1>7. Bounded' /\ Reading'
  BY <1>1, <1>3, <1>4, <1>6, BoundedStays DEF Bounded, Reading
<1>8. EmptyRow'
  BY <1>1, <1>3, <1>4, <1>5, <1>6 DEF EmptyRow, Early
<1>9. ASSUME NEW m, Identity(m) \in sweeper.begun PROVE Seen(m)'
  <2>1. Identity(m).pid = m
    BY DEF Identity
  <2>2. m \in listed
    BY <2>1, <1>2, <1>9
  <2> QED BY <2>2, <1>3, <1>4, <1>6 DEF Seen
<1>10. Found'
  <2>1. ~exited /\ Lasts => \E m \in Remains : Identity(m) \in sweeper.begun
    BY <1>1 DEF ClearInv, Found
  <2> QED BY <2>1, <1>1, <1>3, <1>5, <1>9 DEF Found
<1> QED BY <1>7, <1>8, <1>10 DEF ClearInv

LEMMA ClearReadInfo ==
    ASSUME SweepInv, ClearInv, read_info PROVE ClearInv'
<1>1. /\ table' = table /\ starts' = starts /\ replaced' = replaced /\ exited' = exited
      /\ sweeper.at = "scan" /\ sweeper.todo # {} /\ sweeper \in SweeperRow
  BY DEF read_info, Watches, Ghosts, Is, SweepInv
<1>2. sweeper.todo \subseteq Nat
  BY <1>1, SweepAssumption DEF SweeperRow
<1>3. PICK p \in sweeper.todo : p = CHOOSE q \in sweeper.todo : \A r \in sweeper.todo : q <= r
  <2>1. PICK m \in sweeper.todo : \A n \in sweeper.todo : ~(n < m)
    BY <1>1, <1>2, LeastNumber
  <2>2. \A n \in sweeper.todo : m <= n
    BY <2>1, <1>2
  <2> QED BY <2>2
<1>4. PICK i : i = [pid |-> p, read |-> [start |-> table[p].start, parent |-> table[p].parent]]
  OBVIOUS
<1>5. sweeper' = [sweeper EXCEPT !.info = {i}]
  BY <1>3, <1>4 DEF read_info
<1>6. /\ sweeper'.at = "scan" /\ sweeper'.todo = sweeper.todo /\ sweeper'.info = {i}
      /\ sweeper'.targets = sweeper.targets /\ sweeper'.suspects = sweeper.suspects
      /\ sweeper'.adopted = sweeper.adopted /\ sweeper'.bound = sweeper.bound
      /\ sweeper'.hits = sweeper.hits /\ sweeper'.round = sweeper.round
      /\ sweeper'.empties = sweeper.empties /\ sweeper'.settled = sweeper.settled
  BY <1>1, <1>5 DEF SweeperRow
<1>7. Remains' = Remains /\ Lasts' = Lasts
  BY <1>1, <1>6, SameRemains DEF Lasts
<1>8. Bounded /\ EmptyRow /\ Found
  BY DEF ClearInv
<1>9. Bounded' /\ Reading'
  BY <1>1, <1>3, <1>4, <1>6, <1>8, BoundedStays DEF Bounded, Reading
<1>10. EmptyRow'
  BY <1>1, <1>6, <1>7, <1>8 DEF EmptyRow, Early
<1>11. ASSUME NEW m \in Remains, Seen(m) PROVE Seen(m)'
  <2>1. m \in sweeper.todo /\ table[m].parent # OlderDaemon
    BY <1>8, <1>11 DEF Seen, Bounded, Remains
  <2>2. \A j \in sweeper'.info :
           j.pid = m => j.read.start = table[m].start /\ j.read.parent # OlderDaemon
    BY <2>1, <1>4, <1>6
  <2> QED BY <2>1, <2>2, <1>1, <1>6 DEF Seen, OlderDaemon
<1>12. Found'
  BY <1>1, <1>6, <1>7, <1>8, <1>11 DEF Found
<1> QED BY <1>9, <1>10, <1>12 DEF ClearInv

\* The second read of what remains shows the marker, or refuses as a suspect
LEMMA RemainsIsShown ==
    ASSUME SweepInv, NEW m \in Remains, NEW info, info.start = table[m].start,
           info.parent # OlderDaemon, NEW denied \in BOOLEAN
    PROVE  ObservedBy(m, info, denied) \in {"marked", "suspect"}
<1>1. /\ Alive(m) /\ m \in Pids
      /\ \/ Identity(m) \in sweeper.adopted
         \/ table[m].marked /\ (table[m].open \/ sweeper.bound)
  BY DEF Remains
<1>0. table[m].start \in Nat
  BY <1>1 DEF SweepInv, Processes, ProcessRow
<1>2. info.start # 0 /\ info.start >= LeaderStart
  BY <1>0, <1>1 DEF Alive, LeaderStart
<1>3. [pid |-> m, start |-> info.start] = Identity(m)
  BY DEF Identity
<1>4. ~table[m].open /\ sweeper.bound => note_refusal(m, info)
  BY <1>1, <1>2 DEF note_refusal, still_same
<1> QED BY <1>1, <1>2, <1>3, <1>4 DEF ObservedBy, still_same

LEMMA ClearObserve ==
    ASSUME SweepInv, ClearInv, observe PROVE ClearInv'
<1>1. /\ table' = table /\ starts' = starts /\ replaced' = replaced /\ exited' = exited
      /\ sweeper.at = "scan" /\ sweeper \in SweeperRow
  BY DEF observe, Watches, Ghosts, Is, SweepInv
<1>2. PICK i \in sweeper.info, denied \in BOOLEAN :
         sweeper' = [sweeper EXCEPT !.info = {}, !.todo = @ \ {i.pid},
                       !.targets = IF ObservedBy(i.pid, i.read, denied) = "marked" /\ i.pid \notin protected
                                   THEN @ \cup {[pid |-> i.pid, start |-> i.read.start]} ELSE @,
                       !.suspects = IF ObservedBy(i.pid, i.read, denied) = "suspect"
                                    THEN @ \cup {[pid |-> i.pid, start |-> i.read.start]} ELSE @,
                       !.unsettled = @ \/ ObservedBy(i.pid, i.read, denied) = "vanished",
                       !.hits = @ \/ (ObservedBy(i.pid, i.read, denied) = "marked" /\ i.pid \in protected)]
  BY DEF observe
<1>3. PICK T, S, D :
         /\ T = IF ObservedBy(i.pid, i.read, denied) = "marked" /\ i.pid \notin protected
                THEN sweeper.targets \cup {[pid |-> i.pid, start |-> i.read.start]}
                ELSE sweeper.targets
         /\ S = IF ObservedBy(i.pid, i.read, denied) = "suspect"
                THEN sweeper.suspects \cup {[pid |-> i.pid, start |-> i.read.start]}
                ELSE sweeper.suspects
         /\ D = sweeper.todo \ {i.pid}
  OBVIOUS
<1>4. PICK u \in BOOLEAN : u = (sweeper.unsettled \/ ObservedBy(i.pid, i.read, denied) = "vanished")
  OBVIOUS
<1>5. PICK f \in BOOLEAN :
          f = (sweeper.hits \/ (ObservedBy(i.pid, i.read, denied) = "marked" /\ i.pid \in protected))
  OBVIOUS
<1>6. sweeper' = [sweeper EXCEPT !.info = {}, !.todo = D, !.targets = T, !.suspects = S,
                                 !.unsettled = u, !.hits = f]
  BY <1>2, <1>3, <1>4, <1>5
<1>7. /\ sweeper'.at = "scan" /\ sweeper'.todo = D /\ sweeper'.info = {}
      /\ sweeper'.targets = T /\ sweeper'.suspects = S /\ sweeper'.hits = f
      /\ sweeper'.adopted = sweeper.adopted /\ sweeper'.bound = sweeper.bound
      /\ sweeper'.round = sweeper.round
      /\ sweeper'.empties = sweeper.empties /\ sweeper'.settled = sweeper.settled
  BY <1>1, <1>6 DEF SweeperRow
<1>8. Remains' = Remains /\ (Lasts' => Lasts /\ ~f)
  BY <1>1, <1>5, <1>7, SameRemains DEF Lasts
<1>9. Bounded /\ EmptyRow /\ Found
  BY DEF ClearInv
<1>10. Bounded' /\ Reading'
  BY <1>1, <1>7, <1>9, BoundedStays DEF Bounded, Reading
<1>11. EmptyRow'
  BY <1>1, <1>7, <1>8, <1>9 DEF EmptyRow, Early
<1>12. ASSUME NEW m \in Remains, Seen(m), ~f PROVE T \cup S # {} \/ Seen(m)'
  <2>1. CASE m = i.pid
    <3>1. ObservedBy(i.pid, i.read, denied) \in {"marked", "suspect"}
      BY <2>1, <1>2, <1>12, RemainsIsShown DEF Seen
    <3> QED BY <3>1, <1>3, <1>5, <1>12
  <2>2. CASE m # i.pid
    BY <2>2, <1>3, <1>7, <1>12 DEF Seen
  <2> QED BY <2>1, <2>2
<1>13. sweeper.targets \cup sweeper.suspects # {} => T \cup S # {}
  BY <1>3
<1>14. Found'
  BY <1>1, <1>7, <1>8, <1>9, <1>12, <1>13 DEF Found
<1> QED BY <1>10, <1>11, <1>14 DEF ClearInv

\* A row of empty scans is confirmed after two of them at least
LEMMA ConfirmedAfterTwo ==
    ASSUME NEW before \in Nat, NEW ended \in Nat, ended <= before, before < BusyScans,
           NEW settled \in {0, ended + 1}, confirmed_empty(before + 1, settled)
    PROVE  before + 1 >= 2
<1>1. BusyScans \in Nat /\ BusyScans > 2
  BY SweepAssumption
<1> QED BY <1>1 DEF confirmed_empty

LEMMA ClearScanEnds ==
    ASSUME SweepInv, ClearInv, scan_ends PROVE ClearInv'
<1>1. /\ table' = table /\ starts' = starts /\ exited' = exited
      /\ sweeper.at = "scan" /\ sweeper.todo = {} /\ sweeper \in SweeperRow
  BY DEF scan_ends, Watches, Is, SweepInv
<1>2. PICK empty \in BOOLEAN : empty = (sweeper.targets = {} /\ sweeper.suspects = {})
  OBVIOUS
<1>3. PICK empties, settled :
         /\ empties = IF empty THEN sweeper.empties + 1 ELSE 0
         /\ settled = IF empty /\ ~sweeper.unsettled THEN sweeper.settled + 1 ELSE 0
  OBVIOUS
<1>4. PICK counted : counted = [sweeper EXCEPT !.empties = empties, !.settled = settled]
  OBVIOUS
<1>5. /\ sweeper.empties \in Nat /\ sweeper.settled \in Nat /\ sweeper.round \in Nat
      /\ empties \in Nat /\ settled \in Nat /\ replaced \in Nat
      /\ sweeper.settled <= sweeper.empties /\ sweeper.empties < BusyScans
      /\ sweeper.round \in 1 .. Rounds /\ Rounds \in Nat /\ BusyScans \in Nat /\ BusyScans > 2
  BY <1>1, <1>3, SweepAssumption DEF SweeperRow, ClearInv, Bounded
<1>6. Bounded /\ sweeper.info = {} /\ (Lasts => replaced = sweeper.empties)
  BY <1>1 DEF ClearInv, Reading, EmptyRow
\* an empty scan met an exit, or nothing remains
<1>7. empty /\ Lasts => exited
  BY <1>1, <1>2 DEF ClearInv, Found, Seen
<1>8. replaced' = IF ~empty THEN 0 ELSE IF exited THEN replaced + 1 ELSE replaced
  BY <1>2 DEF scan_ends
<1>9. (Lasts => replaced' = empties) /\ replaced' \in Nat /\ settled <= empties
  BY <1>3, <1>5, <1>6, <1>7, <1>8
\* the fields of the next state that the invariant reads
<1>10. ASSUME CountOf(sweeper') = <<sweeper.adopted, sweeper.bound, sweeper.hits, sweeper'.round,
                                    sweeper'.empties, sweeper'.settled, sweeper.info>>
       PROVE  /\ sweeper'.adopted = sweeper.adopted /\ sweeper'.bound = sweeper.bound
              /\ sweeper'.hits = sweeper.hits /\ sweeper'.info = {}
              /\ Remains' = Remains /\ Lasts' = Lasts
  <2>1. /\ sweeper'.adopted = sweeper.adopted /\ sweeper'.bound = sweeper.bound
        /\ sweeper'.hits = sweeper.hits /\ sweeper'.info = {}
    BY <1>6, <1>10 DEF CountOf
  <2> QED BY <2>1, <1>1, SameRemains DEF Lasts
\* the row goes on
<1>11. ASSUME ~confirmed_empty(empties, settled), sweeper'.at \in {"signal", "list", "incomplete"},
              sweeper'.round \in 1 .. Rounds, sweeper'.empties = empties,
              sweeper'.settled = settled,
              CountOf(sweeper') = <<sweeper.adopted, sweeper.bound, sweeper.hits, sweeper'.round,
                                    sweeper'.empties, sweeper'.settled, sweeper.info>>
       PROVE  ClearInv'
  <2>1. empties < BusyScans
    BY <1>5, <1>11 DEF confirmed_empty
  <2>2. sweeper'.info = {} /\ Lasts' = Lasts
    BY <1>10, <1>11
  <2>3. Bounded'
    BY <2>1, <1>1, <1>6, <1>9, <1>11, BoundedStays
  <2>4. Reading'
    BY <2>2 DEF Reading
  <2>5. EmptyRow'
    BY <2>2, <1>9, <1>11 DEF EmptyRow, Early
  <2>6. Found'
    BY <1>11 DEF Found
  <2> QED BY <2>3, <2>4, <2>5, <2>6 DEF ClearInv
\* the row is confirmed
<1>12. ASSUME confirmed_empty(empties, settled), sweeper' = Completes PROVE ClearInv'
  <2>1. empty
    BY <1>3, <1>5, <1>12 DEF confirmed_empty
  <2>2. sweeper.empties + 1 >= 2
    <3>1. empties = sweeper.empties + 1 /\ settled \in {0, sweeper.settled + 1}
      BY <2>1, <1>3
    <3> QED BY <3>1, <1>5, <1>12, ConfirmedAfterTwo
  <2>3. PICK at : at = IF sweeper.hits THEN "incomplete" ELSE "completed"
    OBVIOUS
  <2>4. sweeper' = [sweeper EXCEPT !.at = at]
    BY <2>3, <1>12 DEF Completes
  <2>5. /\ sweeper'.at = at /\ sweeper'.round = sweeper.round /\ sweeper'.empties = sweeper.empties
        /\ sweeper'.settled = sweeper.settled
        /\ CountOf(sweeper') = <<sweeper.adopted, sweeper.bound, sweeper.hits, sweeper'.round,
                                 sweeper'.empties, sweeper'.settled, sweeper.info>>
    BY <2>4, <1>1 DEF CountOf, SweeperRow
  <2>6. sweeper'.info = {} /\ Remains' = Remains /\ Lasts' = Lasts
    BY <2>5, <1>10
  <2>7. Bounded'
    BY <2>5, <1>1, <1>5, <1>6, <1>9, BoundedStays
  <2>8. Reading'
    BY <2>6 DEF Reading
  <2>9. at = "completed" /\ Remains # {} => Lasts
    BY <2>3 DEF Lasts
  <2>10. EmptyRow'
    <3>1. Lasts => replaced' = sweeper.empties + 1
      BY <2>1, <1>3, <1>9
    <3> QED BY <2>2, <2>3, <2>5, <2>6, <2>9, <3>1 DEF EmptyRow, Early
  <2>11. Found'
    BY <2>3, <2>5 DEF Found
  <2> QED BY <2>7, <2>8, <2>10, <2>11 DEF ClearInv
<1>13. \/ confirmed_empty(empties, settled) /\ sweeper' = Completes
       \/ /\ ~confirmed_empty(empties, settled)
          /\ \/ \E at \in {"list", "incomplete"} : sweeper' = [counted EXCEPT !.at = at]
             \/ \E stage, sent :
                   sweeper' = [counted EXCEPT !.at = "signal", !.stage = stage, !.sent = sent]
             \/ /\ sweeper.round < Rounds
                /\ sweeper' = [[counted EXCEPT !.at = "signal", !.stage = "term", !.sent = {}]
                                   EXCEPT !.round = sweeper.round + 1]
  <2>1. \/ confirmed_empty(empties, settled) /\ sweeper' = Completes
        \/ ~confirmed_empty(empties, settled) /\ sweeper' =
              CASE sweeper.stage = "first" ->
                      [counted EXCEPT !.at = "signal", !.stage = "term", !.sent = {}]
                [] sweeper.stage = "term" ->
                      [counted EXCEPT !.at = "signal", !.stage = "term", !.sent = sweeper.sent]
                [] OTHER -> [counted EXCEPT !.at = "list"]
        \/ ~confirmed_empty(empties, settled) /\ sweeper.stage # "first" /\ sweeper' =
              IF sweeper.stage = "term"
              THEN [counted EXCEPT !.at = "signal", !.stage = "kill", !.sent = {}]
              ELSE IF sweeper.round < Rounds
              THEN [[counted EXCEPT !.at = "signal", !.stage = "term", !.sent = {}]
                       EXCEPT !.round = sweeper.round + 1]
              ELSE [counted EXCEPT !.at = "incomplete"]
    BY <1>2, <1>3, <1>4 DEF scan_ends
  <2>2. CASE sweeper' =
              CASE sweeper.stage = "first" ->
                      [counted EXCEPT !.at = "signal", !.stage = "term", !.sent = {}]
                [] sweeper.stage = "term" ->
                      [counted EXCEPT !.at = "signal", !.stage = "term", !.sent = sweeper.sent]
                [] OTHER -> [counted EXCEPT !.at = "list"]
    BY <2>1, <2>2
  <2>3. CASE sweeper' =
              IF sweeper.stage = "term"
              THEN [counted EXCEPT !.at = "signal", !.stage = "kill", !.sent = {}]
              ELSE IF sweeper.round < Rounds
              THEN [[counted EXCEPT !.at = "signal", !.stage = "term", !.sent = {}]
                       EXCEPT !.round = sweeper.round + 1]
              ELSE [counted EXCEPT !.at = "incomplete"]
    BY <2>1, <2>3
  <2> QED BY <2>1, <2>2, <2>3
<1>14. counted \in SweeperRow /\ counted.empties = empties /\ counted.settled = settled
       /\ counted.round = sweeper.round /\ counted.adopted = sweeper.adopted
       /\ counted.bound = sweeper.bound /\ counted.hits = sweeper.hits
       /\ counted.info = sweeper.info
  BY <1>1, <1>4, <1>5 DEF SweeperRow
<1>15. ASSUME NEW at \in {"list", "incomplete"}, sweeper' = [counted EXCEPT !.at = at],
              ~confirmed_empty(empties, settled)
       PROVE  ClearInv'
  <2>1. /\ sweeper'.at = at /\ sweeper'.round = sweeper.round /\ sweeper'.empties = empties
        /\ sweeper'.settled = settled
        /\ CountOf(sweeper') = <<sweeper.adopted, sweeper.bound, sweeper.hits, sweeper'.round,
                                 sweeper'.empties, sweeper'.settled, sweeper.info>>
    BY <1>14, <1>15 DEF CountOf, SweeperRow
  <2> QED BY <2>1, <1>5, <1>11, <1>15
<1>16. ASSUME NEW stage, NEW sent,
              sweeper' = [counted EXCEPT !.at = "signal", !.stage = stage, !.sent = sent],
              ~confirmed_empty(empties, settled)
       PROVE  ClearInv'
  <2>1. /\ sweeper'.at = "signal" /\ sweeper'.round = sweeper.round /\ sweeper'.empties = empties
        /\ sweeper'.settled = settled
        /\ CountOf(sweeper') = <<sweeper.adopted, sweeper.bound, sweeper.hits, sweeper'.round,
                                 sweeper'.empties, sweeper'.settled, sweeper.info>>
    BY <1>14, <1>16 DEF CountOf, SweeperRow
  <2> QED BY <2>1, <1>5, <1>11, <1>16
<1>17. ASSUME sweeper.round < Rounds, ~confirmed_empty(empties, settled),
              sweeper' = [[counted EXCEPT !.at = "signal", !.stage = "term", !.sent = {}]
                             EXCEPT !.round = sweeper.round + 1]
       PROVE  ClearInv'
  <2>1. PICK s : s = [counted EXCEPT !.at = "signal", !.stage = "term", !.sent = {}]
    OBVIOUS
  <2>2. /\ s \in SweeperRow /\ s.at = "signal" /\ s.empties = empties /\ s.settled = settled
        /\ s.adopted = sweeper.adopted /\ s.bound = sweeper.bound /\ s.hits = sweeper.hits
        /\ s.info = sweeper.info
    BY <2>1, <1>14 DEF SweeperRow, SweepPhases
  <2>3. sweeper' = [s EXCEPT !.round = sweeper.round + 1]
    BY <2>1, <1>17
  <2>4. /\ sweeper'.at = "signal" /\ sweeper'.round = sweeper.round + 1
        /\ sweeper'.empties = empties /\ sweeper'.settled = settled
        /\ CountOf(sweeper') = <<sweeper.adopted, sweeper.bound, sweeper.hits, sweeper'.round,
                                 sweeper'.empties, sweeper'.settled, sweeper.info>>
    BY <2>2, <2>3 DEF CountOf, SweeperRow
  <2>5. sweeper'.round \in 1 .. Rounds
    BY <2>4, <1>5, <1>17
  <2> QED BY <2>4, <2>5, <1>11, <1>17
<1> QED BY <1>12, <1>13, <1>15, <1>16, <1>17

LEMMA ClearDeadline ==
    ASSUME SweepInv, ClearInv, Deadline PROVE ClearInv'
<1>1. /\ table' = table /\ starts' = starts /\ replaced' = replaced
      /\ sweeper' = [sweeper EXCEPT !.at = "incomplete"] /\ sweeper.todo = {}
      /\ sweeper \in SweeperRow
  BY DEF Deadline, Watches, Ghosts, Ends, SweepInv
<1>2. /\ sweeper'.at = "incomplete" /\ sweeper'.round = sweeper.round
      /\ sweeper'.empties = sweeper.empties /\ sweeper'.settled = sweeper.settled
      /\ sweeper'.info = sweeper.info
  BY <1>1, EarlyFields
<1>3. Bounded /\ sweeper.info = {}
  BY <1>1 DEF ClearInv, Reading
<1>4. Bounded' /\ Reading'
  BY <1>1, <1>2, <1>3, BoundedStays DEF Bounded, Reading
<1>5. EmptyRow' /\ Found'
  BY <1>2 DEF EmptyRow, Found, Early
<1> QED BY <1>4, <1>5 DEF ClearInv

LEMMA ClearPin ==
    ASSUME SweepInv, ClearInv, pin PROVE ClearInv'
<1>1. /\ table' = table /\ starts' = starts /\ replaced' = replaced /\ sweeper.at = "signal"
      /\ sweeper \in SweeperRow
  BY DEF pin, Watches, Ghosts, Is, SweepInv
<1>2. sweeper'.at \in {"signal", "list"} /\ CountOf(sweeper') = CountOf(sweeper)
  <2>1. CASE sweeper.targets \subseteq sweeper.sent
    <3>1. sweeper' = [sweeper EXCEPT !.at = "list"]
      BY <2>1 DEF pin, Ends
    <3> QED BY <3>1, <1>1 DEF SweeperRow, CountOf
  <2>2. CASE ~(sweeper.targets \subseteq sweeper.sent)
    <3>1. PICK t : t = CHOOSE i \in sweeper.targets \ sweeper.sent :
                          \A j \in sweeper.targets \ sweeper.sent : i.pid <= j.pid
      OBVIOUS
    <3>2. PICK S, H : /\ S = sweeper.sent \cup {t}
                      /\ H = IF Alive(t.pid) THEN {[target |-> t, pinned |-> Identity(t.pid)]} ELSE {}
      OBVIOUS
    <3>3. sweeper' = [sweeper EXCEPT !.sent = S, !.ok = FALSE, !.handle = H]
      BY <2>2, <3>1, <3>2 DEF pin
    <3> QED BY <3>3, <1>1 DEF SweeperRow, CountOf
  <2> QED BY <2>1, <2>2
<1> QED BY <1>1, <1>2, SignalStep

LEMMA ClearVerify ==
    ASSUME SweepInv, ClearInv, signal_verified PROVE ClearInv'
<1>1. /\ table' = table /\ starts' = starts /\ replaced' = replaced /\ sweeper.at = "signal"
      /\ sweeper \in SweeperRow
  BY DEF signal_verified, Watches, Ghosts, Is, SweepInv
<1>2. sweeper' = [sweeper EXCEPT !.ok = TRUE] \/ sweeper' = [sweeper EXCEPT !.handle = {}]
  BY DEF signal_verified
<1>3. sweeper'.at = "signal" /\ CountOf(sweeper') = CountOf(sweeper)
  BY <1>1, <1>2 DEF SweeperRow, CountOf
<1> QED BY <1>1, <1>3, SignalStep

LEMMA ClearSendSignal ==
    ASSUME SweepInv, ClearInv, SendSignal PROVE ClearInv'
<1>1. /\ table' = table /\ starts' = starts /\ replaced' = replaced /\ sweeper.at = "signal"
      /\ sweeper' = [sweeper EXCEPT !.handle = {}, !.ok = FALSE] /\ sweeper \in SweeperRow
  BY DEF SendSignal, Watches, Is, SweepInv
<1>2. sweeper'.at = "signal" /\ CountOf(sweeper') = CountOf(sweeper)
  BY <1>1 DEF SweeperRow, CountOf
<1> QED BY <1>1, <1>2, SignalStep

LEMMA ClearStarts == SweepInit => ClearInv
<1> SUFFICES ASSUME SweepInit PROVE ClearInv
  OBVIOUS
<1>1. PICK marked \in BOOLEAN, mode \in {"agent", "queue", "lost"} :
        /\ table = [p \in Pids |-> IF p = 1 THEN Leader
                                   ELSE IF p \in protected THEN TaskRun(marked) ELSE Free]
        /\ sweeper = [NewSweeper EXCEPT !.mode = mode,
                                        !.at = IF mode = "lost" THEN "attribute" ELSE "run"]
  BY DEF SweepInit
<1>2. /\ starts = 2 /\ replaced = 0 /\ protected \in {{}, {2}} /\ 1 \in Pids
      /\ MaxStarts \in Nat \ {0, 1} /\ Rounds \in Nat \ {0} /\ BusyScans \in Nat /\ BusyScans > 2
  BY SweepAssumption DEF SweepInit
<1>3. /\ Leader.parent = 0 /\ Leader.group = 1 /\ TaskRun(marked).group = 2
      /\ TaskRun(marked).parent = 0 /\ Free.group = 0 /\ Free.parent = 0
  BY DEF Leader, TaskRun, Free, LeaderStart
<1>4. ASSUME NEW p \in Pids PROVE table[p].group \in Pids \cup {0} /\ table[p].parent = 0
  BY <1>1, <1>2, <1>3
<1>5. PICK at \in {"attribute", "run"} : sweeper = [NewSweeper EXCEPT !.mode = mode, !.at = at]
  BY <1>1
<1>6. /\ sweeper.at = at /\ sweeper.round = 1 /\ sweeper.empties = 0 /\ sweeper.settled = 0
      /\ sweeper.info = {}
  BY <1>5 DEF NewSweeper
<1>7. Bounded
  <2>1. starts <= MaxStarts /\ sweeper.round \in 1 .. Rounds /\ sweeper.empties < BusyScans
        /\ sweeper.settled <= sweeper.empties /\ replaced \in Nat
    BY <1>2, <1>6
  <2> QED BY <2>1, <1>4 DEF Bounded, OlderDaemon
<1>8. Reading
  BY <1>6 DEF Reading
<1>9. EmptyRow /\ Found
  BY <1>2, <1>5, <1>6 DEF EmptyRow, Found, Early
<1> QED BY <1>7, <1>8, <1>9 DEF ClearInv

LEMMA ClearStep == SweepInv /\ ClearInv /\ [SweepNext]_sweepVars => ClearInv'
<1> SUFFICES ASSUME SweepInv, ClearInv, [SweepNext]_sweepVars PROVE ClearInv'
  OBVIOUS
<1>1. CASE UNCHANGED sweepVars
  BY <1>1, ClearRests DEF sweepVars
<1>2. CASE \E q \in Pids : Stranger(q) \/ Exit(q) \/ Exec(q) \/ \E p \in Pids : Fork(p, q)
  BY <1>2, ClearStranger, ClearExit, ClearExec, ClearFork
<1>3. CASE observe_descendants
  BY <1>3, ClearRests DEF observe_descendants
<1>4. CASE run_child \/ cleanup_process_group \/ lost_group \/ send_group \/ wait_group_gone
  BY <1>4, ClearRunChild, ClearCleansGroup, ClearLostGroup, ClearSendGroup, ClearWaitGroup
<1>5. CASE list_begins \/ list_ends \/ read_info \/ observe \/ scan_ends \/ Deadline
  BY <1>5, ClearListBegins, ClearListEnds, ClearReadInfo, ClearObserve, ClearScanEnds,
     ClearDeadline
<1>6. CASE pin \/ signal_verified \/ SendSignal
  BY <1>6, ClearPin, ClearVerify, ClearSendSignal
<1> QED BY <1>1, <1>2, <1>3, <1>4, <1>5, <1>6 DEF SweepNext

LEMMA ClearImplies == SweepInv /\ ClearInv => SweepEndsClear
<1> SUFFICES ASSUME SweepInv, ClearInv PROVE SweepEndsClear
  OBVIOUS
<1>1. SweepTypeOK
  <2>1. /\ table \in [Pids -> ProcessRow] /\ starts \in Nat /\ \A p \in Pids : PlaceOf(p)
        /\ recorded \subseteq ProcessId /\ sweeper \in SweeperRow
    BY DEF SweepInv, Processes, Known
  <2>2. Bounded /\ MaxStarts \in Nat /\ BusyScans \in Nat
    BY SweepAssumption DEF ClearInv
  <2>3. \A p \in Pids : table[p].start \in 0 .. MaxStarts
    <3>1. TAKE p \in Pids
    <3>2. table[p].start \in Nat /\ table[p].start <= starts
      BY <2>1 DEF ProcessRow, PlaceOf
    <3> QED BY <3>2, <2>1, <2>2 DEF Bounded
  <2>4. \A i \in recorded : i.pid \in Pids
    BY <2>1 DEF ProcessId
  <2>5. starts \in 0 .. MaxStarts
    BY <2>1, <2>2 DEF Bounded
  <2>6. sweeper.empties \in 0 .. BusyScans
    BY <2>1, <2>2 DEF Bounded, SweeperRow
  <2> QED BY <2>2, <2>3, <2>4, <2>5, <2>6 DEF SweepTypeOK, Bounded
<1>2. Leftovers \subseteq Remains
  BY DEF Leftovers, Remains
<1>3. CompletedIsClear
  BY <1>2 DEF CompletedIsClear, Is, ClearInv, EmptyRow
<1> QED BY <1>1, <1>3 DEF SweepEndsClear

\* A cleanup that cleanup.rs reports as completed left nothing of the run
\* that it could attribute, unless the run's processes replaced themselves during
\* every one of its empty scans, at least two, for any pids, forks, exits, rounds
\* and length of the confirming row.
THEOREM SweepEndsClearCorrect == SweepSpec => []SweepEndsClear
<1>1. SweepSpec => [](SweepInv /\ ClearInv)
  <2>1. SweepInv /\ ClearInv /\ [SweepNext]_sweepVars => (SweepInv /\ ClearInv)'
    BY SweepStep, ClearStep
  <2> QED BY <2>1, SweepStarts, ClearStarts, PTL DEF SweepSpec
<1> QED BY <1>1, ClearImplies, PTL

=============================================================================
