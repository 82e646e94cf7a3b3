--------------------------- MODULE FleetDirectory ---------------------------
(***************************************************************************)
(* The peer directory of one daemon: addresses from the configuration, the  *)
(* operator and the discovery providers are probed in rounds, bound to the  *)
(* machine that answered, ranked for routing and saved.  A second sweep     *)
(* tells a copied installation from a restart.  Callers connect meanwhile.  *)
(***************************************************************************)
EXTENDS Naturals, FiniteSets

CONSTANTS
    Addresses,
    Configured,  \* addresses in config.toml
    Local,       \* UUID of this machine
    Peers,       \* UUIDs of the other machines
    Boots,       \* boot UUIDs; this daemon runs as the first
    Providers,   \* discovery providers in use, of "mdns" and "tailscale"
    Old,         \* boots of a peer as a build without a shared protocol version
    MaxShifts,   \* bound on addresses that move, and restarts of peers
    MaxReports,  \* bound on provider reports and operator commands
    MaxCalls,    \* bound on calls of connect
    MaxStarts    \* bound on restarts of this daemon

ASSUME FleetAssumption ==
    /\ Configured \subseteq Addresses /\ Local \notin Peers /\ Old \subseteq Boots
    /\ {"unverified", "self"} \cap (Peers \cup {Local}) = {}
    /\ Providers \subseteq {"mdns", "tailscale"} /\ Boots \subseteq Nat \ {0} /\ 1 \in Boots

VARIABLES
    world,      \* what each address answers: a daemon, a refusal or nothing
    cloned,     \* history: machines that had two live daemons at once
    restarted,  \* history: the last boot of each peer, and how often it changed
                \* since a round began when neither the directory nor its
                \* file took it for a duplicate
    src,        \* sources of each address
    bound,      \* binding of each address
    known,      \* machine records
    localDup,   \* local_status is DuplicateMachineIdentity
    missing,    \* missing_rounds of the local recovery
    clean,      \* history: rounds in a row that reached hosts and met no clone
    round,      \* the probe round under way
    call,       \* one caller of connect
    disk,       \* fleet-peers.json
    counts      \* what the bounds count, and the commands that have yet to save

fleetVars == <<world, cloned, restarted, src, bound, known, localDup, missing, clean, round, call, disk, counts>>

Machines == Peers \cup {Local}
Daemons == Machines \X Boots
Self == <<Local, 1>>
Silent == <<"silent", 0>>
Refused == <<"refused", 0>>
Answering(w) == w \in Daemons
Unknown == [boot |-> 0, identity |-> "Consistent"]
IsKnown(m) == known[m].boot # 0

Idle == [at |-> "idle", todo |-> {}, first |-> [a \in {} |-> Silent], second |-> [a \in {} |-> Silent],
         suspects |-> {}, dup |-> FALSE]
NoCall == [at |-> "idle", machine |-> Local, todo |-> {}, answer |-> Silent, from |-> "none"]

FleetTypeOK ==
    /\ world \in [Addresses -> Daemons \cup {Silent, Refused}]
    /\ src \in [Addresses -> SUBSET {"configured", "explicit", "mdns", "tailscale"}]
    /\ bound \in [Addresses -> Machines \cup {"unverified", "self"}]
    /\ known \in [Peers -> [boot: Boots \cup {0}, identity: {"Consistent", "Duplicate"}]]
    /\ localDup \in BOOLEAN /\ missing \in 0 .. 1
    /\ round.todo \subseteq Addresses /\ call.todo \subseteq Addresses

save(s, b, k) ==
    [explicit |-> {a \in Addresses: "explicit" \in s[a]},
     bound |-> [a \in Addresses |-> IF b[a] \in Machines THEN b[a] ELSE "unverified"],
     known |-> k]

FleetInit ==
    /\ world \in [Addresses -> Peers \X {1}] /\ cloned = {}
    /\ restarted = [m \in Peers |-> [boot |-> 1, times |-> 0]]
    /\ src = [a \in Addresses |-> IF a \in Configured THEN {"configured"} ELSE {}]
    /\ bound = [a \in Addresses |-> "unverified"] /\ known = [m \in Peers |-> Unknown]
    /\ localDup = FALSE /\ missing = 0 /\ clean = 0 /\ round = Idle /\ call = NoCall
    /\ disk = save(src, bound, known)
    /\ counts = [shifts |-> 0, reports |-> 0, calls |-> 0, starts |-> 0, unsaved |-> 0]

Counts(what, max) == counts[what] < max /\ counts' = [counts EXCEPT ![what] = @ + 1]

-----------------------------------------------------------------------------
(* The network.                                                             *)

Live(w) == {w[a]: a \in Addresses} \cap Daemons
Cloned(w) == {m \in Machines: \E b, c \in Boots: b # c /\ {<<m, b>>, <<m, c>>} \subseteq Live(w) \cup {Self}}

\* Machine m answers as boot b, maybe after a restart nobody saw.
ComesUp(m, b) ==
    restarted' = IF restarted[m].boot = b THEN restarted
                 ELSE [restarted EXCEPT ![m] = [boot |-> b, times |-> @.times + 1]]

\* An address moves to another host, falls silent, or is refused there.
AddressMoves(a, to) ==
    /\ Counts("shifts", MaxShifts) /\ to # world[a] /\ world' = [world EXCEPT ![a] = to]
    /\ cloned' = cloned \cup Cloned(world')
    /\ IF to \in Peers \X Boots THEN ComesUp(to[1], to[2]) ELSE UNCHANGED restarted
    /\ UNCHANGED <<src, bound, known, localDup, missing, clean, round, call, disk>>

\* A peer restarts: every address of its daemon answers with a new boot UUID.
PeerRestarts(m, b) ==
    /\ Counts("shifts", MaxShifts) /\ m \in Peers /\ Cardinality({d \in Live(world): d[1] = m}) = 1
    /\ <<m, b>> \notin Live(world)
    /\ world' = [a \in Addresses |-> IF world[a] \in {m} \X Boots THEN <<m, b>> ELSE world[a]]
    /\ ComesUp(m, b)
    /\ UNCHANGED <<cloned, src, bound, known, localDup, missing, clean, round, call, disk>>

-----------------------------------------------------------------------------
(* The directory.                                                           *)

\* Best current source: the operator, then LAN, Tailscale, and the cache.
source(a) ==
    IF src[a] \cap {"configured", "explicit"} # {} THEN 1
    ELSE IF "mdns" \in src[a] THEN 2
    ELSE IF "tailscale" \in src[a] THEN 3
    ELSE IF bound[a] \in Machines THEN 4 ELSE 5

probe_candidates == {a \in Addresses: source(a) < 5}

\* Mutated form: an address stays with the machine that it first answered for.
KeepsFirstBinding(results, old) ==
    [a \in Addresses |->
        IF a \in DOMAIN results /\ Answering(results[a]) /\ old[a] \notin Machines
        THEN IF results[a] = Self THEN "self" ELSE results[a][1]
        ELSE old[a]]

\* A successful probe binds the address; a failure keeps the binding.
Bindings(results, old) ==
    [a \in Addresses |->
        IF a \in DOMAIN results /\ Answering(results[a])
        THEN IF results[a] = Self THEN "self" ELSE results[a][1]
        ELSE old[a]]

\* The machine record takes the last answer; its identity status stays.
Records(results, old) ==
    [m \in Peers |->
        IF \E a \in DOMAIN results: results[a] \in {m} \X Boots
        THEN [old[m] EXCEPT !.boot = LET a == CHOOSE x \in DOMAIN results: results[x] \in {m} \X Boots
                                     IN results[a][2]]
        ELSE old[m]]

record_probe(results) ==
    /\ bound' = Bindings(results, bound)
    /\ known' = Records(results, known)

set_configured(s) == [a \in Addresses |-> IF a \in Configured THEN s[a] \cup {"configured"}
                                          ELSE s[a] \ {"configured"}]

record_sighting(a, provider) ==
    /\ Counts("reports", MaxReports) /\ provider \notin src[a]
    /\ src' = [src EXCEPT ![a] = @ \cup {provider}]
    /\ UNCHANGED <<world, cloned, restarted, bound, known, localDup, missing, clean, round, call, disk>>

\* A withdrawal, or a sighting whose time is over.
withdraw_sighting(a, provider) ==
    /\ provider \in src[a] /\ src' = [src EXCEPT ![a] = @ \ {provider}]
    /\ UNCHANGED <<world, cloned, restarted, bound, known, localDup, missing, clean, round, call, disk, counts>>

\* The file takes the directory as it is; a save that fails is only logged.
Saves == disk' = disk \/ disk' = save(src, bound, known)

\* Each operator command changes the directory, then saves it.
Commands(n) ==
    /\ counts.reports + n <= MaxReports
    /\ counts' = [counts EXCEPT !.reports = @ + n, !.unsaved = @ + 1]

add_explicit(a) ==
    /\ Commands(1) /\ src' = [src EXCEPT ![a] = @ \cup {"explicit"}]
    /\ UNCHANGED <<world, cloned, restarted, bound, known, localDup, missing, clean, round, call, disk>>

remove_explicit(a) ==
    /\ "explicit" \in src[a] /\ Commands(0) /\ src' = [src EXCEPT ![a] = @ \ {"explicit"}]
    /\ UNCHANGED <<world, cloned, restarted, bound, known, localDup, missing, clean, round, call, disk>>

\* The record, its bindings and its explicit addresses go together.
Forgets(m) ==
    /\ known' = [known EXCEPT ![m] = Unknown]
    /\ bound' = [a \in Addresses |-> IF bound[a] = m THEN "unverified" ELSE bound[a]]
    /\ src' = [a \in Addresses |-> IF bound[a] = m THEN src[a] \ {"explicit"} ELSE src[a]]

forget_machine(m) ==
    /\ Commands(1) /\ IsKnown(m) /\ Forgets(m)
    /\ UNCHANGED <<world, cloned, restarted, localDup, missing, clean, round, call, disk>>

CommandSaves ==
    /\ counts.unsaved > 0 /\ counts' = [counts EXCEPT !.unsaved = @ - 1] /\ Saves
    /\ UNCHANGED <<world, cloned, restarted, src, bound, known, localDup, missing, clean, round, call>>

-----------------------------------------------------------------------------
(* Probe rounds.                                                            *)

run_round ==
    /\ round.at = "idle"
    /\ round' = [Idle EXCEPT !.at = "first", !.todo = probe_candidates, !.dup = localDup]
    /\ restarted' = [m \in Peers |-> IF "Duplicate" \in {known[m].identity, disk.known[m].identity}
                                      THEN restarted[m] ELSE [restarted[m] EXCEPT !.times = 0]]
    /\ UNCHANGED <<world, cloned, src, bound, known, localDup, missing, clean, call, disk, counts>>

\* The probes of a sweep run concurrently; each answer is taken at its own time.
probe(a) ==
    /\ a \in round.todo
    /\ LET answer == [x \in {a} |-> world[a]]
           Extend(f) == [x \in DOMAIN f \cup {a} |-> IF x = a THEN answer[a] ELSE f[x]]
       IN round' = IF round.at = "first"
                   THEN [round EXCEPT !.todo = @ \ {a}, !.first = Extend(@)]
                   ELSE [round EXCEPT !.todo = @ \ {a}, !.second = Extend(@)]
    /\ UNCHANGED <<world, cloned, restarted, src, bound, known, localDup, missing, clean, call, disk, counts>>

BootsOf(sweep, m) == {sweep[a][2]: a \in {x \in DOMAIN sweep: sweep[x] \in {m} \X Boots}}
ForeignBoots(sweep) == BootsOf(sweep, Local) \ {1}
reached_a_host(sweep) == \E a \in DOMAIN sweep: sweep[a] # Silent

\* Disagreeing answers, a claim of the local UUID, or an earlier duplicate.
suspects(sweep) ==
    {m \in Peers: LET boots == BootsOf(sweep, m)
                  IN Cardinality(boots) > 1 \/ (boots # {} /\ known[m].identity = "Duplicate")}
    \cup (IF ForeignBoots(sweep) # {} \/ round.dup THEN {Local} ELSE {})

\* All results are recorded together; suspects are probed once more.
EndFirstSweep ==
    /\ round.at = "first" /\ round.todo = {}
    /\ record_probe(round.first)
    /\ LET them == suspects(round.first)
           again == IF round.dup THEN DOMAIN round.first
                    ELSE {a \in DOMAIN round.first: Answering(round.first[a]) /\ round.first[a][1] \in them}
       IN round' = IF them = {} THEN [round EXCEPT !.at = "saving"]
                   ELSE [round EXCEPT !.at = "second", !.suspects = them, !.todo = again]
    /\ UNCHANGED <<world, cloned, restarted, src, localDup, missing, clean, call, disk, counts>>

EndSecondSweep ==
    /\ round.at = "second" /\ round.todo = {}
    /\ record_probe(round.second) /\ round' = [round EXCEPT !.at = "deciding"]
    /\ UNCHANGED <<world, cloned, restarted, src, localDup, missing, clean, call, disk, counts>>

\* Mutated form: the first sweep decides.
ConfirmsFirst(m) ==
    IF Cardinality(BootsOf(round.first, m)) > 1 THEN "Duplicate" ELSE "Consistent"

\* The second sweep decides, when every first address answered again.
confirm(m) ==
    LET boots == BootsOf(round.second, m)
        Answered(sweep) == {a \in DOMAIN sweep: sweep[a] \in {m} \X Boots}
    IN IF Cardinality(boots) > 1 THEN "Duplicate"
       ELSE IF boots = {} \/ ~(Answered(round.first) \subseteq Answered(round.second)) THEN "Inconclusive"
       ELSE "Consistent"

apply_verdict ==
    known' = [m \in Peers |->
                IF m \in round.suspects /\ IsKnown(m) /\ confirm(m) # "Inconclusive"
                THEN [known[m] EXCEPT !.identity = confirm(m)] ELSE known[m]]

\* Absence counts only when both sweeps reached a host.
AbsentClone(first, second) ==
    /\ ForeignBoots(first) = {} /\ ForeignBoots(second) = {}
    /\ reached_a_host(first) /\ reached_a_host(second)

\* A new local duplicate resets the count; two clean rounds in a row clear it.
apply_local ==
    IF Local \notin round.suspects THEN UNCHANGED <<localDup, missing>>
    ELSE IF ForeignBoots(round.second) # {} THEN localDup' = TRUE /\ missing' = 0
    ELSE IF ~round.dup THEN UNCHANGED <<localDup, missing>>
    ELSE IF ~AbsentClone(round.first, round.second) THEN missing' = 0 /\ UNCHANGED localDup
    ELSE IF missing = 1 THEN localDup' = FALSE /\ missing' = 0
    ELSE missing' = 1 /\ UNCHANGED localDup

decide ==
    /\ round.at = "deciding" /\ apply_verdict /\ apply_local
    /\ clean' = IF (\A s \in {round.first, round.second}: reached_a_host(s) /\ ForeignBoots(s) = {}) /\ round.dup
                THEN IF clean = 2 THEN 2 ELSE clean + 1 ELSE 0
    /\ round' = [round EXCEPT !.at = "saving"]
    /\ UNCHANGED <<world, cloned, restarted, src, bound, call, disk, counts>>

\* prune, then persist: an address without a source holds nothing.
persist ==
    /\ round.at = "saving" /\ Saves /\ round' = Idle
    /\ UNCHANGED <<world, cloned, restarted, src, bound, known, localDup, missing, clean, call, counts>>

-----------------------------------------------------------------------------
(* Callers.                                                                 *)

Routable(m) == m \in Peers /\ IsKnown(m) /\ known[m].identity = "Consistent" /\ known[m].boot \notin Old
RoutesTo(m) == {a \in Addresses: bound[a] = m}

route(m) ==
    /\ call.at = "idle" /\ Counts("calls", MaxCalls)
    /\ Routable(m) /\ RoutesTo(m) # {}
    /\ call' = [NoCall EXCEPT !.at = "asking", !.machine = m, !.todo = RoutesTo(m)]
    /\ UNCHANGED <<world, cloned, restarted, src, bound, known, localDup, missing, clean, round, disk>>

\* The next address in routing order is probed before it is used.
ConnectAsks(a) ==
    /\ call.at = "asking" /\ a \in call.todo /\ \A b \in call.todo: source(a) <= source(b)
    /\ call' = [call EXCEPT !.at = "checking", !.todo = @ \ {a}, !.from = a, !.answer = world[a]]
    /\ UNCHANGED <<world, cloned, restarted, src, bound, known, localDup, missing, clean, round, disk, counts>>

\* Mutated form: the binding is trusted, the answer is not compared.
AnswersAtAll(answer, m) == Answering(answer)

\* The intended machine, as a build with a shared protocol version.
check_probed(answer, m) == Answering(answer) /\ answer[1] = m /\ answer[2] \notin Old

\* The answer is recorded; a foreign answer rebinds the address; it and an
\* incompatible one are skipped.
ConnectChecks ==
    /\ call.at = "checking"
    /\ record_probe([a \in {call.from} |-> call.answer])
    /\ call' = IF check_probed(call.answer, call.machine) THEN [call EXCEPT !.at = "verified"]
               ELSE IF call.todo # {} THEN [call EXCEPT !.at = "asking"] ELSE NoCall
    /\ UNCHANGED <<world, cloned, restarted, src, localDup, missing, clean, round, disk, counts>>

\* The caller sends its request to the address that it just verified.
UseDestination ==
    /\ call.at = "verified" /\ call' = NoCall
    /\ UNCHANGED <<world, cloned, restarted, src, bound, known, localDup, missing, clean, round, disk, counts>>

-----------------------------------------------------------------------------
(* Restart of this daemon.                                                  *)

\* A binding comes back only with its machine's record.
Restored(a) ==
    IF disk.bound[a] \in Peers /\ disk.known[disk.bound[a]].boot # 0 THEN disk.bound[a] ELSE "unverified"

load ==
    /\ counts.starts < MaxStarts /\ counts' = [counts EXCEPT !.starts = @ + 1, !.unsaved = 0]
    /\ known' = disk.known /\ bound' = [a \in Addresses |-> Restored(a)]
    /\ src' = set_configured([a \in Addresses |-> IF a \in disk.explicit THEN {"explicit"} ELSE {}])
    /\ localDup' = FALSE /\ missing' = 0 /\ clean' = 0 /\ round' = Idle /\ call' = NoCall
    /\ UNCHANGED <<world, cloned, restarted, disk>>

RoundStep == run_round \/ (\E a \in Addresses: probe(a)) \/ EndFirstSweep \/ EndSecondSweep \/ decide \/ persist

FleetNext ==
    \/ RoundStep \/ load \/ CommandSaves \/ ConnectChecks \/ UseDestination
    \/ \E a \in Addresses:
        \/ \E to \in Daemons \cup {Silent, Refused}: AddressMoves(a, to)
        \/ \E provider \in Providers: record_sighting(a, provider) \/ withdraw_sighting(a, provider)
        \/ add_explicit(a) \/ remove_explicit(a) \/ ConnectAsks(a)
    \/ \E m \in Peers: route(m) \/ forget_machine(m) \/ (\E b \in Boots: PeerRestarts(m, b))

FleetSpec == FleetInit /\ [][FleetNext]_fleetVars

\* The probe loop runs a round on every interval; probes answer or time out.
FleetFairness == WF_fleetVars(RoundStep)

FleetFairSpec == FleetSpec /\ FleetFairness

-----------------------------------------------------------------------------
(* Properties.                                                              *)

\* A machine is held for a duplicate only after two live daemons had its UUID,
\* or it restarted twice since a round began when neither the directory nor its
\* file held it for one; also after the operator forgot it during a round, after
\* a save failed (fleet/runtime.rs only warns, so a duplicate that was cleared
\* may return) and after this daemon restarted.
DuplicateWasCloned ==
    \A m \in Peers: known[m].identity = "Duplicate" => m \in cloned \/ restarted[m].times > 1

\* An address leads only to a machine that the directory has a record of, over
\* rounds, a machine that is forgotten and a restart with an older file.
BoundIsKnown == \A a \in Addresses: bound[a] \in Peers => IsKnown(bound[a])

\* Work goes only where the intended machine answered during this very call, as
\* a build it can talk to, whatever the directory believed: its address may
\* have moved, and it may have restarted as an old build, since it was recorded.
VerifiedAnswered == call.at = "verified" => call.answer \in {call.machine} \X (Boots \ Old)

\* The local duplicate clears only after two rounds in a row reached hosts
\* without meeting the clone; an outage never clears it.
ClearNeedsTwoRounds ==
    localDup /\ ~localDup' => clean' = 2 \/ counts'.starts # counts.starts

\* A configured address that keeps answering for one peer ends bound to it.
PeerIsFound ==
    \A a \in Configured: \A m \in Peers:
        <>[](world[a] \in {m} \X Boots) => <>[](bound[a] = m)

\* The directory leads only to machines it knows and calls only verified ones.
DirectoryIsTrue == FleetTypeOK /\ BoundIsKnown /\ VerifiedAnswered

\* A duplicate is declared, kept and cleared only on evidence, whatever step is
\* taken (at the start there is none).
DuplicateNeedsEvidence == [][DuplicateWasCloned' /\ ClearNeedsTwoRounds]_fleetVars

=============================================================================
