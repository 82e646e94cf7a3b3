---------------------------- MODULE FleetProofs ----------------------------
(***************************************************************************)
(* Proofs about what a machine knows of the others.  The directory         *)
(* (FleetDirectory) leads only to machines it knows, calls only verified   *)
(* ones and takes a machine for a duplicate only on evidence, for any      *)
(* addresses, peers, moves and restarts; what a caller is told of a task   *)
(* in the fleet (FleetInspection) is true.                                 *)
(***************************************************************************)
EXTENDS FleetDirectory, FleetInspection, FiniteSetTheorems, TLAPS

-----------------------------------------------------------------------------
(* The inductive invariant of the directory *)

HostAnswers == Daemons \cup {Silent, Refused}
Sweeps == UNION {[D -> HostAnswers]: D \in SUBSET Addresses}
MachineRecords == [Peers -> [boot: Boots \cup {0}, identity: {"Consistent", "Duplicate"}]]

RoundType == [at: {"idle", "first", "second", "deciding", "saving"}, todo: SUBSET Addresses,
              first: Sweeps, second: Sweeps, suspects: SUBSET Machines, dup: BOOLEAN]
CallType == [at: {"idle", "asking", "checking", "verified"}, machine: Machines,
             todo: SUBSET Addresses, answer: HostAnswers, from: Addresses \cup {"none"}]
DiskType == [explicit: SUBSET Addresses, bound: [Addresses -> Machines \cup {"unverified"}],
             known: MachineRecords]
HistoryType == [Peers -> [boot: Boots, times: Nat]]
CountsType == [shifts: Nat, reports: Nat, calls: Nat, starts: Nat, unsaved: Nat]

\* The types of all that the directory keeps
Typed ==
    /\ FleetTypeOK /\ round \in RoundType /\ call \in CallType /\ disk \in DiskType
    /\ restarted \in HistoryType /\ clean \in 0 .. 2 /\ counts \in CountsType

\* All answers of a sweep for m are from its last boot
LastBoot(sweep, m) ==
    \A x \in DOMAIN sweep, b \in Boots: sweep[x] = <<m, b>> => b = restarted[m].boot

\* A machine that was never cloned runs at most as its last boot
RunsAsLast == \A m \in Peers \ cloned: LastBoot(world, m)

\* A sweep that saw two boots of such a machine saw a restart: the first sweep
\* one that made the machine a suspect, the second sweep another
Sweeping ==
    /\ round.at = "first" => round.second = Idle.second
    /\ \A m \in Peers \ cloned:
          /\ round.at = "first" /\ restarted[m].times = 0 => LastBoot(round.first, m)
          /\ round.at \in {"second", "deciding"} /\ m \in round.suspects =>
                /\ restarted[m].times > 0
                /\ restarted[m].times = 1 => LastBoot(round.second, m)

\* The saved records need the same evidence, also those of an older directory
SavedEvidence ==
    \A m \in Peers: disk.known[m].identity = "Duplicate" => m \in cloned \/ restarted[m].times > 1

\* A round knows whether the local identity was doubted; the first clean round
\* was counted
LocalRecovery ==
    /\ missing = 1 => localDup /\ clean \in 1 .. 2
    /\ round.at \in {"first", "second", "deciding"} => round.dup = localDup
    /\ round.at \in {"second", "deciding"} /\ round.dup => Local \in round.suspects

FleetInv ==
    /\ Typed /\ BoundIsKnown /\ VerifiedAnswered
    /\ RunsAsLast /\ Sweeping /\ DuplicateWasCloned /\ SavedEvidence /\ LocalRecovery

-----------------------------------------------------------------------------
(* Answers and records *)

LEMMA DaemonParts ==
  ASSUME NEW d \in Daemons
  PROVE  d = <<d[1], d[2]>> /\ d[1] \in Machines /\ d[2] \in Boots
BY DEF Daemons

LEMMA NoDaemons ==
  /\ Silent \notin Daemons /\ Refused \notin Daemons
  /\ \A m \in Machines, b \in Boots: <<m, b>> \in Daemons
BY FleetAssumption DEF Silent, Refused, Daemons

\* An answer of machine m is its UUID with a boot
LEMMA OfMachine ==
  ASSUME NEW w, NEW m \in Machines, w \in {m} \X Boots
  PROVE  /\ w = <<m, w[2]>> /\ w[1] = m /\ w[2] \in Boots /\ w \in Daemons
BY DEF Daemons

LEMMA IdleTyped == Idle \in RoundType /\ NoCall \in CallType /\ Unknown \in [boot: Boots \cup {0}, identity: {"Consistent", "Duplicate"}]
<1>1. Idle.second \in Sweeps /\ Idle.first \in Sweeps
  <2>1. [a \in {} |-> Silent] \in [{} -> HostAnswers]
    OBVIOUS
  <2>2. {} \in SUBSET Addresses
    OBVIOUS
  <2> QED BY <2>1, <2>2 DEF Idle, Sweeps
<1>2. Idle \in RoundType
  BY <1>1 DEF Idle, RoundType
<1>3. NoCall \in CallType
  BY DEF NoCall, CallType, HostAnswers, Machines
<1> QED BY <1>2, <1>3 DEF Unknown

\* What is saved is typed, and the records are saved as they are
LEMMA SaveTyped ==
  ASSUME NEW s, NEW b \in [Addresses -> Machines \cup {"unverified", "self"}], NEW k \in MachineRecords
  PROVE  save(s, b, k) \in DiskType /\ save(s, b, k).known = k
<1> DEFINE kept == [a \in Addresses |-> IF b[a] \in Machines THEN b[a] ELSE "unverified"]
<1>1. kept \in [Addresses -> Machines \cup {"unverified"}]
  OBVIOUS
<1>2. {a \in Addresses: "explicit" \in s[a]} \in SUBSET Addresses
  OBVIOUS
<1>3. save(s, b, k) = [explicit |-> {a \in Addresses: "explicit" \in s[a]}, bound |-> kept, known |-> k]
  BY DEF save
<1> HIDE DEF kept
<1> QED BY <1>1, <1>2, <1>3 DEF DiskType

\* Recorded answers bind addresses only to machines that get a record, and keep
\* every identity status
LEMMA ProbeRecords ==
  ASSUME NEW D, NEW results \in [D -> HostAnswers],
         NEW b \in [Addresses -> Machines \cup {"unverified", "self"}], NEW k \in MachineRecords,
         \A a \in Addresses: b[a] \in Peers => k[b[a]].boot # 0
  PROVE  /\ Bindings(results, b) \in [Addresses -> Machines \cup {"unverified", "self"}]
         /\ Records(results, k) \in MachineRecords
         /\ \A m \in Peers: Records(results, k)[m].identity = k[m].identity
         /\ \A a \in Addresses: Bindings(results, b)[a] \in Peers =>
                Records(results, k)[Bindings(results, b)[a]].boot # 0
<1> DEFINE Heard(m) == \E a \in DOMAIN results: results[a] \in {m} \X Boots
           BootOf(m) == results[CHOOSE x \in DOMAIN results: results[x] \in {m} \X Boots][2]
<1>1. \A m \in Peers: Heard(m) => BootOf(m) \in Boots
  <2> SUFFICES ASSUME NEW m \in Peers, Heard(m) PROVE BootOf(m) \in Boots
    OBVIOUS
  <2> DEFINE x == CHOOSE x \in DOMAIN results: results[x] \in {m} \X Boots
  <2>1. results[x] \in {m} \X Boots
    OBVIOUS
  <2> QED BY <2>1, OfMachine DEF Machines
<1>2. \A m \in Peers: Records(results, k)[m] = IF Heard(m) THEN [k[m] EXCEPT !.boot = BootOf(m)] ELSE k[m]
  BY DEF Records
<1>3. DOMAIN Records(results, k) = Peers /\ Records(results, k) = [m \in Peers |-> Records(results, k)[m]]
  BY DEF Records
<1> HIDE DEF Heard, BootOf
<1>4. \A m \in Peers: k[m] \in [boot: Boots \cup {0}, identity: {"Consistent", "Duplicate"}]
  BY DEF MachineRecords
<1>5. \A m \in Peers: /\ Records(results, k)[m] \in [boot: Boots \cup {0}, identity: {"Consistent", "Duplicate"}]
                      /\ Records(results, k)[m].identity = k[m].identity
                      /\ Heard(m) => Records(results, k)[m].boot \in Boots
                      /\ ~Heard(m) => Records(results, k)[m].boot = k[m].boot
  <2> SUFFICES ASSUME NEW m \in Peers
               PROVE  /\ Records(results, k)[m] \in [boot: Boots \cup {0}, identity: {"Consistent", "Duplicate"}]
                      /\ Records(results, k)[m].identity = k[m].identity
                      /\ Heard(m) => Records(results, k)[m].boot \in Boots
                      /\ ~Heard(m) => Records(results, k)[m].boot = k[m].boot
    OBVIOUS
  <2>1. CASE Heard(m)
    <3>1. PICK c \in Boots: c = BootOf(m)
      BY <1>1, <2>1
    <3>2. Records(results, k)[m] = [k[m] EXCEPT !.boot = c]
      BY <1>2, <2>1, <3>1
    <3> QED BY <1>4, <2>1, <3>2
  <2>2. CASE ~Heard(m)
    BY <1>2, <1>4, <2>2
  <2> QED BY <2>1, <2>2
<1>6. Records(results, k) \in MachineRecords
  BY <1>3, <1>5 DEF MachineRecords
<1>7. \A a \in Addresses: Bindings(results, b)[a] = IF a \in DOMAIN results /\ results[a] \in Daemons
                             THEN IF results[a] = Self THEN "self" ELSE results[a][1] ELSE b[a]
  BY DEF Bindings, Answering
<1>8. DOMAIN Bindings(results, b) = Addresses /\ Bindings(results, b) = [a \in Addresses |-> Bindings(results, b)[a]]
  BY DEF Bindings
<1>9. \A a \in Addresses: Bindings(results, b)[a] \in Machines \cup {"unverified", "self"}
  BY <1>7, DaemonParts
<1>10. ASSUME NEW a \in Addresses, Bindings(results, b)[a] \in Peers
       PROVE  Records(results, k)[Bindings(results, b)[a]].boot # 0
  <2>1. CASE a \in DOMAIN results /\ results[a] \in Daemons
    <3>1. Bindings(results, b)[a] = results[a][1]
      BY <1>7, <1>10, <2>1, FleetAssumption
    <3>2. results[a] \in {results[a][1]} \X Boots
      BY <2>1, DaemonParts
    <3>3. Heard(results[a][1])
      BY <2>1, <3>2 DEF Heard
    <3> QED BY <1>5, <1>10, <3>1, <3>3, FleetAssumption
  <2>2. CASE ~(a \in DOMAIN results /\ results[a] \in Daemons)
    <3>1. Bindings(results, b)[a] = b[a]
      BY <1>7, <2>2
    <3>2. k[b[a]].boot # 0
      BY <1>10, <3>1
    <3> QED BY <1>5, <1>10, <3>1, <3>2, FleetAssumption
  <2> QED BY <2>1, <2>2
<1> QED BY <1>5, <1>6, <1>8, <1>9, <1>10

\* A sweep that saw one boot of a machine does not make it a duplicate
LEMMA OneBoot ==
  ASSUME NEW D, NEW sweep \in [D -> HostAnswers], NEW m \in Peers, LastBoot(sweep, m)
  PROVE  ~(Cardinality(BootsOf(sweep, m)) > 1)
<1> DEFINE c == restarted[m].boot
<1>1. BootsOf(sweep, m) \subseteq {c}
  <2> SUFFICES ASSUME NEW x \in DOMAIN sweep, sweep[x] \in {m} \X Boots PROVE sweep[x][2] = c
    BY DEF BootsOf
  <2>1. sweep[x] = <<m, sweep[x][2]>> /\ sweep[x][2] \in Boots
    BY OfMachine DEF Machines
  <2> QED BY <2>1 DEF LastBoot
<1>2. IsFiniteSet({c}) /\ Cardinality({c}) = 1
  BY FS_Singleton
<1> HIDE DEF c
<1>3. Cardinality(BootsOf(sweep, m)) <= 1 /\ IsFiniteSet(BootsOf(sweep, m))
  BY <1>1, <1>2, FS_Subset
<1>4. Cardinality(BootsOf(sweep, m)) \in Nat
  BY <1>3, FS_CardinalityType
<1> QED BY <1>3, <1>4

-----------------------------------------------------------------------------
(* The network moves *)

\* A machine that comes up keeps its boot, or has one restart more
LEMMA ComesUpKeeps ==
  ASSUME restarted \in HistoryType, NEW m \in Peers, NEW b \in Boots, ComesUp(m, b)
  PROVE  /\ restarted' \in HistoryType /\ restarted'[m].boot = b
         /\ \A n \in Peers: \/ restarted'[n] = restarted[n]
                            \/ n = m /\ restarted'[n].times = restarted[n].times + 1
<1>1. restarted[m] \in [boot: Boots, times: Nat]
  BY DEF HistoryType
<1>2. PICK t \in Nat: t = restarted[m].times
  BY <1>1
<1>3. CASE restarted[m].boot = b
  BY <1>3 DEF ComesUp
<1>4. CASE restarted[m].boot # b
  <2>1. restarted' = [restarted EXCEPT ![m] = [boot |-> b, times |-> t + 1]]
    BY <1>2, <1>4 DEF ComesUp
  <2>2. [boot |-> b, times |-> t + 1] \in [boot: Boots, times: Nat]
    BY <1>2
  <2>3. restarted' \in HistoryType
    BY <2>1, <2>2 DEF HistoryType
  <2>4. restarted'[m] = [boot |-> b, times |-> t + 1] /\ \A n \in Peers \ {m}: restarted'[n] = restarted[n]
    BY <2>1 DEF HistoryType
  <2> QED BY <1>2, <2>3, <2>4
<1> QED BY <1>3, <1>4

\* What the directory keeps is true also when a machine restarts or is cloned
LEMMA NetworkStep ==
  ASSUME FleetInv, world' \in [Addresses -> HostAnswers], restarted' \in HistoryType, RunsAsLast',
         counts' \in CountsType, cloned \subseteq cloned',
         \A n \in Peers: restarted'[n] = restarted[n] \/ restarted'[n].times = restarted[n].times + 1,
         UNCHANGED <<src, bound, known, localDup, missing, clean, round, call, disk>>
  PROVE  FleetInv'
<1> USE DEF FleetInv
<1>1. Typed'
  BY DEF Typed, FleetTypeOK, HostAnswers
<1>2. \A n \in Peers: restarted[n].times \in Nat
  BY DEF Typed, HistoryType
<1>3. Sweeping'
  <2>1. round.at = "first" => round.second = Idle.second
    BY DEF Sweeping
  <2> SUFFICES ASSUME NEW m \in Peers \ cloned'
               PROVE  /\ round.at = "first" /\ restarted'[m].times = 0 => LastBoot(round.first, m)'
                      /\ round.at \in {"second", "deciding"} /\ m \in round.suspects =>
                           /\ restarted'[m].times > 0
                           /\ restarted'[m].times = 1 => LastBoot(round.second, m)'
    BY <2>1 DEF Sweeping
  <2>2. m \in Peers \ cloned /\ m \in Machines
    BY DEF Machines
  <2>3. CASE restarted'[m] = restarted[m]
    BY <2>2, <2>3 DEF Sweeping, LastBoot
  <2>4. CASE restarted'[m].times = restarted[m].times + 1
    BY <1>2, <2>2, <2>4 DEF Sweeping
  <2> QED BY <2>2, <2>3, <2>4
<1>4. DuplicateWasCloned'
  BY <1>2 DEF DuplicateWasCloned, Machines
<1>5. SavedEvidence'
  BY <1>2 DEF SavedEvidence, Machines
<1>6. LocalRecovery' /\ BoundIsKnown' /\ VerifiedAnswered'
  BY DEF LocalRecovery, BoundIsKnown, VerifiedAnswered, IsKnown
<1> QED BY <1>1, <1>3, <1>4, <1>5, <1>6

\* A count goes up by one
LEMMA CountsUp ==
  ASSUME counts \in CountsType, NEW what \in {"shifts", "reports", "calls", "starts"}, NEW max, Counts(what, max)
  PROVE  counts' \in CountsType
<1>1. PICK n \in Nat: n = counts[what] + 1
  BY DEF CountsType
<1>2. counts' = [counts EXCEPT ![what] = n]
  BY <1>1 DEF Counts
<1> QED BY <1>2 DEF CountsType

LEMMA CommandsCounts ==
  ASSUME counts \in CountsType, NEW n \in Nat, Commands(n)
  PROVE  counts' \in CountsType
<1>1. PICK r \in Nat: r = counts.reports + n
  BY DEF CountsType
<1>2. PICK u \in Nat: u = counts.unsaved + 1
  BY DEF CountsType
<1>3. counts' = [counts EXCEPT !.reports = r, !.unsaved = u]
  BY <1>1, <1>2 DEF Commands
<1> QED BY <1>3 DEF CountsType

LEMMA AddressMovesKeeps ==
  ASSUME FleetInv, NEW x \in Addresses, NEW to \in HostAnswers, AddressMoves(x, to)
  PROVE  FleetInv'
<1>1. world \in [Addresses -> HostAnswers] /\ restarted \in HistoryType
  BY DEF FleetInv, Typed, FleetTypeOK, HostAnswers
<1>2. world' = [world EXCEPT ![x] = to] /\ world' \in [Addresses -> HostAnswers]
  BY <1>1 DEF AddressMoves
<1>3. cloned' = cloned \cup Cloned(world') /\ Counts("shifts", MaxShifts)
      /\ UNCHANGED <<src, bound, known, localDup, missing, clean, round, call, disk>>
  BY DEF AddressMoves
<1>4. counts' \in CountsType
  BY <1>3, CountsUp DEF FleetInv, Typed
<1>5. /\ to \in Peers \X Boots => to[1] \in Peers /\ to[2] \in Boots /\ to = <<to[1], to[2]>>
                                 /\ ComesUp(to[1], to[2])
      /\ to \notin Peers \X Boots => restarted' = restarted
  BY DEF AddressMoves
<1>6. /\ restarted' \in HistoryType /\ (to \in Peers \X Boots => restarted'[to[1]].boot = to[2])
      /\ \A n \in Peers: \/ restarted'[n] = restarted[n]
                         \/ to \in Peers \X Boots /\ n = to[1] /\ restarted'[n].times = restarted[n].times + 1
  BY <1>1, <1>5, ComesUpKeeps
<1>7. RunsAsLast'
  <2> SUFFICES ASSUME NEW m \in Peers \ cloned', NEW y \in Addresses, NEW b \in Boots, world'[y] = <<m, b>>
               PROVE  b = restarted'[m].boot
    BY <1>2 DEF RunsAsLast, LastBoot
  <2>1. m \in Machines /\ <<m, b>> \in Daemons
    BY NoDaemons DEF Machines
  <2>2. CASE y = x
    <3>1. to = <<m, b>>
      BY <1>1, <1>2, <2>2
    <3> QED BY <1>6, <2>1, <3>1
  <2>3. CASE y # x /\ restarted'[m] = restarted[m]
    <3>1. world[y] = <<m, b>> /\ m \in Peers \ cloned
      BY <1>1, <1>2, <1>3, <2>3
    <3> QED BY <1>1, <2>3, <3>1 DEF FleetInv, RunsAsLast, LastBoot
  <2>4. CASE y # x /\ to \in Peers \X Boots /\ m = to[1]
    <3>1. world'[x] = <<m, to[2]>> /\ to[2] \in Boots
      BY <1>1, <1>2, <1>5, <2>4
    <3>2. {<<m, to[2]>>, <<m, b>>} \subseteq Live(world')
      BY <2>1, <3>1, NoDaemons DEF Live
    <3>3. to[2] = b
      BY <1>3, <2>1, <3>1, <3>2 DEF Cloned
    <3> QED BY <1>6, <2>4, <3>3
  <2> QED BY <1>6, <2>1, <2>2, <2>3, <2>4
<1> QED BY <1>2, <1>3, <1>4, <1>6, <1>7, NetworkStep

LEMMA PeerRestartsKeeps ==
  ASSUME FleetInv, NEW m \in Peers, NEW b \in Boots, PeerRestarts(m, b)
  PROVE  FleetInv'
<1>1. world \in [Addresses -> HostAnswers] /\ restarted \in HistoryType /\ m \in Machines
  BY DEF FleetInv, Typed, FleetTypeOK, HostAnswers, Machines
<1>2. world' = [a \in Addresses |-> IF world[a] \in {m} \X Boots THEN <<m, b>> ELSE world[a]]
  BY DEF PeerRestarts
<1>3. world' \in [Addresses -> HostAnswers]
  BY <1>1, <1>2, NoDaemons DEF HostAnswers
<1>4. Counts("shifts", MaxShifts) /\ ComesUp(m, b)
      /\ UNCHANGED <<cloned, src, bound, known, localDup, missing, clean, round, call, disk>>
  BY DEF PeerRestarts
<1>5. counts' \in CountsType
  BY <1>4, CountsUp DEF FleetInv, Typed
<1>6. /\ restarted' \in HistoryType /\ restarted'[m].boot = b
      /\ \A n \in Peers: \/ restarted'[n] = restarted[n]
                         \/ n = m /\ restarted'[n].times = restarted[n].times + 1
  BY <1>1, <1>4, ComesUpKeeps
<1>7. RunsAsLast'
  <2> SUFFICES ASSUME NEW n \in Peers \ cloned, NEW y \in Addresses, NEW c \in Boots, world'[y] = <<n, c>>
               PROVE  c = restarted'[n].boot
    BY <1>2, <1>4 DEF RunsAsLast, LastBoot
  <2>1. CASE world[y] \in {m} \X Boots
    <3>1. <<n, c>> = <<m, b>>
      BY <1>2, <2>1
    <3> QED BY <1>6, <3>1
  <2>2. CASE world[y] \notin {m} \X Boots
    <3>1. world[y] = <<n, c>>
      BY <1>2, <2>2
    <3>2. n # m /\ n \in Machines
      BY <2>2, <3>1 DEF Machines
    <3> QED BY <1>1, <1>6, <3>1, <3>2 DEF FleetInv, RunsAsLast, LastBoot
  <2> QED BY <2>1, <2>2
<1> QED BY <1>3, <1>4, <1>5, <1>6, <1>7, NetworkStep

-----------------------------------------------------------------------------
(* Sources, and a machine that is forgotten *)

\* The present records are evidence enough to save
LEMMA SavingKeeps ==
  ASSUME FleetInv, Saves, UNCHANGED <<known, cloned, restarted>>
  PROVE  disk' \in DiskType /\ SavedEvidence'
<1>1. known \in MachineRecords /\ bound \in [Addresses -> Machines \cup {"unverified", "self"}]
  BY DEF FleetInv, Typed, FleetTypeOK, MachineRecords
<1>2. disk \in DiskType
  BY DEF FleetInv, Typed
<1>3. CASE disk' = disk
  BY <1>2, <1>3 DEF FleetInv, SavedEvidence
<1>4. CASE disk' = save(src, bound, known)
  <2>1. disk' \in DiskType /\ disk'.known = known
    BY <1>1, <1>4, SaveTyped
  <2> QED BY <2>1 DEF FleetInv, SavedEvidence, DuplicateWasCloned
<1> QED BY <1>3, <1>4 DEF Saves

LEMMA SourcesStep ==
  ASSUME FleetInv, counts' \in CountsType,
         src' \in [Addresses -> SUBSET {"configured", "explicit", "mdns", "tailscale"}],
         UNCHANGED <<world, cloned, restarted, bound, known, localDup, missing, clean, round, call>>,
         disk' = disk \/ Saves
  PROVE  FleetInv'
<1> USE DEF FleetInv
<1>2. RunsAsLast' /\ Sweeping' /\ DuplicateWasCloned' /\ LocalRecovery' /\ BoundIsKnown' /\ VerifiedAnswered'
  BY DEF RunsAsLast, Sweeping, LastBoot, DuplicateWasCloned, LocalRecovery, BoundIsKnown, VerifiedAnswered, IsKnown
<1>3. disk' \in DiskType /\ SavedEvidence'
  <2>1. CASE disk' = disk
    BY <2>1 DEF SavedEvidence, Typed
  <2>2. CASE Saves
    BY <2>2, SavingKeeps
  <2> QED BY <2>1, <2>2
<1>4. Typed'
  BY <1>3 DEF Typed, FleetTypeOK
<1> QED BY <1>2, <1>3, <1>4

LEMMA SourcesKeep ==
  ASSUME FleetInv, NEW x \in Addresses,
         \/ \E provider \in Providers: record_sighting(x, provider) \/ withdraw_sighting(x, provider)
         \/ add_explicit(x) \/ remove_explicit(x)
  PROVE  FleetInv'
<1>1. src \in [Addresses -> SUBSET {"configured", "explicit", "mdns", "tailscale"}] /\ counts \in CountsType
  BY DEF FleetInv, Typed, FleetTypeOK
<1>2. CASE \E provider \in Providers: record_sighting(x, provider)
  <2>1. PICK provider \in Providers: record_sighting(x, provider)
    BY <1>2
  <2>2. src' \in [Addresses -> SUBSET {"configured", "explicit", "mdns", "tailscale"}]
    BY <1>1, <2>1, FleetAssumption DEF record_sighting
  <2>3. counts' \in CountsType
    BY <1>1, <2>1, CountsUp DEF record_sighting
  <2> QED BY <2>1, <2>2, <2>3, SourcesStep DEF record_sighting
<1>3. CASE \E provider \in Providers: withdraw_sighting(x, provider)
  <2>1. PICK provider \in Providers: withdraw_sighting(x, provider)
    BY <1>3
  <2>2. src' \in [Addresses -> SUBSET {"configured", "explicit", "mdns", "tailscale"}]
    BY <1>1, <2>1 DEF withdraw_sighting
  <2> QED BY <1>1, <2>1, <2>2, SourcesStep DEF withdraw_sighting
<1>4. CASE add_explicit(x)
  <2>1. src' \in [Addresses -> SUBSET {"configured", "explicit", "mdns", "tailscale"}]
    BY <1>1, <1>4 DEF add_explicit
  <2>2. counts' \in CountsType
    BY <1>1, <1>4, CommandsCounts DEF add_explicit
  <2> QED BY <1>4, <2>1, <2>2, SourcesStep DEF add_explicit
<1>5. CASE remove_explicit(x)
  <2>1. src' \in [Addresses -> SUBSET {"configured", "explicit", "mdns", "tailscale"}]
    BY <1>1, <1>5 DEF remove_explicit
  <2>2. counts' \in CountsType
    BY <1>1, <1>5, CommandsCounts DEF remove_explicit
  <2> QED BY <1>5, <2>1, <2>2, SourcesStep DEF remove_explicit
<1> QED BY <1>2, <1>3, <1>4, <1>5

LEMMA CommandSavesKeeps ==
  ASSUME FleetInv, CommandSaves
  PROVE  FleetInv'
<1>1. src \in [Addresses -> SUBSET {"configured", "explicit", "mdns", "tailscale"}] /\ counts \in CountsType
  BY DEF FleetInv, Typed, FleetTypeOK
<1>2. PICK u \in Nat: u = counts.unsaved - 1
  BY <1>1 DEF CountsType, CommandSaves
<1>3. counts' = [counts EXCEPT !.unsaved = u]
  BY <1>2 DEF CommandSaves
<1>4. counts' \in CountsType
  BY <1>1, <1>3 DEF CountsType
<1> QED BY <1>1, <1>4, SourcesStep DEF CommandSaves

LEMMA ForgetKeeps ==
  ASSUME FleetInv, NEW m \in Peers, forget_machine(m)
  PROVE  FleetInv'
<1> USE DEF FleetInv
<1>1. known \in MachineRecords /\ bound \in [Addresses -> Machines \cup {"unverified", "self"}]
      /\ src \in [Addresses -> SUBSET {"configured", "explicit", "mdns", "tailscale"}]
  BY DEF Typed, FleetTypeOK, MachineRecords
<1>2. /\ known' = [known EXCEPT ![m] = Unknown]
      /\ bound' = [a \in Addresses |-> IF bound[a] = m THEN "unverified" ELSE bound[a]]
      /\ src' = [a \in Addresses |-> IF bound[a] = m THEN src[a] \ {"explicit"} ELSE src[a]]
      /\ Commands(1)
      /\ UNCHANGED <<world, cloned, restarted, localDup, missing, clean, round, call, disk>>
  BY DEF forget_machine, Forgets
<1>3. known' \in MachineRecords /\ bound' \in [Addresses -> Machines \cup {"unverified", "self"}]
      /\ src' \in [Addresses -> SUBSET {"configured", "explicit", "mdns", "tailscale"}]
  BY <1>1, <1>2, IdleTyped DEF MachineRecords
<1>4. counts' \in CountsType
  BY <1>2, CommandsCounts DEF Typed
<1>5. DuplicateWasCloned'
  <2>1. known'[m] = Unknown /\ \A n \in Peers \ {m}: known'[n] = known[n]
    BY <1>1, <1>2 DEF MachineRecords
  <2> QED BY <1>2, <2>1 DEF DuplicateWasCloned, Unknown
<1>6. BoundIsKnown'
  <2> SUFFICES ASSUME NEW a \in Addresses, bound'[a] \in Peers PROVE known'[bound'[a]].boot # 0
    BY DEF BoundIsKnown, IsKnown
  <2>1. bound'[a] = bound[a] /\ bound[a] # m
    BY <1>2, FleetAssumption
  <2>2. known'[bound[a]] = known[bound[a]]
    BY <1>1, <1>2, <2>1 DEF MachineRecords
  <2> QED BY <2>1, <2>2 DEF BoundIsKnown, IsKnown
<1>7. disk' \in DiskType /\ SavedEvidence'
  BY <1>2 DEF Typed, SavedEvidence
<1>8. Typed'
  BY <1>2, <1>3, <1>4, <1>7 DEF Typed, FleetTypeOK, MachineRecords
<1>9. RunsAsLast' /\ Sweeping' /\ LocalRecovery' /\ VerifiedAnswered'
  BY <1>2 DEF RunsAsLast, Sweeping, LastBoot, LocalRecovery, VerifiedAnswered
<1> QED BY <1>5, <1>6, <1>7, <1>8, <1>9

-----------------------------------------------------------------------------
(* Probe rounds *)

LEMMA RunRoundKeeps ==
  ASSUME FleetInv, run_round
  PROVE  FleetInv'
<1> USE DEF FleetInv
<1> DEFINE Held(m) == "Duplicate" \in {known[m].identity, disk.known[m].identity}
<1>1. /\ round.at = "idle"
      /\ round' = [Idle EXCEPT !.at = "first", !.todo = probe_candidates, !.dup = localDup]
      /\ restarted' = [m \in Peers |-> IF Held(m) THEN restarted[m] ELSE [restarted[m] EXCEPT !.times = 0]]
      /\ UNCHANGED <<world, cloned, src, bound, known, localDup, missing, clean, call, disk, counts>>
  BY DEF run_round
<1>2. /\ round'.at = "first" /\ round'.dup = localDup /\ round'.first = Idle.first /\ round'.second = Idle.second
      /\ round' \in RoundType
  <2>1. PICK T \in SUBSET Addresses: T = probe_candidates
    BY DEF probe_candidates
  <2>2. PICK e \in BOOLEAN: e = localDup
    BY DEF Typed, FleetTypeOK
  <2>3. PICK r \in RoundType: r = Idle
    BY IdleTyped
  <2>4. round' = [r EXCEPT !.at = "first", !.todo = T, !.dup = e]
    BY <1>1, <2>1, <2>2, <2>3
  <2> QED BY <2>2, <2>3, <2>4 DEF RoundType
<1>3. \A m \in Peers: restarted[m] \in [boot: Boots, times: Nat]
  BY DEF Typed, HistoryType
<1>4. \A m \in Peers: /\ restarted'[m] \in [boot: Boots, times: Nat]
                      /\ restarted'[m].boot = restarted[m].boot
                      /\ Held(m) => restarted'[m] = restarted[m]
  <2> SUFFICES ASSUME NEW m \in Peers
               PROVE  /\ restarted'[m] \in [boot: Boots, times: Nat]
                      /\ restarted'[m].boot = restarted[m].boot
                      /\ Held(m) => restarted'[m] = restarted[m]
    OBVIOUS
  <2>1. restarted'[m] = IF Held(m) THEN restarted[m] ELSE [restarted[m] EXCEPT !.times = 0]
    BY <1>1
  <2> QED BY <1>3, <2>1
<1>5. restarted' \in HistoryType
  BY <1>1, <1>4 DEF HistoryType
<1>6. Typed'
  BY <1>1, <1>2, <1>5 DEF Typed, FleetTypeOK, RoundType
<1>7. RunsAsLast'
  BY <1>1, <1>4 DEF RunsAsLast, LastBoot, Machines
<1>8. Sweeping'
  <2>1. DOMAIN round'.first = {}
    BY <1>2 DEF Idle
  <2> QED BY <1>2, <2>1 DEF Sweeping, LastBoot
<1>9. DuplicateWasCloned' /\ SavedEvidence'
  BY <1>1, <1>4 DEF DuplicateWasCloned, SavedEvidence, Machines
<1>10. LocalRecovery' /\ BoundIsKnown' /\ VerifiedAnswered'
  BY <1>1, <1>2 DEF LocalRecovery, BoundIsKnown, VerifiedAnswered, IsKnown
<1> QED BY <1>6, <1>7, <1>8, <1>9, <1>10

\* A sweep with one answer more
LEMMA SweepGrows ==
  ASSUME NEW f \in Sweeps, NEW x \in Addresses, NEW w \in HostAnswers
  PROVE  [y \in DOMAIN f \cup {x} |-> IF y = x THEN w ELSE f[y]] \in Sweeps
<1>1. PICK D \in SUBSET Addresses: f \in [D -> HostAnswers]
  BY DEF Sweeps
<1>2. D \cup {x} \in SUBSET Addresses /\ DOMAIN f = D
  BY <1>1
<1>3. [y \in D \cup {x} |-> IF y = x THEN w ELSE f[y]] \in [D \cup {x} -> HostAnswers]
  BY <1>1
<1> QED BY <1>2, <1>3 DEF Sweeps

LEMMA LastBootGrows ==
  ASSUME NEW f, NEW x \in Addresses, NEW m \in Peers \ cloned, RunsAsLast, LastBoot(f, m),
         world \in [Addresses -> HostAnswers]
  PROVE  LastBoot([y \in DOMAIN f \cup {x} |-> IF y = x THEN world[x] ELSE f[y]], m)
BY DEF LastBoot, RunsAsLast

LEMMA ProbeKeeps ==
  ASSUME FleetInv, NEW x \in Addresses, probe(x)
  PROVE  FleetInv'
<1> USE DEF FleetInv
<1> DEFINE Grown(f) == [y \in DOMAIN f \cup {x} |-> IF y = x THEN world[x] ELSE f[y]]
<1>1. /\ x \in round.todo
      /\ round' = IF round.at = "first" THEN [round EXCEPT !.todo = @ \ {x}, !.first = Grown(@)]
                  ELSE [round EXCEPT !.todo = @ \ {x}, !.second = Grown(@)]
      /\ UNCHANGED <<world, cloned, restarted, src, bound, known, localDup, missing, clean, call, disk, counts>>
  BY DEF probe
<1>2. round \in RoundType /\ world \in [Addresses -> HostAnswers]
  BY DEF Typed, FleetTypeOK, HostAnswers
<1>3. round.first \in Sweeps /\ round.second \in Sweeps /\ round.todo \in SUBSET Addresses
  BY <1>2 DEF RoundType
<1>4. PICK g \in Sweeps: g = Grown(round.first)
  BY <1>2, <1>3, SweepGrows
<1>5. PICK h \in Sweeps: h = Grown(round.second)
  BY <1>2, <1>3, SweepGrows
<1>6. \A m \in Peers \ cloned: /\ LastBoot(round.first, m) => LastBoot(g, m)
                               /\ LastBoot(round.second, m) => LastBoot(h, m)
  BY <1>2, <1>4, <1>5, LastBootGrows
<1>7. PICK T \in SUBSET Addresses: T = round.todo \ {x}
  BY <1>3
<1>8. /\ round' \in RoundType /\ round'.at = round.at /\ round'.dup = round.dup /\ round'.suspects = round.suspects
      /\ round.at = "first" => round'.first = g /\ round'.second = round.second
      /\ round.at # "first" => round'.second = h
  <2>1. round' = IF round.at = "first" THEN [round EXCEPT !.todo = T, !.first = g]
                 ELSE [round EXCEPT !.todo = T, !.second = h]
    BY <1>1, <1>4, <1>5, <1>7
  <2> HIDE DEF Grown
  <2> QED BY <1>2, <2>1 DEF RoundType
<1> HIDE DEF Grown
<1>9. Typed'
  BY <1>1, <1>8 DEF Typed, FleetTypeOK, RoundType
<1>10. Sweeping'
  <2>1. round'.at = "first" => round'.second = Idle.second
    BY <1>8 DEF Sweeping
  <2> SUFFICES ASSUME NEW m \in Peers \ cloned
               PROVE  /\ round'.at = "first" /\ restarted[m].times = 0 => LastBoot(round.first, m)'
                      /\ round'.at \in {"second", "deciding"} /\ m \in round'.suspects =>
                           /\ restarted[m].times > 0
                           /\ restarted[m].times = 1 => LastBoot(round.second, m)'
    BY <1>1, <2>1 DEF Sweeping
  <2>2. CASE round.at = "first"
    <3>1. restarted[m].times = 0 => LastBoot(g, m)
      BY <1>6, <2>2 DEF Sweeping
    <3> QED BY <1>1, <1>8, <2>2, <3>1 DEF LastBoot
  <2>3. CASE round.at \in {"second", "deciding"} /\ m \in round.suspects
    <3>1. /\ restarted[m].times > 0
          /\ restarted[m].times = 1 => LastBoot(h, m)
      BY <1>6, <2>3 DEF Sweeping
    <3> QED BY <1>1, <1>8, <2>3, <3>1 DEF LastBoot
  <2> QED BY <1>8, <2>2, <2>3
<1>11. RunsAsLast' /\ DuplicateWasCloned' /\ SavedEvidence' /\ LocalRecovery' /\ BoundIsKnown' /\ VerifiedAnswered'
  BY <1>1, <1>8 DEF RunsAsLast, LastBoot, DuplicateWasCloned, SavedEvidence, LocalRecovery, BoundIsKnown, VerifiedAnswered, IsKnown
<1> QED BY <1>9, <1>10, <1>11

\* What record_probe leaves, for the round and for a call
LEMMA RecordedKeeps ==
  ASSUME FleetInv, NEW D, NEW results \in [D -> HostAnswers], record_probe(results),
         UNCHANGED <<cloned, restarted, disk>>
  PROVE  /\ bound' \in [Addresses -> Machines \cup {"unverified", "self"}] /\ known' \in MachineRecords
         /\ BoundIsKnown' /\ DuplicateWasCloned' /\ SavedEvidence'
<1>1. known \in MachineRecords /\ bound \in [Addresses -> Machines \cup {"unverified", "self"}]
  BY DEF FleetInv, Typed, FleetTypeOK, MachineRecords
<1>2. \A a \in Addresses: bound[a] \in Peers => known[bound[a]].boot # 0
  BY DEF FleetInv, BoundIsKnown, IsKnown
<1>3. /\ bound' \in [Addresses -> Machines \cup {"unverified", "self"}] /\ known' \in MachineRecords
      /\ \A m \in Peers: known'[m].identity = known[m].identity
      /\ \A a \in Addresses: bound'[a] \in Peers => known'[bound'[a]].boot # 0
  BY <1>1, <1>2, ProbeRecords DEF record_probe
<1>4. BoundIsKnown'
  BY <1>3 DEF BoundIsKnown, IsKnown
<1>5. DuplicateWasCloned' /\ SavedEvidence'
  BY <1>3 DEF FleetInv, DuplicateWasCloned, SavedEvidence
<1> QED BY <1>3, <1>4, <1>5

LEMMA EndFirstSweepKeeps ==
  ASSUME FleetInv, EndFirstSweep
  PROVE  FleetInv'
<1> USE DEF FleetInv
<1> DEFINE them == suspects(round.first)
           again == IF round.dup THEN DOMAIN round.first
                    ELSE {a \in DOMAIN round.first: Answering(round.first[a]) /\ round.first[a][1] \in them}
<1>1. /\ round.at = "first" /\ record_probe(round.first)
      /\ round' = IF them = {} THEN [round EXCEPT !.at = "saving"]
                  ELSE [round EXCEPT !.at = "second", !.suspects = them, !.todo = again]
      /\ UNCHANGED <<world, cloned, restarted, src, localDup, missing, clean, call, disk, counts>>
  BY DEF EndFirstSweep
<1>2. round \in RoundType /\ round.first \in Sweeps
  BY DEF Typed, RoundType
<1>3. PICK D \in SUBSET Addresses: round.first \in [D -> HostAnswers]
  BY <1>2 DEF Sweeps
<1>4. them \in SUBSET Machines /\ (round.dup => Local \in them)
  BY DEF suspects, Machines
<1>5. again \in SUBSET Addresses
  BY <1>3
<1>6. \A m \in Peers \ cloned: m \in them => restarted[m].times > 0
  <2> SUFFICES ASSUME NEW m \in Peers \ cloned, m \in them, ~(restarted[m].times > 0) PROVE FALSE
    OBVIOUS
  <2>1. restarted[m].times = 0
    BY DEF Typed, HistoryType, Machines
  <2>2. LastBoot(round.first, m)
    BY <1>1, <2>1 DEF Sweeping
  <2>3. ~(Cardinality(BootsOf(round.first, m)) > 1)
    BY <1>3, <2>2, OneBoot
  <2>4. known[m].identity = "Duplicate"
    BY <2>3, FleetAssumption DEF suspects
  <2> QED BY <2>1, <2>4 DEF DuplicateWasCloned
<1> HIDE DEF them, again
<1>7. /\ round' \in RoundType /\ round'.dup = round.dup /\ round'.second = round.second
      /\ \/ round'.at = "saving"
         \/ round'.at = "second" /\ round'.suspects = them
  BY <1>1, <1>2, <1>4, <1>5 DEF RoundType
<1>8. /\ bound' \in [Addresses -> Machines \cup {"unverified", "self"}] /\ known' \in MachineRecords
      /\ BoundIsKnown' /\ DuplicateWasCloned' /\ SavedEvidence'
  BY <1>1, <1>3, RecordedKeeps
<1>9. Typed'
  BY <1>1, <1>7, <1>8 DEF Typed, FleetTypeOK, RoundType, MachineRecords
<1>10. Sweeping'
  <2>1. DOMAIN round'.second = {}
    BY <1>1, <1>7 DEF Sweeping, Idle
  <2> QED BY <1>1, <1>6, <1>7, <2>1 DEF Sweeping, LastBoot
<1>11. RunsAsLast' /\ LocalRecovery' /\ VerifiedAnswered'
  BY <1>1, <1>4, <1>7 DEF RunsAsLast, LastBoot, LocalRecovery, VerifiedAnswered
<1> QED BY <1>8, <1>9, <1>10, <1>11

LEMMA EndSecondSweepKeeps ==
  ASSUME FleetInv, EndSecondSweep
  PROVE  FleetInv'
<1> USE DEF FleetInv
<1>1. /\ round.at = "second" /\ record_probe(round.second) /\ round' = [round EXCEPT !.at = "deciding"]
      /\ UNCHANGED <<world, cloned, restarted, src, localDup, missing, clean, call, disk, counts>>
  BY DEF EndSecondSweep
<1>2. round \in RoundType /\ round.second \in Sweeps
  BY DEF Typed, RoundType
<1>3. PICK D \in SUBSET Addresses: round.second \in [D -> HostAnswers]
  BY <1>2 DEF Sweeps
<1>4. /\ round' \in RoundType /\ round'.at = "deciding" /\ round'.dup = round.dup
      /\ round'.second = round.second /\ round'.suspects = round.suspects
  BY <1>1, <1>2 DEF RoundType
<1>5. /\ bound' \in [Addresses -> Machines \cup {"unverified", "self"}] /\ known' \in MachineRecords
      /\ BoundIsKnown' /\ DuplicateWasCloned' /\ SavedEvidence'
  BY <1>1, <1>3, RecordedKeeps
<1>6. Typed'
  BY <1>1, <1>4, <1>5 DEF Typed, FleetTypeOK, RoundType, MachineRecords
<1>7. Sweeping'
  BY <1>1, <1>4 DEF Sweeping, LastBoot
<1>8. RunsAsLast' /\ LocalRecovery' /\ VerifiedAnswered'
  BY <1>1, <1>4 DEF RunsAsLast, LastBoot, LocalRecovery, VerifiedAnswered
<1> QED BY <1>5, <1>6, <1>7, <1>8

\* The verdict marks only suspects of which the second sweep saw two boots
LEMMA DecideKeeps ==
  ASSUME FleetInv, decide
  PROVE  FleetInv'
<1> USE DEF FleetInv
<1> DEFINE Judged(m) == m \in round.suspects /\ IsKnown(m) /\ confirm(m) # "Inconclusive"
<1>1. /\ round.at = "deciding" /\ apply_local /\ round' = [round EXCEPT !.at = "saving"]
      /\ known' = [m \in Peers |-> IF Judged(m) THEN [known[m] EXCEPT !.identity = confirm(m)] ELSE known[m]]
      /\ clean' = IF (\A s \in {round.first, round.second}: reached_a_host(s) /\ ForeignBoots(s) = {}) /\ round.dup
                  THEN IF clean = 2 THEN 2 ELSE clean + 1 ELSE 0
      /\ UNCHANGED <<world, cloned, restarted, src, bound, call, disk, counts>>
  BY DEF decide, apply_verdict
<1>2. round \in RoundType /\ round.second \in Sweeps /\ known \in MachineRecords /\ clean \in 0 .. 2 /\ missing \in 0 .. 1
      /\ localDup \in BOOLEAN
  BY DEF Typed, RoundType, FleetTypeOK, MachineRecords
<1>3. round' \in RoundType /\ round'.at = "saving"
  BY <1>1, <1>2 DEF RoundType
<1>4. \A m \in Peers: Judged(m) => /\ confirm(m) \in {"Consistent", "Duplicate"}
                                   /\ confirm(m) = "Duplicate" => m \in cloned \/ restarted[m].times > 1
  <2> SUFFICES ASSUME NEW m \in Peers, Judged(m)
               PROVE  /\ confirm(m) \in {"Consistent", "Duplicate"}
                      /\ confirm(m) = "Duplicate" => m \in cloned \/ restarted[m].times > 1
    OBVIOUS
  <2>1. confirm(m) \in {"Consistent", "Duplicate"}
    BY DEF confirm
  <2>2. ASSUME confirm(m) = "Duplicate", m \notin cloned PROVE restarted[m].times > 1
    <3>1. Cardinality(BootsOf(round.second, m)) > 1
      BY <2>2 DEF confirm
    <3>2. PICK D \in SUBSET Addresses: round.second \in [D -> HostAnswers]
      BY <1>2 DEF Sweeps
    <3>3. ~LastBoot(round.second, m)
      BY <3>1, <3>2, OneBoot
    <3>4. restarted[m].times > 0 /\ restarted[m].times # 1
      BY <1>1, <2>2, <3>3 DEF Sweeping
    <3>5. restarted[m].times \in Nat
      BY DEF Typed, HistoryType, Machines
    <3> QED BY <3>4, <3>5
  <2> QED BY <2>1, <2>2
<1>5. \A m \in Peers: /\ known'[m] \in [boot: Boots \cup {0}, identity: {"Consistent", "Duplicate"}]
                      /\ known'[m].boot = known[m].boot
                      /\ known'[m].identity = "Duplicate" => m \in cloned \/ restarted[m].times > 1
  <2> SUFFICES ASSUME NEW m \in Peers
               PROVE  /\ known'[m] \in [boot: Boots \cup {0}, identity: {"Consistent", "Duplicate"}]
                      /\ known'[m].boot = known[m].boot
                      /\ known'[m].identity = "Duplicate" => m \in cloned \/ restarted[m].times > 1
    OBVIOUS
  <2>1. known[m] \in [boot: Boots \cup {0}, identity: {"Consistent", "Duplicate"}]
    BY <1>2 DEF MachineRecords
  <2>2. CASE Judged(m)
    <3>1. PICK v \in {"Consistent", "Duplicate"}: v = confirm(m)
      BY <1>4, <2>2
    <3>2. known'[m] = [known[m] EXCEPT !.identity = v]
      BY <1>1, <2>2, <3>1
    <3>3. v = "Duplicate" => m \in cloned \/ restarted[m].times > 1
      BY <1>4, <2>2, <3>1
    <3> HIDE DEF Judged
    <3> QED BY <2>1, <3>2, <3>3
  <2>3. CASE ~Judged(m)
    <3>1. known'[m] = known[m]
      BY <1>1, <2>3
    <3> QED BY <2>1, <3>1 DEF DuplicateWasCloned
  <2> QED BY <2>2, <2>3
<1> HIDE DEF Judged
<1>6. known' \in MachineRecords
  BY <1>1, <1>5 DEF MachineRecords
<1>7. DuplicateWasCloned'
  BY <1>1, <1>5 DEF DuplicateWasCloned
<1>8. SavedEvidence'
  BY <1>1, <1>3 DEF SavedEvidence
<1>9. BoundIsKnown'
  BY <1>1, <1>5 DEF BoundIsKnown, IsKnown
<1>10. /\ localDup' \in BOOLEAN /\ missing' \in 0 .. 1 /\ clean' \in 0 .. 2
       /\ missing' = 1 => localDup' /\ clean' \in 1 .. 2
  <2>1. round.dup = localDup /\ (round.dup => Local \in round.suspects) /\ (missing = 1 => localDup /\ clean \in 1 .. 2)
    BY <1>1 DEF LocalRecovery
  <2>2. clean' \in 0 .. 2
    BY <1>1, <1>2
  <2>3. localDup' \in BOOLEAN /\ missing' \in 0 .. 1
    <3>1. localDup' = localDup \/ localDup' = TRUE \/ localDup' = FALSE
      BY <1>1, Zenon DEF apply_local
    <3>2. missing' = missing \/ missing' = 0 \/ missing' = 1
      BY <1>1, Zenon DEF apply_local
    <3>3. localDup' \in BOOLEAN
      BY <1>2, <3>1, Zenon
    <3>4. missing' \in 0 .. 1
      BY <1>2, <3>2
    <3> QED BY <3>3, <3>4
  <2>4. ASSUME missing' = 1 PROVE localDup' /\ clean' \in 1 .. 2
    <3>1. round.dup /\ AbsentClone(round.first, round.second) /\ localDup' = localDup
      BY <1>1, <2>1, <2>4 DEF apply_local
    <3>2. \A s \in {round.first, round.second}: reached_a_host(s) /\ ForeignBoots(s) = {}
      BY <3>1 DEF AbsentClone
    <3>3. clean' = IF clean = 2 THEN 2 ELSE clean + 1
      BY <1>1, <3>1, <3>2
    <3>4. localDup'
      BY <2>1, <3>1, Zenon
    <3>5. clean' \in 1 .. 2
      BY <1>2, <3>3
    <3> QED BY <3>4, <3>5
  <2> QED BY <2>2, <2>3, <2>4
<1>11. LocalRecovery'
  BY <1>3, <1>10 DEF LocalRecovery
<1>12. Typed'
  BY <1>1, <1>3, <1>6, <1>10 DEF Typed, FleetTypeOK, RoundType, MachineRecords
<1>13. Sweeping' /\ RunsAsLast' /\ VerifiedAnswered'
  BY <1>1, <1>3 DEF Sweeping, RunsAsLast, LastBoot, VerifiedAnswered
<1> QED BY <1>7, <1>8, <1>9, <1>11, <1>12, <1>13

LEMMA PersistKeeps ==
  ASSUME FleetInv, persist
  PROVE  FleetInv'
<1> USE DEF FleetInv
<1>1. /\ Saves /\ round' = Idle
      /\ UNCHANGED <<world, cloned, restarted, src, bound, known, localDup, missing, clean, call, counts>>
  BY DEF persist
<1>3. DuplicateWasCloned'
  BY <1>1 DEF DuplicateWasCloned
<1>4. disk' \in DiskType /\ SavedEvidence'
  BY <1>1, SavingKeeps
<1>5. round' \in RoundType /\ round'.at = "idle" /\ round'.todo = {}
  BY <1>1, IdleTyped DEF Idle
<1>6. Typed'
  BY <1>1, <1>4, <1>5 DEF Typed, FleetTypeOK
<1>7. Sweeping' /\ RunsAsLast' /\ LocalRecovery' /\ BoundIsKnown' /\ VerifiedAnswered'
  BY <1>1, <1>5 DEF Sweeping, RunsAsLast, LastBoot, LocalRecovery, BoundIsKnown, IsKnown, VerifiedAnswered
<1> QED BY <1>3, <1>4, <1>6, <1>7

-----------------------------------------------------------------------------
(* Calls, and a restart of this daemon *)

\* A step of a call alone
LEMMA CallStep ==
  ASSUME FleetInv, counts' \in CountsType, call' \in CallType, VerifiedAnswered',
         UNCHANGED <<world, cloned, restarted, src, bound, known, localDup, missing, clean, round, disk>>
  PROVE  FleetInv'
<1>1. Typed'
  BY DEF FleetInv, Typed, FleetTypeOK, CallType
<1>2. RunsAsLast' /\ Sweeping' /\ DuplicateWasCloned' /\ SavedEvidence' /\ LocalRecovery' /\ BoundIsKnown'
  BY DEF FleetInv, RunsAsLast, Sweeping, LastBoot, DuplicateWasCloned, SavedEvidence, LocalRecovery, BoundIsKnown, IsKnown
<1> QED BY <1>1, <1>2 DEF FleetInv

LEMMA CallsKeep ==
  ASSUME FleetInv, UseDestination \/ (\E m \in Peers: route(m)) \/ (\E x \in Addresses: ConnectAsks(x))
  PROVE  FleetInv'
<1>1. counts \in CountsType /\ call \in CallType /\ world \in [Addresses -> HostAnswers]
  BY DEF FleetInv, Typed, FleetTypeOK, HostAnswers
<1>2. CASE UseDestination
  <2>1. call' \in CallType /\ call'.at = "idle"
    BY <1>2, IdleTyped DEF UseDestination, NoCall
  <2> QED BY <1>1, <1>2, <2>1, CallStep DEF UseDestination, VerifiedAnswered
<1>3. ASSUME NEW m \in Peers, route(m) PROVE FleetInv'
  <2>1. PICK T \in SUBSET Addresses: T = RoutesTo(m)
    BY DEF RoutesTo
  <2>2. PICK c \in CallType: c = NoCall
    BY IdleTyped
  <2>3. call' = [c EXCEPT !.at = "asking", !.machine = m, !.todo = T]
    BY <1>3, <2>1, <2>2 DEF route
  <2>4. call' \in CallType /\ call'.at = "asking"
    BY <2>2, <2>3 DEF CallType, Machines
  <2>5. counts' \in CountsType
    BY <1>1, <1>3, CountsUp DEF route
  <2> QED BY <1>3, <2>4, <2>5, CallStep DEF route, VerifiedAnswered
<1>4. ASSUME NEW x \in Addresses, ConnectAsks(x) PROVE FleetInv'
  <2>1. PICK T \in SUBSET Addresses: T = call.todo \ {x}
    BY <1>1 DEF CallType
  <2>2. PICK w \in HostAnswers: w = world[x]
    BY <1>1
  <2>3. call' = [call EXCEPT !.at = "checking", !.todo = T, !.from = x, !.answer = w]
    BY <1>4, <2>1, <2>2 DEF ConnectAsks
  <2>4. call' \in CallType /\ call'.at = "checking"
    BY <1>1, <2>3 DEF CallType
  <2> QED BY <1>1, <1>4, <2>4, CallStep DEF ConnectAsks, VerifiedAnswered
<1> QED BY <1>2, <1>3, <1>4

LEMMA ConnectChecksKeeps ==
  ASSUME FleetInv, ConnectChecks
  PROVE  FleetInv'
<1> USE DEF FleetInv
<1> DEFINE results == [a \in {call.from} |-> call.answer]
<1>1. /\ call.at = "checking" /\ record_probe(results)
      /\ call' = IF check_probed(call.answer, call.machine) THEN [call EXCEPT !.at = "verified"]
                 ELSE IF call.todo # {} THEN [call EXCEPT !.at = "asking"] ELSE NoCall
      /\ UNCHANGED <<world, cloned, restarted, src, localDup, missing, clean, round, disk, counts>>
  BY DEF ConnectChecks
<1>2. call \in CallType /\ call.answer \in HostAnswers
  BY DEF Typed, CallType
<1>3. results \in [{call.from} -> HostAnswers]
  BY <1>2
<1> HIDE DEF results
<1>4. /\ bound' \in [Addresses -> Machines \cup {"unverified", "self"}] /\ known' \in MachineRecords
      /\ BoundIsKnown' /\ DuplicateWasCloned' /\ SavedEvidence'
  BY <1>1, <1>3, RecordedKeeps
<1>5. call' \in CallType /\ VerifiedAnswered'
  <2>1. CASE check_probed(call.answer, call.machine)
    <3>1. call.answer \in Daemons /\ call.answer[1] = call.machine /\ call.answer[2] \notin Old
      BY <2>1 DEF check_probed, Answering
    <3>2. call.answer \in {call.machine} \X (Boots \ Old)
      BY <3>1, DaemonParts
    <3>3. call' = [call EXCEPT !.at = "verified"]
      BY <1>1, <2>1
    <3>4. call' \in CallType /\ call'.answer = call.answer /\ call'.machine = call.machine
      BY <1>2, <3>3 DEF CallType
    <3> QED BY <3>2, <3>4 DEF VerifiedAnswered
  <2>2. CASE ~check_probed(call.answer, call.machine)
    <3>1. call' \in CallType /\ call'.at # "verified"
      BY <1>1, <1>2, <2>2, IdleTyped DEF CallType, NoCall
    <3> QED BY <3>1 DEF VerifiedAnswered
  <2> QED BY <2>1, <2>2
<1>6. Typed'
  BY <1>1, <1>4, <1>5 DEF Typed, FleetTypeOK, MachineRecords, CallType
<1>7. RunsAsLast' /\ Sweeping' /\ LocalRecovery'
  BY <1>1 DEF RunsAsLast, Sweeping, LastBoot, LocalRecovery
<1> QED BY <1>4, <1>5, <1>6, <1>7

LEMMA LoadKeeps ==
  ASSUME FleetInv, load
  PROVE  FleetInv'
<1> USE DEF FleetInv
<1>1. /\ known' = disk.known /\ bound' = [a \in Addresses |-> Restored(a)]
      /\ src' = set_configured([a \in Addresses |-> IF a \in disk.explicit THEN {"explicit"} ELSE {}])
      /\ localDup' = FALSE /\ missing' = 0 /\ clean' = 0 /\ round' = Idle /\ call' = NoCall
      /\ counts' = [counts EXCEPT !.starts = @ + 1, !.unsaved = 0]
      /\ UNCHANGED <<world, cloned, restarted, disk>>
  BY DEF load
<1>2. disk \in DiskType /\ disk.known \in MachineRecords
  BY DEF Typed, DiskType
<1>3. counts' \in CountsType
  <2>1. counts \in CountsType
    BY DEF Typed
  <2>2. PICK n \in Nat: n = counts.starts + 1
    BY <2>1 DEF CountsType
  <2>3. counts' = [counts EXCEPT !.starts = n, !.unsaved = 0]
    BY <1>1, <2>2
  <2> QED BY <2>1, <2>3 DEF CountsType
<1>4. bound' \in [Addresses -> Machines \cup {"unverified", "self"}]
  BY <1>1 DEF Restored, Machines
<1>5. src' \in [Addresses -> SUBSET {"configured", "explicit", "mdns", "tailscale"}]
  BY <1>1 DEF set_configured
<1>6. round' \in RoundType /\ round'.at = "idle" /\ round'.todo = {}
  BY <1>1, IdleTyped DEF Idle
<1>7. call' \in CallType /\ call'.at = "idle" /\ call'.todo = {}
  BY <1>1, IdleTyped DEF NoCall
<1>8. Typed'
  <2>1. localDup' \in BOOLEAN
    BY <1>1, Zenon
  <2>3. missing' \in 0 .. 1 /\ clean' \in 0 .. 2
    BY <1>1, SMT
  <2>2. world' \in [Addresses -> Daemons \cup {Silent, Refused}] /\ restarted' \in HistoryType /\ disk' \in DiskType
        /\ known' \in [Peers -> [boot: Boots \cup {0}, identity: {"Consistent", "Duplicate"}]]
    BY <1>1, <1>2 DEF Typed, FleetTypeOK, MachineRecords
  <2> QED BY <1>3, <1>4, <1>5, <1>6, <1>7, <2>1, <2>2, <2>3 DEF Typed, FleetTypeOK
<1>9. BoundIsKnown'
  BY <1>1, FleetAssumption DEF BoundIsKnown, IsKnown, Restored
<1>10. DuplicateWasCloned' /\ SavedEvidence'
  BY <1>1 DEF DuplicateWasCloned, SavedEvidence
<1>11. VerifiedAnswered' /\ RunsAsLast' /\ Sweeping' /\ LocalRecovery'
  BY <1>1, <1>6, <1>7 DEF VerifiedAnswered, RunsAsLast, Sweeping, LastBoot, LocalRecovery
<1> QED BY <1>8, <1>9, <1>10, <1>11

LEMMA FleetInitial == FleetInit => FleetInv
<1> SUFFICES ASSUME FleetInit PROVE FleetInv
  OBVIOUS
<1> USE DEF FleetInit
<1>1. world \in [Addresses -> HostAnswers] /\ \A a \in Addresses: world[a] \in Peers \X {1}
  BY FleetAssumption DEF HostAnswers, Daemons, Machines
<1>2. restarted \in HistoryType /\ \A m \in Peers: restarted[m].boot = 1
  BY FleetAssumption DEF HistoryType
<1>3. known \in MachineRecords /\ \A m \in Peers: known[m].identity = "Consistent"
  BY IdleTyped DEF MachineRecords, Unknown
<1>4. bound \in [Addresses -> Machines \cup {"unverified", "self"}]
  OBVIOUS
<1>5. disk \in DiskType /\ disk.known = known
  BY <1>3, <1>4, SaveTyped
<1>6. src \in [Addresses -> SUBSET {"configured", "explicit", "mdns", "tailscale"}]
  OBVIOUS
<1>7. round \in RoundType /\ round.at = "idle" /\ round.todo = {}
  BY IdleTyped DEF Idle
<1>8. call \in CallType /\ call.at = "idle" /\ call.todo = {}
  BY IdleTyped DEF NoCall
<1>9. counts \in CountsType
  BY DEF CountsType
<1>10. Typed
  <2>1. localDup \in BOOLEAN
    BY Zenon
  <2>3. missing \in 0 .. 1 /\ clean \in 0 .. 2
    BY SMT
  <2>2. world \in [Addresses -> Daemons \cup {Silent, Refused}]
        /\ known \in [Peers -> [boot: Boots \cup {0}, identity: {"Consistent", "Duplicate"}]]
    BY <1>1, <1>3 DEF HostAnswers, MachineRecords
  <2> HIDE DEF FleetInit
  <2> QED BY <1>2, <1>4, <1>5, <1>6, <1>7, <1>8, <1>9, <2>1, <2>2, <2>3 DEF Typed, FleetTypeOK
<1>11. RunsAsLast
  BY <1>1, <1>2 DEF RunsAsLast, LastBoot, Machines
<1>12. BoundIsKnown
  BY FleetAssumption DEF BoundIsKnown
<1>13. DuplicateWasCloned /\ SavedEvidence
  BY <1>3, <1>5 DEF DuplicateWasCloned, SavedEvidence
<1>14. VerifiedAnswered /\ Sweeping /\ LocalRecovery
  BY <1>7, <1>8 DEF VerifiedAnswered, Sweeping, LocalRecovery
<1> QED BY <1>10, <1>11, <1>12, <1>13, <1>14 DEF FleetInv

LEMMA FleetStep == FleetInv /\ [FleetNext]_fleetVars => FleetInv'
<1> SUFFICES ASSUME FleetInv, [FleetNext]_fleetVars PROVE FleetInv'
  OBVIOUS
<1>1. CASE RoundStep
  BY <1>1, RunRoundKeeps, ProbeKeeps, EndFirstSweepKeeps, EndSecondSweepKeeps, DecideKeeps, PersistKeeps DEF RoundStep
<1>2. CASE load \/ CommandSaves \/ ConnectChecks \/ UseDestination
  BY <1>2, LoadKeeps, CommandSavesKeeps, ConnectChecksKeeps, CallsKeep
<1>3. ASSUME NEW a \in Addresses,
             \/ \E to \in Daemons \cup {Silent, Refused}: AddressMoves(a, to)
             \/ \E provider \in Providers: record_sighting(a, provider) \/ withdraw_sighting(a, provider)
             \/ add_explicit(a) \/ remove_explicit(a) \/ ConnectAsks(a)
      PROVE  FleetInv'
  BY <1>3, AddressMovesKeeps, SourcesKeep, CallsKeep DEF HostAnswers
<1>4. ASSUME NEW m \in Peers, route(m) \/ forget_machine(m) \/ (\E b \in Boots: PeerRestarts(m, b))
      PROVE  FleetInv'
  BY <1>4, CallsKeep, ForgetKeeps, PeerRestartsKeeps
<1>5. CASE UNCHANGED fleetVars
  BY <1>5 DEF fleetVars, FleetInv, Typed, FleetTypeOK, BoundIsKnown, IsKnown, VerifiedAnswered, RunsAsLast, Sweeping,
       LastBoot, DuplicateWasCloned, SavedEvidence, LocalRecovery
<1> QED BY <1>1, <1>2, <1>3, <1>4, <1>5 DEF FleetNext

\* The invariant of the directory holds in every reachable state, for any
\* addresses, peers, boots and any number of moves, reports, calls and restarts
\* (fleet/directory.rs, fleet/identity.rs).
THEOREM FleetInvariance == FleetSpec => []FleetInv
BY FleetInitial, FleetStep, PTL DEF FleetSpec

\* The directory leads only to machines that it has a record of, and a call goes
\* only where the intended machine answered during this very call.
THEOREM DirectoryIsTrueCorrect == FleetSpec => []DirectoryIsTrue
<1>1. FleetInv => DirectoryIsTrue
  BY DEF FleetInv, Typed, DirectoryIsTrue
<1> QED BY <1>1, FleetInvariance, PTL

\* A local duplicate is cleared by the second clean round, or lost in a restart
LEMMA ClearingStep ==
  ASSUME FleetInv, FleetNext, localDup, ~localDup'
  PROVE  clean' = 2 \/ counts'.starts # counts.starts
<1>1. CASE decide
  <2>1. /\ round.dup = localDup /\ Local \in round.suspects /\ clean \in 0 .. 2
        /\ (missing = 1 => clean \in 1 .. 2)
    BY <1>1 DEF decide, FleetInv, Typed, LocalRecovery
  <2>2. missing = 1 /\ AbsentClone(round.first, round.second)
    BY <1>1, <2>1 DEF decide, apply_local
  <2>3. \A s \in {round.first, round.second}: reached_a_host(s) /\ ForeignBoots(s) = {}
    BY <2>2 DEF AbsentClone
  <2>4. clean' = IF clean = 2 THEN 2 ELSE clean + 1
    BY <1>1, <2>1, <2>3 DEF decide
  <2> QED BY <2>1, <2>2, <2>4
<1>2. CASE load
  <2>1. counts \in CountsType
    BY DEF FleetInv, Typed
  <2>2. PICK n \in Nat: n = counts.starts + 1
    BY <2>1 DEF CountsType
  <2>3. counts' = [counts EXCEPT !.starts = n, !.unsaved = 0]
    BY <1>2, <2>2 DEF load
  <2> QED BY <2>1, <2>2, <2>3 DEF CountsType
<1>3. CASE ~decide /\ ~load
  <2>1. localDup' = localDup
    BY <1>3 DEF FleetNext, RoundStep, run_round, probe, EndFirstSweep, EndSecondSweep, persist, ConnectChecks,
      UseDestination, AddressMoves, record_sighting, withdraw_sighting, add_explicit, remove_explicit, ConnectAsks,
      route, forget_machine, CommandSaves, PeerRestarts
  <2> QED BY <2>1
<1> QED BY <1>1, <1>2, <1>3

\* A machine is held for a duplicate, and this one is cleared of it, only on
\* evidence (confirm, apply_local): for any moves, restarts and forgets.
THEOREM DuplicateNeedsEvidenceCorrect == FleetSpec => DuplicateNeedsEvidence
<1>1. FleetInv => DuplicateWasCloned
  BY DEF FleetInv
<1>2. FleetInv /\ [FleetNext]_fleetVars => [ClearNeedsTwoRounds]_fleetVars
  BY ClearingStep DEF fleetVars, ClearNeedsTwoRounds
<1> QED BY <1>1, <1>2, FleetInvariance, PTL DEF FleetSpec, DuplicateNeedsEvidence

-----------------------------------------------------------------------------
(* The inductive invariant of inspection *)

AskKinds == {"none", "conflict", "not_found", "incomplete", "cached", "compact", "not_started", "unavailable",
             "no_thread", "terminal", "worker", "detail", "target", "held_on_origin", "thread", "no_route"}
AskStates == RowStates \cup Submissions \cup {"held"}
AskType == [what: {"none", "show", "log", "worker", "thread", "cancel"},
            at: {"idle", "unlaunched", "local", "own", "peers", "targets", "detail", "end"},
            answer: AskKinds, status: AskStates, before: RowStates]
CollectedType == [execution: [Holders -> RowStates], route: [Holders -> Submissions \cup {"none"}],
                  identity: [Holders -> IdentitySummary \cup {"none"}], learned: RowStates,
                  unchecked: SUBSET Holders]

InspectTyped ==
    /\ InspectTypeOK /\ ask \in AskType /\ collected \in CollectedType

\* The three records of the task, as far as its origin and its executor went
RecordsFit ==
    /\ submission \in {"waiting", "held_cancelled"} => identity = "none"
    /\ submission = "accepted" => identity \in Accepted
    /\ submission = "rejected" => identity = "rejected"
    /\ taskRow = "none" <=> identity \notin Accepted
    /\ identity = "over" <=> taskRow = "over"
    /\ learned = "over" => taskRow = "over"

\* A saved identity never changes, but that the state of an accepted one ends
Grows(old, new) ==
    /\ old = "rejected" => new = "rejected"
    /\ old = "live" => new \in Accepted
    /\ old = "over" => new = "over"

\* What was collected was true when it was read, and what is definite lasts
CollectedLasts ==
    /\ ask.at = "idle" => collected = Nothing
    /\ \A m \in Holders: /\ collected.route[m] # "none" => m = "origin"
                         /\ collected.execution[m] # "none" => m = "executor"
                         /\ collected.identity[m] # "none" => m = "executor"
    /\ collected.route["origin"] \in {"accepted", "rejected", "held_cancelled"} =>
          submission = collected.route["origin"]
    /\ Grows(collected.identity["executor"], identity)
    /\ collected.execution["executor"] # "none" => taskRow # "none"
    /\ collected.learned = "over" => taskRow = "over"
    /\ collected.route["origin"] = "waiting" => ask.before = "none"

\* While the machines are asked, the origin's route and the record of a task
\* that ran before the command are read, to be read, or failed to be read
Covered ==
    ask.at \in {"peers", "targets"} =>
        /\ reader = "origin" => collected.route["origin"] # "none"
        /\ "origin" \in listed => \/ <<"origin", "route">> \in reads \/ "origin" \in collected.unchecked
                                  \/ collected.route["origin"] # "none"
        /\ ask.before # "none" /\ reader = "executor" => collected.identity["executor"] # "none"
        /\ ask.before # "none" /\ "executor" \in listed =>
              \/ <<"executor", "execution">> \in reads \/ "executor" \in collected.unchecked
              \/ collected.execution["executor"] # "none"

\* The task never runs
NeverRuns == identity = "rejected" \/ submission = "held_cancelled"

\* The answer, once there is one, stays true
AnswerLasts ==
    /\ ask.at # "end" => ask.answer = "none" /\ ask.status = "none"
    /\ ask.at # "idle" => ask.what # "none"
    /\ ask.before # "none" => taskRow # "none"
    /\ ask.status = "over" => taskRow = "over" \/ NeverRuns
    /\ ask.answer = "not_started" /\ ask.status # "launching" =>
          ask.before = "none" /\ (ask.what = "cancel" => NeverRuns)

InspectInv ==
    /\ InspectTyped /\ RecordsFit /\ CollectedLasts /\ Covered /\ AnswerLasts
    /\ NoFalseConflict /\ NotFoundIsTrue

-----------------------------------------------------------------------------
(* The task moves on *)

\* Only the origin's route and the executor's records count
LEMMA TheRecords ==
  ASSUME InspectInv
  PROVE  /\ Routes = IF collected.route["origin"] # "none" THEN {"origin"} ELSE {}
         /\ Executions = IF collected.execution["executor"] # "none" THEN {"executor"} ELSE {}
         /\ Identified = IF collected.identity["executor"] # "none" THEN {"executor"} ELSE {}
         /\ Routes # {} => KnownRoute = collected.route["origin"]
<1>1. /\ Routes = IF collected.route["origin"] # "none" THEN {"origin"} ELSE {}
      /\ Executions = IF collected.execution["executor"] # "none" THEN {"executor"} ELSE {}
      /\ Identified = IF collected.identity["executor"] # "none" THEN {"executor"} ELSE {}
  BY DEF InspectInv, CollectedLasts, Routes, Executions, Identified, Holders
<1>2. ASSUME Routes # {} PROVE KnownRoute = collected.route["origin"]
  <2>1. Routes = {"origin"}
    BY <1>1, <1>2
  <2>2. (CHOOSE m \in Routes: TRUE) = "origin"
    BY <2>1
  <2> QED BY <2>2 DEF KnownRoute
<1> QED BY <1>1, <1>2

\* The records move only forward, and what was collected stays true
LEMMA TaskStepKeeps ==
  ASSUME InspectInv, TaskStep
  PROVE  InspectInv'
<1> USE DEF InspectInv
<1>1. UNCHANGED <<reader, listed, holdable, ask, reads, collected>>
  BY DEF TaskStep, worldVars
<1>2. /\ submission \in Submissions /\ identity \in IdentitySummary \cup {"none"}
      /\ taskRow \in RowStates /\ learned \in RowStates
  BY DEF InspectTyped, InspectTypeOK
<1>3. /\ submission' \in Submissions /\ identity' \in IdentitySummary \cup {"none"}
      /\ taskRow' \in RowStates /\ learned' \in RowStates /\ RecordsFit'
      /\ submission \in {"accepted", "rejected", "held_cancelled"} => submission' = submission
      /\ \A old \in IdentitySummary \cup {"none"}: Grows(old, identity) => Grows(old, identity')
      /\ identity = "rejected" => identity' = "rejected"
      /\ taskRow # "none" => taskRow' # "none"
      /\ taskRow = "over" => taskRow' = "over"
  <2> USE <1>2 DEF RecordsFit, Submissions, IdentitySummary, Accepted, Grows, RowStates
  <2>1. CASE Release \/ CancelHeld
    BY <2>1 DEF Release, CancelHeld
  <2>2. CASE Learn
    BY <2>2 DEF Learn
  <2>3. CASE RowEnds
    BY <2>3 DEF RowEnds
  <2>4. CASE \E verdict \in {"live", "rejected"}: Decide(verdict)
    <3>1. PICK verdict \in {"live", "rejected"}: Decide(verdict)
      BY <2>4
    <3> QED BY <3>1 DEF Decide
  <2> QED BY <2>1, <2>2, <2>3, <2>4 DEF TaskStep
<1>4. InspectTyped'
  BY <1>1, <1>3 DEF InspectTyped, InspectTypeOK
<1>5. CollectedLasts'
  <2>1. collected.identity["executor"] \in IdentitySummary \cup {"none"}
    BY DEF InspectTyped, CollectedType, Holders
  <2> QED BY <1>1, <1>3, <2>1 DEF CollectedLasts
<1>6. Covered' /\ NoFalseConflict' /\ NotFoundIsTrue'
  BY <1>1 DEF Covered, NoFalseConflict, NotFoundIsTrue
<1>7. AnswerLasts'
  BY <1>1, <1>3 DEF AnswerLasts, NeverRuns
<1> QED BY <1>3, <1>4, <1>5, <1>6, <1>7

-----------------------------------------------------------------------------
(* The command *)

\* An answer that is true of the task now
LEMMA AnswerKeeps ==
  ASSUME InspectInv, ask.at # "idle", NEW kind \in AskKinds, NEW st \in AskStates, Answer(kind, st),
         UNCHANGED <<reader, listed, holdable, submission, identity, taskRow, learned, reads, collected>>,
         kind = "conflict" => ask.what = "cancel" /\ "origin" \notin listed \cup {reader},
         kind = "not_found" => /\ "origin" \notin listed \cup {reader}
                               /\ "executor" \in listed \cup {reader} => ask.before = "none",
         st = "over" => taskRow = "over" \/ NeverRuns,
         kind = "not_started" /\ st # "launching" =>
           ask.before = "none" /\ (ask.what = "cancel" => NeverRuns)
  PROVE  InspectInv'
<1>1. ask \in AskType /\ ask' = [ask EXCEPT !.at = "end", !.answer = kind, !.status = st]
  BY DEF InspectInv, InspectTyped, Answer
<1>2. /\ ask' \in AskType /\ ask'.at = "end" /\ ask'.answer = kind /\ ask'.status = st
      /\ ask'.what = ask.what /\ ask'.before = ask.before
  BY <1>1 DEF AskType
<1>3. InspectTyped' /\ RecordsFit' /\ CollectedLasts' /\ Covered'
  BY <1>2 DEF InspectInv, InspectTyped, InspectTypeOK, RecordsFit, CollectedLasts, Covered
<1>4. AnswerLasts'
  BY <1>2 DEF InspectInv, AnswerLasts, NeverRuns
<1>5. NoFalseConflict' /\ NotFoundIsTrue'
  BY <1>2 DEF NoFalseConflict, NotFoundIsTrue
<1> QED BY <1>3, <1>4, <1>5 DEF InspectInv

\* A step of the command that asks nothing new
LEMMA ThenKeeps ==
  ASSUME InspectInv, ask.at \notin {"idle", "end"}, NEW step \in {"unlaunched", "local", "own", "detail"}, Then(step),
         UNCHANGED <<reader, listed, holdable, submission, identity, taskRow, learned, reads, collected>>
  PROVE  InspectInv'
<1>1. ask \in AskType /\ ask' = [ask EXCEPT !.at = step]
  BY DEF InspectInv, InspectTyped, Then
<1>2. /\ ask' \in AskType /\ ask'.at = step /\ ask'.answer = ask.answer /\ ask'.status = ask.status
      /\ ask'.what = ask.what /\ ask'.before = ask.before
  BY <1>1 DEF AskType
<1>3. InspectTyped' /\ RecordsFit' /\ CollectedLasts' /\ Covered'
  BY <1>2 DEF InspectInv, InspectTyped, InspectTypeOK, RecordsFit, CollectedLasts, Covered
<1>4. AnswerLasts' /\ NoFalseConflict' /\ NotFoundIsTrue'
  BY <1>2 DEF InspectInv, AnswerLasts, NeverRuns, NoFalseConflict, NotFoundIsTrue
<1> QED BY <1>3, <1>4 DEF InspectInv

LEMMA BeginKeeps ==
  ASSUME InspectInv, NEW q \in Queries, Begin(q)
  PROVE  InspectInv'
<1> USE DEF InspectInv
<1>1. q \in {"show", "log", "worker", "thread", "cancel"}
  BY InspectionAssumption
<1>2. PICK s \in {"unlaunched", "local", "own"}:
        s = CASE q = "show" -> "unlaunched"
              [] q \in {"log", "worker", "cancel"} -> "local"
              [] OTHER -> "own"
  BY <1>1
<1>3. /\ ask.at = "idle" /\ ask' = [ask EXCEPT !.what = q, !.before = taskRow, !.at = s]
      /\ UNCHANGED <<reader, listed, holdable, submission, identity, taskRow, learned, reads, collected>>
  BY <1>2 DEF Begin, taskVars, worldVars
<1>4. ask \in AskType /\ taskRow \in RowStates
  BY DEF InspectTyped, InspectTypeOK
<1>5. /\ ask' \in AskType /\ ask'.at = s /\ ask'.answer = ask.answer /\ ask'.status = ask.status
      /\ ask'.what = q /\ ask'.before = taskRow
  BY <1>1, <1>3, <1>4 DEF AskType
<1>6. InspectTyped' /\ RecordsFit' /\ Covered'
  BY <1>3, <1>5 DEF InspectTyped, InspectTypeOK, RecordsFit, Covered
<1>7. CollectedLasts'
  BY <1>3, <1>5 DEF CollectedLasts, Nothing, Holders
<1>8. AnswerLasts' /\ NoFalseConflict' /\ NotFoundIsTrue'
  BY <1>1, <1>3, <1>5 DEF AnswerLasts, NeverRuns, NoFalseConflict, NotFoundIsTrue
<1> QED BY <1>6, <1>7, <1>8

LEMMA UnlaunchedKeeps ==
  ASSUME InspectInv, unlaunched_detail
  PROVE  InspectInv'
<1>1. /\ ask.at = "unlaunched"
      /\ UNCHANGED <<reader, listed, holdable, submission, identity, taskRow, learned, reads, collected>>
  BY DEF unlaunched_detail, taskVars, worldVars
<1>2. submission \in {"held_cancelled", "rejected"} => NeverRuns
  BY DEF InspectInv, RecordsFit, NeverRuns
<1>3. CASE IsUnlaunched
  <2>1. submission \in {"waiting", "launching"} \/ submission \in {"held_cancelled", "rejected"}
    BY <1>3 DEF IsUnlaunched
  <2>2. \/ Answer("detail", "held") \/ Answer("no_thread", "none")
        \/ submission \in {"held_cancelled", "rejected"} /\ (Answer("detail", "over") \/ Answer("terminal", "over"))
    BY <1>3, <2>1 DEF unlaunched_detail
  <2> QED BY <1>1, <1>2, <2>2, AnswerKeeps DEF AskKinds, AskStates, RowStates
<1>4. CASE ~IsUnlaunched
  <2>1. Then("local") \/ Then("own")
    BY <1>4 DEF unlaunched_detail
  <2> QED BY <1>1, <2>1, ThenKeeps
<1> QED BY <1>3, <1>4

LEMMA LocalKeeps ==
  ASSUME InspectInv, local_detail
  PROVE  InspectInv'
<1>1. /\ ask.at = "local"
      /\ UNCHANGED <<reader, listed, holdable, submission, identity, taskRow, learned, reads, collected>>
  BY DEF local_detail, taskVars, worldVars
<1>2. taskRow \in AskStates /\ "none" \in AskStates /\ "over" \in AskStates
  BY DEF InspectInv, InspectTyped, InspectTypeOK, AskStates, RowStates
<1>3. \/ Answer("terminal", "over") /\ taskRow = "over"
      \/ Answer("worker", taskRow) \/ Answer("detail", taskRow) \/ Then("unlaunched") \/ Then("own")
  BY DEF local_detail, worker_route
<1> QED BY <1>1, <1>2, <1>3, AnswerKeeps, ThenKeeps DEF AskKinds

\* What this machine holds itself is collected first
LEMMA LookupKeeps ==
  ASSUME InspectInv, lookup
  PROVE  InspectInv'
<1> USE DEF InspectInv
<1>1. PICK s \in Submissions \cup {"none"}: s = IF reader = "origin" THEN submission ELSE "none"
  BY DEF InspectTyped, InspectTypeOK
<1>2. PICK t \in RowStates: t = IF reader = "origin" THEN learned ELSE "none"
  BY DEF InspectTyped, InspectTypeOK, RowStates
<1>3. PICK i \in IdentitySummary \cup {"none"}: i = IF reader = "executor" THEN identity ELSE "none"
  BY DEF InspectTyped, InspectTypeOK
<1>4. /\ ask.at = "own" /\ ask' = [ask EXCEPT !.at = "peers"] /\ reads' = Asks(listed)
      /\ collected' = [Nothing EXCEPT !.route["origin"] = s, !.learned = t, !.identity["executor"] = i]
      /\ UNCHANGED <<reader, listed, holdable, submission, identity, taskRow, learned>>
  BY <1>1, <1>2, <1>3 DEF lookup, Then, taskVars, worldVars
<1>5. ask \in AskType /\ reader \in Holders /\ listed \subseteq Holders \ {reader} /\ submission \in Submissions
      /\ "none" \notin Submissions
  BY DEF InspectTyped, InspectTypeOK, Submissions
<1>6. /\ ask' \in AskType /\ ask'.at = "peers" /\ ask'.answer = ask.answer /\ ask'.status = ask.status
      /\ ask'.what = ask.what /\ ask'.before = ask.before
  BY <1>4, <1>5 DEF AskType
<1>7. /\ collected'.execution = [m \in Holders |-> "none"] /\ collected'.unchecked = {}
      /\ collected'.route = [m \in Holders |-> IF m = "origin" THEN s ELSE "none"]
      /\ collected'.identity = [m \in Holders |-> IF m = "executor" THEN i ELSE "none"]
      /\ collected'.learned = t /\ collected' \in CollectedType
  BY <1>1, <1>2, <1>3, <1>4 DEF Nothing, CollectedType, Holders, RowStates
<1>8. InspectTyped'
  BY <1>4, <1>5, <1>6, <1>7 DEF InspectTyped, InspectTypeOK, Asks
<1>9. RecordsFit' /\ NoFalseConflict' /\ NotFoundIsTrue' /\ AnswerLasts'
  BY <1>4, <1>6 DEF RecordsFit, NoFalseConflict, NotFoundIsTrue, AnswerLasts, NeverRuns
<1>10. CollectedLasts'
  <2>1. s # "none" => s = submission
    BY <1>1
  <2>2. i = "none" \/ i = identity
    BY <1>3
  <2>3. t = "over" => taskRow = "over"
    BY <1>2 DEF RecordsFit
  <2>4. submission = "waiting" => ask.before = "none"
    BY DEF RecordsFit, AnswerLasts, Accepted
  <2> QED BY <1>4, <1>6, <1>7, <2>1, <2>2, <2>3, <2>4 DEF CollectedLasts, Holders, Grows, Accepted
<1>11. Covered'
  <2>1. reader = "origin" => s # "none"
    BY <1>1, <1>5
  <2>2. ask.before # "none" /\ reader = "executor" => i # "none"
    BY <1>3 DEF RecordsFit, AnswerLasts, Accepted
  <2>3. \A m \in listed, k \in ReadKinds: <<m, k>> \in reads'
    BY <1>4 DEF Asks
  <2>4. collected'.route["origin"] = s /\ collected'.identity["executor"] = i
    BY <1>7 DEF Holders
  <2> QED BY <1>4, <1>6, <2>1, <2>2, <2>3, <2>4 DEF Covered, ReadKinds
<1> QED BY <1>8, <1>9, <1>10, <1>11

\* A request to a peer fails
LEMMA UncheckedKeeps ==
  ASSUME InspectInv, NEW m \in Holders, NEW k \in ReadKinds, reads' = reads \ {<<m, k>>}, Unchecks(m),
         ask.at \in {"peers", "targets"},
         UNCHANGED <<reader, listed, holdable, submission, identity, taskRow, learned, ask>>
  PROVE  InspectInv'
<1> USE DEF InspectInv
<1>1. collected \in CollectedType
  BY DEF InspectTyped
<1>2. PICK u \in SUBSET Holders: u = collected.unchecked \cup {m}
  BY <1>1 DEF CollectedType
<1>3. collected' = [collected EXCEPT !.unchecked = u]
  BY <1>2 DEF Unchecks
<1>4. /\ collected' \in CollectedType /\ collected'.unchecked = u
      /\ collected'.execution = collected.execution /\ collected'.route = collected.route
      /\ collected'.identity = collected.identity /\ collected'.learned = collected.learned
  BY <1>1, <1>3 DEF CollectedType
<1>5. InspectTyped'
  BY <1>4 DEF InspectTyped, InspectTypeOK
<1>6. RecordsFit' /\ NoFalseConflict' /\ NotFoundIsTrue' /\ AnswerLasts'
  BY DEF RecordsFit, NoFalseConflict, NotFoundIsTrue, AnswerLasts, NeverRuns
<1>7. CollectedLasts'
  BY <1>4 DEF CollectedLasts
<1>8. Covered'
  BY <1>2, <1>4 DEF Covered
<1> QED BY <1>5, <1>6, <1>7, <1>8

\* What a peer reports is true now
LEMMA ReportedKeeps ==
  ASSUME InspectInv, NEW m \in Holders, NEW k \in ReadKinds, reads' = reads \ {<<m, k>>},
         ask.at \in {"peers", "targets"},
         collected' = CASE k = "execution" -> [collected EXCEPT !.execution[m] = execution_of(m)]
                        [] k = "route" -> [collected EXCEPT !.route[m] = origin_summary(m),
                                                            !.learned = IF m = "origin" THEN learned ELSE @]
                        [] k = "identity" -> [collected EXCEPT !.identity[m] = identity_summary(m)],
         UNCHANGED <<reader, listed, holdable, submission, identity, taskRow, learned, ask>>
  PROVE  InspectInv'
<1> USE DEF InspectInv
<1>1. /\ collected \in CollectedType /\ submission \in Submissions /\ "none" \notin Submissions
      /\ identity \in IdentitySummary \cup {"none"} /\ taskRow \in RowStates /\ learned \in RowStates
  BY DEF InspectTyped, InspectTypeOK, Submissions
<1>2. RecordsFit' /\ NoFalseConflict' /\ NotFoundIsTrue' /\ AnswerLasts'
  BY DEF RecordsFit, NoFalseConflict, NotFoundIsTrue, AnswerLasts, NeverRuns
<1>3. ask.before # "none" => taskRow # "none" /\ identity # "none"
  BY DEF AnswerLasts, RecordsFit, Accepted
<1>4. CASE k = "execution"
  <2>1. PICK t \in RowStates: t = execution_of(m)
    BY <1>1 DEF execution_of, RowStates
  <2>0. PICK f \in [Holders -> RowStates]: f = [collected.execution EXCEPT ![m] = t]
    BY <1>1, <2>1 DEF CollectedType
  <2>2. collected' = [collected EXCEPT !.execution = f]
    BY <2>0, <1>4, <2>1
  <2>3. /\ collected' \in CollectedType /\ collected'.unchecked = collected.unchecked
        /\ collected'.execution = f /\ collected'.route = collected.route
        /\ collected'.identity = collected.identity /\ collected'.learned = collected.learned
    BY <1>1, <2>2 DEF CollectedType
  <2>4. \A n \in Holders: collected'.execution[n] = IF n = m THEN t ELSE collected.execution[n]
    <3>1. DOMAIN collected.execution = Holders
      BY <1>1 DEF CollectedType
    <3>2. \A n \in Holders: f[n] = IF n = m THEN t ELSE collected.execution[n]
      BY <2>0, <3>1
    <3> QED BY <2>3, <3>2
  <2>5. t # "none" => m = "executor" /\ t = taskRow
    BY <2>1 DEF execution_of
  <2>6. m = "executor" => t = taskRow
    BY <2>1 DEF execution_of
  <2>7. InspectTyped'
    BY <2>3 DEF InspectTyped, InspectTypeOK
  <2>8. CollectedLasts'
    BY <2>3, <2>4, <2>5 DEF CollectedLasts, Holders
  <2>9. Covered'
    BY <1>3, <1>4, <2>3, <2>4, <2>6 DEF Covered, Holders
  <2> QED BY <1>2, <2>7, <2>8, <2>9
<1>5. CASE k = "route"
  <2>1. PICK s \in Submissions \cup {"none"}: s = origin_summary(m)
    BY <1>1 DEF origin_summary
  <2>2. PICK t \in RowStates: t = IF m = "origin" THEN learned ELSE collected.learned
    BY <1>1 DEF CollectedType
  <2>0. PICK f \in [Holders -> Submissions \cup {"none"}]: f = [collected.route EXCEPT ![m] = s]
    BY <1>1, <2>1 DEF CollectedType
  <2>3. collected' = [collected EXCEPT !.route = f, !.learned = t]
    BY <2>0, <1>5, <2>1, <2>2
  <2>4. /\ collected' \in CollectedType /\ collected'.unchecked = collected.unchecked
        /\ collected'.route = f /\ collected'.execution = collected.execution
        /\ collected'.identity = collected.identity /\ collected'.learned = t
    BY <1>1, <2>3 DEF CollectedType
  <2>5. \A n \in Holders: collected'.route[n] = IF n = m THEN s ELSE collected.route[n]
    <3>1. DOMAIN collected.route = Holders
      BY <1>1 DEF CollectedType
    <3>2. \A n \in Holders: f[n] = IF n = m THEN s ELSE collected.route[n]
      BY <2>0, <3>1
    <3> QED BY <2>4, <3>2
  <2>6. /\ s # "none" => m = "origin" /\ s = submission
        /\ m = "origin" => s = submission /\ s # "none"
    BY <1>1, <2>1 DEF origin_summary
  <2>7. t = "over" => taskRow = "over"
    BY <2>2 DEF RecordsFit, CollectedLasts
  <2>8. submission = "waiting" => ask.before = "none"
    BY <1>3 DEF RecordsFit
  <2>9. InspectTyped'
    BY <2>4 DEF InspectTyped, InspectTypeOK
  <2>10. CollectedLasts'
    BY <2>4, <2>5, <2>6, <2>7, <2>8 DEF CollectedLasts, Holders
  <2>11. Covered'
    BY <1>5, <2>4, <2>5, <2>6 DEF Covered, Holders
  <2> QED BY <1>2, <2>9, <2>10, <2>11
<1>6. CASE k = "identity"
  <2>1. PICK i \in IdentitySummary \cup {"none"}: i = identity_summary(m)
    BY <1>1 DEF identity_summary
  <2>0. PICK f \in [Holders -> IdentitySummary \cup {"none"}]: f = [collected.identity EXCEPT ![m] = i]
    BY <1>1, <2>1 DEF CollectedType
  <2>2. collected' = [collected EXCEPT !.identity = f]
    BY <2>0, <1>6, <2>1
  <2>3. /\ collected' \in CollectedType /\ collected'.unchecked = collected.unchecked
        /\ collected'.identity = f /\ collected'.route = collected.route
        /\ collected'.execution = collected.execution /\ collected'.learned = collected.learned
    BY <1>1, <2>2 DEF CollectedType
  <2>4. \A n \in Holders: collected'.identity[n] = IF n = m THEN i ELSE collected.identity[n]
    <3>1. DOMAIN collected.identity = Holders
      BY <1>1 DEF CollectedType
    <3>2. \A n \in Holders: f[n] = IF n = m THEN i ELSE collected.identity[n]
      BY <2>0, <3>1
    <3> QED BY <2>3, <3>2
  <2>5. /\ i # "none" => m = "executor" /\ i = identity
        /\ m = "executor" => i = identity
    BY <2>1 DEF identity_summary
  <2>6. InspectTyped'
    BY <2>3 DEF InspectTyped, InspectTypeOK
  <2>7. CollectedLasts'
    BY <2>3, <2>4, <2>5 DEF CollectedLasts, Holders, Grows, Accepted
  <2>8. Covered'
    BY <1>3, <1>6, <2>3, <2>4, <2>5 DEF Covered, Holders
  <2> QED BY <1>2, <2>6, <2>7, <2>8
<1> QED BY <1>4, <1>5, <1>6 DEF ReadKinds

LEMMA ReadPeerKeeps ==
  ASSUME InspectInv, NEW m \in Holders, NEW k \in ReadKinds, read_peer(m, k)
  PROVE  InspectInv'
BY UncheckedKeeps, ReportedKeeps DEF read_peer, taskVars, worldVars

LEMMA AskTargetsKeeps ==
  ASSUME InspectInv, AskTargets
  PROVE  InspectInv'
<1> USE DEF InspectInv
<1>1. /\ ask.at = "peers" /\ reads = {} /\ ask' = [ask EXCEPT !.at = "targets"]
      /\ reads' = Asks({m \in {"executor"}: Routes # {} /\ m # reader /\ m \notin listed})
      /\ UNCHANGED <<reader, listed, holdable, submission, identity, taskRow, learned, collected>>
  BY DEF AskTargets, Then, taskVars, worldVars
<1>2. ask \in AskType
  BY DEF InspectTyped
<1>3. /\ ask' \in AskType /\ ask'.at = "targets" /\ ask'.answer = ask.answer /\ ask'.status = ask.status
      /\ ask'.what = ask.what /\ ask'.before = ask.before
  BY <1>1, <1>2 DEF AskType
<1>4. reads' \subseteq Holders \X ReadKinds
  BY <1>1 DEF Asks, Holders
<1>5. InspectTyped'
  BY <1>1, <1>3, <1>4 DEF InspectTyped, InspectTypeOK
<1>6. RecordsFit' /\ NoFalseConflict' /\ NotFoundIsTrue' /\ AnswerLasts' /\ CollectedLasts'
  BY <1>1, <1>3 DEF RecordsFit, NoFalseConflict, NotFoundIsTrue, AnswerLasts, NeverRuns, CollectedLasts
<1>7. Covered'
  BY <1>1, <1>3 DEF Covered
<1> QED BY <1>5, <1>6, <1>7

-----------------------------------------------------------------------------
(* The conclusion *)

LEMMA KindsAndStates ==
  /\ AskStates = {"none", "live", "over", "waiting", "launching", "unknown", "accepted", "rejected",
                  "held_cancelled", "held"}
  /\ AskKinds = {"none", "conflict", "not_found", "incomplete", "cached", "compact", "not_started", "unavailable",
             "no_thread", "terminal", "worker", "detail", "target", "held_on_origin", "thread", "no_route"}
BY DEF AskStates, AskKinds, RowStates, Submissions

\* What the records say when every request was answered or failed
LEMMA RecordsSay ==
  ASSUME InspectInv
  PROVE  /\ NeverRuns => ask.before = "none"
         /\ Routes # {} => KnownRoute \in Submissions
         /\ Routes # {} /\ KnownRoute \in {"rejected", "held_cancelled"} => NeverRuns
         /\ Routes # {} /\ KnownRoute = "waiting" => ask.before = "none"
         /\ \A m \in Identified: m = "executor" /\ (collected.identity[m] = "rejected" => NeverRuns)
         /\ Executions # {} => ~NeverRuns
<1> USE DEF InspectInv
<1>1. NeverRuns => taskRow = "none"
  BY DEF NeverRuns, RecordsFit, Accepted
<1>2. NeverRuns => ask.before = "none"
  BY <1>1 DEF AnswerLasts
<1>3. Routes # {} => KnownRoute = collected.route["origin"] /\ collected.route["origin"] # "none"
  BY TheRecords
<1>4. collected.route["origin"] \in Submissions \cup {"none"}
  BY DEF InspectTyped, CollectedType, Holders
<1>5. Routes # {} /\ KnownRoute \in {"rejected", "held_cancelled"} => NeverRuns
  BY <1>3 DEF CollectedLasts, RecordsFit, NeverRuns
<1>6. Routes # {} /\ KnownRoute = "waiting" => ask.before = "none"
  BY <1>3 DEF CollectedLasts
<1>7. \A m \in Identified: m = "executor" /\ (collected.identity[m] = "rejected" => NeverRuns)
  BY DEF CollectedLasts, Identified, NeverRuns, Grows
<1>8. Executions # {} => taskRow # "none"
  BY TheRecords DEF CollectedLasts
<1> QED BY <1>1, <1>2, <1>3, <1>4, <1>5, <1>6, <1>7, <1>8

\* Records read at different moments agree
LEMMA NoConflicts ==
  ASSUME InspectInv
  PROVE  ~check_conflicts
<1> USE DEF InspectInv
<1>1. /\ Routes = {} \/ Routes = {"origin"}
      /\ Executions = {} \/ Executions = {"executor"}
      /\ Identified = {} \/ Identified = {"executor"}
  BY TheRecords
<1>2. \A S: S = {} \/ S = {"executor"} => ~(Cardinality(S) > 1)
  <2>1. Cardinality({}) = 0
    BY FS_EmptySet
  <2>2. Cardinality({"executor"}) = 1
    BY FS_Singleton
  <2> QED BY <2>1, <2>2
<1>3. ~(Cardinality(Executions) > 1) /\ ~(Cardinality(Identified) > 1)
  BY <1>1, <1>2
<1>4. \A m, n \in Routes: collected.route[m] = collected.route[n]
  BY <1>1
<1>5. \A m \in Executions: m = "executor" /\ ~(Routes # {} /\ KnownRoute = "rejected")
  BY <1>1, RecordsSay
<1>6. ASSUME NEW m \in Identified
      PROVE  /\ m = "executor"
             /\ ~(Routes # {} /\ KnownRoute = "rejected" /\ collected.identity[m] \in Accepted)
             /\ ~(Routes # {} /\ KnownRoute = "accepted" /\ collected.identity[m] = "rejected")
             /\ ~(\E n \in Executions: n # "executor")
             /\ ~(collected.identity[m] = "rejected" /\ m \in Executions)
  <2>1. m = "executor" /\ collected.identity["executor"] # "none"
    BY <1>1, <1>6 DEF Identified
  <2>2. /\ collected.identity["executor"] = "rejected" => identity = "rejected"
        /\ collected.identity["executor"] \in Accepted => identity \in Accepted
    BY <2>1 DEF CollectedLasts, Grows, Accepted
  <2>3. /\ Routes # {} /\ KnownRoute = "rejected" => identity \notin Accepted
        /\ Routes # {} /\ KnownRoute = "accepted" => identity # "rejected"
    BY TheRecords DEF CollectedLasts, RecordsFit, Accepted
  <2>4. identity = "rejected" => Executions = {}
    BY RecordsSay DEF NeverRuns
  <2> QED BY <1>1, <2>1, <2>2, <2>3, <2>4
<1> QED BY <1>3, <1>4, <1>5, <1>6 DEF check_conflicts

LEMMA AbsentKeeps ==
  ASSUME InspectInv, ask.at = "targets", reads = {}, Routes = {}, Executions = {}, Identified = {},
         UNCHANGED <<reader, listed, holdable, submission, identity, taskRow, learned, reads, collected>>,
         absent \/ (collected.unchecked = {} /\ Answer("not_found", "none"))
  PROVE  InspectInv'
<1>1. CASE collected.unchecked = {} /\ Answer("not_found", "none")
  <2>1. /\ collected.route["origin"] = "none" /\ collected.execution["executor"] = "none"
        /\ collected.identity["executor"] = "none"
    BY TheRecords
  <2>2. "origin" \notin listed \cup {reader}
    BY <1>1, <2>1 DEF InspectInv, Covered
  <2>3. "executor" \in listed \cup {reader} => ask.before = "none"
    BY <1>1, <2>1 DEF InspectInv, Covered
  <2> QED BY <1>1, <2>2, <2>3, AnswerKeeps, KindsAndStates
<1>2. CASE Answer("incomplete", "none")
  BY <1>2, AnswerKeeps, KindsAndStates
<1> QED BY <1>1, <1>2 DEF absent

LEMMA CachedKeeps ==
  ASSUME InspectInv, ask.at # "idle", Routes # {}, cached_route,
         UNCHANGED <<reader, listed, holdable, submission, identity, taskRow, learned, reads, collected>>
  PROVE  InspectInv'
<1>1. KnownRoute \in Submissions /\ (KnownRoute \in {"rejected", "held_cancelled"} => NeverRuns)
  BY RecordsSay
<1>2. collected.learned \in RowStates /\ (collected.learned = "over" => taskRow = "over")
  BY DEF InspectInv, InspectTyped, CollectedType, CollectedLasts
<1>3. cached_process_status \in RowStates /\ (cached_process_status = "over" => taskRow = "over")
  BY <1>2 DEF cached_process_status, RowStates
<1>4. \/ CachedStatus = "held" \/ CachedStatus = cached_process_status
      \/ CachedStatus = "over" /\ NeverRuns
  BY <1>1, Zenon DEF CachedStatus
<1>5. CachedStatus \in AskStates /\ (CachedStatus = "over" => taskRow = "over" \/ NeverRuns)
  BY <1>3, <1>4 DEF AskStates, RowStates
<1>6. Answer("cached", CachedStatus)
  BY DEF cached_route
<1> QED BY <1>5, <1>6, AnswerKeeps, KindsAndStates

\* The log, and the worker's thread, without the executor's row
LEMMA MissingKeeps ==
  ASSUME InspectInv, ask.at = "targets", reads = {}, ask.what # "cancel", Executions = {}, execution_missing,
         UNCHANGED <<reader, listed, holdable, submission, identity, taskRow, learned, reads, collected>>
  PROVE  InspectInv'
<1>1. CASE Identified # {}
  <2>1. CASE \E m \in Identified: collected.identity[m] = "rejected"
    <3>1. Answer("not_started", "none")
      BY <1>1, <2>1 DEF execution_missing
    <3>2. NeverRuns /\ ask.before = "none"
      BY <2>1, RecordsSay
    <3> QED BY <3>1, <3>2, AnswerKeeps, KindsAndStates
  <2>2. CASE ~(\E m \in Identified: collected.identity[m] = "rejected")
    <3>1. Answer("unavailable", "none")
      BY <1>1, <2>2 DEF execution_missing
    <3> QED BY <3>1, AnswerKeeps, KindsAndStates
  <2> QED BY <2>1, <2>2
<1>2. CASE Identified = {} /\ Routes # {}
  <2>1. KnownRoute \in AskStates /\ KnownRoute # "over"
    BY <1>2, RecordsSay DEF AskStates, Submissions
  <2>2. CASE KnownRoute \in {"rejected", "waiting", "launching", "held_cancelled"}
    <3>1. Answer("not_started", KnownRoute)
      BY <1>2, <2>2 DEF execution_missing
    <3>2. KnownRoute # "launching" => ask.before = "none"
      BY <1>2, <2>2, RecordsSay
    <3> QED BY <2>1, <3>1, <3>2, AnswerKeeps, KindsAndStates
  <2>3. CASE KnownRoute \notin {"rejected", "waiting", "launching", "held_cancelled"}
    <3>1. Answer("unavailable", KnownRoute)
      BY <1>2, <2>3 DEF execution_missing
    <3> QED BY <2>1, <3>1, AnswerKeeps, KindsAndStates
  <2> QED BY <2>2, <2>3
<1>3. CASE Identified = {} /\ Routes = {}
  <2>1. absent
    BY <1>3 DEF execution_missing
  <2> QED BY <1>3, <2>1, AbsentKeeps
<1> QED BY <1>1, <1>2, <1>3

LEMMA CancelKeeps ==
  ASSUME InspectInv, ask.at = "targets", reads = {}, ask.what = "cancel", cancellation_owner,
         UNCHANGED <<reader, listed, holdable, submission, identity, taskRow, learned, reads, collected>>
  PROVE  InspectInv'
<1>1. CASE Routes # {}
  <2>1. CancelRoute
    BY <1>1 DEF cancellation_owner
  <2>2. KnownRoute \in AskStates /\ KnownRoute # "over"
    BY <1>1, RecordsSay DEF AskStates, Submissions
  <2>3. CASE KnownRoute \in {"rejected", "held_cancelled"}
    <3>1. Answer("not_started", KnownRoute)
      BY <2>1, <2>3 DEF CancelRoute
    <3>2. NeverRuns /\ ask.before = "none"
      BY <1>1, <2>3, RecordsSay
    <3> QED BY <2>2, <3>1, <3>2, AnswerKeeps, KindsAndStates
  <2>4. CASE KnownRoute \notin {"rejected", "held_cancelled"}
    <3>1. Answer("held_on_origin", "none") \/ Answer("target", "none") \/ Answer("incomplete", "none")
      BY <2>1, <2>4 DEF CancelRoute
    <3> QED BY <3>1, AnswerKeeps, KindsAndStates
  <2> QED BY <2>3, <2>4
<1>2. CASE Routes = {} /\ Identified # {}
  <2>1. CASE "origin" \in collected.unchecked
    <3>1. Answer("incomplete", "none")
      BY <1>2, <2>1 DEF cancellation_owner
    <3> QED BY <3>1, AnswerKeeps, KindsAndStates
  <2>2. CASE "origin" \notin collected.unchecked
    <3>1. Answer("conflict", "none")
      BY <1>2, <2>2 DEF cancellation_owner
    <3>2. collected.route["origin"] = "none"
      BY <1>2, TheRecords
    <3>3. "origin" \notin listed \cup {reader}
      BY <2>2, <3>2 DEF InspectInv, Covered
    <3> QED BY <3>1, <3>3, AnswerKeeps, KindsAndStates
  <2> QED BY <2>1, <2>2
<1>3. CASE Routes = {} /\ Identified = {} /\ Executions # {}
  <2>1. Answer("incomplete", "none")
    BY <1>3 DEF cancellation_owner
  <2> QED BY <2>1, AnswerKeeps, KindsAndStates
<1>4. CASE Routes = {} /\ Identified = {} /\ Executions = {}
  <2>1. absent
    BY <1>4 DEF cancellation_owner
  <2> QED BY <1>4, <2>1, AbsentKeeps
<1> QED BY <1>1, <1>2, <1>3, <1>4

LEMMA ThreadKeeps ==
  ASSUME InspectInv, ask.at = "targets", reads = {}, message_origin_route,
         UNCHANGED <<reader, listed, holdable, submission, identity, taskRow, learned, reads, collected>>
  PROVE  InspectInv'
<1>1. CASE Routes # {} \/ collected.unchecked # {} \/ Executions \cup Identified # {}
  <2>1. Answer("thread", "none") \/ Answer("incomplete", "none") \/ Answer("no_route", "none")
    BY <1>1 DEF message_origin_route
  <2> QED BY <2>1, AnswerKeeps, KindsAndStates
<1>2. CASE Routes = {} /\ collected.unchecked = {} /\ Executions = {} /\ Identified = {}
  <2>1. Answer("not_found", "none")
    BY <1>2 DEF message_origin_route
  <2> QED BY <1>2, <2>1, AbsentKeeps
<1> QED BY <1>1, <1>2

LEMMA ShowKeeps ==
  ASSUME InspectInv, ask.at = "targets", reads = {}, show_task,
         UNCHANGED <<reader, listed, holdable, submission, identity, taskRow, learned, reads, collected>>
  PROVE  InspectInv'
<1>1. CASE Executions # {}
  <2>1. Then("detail")
    BY <1>1 DEF show_task
  <2> QED BY <2>1, ThenKeeps
<1>2. CASE Executions = {} /\ Identified # {}
  <2>1. compact_identity("executor") /\ "executor" \in Identified
    BY <1>2, TheRecords DEF show_task
  <2>2. collected.identity["executor"] \in IdentitySummary
    BY <2>1 DEF InspectInv, InspectTyped, CollectedType, Identified, Holders
  <2>3. CASE collected.identity["executor"] = "live"
    <3>1. Answer("compact", "live")
      BY <2>1, <2>3 DEF compact_identity
    <3> QED BY <3>1, AnswerKeeps, KindsAndStates
  <2>4. CASE collected.identity["executor"] = "over"
    <3>1. Answer("compact", "over")
      BY <2>1, <2>4 DEF compact_identity
    <3>2. taskRow = "over"
      BY <2>4 DEF InspectInv, CollectedLasts, Grows, RecordsFit
    <3> QED BY <3>1, <3>2, AnswerKeeps, KindsAndStates
  <2>5. CASE collected.identity["executor"] = "rejected"
    <3>1. Answer("compact", "over")
      BY <2>1, <2>5 DEF compact_identity
    <3>2. NeverRuns
      BY <2>1, <2>5, RecordsSay
    <3> QED BY <3>1, <3>2, AnswerKeeps, KindsAndStates
  <2> QED BY <2>2, <2>3, <2>4, <2>5 DEF IdentitySummary
<1>3. CASE Executions = {} /\ Identified = {} /\ Routes # {}
  <2>1. cached_route
    BY <1>3 DEF show_task
  <2> QED BY <1>3, <2>1, CachedKeeps
<1>4. CASE Executions = {} /\ Identified = {} /\ Routes = {}
  <2>1. absent
    BY <1>4 DEF show_task
  <2> QED BY <1>4, <2>1, AbsentKeeps
<1> QED BY <1>1, <1>2, <1>3, <1>4

LEMMA LogKeeps ==
  ASSUME InspectInv, ask.at = "targets", reads = {}, ask.what # "cancel", log,
         UNCHANGED <<reader, listed, holdable, submission, identity, taskRow, learned, reads, collected>>
  PROVE  InspectInv'
<1>1. CASE Executions # {}
  <2>1. Then("detail")
    BY <1>1 DEF log
  <2> QED BY <2>1, ThenKeeps
<1>2. CASE Executions = {}
  <2>1. execution_missing
    BY <1>2 DEF log
  <2> QED BY <1>2, <2>1, MissingKeeps
<1> QED BY <1>1, <1>2

LEMMA WorkerKeeps ==
  ASSUME InspectInv, ask.at = "targets", reads = {}, ask.what # "cancel", message_worker_route,
         UNCHANGED <<reader, listed, holdable, submission, identity, taskRow, learned, reads, collected>>
  PROVE  InspectInv'
<1>1. CASE Executions = {} /\ Routes # {} /\ unlaunched_worker_blocker # "none"
  <2>1. \/ unlaunched_worker_blocker = "no_thread"
        \/ unlaunched_worker_blocker = "terminal" /\ KnownRoute \in {"rejected", "held_cancelled"}
    BY <1>1 DEF unlaunched_worker_blocker
  <2>2. CASE unlaunched_worker_blocker = "no_thread"
    <3>1. Answer("no_thread", "none")
      BY <1>1, <2>2 DEF message_worker_route
    <3> QED BY <3>1, AnswerKeeps, KindsAndStates
  <2>3. CASE unlaunched_worker_blocker = "terminal" /\ KnownRoute \in {"rejected", "held_cancelled"}
    <3>1. Answer("terminal", "over")
      BY <1>1, <2>3 DEF message_worker_route
    <3>2. NeverRuns
      BY <1>1, <2>3, RecordsSay
    <3> QED BY <3>1, <3>2, AnswerKeeps, KindsAndStates
  <2> QED BY <2>1, <2>2, <2>3
<1>2. CASE ~(Executions = {} /\ Routes # {} /\ unlaunched_worker_blocker # "none")
  <2>1. log
    BY <1>2 DEF message_worker_route
  <2> QED BY <2>1, LogKeeps
<1> QED BY <1>1, <1>2

LEMMA ConcludeKeeps ==
  ASSUME InspectInv, Conclude
  PROVE  InspectInv'
<1>1. /\ ask.at = "targets" /\ reads = {}
      /\ UNCHANGED <<reader, listed, holdable, submission, identity, taskRow, learned, reads, collected>>
  BY DEF Conclude, taskVars, worldVars
<1>2. ask.what \in {"show", "log", "worker", "thread", "cancel"}
  BY <1>1 DEF InspectInv, InspectTyped, AskType, AnswerLasts
<1>3. \/ ask.what = "cancel" /\ cancellation_owner
      \/ ask.what = "thread" /\ message_origin_route
      \/ ask.what = "show" /\ show_task
      \/ ask.what = "log" /\ log
      \/ ask.what = "worker" /\ message_worker_route
  BY <1>2, NoConflicts DEF Conclude
<1> QED BY <1>1, <1>3, CancelKeeps, ThreadKeeps, ShowKeeps, LogKeeps, WorkerKeeps

\* The executor's own word now, or what was collected before it fell silent
LEMMA RemoteReadKeeps ==
  ASSUME InspectInv, remote_read
  PROVE  InspectInv'
<1>1. ask.at = "detail"
      /\ UNCHANGED <<reader, listed, holdable, submission, identity, taskRow, learned, reads, collected>>
  BY DEF remote_read, taskVars, worldVars
<1>2. taskRow \in AskStates
  BY DEF InspectInv, InspectTyped, InspectTypeOK, AskStates
<1>3. \/ Answer("terminal", "over") /\ taskRow = "over"
      \/ Answer("worker", taskRow) \/ Answer("detail", taskRow)
      \/ Routes # {} /\ cached_route
      \/ Answer("unavailable", "none")
  BY DEF remote_read, worker_route
<1> QED BY <1>1, <1>2, <1>3, AnswerKeeps, CachedKeeps, KindsAndStates

LEMMA InspectInitial == InspectInit => InspectInv
<1> SUFFICES ASSUME InspectInit PROVE InspectInv
  OBVIOUS
<1> USE DEF InspectInit
<1>1. ask \in AskType /\ ask.at = "idle" /\ ask.answer = "none" /\ ask.status = "none" /\ ask.before = "none"
  BY DEF AskType, AskKinds, AskStates, RowStates
<1>2. collected \in CollectedType /\ collected.unchecked = {}
  BY DEF Nothing, CollectedType, RowStates
<1>3. InspectTyped
  BY <1>1, <1>2 DEF InspectTyped, InspectTypeOK, Submissions, RowStates
<1>4. RecordsFit
  BY DEF RecordsFit, Accepted
<1>5. CollectedLasts
  BY <1>1 DEF CollectedLasts, Nothing, Holders, Grows
<1>6. Covered /\ AnswerLasts /\ NoFalseConflict /\ NotFoundIsTrue
  BY <1>1 DEF Covered, AnswerLasts, NoFalseConflict, NotFoundIsTrue
<1> QED BY <1>3, <1>4, <1>5, <1>6 DEF InspectInv

LEMMA InspectStep == InspectInv /\ [InspectNext]_inspectVars => InspectInv'
<1> SUFFICES ASSUME InspectInv, [InspectNext]_inspectVars PROVE InspectInv'
  OBVIOUS
<1>1. CASE TaskStep
  BY <1>1, TaskStepKeeps
<1>2. CASE \E q \in Queries: Begin(q)
  BY <1>2, BeginKeeps
<1>3. CASE unlaunched_detail \/ local_detail \/ lookup
  BY <1>3, UnlaunchedKeeps, LocalKeeps, LookupKeeps
<1>4. CASE \E m \in Holders, k \in ReadKinds: read_peer(m, k)
  BY <1>4, ReadPeerKeeps
<1>5. CASE AskTargets \/ Conclude \/ remote_read
  BY <1>5, AskTargetsKeeps, ConcludeKeeps, RemoteReadKeeps
<1>6. CASE UNCHANGED inspectVars
  BY <1>6 DEF inspectVars, InspectInv, InspectTyped, InspectTypeOK, RecordsFit, CollectedLasts, Covered, AnswerLasts,
       NeverRuns, NoFalseConflict, NotFoundIsTrue
<1> QED BY <1>1, <1>2, <1>3, <1>4, <1>5, <1>6 DEF InspectNext

\* The invariant of inspection holds in every reachable state, whatever the task
\* does and whichever requests fail while its records are read.
THEOREM InspectionInvariance == InspectSpec => []InspectInv
BY InspectInitial, InspectStep, PTL DEF InspectSpec

\* No lookup calls a sound task a conflict, `not found' needs the word of every
\* machine that could know the task, and an answer that it is over or was not
\* started is true (inspection.rs, daemon/cluster.rs).
THEOREM InspectionIsTrueCorrect == InspectSpec => []InspectionIsTrue
<1>1. InspectInv => InspectionIsTrue
  <2> SUFFICES ASSUME InspectInv PROVE InspectionIsTrue
    OBVIOUS
  <2>1. NeverRuns => taskRow = "none"
    BY DEF InspectInv, NeverRuns, RecordsFit, Accepted
  <2>2. EndedIsTrue
    BY <2>1 DEF InspectInv, AnswerLasts, NeverRuns, EndedIsTrue
  <2> QED BY <2>2 DEF InspectInv, InspectTyped, InspectionIsTrue
<1> QED BY <1>1, InspectionInvariance, PTL

=============================================================================
