------------------------------- MODULE JobProofs -------------------------------
(***************************************************************************)
(* Both ends of a person's jobs: the news of a job on its way from its     *)
(* authority to its owner's thread (JobDelivery), for any number of        *)
(* events, blocked episodes, crashes, lost replies and restored backups,   *)
(* and the commands that move, cancel and release (QueueRequests), for any *)
(* number of them, sent any number of times.                               *)
(*                                                                         *)
(* A number that one side holds says nothing of what the other has; the    *)
(* first invariant orders them (Cursors), ties each sender's work to the   *)
(* log (Outgoing, Incoming) and each notice to its episode (Announced).    *)
(* The second ties every message to its command (Mail), the count of an    *)
(* operation's effects to its row (Ledger) and an answer to the stored     *)
(* result (Answers).  The third is about the lanes that these commands and *)
(* the detection of GPUs share: each fits by itself (RowFits), two differ  *)
(* (Differ), and a fallback stands alone (StandsAlone).                    *)
(***************************************************************************)
EXTENDS JobDelivery, QueueRequests, TLAPS, WellFoundedInduction

EpisodeRow == [open : BOOLEAN, due : BOOLEAN, notified : BOOLEAN]
ToldRow == [seq : 1 .. MaxJobSeq, current : BOOLEAN]

\* JobTypeOK, with the sequences as such
JobTypes ==
    /\ route \in [submission : RouteStates, accepted : 0 .. MaxJobSeq, settled : 0 .. MaxJobSeq]
    /\ submits \in [phase : {"idle", "waiting", "accepted", "refused"},
                    read : RouteStates, current : BOOLEAN, late : BOOLEAN]
    /\ fit \in BOOLEAN /\ stored \in BOOLEAN /\ head \in BOOLEAN
    /\ episodes \in Seq(EpisodeRow) /\ Len(episodes) <= MaxEpisodes
    /\ reading \in [head : BOOLEAN, episode : 0 .. MaxEpisodes, active : BOOLEAN]
    /\ log \in Seq(EventRow) /\ Len(log) <= MaxJobSeq
    /\ outgoing \in [phase : {"none", "send", "acknowledged"}, seq : 0 .. MaxJobSeq,
                     original : 0 .. MaxJobSeq, requested : SUBSET (1 .. MaxJobSeq)]
    /\ incoming \in [phase : {"none", "check", "send", "line", "delivered", "suppressed"},
                     seq : 0 .. MaxJobSeq, moved : BOOLEAN]
    /\ told \in Seq(ToldRow)
    /\ acked \in Nat /\ arrived \in Nat /\ jobFaults \in 0 .. MaxJobFaults

\* How far each side is with the job's events
Cursors ==
    /\ acked <= arrived /\ arrived <= Len(log)
    /\ route.settled <= route.accepted /\ route.accepted <= arrived

\* What the authority sends is in its log, and acknowledged once it arrived
Outgoing ==
    outgoing.phase # "none" =>
        /\ 1 <= outgoing.seq /\ outgoing.seq <= outgoing.original /\ outgoing.original <= Len(log)
        /\ outgoing.phase = "acknowledged" => outgoing.seq <= arrived

\* What the origin sends to the thread is the event after the settled ones
Incoming ==
    incoming.phase # "none" =>
        /\ incoming.seq = route.settled + 1 /\ incoming.seq <= route.accepted
        /\ incoming.phase = "check" => Blocked(incoming.seq)
        /\ incoming.phase = "delivered" => Told(incoming.seq)
        /\ incoming.phase = "suppressed" => log[incoming.seq].suppressed
        /\ incoming.phase = "line" /\ Blocked(incoming.seq) => head \/ incoming.moved

\* The episode of a notice is marked as announced
Announced ==
    \A i \in 1 .. Len(log) : Blocked(i) =>
        log[i].episode \in 1 .. Len(episodes) /\ episodes[log[i].episode].notified

ToldIsLogged == \A i \in 1 .. Len(told) : told[i].seq <= Len(log)

JobInv ==
    /\ JobTypes /\ Cursors /\ Outgoing /\ Incoming
    /\ Announced /\ OneNoticePerEpisode /\ ToldIsLogged /\ NoticesAreCurrent /\ SettledWasTold

-----------------------------------------------------------------------------
(* What a step leaves *)

\* The authority's log grows, and its events keep what they say
LogKept ==
    /\ Len(log) <= Len(log')
    /\ \A i \in 1 .. Len(log) :
          /\ log'[i].kind = log[i].kind /\ log'[i].episode = log[i].episode
          /\ log[i].suppressed => log'[i].suppressed

\* Episodes are added, and one that was announced stays so
EpisodesKept ==
    /\ Len(episodes) <= Len(episodes')
    /\ \A i \in 1 .. Len(episodes) : episodes[i].notified => episodes'[i].notified

LEMMA LogStays ==
    ASSUME JobTypes, log' = log
    PROVE  LogKept
  BY DEF LogKept, JobTypes

LEMMA EpisodesStay ==
    ASSUME JobTypes, episodes' = episodes
    PROVE  EpisodesKept
  BY DEF EpisodesKept, JobTypes

LEMMA SeqFacts ==
    ASSUME NEW S, NEW s \in Seq(S)
    PROVE  Len(s) \in Nat /\ DOMAIN s = 1 .. Len(s) /\ \A i \in 1 .. Len(s) : s[i] \in S
  OBVIOUS

LEMMA Sizes ==
    ASSUME JobTypes
    PROVE  /\ Len(log) \in Nat /\ DOMAIN log = 1 .. Len(log) /\ \A i \in 1 .. Len(log) : log[i] \in EventRow
           /\ Len(episodes) \in Nat /\ DOMAIN episodes = 1 .. Len(episodes)
           /\ \A i \in 1 .. Len(episodes) : episodes[i] \in EpisodeRow
           /\ Len(told) \in Nat /\ DOMAIN told = 1 .. Len(told)
           /\ \A i \in 1 .. Len(told) : told[i].seq \in Nat /\ told[i].seq >= 1
           /\ route.settled \in Nat /\ route.accepted \in Nat
<1>1. log \in Seq(EventRow) /\ episodes \in Seq(EpisodeRow) /\ told \in Seq(ToldRow)
      /\ route.settled \in 0 .. MaxJobSeq /\ route.accepted \in 0 .. MaxJobSeq
  BY DEF JobTypes
<1>2. \A i \in 1 .. Len(told) : told[i] \in ToldRow
  BY <1>1, SeqFacts
<1>3. \A t \in ToldRow : t.seq \in Nat /\ t.seq >= 1
  BY DEF ToldRow
<1> QED BY <1>1, <1>2, <1>3, SeqFacts

LEMMA SizesNext ==
    ASSUME JobTypes'
    PROVE  /\ Len(log') \in Nat /\ DOMAIN log' = 1 .. Len(log')
           /\ Len(episodes') \in Nat /\ route'.settled \in Nat /\ route'.accepted \in Nat
<1>1. log' \in Seq(EventRow) /\ episodes' \in Seq(EpisodeRow)
      /\ route'.settled \in 0 .. MaxJobSeq /\ route'.accepted \in 0 .. MaxJobSeq
  BY DEF JobTypes
<1> QED BY <1>1, SeqFacts

\* The notices that are in the log
LEMMA NoticesStay ==
    ASSUME JobTypes, JobTypes', Announced, OneNoticePerEpisode, LogKept, EpisodesKept, Len(log') = Len(log)
    PROVE  Announced' /\ OneNoticePerEpisode'
<1>0. /\ DOMAIN log = 1 .. Len(log) /\ DOMAIN log' = 1 .. Len(log') /\ Len(log) \in Nat
      /\ Len(episodes) \in Nat /\ Len(episodes') \in Nat
  BY Sizes, SizesNext
<1>1. Announced'
  <2> SUFFICES ASSUME NEW i \in 1 .. Len(log'), log'[i].kind = "blocked"
               PROVE  log'[i].episode \in 1 .. Len(episodes') /\ episodes'[log'[i].episode].notified
    BY DEF Announced, Blocked
  <2>1. i \in 1 .. Len(log) /\ log[i].kind = "blocked" /\ log'[i].episode = log[i].episode
    BY <1>0 DEF LogKept
  <2>2. log[i].episode \in 1 .. Len(episodes) /\ episodes[log[i].episode].notified
    BY <2>1 DEF Announced, Blocked
  <2> QED BY <1>0, <2>1, <2>2 DEF EpisodesKept
<1>2. OneNoticePerEpisode'
  BY <1>0 DEF OneNoticePerEpisode, Blocked, LogKept
<1> QED BY <1>1, <1>2

\* What the thread was told
LEMMA ToldStays ==
    ASSUME JobTypes, JobTypes', Cursors, ToldIsLogged, NoticesAreCurrent, SettledWasTold,
           LogKept, told' = told, route'.settled <= route.settled
    PROVE  ToldIsLogged' /\ NoticesAreCurrent' /\ SettledWasTold'
<1>0. /\ DOMAIN told = 1 .. Len(told) /\ Len(told) \in Nat /\ Len(log) \in Nat /\ Len(log') \in Nat
      /\ route.settled \in Nat /\ route'.settled \in Nat /\ route.settled <= Len(log)
      /\ \A i \in 1 .. Len(told) : told[i].seq \in Nat
  <2>1. arrived \in Nat
    BY DEF JobTypes
  <2> QED BY <2>1, Sizes, SizesNext DEF Cursors
<1>1. ToldIsLogged'
  BY <1>0 DEF ToldIsLogged, LogKept
<1>2. NoticesAreCurrent'
  BY DEF NoticesAreCurrent
<1>3. ASSUME NEW seq \in 1 .. route'.settled PROVE Told(seq)' \/ log'[seq].suppressed
  BY <1>0 DEF SettledWasTold, Told, LogKept
<1>4. ASSUME NEW i \in DOMAIN told', NEW seq \in 1 .. told'[i].seq - 1
      PROVE  log'[seq].suppressed \/ \E k \in 1 .. i : told'[k].seq = seq
  <2>1. seq \in 1 .. Len(log) /\ i \in 1 .. Len(told) /\ seq \in 1 .. told[i].seq - 1
    BY <1>0 DEF ToldIsLogged
  <2>2. log[seq].suppressed \/ \E k \in 1 .. i : told[k].seq = seq
    BY <1>0, <2>1 DEF SettledWasTold
  <2> QED BY <2>1, <2>2 DEF LogKept
<1> QED BY <1>1, <1>2, <1>3, <1>4 DEF SettledWasTold

\* The origin's sender stays where it is, and a line is overtaken by a queue that moves
IncomingKept ==
    /\ incoming'.phase = incoming.phase /\ incoming'.seq = incoming.seq
    /\ incoming.phase = "line" /\ Blocked(incoming.seq) /\ (head \/ incoming.moved)
          => head' \/ incoming'.moved

InboxRow == [phase : {"none", "check", "send", "line", "delivered", "suppressed"},
             seq : 0 .. MaxJobSeq, moved : BOOLEAN]

LEMMA LineOvertaken ==
    ASSUME incoming \in InboxRow, OvertakeLine
    PROVE  incoming' \in InboxRow /\ IncomingKept
<1>1. PICK b \in BOOLEAN : /\ b = (incoming.moved \/ (incoming.phase = "line" /\ Blocked(incoming.seq)))
                          /\ incoming' = [incoming EXCEPT !.moved = b]
  BY DEF OvertakeLine
<1>2. incoming' \in InboxRow /\ incoming'.phase = incoming.phase /\ incoming'.seq = incoming.seq
      /\ incoming'.moved = b
  BY <1>1 DEF InboxRow
<1> QED BY <1>1, <1>2 DEF IncomingKept

\* What the origin is about to send
LEMMA IncomingStays ==
    ASSUME JobTypes, JobTypes', Cursors, Incoming, LogKept, told' = told,
           \/ incoming' = NotDelivering
           \/ /\ IncomingKept /\ route'.settled = route.settled
              /\ route.accepted <= route'.accepted
    PROVE  Incoming'
<1>0. /\ route.settled \in Nat /\ route.accepted \in Nat /\ route'.accepted \in Nat
      /\ route.accepted <= Len(log) /\ Len(log) \in Nat
  <2>1. arrived \in Nat
    BY DEF JobTypes
  <2> QED BY <2>1, Sizes, SizesNext DEF Cursors
<1>1. CASE incoming' = NotDelivering
  BY <1>1 DEF Incoming, NotDelivering
<1>2. CASE /\ IncomingKept /\ route'.settled = route.settled
           /\ route.accepted <= route'.accepted
  <2> SUFFICES ASSUME incoming.phase # "none"
               PROVE  /\ incoming.seq = route'.settled + 1 /\ incoming.seq <= route'.accepted
                      /\ incoming.phase = "check" => log'[incoming.seq].kind = "blocked"
                      /\ incoming.phase = "delivered" => \E i \in DOMAIN told : told[i].seq = incoming.seq
                      /\ incoming.phase = "suppressed" => log'[incoming.seq].suppressed
                      /\ incoming.phase = "line" /\ log'[incoming.seq].kind = "blocked"
                            => head' \/ incoming'.moved
    BY <1>2 DEF Incoming, IncomingKept, Blocked, Told
  <2>1. /\ incoming.seq = route.settled + 1 /\ incoming.seq <= route.accepted
        /\ incoming.phase = "check" => log[incoming.seq].kind = "blocked"
        /\ incoming.phase = "delivered" => \E i \in DOMAIN told : told[i].seq = incoming.seq
        /\ incoming.phase = "suppressed" => log[incoming.seq].suppressed
        /\ incoming.phase = "line" /\ log[incoming.seq].kind = "blocked" => head \/ incoming.moved
    BY DEF Incoming, Blocked, Told
  <2>2. incoming.seq \in 1 .. Len(log)
    BY <1>0, <2>1
  <2>3. log'[incoming.seq].kind = log[incoming.seq].kind
        /\ (log[incoming.seq].suppressed => log'[incoming.seq].suppressed)
    BY <2>2 DEF LogKept
  <2> QED BY <1>0, <1>2, <2>1, <2>3 DEF IncomingKept, Blocked
<1> QED BY <1>1, <1>2

\* A step that tells and settles nothing and adds no event
LEMMA JobStays ==
    ASSUME JobInv, JobTypes', Cursors', Outgoing', LogKept, EpisodesKept, Len(log') = Len(log),
           told' = told, route'.settled <= route.settled, Incoming'
    PROVE  JobInv'
<1>0. /\ JobTypes /\ Cursors /\ Announced /\ OneNoticePerEpisode /\ ToldIsLogged
      /\ NoticesAreCurrent /\ SettledWasTold
  BY DEF JobInv
<1>1. Announced' /\ OneNoticePerEpisode'
  BY <1>0, NoticesStay
<1>2. ToldIsLogged' /\ NoticesAreCurrent' /\ SettledWasTold'
  BY <1>0, ToldStays
<1> QED BY <1>1, <1>2 DEF JobInv

\* A step that leaves the cursors and the senders
LEMMA QuietStep ==
    ASSUME JobInv, JobTypes', LogKept, EpisodesKept, Len(log') = Len(log),
           UNCHANGED <<acked, outgoing, told, arrived>>, IncomingKept,
           route'.accepted = route.accepted, route'.settled = route.settled
    PROVE  JobInv'
<1>0. JobTypes /\ Cursors /\ Outgoing /\ Incoming
  BY DEF JobInv
<1>1. route.accepted \in Nat /\ route.settled \in Nat
  BY <1>0 DEF JobTypes
<1>2. Cursors' /\ Outgoing'
  BY <1>0 DEF Cursors, Outgoing
<1>3. route.accepted <= route'.accepted /\ route'.settled <= route.settled
  BY <1>1
<1>4. Incoming'
  BY <1>0, <1>3, IncomingStays
<1> QED BY <1>2, <1>3, <1>4, JobStays

-----------------------------------------------------------------------------
(* Submission *)

\* Only the submission of the route, the request and the job's row change
LEMMA SubmissionKeeps ==
    ASSUME JobInv,
           \/ submit \/ execute \/ execute_late \/ submit_lost \/ check_on_authority
           \/ \E definite \in BOOLEAN : submit_answered(definite)
    PROVE  JobInv'
<1>0. JobTypes
  BY DEF JobInv
<1> DEFINE R == [submission : RouteStates, accepted : 0 .. MaxJobSeq, settled : 0 .. MaxJobSeq]
           S == [phase : {"idle", "waiting", "accepted", "refused"},
                 read : RouteStates, current : BOOLEAN, late : BOOLEAN]
<1>1. route \in R /\ submits \in S /\ fit \in BOOLEAN /\ stored \in BOOLEAN /\ jobFaults \in 0 .. MaxJobFaults
  BY <1>0 DEF JobTypes
<1>2. ASSUME NEW s \in RouteStates
      PROVE  /\ [route EXCEPT !.submission = s] \in R
             /\ [route EXCEPT !.submission = s].accepted = route.accepted
             /\ [route EXCEPT !.submission = s].settled = route.settled
  BY <1>1
<1>3. /\ insert_job_route \in R /\ insert_job_route.accepted = route.accepted
      /\ insert_job_route.settled = route.settled
  <2>1. "unknown" \in RouteStates /\ route.submission \in RouteStates
    BY <1>1 DEF RouteStates
  <2> QED BY <1>2, <2>1 DEF insert_job_route
<1>4. ASSUME NEW a \in RouteStates
      PROVE  /\ resolve_job_route(a) \in R /\ resolve_job_route(a).accepted = route.accepted
             /\ resolve_job_route(a).settled = route.settled
  <2>1. route.submission \in RouteStates
    BY <1>1
  <2> QED BY <1>2, <1>4, <2>1 DEF resolve_job_route
<1>5. /\ route' \in R /\ route'.accepted = route.accepted /\ route'.settled = route.settled
      /\ submits' \in S /\ fit' \in BOOLEAN /\ stored' \in BOOLEAN /\ jobFaults' \in 0 .. MaxJobFaults
      /\ UNCHANGED <<head, episodes, reading, log, acked, outgoing, incoming, told, arrived>>
  <2>1. CASE submit
    <3>1. insert_job_route.submission \in RouteStates
      BY <1>3
    <3>2. /\ route' = insert_job_route
          /\ submits' = [submits EXCEPT !.phase = "waiting", !.read = insert_job_route.submission,
                                        !.current = TRUE]
          /\ UNCHANGED <<fit, stored, jobFaults>>
          /\ UNCHANGED <<head, episodes, reading, log, acked, outgoing, incoming, told, arrived>>
      BY <2>1 DEF submit, Notices, Events
    <3> HIDE DEF R
    <3> QED BY <1>1, <1>3, <3>1, <3>2
  <2>2. CASE execute
    <3>1. /\ stored' = (stored \/ fit)
          /\ submits' = [submits EXCEPT !.current = FALSE,
                             !.phase = IF stored \/ fit THEN "accepted" ELSE "refused"]
          /\ UNCHANGED <<route, fit, jobFaults>>
          /\ UNCHANGED <<head, episodes, reading, log, acked, outgoing, incoming, told, arrived>>
      BY <2>2 DEF execute, Notices, Events
    <3> QED BY <1>1, <3>1
  <2>3. CASE execute_late
    BY <1>1, <2>3 DEF execute_late, Notices, Events
  <2>4. CASE submit_lost
    <3>1. jobFaults' \in 0 .. MaxJobFaults
      BY <1>1, <2>4, JobDeliveryAssumption DEF submit_lost, Fault
    <3> QED BY <1>1, <2>4, <3>1 DEF submit_lost, Notices, Events
  <2>5. CASE check_on_authority
    BY <1>1, <2>5 DEF check_on_authority, Origin, Notices, Events
  <2>6. ASSUME NEW definite \in BOOLEAN, submit_answered(definite)
        PROVE  /\ route' \in R /\ route'.accepted = route.accepted /\ route'.settled = route.settled
               /\ submits' \in S /\ UNCHANGED <<fit, stored, jobFaults>>
               /\ UNCHANGED <<head, episodes, reading, log, acked, outgoing, incoming, told, arrived>>
    <3>1. /\ submits' = [submits EXCEPT !.phase = "idle"] /\ UNCHANGED <<fit, stored, jobFaults>>
          /\ UNCHANGED <<head, episodes, reading, log, acked, outgoing, incoming, told, arrived>>
      BY <2>6 DEF submit_answered, Notices, Events
    <3>2. \/ route' = resolve_job_route("accepted") \/ route' = resolve_job_route("rejected")
          \/ route' = route
      BY <2>6 DEF submit_answered
    <3>3. "accepted" \in RouteStates /\ "rejected" \in RouteStates
      BY DEF RouteStates
    <3> HIDE DEF R
    <3> QED BY <1>1, <1>4, <3>1, <3>2, <3>3
  <2> HIDE DEF R, S
  <2> QED BY <1>1, <2>1, <2>2, <2>3, <2>4, <2>5, <2>6
<1>6. JobTypes'
  BY <1>0, <1>5 DEF JobTypes
<1>7. LogKept /\ EpisodesKept /\ Len(log') = Len(log)
  BY <1>0, <1>5, LogStays, EpisodesStay
<1>8. IncomingKept
  BY <1>5 DEF IncomingKept
<1> QED BY <1>5, <1>6, <1>7, <1>8, QuietStep

-----------------------------------------------------------------------------
(* Notices and events at the authority *)

LEMMA OpenEpisodeType ==
    ASSUME JobTypes
    PROVE  /\ OpenEpisode \in 0 .. MaxEpisodes
           /\ OpenEpisode # 0 => OpenEpisode \in 1 .. Len(episodes) /\ episodes[OpenEpisode].open
<1>1. DOMAIN episodes = 1 .. Len(episodes) /\ Len(episodes) \in Nat /\ Len(episodes) <= MaxEpisodes
  BY Sizes DEF JobTypes
<1>2. CASE blocked_episode = {}
  BY <1>2, JobDeliveryAssumption DEF OpenEpisode
<1>3. CASE blocked_episode # {}
  <2>1. OpenEpisode \in blocked_episode
    BY <1>3 DEF OpenEpisode
  <2>2. OpenEpisode \in 1 .. Len(episodes) /\ episodes[OpenEpisode].open
    BY <1>1, <2>1 DEF blocked_episode
  <2> QED BY <1>1, <2>2, JobDeliveryAssumption
<1> QED BY <1>2, <1>3

\* One episode is rewritten; what was announced stays so
LEMMA EpisodeRewritten ==
    ASSUME JobTypes, NEW i, i \in 1 .. Len(episodes), NEW e \in EpisodeRow,
           episodes[i].notified => e.notified
    PROVE  /\ [episodes EXCEPT ![i] = e] \in Seq(EpisodeRow)
           /\ Len([episodes EXCEPT ![i] = e]) = Len(episodes)
           /\ [episodes EXCEPT ![i] = e][i] = e
           /\ \A k \in 1 .. Len(episodes) : episodes[k].notified => [episodes EXCEPT ![i] = e][k].notified
<1>1. episodes \in Seq(EpisodeRow)
  BY DEF JobTypes
<1> QED BY <1>1

LEMMA EndOpenType ==
    ASSUME JobTypes
    PROVE  /\ EndOpen(episodes) \in Seq(EpisodeRow) /\ Len(EndOpen(episodes)) = Len(episodes)
           /\ \A k \in 1 .. Len(episodes) : EndOpen(episodes)[k].notified = episodes[k].notified
<1>1. DOMAIN episodes = 1 .. Len(episodes) /\ Len(episodes) \in Nat
      /\ \A i \in 1 .. Len(episodes) : episodes[i] \in EpisodeRow
  BY Sizes
<1>2. \A i \in 1 .. Len(episodes) : /\ [episodes[i] EXCEPT !.open = FALSE] \in EpisodeRow
                                   /\ [episodes[i] EXCEPT !.open = FALSE].notified = episodes[i].notified
  BY <1>1 DEF EpisodeRow
<1>3. EndOpen(episodes) = [i \in 1 .. Len(episodes) |-> [episodes[i] EXCEPT !.open = FALSE]]
  BY <1>1 DEF EndOpen
<1>4. EndOpen(episodes) \in [1 .. Len(episodes) -> EpisodeRow]
  BY <1>2, <1>3
<1>5. EndOpen(episodes) \in Seq(EpisodeRow) /\ Len(EndOpen(episodes)) = Len(episodes)
  BY <1>1, <1>4
<1> QED BY <1>2, <1>3, <1>5

LEMMA RecordedType ==
    ASSUME JobTypes, NEW h
    PROVE  /\ record_blocked_head(h) \in Seq(EpisodeRow)
           /\ Len(episodes) <= Len(record_blocked_head(h))
           /\ \A k \in 1 .. Len(episodes) :
                 episodes[k].notified => record_blocked_head(h)[k].notified
<1> DEFINE E == EndOpen(episodes)
           new == [open |-> TRUE, due |-> FALSE, notified |-> FALSE]
<1>1. episodes \in Seq(EpisodeRow) /\ Len(episodes) \in Nat
  BY Sizes DEF JobTypes
<1>2. E \in Seq(EpisodeRow) /\ Len(E) = Len(episodes)
      /\ \A k \in 1 .. Len(episodes) : E[k].notified = episodes[k].notified
  BY EndOpenType
<1>3. new \in EpisodeRow
  BY DEF EpisodeRow
<1>4. record_blocked_head(h) \in {episodes, E, Append(E, new)}
  BY DEF record_blocked_head
<1> HIDE DEF E, new
<1>5. Append(E, new) \in Seq(EpisodeRow) /\ Len(Append(E, new)) = Len(E) + 1
      /\ \A k \in 1 .. Len(E) : Append(E, new)[k] = E[k]
  BY <1>2, <1>3
<1> QED BY <1>1, <1>2, <1>4, <1>5

LEMMA NoticeStepKeeps ==
    ASSUME JobInv, queue_moves \/ threshold_passes \/ queue_snapshot \/ record_head
    PROVE  JobInv'
<1>0. JobTypes
  BY DEF JobInv
<1>1. UNCHANGED <<submits, fit, stored, route, told, arrived, log, acked, outgoing, jobFaults>>
  BY DEF queue_moves, threshold_passes, queue_snapshot, record_head, Submit, Origin, Events
<1>a. incoming' \in InboxRow /\ IncomingKept
  <2>0. incoming \in InboxRow
    BY <1>0 DEF JobTypes, InboxRow
  <2>1. CASE queue_moves
    BY <2>0, <2>1, LineOvertaken DEF queue_moves
  <2>2. CASE threshold_passes \/ queue_snapshot \/ record_head
    <3>1. incoming' = incoming /\ head' = head
      BY <2>2 DEF threshold_passes, queue_snapshot, record_head, Origin
    <3> QED BY <2>0, <3>1 DEF IncomingKept
  <2> QED BY <2>1, <2>2
<1>2. /\ head' \in BOOLEAN /\ reading' \in [head : BOOLEAN, episode : 0 .. MaxEpisodes, active : BOOLEAN]
      /\ episodes' \in Seq(EpisodeRow) /\ Len(episodes') <= MaxEpisodes /\ EpisodesKept
  <2>1. CASE queue_moves
    BY <1>0, <2>1, EpisodesStay DEF queue_moves, JobTypes
  <2>2. CASE queue_snapshot
    BY <1>0, <2>2, EpisodesStay, OpenEpisodeType DEF queue_snapshot, JobTypes
  <2>3. CASE threshold_passes
    <3> DEFINE i == OpenEpisode
               e == [episodes[i] EXCEPT !.due = TRUE]
    <3>1. i \in 1 .. Len(episodes) /\ episodes' = [episodes EXCEPT ![i] = e] /\ UNCHANGED <<head, reading>>
      BY <1>0, <2>3, OpenEpisodeType DEF threshold_passes
    <3>2. episodes[i] \in EpisodeRow
      BY <1>0, <3>1, Sizes
    <3>3. e \in EpisodeRow /\ e.notified = episodes[i].notified
      BY <3>2 DEF EpisodeRow
    <3> HIDE DEF i, e
    <3>4. /\ episodes' \in Seq(EpisodeRow) /\ Len(episodes') = Len(episodes)
          /\ \A k \in 1 .. Len(episodes) : episodes[k].notified => episodes'[k].notified
      BY <1>0, <3>1, <3>3, EpisodeRewritten
    <3>5. Len(episodes) \in Nat /\ Len(episodes) <= MaxEpisodes
      BY <1>0, Sizes DEF JobTypes
    <3> QED BY <1>0, <3>1, <3>4, <3>5 DEF EpisodesKept, JobTypes
  <2>4. CASE record_head
    <3>1. /\ \/ episodes' = episodes
             \/ episodes' = record_blocked_head(reading.head)
          /\ Len(episodes') <= MaxEpisodes /\ reading' = NoReading /\ head' = head
      BY <2>4 DEF record_head
    <3>2. EpisodesKept /\ episodes' \in Seq(EpisodeRow)
      <4>1. CASE episodes' = episodes
        BY <1>0, <4>1, EpisodesStay DEF JobTypes
      <4>2. CASE episodes' = record_blocked_head(reading.head)
        BY <1>0, <4>2, RecordedType DEF EpisodesKept
      <4> QED BY <3>1, <4>1, <4>2
    <3> QED BY <1>0, <3>1, <3>2, JobDeliveryAssumption DEF JobTypes, NoReading
  <2> QED BY <2>1, <2>2, <2>3, <2>4
<1>3. JobTypes'
  BY <1>0, <1>1, <1>a, <1>2 DEF JobTypes, InboxRow
<1>4. LogKept /\ Len(log') = Len(log)
  BY <1>0, <1>1, LogStays
<1> QED BY <1>1, <1>a, <1>2, <1>3, <1>4, QuietStep

\* An event is added to the log
LEMMA EventAdded ==
    ASSUME JobInv, JobTypes', NEW e \in EventRow, log' = Append(log, e), EpisodesKept,
           e.kind = "blocked" => /\ e.episode \in 1 .. Len(episodes) /\ episodes'[e.episode].notified
                                 /\ ~episodes[e.episode].notified,
           UNCHANGED <<route, acked, outgoing, told, arrived>>, IncomingKept
    PROVE  JobInv'
<1>0. /\ JobTypes /\ Cursors /\ Outgoing /\ Incoming /\ Announced /\ OneNoticePerEpisode
      /\ ToldIsLogged /\ NoticesAreCurrent /\ SettledWasTold
  BY DEF JobInv
<1>1. /\ log \in Seq(EventRow) /\ Len(log) \in Nat /\ DOMAIN log = 1 .. Len(log)
      /\ Len(episodes) \in Nat /\ Len(episodes') \in Nat
      /\ route.accepted \in Nat /\ route.settled \in Nat /\ arrived \in Nat
  BY <1>0, Sizes, SizesNext DEF JobTypes
<1>2. /\ Len(log') = Len(log) + 1 /\ \A i \in 1 .. Len(log) : log'[i] = log[i]
      /\ log'[Len(log) + 1] = e /\ DOMAIN log' = 1 .. Len(log) + 1
  BY <1>1
<1>3. LogKept
  BY <1>1, <1>2 DEF LogKept
<1>4. Cursors'
  BY <1>0, <1>1, <1>2 DEF Cursors
<1>5. Outgoing'
  <2>1. outgoing.original \in Nat
    BY <1>0 DEF JobTypes
  <2> QED BY <1>0, <1>1, <1>2, <2>1 DEF Outgoing
<1>6. Incoming'
  <2>1. route.accepted <= route'.accepted /\ route'.settled = route.settled
    BY <1>1
  <2> QED BY <1>0, <1>3, <2>1, IncomingStays
<1>7. ToldIsLogged' /\ NoticesAreCurrent' /\ SettledWasTold'
  <2>1. route'.settled <= route.settled
    BY <1>1
  <2> QED BY <1>0, <1>3, <2>1, ToldStays
<1>8. Announced'
  <2> SUFFICES ASSUME NEW i \in 1 .. Len(log'), log'[i].kind = "blocked"
               PROVE  log'[i].episode \in 1 .. Len(episodes') /\ episodes'[log'[i].episode].notified
    BY DEF Announced, Blocked
  <2>1. CASE i = Len(log) + 1
    BY <1>1, <1>2, <2>1 DEF EpisodesKept
  <2>2. CASE i \in 1 .. Len(log)
    <3>1. log'[i] = log[i]
      BY <1>2, <2>2
    <3>2. log[i].episode \in 1 .. Len(episodes) /\ episodes[log[i].episode].notified
      BY <1>0, <2>2, <3>1 DEF Announced, Blocked
    <3> QED BY <1>1, <3>1, <3>2 DEF EpisodesKept
  <2> QED BY <1>1, <1>2, <2>1, <2>2
<1>9. OneNoticePerEpisode'
  <2> SUFFICES ASSUME NEW i \in 1 .. Len(log) + 1, NEW k \in 1 .. Len(log) + 1,
                      log'[i].kind = "blocked", log'[k].kind = "blocked", i # k
               PROVE  log'[i].episode # log'[k].episode
    BY <1>2 DEF OneNoticePerEpisode, Blocked
  <2>1. ASSUME NEW m \in 1 .. Len(log), log[m].kind = "blocked", e.kind = "blocked"
        PROVE  log[m].episode # e.episode
    BY <1>0, <2>1 DEF Announced, Blocked
  <2>2. CASE i \in 1 .. Len(log) /\ k \in 1 .. Len(log)
    BY <1>0, <1>1, <1>2, <2>2 DEF OneNoticePerEpisode, Blocked
  <2>3. CASE i = Len(log) + 1 /\ k \in 1 .. Len(log)
    BY <1>2, <2>1, <2>3
  <2>4. CASE k = Len(log) + 1 /\ i \in 1 .. Len(log)
    BY <1>2, <2>1, <2>4
  <2> QED BY <1>1, <2>2, <2>3, <2>4
<1> QED BY <1>4, <1>5, <1>6, <1>7, <1>8, <1>9 DEF JobInv

LEMMA EventStepKeeps ==
    ASSUME JobInv,
           \/ produce_job_blocked
           \/ \E kind \in {"check_due", "final"} : append_event(kind)
    PROVE  JobInv'
<1>0. JobTypes
  BY DEF JobInv
<1>a. log \in Seq(EventRow) /\ Len(log) \in Nat /\ Len(episodes) <= MaxEpisodes /\ Len(episodes) \in Nat
  BY <1>0, Sizes DEF JobTypes
<1>1. CASE produce_job_blocked
  <2>1. PICK i \in Announceable :
          /\ episodes' = [episodes EXCEPT ![i].notified = TRUE]
          /\ log' = Append(log, [kind |-> "blocked", episode |-> i, suppressed |-> FALSE])
    BY <1>1 DEF produce_job_blocked
  <2>2. /\ Len(log) < MaxJobSeq - 1
        /\ UNCHANGED <<submits, fit, stored, route, incoming, told, arrived, head, reading, acked, outgoing, jobFaults>>
    BY <1>1 DEF produce_job_blocked, Submit, Origin
  <2>3. i \in 1 .. Len(episodes) /\ ~episodes[i].notified
    BY <1>0, <2>1, Sizes DEF Announceable
  <2> DEFINE e == [kind |-> "blocked", episode |-> i, suppressed |-> FALSE]
             f == [episodes[i] EXCEPT !.notified = TRUE]
  <2>4. i \in 0 .. MaxEpisodes
    BY <1>a, <2>3, JobDeliveryAssumption
  <2>5. e \in EventRow /\ e.kind = "blocked" /\ e.episode = i
    BY <2>4 DEF EventRow
  <2>6. f \in EpisodeRow /\ f.notified = TRUE
    <3>1. episodes[i] \in EpisodeRow
      BY <1>0, <2>3, Sizes
    <3> QED BY <3>1 DEF EpisodeRow
  <2>7. log' = Append(log, e) /\ episodes' = [episodes EXCEPT ![i] = f]
    BY <2>1
  <2> HIDE DEF e, f
  <2>8. /\ episodes' \in Seq(EpisodeRow) /\ Len(episodes') = Len(episodes) /\ episodes'[i] = f
        /\ \A k \in 1 .. Len(episodes) : episodes[k].notified => episodes'[k].notified
    BY <1>0, <2>3, <2>6, <2>7, EpisodeRewritten
  <2>9. EpisodesKept
    BY <1>a, <2>8 DEF EpisodesKept
  <2>10. log' \in Seq(EventRow) /\ Len(log') = Len(log) + 1
    BY <1>a, <2>5, <2>7
  <2>11. Len(log') <= MaxJobSeq
    BY <1>a, <2>2, <2>10, JobDeliveryAssumption
  <2>12. JobTypes'
    BY <1>0, <1>a, <2>2, <2>8, <2>10, <2>11 DEF JobTypes
  <2>13. IncomingKept
    BY <2>2 DEF IncomingKept
  <2> QED BY <2>2, <2>3, <2>5, <2>6, <2>7, <2>8, <2>9, <2>12, <2>13, EventAdded
<1>2. ASSUME NEW kind \in {"check_due", "final"}, append_event(kind) PROVE JobInv'
  <2> DEFINE e == [kind |-> kind, episode |-> 0, suppressed |-> FALSE]
  <2>1. /\ Len(log) < MaxJobSeq /\ log' = Append(log, e) /\ head' = (head /\ kind # "final")
        /\ UNCHANGED <<submits, fit, stored, route, told, arrived, episodes, reading, acked, outgoing, jobFaults>>
    <3>1. Len(log) < IF kind = "final" THEN MaxJobSeq ELSE MaxJobSeq - 1
      BY <1>2 DEF append_event
    <3>2. Len(log) < MaxJobSeq
      BY <1>a, <3>1, JobDeliveryAssumption
    <3> QED BY <1>2, <3>2 DEF append_event, Submit, Origin
  <2>2. e \in EventRow /\ e.kind # "blocked"
    BY JobDeliveryAssumption DEF EventRow
  <2> HIDE DEF e
  <2>3. log' \in Seq(EventRow) /\ Len(log') = Len(log) + 1
    BY <1>a, <2>1, <2>2
  <2>4. Len(log') <= MaxJobSeq
    BY <1>a, <2>1, <2>3, JobDeliveryAssumption
  <2>a. incoming' \in InboxRow /\ IncomingKept
    <3>0. incoming \in InboxRow
      BY <1>0 DEF JobTypes, InboxRow
    <3>1. CASE kind = "final"
      BY <1>2, <3>0, <3>1, LineOvertaken DEF append_event
    <3>2. CASE kind = "check_due"
      <4>1. incoming' = incoming /\ (head => head')
        BY <1>2, <2>1, <3>2 DEF append_event
      <4> QED BY <3>0, <4>1 DEF IncomingKept
    <3> QED BY <3>1, <3>2
  <2>5. JobTypes'
    <3>1. head' \in BOOLEAN
      BY <2>1
    <3> QED BY <1>0, <2>1, <2>3, <2>4, <2>a, <3>1 DEF JobTypes, InboxRow
  <2>6. EpisodesKept
    BY <1>0, <2>1, EpisodesStay
  <2> QED BY <2>1, <2>2, <2>a, <2>5, <2>6, EventAdded
<1> QED BY <1>1, <1>2

-----------------------------------------------------------------------------
(* Authority to origin *)

RouteRow == [submission : RouteStates, accepted : 0 .. MaxJobSeq, settled : 0 .. MaxJobSeq]

\* What the origin makes of an event that is in the log
LEMMA EventArrives ==
    ASSUME JobTypes, Cursors, NEW seq \in Nat, seq <= Len(log), accept_job_event(seq)
    PROVE  /\ route' \in RouteRow /\ arrived' \in Nat
           /\ route'.settled = route.settled /\ route.accepted <= route'.accepted
           /\ route'.accepted <= arrived' /\ arrived <= arrived' /\ arrived' <= Len(log)
           /\ Sequence(seq) # "gap" => seq <= arrived'
<1>1. /\ route \in RouteRow /\ route.accepted \in Nat /\ route.settled \in Nat /\ arrived \in Nat
      /\ Len(log) \in Nat /\ Len(log) <= MaxJobSeq
      /\ route.accepted <= arrived /\ arrived <= Len(log)
  BY Sizes DEF JobTypes, RouteRow, Cursors
<1>2. CASE Sequence(seq) = "next"
  <2>1. seq = route.accepted + 1
    BY <1>2 DEF Sequence
  <2>2. /\ route' = [route EXCEPT !.accepted = seq, !.submission = "accepted"]
        /\ arrived' = IF seq > arrived THEN seq ELSE arrived
    BY <1>2 DEF accept_job_event
  <2>3. seq \in 0 .. MaxJobSeq
    BY <1>1, JobDeliveryAssumption
  <2>4. route' \in RouteRow /\ route'.accepted = seq /\ route'.settled = route.settled
    BY <1>1, <2>2, <2>3 DEF RouteRow, RouteStates
  <2>5. seq <= arrived' /\ arrived <= arrived' /\ arrived' <= Len(log) /\ arrived' \in Nat
    BY <1>1, <2>2
  <2> QED BY <1>1, <2>1, <2>4, <2>5
<1>3. CASE Sequence(seq) # "next"
  <2>1. route' = route /\ arrived' = arrived
    BY <1>3 DEF accept_job_event
  <2>2. Sequence(seq) # "gap" => seq <= route.accepted
    BY <1>3 DEF Sequence
  <2> QED BY <1>1, <2>1, <2>2
<1> QED BY <1>2, <1>3

\* The authority's side of a delivery: what the origin settled stays
LEMMA SenderStep ==
    ASSUME JobInv, UNCHANGED <<submits, fit, stored, head, episodes, reading, log, incoming, told>>,
           route' \in RouteRow, arrived' \in Nat, acked' \in Nat, jobFaults' \in 0 .. MaxJobFaults,
           outgoing' \in [phase : {"none", "send", "acknowledged"}, seq : 0 .. MaxJobSeq,
                          original : 0 .. MaxJobSeq, requested : SUBSET (1 .. MaxJobSeq)],
           route'.settled = route.settled, route.accepted <= route'.accepted,
           Cursors', Outgoing'
    PROVE  JobInv'
<1>0. JobTypes /\ Cursors /\ Incoming
  BY DEF JobInv
<1>1. JobTypes'
  BY <1>0 DEF JobTypes, RouteRow
<1>2. LogKept /\ EpisodesKept /\ Len(log') = Len(log)
  BY <1>0, LogStays, EpisodesStay
<1>3. Incoming'
  <2>1. IncomingKept
    BY DEF IncomingKept
  <2> QED BY <1>0, <1>1, <1>2, <2>1, IncomingStays
<1>4. route'.settled <= route.settled
  <2>1. route.settled \in Nat
    BY <1>0, Sizes
  <2> QED BY <2>1
<1> QED BY <1>1, <1>2, <1>3, <1>4, JobStays

LEMMA OutgoingStepKeeps ==
    ASSUME JobInv,
           \/ pending_job_outbox \/ deliver_authority \/ acknowledge
           \/ \E arrives \in BOOLEAN : delivery_fails(arrives)
    PROVE  JobInv'
<1>0. JobTypes /\ Cursors /\ Outgoing
  BY DEF JobInv
<1> DEFINE O == [phase : {"none", "send", "acknowledged"}, seq : 0 .. MaxJobSeq,
                 original : 0 .. MaxJobSeq, requested : SUBSET (1 .. MaxJobSeq)]
<1>1. /\ outgoing \in O /\ route \in RouteRow /\ acked \in Nat /\ arrived \in Nat /\ jobFaults \in 0 .. MaxJobFaults
      /\ Len(log) \in Nat /\ Len(log) <= MaxJobSeq /\ route.settled \in Nat /\ route.accepted \in Nat
      /\ outgoing.seq \in Nat /\ outgoing.original \in Nat /\ MaxJobSeq \in Nat
      /\ outgoing.requested \in SUBSET (1 .. MaxJobSeq)
  BY <1>0, Sizes, JobDeliveryAssumption DEF JobTypes, RouteRow
<1>2. /\ acked <= arrived /\ arrived <= Len(log)
      /\ route.settled <= route.accepted /\ route.accepted <= arrived
  BY <1>0 DEF Cursors
<1>3. NotSending \in O /\ NotSending.phase = "none"
  BY <1>1 DEF NotSending
<1>4. CASE pending_job_outbox
  <2>1. /\ acked < Len(log)
        /\ outgoing' = [phase |-> "send", seq |-> acked + 1, original |-> acked + 1, requested |-> {}]
        /\ UNCHANGED <<submits, fit, stored, route, incoming, told, arrived, head, episodes, reading,
                       log, acked, jobFaults>>
    BY <1>4 DEF pending_job_outbox, Submit, Origin, Notices
  <2>2. acked + 1 \in 0 .. MaxJobSeq /\ 1 <= acked + 1 /\ acked + 1 <= Len(log)
    BY <1>1, <2>1
  <2>3. outgoing' \in O
    BY <2>1, <2>2
  <2>4. Outgoing'
    BY <1>1, <2>1, <2>2 DEF Outgoing
  <2>5. Cursors'
    BY <1>2, <2>1 DEF Cursors
  <2> QED BY <1>1, <2>1, <2>3, <2>4, <2>5, SenderStep
<1>5. CASE deliver_authority
  <2> DEFINE q == outgoing.seq
             expected == route.accepted + 1
  <2>1. /\ outgoing.phase = "send" /\ accept_job_event(q)
        /\ UNCHANGED <<submits, fit, stored, head, episodes, reading, log, incoming, told, acked, jobFaults>>
    BY <1>5 DEF deliver_authority, Submit, Notices
  <2>2. 1 <= q /\ q <= outgoing.original /\ outgoing.original <= Len(log)
    BY <1>0, <2>1 DEF Outgoing
  <2>3. /\ route' \in RouteRow /\ arrived' \in Nat
        /\ route'.settled = route.settled /\ route.accepted <= route'.accepted
        /\ route'.accepted <= arrived' /\ arrived <= arrived' /\ arrived' <= Len(log)
        /\ Sequence(q) # "gap" => q <= arrived'
    <3>1. q \in Nat /\ q <= Len(log)
      BY <1>1, <2>2
    <3> QED BY <1>0, <2>1, <3>1, EventArrives
  <2>4. route'.accepted \in Nat
    BY <2>3 DEF RouteRow
  <2>5. Cursors'
    BY <1>1, <1>2, <2>1, <2>3, <2>4 DEF Cursors
  <2>6. \/ Sequence(q) # "gap" /\ outgoing' = [outgoing EXCEPT !.phase = "acknowledged"]
        \/ /\ Sequence(q) = "gap"
           /\ outgoing' = [outgoing EXCEPT !.seq = expected, !.requested = @ \cup {expected}]
        \/ outgoing' = NotSending
    BY <1>5 DEF deliver_authority
  <2>7. outgoing' \in O /\ Outgoing'
    <3>1. CASE Sequence(q) # "gap" /\ outgoing' = [outgoing EXCEPT !.phase = "acknowledged"]
      <4>1. outgoing' \in O /\ outgoing'.seq = q /\ outgoing'.original = outgoing.original
        BY <1>1, <3>1
      <4> QED BY <2>1, <2>2, <2>3, <3>1, <4>1 DEF Outgoing
    <3>2. CASE /\ Sequence(q) = "gap"
               /\ outgoing' = [outgoing EXCEPT !.seq = expected, !.requested = @ \cup {expected}]
      <4>1. expected < q
        BY <1>1, <3>2 DEF Sequence
      <4>2. expected \in 1 .. MaxJobSeq
        BY <1>1, <2>2, <4>1
      <4>3. outgoing.requested \cup {expected} \in SUBSET (1 .. MaxJobSeq) /\ expected \in 0 .. MaxJobSeq
        BY <1>1, <4>2
      <4>4. /\ outgoing' \in O /\ outgoing'.seq = expected /\ outgoing'.original = outgoing.original
            /\ outgoing'.phase = "send"
        <5> HIDE DEF expected
        <5> QED BY <1>1, <2>1, <3>2, <4>3
      <4>5. 1 <= expected /\ expected <= outgoing.original
        BY <1>1, <2>2, <4>1, <4>2
      <4> HIDE DEF expected
      <4> QED BY <2>1, <2>2, <4>4, <4>5 DEF Outgoing
    <3>3. CASE outgoing' = NotSending
      BY <1>3, <3>3 DEF Outgoing
    <3> QED BY <2>6, <3>1, <3>2, <3>3
  <2> QED BY <1>1, <2>1, <2>3, <2>5, <2>7, SenderStep
<1>6. CASE acknowledge
  <2>1. /\ outgoing.phase = "acknowledged"
        /\ acked' = IF outgoing.seq = acked + 1 THEN outgoing.seq ELSE acked
        /\ outgoing' = IF outgoing.seq = outgoing.original THEN NotSending
                       ELSE [outgoing EXCEPT !.phase = "send", !.seq = @ + 1]
        /\ UNCHANGED <<submits, fit, stored, route, incoming, told, arrived, head, episodes, reading,
                       log, jobFaults>>
    BY <1>6 DEF acknowledge, acknowledge_job_event, Submit, Origin, Notices
  <2>2. /\ 1 <= outgoing.seq /\ outgoing.seq <= outgoing.original /\ outgoing.original <= Len(log)
        /\ outgoing.seq <= arrived
    BY <1>0, <2>1 DEF Outgoing
  <2>3. acked' \in Nat /\ acked' <= arrived
    BY <1>1, <1>2, <2>1, <2>2
  <2>4. Cursors'
    BY <1>2, <2>1, <2>3 DEF Cursors
  <2>5. outgoing' \in O /\ Outgoing'
    <3>1. CASE outgoing' = NotSending
      BY <1>3, <3>1 DEF Outgoing
    <3>2. CASE /\ outgoing.seq # outgoing.original
               /\ outgoing' = [outgoing EXCEPT !.phase = "send", !.seq = outgoing.seq + 1]
      <4>1. /\ outgoing.seq + 1 <= outgoing.original /\ 1 <= outgoing.seq + 1
            /\ outgoing.seq + 1 \in 0 .. MaxJobSeq
        BY <1>1, <2>2, <3>2
      <4>2. /\ outgoing' \in O /\ outgoing'.seq = outgoing.seq + 1 /\ outgoing'.original = outgoing.original
            /\ outgoing'.phase = "send"
        BY <1>1, <3>2, <4>1
      <4> QED BY <2>1, <2>2, <4>1, <4>2 DEF Outgoing
    <3> QED BY <2>1, <3>1, <3>2
  <2>6. route.accepted <= route'.accepted
    BY <1>1, <2>1
  <2> QED BY <1>1, <2>1, <2>3, <2>4, <2>5, <2>6, SenderStep
<1>7. ASSUME NEW arrives \in BOOLEAN, delivery_fails(arrives) PROVE JobInv'
  <2>1. /\ outgoing.phase # "none" /\ outgoing' = NotSending
        /\ UNCHANGED <<submits, fit, stored, head, episodes, reading, log, incoming, told, acked>>
    BY <1>7 DEF delivery_fails, Submit, Notices
  <2>2. accept_job_event(outgoing.seq) \/ UNCHANGED <<route, arrived>>
    BY <1>7 DEF delivery_fails
  <2>3. jobFaults' \in 0 .. MaxJobFaults
    BY <1>1, <1>7, JobDeliveryAssumption DEF delivery_fails, Fault
  <2>4. /\ route' \in RouteRow /\ arrived' \in Nat
        /\ route'.settled = route.settled /\ route.accepted <= route'.accepted
        /\ route'.accepted <= arrived' /\ arrived <= arrived' /\ arrived' <= Len(log)
    <3>1. CASE accept_job_event(outgoing.seq)
      <4>1. outgoing.seq <= Len(log)
        BY <1>0, <1>1, <2>1 DEF Outgoing
      <4> QED BY <1>0, <1>1, <3>1, <4>1, EventArrives
    <3>2. CASE UNCHANGED <<route, arrived>>
      BY <1>1, <1>2, <3>2
    <3> QED BY <2>2, <3>1, <3>2
  <2>5. route'.accepted \in Nat
    BY <2>4 DEF RouteRow
  <2>6. Cursors'
    BY <1>1, <1>2, <2>1, <2>4, <2>5 DEF Cursors
  <2>7. outgoing' \in O /\ Outgoing'
    BY <1>3, <2>1 DEF Outgoing
  <2> QED BY <1>1, <2>1, <2>3, <2>4, <2>6, <2>7, SenderStep
<1> QED BY <1>4, <1>5, <1>6, <1>7

-----------------------------------------------------------------------------
(* Origin to thread *)

\* The event that the origin is about to send is in the log, unsettled
LEMMA IncomingEvent ==
    ASSUME JobInv, incoming.phase # "none"
    PROVE  /\ incoming.seq = route.settled + 1 /\ incoming.seq <= route.accepted
           /\ incoming.seq \in 1 .. Len(log) /\ Len(log) \in Nat
<1>0. JobTypes /\ Cursors /\ Incoming
  BY DEF JobInv
<1>1. arrived \in Nat /\ route.settled \in Nat /\ route.accepted \in Nat /\ Len(log) \in Nat
  BY <1>0, Sizes DEF JobTypes
<1> QED BY <1>0, <1>1 DEF Cursors, Incoming

\* A stale notice ends its episode and is marked; nothing else is rewritten
LEMMA StaleMarked ==
    ASSUME JobInv, NEW seq \in 1 .. Len(log), Blocked(seq), MarkStale(seq)
    PROVE  /\ log' \in Seq(EventRow) /\ Len(log') = Len(log) /\ LogKept
           /\ episodes' \in Seq(EpisodeRow) /\ Len(episodes') = Len(episodes) /\ EpisodesKept
           /\ ~job_notice_is_current(seq) => log'[seq].suppressed
<1>0. JobTypes /\ Announced
  BY DEF JobInv
<1>1. log \in Seq(EventRow) /\ episodes \in Seq(EpisodeRow) /\ Len(log) \in Nat /\ Len(episodes) \in Nat
  BY <1>0, Sizes DEF JobTypes
<1>2. CASE job_notice_is_current(seq)
  <2>1. UNCHANGED <<episodes, log>>
    BY <1>2 DEF MarkStale
  <2> QED BY <1>0, <1>1, <1>2, <2>1, LogStays, EpisodesStay
<1>3. CASE ~job_notice_is_current(seq)
  <2> DEFINE i == log[seq].episode
             e == [episodes[i] EXCEPT !.open = FALSE]
             r == [log[seq] EXCEPT !.suppressed = TRUE]
  <2>1. i \in 1 .. Len(episodes) /\ episodes[i] \in EpisodeRow /\ log[seq] \in EventRow
    BY <1>0, Sizes DEF Announced
  <2>2. e \in EpisodeRow /\ e.notified = episodes[i].notified
    BY <2>1 DEF EpisodeRow
  <2>3. r \in EventRow /\ r.kind = log[seq].kind /\ r.episode = log[seq].episode /\ r.suppressed = TRUE
    BY <2>1 DEF EventRow
  <2>4. episodes' = [episodes EXCEPT ![i] = e] /\ log' = [log EXCEPT ![seq] = r]
    BY <1>3 DEF MarkStale
  <2> HIDE DEF i, e, r
  <2>5. /\ episodes' \in Seq(EpisodeRow) /\ Len(episodes') = Len(episodes)
        /\ \A k \in 1 .. Len(episodes) : episodes[k].notified => episodes'[k].notified
    BY <1>0, <2>1, <2>2, <2>4, EpisodeRewritten
  <2>6. /\ log' \in Seq(EventRow) /\ Len(log') = Len(log) /\ log'[seq] = r
        /\ \A k \in 1 .. Len(log) : k # seq => log'[k] = log[k]
    BY <1>1, <2>3, <2>4
  <2>7. LogKept
    BY <1>1, <2>3, <2>6 DEF LogKept
  <2>8. EpisodesKept
    BY <1>1, <2>5 DEF EpisodesKept
  <2> QED BY <2>3, <2>5, <2>6, <2>7, <2>8
<1> QED BY <1>2, <1>3

\* The origin's sender moves to its next phase and tells nobody
LEMMA InboxStep ==
    ASSUME JobInv, UNCHANGED <<submits, fit, stored, head, reading, acked, outgoing, told, arrived>>,
           log' \in Seq(EventRow), Len(log') = Len(log), LogKept,
           episodes' \in Seq(EpisodeRow), Len(episodes') = Len(episodes), EpisodesKept,
           route' \in RouteRow, incoming' \in InboxRow, jobFaults' \in 0 .. MaxJobFaults,
           route'.settled <= route.settled, route'.settled <= route'.accepted,
           route'.accepted <= route.accepted, Incoming'
    PROVE  JobInv'
<1>0. JobTypes /\ Cursors /\ Outgoing
  BY DEF JobInv
<1>1. JobTypes'
  BY <1>0 DEF JobTypes, RouteRow, InboxRow
<1>2. Cursors'
  <2>1. route.accepted \in Nat /\ route'.accepted \in Nat /\ arrived \in Nat
    BY <1>0 DEF JobTypes, RouteRow
  <2> QED BY <1>0, <2>1 DEF Cursors
<1>3. Outgoing'
  BY <1>0 DEF Outgoing
<1> QED BY <1>1, <1>2, <1>3, JobStays

LEMMA InboxStepKeeps ==
    ASSUME JobInv,
           pending_job_inbox \/ notice_current \/ origin_fails \/ job_origin_restored
    PROVE  JobInv'
<1>0. JobTypes /\ Cursors /\ Incoming
  BY DEF JobInv
<1>1. /\ route \in RouteRow /\ incoming \in InboxRow /\ jobFaults \in 0 .. MaxJobFaults
      /\ route.settled \in Nat /\ route.accepted \in Nat /\ arrived \in Nat /\ Len(log) \in Nat
      /\ route.settled <= route.accepted /\ route.accepted <= Len(log) /\ Len(log) <= MaxJobSeq
      /\ MaxJobSeq \in Nat
  <2>1. arrived \in Nat /\ route \in RouteRow /\ incoming \in InboxRow /\ jobFaults \in 0 .. MaxJobFaults
        /\ Len(log) <= MaxJobSeq
    BY <1>0 DEF JobTypes, RouteRow, InboxRow
  <2> QED BY <1>0, <2>1, Sizes, JobDeliveryAssumption DEF Cursors
<1>2. /\ log \in Seq(EventRow) /\ episodes \in Seq(EpisodeRow)
  BY <1>0 DEF JobTypes
<1>3. NotDelivering \in InboxRow
  BY <1>1 DEF NotDelivering, InboxRow
<1>4. ASSUME UNCHANGED <<episodes, log>>
      PROVE  /\ log' \in Seq(EventRow) /\ Len(log') = Len(log) /\ LogKept
             /\ episodes' \in Seq(EpisodeRow) /\ Len(episodes') = Len(episodes) /\ EpisodesKept
  BY <1>0, <1>2, <1>4, LogStays, EpisodesStay
<1>5. CASE pending_job_inbox
  <2> DEFINE q == route.settled + 1
             p == IF Blocked(q) THEN "check" ELSE "send"
  <2>1. /\ route.settled < route.accepted /\ incoming' = [phase |-> p, seq |-> q, moved |-> FALSE]
        /\ UNCHANGED <<submits, fit, stored, route, told, arrived, head, episodes, reading, log, acked,
                       outgoing, jobFaults>>
    BY <1>5 DEF pending_job_inbox, Submit, Notices, Events
  <2>2. q \in 0 .. MaxJobSeq /\ q <= route.accepted
    BY <1>1, <2>1
  <2>3. p \in {"check", "send"} /\ (p = "check" => Blocked(q))
    OBVIOUS
  <2>4. Incoming'
    <3>1. incoming'.phase = p /\ incoming'.seq = q
      BY <2>1
    <3>2. p = "check" => log'[q].kind = "blocked"
      BY <2>1 DEF Blocked
    <3> HIDE DEF p
    <3>3. incoming'.phase # "delivered" /\ incoming'.phase # "suppressed" /\ incoming'.phase # "line"
      BY <2>3, <3>1
    <3> QED BY <2>1, <2>2, <3>1, <3>2, <3>3 DEF Incoming, Blocked
  <2>5. incoming' \in InboxRow
    <3> HIDE DEF p, q
    <3> QED BY <2>1, <2>2, <2>3 DEF InboxRow
  <2>6. route'.settled <= route.settled /\ route'.settled <= route'.accepted /\ route'.accepted <= route.accepted
    BY <1>1, <2>1
  <2> QED BY <1>1, <1>4, <2>1, <2>4, <2>5, <2>6, InboxStep
<1>6. CASE notice_current
  <2> DEFINE q == incoming.seq
             p == IF job_notice_is_current(q) THEN "send" ELSE "suppressed"
  <2>1. /\ incoming.phase = "check" /\ incoming' = [incoming EXCEPT !.phase = p] /\ MarkStale(q)
        /\ UNCHANGED <<submits, fit, stored, route, told, arrived, head, reading, acked, outgoing, jobFaults>>
    BY <1>6 DEF notice_current, Submit
  <2>2. q = route.settled + 1 /\ q <= route.accepted /\ q \in 1 .. Len(log)
    BY <2>1, IncomingEvent
  <2>3. Blocked(q)
    BY <1>0, <2>1 DEF Incoming
  <2>4. /\ log' \in Seq(EventRow) /\ Len(log') = Len(log) /\ LogKept
        /\ episodes' \in Seq(EpisodeRow) /\ Len(episodes') = Len(episodes) /\ EpisodesKept
        /\ ~job_notice_is_current(q) => log'[q].suppressed
    BY <2>1, <2>2, <2>3, StaleMarked
  <2>5. p \in {"send", "suppressed"} /\ (p = "suppressed" => ~job_notice_is_current(q))
    OBVIOUS
  <2> HIDE DEF p
  <2>6. incoming' \in InboxRow /\ incoming'.phase = p /\ incoming'.seq = q
    BY <1>1, <2>1, <2>5 DEF InboxRow
  <2>7. Incoming'
    <3>1. p \in {"send", "suppressed"} /\ (p = "suppressed" => log'[q].suppressed)
      BY <2>4, <2>5
    <3> QED BY <2>1, <2>2, <2>6, <3>1 DEF Incoming
  <2>8. route'.settled <= route.settled /\ route'.settled <= route'.accepted /\ route'.accepted <= route.accepted
    BY <1>1, <2>1
  <2> QED BY <1>1, <2>1, <2>4, <2>6, <2>7, <2>8, InboxStep
<1>7. CASE origin_fails
  <2>1. /\ incoming' = NotDelivering /\ Fault
        /\ UNCHANGED <<submits, fit, stored, route, told, arrived, head, episodes, reading, log, acked, outgoing>>
    BY <1>7 DEF origin_fails, Submit, Notices, Events
  <2>2. jobFaults' \in 0 .. MaxJobFaults
    BY <1>1, <2>1, JobDeliveryAssumption DEF Fault
  <2>3. Incoming'
    BY <2>1 DEF Incoming, NotDelivering
  <2>4. route'.settled <= route.settled /\ route'.settled <= route'.accepted /\ route'.accepted <= route.accepted
    BY <1>1, <2>1
  <2> QED BY <1>1, <1>3, <1>4, <2>1, <2>2, <2>3, <2>4, InboxStep
<1>8. CASE job_origin_restored
  <2>1. PICK n \in 0 .. route.accepted - 1 :
            route' = [route EXCEPT !.accepted = n, !.settled = IF @ > n THEN n ELSE @]
    BY <1>8 DEF job_origin_restored
  <2>2. /\ incoming' = NotDelivering /\ Fault
        /\ UNCHANGED <<submits, fit, stored, told, arrived, head, episodes, reading, log, acked, outgoing>>
    BY <1>8 DEF job_origin_restored, Submit, Notices, Events
  <2>3. jobFaults' \in 0 .. MaxJobFaults
    BY <1>1, <2>2, JobDeliveryAssumption DEF Fault
  <2>4. Incoming'
    BY <2>2 DEF Incoming, NotDelivering
  <2> DEFINE s == IF route.settled > n THEN n ELSE route.settled
  <2>5. n \in 0 .. MaxJobSeq /\ n <= route.accepted /\ s \in 0 .. MaxJobSeq /\ s <= route.settled /\ s <= n
    BY <1>1, <2>1
  <2>6. route' = [route EXCEPT !.accepted = n, !.settled = s]
    BY <2>1
  <2> HIDE DEF s
  <2>7. route' \in RouteRow /\ route'.accepted = n /\ route'.settled = s
    BY <1>1, <2>5, <2>6 DEF RouteRow
  <2> QED BY <1>1, <1>3, <1>4, <2>2, <2>3, <2>4, <2>5, <2>7, InboxStep
<1> QED BY <1>5, <1>6, <1>7, <1>8

\* The line reaches the thread: its event is the one after the settled ones
LEMMA LineTold ==
    ASSUME JobInv, incoming.phase = "line",
           incoming' = [phase |-> "delivered", seq |-> incoming.seq, moved |-> FALSE],
           told' = Append(told, [seq |-> incoming.seq, current |-> Blocked(incoming.seq) => head \/ incoming.moved]),
           UNCHANGED <<submits, fit, stored, route, arrived, head, episodes, reading, log, acked,
                       outgoing, jobFaults>>
    PROVE  JobInv'
<1>0. /\ JobTypes /\ Cursors /\ Outgoing /\ Incoming /\ Announced /\ OneNoticePerEpisode
      /\ ToldIsLogged /\ NoticesAreCurrent /\ SettledWasTold
  BY DEF JobInv
<1> DEFINE q == incoming.seq
           t == [seq |-> q, current |-> Blocked(q) => head \/ incoming.moved]
           N == Len(told)
<1>1. q = route.settled + 1 /\ q <= route.accepted /\ q \in 1 .. Len(log) /\ Len(log) \in Nat
  BY IncomingEvent
<1>2. /\ told \in Seq(ToldRow) /\ N \in Nat /\ DOMAIN told = 1 .. N /\ route.settled \in Nat
      /\ \A i \in 1 .. N : told[i].seq \in Nat /\ told[i].seq >= 1
      /\ Len(log) <= MaxJobSeq /\ MaxJobSeq \in Nat /\ incoming \in InboxRow /\ head \in BOOLEAN
  BY <1>0, Sizes, JobDeliveryAssumption DEF JobTypes, InboxRow
<1>3. t.seq = q /\ t.current
  BY <1>0 DEF Incoming
<1>4. t \in ToldRow
  <2>1. q \in 1 .. MaxJobSeq
    BY <1>1, <1>2
  <2>2. (Blocked(q) => head \/ incoming.moved) \in BOOLEAN
    OBVIOUS
  <2> QED BY <2>1, <2>2 DEF ToldRow
<1>5. told' = Append(told, t)
  OBVIOUS
<1> HIDE DEF t
<1>6. /\ told' \in Seq(ToldRow) /\ Len(told') = N + 1 /\ DOMAIN told' = 1 .. N + 1
      /\ told'[N + 1] = t /\ \A i \in 1 .. N : told'[i] = told[i]
  BY <1>2, <1>4, <1>5
<1> HIDE DEF N
<1>7. incoming' \in InboxRow /\ incoming'.phase = "delivered" /\ incoming'.seq = q
  BY <1>2 DEF InboxRow
<1>8. JobTypes'
  BY <1>0, <1>6, <1>7 DEF JobTypes, InboxRow
<1>9. Cursors' /\ Outgoing' /\ Announced' /\ OneNoticePerEpisode'
  BY <1>0 DEF Cursors, Outgoing, Announced, OneNoticePerEpisode, Blocked
<1>10. Incoming'
  <2>1. \E i \in DOMAIN told' : told'[i].seq = q
    BY <1>2, <1>3, <1>6
  <2> QED BY <1>1, <1>7, <2>1 DEF Incoming, Told
<1>11. ToldIsLogged'
  BY <1>0, <1>1, <1>2, <1>3, <1>6 DEF ToldIsLogged, N
<1>12. NoticesAreCurrent'
  BY <1>0, <1>2, <1>3, <1>6 DEF NoticesAreCurrent
<1>13. ASSUME NEW seq \in 1 .. route'.settled PROVE Told(seq)' \/ log'[seq].suppressed
  <2>1. Told(seq) \/ log[seq].suppressed
    BY <1>0 DEF SettledWasTold
  <2>2. Told(seq) => \E i \in DOMAIN told' : told'[i].seq = seq
    BY <1>2, <1>6 DEF Told
  <2> QED BY <2>1, <2>2 DEF Told
<1>14. ASSUME NEW i \in DOMAIN told', NEW seq \in 1 .. told'[i].seq - 1
       PROVE  log'[seq].suppressed \/ \E k \in 1 .. i : told'[k].seq = seq
  <2>1. CASE i \in 1 .. N
    <3>1. seq \in 1 .. told[i].seq - 1
      BY <1>6, <2>1
    <3>2. log[seq].suppressed \/ \E k \in 1 .. i : told[k].seq = seq
      BY <1>0, <1>2, <2>1, <3>1 DEF SettledWasTold
    <3> QED BY <1>2, <1>6, <2>1, <3>2
  <2>2. CASE i = N + 1
    <3>1. seq \in 1 .. route.settled
      BY <1>1, <1>2, <1>3, <1>6, <2>2
    <3>2. Told(seq) \/ log[seq].suppressed
      BY <1>0, <3>1 DEF SettledWasTold
    <3>3. Told(seq) => \E k \in 1 .. N : told'[k].seq = seq
      BY <1>2, <1>6 DEF Told
    <3> QED BY <1>2, <2>2, <3>2, <3>3
  <2> QED BY <1>2, <1>6, <2>1, <2>2
<1>15. SettledWasTold'
  BY <1>13, <1>14 DEF SettledWasTold
<1> QED BY <1>8, <1>9, <1>10, <1>11, <1>12, <1>15 DEF JobInv

LEMMA DeliverKeeps ==
    ASSUME JobInv, deliver_job_event
    PROVE  JobInv'
  BY LineTold DEF deliver_job_event, Submit, Notices, Events

LEMMA CheckKeeps ==
    ASSUME JobInv, before_send
    PROVE  JobInv'
<1>0. JobTypes
  BY DEF JobInv
<1> DEFINE q == incoming.seq
<1>1. /\ incoming.phase = "send"
      /\ UNCHANGED <<submits, fit, stored, route, told, arrived, head, reading, acked, outgoing, jobFaults>>
  BY DEF before_send, Submit
<1>a. /\ incoming \in InboxRow /\ route \in RouteRow /\ jobFaults \in 0 .. MaxJobFaults
      /\ route.settled \in Nat /\ route.accepted \in Nat
  BY <1>0 DEF JobTypes, InboxRow, RouteRow
<1>b. q = route.settled + 1 /\ q <= route.accepted /\ q \in 1 .. Len(log)
  BY <1>1, IncomingEvent
<1>c. route'.settled <= route.settled /\ route'.settled <= route'.accepted /\ route'.accepted <= route.accepted
  BY <1>1, <1>a, <1>b
<1>2. CASE Blocked(q) /\ ~job_notice_is_current(q)
  <2>1. incoming' = [incoming EXCEPT !.phase = "suppressed"] /\ MarkStale(q)
    BY <1>2 DEF before_send
  <2>3. /\ log' \in Seq(EventRow) /\ Len(log') = Len(log) /\ LogKept
        /\ episodes' \in Seq(EpisodeRow) /\ Len(episodes') = Len(episodes) /\ EpisodesKept
        /\ log'[q].suppressed
    BY <1>2, <1>b, <2>1, StaleMarked
  <2>5. incoming' \in InboxRow /\ incoming'.phase = "suppressed" /\ incoming'.seq = q
    BY <1>a, <2>1 DEF InboxRow
  <2>6. Incoming'
    BY <1>1, <1>b, <2>3, <2>5 DEF Incoming
  <2> QED BY <1>1, <1>a, <1>c, <2>3, <2>5, <2>6, InboxStep
<1>3. CASE ~(Blocked(q) /\ ~job_notice_is_current(q))
  <2>1. incoming' = [incoming EXCEPT !.phase = "line"] /\ UNCHANGED <<episodes, log>>
    BY <1>3 DEF before_send
  <2>2. /\ log' \in Seq(EventRow) /\ Len(log') = Len(log) /\ LogKept
        /\ episodes' \in Seq(EpisodeRow) /\ Len(episodes') = Len(episodes) /\ EpisodesKept
    BY <1>0, <2>1, LogStays, EpisodesStay DEF JobTypes
  <2>3. incoming' \in InboxRow /\ incoming'.phase = "line" /\ incoming'.seq = q
    BY <1>a, <2>1 DEF InboxRow
  <2>4. Blocked(q) => head
    BY <1>3 DEF job_notice_is_current
  <2>5. Incoming'
    BY <1>1, <1>b, <2>1, <2>3, <2>4 DEF Incoming, Blocked
  <2> QED BY <1>1, <1>a, <1>c, <2>2, <2>3, <2>5, InboxStep
<1> QED BY <1>2, <1>3

LEMMA SettleKeeps ==
    ASSUME JobInv, settle_callback
    PROVE  JobInv'
<1>0. /\ JobTypes /\ Cursors /\ Outgoing /\ Incoming /\ Announced /\ OneNoticePerEpisode
      /\ ToldIsLogged /\ NoticesAreCurrent /\ SettledWasTold
  BY DEF JobInv
<1> DEFINE q == incoming.seq
<1>1. /\ incoming.phase \in {"delivered", "suppressed"} /\ route' = settle_job_event_inner(q)
      /\ incoming' = NotDelivering
      /\ UNCHANGED <<submits, fit, stored, told, arrived, head, episodes, reading, log, acked, outgoing,
                     jobFaults>>
  BY DEF settle_callback, Submit, Notices, Events
<1>2. q = route.settled + 1 /\ q <= route.accepted /\ q \in 1 .. Len(log) /\ Len(log) \in Nat
  BY <1>1, IncomingEvent
<1>3. /\ route \in RouteRow /\ route.settled \in Nat /\ route.accepted \in Nat /\ arrived \in Nat
      /\ Len(log) <= MaxJobSeq /\ MaxJobSeq \in Nat
  BY <1>0, JobDeliveryAssumption DEF JobTypes, RouteRow
<1>4. route' = [route EXCEPT !.settled = q]
  BY <1>1, <1>2, <1>3 DEF settle_job_event_inner
<1>5. route' \in RouteRow /\ route'.settled = q /\ route'.accepted = route.accepted
  <2>1. q \in 0 .. MaxJobSeq
    BY <1>2, <1>3
  <2> QED BY <1>3, <1>4, <2>1 DEF RouteRow
<1>6. JobTypes'
  BY <1>0, <1>1, <1>3, <1>5 DEF JobTypes, RouteRow, NotDelivering
<1>7. Cursors'
  BY <1>0, <1>1, <1>2, <1>5 DEF Cursors
<1>8. Outgoing' /\ Announced' /\ OneNoticePerEpisode' /\ ToldIsLogged' /\ NoticesAreCurrent'
  BY <1>0, <1>1 DEF Outgoing, Announced, OneNoticePerEpisode, ToldIsLogged, NoticesAreCurrent, Blocked
<1>9. Incoming'
  BY <1>1 DEF Incoming, NotDelivering
<1>10. SettledWasTold'
  <2>1. Told(q) \/ log[q].suppressed
    BY <1>0, <1>1 DEF Incoming
  <2>2. ASSUME NEW seq \in 1 .. q PROVE Told(seq) \/ log[seq].suppressed
    <3>1. CASE seq = q
      BY <2>1, <3>1
    <3>2. CASE seq \in 1 .. route.settled
      BY <1>0, <3>2 DEF SettledWasTold
    <3> QED BY <1>2, <1>3, <3>1, <3>2
  <2>3. told' = told /\ log' = log /\ route'.settled = q
    BY <1>1, <1>5
  <2>4. ASSUME NEW seq \in 1 .. route'.settled PROVE Told(seq)' \/ log'[seq].suppressed
    BY <2>2, <2>3 DEF Told
  <2>5. \A i \in DOMAIN told' : \A seq \in 1 .. told'[i].seq - 1 :
            log'[seq].suppressed \/ \E k \in 1 .. i : told'[k].seq = seq
    BY <1>0, <2>3 DEF SettledWasTold
  <2> QED BY <2>4, <2>5 DEF SettledWasTold
<1> QED BY <1>6, <1>7, <1>8, <1>9, <1>10 DEF JobInv

-----------------------------------------------------------------------------
(* The theorems *)

LEMMA JobInitInv ==
    ASSUME JobInit
    PROVE  JobInv
<1>1. JobTypes
  <2>1. /\ episodes = <<>> /\ log = <<>> /\ told = <<>>
    BY DEF JobInit
  <2>2. episodes \in Seq(EpisodeRow) /\ log \in Seq(EventRow) /\ told \in Seq(ToldRow)
        /\ Len(episodes) = 0 /\ Len(log) = 0
    BY <2>1
  <2>3. route \in [submission : RouteStates, accepted : 0 .. MaxJobSeq, settled : 0 .. MaxJobSeq]
        /\ submits \in [phase : {"idle", "waiting", "accepted", "refused"},
                        read : RouteStates, current : BOOLEAN, late : BOOLEAN]
        /\ reading \in [head : BOOLEAN, episode : 0 .. MaxEpisodes, active : BOOLEAN]
    BY JobDeliveryAssumption DEF JobInit, RouteStates, NoReading
  <2>4. /\ outgoing \in [phase : {"none", "send", "acknowledged"}, seq : 0 .. MaxJobSeq,
                         original : 0 .. MaxJobSeq, requested : SUBSET (1 .. MaxJobSeq)]
        /\ incoming \in [phase : {"none", "check", "send", "line", "delivered", "suppressed"},
                         seq : 0 .. MaxJobSeq, moved : BOOLEAN]
    BY JobDeliveryAssumption DEF JobInit, NotSending, NotDelivering
  <2>5. fit \in BOOLEAN /\ stored \in BOOLEAN /\ head \in BOOLEAN
    BY Zenon DEF JobInit
  <2>6. /\ acked \in Nat /\ arrived \in Nat /\ jobFaults \in 0 .. MaxJobFaults
        /\ Len(episodes) <= MaxEpisodes /\ Len(log) <= MaxJobSeq
    BY <2>2, JobDeliveryAssumption DEF JobInit
  <2> QED BY <2>2, <2>3, <2>4, <2>5, <2>6 DEF JobTypes
<1>2. Len(log) = 0 /\ DOMAIN log = {} /\ DOMAIN told = {} /\ 1 .. Len(log) = {} /\ 1 .. Len(told) = {}
  BY DEF JobInit
<1>3. Cursors /\ Outgoing /\ Incoming
  BY <1>2 DEF JobInit, Cursors, Outgoing, Incoming, NotSending, NotDelivering
<1>4. Announced /\ OneNoticePerEpisode /\ ToldIsLogged /\ NoticesAreCurrent
  BY <1>2 DEF Announced, OneNoticePerEpisode, ToldIsLogged, NoticesAreCurrent
<1>5. SettledWasTold
  <2>1. route.settled = 0
    BY DEF JobInit
  <2> QED BY <1>2, <2>1 DEF SettledWasTold
<1> QED BY <1>1, <1>3, <1>4, <1>5 DEF JobInv

LEMMA JobStepKeeps ==
    ASSUME JobInv, [JobNext]_jobVars
    PROVE  JobInv'
<1>1. CASE UNCHANGED jobVars
  <2>0. JobTypes /\ Cursors /\ Outgoing /\ Incoming /\ Announced /\ OneNoticePerEpisode
        /\ ToldIsLogged /\ NoticesAreCurrent /\ SettledWasTold
    BY DEF JobInv
  <2>1. JobTypes' /\ Cursors' /\ Outgoing'
    BY <1>1, <2>0 DEF jobVars, JobTypes, Cursors, Outgoing
  <2>2. Incoming'
    BY <1>1, <2>0 DEF jobVars, Incoming, Blocked, Told
  <2>3. Announced' /\ OneNoticePerEpisode' /\ ToldIsLogged' /\ NoticesAreCurrent' /\ SettledWasTold'
    BY <1>1, <2>0 DEF jobVars, Announced, OneNoticePerEpisode, ToldIsLogged, NoticesAreCurrent,
                      SettledWasTold, Blocked, Told
  <2> QED BY <2>1, <2>2, <2>3 DEF JobInv
<1>2. CASE JobNext
  BY <1>2, SubmissionKeeps, NoticeStepKeeps, EventStepKeeps, OutgoingStepKeeps, InboxStepKeeps,
     CheckKeeps, DeliverKeeps, SettleKeeps DEF JobNext
<1> QED BY <1>1, <1>2

\* The thread hears of its job what is true: a blocked notice once per episode, and
\* only while the job is the blocked head or when the queue moved after the last
\* check was answered; first copies in order, nothing settled
\* at the origin that was neither told nor stale, and nothing acknowledged at the
\* authority that the origin did not store; whatever requests and replies are
\* lost and whichever daemon restarts or comes back from a backup.
THEOREM JobNewsIsTrueCorrect == DeliverySpec => []JobNewsIsTrue
<1>1. JobInit => JobInv
  BY JobInitInv
<1>2. JobInv /\ [JobNext]_jobVars => JobInv'
  BY JobStepKeeps
<1>3. JobInv => JobNewsIsTrue
  <2> SUFFICES ASSUME JobInv PROVE JobNewsIsTrue
    OBVIOUS
  <2>1. JobTypes /\ Cursors /\ OneNoticePerEpisode /\ NoticesAreCurrent /\ SettledWasTold
    BY DEF JobInv
  <2>2. /\ Len(log) \in Nat /\ DOMAIN log = 1 .. Len(log) /\ \A i \in 1 .. Len(log) : log[i] \in EventRow
        /\ Len(episodes) \in Nat /\ DOMAIN episodes = 1 .. Len(episodes)
        /\ \A i \in 1 .. Len(episodes) : episodes[i] \in EpisodeRow
    BY <2>1, Sizes
  <2>3. /\ acked \in 0 .. Len(log) /\ arrived \in 0 .. MaxJobSeq /\ Len(log) \in 0 .. MaxJobSeq
        /\ Len(episodes) \in 0 .. MaxEpisodes
    BY <2>1, <2>2, JobDeliveryAssumption DEF JobTypes, Cursors
  <2>4. JobTypeOK
    BY <2>1, <2>2, <2>3 DEF JobTypes, JobTypeOK, EpisodeRow
  <2> QED BY <2>1, <2>4 DEF JobNewsIsTrue, AckedArrived, Cursors
<1> QED BY <1>1, <1>2, <1>3, PTL DEF DeliverySpec

\* A submission that an event or an answer proved accepted stays accepted: a
\* retry, a late refusal of `resolve_job_route` and a restored backup leave it.
THEOREM AcceptedStaysCorrect == DeliverySpec => AcceptedStays
<1>1. ASSUME JobInv, [JobNext]_jobVars, route.submission = "accepted"
      PROVE  route'.submission = "accepted"
  <2>0. route \in RouteRow
    BY <1>1 DEF JobInv, JobTypes, RouteRow
  <2>1. CASE UNCHANGED route
    BY <1>1, <2>1
  <2>2. CASE submit
    BY <1>1, <2>2 DEF submit
  <2>3. ASSUME NEW definite \in BOOLEAN, submit_answered(definite) PROVE route'.submission = "accepted"
    <3>1. \/ route' = resolve_job_route("accepted") \/ route' = resolve_job_route("rejected")
          \/ route' = route
      BY <2>3 DEF submit_answered
    <3> QED BY <1>1, <2>0, <3>1 DEF resolve_job_route, RouteRow
  <2>4. ASSUME NEW seq, accept_job_event(seq) PROVE route'.submission = "accepted"
    BY <1>1, <2>0, <2>4 DEF accept_job_event, RouteRow
  <2>5. ASSUME NEW arrives \in BOOLEAN, delivery_fails(arrives) PROVE route'.submission = "accepted"
    BY <1>1, <2>4, <2>5 DEF delivery_fails
  <2>6. CASE settle_callback
    BY <1>1, <2>0, <2>6 DEF settle_callback, settle_job_event_inner, RouteRow
  <2>7. CASE job_origin_restored
    BY <1>1, <2>0, <2>7 DEF job_origin_restored, RouteRow
  <2>8. CASE deliver_authority
    BY <2>4, <2>8 DEF deliver_authority
  <2>9. CASE execute \/ execute_late \/ submit_lost \/ check_on_authority
    BY <2>1, <2>9 DEF execute, execute_late, submit_lost, check_on_authority, Origin
  <2>10. CASE queue_moves \/ threshold_passes \/ queue_snapshot \/ record_head \/ produce_job_blocked
    BY <2>1, <2>10 DEF queue_moves, threshold_passes, queue_snapshot, record_head, produce_job_blocked, Origin
  <2>11. ASSUME NEW kind \in {"check_due", "final"}, append_event(kind) PROVE route' = route
    BY <2>11 DEF append_event, Origin
  <2>12. CASE pending_job_outbox \/ acknowledge \/ pending_job_inbox \/ notice_current \/ before_send
              \/ deliver_job_event \/ origin_fails
    BY <2>1, <2>12 DEF pending_job_outbox, acknowledge, pending_job_inbox, notice_current,
                       before_send, deliver_job_event, origin_fails, Origin
  <2>13. CASE UNCHANGED jobVars
    BY <2>1, <2>13 DEF jobVars
  <2> QED BY <1>1, <2>1, <2>2, <2>3, <2>5, <2>6, <2>7, <2>8, <2>9, <2>10, <2>11, <2>12, <2>13 DEF JobNext
<1>2. JobInv /\ [JobNext]_jobVars => [route.submission = "accepted" => route'.submission = "accepted"]_jobVars
  BY <1>1
<1>3. JobInit => JobInv
  BY JobInitInv
<1>4. JobInv /\ [JobNext]_jobVars => JobInv'
  BY JobStepKeeps
<1> QED BY <1>2, <1>3, <1>4, PTL DEF DeliverySpec, AcceptedStays

----------------------------------------------------------------------------
(* Operations of people, sent again under their id                          *)

\* The commands that carry an operation's id, and the others
Keyed ==
    [command: {"move"}, op: Ops, job: Named, end: {"front", "back"}]
        \cup [command: {"cancel"}, op: Ops, job: Named]
        \cup [command: {"release"}, op: Ops, attention: Nat]
Unkeyed == [command: {"label"}, lane: {Gpu(0)}] \cup [command: {"register"}, as: ByHand]

\* A command is not started, or asks for what it asked at first
CallIsWhole(call) ==
    /\ call = [phase |-> call.phase, try |-> call.try, request |-> call.request,
               answer |-> call.answer]
    /\ call.phase # "idle" => call.request \in Keyed \cup Unkeyed

Commands ==
    /\ calls \in [Callers -> {calls[c] : c \in Callers}]
    /\ \A c \in Callers : CallIsWhole(calls[c])

\* What is on its way is what its command asks for
Mail == \A m \in wire : /\ m.caller \in Callers /\ calls[m.caller].phase # "idle"
                        /\ m.request = calls[m.caller].request

\* An operation that is stored took effect once, and its id is in its content
OperationIsWhole(o) ==
    /\ operations[o] = [content |-> operations[o].content, result |-> operations[o].result]
    /\ operations[o] # NoOperation => operations[o].content \in Keyed
    /\ done[o] = IF operations[o] = NoOperation THEN 0 ELSE 1

Ledger ==
    /\ operations \in [Ops -> {operations[o] : o \in Ops}] /\ done \in [Ops -> Nat]
    /\ \A o \in Ops : OperationIsWhole(o)

\* An answer other than a refusal is the result that is stored
IsRefusal(answer) == answer \in {Refused, Conflict, Unavailable}
AnswerIsStored(call) ==
    call.phase = "answered" /\ ~IsRefusal(call.answer) /\ call.request \in Keyed
        => operations[call.request.op] = [content |-> call.request, result |-> call.answer]
Answers == \A c \in Callers : AnswerIsStored(calls[c])

RequestsInv == raised \in Nat /\ Commands /\ Mail /\ Ledger /\ Answers

LEMMA KeyedIsNoTuple == \A q \in Keyed \cup Unkeyed : q # <<>>
<1>1. TAKE q \in Keyed \cup Unkeyed
<1>2. "command" \in DOMAIN q
  BY DEF Keyed, Unkeyed
<1>3. DOMAIN <<>> = {}
  OBVIOUS
<1> QED BY <1>2, <1>3

LEMMA KeyedCommand ==
    /\ \A q \in Keyed : q.op \in Ops /\ q.command \in {"move", "cancel", "release"}
    /\ \A q \in Unkeyed : q.command \in {"register", "label"}
  BY DEF Keyed, Unkeyed

LEMMA QueueRequestIsOne == ASSUME raised \in Nat PROVE QueueRequest \subseteq Keyed \cup Unkeyed
<1>1. 1 .. raised \subseteq Nat
  OBVIOUS
<1> QED BY <1>1 DEF QueueRequest, Keyed, Unkeyed

LEMMA RequestsInvInit == RequestsInit => RequestsInv
<1> SUFFICES ASSUME RequestsInit PROVE RequestsInv
  OBVIOUS
<1>1. Commands
  BY DEF RequestsInit, Commands, CallIsWhole, NoCall
<1>2. Mail
  BY DEF RequestsInit, Mail
<1>3. Ledger
  BY DEF RequestsInit, Ledger, OperationIsWhole, NoOperation
<1>4. Answers
  BY DEF RequestsInit, Answers, AnswerIsStored, NoCall
<1> QED BY <1>1, <1>2, <1>3, <1>4 DEF RequestsInit, RequestsInv

\* Steps of the daemon and of the lanes, which leave commands and operations alone
LEMMA LaneStep ==
    ASSUME RequestsInv, raised' \in Nat, wire' \subseteq wire,
           UNCHANGED <<operations, calls, done>>
    PROVE  RequestsInv'
  BY DEF RequestsInv, Commands, CallIsWhole, Mail, Ledger, OperationIsWhole, Answers,
         AnswerIsStored, IsRefusal, NoOperation, Keyed, Unkeyed, Refused, Conflict, Unavailable

LEMMA RequestsDaemonStarts ==
    ASSUME RequestsInv, NEW probe \in Probes, DaemonStarts(probe) PROVE RequestsInv'
  BY LaneStep DEF DaemonStarts, RequestsInv

LEMMA RequestsReserve ==
    ASSUME RequestsInv, NEW n \in DOMAIN lanes, reserve_run(n) PROVE RequestsInv'
  BY LaneStep DEF reserve_run, RequestsInv

LEMMA RequestsCleanup ==
    ASSUME RequestsInv, NEW n \in DOMAIN lanes, NEW clean \in BOOLEAN,
           apply_cleanup_result(n, clean)
    PROVE  RequestsInv'
<1>1. raised' \in Nat
  BY DEF apply_cleanup_result, RequestsInv
<1>2. wire' = wire /\ UNCHANGED <<operations, calls, done>>
  BY DEF apply_cleanup_result
<1> QED BY LaneStep, <1>1, <1>2

----------------------------------------------------------------------------
(* A command                                                                *)

\* A command's row changes and what it had asked for does not
LEMMA CallStep ==
    ASSUME RequestsInv, NEW c \in Callers, NEW row,
           calls' = [calls EXCEPT ![c] = row],
           CallIsWhole(row), AnswerIsStored(row), row.phase # "idle",
           calls[c].phase # "idle" => row.request = calls[c].request,
           \A m \in wire' : m \in wire \/ (m.caller = c /\ m.request = row.request),
           raised' = raised, operations' = operations, done' = done
    PROVE  RequestsInv'
<1>1. calls'[c] = row /\ \A d \in Callers : d # c => calls'[d] = calls[d]
  BY DEF RequestsInv, Commands
<1>2. Commands'
  <2>1. DOMAIN calls' = Callers /\ calls' \in [Callers -> {calls'[d] : d \in Callers}]
    BY DEF RequestsInv, Commands
  <2>2. \A d \in Callers : CallIsWhole(calls'[d])
    BY <1>1 DEF RequestsInv, Commands
  <2> QED BY <2>1, <2>2 DEF Commands, CallIsWhole, Keyed, Unkeyed
<1>3. Mail'
  BY <1>1 DEF RequestsInv, Mail
<1>4. Ledger'
  BY DEF RequestsInv, Ledger, OperationIsWhole, NoOperation, Keyed
<1>5. Answers'
  <2>1. \A d \in Callers : AnswerIsStored(calls'[d])
    BY <1>1 DEF RequestsInv, Answers
  <2> QED BY <2>1 DEF Answers, AnswerIsStored, IsRefusal, Keyed, Refused, Conflict, Unavailable
<1> QED BY <1>2, <1>3, <1>4, <1>5 DEF RequestsInv

LEMMA CallExcept ==
    ASSUME NEW call, CallIsWhole(call), NEW a
    PROVE  /\ [call EXCEPT !.try = @ + 1]
                 = [phase |-> call.phase, try |-> call.try + 1, request |-> call.request,
                    answer |-> call.answer]
           /\ [call EXCEPT !.phase = "answered", !.answer = a]
                 = [phase |-> "answered", try |-> call.try, request |-> call.request,
                    answer |-> a]
<1>1. PICK p, t, q, b : call = [phase |-> p, try |-> t, request |-> q, answer |-> b]
  BY DEF CallIsWhole
<1>2. call.phase = p /\ call.try = t /\ call.request = q /\ call.answer = b
  BY <1>1
<1>3. [[phase |-> p, try |-> t, request |-> q, answer |-> b] EXCEPT !.try = t + 1]
         = [phase |-> p, try |-> t + 1, request |-> q, answer |-> b]
  OBVIOUS
<1>4. [[phase |-> p, try |-> t, request |-> q, answer |-> b] EXCEPT !.phase = "answered", !.answer = a]
         = [phase |-> "answered", try |-> t, request |-> q, answer |-> a]
  <2> DEFINE old == [phase |-> p, try |-> t, request |-> q, answer |-> b]
             mid == [phase |-> "answered", try |-> t, request |-> q, answer |-> b]
             new == [phase |-> "answered", try |-> t, request |-> q, answer |-> a]
  <2>1. [old EXCEPT !.phase = "answered"] = mid
    OBVIOUS
  <2>2. [mid EXCEPT !.answer = a] = new
    OBVIOUS
  <2>3. [old EXCEPT !.phase = "answered", !.answer = a]
           = [[old EXCEPT !.phase = "answered"] EXCEPT !.answer = a]
    <3> HIDE DEF old
    <3> QED OBVIOUS
  <2> QED BY <2>1, <2>2, <2>3
<1>5. [call EXCEPT !.try = @ + 1] = [call EXCEPT !.try = t + 1]
  BY <1>2
<1> QED BY <1>1, <1>2, <1>3, <1>4, <1>5

LEMMA RequestsSends ==
    ASSUME RequestsInv, NEW c \in Callers, NEW q \in QueueRequest, Sends(c, q)
    PROVE  RequestsInv'
<1> DEFINE row == [phase |-> "sent", try |-> 1, request |-> q, answer |-> <<>>]
<1>1. q \in Keyed \cup Unkeyed
  BY QueueRequestIsOne DEF RequestsInv
<1>2. calls' = [calls EXCEPT ![c] = row] /\ CallIsWhole(row) /\ AnswerIsStored(row)
      /\ row.phase # "idle"
  BY <1>1 DEF Sends, CallIsWhole, AnswerIsStored
<1>3. calls[c].phase = "idle"
  BY DEF Sends, NoCall
<1>4. \A m \in wire' : m \in wire \/ (m.caller = c /\ m.request = row.request)
  BY DEF Sends, Message
<1>5. raised' = raised /\ operations' = operations /\ done' = done
  BY DEF Sends
<1> HIDE DEF row
<1> QED BY CallStep, <1>2, <1>3, <1>4, <1>5

LEMMA RequestsRetry ==
    ASSUME RequestsInv, NEW c \in Callers, post_retry(c) PROVE RequestsInv'
<1> DEFINE again == calls[c].try < Tries /\ calls[c].request.command # "register"
           call == calls[c]
           more == [phase |-> call.phase, try |-> call.try + 1, request |-> call.request,
                    answer |-> call.answer]
           over == [phase |-> "answered", try |-> call.try, request |-> call.request,
                    answer |-> Unavailable]
<1>0. /\ calls[c].phase = "sent" /\ call = calls[c] /\ CallIsWhole(call)
      /\ call.request \in Keyed \cup Unkeyed /\ calls \in [Callers -> {calls[d] : d \in Callers}]
      /\ raised' = raised /\ operations' = operations /\ done' = done
  BY DEF post_retry, RequestsInv, Commands, CallIsWhole
<1>1. CASE again
  <2>1. calls' = [calls EXCEPT ![c].try = @ + 1]
        /\ wire' = wire \cup {Message(c, calls[c].request, calls[c].try + 1)}
    BY <1>1 DEF post_retry
  <2>2. calls' = [calls EXCEPT ![c] = more]
    <3>1. [call EXCEPT !.try = @ + 1] = more
      BY <1>0, CallExcept
    <3> QED BY <2>1, <3>1, <1>0
  <2>3. CallIsWhole(more) /\ AnswerIsStored(more) /\ more.phase # "idle"
        /\ more.request = calls[c].request
    BY <1>0 DEF CallIsWhole, AnswerIsStored
  <2>4. \A m \in wire' : m \in wire \/ (m.caller = c /\ m.request = more.request)
    BY <2>1 DEF Message
  <2> HIDE DEF more
  <2> QED BY CallStep, <1>0, <2>2, <2>3, <2>4
<1>2. CASE ~again
  <2>1. calls' = [calls EXCEPT ![c].phase = "answered", ![c].answer = Unavailable]
        /\ wire' = wire
    BY <1>2 DEF post_retry
  <2>2. calls' = [calls EXCEPT ![c] = over]
    <3>1. [call EXCEPT !.phase = "answered", !.answer = Unavailable] = over
      BY <1>0, CallExcept
    <3> QED BY <2>1, <3>1, <1>0
  <2>3. CallIsWhole(over) /\ AnswerIsStored(over) /\ over.phase # "idle"
        /\ over.request = calls[c].request
    BY <1>0 DEF CallIsWhole, AnswerIsStored, IsRefusal
  <2> HIDE DEF over
  <2> QED BY CallStep, <1>0, <2>1, <2>2, <2>3
<1> QED BY <1>1, <1>2

----------------------------------------------------------------------------
(* The store serves a request                                               *)

\* What one request does to the operations, whatever it does to queue and lanes
LEMMA ServedOnce ==
    ASSUME RequestsInv, NEW q \in Keyed \cup Unkeyed, NEW s, s = queue_request(q)
    PROVE  \/ /\ s.operations = operations /\ s.done = done
              /\ q \in Keyed /\ ~IsRefusal(s.result)
                    => operations[q.op] = [content |-> q, result |-> s.result]
           \/ /\ q \in Keyed /\ operations[q.op] = NoOperation
              /\ s.operations = [operations EXCEPT ![q.op] = [content |-> q, result |-> s.result]]
              /\ s.done = [done EXCEPT ![q.op] = 1]
<1>1. CASE q \in Unkeyed
  <2>1. q.command \in {"register", "label"} /\ q \notin Keyed
    BY <1>1, KeyedCommand
  <2>2. s.operations = operations /\ s.done = done
    BY <2>1 DEF queue_request, register_resource, set_resource_label, Kept
  <2> QED BY <2>1, <2>2
<1>2. CASE q \in Keyed
  <2>1. q.op \in Ops /\ s = with_operation(q)
    BY <1>2, KeyedCommand DEF queue_request
  <2>2. OperationIsWhole(q.op)
    BY <2>1 DEF RequestsInv, Ledger
  <2>3. CASE Used(q)
    <3>1. /\ s.result = IF operations[q.op].content = q THEN operations[q.op].result ELSE Conflict
          /\ s.operations = operations /\ s.done = done
      BY <2>1, <2>3 DEF with_operation
    <3>2. IsRefusal(Conflict)
      BY DEF IsRefusal
    <3> QED BY <3>1, <3>2, <2>2 DEF OperationIsWhole
  <2>4. CASE ~Used(q)
    <3>1. PICK a : a = apply(q)
      OBVIOUS
    <3>2. /\ s.result = a.result
          /\ s.operations = IF a.result = Refused THEN operations
                            ELSE [operations EXCEPT ![q.op] = [content |-> q, result |-> a.result]]
          /\ s.done = IF a.result = Refused THEN done ELSE [done EXCEPT ![q.op] = @ + 1]
      BY <2>1, <2>4, <3>1 DEF with_operation
    <3>3. operations[q.op] = NoOperation /\ done[q.op] = 0
      BY <2>2, <2>4 DEF Used, OperationIsWhole
    <3>4. CASE a.result = Refused
      BY <3>2, <3>4 DEF IsRefusal
    <3>5. CASE a.result # Refused
      <4>1. [done EXCEPT ![q.op] = @ + 1] = [done EXCEPT ![q.op] = 1]
        BY <3>3
      <4> QED BY <3>2, <3>3, <3>5, <1>2, <4>1
    <3> QED BY <3>4, <3>5
  <2> QED BY <2>3, <2>4
<1> QED BY <1>1, <1>2

\* Storing an operation keeps those stored before
LEMMA LedgerStep ==
    ASSUME RequestsInv, NEW q \in Keyed, NEW r, operations[q.op] = NoOperation,
           operations' = [operations EXCEPT ![q.op] = [content |-> q, result |-> r]],
           done' = [done EXCEPT ![q.op] = 1]
    PROVE  /\ Ledger'
           /\ operations'[q.op] = [content |-> q, result |-> r]
           /\ \A o \in Ops : operations[o] # NoOperation => operations'[o] = operations[o]
<1>1. q.op \in Ops /\ q # <<>>
  BY KeyedCommand, KeyedIsNoTuple
<1>2. /\ operations \in [Ops -> {operations[o] : o \in Ops}] /\ done \in [Ops -> Nat]
      /\ \A o \in Ops : OperationIsWhole(o)
  BY DEF RequestsInv, Ledger
<1>3. operations'[q.op] = [content |-> q, result |-> r] /\ done'[q.op] = 1
      /\ \A o \in Ops : o # q.op => operations'[o] = operations[o] /\ done'[o] = done[o]
  BY <1>1, <1>2
<1>4. operations'[q.op] # NoOperation
  BY <1>1, <1>3 DEF NoOperation
<1>5. operations' \in [Ops -> {operations'[o] : o \in Ops}] /\ done' \in [Ops -> Nat]
  BY <1>1, <1>2
<1>6. ASSUME NEW o \in Ops
      PROVE  /\ operations'[o] = [content |-> operations'[o].content, result |-> operations'[o].result]
             /\ operations'[o] # NoOperation => operations'[o].content \in Keyed
             /\ done'[o] = IF operations'[o] = NoOperation THEN 0 ELSE 1
  <2>1. CASE o = q.op
    BY <2>1, <1>3, <1>4
  <2>2. CASE o # q.op
    BY <2>2, <1>3, <1>2 DEF OperationIsWhole
  <2> QED BY <2>1, <2>2
<1>7. Ledger'
  BY <1>5, <1>6 DEF Ledger, OperationIsWhole, NoOperation, Keyed
<1>8. \A o \in Ops : operations[o] # NoOperation => operations'[o] = operations[o]
  BY <1>3
<1> QED BY <1>3, <1>7, <1>8

LEMMA RequestsServed ==
    ASSUME RequestsInv, NEW m \in wire, NEW arrives \in BOOLEAN, ServesRequest(m, arrives)
    PROVE  RequestsInv'
<1> DEFINE call == calls[m.caller]
<1>1. PICK s : s = queue_request(m.request)
  OBVIOUS
<1>2. PICK q : q = m.request
  OBVIOUS
<1>3. /\ m.caller \in Callers /\ call.phase # "idle" /\ q = call.request
      /\ q \in Keyed \cup Unkeyed /\ CallIsWhole(call)
  BY <1>2 DEF RequestsInv, Mail, Commands, CallIsWhole
<1>4. /\ operations' = s.operations /\ done' = s.done /\ raised' = raised
      /\ wire' \subseteq wire
      /\ calls' = IF arrives /\ call.phase = "sent" /\ call.try = m.try
                  THEN [calls EXCEPT ![m.caller].phase = "answered", ![m.caller].answer = s.result]
                  ELSE calls
  BY <1>1 DEF ServesRequest
\* the store
<1>5. Ledger' /\ (\A o \in Ops : operations[o] # NoOperation => operations'[o] = operations[o])
      /\ (q \in Keyed /\ ~IsRefusal(s.result)
            => operations'[q.op] = [content |-> q, result |-> s.result])
  <2>1. CASE s.operations = operations /\ s.done = done
             /\ (q \in Keyed /\ ~IsRefusal(s.result)
                   => operations[q.op] = [content |-> q, result |-> s.result])
    <3>1. operations' = operations /\ done' = done
      BY <2>1, <1>4
    <3>2. Ledger'
      BY <3>1 DEF RequestsInv, Ledger, OperationIsWhole, NoOperation, Keyed
    <3> QED BY <2>1, <3>1, <3>2
  <2>2. CASE q \in Keyed /\ operations[q.op] = NoOperation
             /\ s.operations = [operations EXCEPT ![q.op] = [content |-> q, result |-> s.result]]
             /\ s.done = [done EXCEPT ![q.op] = 1]
    BY <2>2, <1>4, LedgerStep
  <2> QED BY <2>1, <2>2, <1>1, <1>2, <1>3, ServedOnce
\* the command
<1>6. ASSUME NEW c \in Callers
      PROVE  /\ calls'[c] = [phase |-> calls'[c].phase, try |-> calls'[c].try,
                             request |-> calls'[c].request, answer |-> calls'[c].answer]
             /\ calls'[c].request = calls[c].request
             /\ calls'[c] = calls[c]
                \/ (c = m.caller /\ calls'[c].phase = "answered" /\ calls'[c].answer = s.result)
             /\ calls[c].phase # "idle" => calls'[c].phase # "idle"
             /\ calls'[c].phase # "idle" => calls[c].phase # "idle"
             /\ CallIsWhole(calls[c]) /\ AnswerIsStored(calls[c])
  <2>1. CallIsWhole(calls[c]) /\ AnswerIsStored(calls[c])
        /\ calls \in [Callers -> {calls[d] : d \in Callers}]
    BY DEF RequestsInv, Commands, Answers
  <2>2. CASE calls' = calls
    BY <2>1, <2>2 DEF CallIsWhole
  <2>3. CASE calls' = [calls EXCEPT ![m.caller].phase = "answered", ![m.caller].answer = s.result]
    <3>1. [call EXCEPT !.phase = "answered", !.answer = s.result]
             = [phase |-> "answered", try |-> call.try, request |-> call.request,
                answer |-> s.result]
      BY <1>3, CallExcept
    <3>2. calls'[m.caller] = [phase |-> "answered", try |-> call.try, request |-> call.request,
                              answer |-> s.result]
          /\ (c # m.caller => calls'[c] = calls[c])
      BY <2>1, <2>3, <3>1, <1>3
    <3>3. CASE c = m.caller
      BY <3>2, <3>3, <2>1, <1>3
    <3>4. CASE c # m.caller
      BY <3>2, <3>4, <2>1 DEF CallIsWhole
    <3> QED BY <3>3, <3>4
  <2> QED BY <2>2, <2>3, <1>4
<1>7. Commands'
  <2>1. calls' \in [Callers -> {calls'[d] : d \in Callers}]
    BY <1>4, <1>3 DEF RequestsInv, Commands
  <2>2. \A c \in Callers : CallIsWhole(calls'[c])
    BY <1>6 DEF CallIsWhole
  <2> QED BY <2>1, <2>2 DEF Commands, CallIsWhole, Keyed, Unkeyed
<1>8. Mail'
  <2>1. \A c \in Callers : calls'[c].request = calls[c].request
    BY <1>6
  <2>2. \A c \in Callers : calls[c].phase # "idle" => calls'[c].phase # "idle"
    BY <1>6
  <2>3. \A n \in wire' : /\ n.caller \in Callers /\ calls[n.caller].phase # "idle"
                         /\ n.request = calls[n.caller].request
    BY <1>4 DEF RequestsInv, Mail
  <2>4. \A n \in wire' : /\ n.caller \in Callers /\ calls'[n.caller].phase # "idle"
                         /\ n.request = calls'[n.caller].request
    BY <2>1, <2>2, <2>3
  <2> QED BY <2>4 DEF Mail
<1>9. Answers'
  <2>1. ASSUME NEW c \in Callers, calls'[c].phase = "answered", ~IsRefusal(calls'[c].answer),
               calls'[c].request \in Keyed
        PROVE  operations'[calls'[c].request.op]
                  = [content |-> calls'[c].request, result |-> calls'[c].answer]
    <3>1. CASE calls'[c] = calls[c]
      <4>1. operations[calls[c].request.op]
               = [content |-> calls[c].request, result |-> calls[c].answer]
        BY <3>1, <2>1, <1>6 DEF AnswerIsStored
      <4>2. calls[c].request.op \in Ops /\ calls[c].request # <<>>
        BY <3>1, <2>1, KeyedCommand, KeyedIsNoTuple
      <4>3. operations[calls[c].request.op] # NoOperation
        BY <4>1, <4>2 DEF NoOperation
      <4> QED BY <3>1, <4>1, <4>2, <4>3, <1>5
    <3>2. CASE c = m.caller /\ calls'[c].answer = s.result
      <4>1. calls'[c].request = q
        BY <3>2, <1>3, <1>6
      <4> QED BY <3>2, <4>1, <2>1, <1>5
    <3> QED BY <3>1, <3>2, <1>6
  <2> QED BY <2>1 DEF Answers, AnswerIsStored, IsRefusal, Keyed, Refused, Conflict, Unavailable
<1> QED BY <1>4, <1>5, <1>7, <1>8, <1>9 DEF RequestsInv

LEMMA RequestsStep == RequestsInv /\ [RequestsNext]_requestVars => RequestsInv'
<1> SUFFICES ASSUME RequestsInv, [RequestsNext]_requestVars PROVE RequestsInv'
  OBVIOUS
<1>1. CASE UNCHANGED requestVars
  BY <1>1, LaneStep DEF requestVars, RequestsInv
<1>2. CASE \E probe \in Probes : DaemonStarts(probe)
  BY <1>2, RequestsDaemonStarts
<1>3. CASE \E n \in DOMAIN lanes :
             reserve_run(n) \/ \E clean \in BOOLEAN : apply_cleanup_result(n, clean)
  BY <1>3, RequestsReserve, RequestsCleanup
<1>4. CASE \E m \in wire, arrives \in BOOLEAN : ServesRequest(m, arrives)
  BY <1>4, RequestsServed
<1>5. CASE \E c \in Callers : post_retry(c) \/ \E q \in QueueRequest : Sends(c, q)
  BY <1>5, RequestsRetry, RequestsSends
<1> QED BY <1>1, <1>2, <1>3, <1>4, <1>5 DEF RequestsNext

LEMMA RequestsInvImplies == RequestsInv => OperationsHappenOnce
<1> SUFFICES ASSUME RequestsInv PROVE OperationsHappenOnce
  OBVIOUS
<1>1. \A o \in Ops : done[o] <= 1
  BY DEF RequestsInv, Ledger, OperationIsWhole
<1>2. ASSUME NEW c \in Callers, calls[c].phase = "answered",
             calls[c].answer \notin {Refused, Conflict, Unavailable},
             calls[c].request.command \notin {"register", "label"}
      PROVE  operations[calls[c].request.op]
                = [content |-> calls[c].request, result |-> calls[c].answer]
  <2>1. calls[c].request \in Keyed
    BY <1>2, KeyedCommand DEF RequestsInv, Commands, CallIsWhole
  <2> QED BY <1>2, <2>1 DEF RequestsInv, Answers, AnswerIsStored, IsRefusal
<1> QED BY <1>1, <1>2 DEF OperationsHappenOnce

\* The inductive invariant of commands and operations: what is on its way is
\* what its command asked for at first, an operation is stored exactly when it
\* took effect, once, and an answer other than a refusal is the stored result.
THEOREM RequestsInvariance == RequestsSpec => []RequestsInv
  BY RequestsInvInit, RequestsStep, PTL DEF RequestsSpec

\* However often a command is sent, repeated or answered too late, its operation
\* takes effect once and each answer to it is the first result (with_operation,
\* post_retry), for any callers, ids, jobs, lanes and starts of the daemon.
THEOREM OperationsHappenOnceCorrect == RequestsSpec => []OperationsHappenOnce
  BY RequestsInvariance, RequestsInvImplies, PTL

----------------------------------------------------------------------------
(* The lanes                                                                *)

LaneRow == [name : Nat, device : Nat, origin : Origins, run : {"none", "held", "attention"},
            given : Nat, attention : Nat]

\* A lane's origin fits its device, its run has its device, and a fallback has
\* the name of the first GPU
RowFits(r, top) ==
    /\ r \in LaneRow /\ r.attention <= top
    /\ r.origin = "detected_fallback" => r.device = NoDevice /\ r.name = Gpu(0)
    /\ r.origin = "detected_device" => r.device # NoDevice
    /\ r.run # "none" => r.device = r.given

\* Two lanes have two names and no GPU in common
Differ(r, s) == r.name # s.name /\ (r.device # NoDevice => r.device # s.device)

LanesFit(rows, top) ==
    /\ rows \in Seq(LaneRow)
    /\ \A n \in DOMAIN rows : RowFits(rows[n], top)
    /\ \A n, m \in DOMAIN rows : n # m => Differ(rows[n], rows[m])

NoneOf(rows, origin) == \A n \in DOMAIN rows : rows[n].origin # origin
StandsAlone(rows) == NoneOf(rows, "detected_fallback") \/ NoneOf(rows, "detected_device")

LanesInv == raised \in Nat /\ LanesFit(lanes, raised) /\ StandsAlone(lanes)

\* The rest of RequestsTypeOK: a message is one of its command's attempts
Attempts ==
    /\ order \in Seq(Range(Waiting)) /\ boots \in 0 .. MaxBoots
    /\ \A c \in Callers : calls[c].phase \in {"idle", "sent", "answered"} /\ calls[c].try \in Nat
    /\ \A m \in wire : m.try \in Nat /\ m.try >= 1 /\ m.try <= calls[m.caller].try

LEMMA LanesMean == LanesInv /\ Attempts /\ Mail => LanesAreKept
<1> SUFFICES ASSUME LanesInv, Attempts, Mail PROVE LanesAreKept
  OBVIOUS
<1>0. /\ raised \in Nat /\ lanes \in Seq(LaneRow) /\ DOMAIN lanes = 1 .. Len(lanes)
      /\ \A n \in DOMAIN lanes : RowFits(lanes[n], raised)
      /\ \A n, m \in DOMAIN lanes : n # m => Differ(lanes[n], lanes[m])
  BY DEF LanesInv, LanesFit
<1>1. RequestsTypeOK
  <2>1. \A n \in DOMAIN lanes : /\ lanes[n].origin \in Origins
                               /\ lanes[n].run \in {"none", "held", "attention"}
                               /\ lanes[n].attention \in 0 .. raised
    <3>1. TAKE n \in DOMAIN lanes
    <3>2. lanes[n] \in LaneRow /\ lanes[n].attention <= raised
      BY <1>0 DEF RowFits
    <3> QED BY <1>0, <3>2 DEF LaneRow
  <2>2. Range(order) \subseteq Range(Waiting)
    BY DEF Attempts, Range
  <2>3. ASSUME NEW m \in wire PROVE m.try \in 1 .. calls[m.caller].try
    <3>1. m.caller \in Callers
      BY DEF Mail
    <3> QED BY <3>1 DEF Attempts
  <2> QED BY <2>1, <2>2, <2>3 DEF RequestsTypeOK, Attempts
<1>2. RowsAreUnique
  BY <1>0 DEF RowsAreUnique, RowFits, Differ
<1>3. FallbackStandsAlone
  BY DEF LanesInv, StandsAlone, NoneOf, FallbackStandsAlone
<1>4. DeviceStaysWithRun
  BY <1>0 DEF DeviceStaysWithRun, RowFits
<1> QED BY <1>1, <1>2, <1>3, <1>4 DEF LanesAreKept

\* A lane that shares neither name nor GPU is added
LEMMA LaneAdded ==
    ASSUME NEW rows, NEW top \in Nat, LanesFit(rows, top), NEW r, RowFits(r, top),
           ~HasName(rows, r.name), ~Holds(rows, r.device)
    PROVE  /\ LanesFit(Append(rows, r), top)
           /\ \A origin : (NoneOf(rows, origin) /\ r.origin # origin) => NoneOf(Append(rows, r), origin)
<1> DEFINE more == Append(rows, r)
           N == Len(rows) + 1
<1>1. rows \in Seq(LaneRow) /\ r \in LaneRow /\ Len(rows) \in Nat /\ DOMAIN rows = 1 .. Len(rows)
  BY DEF LanesFit, RowFits
<1>2. /\ more \in Seq(LaneRow) /\ DOMAIN more = 1 .. N /\ more[N] = r
      /\ \A n \in 1 .. Len(rows) : more[n] = rows[n]
  BY <1>1
<1>3. \A n \in DOMAIN more : n = N \/ (n \in DOMAIN rows /\ n # N)
  BY <1>1, <1>2
<1> HIDE DEF more, N
<1>4. \A n \in DOMAIN rows : more[n] = rows[n] /\ RowFits(rows[n], top)
  BY <1>1, <1>2 DEF LanesFit
<1>5. \A n \in DOMAIN rows : Differ(rows[n], r) /\ Differ(r, rows[n])
  BY DEF HasName, Holds, Indexed, Differ
<1>6. ASSUME NEW n \in DOMAIN more, NEW m \in DOMAIN more, n # m PROVE Differ(more[n], more[m])
  BY <1>2, <1>3, <1>4, <1>5, <1>6 DEF LanesFit
<1>7. LanesFit(more, top)
  BY <1>2, <1>3, <1>4, <1>6 DEF LanesFit
<1>8. \A origin : (NoneOf(rows, origin) /\ r.origin # origin) => NoneOf(more, origin)
  BY <1>2, <1>3, <1>4 DEF NoneOf
<1> QED BY <1>7, <1>8 DEF more

\* A lane is rewritten
LEMMA LaneRewritten ==
    ASSUME NEW rows, NEW top \in Nat, LanesFit(rows, top), NEW n \in DOMAIN rows, NEW up \in Nat, up >= top,
           NEW r, RowFits(r, up),
           \A m \in DOMAIN rows : m # n => Differ(rows[m], r) /\ Differ(r, rows[m])
    PROVE  /\ LanesFit([rows EXCEPT ![n] = r], up)
           /\ \A origin : (r.origin # origin /\ (\A m \in DOMAIN rows : m # n => rows[m].origin # origin))
                             => NoneOf([rows EXCEPT ![n] = r], origin)
<1> DEFINE new == [rows EXCEPT ![n] = r]
<1>1. rows \in Seq(LaneRow) /\ r \in LaneRow
  BY DEF LanesFit, RowFits
<1>2. /\ new \in Seq(LaneRow) /\ DOMAIN new = DOMAIN rows /\ new[n] = r
      /\ \A m \in DOMAIN rows : m # n => new[m] = rows[m]
  BY <1>1
<1> HIDE DEF new
<1>3. \A m \in DOMAIN rows : m # n => RowFits(rows[m], up)
  <2>1. ASSUME NEW m \in DOMAIN rows PROVE RowFits(rows[m], up)
    <3>1. RowFits(rows[m], top)
      BY DEF LanesFit
    <3>2. rows[m].attention \in Nat
      BY <3>1 DEF RowFits, LaneRow
    <3>3. rows[m].attention <= up
      BY <3>1, <3>2 DEF RowFits
    <3> QED BY <3>1, <3>3 DEF RowFits
  <2> QED BY <2>1
<1>4. \A m \in DOMAIN new : RowFits(new[m], up)
  BY <1>2, <1>3
<1>5. ASSUME NEW k \in DOMAIN new, NEW m \in DOMAIN new, k # m PROVE Differ(new[k], new[m])
  BY <1>2, <1>5 DEF LanesFit
<1>6. LanesFit(new, up)
  BY <1>2, <1>4, <1>5 DEF LanesFit
<1>7. \A origin : (r.origin # origin /\ (\A m \in DOMAIN rows : m # n => rows[m].origin # origin))
                     => NoneOf(new, origin)
  BY <1>2 DEF NoneOf
<1> QED BY <1>6, <1>7 DEF new

\* A lane keeps name, GPU and origin while its run changes
LEMMA RunChanged ==
    ASSUME NEW rows, NEW top \in Nat, LanesFit(rows, top), StandsAlone(rows), NEW n \in DOMAIN rows,
           NEW up \in Nat, up >= top, NEW r, RowFits(r, up),
           r.name = rows[n].name, r.device = rows[n].device, r.origin = rows[n].origin
    PROVE  LanesFit([rows EXCEPT ![n] = r], up) /\ StandsAlone([rows EXCEPT ![n] = r])
<1>1. \A m \in DOMAIN rows : m # n => Differ(rows[m], r) /\ Differ(r, rows[m])
  BY DEF LanesFit, Differ
<1>2. \A origin : NoneOf(rows, origin) =>
         r.origin # origin /\ (\A m \in DOMAIN rows : m # n => rows[m].origin # origin)
  BY DEF NoneOf
<1>3. LanesFit([rows EXCEPT ![n] = r], up)
  BY <1>1, LaneRewritten
<1>4. \A origin : NoneOf(rows, origin) => NoneOf([rows EXCEPT ![n] = r], origin)
  BY <1>1, <1>2, LaneRewritten
<1> QED BY <1>3, <1>4 DEF StandsAlone

----------------------------------------------------------------------------
(* What a start of the daemon finds                                         *)

\* A nonempty set of numbers has a least element
LEMMA LeastNumber ==
    ASSUME NEW S \in SUBSET Nat, S # {}
    PROVE  \E m \in S : \A n \in S : m <= n
<1> DEFINE R == {ss \in Nat \X Nat : ss[1] < ss[2]}
<1>1. IsWellFoundedOn(R, Nat)
  BY NatLessThanWellFounded DEF OpToRel
<1> HIDE DEF R
<1>2. PICK m \in S : \A n \in S : ~(<<n, m>> \in R)
  BY <1>1, WFMin
<1>3. \A n \in S : ~(n < m)
  BY <1>2 DEF R
<1> QED BY <1>3

\* The first m of the detected resources, inserted one after the other
IsInsertion(rows, detected, m, f) ==
    f = [k \in 0 .. m |-> IF k = 0 THEN rows ELSE Inserted(f[k - 1], detected[k])]

Inserts(rows, detected, m) == \E f : IsInsertion(rows, detected, m, f)

LEMMA InsertionStep ==
    ASSUME NEW rows, NEW detected, NEW m \in Nat, m # 0, Inserts(rows, detected, m - 1)
    PROVE  Inserts(rows, detected, m)
<1> DEFINE S(k, b) == Inserted(b, detected[k])
<1> HIDE DEF S
<1>1. PICK f : f = [k \in 0 .. (m - 1) |-> IF k = 0 THEN rows ELSE S(k, f[k - 1])]
  BY DEF Inserts, IsInsertion, S
<1> DEFINE g == [k \in 0 .. m |-> IF k = m THEN S(m, f[m - 1]) ELSE f[k]]
<1>2. ASSUME NEW n \in 0 .. m
      PROVE  g[n] = IF n = 0 THEN rows ELSE S(n, g[n - 1])
  <2>1. CASE n = m
    <3>1. n - 1 \in 0 .. m /\ n - 1 # m /\ n # 0
      BY <2>1
    <3>2. g[n] = S(m, f[m - 1]) /\ g[n - 1] = f[m - 1]
      BY <2>1, <3>1
    <3> QED BY <2>1, <3>1, <3>2
  <2>2. CASE n # m
    <3>1. n \in 0 .. (m - 1) /\ g[n] = f[n]
      BY <2>2
    <3>2. n # 0 => n - 1 \in 0 .. m /\ n - 1 # m
      BY <2>2
    <3>3. n # 0 => g[n - 1] = f[n - 1]
      BY <3>2
    <3>4. f[n] = IF n = 0 THEN rows ELSE S(n, f[n - 1])
      BY <1>1, <3>1
    <3> HIDE DEF g
    <3> QED BY <3>1, <3>3, <3>4
  <2> QED BY <2>1, <2>2
<1>3. g = [n \in 0 .. m |-> g[n]]
  OBVIOUS
<1> HIDE DEF g
<1>4. g = [n \in 0 .. m |-> IF n = 0 THEN rows ELSE S(n, g[n - 1])]
  BY <1>2, <1>3
<1> QED BY <1>4 DEF Inserts, IsInsertion, S

\* There is no least number of resources that cannot be inserted
LEMMA InsertionExists ==
    ASSUME NEW rows, NEW detected, NEW m \in Nat
    PROVE  Inserts(rows, detected, m)
<1> DEFINE Bad == {n \in Nat : ~Inserts(rows, detected, n)}
<1> SUFFICES ASSUME Bad # {} PROVE FALSE
  OBVIOUS
<1>1. Bad \in SUBSET Nat
  OBVIOUS
<1>2. PICK n \in Bad : \A k \in Bad : n <= k
  <2> HIDE DEF Bad
  <2> QED BY <1>1, LeastNumber
<1>3. n \in Nat /\ ~Inserts(rows, detected, n)
  OBVIOUS
<1>4. n # 0
  <2> DEFINE f == [k \in 0 .. 0 |-> rows]
  <2>1. f = [k \in 0 .. 0 |-> IF k = 0 THEN rows ELSE Inserted(f[k - 1], detected[k])]
    OBVIOUS
  <2>2. Inserts(rows, detected, 0)
    BY <2>1 DEF Inserts, IsInsertion
  <2> QED BY <1>3, <2>2
<1>5. n - 1 \in Nat /\ ~(n <= n - 1)
  BY <1>3, <1>4
<1>6. Inserts(rows, detected, n - 1)
  BY <1>2, <1>5
<1> QED BY <1>3, <1>4, <1>6, InsertionStep

\* A detected resource: the unindexed lane is named as the first GPU
Finding == [name : Nat, device : Nat]
Findings(other) ==
    {found \in Finding :
        IF found.device = NoDevice THEN found.name = Gpu(0) /\ other = "detected_device"
        ELSE other = "detected_fallback"}

\* Inserting one keeps the lanes in shape, and those of the other kind away
LEMMA InsertedFits ==
    ASSUME NEW rows, NEW top \in Nat, LanesFit(rows, top), NEW other, NoneOf(rows, other),
           NEW found \in Findings(other)
    PROVE  LanesFit(Inserted(rows, found), top) /\ NoneOf(Inserted(rows, found), other)
<1> DEFINE origin == IF found.device = NoDevice THEN "detected_fallback" ELSE "detected_device"
           r == Lane(found.name, found.device, origin)
<1>1. /\ found.name \in Nat /\ found.device \in Nat /\ origin # other
      /\ origin \in {"detected_fallback", "detected_device"}
      /\ origin = "detected_fallback" => found.device = NoDevice /\ found.name = Gpu(0)
      /\ origin = "detected_device" => found.device # NoDevice
  BY DEF Findings, Finding
<1> HIDE DEF origin
<1>2. r \in LaneRow /\ r.name = found.name /\ r.device = found.device /\ r.origin = origin
      /\ r.run = "none" /\ r.attention = 0
  BY <1>1 DEF Lane, LaneRow, Origins, NoDevice
<1> HIDE DEF r
<1>3. RowFits(r, top)
  BY <1>1, <1>2 DEF RowFits
<1>4. CASE HasName(rows, found.name) \/ Holds(rows, found.device)
  BY <1>4 DEF Inserted
<1>5. CASE ~(HasName(rows, found.name) \/ Holds(rows, found.device))
  <2>1. Inserted(rows, found) = Append(rows, r)
    BY <1>5 DEF Inserted, r, origin
  <2>2. ~HasName(rows, r.name) /\ ~Holds(rows, r.device) /\ r.origin # other
    BY <1>1, <1>2, <1>5
  <2> QED BY <1>3, <2>1, <2>2, LaneAdded
<1> QED BY <1>4, <1>5

LEMMA InsertionFits ==
    ASSUME NEW rows, NEW top \in Nat, LanesFit(rows, top), NEW other, NoneOf(rows, other),
           NEW detected \in Seq(Findings(other))
    PROVE  LanesFit(insert_detected(rows, detected), top) /\ NoneOf(insert_detected(rows, detected), other)
<1> DEFINE L == Len(detected)
           f == CHOOSE g : IsInsertion(rows, detected, L, g)
<1>1. L \in Nat /\ \A k \in 1 .. L : detected[k] \in Findings(other)
  OBVIOUS
<1>2. insert_detected(rows, detected) = f[L]
  BY DEF insert_detected, IsInsertion
<1> HIDE DEF L
<1>3. IsInsertion(rows, detected, L, f)
  BY <1>1, InsertionExists DEF Inserts
<1> HIDE DEF f
<1>4. f[0] = rows /\ \A k \in 1 .. L : f[k] = Inserted(f[k - 1], detected[k])
  <2> DEFINE S(k, b) == Inserted(b, detected[k])
  <2>1. f = [k \in 0 .. L |-> IF k = 0 THEN rows ELSE S(k, f[k - 1])]
    BY <1>3 DEF IsInsertion
  <2> HIDE DEF S
  <2>2. f[0] = rows /\ \A k \in 1 .. L : f[k] = S(k, f[k - 1])
    BY <1>1, <2>1
  <2> QED BY <2>2 DEF S
<1> DEFINE Bad == {n \in 0 .. L : ~(LanesFit(f[n], top) /\ NoneOf(f[n], other))}
<1>5. ASSUME Bad # {} PROVE FALSE
  <2>1. PICK n \in Bad : \A k \in Bad : n <= k
    <3>1. Bad \in SUBSET Nat
      BY <1>1
    <3> HIDE DEF Bad
    <3> QED BY <1>5, <3>1, LeastNumber
  <2>2. n \in 0 .. L /\ ~(LanesFit(f[n], top) /\ NoneOf(f[n], other))
    OBVIOUS
  <2>3. n # 0
    BY <1>4, <2>2
  <2>4. n \in 1 .. L /\ n - 1 \in 0 .. L /\ ~(n <= n - 1)
    BY <1>1, <2>2, <2>3
  <2>5. LanesFit(f[n - 1], top) /\ NoneOf(f[n - 1], other)
    BY <2>1, <2>4
  <2>6. f[n] = Inserted(f[n - 1], detected[n]) /\ detected[n] \in Findings(other)
    BY <1>1, <1>4, <2>4
  <2>7. LanesFit(f[n], top) /\ NoneOf(f[n], other)
    BY <2>5, <2>6, InsertedFits
  <2> QED BY <2>2, <2>7
<1>6. L \in 0 .. L
  BY <1>1
<1> QED BY <1>2, <1>5, <1>6

\* What is found is one unindexed lane, or GPUs with an index
LEMMA DetectedFinds ==
    ASSUME NEW probe \in Probes
    PROVE  \/ Detected(probe) = <<>>
           \/ Detected(probe) \in Seq(Findings("detected_device")) /\ Detected(probe) # <<>>
              /\ Detected(probe)[1].device = NoDevice
           \/ Detected(probe) \in Seq(Findings("detected_fallback")) /\ Detected(probe) # <<>>
              /\ Detected(probe)[1].device \in Nat \ {NoDevice}
<1> DEFINE D == Detected(probe)
<1>0. Devices \subseteq Nat \ {NoDevice} /\ NoDevice \in Nat
  BY RequestsAssumption DEF NoDevice
<1>1. CASE probe = <<NoDevice>>
  <2>1. D = [i \in 1 .. 1 |-> [name |-> Gpu(0), device |-> NoDevice]]
    BY <1>1 DEF Detected
  <2>2. [name |-> Gpu(0), device |-> NoDevice] \in Findings("detected_device")
    BY <1>0 DEF Findings, Finding, Gpu
  <2>3. D \in Seq(Findings("detected_device")) /\ Len(D) = 1 /\ D[1].device = NoDevice
    BY <2>1, <2>2
  <2>4. D # <<>>
    BY <2>3
  <2> QED BY <2>3, <2>4
<1>2. CASE probe \in SeqOf(Devices, Cardinality(Devices))
  <2>1. PICK m \in Nat : probe \in [1 .. m -> Devices]
    BY <1>2 DEF SeqOf
  <2>2. D = [i \in 1 .. m |-> [name |-> Gpu(probe[i]), device |-> probe[i]]]
    BY <1>0, <2>1 DEF Detected
  <2>3. \A i \in 1 .. m : /\ [name |-> Gpu(probe[i]), device |-> probe[i]] \in Findings("detected_fallback")
                          /\ probe[i] \in Nat \ {NoDevice}
    BY <1>0, <2>1 DEF Findings, Finding, Gpu
  <2>4. D \in Seq(Findings("detected_fallback")) /\ Len(D) = m
    BY <2>1, <2>2, <2>3
  <2>5. CASE m = 0
    BY <2>4, <2>5
  <2>6. CASE m # 0
    <3>1. 1 \in 1 .. m
      BY <2>1, <2>6
    <3>2. D[1].device \in Nat \ {NoDevice}
      BY <2>2, <2>3, <3>1
    <3>3. D # <<>>
      BY <2>4, <2>6
    <3> QED BY <2>4, <3>2, <3>3
  <2> QED BY <2>5, <2>6
<1> QED BY <1>1, <1>2 DEF Probes

\* The fallback becomes the first GPU: it is idle, nobody else has the GPU, and
\* it was the only fallback
LEMMA AdoptedFits ==
    ASSUME NEW rows, NEW top \in Nat, LanesFit(rows, top), NEW n \in Fallbacks(rows),
           NEW device \in Nat \ {NoDevice}, Adopts(rows, n, device)
    PROVE  LanesFit(Adopted(rows, n, device), top) /\ NoneOf(Adopted(rows, n, device), "detected_fallback")
<1>1. n \in DOMAIN rows /\ rows[n].origin = "detected_fallback" /\ rows[n].run = "none" /\ ~Holds(rows, device)
  BY DEF Fallbacks, Adopts
<1>2. RowFits(rows[n], top) /\ rows[n].name = Gpu(0)
  BY <1>1 DEF LanesFit, RowFits
<1>3. PICK old \in LaneRow : old = rows[n]
  BY <1>2 DEF RowFits
<1>4. PICK name \in Nat :
         /\ name = IF \E m \in DOMAIN rows \ {n} : rows[m].name = Gpu(device) THEN old.name ELSE Gpu(device)
         /\ \A m \in DOMAIN rows : m # n => rows[m].name # name
  <2>1. CASE \E m \in DOMAIN rows \ {n} : rows[m].name = Gpu(device)
    <3>1. \A m \in DOMAIN rows : m # n => rows[m].name # old.name
      BY <1>1, <1>3 DEF LanesFit, Differ
    <3>2. old.name \in Nat
      BY DEF LaneRow
    <3> QED BY <2>1, <3>1, <3>2
  <2>2. CASE ~(\E m \in DOMAIN rows \ {n} : rows[m].name = Gpu(device))
    BY <2>2 DEF Gpu
  <2> QED BY <2>1, <2>2
<1> DEFINE r == [old EXCEPT !.device = device, !.origin = "detected_device", !.name = name]
<1>5. Adopted(rows, n, device) = [rows EXCEPT ![n] = r]
  BY <1>3, <1>4 DEF Adopted
<1>6. /\ r \in LaneRow /\ r.name = name /\ r.device = device /\ r.origin = "detected_device"
      /\ r.run = old.run /\ r.attention = old.attention
  BY DEF LaneRow, Origins
<1> HIDE DEF r
<1>7. RowFits(r, top)
  BY <1>1, <1>2, <1>3, <1>6 DEF RowFits
<1>8. \A m \in DOMAIN rows : m # n => Differ(rows[m], r) /\ Differ(r, rows[m])
  BY <1>1, <1>4, <1>6 DEF Holds, Indexed, Differ
<1>9. \A m \in DOMAIN rows : m # n => rows[m].origin # "detected_fallback"
  <2>1. ASSUME NEW m \in DOMAIN rows, m # n, rows[m].origin = "detected_fallback" PROVE FALSE
    <3>1. rows[m].name = Gpu(0)
      BY <2>1 DEF LanesFit, RowFits
    <3>2. rows[m].name # rows[n].name
      BY <1>1, <2>1 DEF LanesFit, Differ
    <3> QED BY <1>2, <3>1, <3>2
  <2> QED BY <2>1
<1>10. top >= top
  OBVIOUS
<1>11. LanesFit([rows EXCEPT ![n] = r], top)
  BY <1>1, <1>7, <1>8, <1>10, LaneRewritten
<1>12. NoneOf([rows EXCEPT ![n] = r], "detected_fallback")
  BY <1>1, <1>6, <1>7, <1>8, <1>9, <1>10, LaneRewritten
<1> QED BY <1>5, <1>11, <1>12

\* A start of the daemon keeps the lanes in shape
LEMMA EnsureFits ==
    ASSUME NEW rows, NEW top \in Nat, LanesFit(rows, top), StandsAlone(rows), NEW probe \in Probes
    PROVE  /\ LanesFit(ensure_detected_resources(rows, Detected(probe)), top)
           /\ StandsAlone(ensure_detected_resources(rows, Detected(probe)))
<1> DEFINE D == Detected(probe)
           E == ensure_detected_resources(rows, D)
<1>1. CASE D = <<>>
  <2>1. D \in Seq(Findings("detected_device")) /\ D \in Seq(Findings("detected_fallback"))
    BY <1>1
  <2>2. E = rows \/ E = insert_detected(rows, D)
    BY <1>1 DEF ensure_detected_resources
  <2> HIDE DEF D, E
  <2>3. /\ LanesFit(insert_detected(rows, D), top) /\ StandsAlone(insert_detected(rows, D))
    BY <2>1, InsertionFits DEF StandsAlone
  <2> QED BY <2>2, <2>3 DEF E, D
<1>2. CASE D \in Seq(Findings("detected_device")) /\ D # <<>> /\ D[1].device = NoDevice
  <2>1. E = IF Indexed(rows) # {} THEN rows ELSE insert_detected(rows, D)
    BY <1>2 DEF ensure_detected_resources
  <2> HIDE DEF D, E
  <2>2. CASE Indexed(rows) # {}
    BY <2>1, <2>2 DEF E, D
  <2>3. CASE Indexed(rows) = {}
    <3>1. NoneOf(rows, "detected_device")
      BY <2>3 DEF NoneOf, Indexed, LanesFit, RowFits
    <3>2. LanesFit(insert_detected(rows, D), top) /\ NoneOf(insert_detected(rows, D), "detected_device")
      BY <1>2, <3>1, InsertionFits
    <3> QED BY <2>1, <2>3, <3>2 DEF E, D, StandsAlone
  <2> QED BY <2>2, <2>3
<1>3. CASE D \in Seq(Findings("detected_fallback")) /\ D # <<>> /\ D[1].device \in Nat \ {NoDevice}
  <2>1. PICK first \in Nat \ {NoDevice} : first = D[1].device
    BY <1>3
  <2>2. E = IF Fallbacks(rows) = {} THEN insert_detected(rows, D)
            ELSE LET n == CHOOSE m \in Fallbacks(rows) : TRUE
                 IN  IF Adopts(rows, n, first)
                     THEN insert_detected(Adopted(rows, n, first), D)
                     ELSE rows
    BY <1>3, <2>1 DEF ensure_detected_resources
  <2> HIDE DEF D, E
  <2>3. CASE Fallbacks(rows) = {}
    <3>1. NoneOf(rows, "detected_fallback")
      BY <2>3 DEF NoneOf, Fallbacks
    <3>2. LanesFit(insert_detected(rows, D), top) /\ NoneOf(insert_detected(rows, D), "detected_fallback")
      BY <1>3, <3>1, InsertionFits
    <3> QED BY <2>2, <2>3, <3>2 DEF E, D, StandsAlone
  <2>4. CASE Fallbacks(rows) # {}
    <3>1. PICK n \in Fallbacks(rows) : n = CHOOSE m \in Fallbacks(rows) : TRUE
      BY <2>4
    <3>2. E = IF Adopts(rows, n, first) THEN insert_detected(Adopted(rows, n, first), D) ELSE rows
      BY <2>2, <2>4, <3>1
    <3>3. CASE Adopts(rows, n, first)
      <4> DEFINE A == Adopted(rows, n, first)
      <4>1. LanesFit(A, top) /\ NoneOf(A, "detected_fallback")
        BY <3>3, AdoptedFits
      <4>2. E = insert_detected(A, D)
        BY <3>2, <3>3
      <4> HIDE DEF A
      <4>3. LanesFit(insert_detected(A, D), top) /\ NoneOf(insert_detected(A, D), "detected_fallback")
        BY <1>3, <4>1, InsertionFits
      <4> QED BY <4>2, <4>3 DEF E, D, StandsAlone
    <3>4. CASE ~Adopts(rows, n, first)
      BY <3>2, <3>4 DEF E, D
    <3> QED BY <3>3, <3>4
  <2> QED BY <2>3, <2>4
<1> QED BY <1>1, <1>2, <1>3, DetectedFinds

----------------------------------------------------------------------------
(* Every step of QueueRequests                                              *)

\* A run gets a lane, with its device
LEMMA ReserveFits ==
    ASSUME LanesInv, NEW n \in DOMAIN lanes, reserve_run(n)
    PROVE  LanesInv'
<1>0. raised \in Nat /\ raised' = raised /\ LanesFit(lanes, raised) /\ StandsAlone(lanes)
  BY DEF LanesInv, reserve_run
<1>1. RowFits(lanes[n], raised)
  BY <1>0 DEF LanesFit
<1>2. PICK old \in LaneRow : old = lanes[n]
  BY <1>1 DEF RowFits
<1> DEFINE r == [old EXCEPT !.run = "held", !.given = old.device]
<1>3. lanes' = [lanes EXCEPT ![n] = r]
  BY <1>2 DEF reserve_run
<1>4. /\ r \in LaneRow /\ r.name = old.name /\ r.device = old.device /\ r.origin = old.origin
      /\ r.given = old.device /\ r.attention = old.attention
  BY DEF LaneRow
<1> HIDE DEF r
<1>5. RowFits(r, raised)
  BY <1>1, <1>2, <1>4 DEF RowFits
<1>6. raised >= raised
  BY <1>0
<1>7. LanesFit(lanes', raised) /\ StandsAlone(lanes')
  BY <1>0, <1>2, <1>3, <1>4, <1>5, <1>6, RunChanged
<1> QED BY <1>0, <1>7 DEF LanesInv, LanesFit, RowFits, Differ, StandsAlone, NoneOf, LaneRow, Origins, Gpu, NoDevice

\* A lane is free again, whoever frees it
LEMMA ClearFits ==
    ASSUME NEW rows, NEW top \in Nat, LanesFit(rows, top), StandsAlone(rows), NEW n \in DOMAIN rows
    PROVE  /\ LanesFit([rows EXCEPT ![n] = clear_run(rows[n])], top)
           /\ StandsAlone([rows EXCEPT ![n] = clear_run(rows[n])])
<1>1. RowFits(rows[n], top)
  BY DEF LanesFit
<1>2. PICK old \in LaneRow : old = rows[n]
  BY <1>1 DEF RowFits
<1>3. PICK r : r = clear_run(rows[n])
  OBVIOUS
<1>4. r = [old EXCEPT !.run = "none", !.given = NoDevice, !.attention = 0]
  BY <1>2, <1>3 DEF clear_run
<1>5. NoDevice \in Nat
  BY DEF NoDevice
<1>6. /\ r \in LaneRow /\ r.name = old.name /\ r.device = old.device /\ r.origin = old.origin
      /\ r.run = "none" /\ r.attention = 0
  BY <1>4, <1>5 DEF LaneRow
<1>7. RowFits(r, top)
  BY <1>1, <1>2, <1>6 DEF RowFits
<1>8. top >= top
  OBVIOUS
<1>9. LanesFit([rows EXCEPT ![n] = r], top) /\ StandsAlone([rows EXCEPT ![n] = r])
  BY <1>2, <1>6, <1>7, <1>8, RunChanged
<1> QED BY <1>3, <1>9

LEMMA CleanupFits ==
    ASSUME LanesInv, NEW n \in DOMAIN lanes, NEW clean \in BOOLEAN, apply_cleanup_result(n, clean)
    PROVE  LanesInv'
<1>0. raised \in Nat /\ LanesFit(lanes, raised) /\ StandsAlone(lanes) /\ lanes[n].run = "held"
  BY DEF LanesInv, apply_cleanup_result
<1>1. CASE clean
  <2>1. raised' = raised /\ lanes' = [lanes EXCEPT ![n] = clear_run(lanes[n])]
    BY <1>1 DEF apply_cleanup_result
  <2>2. LanesFit(lanes', raised) /\ StandsAlone(lanes')
    BY <1>0, <2>1, ClearFits
  <2> QED BY <1>0, <2>1, <2>2 DEF LanesInv, LanesFit, RowFits, Differ, StandsAlone, NoneOf, LaneRow, Origins, Gpu, NoDevice
<1>2. CASE ~clean
  <2>1. RowFits(lanes[n], raised)
    BY <1>0 DEF LanesFit
  <2>2. PICK old \in LaneRow : old = lanes[n]
    BY <2>1 DEF RowFits
  <2>3. PICK up \in Nat : up = raised + 1 /\ up >= raised
    BY <1>0
  <2> DEFINE r == [old EXCEPT !.run = "attention", !.attention = up]
  <2>4. lanes' = [lanes EXCEPT ![n] = r] /\ raised' = up
    BY <1>2, <2>2, <2>3 DEF apply_cleanup_result
  <2>5. /\ r \in LaneRow /\ r.name = old.name /\ r.device = old.device /\ r.origin = old.origin
        /\ r.given = old.given /\ r.attention = up
    BY DEF LaneRow
  <2> HIDE DEF r
  <2>6. r.attention <= up
    BY <2>5
  <2>7. RowFits(r, up)
    BY <1>0, <2>1, <2>2, <2>5, <2>6 DEF RowFits
  <2>8. LanesFit(lanes', up) /\ StandsAlone(lanes')
    BY <1>0, <2>2, <2>3, <2>4, <2>5, <2>7, RunChanged
  <2> QED BY <2>4, <2>8 DEF LanesInv, LanesFit, RowFits, Differ, StandsAlone, NoneOf, LaneRow, Origins, Gpu, NoDevice
<1> QED BY <1>1, <1>2

LEMMA StartFits ==
    ASSUME LanesInv, NEW probe \in Probes, DaemonStarts(probe)
    PROVE  LanesInv'
<1>0. raised \in Nat /\ raised' = raised /\ LanesFit(lanes, raised) /\ StandsAlone(lanes)
  BY DEF LanesInv, DaemonStarts
<1>1. lanes' = ensure_detected_resources(lanes, Detected(probe))
  BY DEF DaemonStarts
<1>2. LanesFit(lanes', raised) /\ StandsAlone(lanes')
  BY <1>0, <1>1, EnsureFits
<1> QED BY <1>0, <1>2 DEF LanesInv, LanesFit, RowFits, Differ, StandsAlone, NoneOf, LaneRow, Origins, Gpu, NoDevice

\* A sequence without the first of an element is of the same elements
LEMMA RemovedType ==
    ASSUME NEW T, NEW s \in Seq(T), NEW e
    PROVE  RemoveFirst(s, e) \in Seq(T)
<1>1. CASE ~(\E i \in 1 .. Len(s) : s[i] = e)
  BY <1>1 DEF RemoveFirst
<1>2. CASE \E i \in 1 .. Len(s) : s[i] = e
  <2> DEFINE I == {i \in 1 .. Len(s) : s[i] = e}
  <2>1. I \in SUBSET Nat /\ I # {}
    BY <1>2
  <2>2. SelectInSeq(s, LAMBDA v : v = e) = Min(I)
    BY <2>1 DEF SelectInSeq
  <2>3. Min(I) \in I
    <3> HIDE DEF I
    <3>1. \E m \in I : \A n \in I : m <= n
      BY <2>1, LeastNumber
    <3> QED BY <3>1 DEF Min
  <2>4. PICK m \in 1 .. Len(s) : m = SelectInSeq(s, LAMBDA v : v = e)
    BY <2>2, <2>3
  <2>5. RemoveFirst(s, e) = SubSeq(s, 1, m - 1) \o SubSeq(s, m + 1, Len(s))
    BY <1>2, <2>4 DEF RemoveFirst, RemoveAt
  <2>6. SubSeq(s, 1, m - 1) \in Seq(T) /\ SubSeq(s, m + 1, Len(s)) \in Seq(T)
    OBVIOUS
  <2> QED BY <2>5, <2>6
<1> QED BY <1>1, <1>2

\* The jobs that people name are in the queue from the start
LEMMA NamedWait == ASSUME NEW q \in Keyed, q.command \in {"move", "cancel"} PROVE q.job \in Range(Waiting)
<1>1. q.job \in Named
  BY DEF Keyed
<1> QED BY <1>1, RequestsAssumption

\* What the store answers keeps the queue and the lanes in shape
LEMMA OperationFits ==
    ASSUME LanesInv, order \in Seq(Range(Waiting)), NEW q \in Keyed, NEW a, a = apply(q)
    PROVE  /\ a.order \in Seq(Range(Waiting))
           /\ LanesFit(a.lanes, raised) /\ StandsAlone(a.lanes)
<1>0. raised \in Nat /\ LanesFit(lanes, raised) /\ StandsAlone(lanes)
  BY DEF LanesInv
<1>1. CASE q.command = "move"
  <2>1. a = apply_move(q)
    BY <1>1 DEF apply
  <2>2. PICK w \in Seq(Range(Waiting)) : w = Without(q.job)
    BY RemovedType DEF Without
  <2>3. q.job \in Range(Waiting)
    BY <1>1, NamedWait
  <2>4. a.lanes = lanes /\ (a.order = order \/ a.order = <<q.job>> \o w \/ a.order = Append(w, q.job))
    BY <2>1, <2>2 DEF apply_move
  <2>5. <<q.job>> \o w \in Seq(Range(Waiting)) /\ Append(w, q.job) \in Seq(Range(Waiting))
    BY <2>2, <2>3
  <2> QED BY <1>0, <2>4, <2>5
<1>2. CASE q.command = "cancel"
  <2>1. a = apply_cancel(q)
    BY <1>2 DEF apply
  <2>2. a.lanes = lanes /\ a.order = Without(q.job)
    BY <2>1 DEF apply_cancel
  <2> QED BY <1>0, <2>2, RemovedType DEF Without
<1>3. CASE q.command = "release"
  <2>1. a = release_resource_attention(q)
    BY <1>3 DEF apply
  <2>2. a.order = order
    BY <2>1 DEF release_resource_attention
  <2>3. a.lanes = lanes \/ \E n \in DOMAIN lanes : a.lanes = [lanes EXCEPT ![n] = clear_run(lanes[n])]
    <3> DEFINE held == {n \in DOMAIN lanes : lanes[n].attention = q.attention}
    <3>1. CASE held = {}
      BY <2>1, <3>1 DEF release_resource_attention
    <3>2. CASE held # {}
      <4>1. PICK n \in held : n = CHOOSE m \in held : TRUE
        BY <3>2
      <4>2. a.lanes = [lanes EXCEPT ![n] = clear_run(lanes[n])]
        BY <2>1, <3>2, <4>1 DEF release_resource_attention
      <4> QED BY <4>2
    <3> QED BY <3>1, <3>2
  <2>4. CASE a.lanes = lanes
    BY <1>0, <2>2, <2>4
  <2>5. ASSUME NEW n \in DOMAIN lanes, a.lanes = [lanes EXCEPT ![n] = clear_run(lanes[n])]
        PROVE  LanesFit(a.lanes, raised) /\ StandsAlone(a.lanes)
    BY <1>0, <2>5, ClearFits
  <2> QED BY <2>2, <2>3, <2>4, <2>5
<1> QED BY <1>1, <1>2, <1>3, KeyedCommand

LEMMA RegisteredFits ==
    ASSUME LanesInv, NEW q \in Unkeyed, q.command = "register",
           ~HasName(lanes, q.as[1]), ~Holds(lanes, q.as[2])
    PROVE  /\ LanesFit(Append(lanes, Lane(q.as[1], q.as[2], "manual")), raised)
           /\ StandsAlone(Append(lanes, Lane(q.as[1], q.as[2], "manual")))
<1>0. raised \in Nat /\ LanesFit(lanes, raised) /\ StandsAlone(lanes)
  BY DEF LanesInv
<1>1. q.as \in ByHand
  BY DEF Unkeyed
<1>2. q.as[1] \in Nat /\ q.as[2] \in Nat /\ NoDevice \in Nat
  <2>1. NoDevice \in Nat
    BY DEF NoDevice
  <2>2. q.as \in Nat \X (Devices \cup {NoDevice}) /\ Devices \cup {NoDevice} \subseteq Nat
    BY <1>1, <2>1, RequestsAssumption
  <2> QED BY <2>1, <2>2
<1> DEFINE r == Lane(q.as[1], q.as[2], "manual")
<1>3. /\ r \in LaneRow /\ r.name = q.as[1] /\ r.device = q.as[2] /\ r.origin = "manual"
      /\ r.run = "none" /\ r.attention = 0
  BY <1>2 DEF Lane, LaneRow, Origins
<1> HIDE DEF r
<1>4. RowFits(r, raised)
  BY <1>0, <1>3 DEF RowFits
<1>5. ~HasName(lanes, r.name) /\ ~Holds(lanes, r.device)
  BY <1>3
<1>6. LanesFit(Append(lanes, r), raised)
  BY <1>0, <1>4, <1>5, LaneAdded
<1>7. \A origin : NoneOf(lanes, origin) /\ origin # "manual" => NoneOf(Append(lanes, r), origin)
  BY <1>0, <1>3, <1>4, <1>5, LaneAdded
<1> QED BY <1>0, <1>6, <1>7 DEF r, StandsAlone

LEMMA ServedFits ==
    ASSUME LanesInv, order \in Seq(Range(Waiting)), NEW q \in Keyed \cup Unkeyed, NEW s, s = queue_request(q)
    PROVE  s.order \in Seq(Range(Waiting)) /\ LanesFit(s.lanes, raised) /\ StandsAlone(s.lanes)
<1>0. raised \in Nat /\ LanesFit(lanes, raised) /\ StandsAlone(lanes)
  BY DEF LanesInv
<1>1. CASE q \in Keyed
  <2>1. s = with_operation(q)
    BY <1>1, KeyedCommand DEF queue_request
  <2>2. CASE Used(q)
    <3>1. s.order = order /\ s.lanes = lanes
      BY <2>1, <2>2 DEF with_operation
    <3> QED BY <1>0, <3>1
  <2>3. CASE ~Used(q)
    <3>1. PICK a : a = apply(q)
      OBVIOUS
    <3>2. s.order = a.order /\ s.lanes = a.lanes
      BY <2>1, <2>3, <3>1 DEF with_operation
    <3> QED BY <1>1, <3>1, <3>2, OperationFits
  <2> QED BY <2>2, <2>3
<1>2. CASE q \in Unkeyed
  <2>1. CASE q.command = "register"
    <3>1. s = register_resource(q)
      BY <2>1 DEF queue_request
    <3>2. CASE HasName(lanes, q.as[1]) \/ Holds(lanes, q.as[2])
      <4>1. s.order = order /\ s.lanes = lanes
        BY <3>1, <3>2 DEF register_resource, Kept
      <4> QED BY <1>0, <4>1
    <3>3. CASE ~(HasName(lanes, q.as[1]) \/ Holds(lanes, q.as[2]))
      <4>1. s.order = order /\ s.lanes = Append(lanes, Lane(q.as[1], q.as[2], "manual"))
        BY <3>1, <3>3 DEF register_resource, Kept
      <4> QED BY <1>2, <2>1, <3>3, <4>1, RegisteredFits
    <3> QED BY <3>2, <3>3
  <2>2. CASE q.command = "label"
    <3>1. s = set_resource_label(q)
      BY <2>2 DEF queue_request
    <3>2. s.order = order /\ s.lanes = lanes
      BY <3>1 DEF set_resource_label, Kept
    <3> QED BY <1>0, <3>2
  <2> QED BY <1>2, <2>1, <2>2, KeyedCommand
<1> QED BY <1>1, <1>2

LEMMA ServeFits ==
    ASSUME RequestsInv, LanesInv, Attempts, NEW m \in wire, NEW arrives \in BOOLEAN, ServesRequest(m, arrives)
    PROVE  LanesInv' /\ Attempts'
<1>0. order \in Seq(Range(Waiting)) /\ raised \in Nat /\ raised' = raised /\ boots' = boots /\ wire' \subseteq wire
  BY DEF Attempts, LanesInv, ServesRequest
<1>1. PICK s : s = queue_request(m.request)
  OBVIOUS
<1>2. PICK q : q = m.request
  OBVIOUS
<1>3. /\ m.caller \in Callers /\ calls[m.caller].phase # "idle"
      /\ q \in Keyed \cup Unkeyed /\ CallIsWhole(calls[m.caller])
  BY <1>2 DEF RequestsInv, Mail, Commands, CallIsWhole
<1>4. /\ lanes' = s.lanes /\ order' = s.order
      /\ \/ calls' = calls
         \/ calls' = [calls EXCEPT ![m.caller].phase = "answered", ![m.caller].answer = s.result]
  BY <1>1 DEF ServesRequest
<1>5. s.order \in Seq(Range(Waiting)) /\ LanesFit(s.lanes, raised) /\ StandsAlone(s.lanes)
  BY <1>0, <1>1, <1>2, <1>3, ServedFits
<1>6. LanesInv'
  BY <1>0, <1>4, <1>5 DEF LanesInv, LanesFit, RowFits, Differ, StandsAlone, NoneOf, LaneRow, Origins, Gpu, NoDevice
<1>7. \A c \in Callers : calls'[c].phase \in {"idle", "sent", "answered"} /\ calls'[c].try = calls[c].try
  <2>1. CASE calls' = calls
    BY <2>1 DEF Attempts
  <2>2. CASE calls' = [calls EXCEPT ![m.caller].phase = "answered", ![m.caller].answer = s.result]
    <3>1. PICK call : call = calls[m.caller]
      OBVIOUS
    <3> DEFINE new == [phase |-> "answered", try |-> call.try, request |-> call.request, answer |-> s.result]
    <3>2. [call EXCEPT !.phase = "answered", !.answer = s.result] = new
      BY <1>3, <3>1, CallExcept
    <3>3. calls' = [calls EXCEPT ![m.caller] = new]
      BY <2>2, <3>1, <3>2
    <3>4. new.phase = "answered" /\ new.try = call.try
      OBVIOUS
    <3> HIDE DEF new
    <3>5. calls \in [Callers -> {calls[d] : d \in Callers}]
      BY DEF RequestsInv, Commands
    <3> QED BY <1>3, <3>1, <3>3, <3>4, <3>5 DEF Attempts
  <2> QED BY <1>4, <2>1, <2>2
<1>8. \A n \in wire' : n.caller \in Callers
  BY <1>0 DEF RequestsInv, Mail
<1>9. Attempts'
  BY <1>0, <1>4, <1>5, <1>7, <1>8 DEF Attempts
<1> QED BY <1>6, <1>9

\* A command's row changes: its attempts only grow
LEMMA AttemptsGrow ==
    ASSUME RequestsInv, Attempts, NEW c \in Callers, NEW new, calls' = [calls EXCEPT ![c] = new],
           new.phase \in {"idle", "sent", "answered"}, new.try \in Nat, new.try >= calls[c].try,
           \A m \in wire' : m \in wire \/ (m.caller = c /\ m.try \in Nat /\ m.try >= 1 /\ m.try <= new.try),
           UNCHANGED <<order, boots>>
    PROVE  Attempts'
<1>1. calls \in [Callers -> {calls[d] : d \in Callers}]
  BY DEF RequestsInv, Commands
<1>2. calls'[c] = new /\ \A d \in Callers : d # c => calls'[d] = calls[d]
  BY <1>1
<1>3. ASSUME NEW d \in Callers
      PROVE  /\ calls'[d].phase \in {"idle", "sent", "answered"} /\ calls'[d].try \in Nat
             /\ calls[d].try \in Nat /\ calls'[d].try >= calls[d].try
  BY <1>2 DEF Attempts
<1>4. ASSUME NEW m \in wire' PROVE m.try \in Nat /\ m.try >= 1 /\ m.try <= calls'[m.caller].try
  <2>1. CASE m \in wire
    <3>1. m.caller \in Callers /\ m.try \in Nat /\ m.try >= 1 /\ m.try <= calls[m.caller].try
      BY <2>1 DEF RequestsInv, Mail, Attempts
    <3> QED BY <1>3, <3>1
  <2>2. CASE m.caller = c /\ m.try \in Nat /\ m.try >= 1 /\ m.try <= new.try
    BY <1>2, <2>2
  <2> QED BY <2>1, <2>2
<1> QED BY <1>3, <1>4 DEF Attempts

LEMMA SendsFits ==
    ASSUME RequestsInv, Attempts, NEW c \in Callers, NEW q, Sends(c, q)
    PROVE  Attempts'
<1> DEFINE new == [phase |-> "sent", try |-> 1, request |-> q, answer |-> <<>>]
<1>1. calls' = [calls EXCEPT ![c] = new] /\ UNCHANGED <<order, boots>> /\ calls[c] = NoCall
  BY DEF Sends
<1>2. new.phase = "sent" /\ new.try = 1
  OBVIOUS
<1>3. calls[c].try = 0
  BY <1>1 DEF NoCall
<1>4. \A m \in wire' : m \in wire \/ (m.caller = c /\ m.try = 1)
  BY DEF Sends, Message
<1> HIDE DEF new
<1>5. new.phase \in {"idle", "sent", "answered"} /\ new.try \in Nat /\ new.try >= calls[c].try
  BY <1>2, <1>3
<1>6. \A m \in wire' : m \in wire \/ (m.caller = c /\ m.try \in Nat /\ m.try >= 1 /\ m.try <= new.try)
  BY <1>2, <1>4
<1> QED BY <1>1, <1>5, <1>6, AttemptsGrow

LEMMA RetryFits ==
    ASSUME RequestsInv, Attempts, NEW c \in Callers, post_retry(c)
    PROVE  Attempts'
<1>0. /\ CallIsWhole(calls[c]) /\ calls \in [Callers -> {calls[d] : d \in Callers}]
      /\ UNCHANGED <<order, boots>> /\ calls[c].phase = "sent"
  BY DEF RequestsInv, Commands, post_retry
<1>1. PICK call : call = calls[c]
  OBVIOUS
<1>2. call.try \in Nat /\ call.phase = "sent"
  BY <1>0, <1>1 DEF Attempts
<1>3. CASE calls[c].try < Tries /\ calls[c].request.command # "register"
  <2> DEFINE more == [phase |-> call.phase, try |-> call.try + 1, request |-> call.request,
                      answer |-> call.answer]
  <2>1. calls' = [calls EXCEPT ![c].try = @ + 1]
        /\ wire' = wire \cup {Message(c, calls[c].request, calls[c].try + 1)}
    BY <1>3 DEF post_retry
  <2>2. [call EXCEPT !.try = @ + 1] = more
    BY <1>0, <1>1, CallExcept
  <2>3. calls' = [calls EXCEPT ![c] = more]
    BY <1>0, <1>1, <2>1, <2>2
  <2>4. more.phase = "sent" /\ more.try = call.try + 1
    BY <1>2
  <2>5. \A m \in wire' : m \in wire \/ (m.caller = c /\ m.try = call.try + 1)
    BY <1>1, <2>1 DEF Message
  <2> HIDE DEF more
  <2>6. more.phase \in {"idle", "sent", "answered"} /\ more.try \in Nat /\ more.try >= calls[c].try
    BY <1>1, <1>2, <2>4
  <2>7. \A m \in wire' : m \in wire \/ (m.caller = c /\ m.try \in Nat /\ m.try >= 1 /\ m.try <= more.try)
    BY <1>2, <2>4, <2>5
  <2> QED BY <1>0, <2>3, <2>6, <2>7, AttemptsGrow
<1>4. CASE ~(calls[c].try < Tries /\ calls[c].request.command # "register")
  <2> DEFINE over == [phase |-> "answered", try |-> call.try, request |-> call.request,
                      answer |-> Unavailable]
  <2>1. calls' = [calls EXCEPT ![c].phase = "answered", ![c].answer = Unavailable] /\ wire' = wire
    BY <1>4 DEF post_retry
  <2>2. [call EXCEPT !.phase = "answered", !.answer = Unavailable] = over
    BY <1>0, <1>1, CallExcept
  <2>3. calls' = [calls EXCEPT ![c] = over]
    BY <1>0, <1>1, <2>1, <2>2
  <2>4. over.phase = "answered" /\ over.try = call.try
    OBVIOUS
  <2> HIDE DEF over
  <2>5. over.phase \in {"idle", "sent", "answered"} /\ over.try \in Nat /\ over.try >= calls[c].try
    BY <1>1, <1>2, <2>4
  <2> QED BY <1>0, <2>1, <2>3, <2>5, AttemptsGrow
<1> QED BY <1>3, <1>4

\* Steps that leave the commands alone
LEMMA AttemptsStay ==
    ASSUME RequestsInv, Attempts, UNCHANGED <<order, calls>>, wire' \subseteq wire, boots' \in 0 .. MaxBoots
    PROVE  Attempts'
  BY DEF Attempts

LEMMA LanesStay ==
    ASSUME LanesInv, UNCHANGED <<lanes, raised>>
    PROVE  LanesInv'
  BY DEF LanesInv, LanesFit, RowFits, Differ, StandsAlone, NoneOf, LaneRow, Origins, Gpu, NoDevice

LEMMA LanesStart == RequestsInit => LanesInv /\ Attempts
<1> SUFFICES ASSUME RequestsInit PROVE LanesInv /\ Attempts
  OBVIOUS
<1>1. lanes = <<>> /\ raised = 0 /\ order = Waiting /\ boots = 0 /\ wire = {} /\ calls = [c \in Callers |-> NoCall]
  BY DEF RequestsInit
<1>2. LanesInv
  BY <1>1 DEF LanesInv, LanesFit, StandsAlone, NoneOf
<1>3. Attempts
  BY <1>1, RequestsAssumption DEF Attempts, NoCall
<1> QED BY <1>2, <1>3

LEMMA LanesStep == RequestsInv /\ LanesInv /\ Attempts /\ [RequestsNext]_requestVars => LanesInv' /\ Attempts'
<1> SUFFICES ASSUME RequestsInv, LanesInv, Attempts, [RequestsNext]_requestVars PROVE LanesInv' /\ Attempts'
  OBVIOUS
<1>0. boots \in 0 .. MaxBoots /\ MaxBoots \in Nat
  BY RequestsAssumption DEF Attempts
<1>1. CASE UNCHANGED requestVars
  BY <1>0, <1>1, LanesStay, AttemptsStay DEF requestVars
<1>2. ASSUME NEW probe \in Probes, DaemonStarts(probe) PROVE LanesInv' /\ Attempts'
  <2>1. UNCHANGED <<order, calls>> /\ wire' \subseteq wire /\ boots' \in 0 .. MaxBoots
    BY <1>0, <1>2 DEF DaemonStarts
  <2> QED BY <1>2, <2>1, StartFits, AttemptsStay
<1>3. ASSUME NEW n \in DOMAIN lanes, reserve_run(n) PROVE LanesInv' /\ Attempts'
  <2>1. UNCHANGED <<order, calls, wire, boots>>
    BY <1>3 DEF reserve_run
  <2> QED BY <1>0, <1>3, <2>1, ReserveFits, AttemptsStay
<1>4. ASSUME NEW n \in DOMAIN lanes, NEW clean \in BOOLEAN, apply_cleanup_result(n, clean)
      PROVE  LanesInv' /\ Attempts'
  <2>1. UNCHANGED <<order, calls, wire, boots>>
    BY <1>4 DEF apply_cleanup_result
  <2> QED BY <1>0, <1>4, <2>1, CleanupFits, AttemptsStay
<1>5. ASSUME NEW m \in wire, NEW arrives \in BOOLEAN, ServesRequest(m, arrives) PROVE LanesInv' /\ Attempts'
  BY <1>5, ServeFits
<1>6. ASSUME NEW c \in Callers, post_retry(c) PROVE LanesInv' /\ Attempts'
  <2>1. UNCHANGED <<lanes, raised>>
    BY <1>6 DEF post_retry
  <2> QED BY <1>6, <2>1, RetryFits, LanesStay
<1>7. ASSUME NEW c \in Callers, NEW q \in QueueRequest, Sends(c, q) PROVE LanesInv' /\ Attempts'
  <2>1. UNCHANGED <<lanes, raised>>
    BY <1>7 DEF Sends
  <2> QED BY <1>7, <2>1, SendsFits, LanesStay
<1> QED BY <1>1, <1>2, <1>3, <1>4, <1>5, <1>6, <1>7 DEF RequestsNext

\* A machine's lanes, over any starts that find any GPUs, lanes registered by
\* hand, runs that outlive a start, failed cleanups and commands sent twice: no
\* two have a name or a GPU in common, so no insert meets the schema's unique
\* indices; a fallback never stands beside a detected GPU; and a run keeps the
\* device it was given (ensure_detected_resources, adopt_fallback_device).
THEOREM LanesAreKeptCorrect == RequestsSpec => []LanesAreKept
<1> DEFINE I == RequestsInv /\ LanesInv /\ Attempts
<1>1. RequestsInit => I
  BY RequestsInvInit, LanesStart
<1>2. I /\ [RequestsNext]_requestVars => I'
  BY RequestsStep, LanesStep
<1>3. I => LanesAreKept
  BY LanesMean DEF RequestsInv
<1> QED BY <1>1, <1>2, <1>3, PTL DEF RequestsSpec

==============================================================================
