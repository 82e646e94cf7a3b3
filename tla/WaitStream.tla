----------------------------- MODULE WaitStream -----------------------------
(***************************************************************************)
(* `homebased wait`: a client that follows a task and its continuation, or a *)
(* GPU queue job, the daemon's stream for it, the registry of streams, and   *)
(* the hand-off of an event to a stream in place of the thread.              *)
(*                                                                          *)
(* An event handed to a stream counts as delivered when the client confirms  *)
(* that it printed the line.  Confirmations are lost or late, connections    *)
(* break, the client dies and the daemon restarts; and the normal delivery   *)
(* that follows when no stream takes the event may fail, for now or for good. *)
(***************************************************************************)
EXTENDS Naturals, Sequences, SequencesExt

CONSTANTS
    Follows,        \* what the client may follow: "task", "chain", "job"
    MaxStreams,     \* bound on the connections the client opens
    MaxWaitFaults   \* bound on failed sends, lost confirmations, broken streams and restarts

ASSUME WaitAssumption ==
    /\ Follows \subseteq {"task", "chain", "job"}
    /\ MaxStreams \in Nat \ {0} /\ MaxWaitFaults \in Nat

VARIABLES
    follows,    \* the target: a task that parks and continues, or a job
    produced,   \* events in the origin's inbox, by target
    settled,    \* settled events, by target
    handoff,    \* the inbox worker of a target and the offer it waits for
    watched,    \* the registry: streams that watch a target, oldest first
    expects,    \* the registry: confirmations that hand-offs wait for
    pump,       \* the daemon's side of a stream
    streams,    \* streams opened so far
    client,     \* the `homebased wait` process
    acks,       \* confirmations on their way
    notified,       \* history: the events that reached the thread
    unheard,    \* history: the events settled although nothing took them
    printed,    \* history: the events that the client printed
    waitFaults  \* faults so far

waitVars == <<follows, produced, settled, handoff, watched, expects, pump, streams, client,
              acks, notified, unheard, printed, waitFaults>>

\* A task, followed with `--next`; a task that parks with a continuation; and a
\* job whose cleanup fails at the end.
Keys(f) == CASE f = "task"  -> {"task"}
             [] f = "chain" -> {"parks", "next"}
             [] f = "job"   -> {"job"}
Log(key) == CASE key = "task"  -> <<"TASK_REPORTED", "TASK_SUCCEEDED">>
              [] key = "parks" -> <<"TASK_WAITING">>
              [] key = "next"  -> <<"TASK_SUCCEEDED">>
              [] key = "job"   -> <<"JOB_SUCCEEDED", "JOB_ATTENTION">>
AllKeys == {"task", "parks", "next", "job"}
First(f) == IF f = "chain" THEN "parks" ELSE f

Frames == [type: {"event"}, key: AllKeys, seq: 1 .. 2]
            \cup [type: {"done", "restart"}, key: {"task"}, seq: {1}]
Offers == [key: AllKeys, seq: 1 .. 2]

NoOffer  == [phase |-> "none", seq |-> 0, waiter |-> 0, tried |-> {}]
NoStream == [up |-> FALSE, set |-> {}, floor |-> [k \in AllKeys |-> 0], fresh |-> {},
             replay |-> [key |-> "none", upto |-> 0], queue |-> <<>>, frames |-> <<>>]

WaitTypeOK ==
    /\ follows \in Follows
    /\ produced \in [AllKeys -> 0 .. 2] /\ settled \in [AllKeys -> 0 .. 2]
    /\ \A k \in AllKeys : /\ settled[k] <= produced[k] /\ produced[k] <= Len(Log(k))
                          /\ handoff[k].phase \in {"none", "offer", "await", "normal"}
                          /\ handoff[k].tried \subseteq 1 .. streams
    /\ \A k \in AllKeys : Range(watched[k]) \subseteq 1 .. streams
    /\ expects \subseteq [waiter: 1 .. streams, key: AllKeys, seq: 1 .. 2]
    /\ streams \in 0 .. MaxStreams
    /\ client \in [phase: {"connect", "open", "done", "dead"}, set: SUBSET AllKeys,
                   next: BOOLEAN, woke: BOOLEAN]
    /\ unheard \subseteq [key: AllKeys \ {"job"}, seq: 1 .. 2]
    /\ waitFaults \in 0 .. MaxWaitFaults

WaitInit ==
    /\ follows \in Follows
    /\ produced = [k \in AllKeys |-> 0] /\ settled = [k \in AllKeys |-> 0]
    /\ handoff = [k \in AllKeys |-> NoOffer]
    /\ watched = [k \in AllKeys |-> <<>>] /\ expects = {}
    /\ pump = [w \in 1 .. MaxStreams |-> NoStream] /\ streams = 0
    /\ client = [phase |-> "connect", set |-> {First(follows)}, next |-> follows = "task",
                 woke |-> FALSE]
    /\ acks = {} /\ notified = {} /\ unheard = {} /\ printed = {} /\ waitFaults = 0

WaitFault == waitFaults < MaxWaitFaults /\ waitFaults' = waitFaults + 1

Inbox    == <<follows, produced, settled, notified, unheard>>
Registry == <<watched, expects>>

----------------------------------------------------------------------------
(* The inbox worker of a target                                             *)

\* The next event of the target is accepted; the continuation runs after it parked.
accept_event(key) ==
    /\ key \in Keys(follows) /\ produced[key] < Len(Log(key))
    /\ key = "next" => produced["parks"] = 1
    /\ produced' = [produced EXCEPT ![key] = @ + 1]
    /\ UNCHANGED <<follows, settled, handoff, Registry, pump, streams, client, acks, notified,
                   unheard, printed, waitFaults>>

\* The earliest unsettled event is offered to streams, each once.
Offering(key) == \/ handoff[key].phase = "none" /\ settled[key] < produced[key]
                 \/ handoff[key].phase = "offer"

\* `candidate`: the stream that registered last for the target and was not tried.
candidate(key) == {w \in Range(watched[key]) : w \notin handoff[key].tried /\ pump[w].up}
MostRecent(key) == watched[key][SelectLastInSeq(watched[key], LAMBDA w : w \in candidate(key))]

\* The confirmation is registered before the event is sent.
Expect(w, key, seq) == {[waiter |-> w, key |-> key, seq |-> seq]}

offer(key) ==
    /\ Offering(key) /\ candidate(key) # {}
    /\ LET w   == MostRecent(key)
           seq == settled[key] + 1
       IN  /\ expects' = expects \cup Expect(w, key, seq)
           /\ pump' = [pump EXCEPT ![w].queue = Append(@, [key |-> key, seq |-> seq])]
           /\ handoff' = [handoff EXCEPT ![key] = [phase |-> "await", seq |-> seq, waiter |-> w,
                                                   tried |-> @.tried \cup {w}]]
    /\ UNCHANGED <<Inbox, watched, streams, client, acks, printed, waitFaults>>

Awaited(key) == [waiter |-> handoff[key].waiter, key |-> key, seq |-> handoff[key].seq]

\* The window of ACK_WINDOW passes, or the stream rejected the event: the next
\* stream is tried.
offer_fails(key) ==
    /\ handoff[key].phase = "await"
    /\ expects' = expects \ {Awaited(key)}
    /\ handoff' = [handoff EXCEPT ![key].phase = "offer"]
    /\ UNCHANGED <<Inbox, watched, pump, streams, client, acks, printed, waitFaults>>

\* The event is settled and the worker goes on to the next.
Settle(key) ==
    /\ settled' = [settled EXCEPT ![key] = handoff[key].seq]
    /\ handoff' = [handoff EXCEPT ![key] = NoOffer]

\* Mutated form: a confirmation counts for whatever the hand-off waits for
ConfirmsAny(ack, key) == ack.waiter = handoff[key].waiter /\ ack.key = key

Confirms(ack, key) == ack \in expects /\ ack = Awaited(key)

\* `Confirm`: a late or unknown confirmation changes nothing.
confirm(ack) ==
    /\ ack \in acks
    /\ acks' = acks \ {ack}
    /\ expects' = expects \ {ack}
    /\ IF handoff[ack.key].phase = "await" /\ Confirms(ack, ack.key)
       THEN Settle(ack.key) ELSE UNCHANGED <<handoff, settled>>
    /\ UNCHANGED <<follows, produced, notified, unheard, watched, pump, streams, client, printed,
                   waitFaults>>

\* No stream is left: the line goes to the thread.
decline(key) ==
    /\ Offering(key) /\ candidate(key) = {}
    /\ handoff' = [handoff EXCEPT ![key] = [NoOffer EXCEPT !.phase = "normal",
                                                           !.seq = settled[key] + 1]]
    /\ UNCHANGED <<Inbox, Registry, pump, streams, client, acks, printed, waitFaults>>

Delivering(key) == [key |-> key, seq |-> handoff[key].seq]

\* The thread took the line.
settle(key) ==
    /\ handoff[key].phase = "normal"
    /\ Settle(key)
    /\ notified' = notified \cup {Delivering(key)}
    /\ UNCHANGED <<follows, produced, unheard, Registry, pump, streams, client, acks, printed,
                   waitFaults>>

\* A task's event is settled all the same when its attempts are used up, when its
\* saved context is unusable, and when its thread is detached.
settle_unheard(key) ==
    /\ handoff[key].phase = "normal" /\ key # "job" /\ WaitFault
    /\ Settle(key)
    /\ unheard' = unheard \cup {Delivering(key)}
    /\ UNCHANGED <<follows, produced, notified, Registry, pump, streams, client, acks, printed>>

\* The attempt failed or has to wait: the event is offered to streams again.  The
\* thread may have taken the line although the sender could not tell.
retry(key, taken) ==
    /\ handoff[key].phase = "normal" /\ WaitFault
    /\ handoff' = [handoff EXCEPT ![key] = NoOffer]
    /\ notified' = IF taken THEN notified \cup {Delivering(key)} ELSE notified
    /\ UNCHANGED <<follows, produced, settled, unheard, Registry, pump, streams, client, acks,
                   printed>>

----------------------------------------------------------------------------
(* What is pending, kept by the stream and by the client                    *)

ends_wait(kind) == kind \in {"TASK_SUCCEEDED", "TASK_PREEMPTED"}
job_ends_wait(kind) == kind \in {"JOB_SUCCEEDED", "JOB_FAILED", "JOB_CANCELLED"}

\* `WaitSet::apply`: a parked task passes the wait to its continuation.
apply(set, key, seq) ==
    IF key \notin set THEN set
    ELSE IF Log(key)[seq] = "TASK_WAITING" THEN (set \ {key}) \cup {"next"}
    ELSE IF ends_wait(Log(key)[seq]) \/ job_ends_wait(Log(key)[seq]) THEN set \ {key}
    ELSE set

----------------------------------------------------------------------------
(* The stream                                                               *)

\* `account`: the floor rises, a finished target is unwatched, a continuation is
\* watched and read.
Accounted(p, key, seq) ==
    LET set == apply(p.set, key, seq)
    IN  [p EXCEPT !.set = set, !.floor[key] = IF @ < seq THEN seq ELSE @,
                  !.fresh = @ \cup (set \ p.set)]

Rewatched(w, old, new) ==
    [k \in AllKeys |-> IF k \in new \ old THEN Append(watched[k], w)
                       ELSE IF k \in old \ new THEN RemoveFirst(watched[k], w)
                       ELSE watched[k]]

\* The request is answered: a stream with its own id watches every target.
serve ==
    /\ client.phase = "connect" /\ streams < MaxStreams
    /\ streams' = streams + 1
    /\ pump' = [pump EXCEPT ![streams + 1] = [NoStream EXCEPT !.up = TRUE, !.set = client.set,
                                                              !.fresh = client.set]]
    /\ watched' = [k \in AllKeys |-> IF k \in client.set THEN Append(watched[k], streams + 1)
                                     ELSE watched[k]]
    /\ client' = [client EXCEPT !.phase = "open"]
    /\ UNCHANGED <<Inbox, handoff, expects, acks, printed, waitFaults>>

Connected(w) == w = streams /\ client.phase = "open"

\* One handed-off event is written, before a replay that was read goes on.
live(w) ==
    /\ pump[w].up /\ pump[w].queue # <<>> /\ Connected(w)
    /\ pump[w].fresh = {} \/ pump[w].replay.key # "none"
    /\ LET e == Head(pump[w].queue)
           p == Accounted(pump[w], e.key, e.seq)
       IN  /\ pump' = [pump EXCEPT ![w] = [p EXCEPT !.queue = Tail(@),
                          !.frames = Append(@, [type |-> "event", key |-> e.key, seq |-> e.seq])]]
           /\ watched' = Rewatched(w, pump[w].set, p.set)
    /\ UNCHANGED <<Inbox, handoff, expects, streams, client, acks, printed, waitFaults>>

\* `reconcile` reads what is settled of a target that joined the wait.
reconcile(w, key) ==
    /\ pump[w].up /\ key \in pump[w].fresh /\ pump[w].replay.key = "none"
    /\ pump' = [pump EXCEPT ![w].fresh = @ \ {key},
                   ![w].replay = IF key \in pump[w].set THEN [key |-> key, upto |-> settled[key]] ELSE @]
    /\ UNCHANGED <<Inbox, handoff, Registry, streams, client, acks, printed, waitFaults>>

\* Replayed events advance the wait and are not printed; a task's seen ones are
\* skipped, a job's are counted again.
Replayed(p) ==
    LET key  == p.replay.key
        upto == p.replay.upto
        step == IF key = "job" THEN 1 ELSE p.floor[key] + 1
        p1   == IF step <= 1 /\ 1 <= upto THEN Accounted(p, key, 1) ELSE p
        p2   == IF step <= 2 /\ 2 <= upto THEN Accounted(p1, key, 2) ELSE p1
    IN  [p2 EXCEPT !.replay = NoStream.replay]

replay(w) ==
    /\ pump[w].up /\ pump[w].replay.key # "none" /\ pump[w].queue = <<>>
    /\ pump' = [pump EXCEPT ![w] = Replayed(@)]
    /\ watched' = Rewatched(w, pump[w].set, Replayed(pump[w]).set)
    /\ UNCHANGED <<Inbox, handoff, expects, streams, client, acks, printed, waitFaults>>

\* Mutated form: the inbox is read only when the stream opens
PingAlone(p) == p

\* Every few pings the inbox of each pending target is read again.
PingReads(p) == [p EXCEPT !.fresh = p.set]

ping(w) ==
    /\ pump[w].up /\ Connected(w)
    /\ pump[w].fresh = {} /\ pump[w].replay.key = "none" /\ pump[w].set # {}
    /\ pump' = [pump EXCEPT ![w] = PingReads(@)]
    /\ UNCHANGED <<Inbox, handoff, Registry, streams, client, acks, printed, waitFaults>>

Closed(w) == [k \in AllKeys |-> RemoveFirst(watched[k], w)]

\* The wait is over, or the client is gone; a queued event is rejected, which
\* fails its hand-off at once.
stop(w) ==
    /\ pump[w].up
    /\ \/ pump[w].set = {} /\ pump[w].fresh = {} /\ pump[w].replay.key = "none" /\ Connected(w)
       \/ ~Connected(w)
    /\ pump' = [pump EXCEPT ![w].up = FALSE,
                   ![w].frames = IF pump[w].set = {} /\ Connected(w)
                                 THEN Append(@, [type |-> "done", key |-> "task", seq |-> 1]) ELSE @]
    /\ watched' = Closed(w)
    /\ expects' = expects \ {[waiter |-> w, key |-> e.key, seq |-> e.seq] : e \in Range(pump[w].queue)}
    /\ UNCHANGED <<Inbox, handoff, streams, client, acks, printed, waitFaults>>

----------------------------------------------------------------------------
(* The client                                                               *)

\* The line is printed before it is confirmed; the confirmation may be lost.
follow(sent) ==
    /\ client.phase = "open" /\ pump[streams].frames # <<>>
    /\ LET f == Head(pump[streams].frames)
           set == apply(client.set, f.key, f.seq)
       IN  IF f.type = "event"
           THEN /\ printed' = printed \cup {[key |-> f.key, seq |-> f.seq]}
                /\ IF sent THEN /\ acks' = acks \cup {[waiter |-> streams, key |-> f.key, seq |-> f.seq]}
                                /\ UNCHANGED waitFaults
                   ELSE WaitFault /\ UNCHANGED acks
                /\ client' = [client EXCEPT !.set = set, !.woke = client.next,
                                            !.phase = IF set = {} THEN "done" ELSE @]
           ELSE /\ sent
                /\ client' = [client EXCEPT !.phase = "done"]
                /\ UNCHANGED <<printed, acks, waitFaults>>
    /\ pump' = [pump EXCEPT ![streams].frames = Tail(@)]
    /\ UNCHANGED <<Inbox, handoff, Registry, streams>>

\* With `--next` the client leaves once events were printed.
leave ==
    /\ client.phase = "open" /\ client.next /\ client.woke
    /\ client' = [client EXCEPT !.phase = "done"]
    /\ UNCHANGED <<Inbox, handoff, Registry, pump, streams, acks, printed, waitFaults>>

\* The connection breaks or goes quiet: the client asks again for what is left.
lose_stream ==
    /\ client.phase = "open" /\ WaitFault
    /\ client' = [client EXCEPT !.phase = IF client.next /\ client.woke THEN "done" ELSE "connect"]
    /\ UNCHANGED <<Inbox, handoff, Registry, pump, streams, acks, printed>>

client_dies ==
    /\ client.phase \in {"connect", "open"} /\ WaitFault
    /\ client' = [client EXCEPT !.phase = "dead"]
    /\ UNCHANGED <<Inbox, handoff, Registry, pump, streams, acks, printed>>

\* Streams, registry and hand-offs are in memory only.
daemon_restarts ==
    /\ WaitFault
    /\ handoff' = [k \in AllKeys |-> NoOffer]
    /\ watched' = [k \in AllKeys |-> <<>>] /\ expects' = {}
    /\ pump' = [w \in 1 .. MaxStreams |-> NoStream] /\ acks' = {}
    /\ client' = [client EXCEPT !.phase = IF @ = "open" THEN "connect" ELSE @]
    /\ UNCHANGED <<Inbox, streams, printed>>

----------------------------------------------------------------------------
Deliverer(key) == offer(key) \/ offer_fails(key) \/ decline(key) \/ settle(key)
Stream(w) == live(w) \/ replay(w) \/ ping(w) \/ stop(w) \/ \E key \in AllKeys : reconcile(w, key)

WaitNext ==
    \/ \E key \in AllKeys : accept_event(key) \/ Deliverer(key) \/ settle_unheard(key)
    \/ \E key \in AllKeys, taken \in BOOLEAN : retry(key, taken)
    \/ \E ack \in acks : confirm(ack)
    \/ \E w \in 1 .. MaxStreams : Stream(w)
    \/ serve \/ leave \/ lose_stream \/ client_dies \/ daemon_restarts
    \/ \E sent \in BOOLEAN : follow(sent)

WaitSpec == WaitInit /\ [][WaitNext]_waitVars

\* The inbox workers, each stream and the client go on, and time passes.
WaitFairness ==
    /\ WF_waitVars(\E key \in AllKeys : Deliverer(key))
    /\ \A w \in 1 .. MaxStreams : WF_waitVars(Stream(w))
    /\ WF_waitVars(serve \/ follow(TRUE))

WaitFairSpec == WaitSpec /\ WaitFairness

----------------------------------------------------------------------------
(* Properties                                                               *)

\* The agent has the line, or its normal delivery was given up.
Reached(key, seq) == [key |-> key, seq |-> seq] \in notified \cup printed \cup unheard

\* A settled event was printed, reached the thread, or was given up by the normal
\* delivery: a client that dies, a lost confirmation or one of an earlier event
\* never swallows one, and an event of a job is never given up.
SettledReached == \A k \in AllKeys : \A seq \in 1 .. settled[k] : Reached(k, seq)

\* The wait ends with success only after the end of the task, of the whole chain
\* or of the job reached the agent or its normal delivery was given up, unless
\* `--next` ended it with an event.
WaitEndsWithTarget ==
    client.phase = "done" /\ ~client.woke =>
        CASE follows = "task"  -> Reached("task", 2)
          [] follows = "chain" -> Reached("next", 1)
          [] follows = "job"   -> Reached("job", 1)

\* A client that keeps running learns that its target ended, also when the last
\* event went to the thread while the stream was opening.
WaitEnds ==
    (produced["task"] = 2 \/ produced["next"] = 1 \/ produced["job"] = 1)
        ~> client.phase \in {"done", "dead"}

\* A wait swallows no event and does not end before its target.
WaitIsTrue == WaitTypeOK /\ SettledReached /\ WaitEndsWithTarget

=============================================================================
