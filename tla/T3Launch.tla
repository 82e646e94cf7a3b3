------------------------------ MODULE T3Launch ------------------------------
(***************************************************************************)
(* `t3 launch` and `t3 project add`, on this machine or forwarded to a peer: *)
(* the request is resolved from disk, a short session token is issued, T3 is*)
(* called with ids fixed by the request, and the token is revoked.  Replies *)
(* get lost, callers repeat the request, and T3 keeps one thread per command.*)
(***************************************************************************)
EXTENDS Naturals, FiniteSets

CONSTANTS
    Hosts,       \* machines that run T3; "here" is the caller's
    Projects,    \* T3 projects, by their workspace root
    LaunchCalls, \* calls with the one request id, and project additions
    MaxLost      \* bound on lost replies, failed commands and dead daemons

ASSUME T3Assumption == "here" \in Hosts /\ Projects # {} /\ MaxLost \in Nat

VARIABLES
    listed,     \* projects in each machine's projection_projects
    icons,      \* projects whose icon T3 has changed, by machine
    threads,    \* thread that T3 holds for each command, by machine
    callState,  \* progress and answer of each call
    tokens,     \* calls whose session T3 still accepts
    launches,   \* history: threads that T3 created, by machine
    lateFor,    \* calls that T3 still processes after their client gave up
    unrevoked,  \* history: sessions whose revocation failed
    lostCount

t3Vars == <<listed, icons, threads, callState, tokens, launches, lateFor, unrevoked, lostCount>>

Answers == {"none", "ok", "refused", "not_found", "unavailable", "unknown"}
CallPhases == {"idle", "sent", "resolving", "issuing", "calling", "replied", "adding", "reading", "icon",
               "ending", "answering", "done"}
NotYet == [at |-> "idle", kind |-> "none", host |-> "none", project |-> "none", existing |-> FALSE,
           icon |-> FALSE, seen |-> {}, answer |-> "none", reports |-> "none", applied |-> FALSE]

T3TypeOK ==
    /\ listed \in [Hosts -> SUBSET Projects] /\ icons \in [Hosts -> SUBSET Projects]
    /\ callState \in [LaunchCalls -> [at: CallPhases, kind: {"none", "launch", "add"}, host: Hosts \cup {"none"},
            project: Projects \cup {"none"}, existing: BOOLEAN, icon: BOOLEAN,
            seen: SUBSET Projects, answer: Answers, reports: Projects \cup {"none"}, applied: BOOLEAN]]
    /\ tokens \subseteq LaunchCalls /\ unrevoked \subseteq LaunchCalls /\ lateFor \subseteq LaunchCalls
    /\ lostCount \in 0 .. MaxLost

T3Init ==
    /\ listed \in [Hosts -> SUBSET Projects] /\ icons = [h \in Hosts |-> {}]
    /\ threads = [h \in Hosts |-> {}] /\ callState = [c \in LaunchCalls |-> NotYet]
    /\ tokens = {} /\ launches = [h \in Hosts |-> 0] /\ lateFor = {} /\ unrevoked = {} /\ lostCount = 0

Lose == lostCount < MaxLost /\ lostCount' = lostCount + 1
Stands(c, phase) == callState[c].at = phase
Step(c, phase) == callState' = [callState EXCEPT ![c].at = phase]
Fails(c, answer) == callState' = [callState EXCEPT ![c].at = "ending", ![c].answer = answer]
T3Same == UNCHANGED <<listed, icons, threads, launches, lateFor>>
TokensSame == UNCHANGED <<tokens, unrevoked>>

-----------------------------------------------------------------------------
(* The caller's daemon.                                                     *)

\* validate: only an addition has an icon or needs the project to be there.
Valid(existing, icon) == existing => icon

\* The daemon serves a request for its own T3 and forwards any other.
Destination(host) == IF host = "here" THEN "resolving" ELSE "sent"

\* `t3 launch`; a repeat carries the same request id, perhaps another project.
RequestLaunch(c, host, project) ==
    /\ Stands(c, "idle")
    /\ callState' = [callState EXCEPT ![c] = [NotYet EXCEPT !.kind = "launch", !.host = host,
                        !.project = project, !.at = Destination(host)]]
    /\ T3Same /\ TokensSame /\ UNCHANGED lostCount

\* `t3 project add` and `t3 project icon`.
RequestAdd(c, host, project, existing, icon) ==
    /\ Stands(c, "idle") /\ Valid(existing, icon)
    /\ callState' = [callState EXCEPT ![c] = [NotYet EXCEPT !.kind = "add", !.host = host, !.project = project,
                        !.existing = existing, !.icon = icon, !.at = Destination(host)]]
    /\ T3Same /\ TokensSame /\ UNCHANGED lostCount

\* forward_launch and forward_add verify the destination before the request leaves.
Forward(c) ==
    /\ Stands(c, "sent")
    /\ \/ Step(c, "resolving") /\ UNCHANGED lostCount
       \/ Lose /\ callState' = [callState EXCEPT ![c].at = "done", ![c].answer = "unavailable"]
    /\ T3Same /\ TokensSame

-----------------------------------------------------------------------------
(* The machine that runs T3.                                                *)

\* Project and model come from disk, so a request that cannot launch issues no token.
find_project(c) ==
    /\ Stands(c, "resolving") /\ callState[c].kind = "launch"
    /\ LET known == listed[callState[c].host]
       IN IF callState[c].project \in known
          THEN callState' = [callState EXCEPT ![c].at = "issuing", ![c].seen = known]
          ELSE Fails(c, "not_found")
    /\ T3Same /\ TokensSame /\ UNCHANGED lostCount

\* The project is there: its icon changes if the request says so.
Found(c) ==
    IF callState[c].icon THEN Step(c, "issuing")
    ELSE callState' = [callState EXCEPT ![c].at = "ending", ![c].answer = "ok", ![c].reports = callState[c].project]

\* A root that already is a project is not added again.
look_for_root(c) ==
    /\ Stands(c, "resolving") /\ callState[c].kind = "add"
    /\ IF callState[c].project \in listed[callState[c].host] THEN Found(c)
       ELSE IF callState[c].existing THEN Fails(c, "refused")
       ELSE Step(c, "adding")
    /\ T3Same /\ TokensSame /\ UNCHANGED lostCount

\* `t3 project add` refuses a root that another call added meanwhile; the
\* command may fail, or time out after T3 stored the project.
add_project(c) ==
    /\ Stands(c, "adding")
    /\ LET h == callState[c].host  p == callState[c].project
           added == [listed EXCEPT ![h] = @ \cup {p}]
       IN \/ p \in listed[h] /\ Fails(c, "refused") /\ UNCHANGED <<listed, lostCount>>
          \/ p \notin listed[h] /\ listed' = added /\ Step(c, "reading") /\ UNCHANGED lostCount
          \/ Lose /\ Fails(c, "refused") /\ UNCHANGED listed
          \/ Lose /\ Fails(c, "unavailable") /\ listed' \in {listed, added}
    /\ TokensSame /\ UNCHANGED <<icons, threads, launches, lateFor>>

ReadBack(c) ==
    /\ Stands(c, "reading") /\ Found(c)
    /\ T3Same /\ TokensSame /\ UNCHANGED lostCount

\* A failed issue may still have made a session, which its revoker ends; the
\* output of one that timed out names no session to revoke.
issue_token(c) ==
    /\ Stands(c, "issuing")
    /\ \/ /\ Step(c, IF callState[c].kind = "launch" THEN "calling" ELSE "icon")
          /\ tokens' = tokens \cup {c} /\ UNCHANGED lostCount
          /\ UNCHANGED unrevoked
       \/ /\ Lose /\ Fails(c, "unavailable")
          /\ \/ tokens' \in {tokens, tokens \cup {c}} /\ UNCHANGED unrevoked
             \/ tokens' = tokens \cup {c} /\ unrevoked' = unrevoked \cup {c}
    /\ T3Same

set_icon(c) ==
    /\ Stands(c, "icon")
    /\ LET h == callState[c].host  p == callState[c].project
       IN \/ /\ icons' = [icons EXCEPT ![h] = @ \cup {p}] /\ UNCHANGED lostCount
             /\ callState' = [callState EXCEPT ![c].at = "ending", ![c].answer = "ok", ![c].reports = p]
          \/ /\ Lose /\ icons' \in {icons, [icons EXCEPT ![h] = @ \cup {p}]}
             /\ Fails(c, "unavailable")
          \/ Fails(c, "refused") /\ UNCHANGED <<icons, lostCount>>
    /\ TokensSame /\ UNCHANGED <<listed, threads, launches, lateFor>>

\* command, thread and message ids are fixed by the request id.
LaunchIds(c) == "request"

\* T3 launches once per command and returns the first thread to every repeat.
T3Launches(c) ==
    LET h == callState[c].host
    IN /\ IF \E t \in threads[h]: t.command = LaunchIds(c)
          THEN UNCHANGED <<threads, launches>>
          ELSE /\ threads' = [threads EXCEPT ![h] = @ \cup {[command |-> LaunchIds(c), project |-> callState[c].project]}]
               /\ launches' = [launches EXCEPT ![h] = @ + 1]

HeldProject(c) == (CHOOSE t \in threads'[callState[c].host]: t.command = LaunchIds(c)).project

\* A repeat reports the project that T3 holds, looked up in the projects this
\* call read before it called T3.
ReportedProject(c) == IF HeldProject(c) \in callState[c].seen THEN HeldProject(c) ELSE callState[c].project

\* Mutated form: a reply that was lost counts as a server that is not there.
LostReplyIsAbsence == "unavailable"

\* error.sent, or a launch that T3 says stopped partway: the outcome is unknown.
LostReply == "unknown"

launch_thread(c) ==
    /\ Stands(c, "calling")
    /\ \/ /\ T3Launches(c) /\ UNCHANGED <<lostCount, lateFor>>
          /\ callState' = [callState EXCEPT ![c] = [@ EXCEPT !.at = "ending", !.answer = "ok",
                              !.reports = ReportedProject(c), !.applied = TRUE]]
       \/ Fails(c, "refused") /\ UNCHANGED <<threads, launches, lateFor, lostCount>>
       \/ Lose /\ Fails(c, "unavailable") /\ UNCHANGED <<threads, launches, lateFor>>
       \/ Lose /\ Fails(c, LostReply) /\ lateFor' = lateFor \cup {c} /\ UNCHANGED <<threads, launches>>
    /\ TokensSame /\ UNCHANGED <<listed, icons>>

\* T3 works on a call whose client no longer waits, or drops it.
T3Finishes(c) ==
    /\ c \in lateFor /\ lateFor' = lateFor \ {c}
    /\ \/ T3Launches(c) /\ callState' = [callState EXCEPT ![c].applied = TRUE]
       \/ UNCHANGED <<threads, launches, callState>>
    /\ TokensSame /\ UNCHANGED <<listed, icons, lostCount>>

\* The revoker runs when the token is dropped, on every return.
TokenRevoker(c) == TRUE

EndCall(c) ==
    /\ Stands(c, "ending") /\ Step(c, IF callState[c].host = "here" THEN "done" ELSE "answering")
    /\ \/ /\ tokens' = IF TokenRevoker(c) /\ c \notin unrevoked THEN tokens \ {c} ELSE tokens
          /\ UNCHANGED <<unrevoked, lostCount>>
       \/ c \in tokens \ unrevoked /\ Lose /\ unrevoked' = unrevoked \cup {c} /\ UNCHANGED tokens
    /\ T3Same

\* The peer's answer arrives; a lost one leaves a launch unknown, and a project
\* addition to be repeated.
peer_body(c) ==
    /\ Stands(c, "answering")
    /\ \/ Step(c, "done") /\ UNCHANGED lostCount
       \/ /\ Lose
          /\ callState' = [callState EXCEPT ![c].at = "done", ![c].reports = "none",
                ![c].answer = IF callState[c].kind = "launch" THEN "unknown" ELSE "unavailable"]
    /\ T3Same /\ TokensSame

\* The daemon that talks to T3 dies: nobody revokes the session, T3 works on.
HostDies(c) ==
    /\ callState[c].at \in {"issuing", "calling", "adding", "reading", "icon", "ending"} /\ Lose
    /\ callState' = [callState EXCEPT ![c].at = "done", ![c].answer = "unknown", ![c].reports = "none"]
    /\ unrevoked' = unrevoked \cup {c}
    /\ lateFor' = IF Stands(c, "calling") THEN lateFor \cup {c} ELSE lateFor
    /\ UNCHANGED <<listed, icons, threads, tokens, launches>>

\* The session's time to live ends.
TokenExpires(c) ==
    /\ c \in tokens /\ c \in unrevoked /\ tokens' = tokens \ {c}
    /\ T3Same /\ UNCHANGED <<callState, unrevoked, lostCount>>

T3Next ==
    \E c \in LaunchCalls:
        \/ \E host \in Hosts, project \in Projects:
              \/ RequestLaunch(c, host, project)
              \/ \E existing, icon \in BOOLEAN: RequestAdd(c, host, project, existing, icon)
        \/ Forward(c) \/ find_project(c) \/ look_for_root(c) \/ add_project(c) \/ ReadBack(c)
        \/ issue_token(c) \/ set_icon(c) \/ launch_thread(c) \/ T3Finishes(c) \/ EndCall(c)
        \/ peer_body(c) \/ HostDies(c) \/ TokenExpires(c)

T3Spec == T3Init /\ [][T3Next]_t3Vars

-----------------------------------------------------------------------------
(* Properties.                                                              *)

\* However often a request is repeated, T3 on a machine starts one thread for it.
LaunchedOnce == \A h \in Hosts: launches[h] <= 1

\* A caller told that nothing was launched may rely on it: this call reached no
\* thread then and reaches none later.
FailureLaunchedNothing ==
    \A c \in LaunchCalls: callState[c].answer \in {"refused", "not_found", "unavailable"} =>
        ~callState[c].applied /\ c \notin lateFor

\* A successful launch names the project of the thread that T3 holds for its
\* request, also when an earlier attempt asked for another project; only a
\* project added to T3 while the call was under way is not recognised.  A
\* successful addition names a listed project with the icon applied.
ReportsWhatT3Holds ==
    \A c \in LaunchCalls: Stands(c, "done") /\ callState[c].answer = "ok" =>
        LET h == callState[c].host
        IN IF callState[c].kind = "launch"
           THEN \E t \in threads[h]: t.project \in {callState[c].reports} \cup (Projects \ callState[c].seen)
           ELSE callState[c].reports \in listed[h] /\ (callState[c].icon => callState[c].reports \in icons[h])

\* No finished call leaves a usable session, unless its revocation failed.
SessionsEnd == \A c \in tokens: callState[c].at \in {"done", "answering"} => c \in unrevoked

\* A request starts one thread, what a finished call reports is what T3 holds, and
\* its session is over.
LaunchReportIsTrue ==
    T3TypeOK /\ LaunchedOnce /\ FailureLaunchedNothing /\ ReportsWhatT3Holds /\ SessionsEnd

=============================================================================
