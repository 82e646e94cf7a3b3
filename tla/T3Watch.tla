------------------------------- MODULE T3Watch -------------------------------
(***************************************************************************)
(* The daemon's watch over the API of the local T3 server: it probes when   *)
(* the server's runtime file changes and pushes one alert for a change that *)
(* a second probe confirms.                                                 *)
(*                                                                          *)
(* A server may be starting, stop or be replaced between two probes, a      *)
(* probe may fail for a passing reason, and a push may fail.  A notifier is *)
(* configured; without one the loop only writes to the log.                 *)
(***************************************************************************)
EXTENDS Naturals

CONSTANTS
    Prints,         \* fingerprints: what the failed checks of a probe say
    ProbeRetries,   \* PROBE_RETRIES
    MaxServers,     \* bound on starts of the T3 server
    MaxGlitches     \* bound on probes that fail for a passing reason

ASSUME WatchAssumption ==
    ProbeRetries \in Nat \ {0} /\ MaxServers \in Nat /\ MaxGlitches \in Nat

VARIABLES
    server,    \* T3: its runtime file (0: none), whether its process lives, its API
    watching,     \* WatchState
    glitches,  \* probes so far that failed for a passing reason
    reports,   \* history: reports of a new change since a compatible or a different one
    pushed     \* history: the last push, and the reports it rested on

watchVars == <<server, watching, glitches, reports, pushed>>

Garbled == "garbled"   \* what a probe says after a passing failure of the t3 command
NoPrint == "none"
Fingerprints == Prints \cup {Garbled}
Apis == Prints \cup {"pinned"}
Zero == [p \in Fingerprints |-> 0]

WatchInit ==
    /\ server = [runtime |-> 0, alive |-> FALSE, api |-> "pinned", starts |-> 0]
    /\ watching = [last_runtime |-> 0, last_alerted |-> NoPrint, unconfirmed |-> NoPrint,
                retries_left |-> 0]
    /\ glitches = 0 /\ reports = Zero /\ pushed = [print |-> NoPrint, seen |-> 0]

\* A server that starts writes runtime metadata of its own.
ServerStarts(api) ==
    /\ server.starts < MaxServers
    /\ server' = [runtime |-> server.starts + 1, alive |-> TRUE, api |-> api,
                  starts |-> server.starts + 1]
    /\ UNCHANGED <<watching, glitches, reports, pushed>>

\* It may leave its runtime file behind.
ServerStops(leaves) ==
    /\ server.alive
    /\ server' = [server EXCEPT !.alive = FALSE, !.runtime = IF leaves THEN @ ELSE 0]
    /\ UNCHANGED <<watching, glitches, reports, pushed>>

----------------------------------------------------------------------------
(* The probe                                                                *)

\* The checks in their order: the user data and the process of the server; its
\* protocol, the schema and the token, which a passing failure leaves open or
\* reports wrongly; the API.  Only a failed check of the contract has a print.
probe(glitch) ==
    [status |-> IF ~server.alive THEN "not_running"
                ELSE IF glitch = "incomplete" THEN "unavailable"
                ELSE IF glitch = "none" /\ server.api = "pinned" THEN "compatible"
                ELSE "changed",
     fingerprint |-> IF glitch = Garbled THEN Garbled ELSE server.api]

Passing == {"none", "incomplete", Garbled, "join"}

----------------------------------------------------------------------------
(* WatchState                                                               *)

changed_runtime(content) == content # 0 /\ content # watching.last_runtime

\* After a runtime change, and again after a probe that could not finish.
probe_due(content) == changed_runtime(content) \/ watching.retries_left > 0

AfterDue(content) ==
    [watching EXCEPT !.last_runtime = content,
                  !.retries_left = IF changed_runtime(content) THEN ProbeRetries
                                   ELSE IF @ = 0 THEN 0 ELSE @ - 1]

probe_finished(w, status) ==
    IF status \in {"compatible", "changed"} THEN [w EXCEPT !.retries_left = 0] ELSE w

Alerts(w, report) ==
    /\ report.status = "changed" /\ w.last_alerted # report.fingerprint
    /\ w.unconfirmed = report.fingerprint

\* Mutated form: the retries that a finished probe ended are not renewed
AlertedOnce(w, report) ==
    CASE report.status = "compatible" ->
            [w EXCEPT !.last_alerted = NoPrint, !.unconfirmed = NoPrint]
      [] report.status = "changed" /\ w.last_alerted # report.fingerprint ->
            [w EXCEPT !.unconfirmed = report.fingerprint]
      [] OTHER -> w

\* What new_alert leaves: a change that is not alerted yet is probed again until
\* a second probe confirms it and the push succeeds.
AfterAlert(w, report) ==
    CASE report.status = "compatible" ->
            [w EXCEPT !.last_alerted = NoPrint, !.unconfirmed = NoPrint]
      [] report.status = "changed" /\ w.last_alerted # report.fingerprint ->
            [w EXCEPT !.unconfirmed = report.fingerprint, !.retries_left = ProbeRetries]
      [] OTHER -> w

alert_sent(w, print) == [w EXCEPT !.last_alerted = print, !.retries_left = 0]

\* A compatible probe ends the count, and a different change that is not alerted
\* yet starts it anew; a probe without a verdict, or one that repeats the last
\* alert, leaves it.
Counted(report) ==
    CASE report.status = "compatible" -> Zero
      [] report.status = "changed" /\ report.fingerprint # watching.last_alerted ->
            [Zero EXCEPT ![report.fingerprint] = IF reports[report.fingerprint] = 0 THEN 1 ELSE 2]
      [] OTHER -> reports

\* One turn of the loop, a minute after the last; a file that cannot be read
\* changes nothing, and a probe that panics lets the next turn probe again.
Tick(glitch, sent) ==
    /\ glitch = "none" \/ glitches < MaxGlitches
    /\ IF ~probe_due(server.runtime)
       THEN /\ glitch = "none"
            /\ watching' = AfterDue(server.runtime) /\ UNCHANGED <<glitches, reports, pushed>>
       ELSE /\ glitches' = IF glitch = "none" THEN glitches ELSE glitches + 1
            /\ IF glitch = "join"
               THEN /\ watching' = [AfterDue(server.runtime) EXCEPT !.last_runtime = 0]
                    /\ UNCHANGED <<reports, pushed>>
               ELSE LET report == probe(glitch)
                        w      == probe_finished(AfterDue(server.runtime), report.status)
                        due    == Alerts(w, report)
                    IN  /\ reports' = Counted(report)
                        /\ pushed' = IF ~due THEN pushed
                                     ELSE [print |-> report.fingerprint,
                                           seen  |-> reports'[report.fingerprint]]
                        /\ watching' = IF due /\ sent
                                    THEN alert_sent(AfterAlert(w, report), report.fingerprint)
                                    ELSE AfterAlert(w, report)
    /\ UNCHANGED server

WatchNext ==
    \/ \E api \in Apis : ServerStarts(api)
    \/ \E leaves \in BOOLEAN : ServerStops(leaves)
    \/ \E glitch \in Passing, sent \in BOOLEAN : Tick(glitch, sent)

Turn == \E glitch \in Passing, sent \in BOOLEAN : Tick(glitch, sent)

\* A turn whose push, if it makes one, gets through.
GoodTurn == \E glitch \in Passing : Tick(glitch, TRUE)

----------------------------------------------------------------------------
(* Properties                                                               *)

\* No alert rests on a single probe: two reported the same failures, and between
\* them no probe found the API compatible or another change that is not alerted
\* yet (a_different_changed_fingerprint_restarts_confirmation).  Probes without a
\* verdict (t3_watch.rs, probe_finished) and repeats of the last alert may lie
\* between: new_alert keeps its unconfirmed fingerprint over both.
AlertIsDue == pushed.print # NoPrint => pushed.seen = 2

\* The API of a server that runs on is alerted if it differs: fewer than
\* ProbeRetries failed probes, a server that is replaced between two probes and any number of
\* failed pushes only delay the alert.  (Probes that fail twice in the same way
\* are an alert as well, and end the retries.)
AlertArrives ==
    \A p \in Prints : <>[](server.alive /\ server.api = p)
                          => <>[](watching.last_alerted \in {p, Garbled})

\* A change of the T3 API is told, and only a change is.
ChangeIsTold == []AlertIsDue /\ AlertArrives

=============================================================================
