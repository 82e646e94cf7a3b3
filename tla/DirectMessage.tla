---------------------------- MODULE DirectMessage ----------------------------
(***************************************************************************)
(* `message send` with one message UUID: the sender reserves the request and *)
(* fixes its destination once, the receiver fixes the thread once, queues the*)
(* line and then saves a receipt.  Callers repeat the send, also while an    *)
(* earlier one is under way, and with changed content by mistake.            *)
(***************************************************************************)
EXTENDS Naturals, FiniteSets, Sequences

CONSTANTS
    Peers,      \* machines that a name may stand for
    Sessions,   \* threads with the selected working directory on a machine
    Contents,   \* message bodies
    SendCalls,  \* calls of `message send` with this UUID
    MaxMoves,   \* bound on renamed machines and newer sessions
    MaxMishaps  \* bound on failed deliveries and daemon restarts

ASSUME MessageAssumption ==
    /\ IsFiniteSet(SendCalls) /\ Sessions # {} /\ Peers # {} /\ Contents # {}
    /\ "none" \notin Sessions \cup Peers \cup Contents /\ "free" \notin SendCalls
    /\ MaxMoves \in Nat /\ MaxMishaps \in Nat

VARIABLES
    named,      \* machine that the selector names now
    newest,     \* newest session of a machine with the selected directory
    reserved,   \* content saved by begin_outbound_message
    bound,      \* destination machine saved by bind_outbound_message
    send,       \* where each call is
    permit,     \* call that holds the message's permit, by machine
    tries,    \* message_attempts of each machine: the thread, or "none"
    receipts,   \* machines with a message receipt
    lines,      \* history: lines that reached a thread
    moves, mishaps

messageVars == <<named, newest, reserved, bound, send, permit, tries, receipts, lines, moves, mishaps>>

NotCalled == [at |-> "idle", body |-> "none", to |-> "none", contended |-> FALSE]
Phases == {"idle", "begun", "resolved", "bound", "waiting", "permitted", "delivering", "delivered", "sent", "failed"}

MessageTypeOK ==
    /\ named \in Peers /\ newest \in [Peers -> Sessions]
    /\ reserved \in Contents \cup {"none"} /\ bound \in Peers \cup {"none"}
    /\ send \in [SendCalls -> [at: Phases, body: Contents \cup {"none"},
                               to: Peers \cup {"none"}, contended: BOOLEAN]]
    /\ permit \in [Peers -> SendCalls \cup {"free"}]
    /\ tries \in [Peers -> Sessions \cup {"none"}] /\ receipts \subseteq Peers
    /\ moves \in 0 .. MaxMoves /\ mishaps \in 0 .. MaxMishaps

MessageInit ==
    /\ named \in Peers /\ newest \in [Peers -> Sessions]
    /\ reserved = "none" /\ bound = "none"
    /\ send = [c \in SendCalls |-> NotCalled]
    /\ permit = [m \in Peers |-> "free"]
    /\ tries = [m \in Peers |-> "none"] /\ receipts = {}
    /\ lines = <<>> /\ moves = 0 /\ mishaps = 0

Lands(c, phase) == send' = [send EXCEPT ![c].at = phase]
Receiving == {"waiting", "permitted", "delivering", "delivered"}

-----------------------------------------------------------------------------
(* The sender.                                                              *)

\* The first request is reserved before any lookup; changed content is a conflict.
begin_outbound_message(c, body) ==
    /\ send[c].at = "idle"
    /\ reserved' = IF reserved = "none" THEN body ELSE reserved
    /\ send' = [send EXCEPT ![c] = [@ EXCEPT !.body = body, !.to = bound,
                   !.at = IF reserved' # body THEN "failed"
                          ELSE IF bound # "none" THEN "bound" ELSE "begun"]]
    /\ UNCHANGED <<named, newest, bound, permit, tries, receipts, lines, moves, mishaps>>

resolve_target(c) ==
    /\ send[c].at = "begun"
    /\ send' = [send EXCEPT ![c] = [@ EXCEPT !.to = named, !.at = "resolved"]]
    /\ UNCHANGED <<named, newest, reserved, bound, permit, tries, receipts, lines, moves, mishaps>>

\* The destination that was bound first stands for every call.
bind_outbound_message(c) ==
    /\ bound' = IF bound = "none" THEN send[c].to ELSE bound
    /\ send' = [send EXCEPT ![c] = [@ EXCEPT !.to = bound', !.at = "bound"]]

Bind(c) ==
    /\ send[c].at = "resolved" /\ bind_outbound_message(c)
    /\ UNCHANGED <<named, newest, reserved, permit, tries, receipts, lines, moves, mishaps>>

-----------------------------------------------------------------------------
(* The receiver.                                                            *)

\* A call takes the free permit, or waits and remembers that it did.
attempt_permit(c) ==
    /\ \/ send[c].at = "bound"
          /\ IF permit[send[c].to] = "free"
             THEN Lands(c, "permitted") /\ permit' = [permit EXCEPT ![send[c].to] = c]
             ELSE send' = [send EXCEPT ![c] = [@ EXCEPT !.at = "waiting", !.contended = TRUE]]
                  /\ UNCHANGED permit
       \/ send[c].at = "waiting" /\ permit[send[c].to] = "free"
          /\ Lands(c, "permitted") /\ permit' = [permit EXCEPT ![send[c].to] = c]
    /\ UNCHANGED <<named, newest, reserved, bound, tries, receipts, lines, moves, mishaps>>

\* Mutated form: a call that waited for another attempt delivers too.
RetriesAfterWait(c) ==
    /\ tries[send[c].to] # "none" /\ send[c].to \notin receipts
    /\ Lands(c, "delivering") /\ UNCHANGED <<permit, tries>>

\* A saved attempt without a receipt is delivered again, unless this call
\* waited for the attempt that failed: its caller must retry knowingly.
RepeatAttempt(c) ==
    /\ tries[send[c].to] # "none" /\ send[c].to \notin receipts
    /\ IF send[c].contended
       THEN Lands(c, "failed") /\ permit' = [permit EXCEPT ![send[c].to] = "free"]
       ELSE Lands(c, "delivering") /\ UNCHANGED permit
    /\ UNCHANGED tries

AlreadyDelivered(c) ==
    /\ send[c].to \in receipts
    /\ Lands(c, "sent") /\ permit' = [permit EXCEPT ![send[c].to] = "free"] /\ UNCHANGED tries

\* The thread an attempt was bound to first is its thread for good.
bind_message_attempt(m) == IF tries[m] = "none" THEN newest[m] ELSE tries[m]

FirstAttempt(c) ==
    /\ tries[send[c].to] = "none"
    /\ tries' = [tries EXCEPT ![send[c].to] = bind_message_attempt(send[c].to)]
    /\ Lands(c, "delivering") /\ UNCHANGED permit

\* No session has the directory, or the session files cannot be read.
NoDestination(c) ==
    /\ tries[send[c].to] = "none"
    /\ Lands(c, "failed") /\ permit' = [permit EXCEPT ![send[c].to] = "free"] /\ UNCHANGED tries

receive(c) ==
    /\ send[c].at = "permitted"
    /\ FirstAttempt(c) \/ NoDestination(c) \/ RepeatAttempt(c) \/ AlreadyDelivered(c)
    /\ UNCHANGED <<named, newest, reserved, bound, receipts, lines, moves, mishaps>>

\* The line goes to the saved thread.  A delivery may fail, with or without
\* the line having arrived.
deliver_message(c) ==
    /\ send[c].at = "delivering"
    /\ \E ok, arrived \in BOOLEAN :
          /\ ok => arrived
          /\ lines' = IF arrived
                      THEN Append(lines, [machine |-> send[c].to, body |-> send[c].body,
                                          thread |-> bind_message_attempt(send[c].to)])
                      ELSE lines
          /\ ok \/ mishaps < MaxMishaps
          /\ mishaps' = IF ok THEN mishaps ELSE mishaps + 1
          /\ Lands(c, IF ok THEN "delivered" ELSE "failed")
          /\ permit' = IF ok THEN permit ELSE [permit EXCEPT ![send[c].to] = "free"]
    /\ UNCHANGED <<named, newest, reserved, bound, tries, receipts, moves>>

commit_message_receipt(c) ==
    /\ send[c].at = "delivered"
    /\ receipts' = receipts \cup {send[c].to}
    /\ Lands(c, "sent") /\ permit' = [permit EXCEPT ![send[c].to] = "free"]
    /\ UNCHANGED <<named, newest, reserved, bound, tries, lines, moves, mishaps>>

\* The receiver's daemon stops: its permits are gone and its callers have no answer.
ReceiverStops(m) ==
    /\ mishaps < MaxMishaps /\ mishaps' = mishaps + 1
    /\ \E c \in SendCalls : send[c].at \in Receiving /\ send[c].to = m
    /\ permit' = [permit EXCEPT ![m] = "free"]
    /\ send' = [c \in SendCalls |-> IF send[c].at \in Receiving /\ send[c].to = m
                                    THEN [send[c] EXCEPT !.at = "failed"] ELSE send[c]]
    /\ UNCHANGED <<named, newest, reserved, bound, tries, receipts, lines, moves>>

\* Another machine takes the name, or a newer session opens in the directory.
WorldMoves ==
    /\ moves < MaxMoves /\ moves' = moves + 1
    /\ \/ named' \in Peers \ {named} /\ UNCHANGED newest
       \/ \E m \in Peers, s \in Sessions : s # newest[m] /\ newest' = [newest EXCEPT ![m] = s]
          /\ UNCHANGED named
    /\ UNCHANGED <<reserved, bound, send, permit, tries, receipts, lines, mishaps>>

MessageNext ==
    \/ \E c \in SendCalls, body \in Contents : begin_outbound_message(c, body)
    \/ \E c \in SendCalls :
          resolve_target(c) \/ Bind(c) \/ attempt_permit(c) \/ receive(c)
          \/ deliver_message(c) \/ commit_message_receipt(c)
    \/ \E m \in Peers : ReceiverStops(m)
    \/ WorldMoves

MessageSpec == MessageInit /\ [][MessageNext]_messageVars

-----------------------------------------------------------------------------
(* Properties.                                                              *)

\* One UUID is one message: every line ever queued for it has the same text and
\* went to the same thread of the same machine, though names, sessions and the
\* callers' arguments changed between the calls, and a call that reports
\* success reports a line that is there.
OneDestination ==
    /\ \A i, j \in DOMAIN lines : lines[i] = lines[j]
    /\ \A c \in SendCalls : send[c].at = "sent" =>
          \E i \in DOMAIN lines : lines[i].machine = send[c].to /\ lines[i].body = send[c].body

\* The line is queued twice only when a delivery failed, or a receiver stopped,
\* without a receipt, and somebody asked again afterwards: a call that only
\* waited for another one to finish never queues a duplicate.
DuplicateNeedsMishap ==
    /\ Len(lines) <= 1 + mishaps
    /\ Len(lines) <= Cardinality({c \in SendCalls : send[c].at # "idle" /\ ~send[c].contended})

\* One UUID is one line in one thread, but for a mishap and a retry.
OneMessage == MessageTypeOK /\ OneDestination /\ DuplicateNeedsMishap

=============================================================================
