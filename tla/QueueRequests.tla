---------------------------- MODULE QueueRequests ----------------------------
(***************************************************************************)
(* The commands of `homebased resource` and what they reach: the lanes of a *)
(* machine (its GPUs, found at every start of the daemon or registered by   *)
(* hand) and the operations that move and cancel jobs and release a lane.   *)
(*                                                                          *)
(* A command is sent again when no answer comes.  An earlier request may    *)
(* still be on its way, or done with its answer lost, and a person repeats  *)
(* a command with the id of the operation it may have done already.         *)
(***************************************************************************)
EXTENDS Naturals, Sequences, SequencesExt, FiniteSets

CONSTANTS
    Callers,       \* commands that people run, numbered as they start
    Ops,           \* ids of operations, numbered as they are first used
    Waiting,       \* the queue at the start: jobs in serving order
    Named,         \* jobs of it that people move and cancel
    Devices,       \* indices that nvidia-smi may list
    ByHand,        \* what people register: <<name, device>>
    Tries,         \* ATTEMPTS: requests of one command
    MaxAttentions, \* bound on failed cleanups
    MaxBoots       \* bound on starts of the daemon

NoDevice == 99

ASSUME RequestsAssumption ==
    /\ Callers \subseteq Nat /\ Ops \subseteq Nat
    /\ Waiting \in Seq(Range(Waiting)) /\ IsInjective(Waiting) /\ Named \subseteq Range(Waiting)
    /\ Devices \subseteq Nat \ {NoDevice} /\ IsFiniteSet(Devices)
    /\ ByHand \subseteq Nat \X (Devices \cup {NoDevice})
    /\ Tries \in Nat \ {0} /\ MaxAttentions \in Nat /\ MaxBoots \in Nat

VARIABLES
    lanes,       \* the rows of the machine's resources, in the order they were added,
                 \* and, as history, the device that the run on a lane was given
    order,       \* the queue: its jobs in serving order
    operations,  \* resource_operations: what was done under an id, and its result
    calls,       \* the commands
    wire,        \* requests that the daemon has not served
    raised,      \* attention ids so far
    boots,       \* starts of the daemon so far
    done         \* history: how often an operation took effect

requestVars == <<lanes, order, operations, calls, wire, raised, boots, done>>

\* A GPU's default name is its index; the fallback is named as the first.
Gpu(device) == device
Lane(name, device, origin) ==
    [name |-> name, device |-> device, origin |-> origin,
     run |-> "none", given |-> NoDevice, attention |-> 0]

Origins == {"manual", "detected_fallback", "detected_device"}

QueueRequest ==
    [command: {"move"}, op: Ops, job: Named, end: {"front", "back"}]
        \cup [command: {"cancel"}, op: Ops, job: Named]
        \cup [command: {"release"}, op: Ops, attention: 1 .. raised]
        \cup [command: {"label"}, lane: {Gpu(0)}]
        \cup [command: {"register"}, as: ByHand]

NoCall == [phase |-> "idle", try |-> 0, request |-> <<>>, answer |-> <<>>]
NoOperation == [content |-> <<>>, result |-> <<>>]

RequestsInit ==
    /\ lanes = <<>> /\ order = Waiting
    /\ operations = [o \in Ops |-> NoOperation]
    /\ calls = [c \in Callers |-> NoCall] /\ wire = {}
    /\ raised = 0 /\ boots = 0 /\ done = [o \in Ops |-> 0]

----------------------------------------------------------------------------
(* GPUs                                                                     *)

\* `detect`: the GPUs that nvidia-smi lists, each once and in ascending order,
\* one lane without an index where it is not installed, nothing where it fails
\* or lists no device.
Ascending(list) == \A i, j \in DOMAIN list : i < j => list[i] < list[j]
Probes == {<<NoDevice>>} \cup {list \in SeqOf(Devices, Cardinality(Devices)) : Ascending(list)}

Detected(probe) ==
    [i \in DOMAIN probe |->
        [name |-> IF probe[i] = NoDevice THEN Gpu(0) ELSE Gpu(probe[i]), device |-> probe[i]]]

Indexed(rows) == {n \in DOMAIN rows : rows[n].device # NoDevice}
Holds(rows, device) == \E n \in Indexed(rows) : rows[n].device = device
HasName(rows, name) == \E n \in DOMAIN rows : rows[n].name = name

\* Each detected resource whose name and device are both free is added.
Inserted(rows, found) ==
    IF HasName(rows, found.name) \/ Holds(rows, found.device) THEN rows
    ELSE Append(rows, Lane(found.name, found.device,
                           IF found.device = NoDevice THEN "detected_fallback"
                           ELSE "detected_device"))

insert_detected(rows, detected) ==
    LET after[k \in 0 .. Len(detected)] ==
            IF k = 0 THEN rows ELSE Inserted(after[k - 1], detected[k])
    IN  after[Len(detected)]

Fallbacks(rows) == {n \in DOMAIN rows : rows[n].origin = "detected_fallback"}

\* The fallback takes the first device, and its name if that is free.
Adopted(rows, n, device) ==
    LET taken == \E m \in DOMAIN rows \ {n} : rows[m].name = Gpu(device)
    IN  [rows EXCEPT ![n] = [@ EXCEPT !.device = device, !.origin = "detected_device",
                                      !.name = IF taken THEN rows[n].name ELSE Gpu(device)]]

\* Mutated form: a run on the fallback does not hold detection back
AdoptsWithRun(rows, n, device) == ~Holds(rows, device)

Adopts(rows, n, device) == rows[n].run = "none" /\ ~Holds(rows, device)

ensure_detected_resources(rows, detected) ==
    LET first == detected[1].device
    IN  IF detected = <<>> \/ first = NoDevice
        THEN IF Indexed(rows) # {} THEN rows ELSE insert_detected(rows, detected)
        ELSE IF Fallbacks(rows) = {} THEN insert_detected(rows, detected)
        ELSE LET n == CHOOSE m \in Fallbacks(rows) : TRUE
             IN  IF Adopts(rows, n, first)
                 THEN insert_detected(Adopted(rows, n, first), detected)
                 ELSE rows

\* Requests that the former daemon did not serve are gone with it.
DaemonStarts(probe) ==
    /\ boots < MaxBoots
    /\ boots' = boots + 1
    /\ lanes' = ensure_detected_resources(lanes, Detected(probe))
    /\ wire' = {}
    /\ UNCHANGED <<order, operations, calls, raised, done>>

----------------------------------------------------------------------------
(* The queue's runs, as far as a lane shows them                            *)

reserve_run(n) ==
    /\ boots > 0 /\ lanes[n].run = "none"
    /\ lanes' = [lanes EXCEPT ![n] = [@ EXCEPT !.run = "held", !.given = lanes[n].device]]
    /\ UNCHANGED <<order, operations, calls, wire, raised, boots, done>>

clear_run(row) == [row EXCEPT !.run = "none", !.given = NoDevice, !.attention = 0]

apply_cleanup_result(n, clean) ==
    /\ lanes[n].run = "held"
    /\ IF clean THEN lanes' = [lanes EXCEPT ![n] = clear_run(@)] /\ UNCHANGED raised
       ELSE /\ raised < MaxAttentions /\ raised' = raised + 1
            /\ lanes' = [lanes EXCEPT ![n] = [@ EXCEPT !.run = "attention", !.attention = raised + 1]]
    /\ UNCHANGED <<order, operations, calls, wire, boots, done>>

----------------------------------------------------------------------------
(* The authority                                                            *)

Refused == <<"refused">>
Conflict == <<"conflict">>
Unavailable == <<"unavailable">>

Without(job) == RemoveFirst(order, job)

\* What an operation does to the queue and to the lanes, and its result; the
\* places that QueueStore distinguishes are the two ends here.
apply_move(q) ==
    IF q.job \notin Range(order) THEN [result |-> Refused, order |-> order, lanes |-> lanes]
    ELSE LET front == q.end = "front"
         IN  [result |-> <<"moved", IF front THEN 1 ELSE Len(order)>>,
              order |-> IF front THEN <<q.job>> \o Without(q.job) ELSE Append(Without(q.job), q.job),
              lanes |-> lanes]

apply_cancel(q) ==
    [result |-> IF q.job \in Range(order) THEN <<"cancelled">> ELSE <<"already_terminal">>,
     order |-> Without(q.job), lanes |-> lanes]

release_resource_attention(q) ==
    LET held == {n \in DOMAIN lanes : lanes[n].attention = q.attention}
    IN  IF held = {} THEN [result |-> Refused, order |-> order, lanes |-> lanes]
        ELSE LET n == CHOOSE m \in held : TRUE
             IN  [result |-> <<"released", n>>, order |-> order,
                  lanes |-> [lanes EXCEPT ![n] = clear_run(@)]]

apply(q) == CASE q.command = "move"    -> apply_move(q)
              [] q.command = "cancel"  -> apply_cancel(q)
              [] q.command = "release" -> release_resource_attention(q)

\* Mutated form: an id that was used is looked up by the kind of its command
UsedByKind(q) == operations[q.op] # NoOperation /\ operations[q.op].content.command = q.command

Used(q) == operations[q.op] # NoOperation

\* `with_operation`: once per id, and a refused request stores nothing.
with_operation(q) ==
    IF Used(q)
    THEN [result |-> IF operations[q.op].content = q THEN operations[q.op].result ELSE Conflict,
          order |-> order, lanes |-> lanes, operations |-> operations, done |-> done]
    ELSE LET a == apply(q)
         IN  [result |-> a.result, order |-> a.order, lanes |-> a.lanes,
              operations |-> IF a.result = Refused THEN operations
                             ELSE [operations EXCEPT ![q.op] = [content |-> q, result |-> a.result]],
              done |-> IF a.result = Refused THEN done ELSE [done EXCEPT ![q.op] = @ + 1]]

Kept(result, rows) == [result |-> result, order |-> order, lanes |-> rows,
                       operations |-> operations, done |-> done]

register_resource(q) ==
    IF HasName(lanes, q.as[1]) \/ Holds(lanes, q.as[2]) THEN Kept(Refused, lanes)
    ELSE Kept(<<"registered">>, Append(lanes, Lane(q.as[1], q.as[2], "manual")))

\* The label itself is only shown to people.
set_resource_label(q) ==
    Kept(IF HasName(lanes, q.lane) THEN <<"labelled">> ELSE Refused, lanes)

queue_request(q) == CASE q.command = "register" -> register_resource(q)
                      [] q.command = "label"    -> set_resource_label(q)
                      [] OTHER                  -> with_operation(q)

\* The store serves one request; its answer may be lost, or come too late for
\* the attempt that waits.
ServesRequest(m, arrives) ==
    /\ boots > 0 /\ m \in wire
    /\ wire' = wire \ {m}
    /\ LET s == queue_request(m.request)
       IN  /\ lanes' = s.lanes /\ order' = s.order /\ operations' = s.operations /\ done' = s.done
           /\ calls' = IF arrives /\ calls[m.caller].phase = "sent" /\ calls[m.caller].try = m.try
                       THEN [calls EXCEPT ![m.caller].phase = "answered",
                                          ![m.caller].answer = s.result]
                       ELSE calls
    /\ UNCHANGED <<raised, boots>>

----------------------------------------------------------------------------
(* The command line                                                         *)

Message(c, q, n) == [caller |-> c, request |-> q, try |-> n]

\* An id is new, or of an operation that someone started before.
InOrder(c, q) ==
    /\ \A d \in Callers : d < c => calls[d] # NoCall
    /\ "op" \in DOMAIN q => \A o \in Ops : o < q.op =>
          \E d \in Callers : "op" \in DOMAIN calls[d].request /\ calls[d].request.op = o

\* A person releases an attention that the list showed.
Sends(c, q) ==
    /\ boots > 0 /\ calls[c] = NoCall /\ InOrder(c, q)
    /\ calls' = [calls EXCEPT ![c] = [phase |-> "sent", try |-> 1, request |-> q, answer |-> <<>>]]
    /\ wire' = wire \cup {Message(c, q, 1)}
    /\ UNCHANGED <<lanes, order, operations, raised, boots, done>>

\* `post_retry`: the same body again while the daemon or the machine cannot be
\* reached or is too busy to answer; a registration is not sent again.
post_retry(c) ==
    /\ calls[c].phase = "sent"
    /\ IF calls[c].try < Tries /\ calls[c].request.command # "register"
       THEN /\ calls' = [calls EXCEPT ![c].try = @ + 1]
            /\ wire' = wire \cup {Message(c, calls[c].request, calls[c].try + 1)}
       ELSE /\ calls' = [calls EXCEPT ![c].phase = "answered", ![c].answer = Unavailable]
            /\ UNCHANGED wire
    /\ UNCHANGED <<lanes, order, operations, raised, boots, done>>

RequestsNext ==
    \/ \E probe \in Probes : DaemonStarts(probe)
    \/ \E n \in DOMAIN lanes : reserve_run(n) \/ \E clean \in BOOLEAN : apply_cleanup_result(n, clean)
    \/ \E m \in wire, arrives \in BOOLEAN : ServesRequest(m, arrives)
    \/ \E c \in Callers : post_retry(c) \/ \E q \in QueueRequest : Sends(c, q)

RequestsSpec == RequestsInit /\ [][RequestsNext]_requestVars

----------------------------------------------------------------------------
(* Properties                                                               *)

RequestsTypeOK ==
    /\ \A n \in DOMAIN lanes : /\ lanes[n].origin \in Origins
                               /\ lanes[n].run \in {"none", "held", "attention"}
                               /\ lanes[n].attention \in 0 .. raised
    /\ Range(order) \subseteq Range(Waiting) /\ boots \in 0 .. MaxBoots
    /\ \A c \in Callers : calls[c].phase \in {"idle", "sent", "answered"}
    /\ \A m \in wire : m.try \in 1 .. calls[m.caller].try

\* resources_device and resources.name are unique and the origin fits the device,
\* so no statement of the code runs into the schema's constraints.
RowsAreUnique ==
    \A n, m \in DOMAIN lanes :
        /\ n # m => lanes[n].name # lanes[m].name
                    /\ (lanes[n].device # NoDevice => lanes[n].device # lanes[m].device)
        /\ lanes[n].origin = "detected_fallback" => lanes[n].device = NoDevice
        /\ lanes[n].origin = "detected_device" => lanes[n].device # NoDevice

\* store/queue/resources.rs: "a fallback is never added beside an indexed
\* resource", nor a detected GPU beside the fallback that stands for it, over
\* starts that find other GPUs, runs that outlive them and lanes added by hand.
FallbackStandsAlone ==
    \A n, m \in DOMAIN lanes :
        lanes[n].origin = "detected_fallback" => lanes[m].origin # "detected_device"

\* A run keeps the device that it was given, whatever a later start finds.
DeviceStaysWithRun ==
    \A n \in DOMAIN lanes : lanes[n].run # "none" => lanes[n].device = lanes[n].given

\* The machine's lanes are never two for one GPU and never change under a run,
\* over starts that find other GPUs, failed cleanups and commands sent twice.
LanesAreKept == RequestsTypeOK /\ RowsAreUnique /\ FallbackStandsAlone /\ DeviceStaysWithRun

\* An operation takes effect once under its id, and whoever asks for it again
\* with the same content gets the first result: a late or repeated request
\* never undoes what another person did since.
OperationsHappenOnce ==
    /\ \A o \in Ops : done[o] <= 1
    /\ \A c \in Callers :
          LET q == calls[c].request
          IN  calls[c].phase = "answered" /\ calls[c].answer \notin {Refused, Conflict, Unavailable}
              /\ q.command \notin {"register", "label"}
                  => operations[q.op] = [content |-> q, result |-> calls[c].answer]

=============================================================================
