---------------------------- MODULE LiveHandoff ----------------------------
(***************************************************************************)
(* One receive of the live handoff protocol v1: crates/kvpack-handoff/src/ *)
(* receiver, coordinator.rs, verify.rs, bundle.rs.  A session thread, one  *)
(* reader thread for each stream when the transfer is sprayed over several *)
(* connections, the deadline guard, a canceller, and the sink, over the    *)
(* frames the producer put on each connection.                             *)
(*                                                                         *)
(* A frame is a record [kind, seq, role, ok]: seq and role are what a layer*)
(* header says, ok is whether digests, lengths, values and tags verify.    *)
(* Planes(Begin) of LayoutTable says which plane is due at each sequence   *)
(* number.  A K-role plane travels with a permit of the pool.  The session *)
(* takes one step for each blocking call and each file it writes.          *)
(***************************************************************************)
EXTENDS LayoutTable, FiniteSets

CONSTANTS
    Begin,         \* the armed begin
    Scripts,       \* what producers may send: stream -> sequence of frames
    Capacity,      \* of the permit pool
    Faults         \* bound: broken connections, failed writes, refusals of the sink

ASSUME HandoffAssumption ==
    /\ TypedBegin(Begin) /\ ValidBegin(Begin) /\ Capacity \in Nat \ {0} /\ Faults \in Nat
    /\ \A w \in Scripts :
         /\ 0 \in DOMAIN w
         /\ \A s \in DOMAIN w :
              w[s] \in Seq([kind : STRING, seq : Nat, role : {"K", "V"}, ok : BOOLEAN])

VARIABLES
    wire,          \* frames of each stream not yet read
    shut,          \* streams whose socket is shut down or broken
    registered,    \* sockets in ReceiverInterruptV1::sockets
    reason,        \* ReceiverInterruptV1::reason
    closing,       \* an interrupt has set the reason and not yet walked the sockets
    guard,         \* the deadline thread: "armed", "fired"
    pc,            \* the session thread
    rd,            \* the reader threads: [at, frame]
    events,        \* the mpsc channel
    stash,         \* SequenceMuxV1::stash
    sealed,        \* the SEAL received, NoFrame before
    verified,      \* planes in the verifier, which is also the mux's next
    pending,       \* the coordinator holds a K plane
    available,     \* PermitState::available
    sink,          \* the engine's side: [state, held]
    staging, final,\* the bundle's directories
    acked, faults

net   == <<wire, shut, registered, reason, closing, guard>>
pool  == <<available, sink>>
recv  == <<events, stash, sealed, verified, pending>>
disk  == <<staging, final>>
vars  == <<net, pool, recv, disk, pc, rd, acked, faults>>

Streams == DOMAIN wire
Walk    == Planes(Begin)
Frames  == Len(Walk)
Sprayed == Streams # {0}
Absent  == [planes |-> {}, marks |-> {}]
NoFrame == [kind |-> "NONE", seq |-> 0, role |-> "V", ok |-> FALSE]

Holds(f) == f.kind = "LAYER" /\ f.role = "K"
PermitsIn(s) == Cardinality({i \in DOMAIN s : Holds(s[i])})

Accepting == {"accept", "register", "registered", "prepare"}
Ended == {"idle", "published", "aborted", "unarmed", "crashed"}      \* "idle": not started

TypeOK ==
    /\ shut \subseteq Streams /\ registered \subseteq Streams
    /\ reason \in {"none", "cancelled", "deadline"} /\ closing \in BOOLEAN
    /\ guard \in {"armed", "fired"}
    /\ pc \in Accepting \cup Ended \cup
         {"begin", "first", "loop", "recv", "drain", "header", "read", "acquire", "payload",
          "seal", "promote", "ready", "rename", "reopen", "ack", "finish",
          "joinAux", "cleanup", "join"}
    /\ \A s \in Streams :
         rd[s].at \in {"off", "header", "acquire", "payload", "returned", "exited"}
    /\ verified \in 0 .. Frames /\ pending \in BOOLEAN /\ sealed.kind \in {"NONE", "SEAL"}
    /\ available \in 0 .. Capacity
    /\ sink.state \in {"idle", "begun", "promoted", "aborted"} /\ sink.held \in 0 .. Capacity
    /\ staging.planes \subseteq 1 .. Frames /\ final.planes \subseteq 1 .. Frames
    /\ acked \in BOOLEAN /\ faults \in 0 .. Faults

Start(l) ==
    /\ shut = {} /\ registered = {} /\ reason = "none" /\ closing = FALSE /\ guard = "armed"
    /\ pc = l /\ rd = [s \in DOMAIN wire |-> [at |-> "off", frame |-> NoFrame]]
    /\ events = <<>> /\ stash = {} /\ sealed = NoFrame /\ verified = 0 /\ pending = FALSE
    /\ available = Capacity /\ sink = [state |-> "idle", held |-> 0]
    /\ staging = Absent /\ final = Absent /\ acked = FALSE /\ faults = 0

Init == wire \in Scripts /\ Start("accept")

Goto(l) == pc' = l
Fault == faults < Faults /\ faults' = faults + 1
Interrupted == reason # "none"

-----------------------------------------------------------------------------
(* ReceiverInterruptV1: the reason first, then the registered sockets.     *)
Interrupt(r) ==
    /\ pc \notin Ended
    /\ reason' = IF reason = "none" THEN r ELSE reason
    /\ closing' = TRUE
    /\ UNCHANGED <<wire, shut, registered, pool, recv, disk, pc, rd, acked, faults>>

Cancel == reason = "none" /\ Interrupt("cancelled") /\ UNCHANGED guard

DeadlineFires == guard = "armed" /\ guard' = "fired" /\ Interrupt("deadline")

ShutdownSockets ==
    /\ closing /\ closing' = FALSE
    /\ shut' = shut \cup registered
    /\ UNCHANGED <<wire, registered, reason, guard, pool, recv, disk, pc, rd, acked, faults>>

(* The peer goes away. *)
ConnectionBreaks(s) ==
    /\ s \notin shut /\ pc \notin Ended \cup {"accept"} /\ Fault
    /\ shut' = shut \cup {s}
    /\ UNCHANGED <<wire, registered, reason, closing, guard, pool, recv, disk, pc, rd, acked>>

-----------------------------------------------------------------------------
(* Accepting connections.  The next stream is the one after those accepted. *)
Incoming == Cardinality({s \in Streams : rd[s].at # "off"})

AcceptStep == UNCHANGED <<wire, reason, closing, guard, pool, recv, disk, acked>>

AcceptConnection ==
    /\ pc = "accept" /\ ~Interrupted /\ Goto("register")
    /\ AcceptStep /\ UNCHANGED <<shut, registered, rd, faults>>

(* accept_connection and register refuse an interrupted handle. *)
AcceptRefused ==
    /\ pc \in {"accept", "register", "registered"} /\ Interrupted /\ Goto("unarmed")
    /\ AcceptStep /\ UNCHANGED <<shut, registered, rd, faults>>

RegisterSocket ==
    /\ pc = "register" /\ Goto("registered")
    /\ registered' = registered \cup {Incoming}
    /\ AcceptStep /\ UNCHANGED <<shut, rd, faults>>

RegisterChecked ==
    /\ pc = "registered" /\ ~Interrupted /\ Goto("prepare")
    /\ AcceptStep /\ UNCHANGED <<shut, registered, rd, faults>>

(* The handshake and the peer's policy.  A refused first connection only   *)
(* resumes accepting; a refused auxiliary one ends the receive.             *)
PrepareRejected ==
    /\ pc = "prepare"
    /\ IF Incoming \in shut THEN UNCHANGED faults ELSE Fault
    /\ registered' = IF Incoming = 0 THEN {} ELSE registered
    /\ shut' = shut \ {Incoming}              \* the next connection is a new socket
    /\ Goto(IF Incoming = 0 /\ ~Interrupted THEN "accept" ELSE "unarmed")
    /\ AcceptStep /\ UNCHANGED rd

PrepareConnection ==
    /\ pc = "prepare" /\ Incoming \notin shut /\ ~Interrupted
    /\ rd' = [rd EXCEPT ![Incoming].at = "header"]
    /\ Goto(IF Incoming + 1 = Cardinality(Streams) THEN "begin" ELSE "accept")
    /\ AcceptStep /\ UNCHANGED <<shut, registered, faults>>

-----------------------------------------------------------------------------
(* Reader threads: spray_reader_loop.                                      *)
ChannelOpen == pc \notin {"join", "joinAux"} \cup Ended

Reads(s) == Sprayed /\ rd[s].at # "off" /\ pc \notin Accepting \cup {"crashed"}

Send(s, e, then) ==
    /\ events' = IF ChannelOpen THEN Append(events, e) ELSE events
    /\ rd' = [rd EXCEPT ![s] = [at |-> IF ChannelOpen THEN then ELSE "exited", frame |-> NoFrame]]

ReaderStep == UNCHANGED <<shut, registered, reason, closing, guard, stash, sealed, verified,
                          pending, sink, disk, pc, acked, faults>>

ReadHeader(s) ==
    /\ Reads(s) /\ rd[s].at = "header" /\ s \notin shut /\ wire[s] # <<>>
    /\ wire' = [wire EXCEPT ![s] = Tail(@)]
    /\ LET f == Head(wire[s]) IN
         CASE f.kind = "LAYER" ->
                /\ rd' = [rd EXCEPT ![s] = [at |-> IF Holds(f) THEN "acquire" ELSE "payload",
                                            frame |-> f]]
                /\ UNCHANGED events
           [] f.kind = "BEGIN" -> Send(s, f, "header")
           [] OTHER -> Send(s, [f EXCEPT !.seq = s], "returned")
    /\ UNCHANGED available /\ ReaderStep

(* LayerPermitPoolV1::acquire, before the payload is read. *)
AcquirePermit(s) ==
    /\ Reads(s) /\ rd[s].at = "acquire" /\ available > 0
    /\ available' = available - 1
    /\ rd' = [rd EXCEPT ![s].at = "payload"]
    /\ UNCHANGED <<wire, events>> /\ ReaderStep

ReadPayload(s) ==
    /\ Reads(s) /\ rd[s].at = "payload" /\ s \notin shut
    /\ Send(s, rd[s].frame, "header")
    /\ available' = IF ~ChannelOpen /\ Holds(rd[s].frame) THEN available + 1 ELSE available
    /\ UNCHANGED wire /\ ReaderStep

(* Mutant: a reader ends without telling the session. *)
ReadFailsSilently(s) ==
    /\ Reads(s) /\ rd[s].at \in {"header", "payload"} /\ s \in shut
    /\ rd' = [rd EXCEPT ![s] = [at |-> "exited", frame |-> NoFrame]] /\ UNCHANGED events
    /\ available' = IF Holds(rd[s].frame) THEN available + 1 ELSE available
    /\ UNCHANGED wire /\ ReaderStep

(* A read fails: the error is sent and the frame's permit dropped. *)
ReadFails(s) ==
    /\ Reads(s) /\ rd[s].at \in {"header", "payload"} /\ s \in shut
    /\ Send(s, [NoFrame EXCEPT !.kind = "FAILED"], "exited")
    /\ available' = IF Holds(rd[s].frame) THEN available + 1 ELSE available
    /\ UNCHANGED wire /\ ReaderStep

-----------------------------------------------------------------------------
(* The session thread.                                                     *)
SessionStep == UNCHANGED <<reason, closing, guard, registered, acked>>

(* A failure is handled by cleanup; what was in hand is dropped. *)
FailWith(freed) ==
    /\ Goto("cleanup")
    /\ available' = available + freed

Fails == FailWith(0) /\ UNCHANGED <<events, stash, sealed, verified, pending, sink, disk>>

(* interrupt.check(), before a blocking call: the interrupt may come between. *)
Checks(l) ==
    \/ l \in {"begin", "loop", "drain", "promote", "ready", "finish"}
    \/ l = "header" /\ verified < Frames

CheckFails ==
    /\ Checks(pc) /\ Interrupted /\ Fails
    /\ UNCHANGED <<wire, shut, rd, faults>> /\ SessionStep

CheckPasses ==
    /\ pc \in {"begin", "header"} /\ (Checks(pc) => ~Interrupted)
    /\ Goto(IF pc = "begin" THEN "first" ELSE "read")
    /\ UNCHANGED <<wire, shut, rd, recv, pool, disk, faults>> /\ SessionStep

(* BEGIN is valid now and is the armed one. *)
BeginMatches(f) == f.kind = "BEGIN" /\ f.ok

(* What sink.begin and StreamingCoordinatorV1::create do with a good BEGIN. *)
BeginTransfer(f) ==
    /\ BeginMatches(f)
    /\ sink' = [sink EXCEPT !.state = "begun"]
    /\ staging' = [planes |-> {}, marks |-> {"begin"}]
    /\ Goto(IF Sprayed THEN "loop" ELSE "header")
    /\ UNCHANGED <<available, stash, sealed, verified, pending, final, faults>>

(* create_dir succeeds and a later file fails: nobody owns the directory. *)
BeginFails(f) ==
    \/ /\ ~BeginMatches(f)
       /\ FailWith(IF Holds(f) THEN 1 ELSE 0)
       /\ UNCHANGED <<stash, sealed, verified, pending, sink, disk, faults>>
    \/ /\ BeginMatches(f) /\ Fault
       /\ \/ staging' = [planes |-> {}, marks |-> {"orphan"}]
             /\ sink' = [sink EXCEPT !.state = "begun"]
          \/ UNCHANGED <<staging, sink>>
       /\ FailWith(0)
       /\ UNCHANGED <<stash, sealed, verified, pending, final>>

(* The first event must be BEGIN, whichever reader was faster. *)
ReceiveBegin ==
    /\ pc = "first"
    /\ \/ /\ Sprayed /\ events # <<>>
          /\ BeginTransfer(Head(events)) \/ BeginFails(Head(events))
          /\ events' = Tail(events) /\ UNCHANGED wire
       \/ /\ ~Sprayed /\ 0 \notin shut /\ wire[0] # <<>>
          /\ IF Interrupted
             THEN Fails /\ UNCHANGED faults
             ELSE BeginTransfer(Head(wire[0])) \/ BeginFails([Head(wire[0]) EXCEPT !.role = "V"])
          /\ wire' = [wire EXCEPT ![0] = Tail(@)] /\ UNCHANGED events
    /\ UNCHANGED <<shut, rd>> /\ SessionStep

(* Single stream: a blocked read of the session thread fails. *)
SessionReadFails ==
    /\ ~Sprayed /\ pc \in {"first", "read", "payload"} /\ 0 \in shut
    /\ FailWith(IF pc = "payload" /\ Holds(rd[0].frame) THEN 1 ELSE 0)
    /\ UNCHANGED <<wire, shut, rd, recv, sink, disk, faults>> /\ SessionStep

(* The top of the sprayed loop; after this the thread blocks in recv. *)
LoopCheck ==
    /\ pc = "loop" /\ ~Interrupted
    /\ Goto(IF verified = Frames /\ sealed # NoFrame THEN "seal" ELSE "recv")
    /\ UNCHANGED <<wire, shut, rd, recv, pool, disk, faults>> /\ SessionStep

(* SequenceMuxV1::accept *)
MuxAccepts(f) ==
    /\ f.seq <= Frames /\ f.seq > verified
    /\ \A g \in stash : g.seq # f.seq

ReceiveEvent ==
    /\ pc = "recv" /\ events # <<>>
    /\ LET f == Head(events) IN
         \/ /\ f.kind = "LAYER" /\ MuxAccepts(f)
            /\ stash' = stash \cup {f} /\ Goto("drain") /\ UNCHANGED <<sealed, available>>
         \/ /\ f.kind = "SEAL" /\ f.seq = 0
            /\ sealed' = f /\ Goto("loop") /\ UNCHANGED <<stash, available>>
         \/ /\ \/ f.kind = "LAYER" /\ ~MuxAccepts(f)
               \/ f.kind \notin {"LAYER", "SEAL"}
               \/ f.kind = "SEAL" /\ f.seq # 0
            /\ FailWith(IF Holds(f) THEN 1 ELSE 0) /\ UNCHANGED <<stash, sealed>>
    /\ events' = Tail(events)
    /\ UNCHANGED <<wire, shut, rd, verified, pending, sink, disk, faults>> /\ SessionStep

(* Mutant: sequence numbers compared as if both sides counted from zero. *)
PlaneVerifiesFromZero(f) ==
    /\ f.seq = verified /\ f.seq <= Frames /\ f.ok

(* validate_next_header, against the walk *)
HeaderDue(f) ==
    /\ f.seq = verified + 1 /\ f.seq <= Frames
    /\ f.role = Walk[f.seq].role

(* verify_plane *)
PlaneVerifies(f) == HeaderDue(f) /\ f.ok

(* BundleStager::stage_verified *)
StagePlane(f) == staging' = [staging EXCEPT !.planes = @ \cup {f.seq}]

(* ingest_plane, then sink.layer_ready when the layer is complete: the sink *)
(* gets the permit of the pair.                                             *)
IngestPlane(f) ==
    /\ PlaneVerifies(f)
    /\ verified' = verified + 1
    /\ StagePlane(f)
    /\ pending' = (f.role = "K" /\ ~IsSingleRole(Begin, f.seq))
    /\ sink' = [sink EXCEPT !.held = @ + IF pending' THEN 0 ELSE 1]
    /\ UNCHANGED <<available, faults>>

(* The plane is refused, its file cannot be written, or the sink refuses the layer. *)
IngestFails(f) ==
    /\ \/ ~PlaneVerifies(f) /\ UNCHANGED <<faults, pending, verified>>
          /\ FailWith(IF Holds(f) THEN 1 ELSE 0)
       \/ PlaneVerifies(f) /\ Fault /\ verified' = verified + 1
          /\ IF f.role = "K"
             THEN FailWith(1) /\ UNCHANGED pending
             ELSE \/ FailWith(1) /\ pending' = FALSE      \* the sink dropped the pair
                  \/ FailWith(0) /\ UNCHANGED pending     \* the file failed, K still pending
    /\ UNCHANGED <<sink, staging>>

DrainOne ==
    /\ pc = "drain" /\ ~Interrupted
    /\ \E f \in stash :
         /\ f.seq = verified + 1
         /\ stash' = stash \ {f}
         /\ \/ IngestPlane(f) /\ Goto("drain")
            \/ IngestFails(f)
    /\ UNCHANGED <<wire, shut, rd, events, sealed, final>> /\ SessionStep

DrainDone ==
    /\ pc = "drain" /\ \A f \in stash : f.seq # verified + 1
    /\ Goto("loop")
    /\ UNCHANGED <<wire, shut, rd, recv, pool, disk, faults>> /\ SessionStep

(* Single stream: the header is checked before a permit is taken. *)
SessionHeader ==
    /\ pc = "read" /\ 0 \notin shut /\ wire[0] # <<>>
    /\ LET f == Head(wire[0]) IN
         \/ /\ verified < Frames /\ f.kind = "LAYER" /\ HeaderDue(f)
            /\ rd' = [rd EXCEPT ![0].frame = f]
            /\ Goto(IF f.role = "K" THEN "acquire" ELSE "payload")
            /\ UNCHANGED <<sealed, available>>
         \/ /\ verified = Frames /\ f.kind = "SEAL" /\ ~Interrupted
            /\ sealed' = f /\ Goto("seal")
            /\ UNCHANGED <<rd, available>>
         \/ /\ \/ verified = Frames /\ (f.kind # "SEAL" \/ Interrupted)
               \/ verified < Frames /\ ~(f.kind = "LAYER" /\ HeaderDue(f))
            /\ FailWith(0) /\ UNCHANGED <<rd, sealed>>
    /\ wire' = [wire EXCEPT ![0] = Tail(@)]
    /\ UNCHANGED <<shut, events, stash, verified, pending, sink, disk, faults>> /\ SessionStep

SessionAcquire ==
    /\ pc = "acquire" /\ available > 0 /\ available' = available - 1 /\ Goto("payload")
    /\ UNCHANGED <<wire, shut, rd, recv, sink, disk, faults>> /\ SessionStep

SessionPayload ==
    /\ pc = "payload" /\ ~Interrupted /\ 0 \notin shut
    /\ \/ IngestPlane(rd[0].frame) /\ Goto("header")
       \/ IngestFails(rd[0].frame)
    /\ UNCHANGED <<wire, shut, rd, events, stash, sealed, final>> /\ SessionStep

(* The check after read_payload, with the permit still in hand. *)
SessionPayloadInterrupted ==
    /\ pc = "payload" /\ Interrupted /\ ~Sprayed
    /\ FailWith(IF Holds(rd[0].frame) THEN 1 ELSE 0)
    /\ UNCHANGED <<wire, shut, rd, recv, sink, disk, faults>> /\ SessionStep

-----------------------------------------------------------------------------
(* Seal, promotion, publication.                                           *)
SealStep == UNCHANGED <<wire, shut, rd, recv>> /\ SessionStep

IoFails(labels) ==
    /\ pc \in labels /\ Fault /\ FailWith(0)
    /\ UNCHANGED <<sink, disk>> /\ SealStep

(* SealManifestV1::validate_for and the keyed tag: digests of all that was streamed. *)
SealVerifies(f) == f.ok

(* IncrementalVerifierV1::verify_seal: the seal of a complete stream. *)
StreamSealed == verified = Frames /\ SealVerifies(sealed)

WritePreparedSeal == staging' = [staging EXCEPT !.marks = @ \cup {"seal"}]

(* verify_and_prepare_seal, and the keyed tag of the same seal. *)
VerifySeal ==
    /\ pc = "seal" /\ ~pending /\ StreamSealed
    /\ WritePreparedSeal
    /\ Goto("promote")
    /\ UNCHANGED <<final, available, sink, faults>> /\ SealStep

(* A wrong digest is found before seal.json is written, a wrong tag after. *)
SealRefused ==
    /\ pc = "seal" /\ (pending \/ ~StreamSealed)
    /\ \/ UNCHANGED staging
       \/ ~pending /\ verified = Frames /\ WritePreparedSeal
    /\ FailWith(0)
    /\ UNCHANGED <<final, sink, faults>> /\ SealStep

SinkPromotes ==
    /\ pc = "promote" /\ ~Interrupted
    /\ sink' = [sink EXCEPT !.state = "promoted"]
    /\ Goto("ready")
    /\ UNCHANGED <<available, disk, faults>> /\ SealStep

PublishReady ==
    /\ pc = "ready" /\ ~Interrupted
    /\ staging' = [staging EXCEPT !.marks = @ \cup {"READY"}]
    /\ Goto("rename")
    /\ UNCHANGED <<final, pool, faults>> /\ SealStep

(* The no-replace rename; syncing the parent may still fail afterwards. *)
PublishRename ==
    /\ pc = "rename"
    /\ final' = staging /\ staging' = Absent
    /\ \/ Goto("reopen") /\ UNCHANGED <<available, faults>>
       \/ Fault /\ FailWith(0)
    /\ UNCHANGED sink /\ SealStep

(* open_verified reads every file again. *)
ReopenBundle ==
    /\ pc = "reopen"
    /\ IF final.planes = 1 .. Frames /\ {"begin", "seal", "READY"} \subseteq final.marks
       THEN Goto("ack") /\ UNCHANGED available
       ELSE FailWith(0)
    /\ UNCHANGED <<sink, disk, faults>> /\ SealStep

(* Mutant: the ACK is written once the engine has promoted. *)
WriteAckEarly ==
    /\ pc = "ready" /\ (Sprayed => rd[0].at = "returned")
    /\ acked' = TRUE /\ Goto("finish")
    /\ UNCHANGED <<available, sink, disk, faults, wire, shut, rd, recv, reason, closing, guard,
                   registered>>

(* A sprayed session first gets stream 0 back from its reader. *)
WriteAck ==
    /\ pc = "ack" /\ (Sprayed => rd[0].at = "returned")
    /\ IF 0 \in shut
       THEN FailWith(0) /\ UNCHANGED acked
       ELSE acked' = TRUE /\ Goto("finish") /\ UNCHANGED available
    /\ UNCHANGED <<sink, disk, faults, wire, shut, rd, recv, reason, closing, guard, registered>>

(* normalize: an interrupt that came after the ACK still wins. *)
Finish ==
    /\ pc = "finish" /\ ~Interrupted
    /\ Goto(IF Sprayed THEN "joinAux" ELSE "published")
    /\ shut' = IF Sprayed THEN shut \cup (Streams \ {0}) ELSE shut
    /\ UNCHANGED <<wire, rd, recv, pool, disk, faults>> /\ SessionStep

-----------------------------------------------------------------------------
(* The end of the session.                                                 *)
ThreadsEnded == Sprayed => \A s \in Streams : rd[s].at \in {"off", "returned", "exited"}

(* The error path: sockets, channel, mux; all permits in them come back. *)
CleanupSprayed ==
    /\ pc = "cleanup" /\ Sprayed /\ Goto("join")
    /\ shut' = Streams
    /\ available' = available + PermitsIn(events)
                    + Cardinality({f \in stash : Holds(f)})
    /\ events' = <<>> /\ stash' = {}
    /\ UNCHANGED <<wire, rd, sealed, verified, pending, sink, disk, faults>> /\ SessionStep

(* Mutant: abort removes the committed bundle too. *)
AbortRemovesBundle ==
    /\ \/ pc = "cleanup" /\ ~Sprayed
       \/ pc = "join" /\ ThreadsEnded
    /\ Goto("aborted")
    /\ sink' = [sink EXCEPT !.state = "aborted"]
    /\ pending' = FALSE /\ available' = available + IF pending THEN 1 ELSE 0
    /\ staging' = Absent /\ final' = Absent
    /\ UNCHANGED <<wire, shut, rd, events, stash, sealed, verified, faults>> /\ SessionStep

(* BundleStager::abort: the staging directory of a stager that was created. *)
StagerAbort == staging' = IF "begin" \in staging.marks THEN Absent ELSE staging

(* sink.abort and coordinator.abort, after the threads are joined. *)
AbortSession ==
    /\ \/ pc = "cleanup" /\ ~Sprayed
       \/ pc = "join" /\ ThreadsEnded
    /\ Goto("aborted")
    /\ sink' = [sink EXCEPT !.state = "aborted"]
    /\ pending' = FALSE /\ available' = available + IF pending THEN 1 ELSE 0
    /\ StagerAbort
    /\ UNCHANGED <<wire, shut, rd, events, stash, sealed, verified, final, faults>> /\ SessionStep

JoinAux ==
    /\ pc = "joinAux" /\ ThreadsEnded /\ Goto("published")
    /\ available' = available + PermitsIn(events) /\ events' = <<>>
    /\ UNCHANGED <<wire, shut, rd, stash, sealed, verified, pending, sink, disk, faults>>
    /\ SessionStep

(* The engine is done with a layer and drops its permit. *)
SinkConsumes ==
    /\ sink.held > 0 /\ pc # "crashed"
    /\ sink' = [sink EXCEPT !.held = @ - 1] /\ available' = available + 1
    /\ UNCHANGED <<net, recv, disk, pc, rd, acked, faults>>

(* The process dies: the directories stay as they are. *)
Crash ==
    /\ pc \notin Ended /\ Fault /\ Goto("crashed")
    /\ UNCHANGED <<net, pool, recv, disk, rd, acked>>

ReaderNext(s) == ReadHeader(s) \/ AcquirePermit(s) \/ ReadPayload(s) \/ ReadFails(s)

AcceptNext ==
    \/ AcceptConnection \/ AcceptRefused \/ RegisterSocket \/ RegisterChecked
    \/ PrepareRejected \/ PrepareConnection

SessionNext ==
    \/ CheckFails \/ CheckPasses \/ ReceiveBegin \/ SessionReadFails \/ LoopCheck \/ ReceiveEvent \/ DrainOne \/ DrainDone
    \/ SessionHeader \/ SessionAcquire \/ SessionPayload \/ SessionPayloadInterrupted

PublishNext ==
    \/ IoFails({"seal", "promote", "ready", "rename", "reopen"})
    \/ VerifySeal \/ SealRefused \/ SinkPromotes \/ PublishReady \/ PublishRename \/ ReopenBundle \/ WriteAck
    \/ Finish

EndNext == CleanupSprayed \/ AbortSession \/ JoinAux

Next ==
    \/ Cancel \/ DeadlineFires \/ ShutdownSockets
    \/ \E s \in Streams : ConnectionBreaks(s) \/ ReaderNext(s)
    \/ AcceptNext \/ SessionNext \/ PublishNext \/ EndNext
    \/ SinkConsumes \/ Crash

Spec == Init /\ [][Next]_vars

(* Threads that can run do; the deadline comes; the engine consumes what it *)
(* was given.  Nothing is assumed of the producer: reads that wait for its  *)
(* bytes, and connections, need not happen.                                 *)
Fairness ==
    /\ WF_vars(DeadlineFires) /\ WF_vars(ShutdownSockets) /\ WF_vars(SinkConsumes)
    /\ WF_vars(AcceptRefused) /\ WF_vars(RegisterSocket) /\ WF_vars(RegisterChecked)
    /\ WF_vars(pc = "prepare" /\ Incoming \in shut /\ PrepareRejected)
    /\ WF_vars(SessionNext) /\ WF_vars(PublishNext) /\ WF_vars(EndNext)
    /\ \A s \in {0, 1} : WF_vars(s \in Streams /\ (AcquirePermit(s) \/ ReadFails(s)))

FairSpec == Spec /\ Fairness

-----------------------------------------------------------------------------
(* What the producer is told: an ACK is only written when the bundle is     *)
(* under its final name with every plane, the seal and the marker, after    *)
(* the engine promoted it, whatever faults and interrupts came before.      *)
AckedBundleWhole ==
    acked => /\ final.planes = 1 .. Frames /\ {"begin", "seal", "READY"} \subseteq final.marks
             /\ sink.state \in {"promoted", "aborted"}

HonestScript(w) ==
    /\ DOMAIN w = {0} /\ Len(w[0]) = Frames + 2 /\ \A i \in 1 .. Len(w[0]) : w[0][i].ok
    /\ w[0][1].kind = "BEGIN" /\ w[0][Frames + 2].kind = "SEAL"
    /\ \A n \in 1 .. Frames : w[0][n + 1].kind = "LAYER" /\ w[0][n + 1].seq = n
                                /\ w[0][n + 1].role = Walk[n].role

(* An honest single-stream transfer is only ever refused because of a       *)
(* fault, an interrupt or a lost connection.                                *)
HonestNotRefused ==
    HonestScript(wire) => [](pc \in {"cleanup", "aborted"} => Interrupted \/ faults > 0)

(* The session blocks in recv and no reader will ever send: each has ended  *)
(* or waits for a permit, and all permits are with planes that are not due. *)
(* recv and acquire look at neither the sockets nor the interrupt.          *)
Starved ==
    /\ Sprayed /\ pc = "recv" /\ events = <<>>
    /\ available = 0 /\ sink.held = 0
    /\ \A s \in Streams : rd[s].at \in {"acquire", "returned", "exited"}
    /\ \E s \in Streams : rd[s].at = "acquire"

(* A frame that never comes, a stalled or broken stream, a parked reader    *)
(* and an engine that is slow to give permits back never keep the receive   *)
(* from returning, the deadline at the latest: the only receive that hangs  *)
(* is one whose pool is used up by planes that came out of turn.            *)
EndsUnlessStarved == <>(pc \in Ended \/ Starved)

(* What session.rs:460-462 and spray.rs:118-119 say of every receive: the   *)
(* deadline ends it whatever the producer sends.  Starved receives refute   *)
(* it.                                                                      *)
SessionEnds == <>(pc \in Ended)

(* What the caller of the receive is told. *)
Verdict ==
    CASE pc = "published" -> "accepted"
      [] pc \in {"aborted", "unarmed"} -> "refused"
      [] OTHER -> "open"

(* What a consumer of the bundle sees is what AtomicTransfer promises. *)
Transfer == INSTANCE AtomicTransfer WITH
    visible <- final.planes, whole <- 1 .. Frames, outcome <- Verdict

(* The receive refines the atomic transfer: the bundle appears whole in one *)
(* rename, success is returned only with it visible, and nothing of a       *)
(* transfer refused earlier ever appears (session.rs:82-83).                *)
RefinesTransfer == Transfer!Spec
=============================================================================
