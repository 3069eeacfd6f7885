--------------------------- MODULE Handoff_proofs ---------------------------
(***************************************************************************)
(* Theorems about the receivers of both handoff protocols.  Version 1, for *)
(* any begin, any producers' scripts, any number of connections and any    *)
(* pool: what an ACK means, that the receive implements the abstract       *)
(* transfer, that every begin it accepts can be streamed to its end, and   *)
(* that an honest stream is not refused.  Version 2: the same refinement,  *)
(* and what it installs never overlaps.                                    *)
(***************************************************************************)
EXTENDS LiveHandoff, AtomicReceiver, Recursion_proofs, TLAPS

-----------------------------------------------------------------------------
(* Where the session is. *)
Streaming  == {"header", "read", "acquire", "payload", "loop", "recv", "drain", "seal"}
Starting   == Accepting \cup {"begin", "first"}
Publishing == {"promote", "ready", "rename"}
Visible    == {"ack", "finish", "joinAux", "published"}
Failed     == {"cleanup", "join", "aborted", "crashed"}

Bundles == [planes : SUBSET Int, marks : SUBSET {"begin", "orphan", "seal", "READY"}]

Sinks == [state : {"idle", "begun", "promoted", "aborted"}, held : Int]

(* The part of the types the argument needs; the pool and the threads are free. *)
Shape ==
    /\ pc \in Starting \cup Streaming \cup Publishing \cup {"reopen"} \cup Visible
              \cup Failed \cup {"unarmed", "idle"}
    /\ sink \in Sinks
    /\ staging \in Bundles /\ final \in Bundles
    /\ verified \in Nat

WholeBundle ==
    final.planes = 1 .. Frames /\ {"begin", "seal", "READY"} \subseteq final.marks

(* The staging directory holds the planes up to the verifier's cursor, from the
   BEGIN to the rename, and the cursor is at the end from the seal on. *)
StagedToCursor ==
    /\ pc \in Starting => verified = 0
    /\ pc \in Streaming \cup Publishing => staging.planes = 1 .. verified
    /\ pc \in Publishing => verified = Frames

(* Nothing has the final name before the rename. *)
HiddenBefore == pc \in Starting \cup Streaming \cup Publishing => final.planes = {}

(* The engine promotes before the bundle is published. *)
PromotedFirst ==
    pc \in {"ready", "rename", "reopen", "ack", "finish", "joinAux"} => sink.state = "promoted"

(* The session goes on to the ACK only with the bundle read again as a whole. *)
ReopenedWhole == pc \in Visible => WholeBundle

(* After the ACK the session only ends. *)
AckedLate == acked => pc \in {"finish", "joinAux", "published"} \cup Failed

SessionInv ==
    /\ Shape /\ StagedToCursor /\ HiddenBefore /\ PromotedFirst /\ ReopenedWhole
    /\ AckedLate /\ AckedBundleWhole

(* Interrupts, readers and the pool touch none of it. *)
LEMMA SessionFrame ==
  ASSUME SessionInv, UNCHANGED <<pc, staging, final, verified, acked>>,
         sink'.state = sink.state, sink' \in [state : {sink.state}, held : Int]
  PROVE  SessionInv'
<1>1. Shape'
  BY DEF SessionInv, Shape, Sinks
<1>2. StagedToCursor' /\ HiddenBefore' /\ PromotedFirst'
  BY DEF SessionInv, StagedToCursor, HiddenBefore, PromotedFirst
<1>3. ReopenedWhole' /\ AckedLate' /\ AckedBundleWhole'
  BY DEF SessionInv, ReopenedWhole, WholeBundle, AckedLate, AckedBundleWhole
<1> QED
  BY <1>1, <1>2, <1>3 DEF SessionInv

(* A step of the session that leaves the bundle, the cursor and the engine alone
   and stays within its stage. *)
LEMMA SessionMoves ==
  ASSUME SessionInv, UNCHANGED <<sink, staging, final, verified, acked>>,
         \/ pc' \in Starting /\ pc \in Starting
         \/ pc' \in Streaming /\ pc \in Streaming
         \/ pc' = "unarmed" /\ pc \in Starting
         \/ pc' = "crashed"
         \/ pc' = "join" /\ pc = "cleanup"
  PROVE  SessionInv'
<1> USE DEF Starting, Accepting, Streaming, Publishing, Visible, Failed
<1>1. Shape'
  BY DEF SessionInv, Shape
<1>2. StagedToCursor' /\ HiddenBefore' /\ PromotedFirst'
  BY DEF SessionInv, StagedToCursor, HiddenBefore, PromotedFirst
<1>3. ReopenedWhole' /\ AckedBundleWhole'
  BY DEF SessionInv, ReopenedWhole, WholeBundle, AckedBundleWhole
<1>4. AckedLate'
  BY DEF SessionInv, AckedLate
<1> QED
  BY <1>1, <1>2, <1>3, <1>4 DEF SessionInv

(* A failure at any point: whatever happened to the staging directory, the cursor
   and an engine that was not acknowledged yet, the bundle stays. *)
LEMMA SessionFails ==
  ASSUME SessionInv, pc' \in {"cleanup", "aborted"},
         UNCHANGED <<final, acked>>, staging' \in Bundles, verified' \in Nat,
         sink' \in Sinks, acked => sink'.state \in {sink.state, "aborted"}
  PROVE  SessionInv'
<1> USE DEF Starting, Accepting, Streaming, Publishing, Visible, Failed
<1>1. Shape'
  BY DEF SessionInv, Shape
<1>2. StagedToCursor' /\ HiddenBefore' /\ PromotedFirst' /\ ReopenedWhole'
  BY DEF StagedToCursor, HiddenBefore, PromotedFirst, ReopenedWhole
<1>3. AckedBundleWhole'
  BY DEF SessionInv, AckedBundleWhole
<1>4. AckedLate'
  BY DEF AckedLate
<1> QED
  BY <1>1, <1>2, <1>3, <1>4 DEF SessionInv

(* A failure that leaves everything as it is. *)
LEMMA SessionGivesUp ==
  ASSUME SessionInv, pc' = "cleanup", UNCHANGED <<sink, staging, final, verified, acked>>
  PROVE  SessionInv'
<1>1. staging \in Bundles /\ verified \in Nat /\ sink \in Sinks
  BY DEF SessionInv, Shape
<1> QED
  BY <1>1, SessionFails

-----------------------------------------------------------------------------
(* Accepting connections moves within the start. *)
LEMMA AcceptKeeps ==
  ASSUME SessionInv, AcceptNext
  PROVE  SessionInv'
<1> USE DEF AcceptStep, Goto, pool, recv, disk
<1>1. UNCHANGED <<sink, staging, final, verified, acked>>
  BY DEF AcceptNext, AcceptConnection, AcceptRefused, RegisterSocket, RegisterChecked,
         PrepareRejected, PrepareConnection
<1>2. pc \in Starting /\ (pc' \in Starting \/ pc' = "unarmed")
  BY DEF AcceptNext, AcceptConnection, AcceptRefused, RegisterSocket, RegisterChecked,
         PrepareRejected, PrepareConnection, Starting, Accepting
<1> QED
  BY <1>1, <1>2, SessionMoves

(* A good BEGIN opens an empty staging directory, with the cursor at zero. *)
LEMMA BeginKeeps ==
  ASSUME SessionInv, pc = "first", UNCHANGED acked, NEW f, BeginTransfer(f) \/ BeginFails(f)
  PROVE  SessionInv'
<1> USE DEF Goto
<1>1. ~acked
  BY DEF SessionInv, AckedLate, Failed
<1>2. CASE BeginTransfer(f)
  <2>1. /\ sink' = [sink EXCEPT !.state = "begun"] /\ staging' = [planes |-> {}, marks |-> {"begin"}]
        /\ pc' \in {"loop", "header"} /\ UNCHANGED <<verified, final>>
    BY <1>2 DEF BeginTransfer
  <2>2. verified = 0 /\ final.planes = {}
    BY DEF SessionInv, StagedToCursor, HiddenBefore, Starting
  <2>3. Shape'
    BY <2>1 DEF SessionInv, Shape, Sinks, Bundles, Streaming
  <2>4. StagedToCursor'
    BY <2>1, <2>2 DEF StagedToCursor, Starting, Accepting, Publishing
  <2>5. HiddenBefore' /\ PromotedFirst' /\ ReopenedWhole'
    BY <2>1, <2>2 DEF HiddenBefore, PromotedFirst, ReopenedWhole, Visible
  <2>6. AckedLate' /\ AckedBundleWhole'
    BY <1>1 DEF AckedLate, AckedBundleWhole
  <2> QED
    BY <2>3, <2>4, <2>5, <2>6 DEF SessionInv
<1>3. CASE BeginFails(f)
  <2>1. pc' = "cleanup" /\ UNCHANGED <<verified, final>>
    BY <1>3 DEF BeginFails, FailWith, disk
  <2>2. staging' \in Bundles
    BY <1>3 DEF BeginFails, disk, Bundles, SessionInv, Shape
  <2>3. sink' \in Sinks
    BY <1>3 DEF BeginFails, Sinks, SessionInv, Shape
  <2>4. verified' \in Nat
    BY <2>1 DEF SessionInv, Shape
  <2> QED
    BY <1>1, <2>1, <2>2, <2>3, <2>4, SessionFails
<1> QED
  BY <1>2, <1>3

(* A verified plane is staged under the cursor's next number; a refused one, or one
   that could not be written, ends the stream. *)
LEMMA IngestKeeps ==
  ASSUME SessionInv, pc \in {"drain", "payload"}, UNCHANGED <<final, acked>>, NEW f,
         \/ IngestPlane(f) /\ pc' \in {"drain", "header"}
         \/ IngestFails(f)
  PROVE  SessionInv'
<1> USE DEF Goto
<1>1. ~acked
  BY DEF SessionInv, AckedLate, Failed
<1>2. CASE IngestPlane(f) /\ pc' \in {"drain", "header"}
  <2>1. staging.planes = 1 .. verified /\ verified \in Nat /\ staging \in Bundles
    BY DEF SessionInv, Shape, StagedToCursor, Streaming
  <2>2. /\ f.seq = verified + 1 /\ verified' = verified + 1
        /\ staging' = [staging EXCEPT !.planes = @ \cup {f.seq}]
    BY <1>2 DEF IngestPlane, PlaneVerifies, HeaderDue, StagePlane
  <2>3. staging'.planes = 1 .. verified' /\ verified' \in Nat /\ staging' \in Bundles
    BY <2>1, <2>2 DEF Bundles
  <2>4. sink' \in Sinks
    BY <1>2 DEF IngestPlane, SessionInv, Shape, Sinks
  <2>5. Shape'
    BY <1>2, <2>3, <2>4 DEF SessionInv, Shape, Streaming
  <2>6. StagedToCursor'
    BY <1>2, <2>3 DEF StagedToCursor, Starting, Accepting, Publishing
  <2>7. HiddenBefore'
    BY <1>2 DEF SessionInv, HiddenBefore, Streaming
  <2>8. PromotedFirst' /\ ReopenedWhole'
    BY <1>2 DEF PromotedFirst, ReopenedWhole, Visible
  <2>9. AckedLate' /\ AckedBundleWhole'
    BY <1>1 DEF AckedLate, AckedBundleWhole
  <2> QED
    BY <2>5, <2>6, <2>7, <2>8, <2>9 DEF SessionInv
<1>3. CASE IngestFails(f)
  <2>1. pc' = "cleanup" /\ UNCHANGED <<sink, staging>> /\ verified' \in {verified, verified + 1}
    BY <1>3 DEF IngestFails, FailWith
  <2>2. staging' \in Bundles /\ verified' \in Nat /\ sink' \in Sinks
    BY <2>1 DEF SessionInv, Shape
  <2> QED
    BY <1>1, <2>1, <2>2, SessionFails
<1> QED
  BY <1>2, <1>3

(* The session's part of the stream. *)
LEMMA SessionKeeps ==
  ASSUME SessionInv, SessionNext
  PROVE  SessionInv'
<1> USE DEF SessionStep, Goto, FailWith, Fails, recv, pool, disk
<1>1. ASSUME CheckFails PROVE SessionInv'
  BY <1>1, SessionGivesUp DEF CheckFails
<1>2. ASSUME CheckPasses PROVE SessionInv'
  <2>1. UNCHANGED <<sink, staging, final, verified, acked>>
    BY <1>2 DEF CheckPasses
  <2>2. \/ pc \in Starting /\ pc' \in Starting
        \/ pc \in Streaming /\ pc' \in Streaming
    BY <1>2 DEF CheckPasses, Starting, Streaming
  <2> QED
    BY <2>1, <2>2, SessionMoves
<1>3. ASSUME ReceiveBegin PROVE SessionInv'
  <2>1. pc = "first" /\ UNCHANGED acked
    BY <1>3 DEF ReceiveBegin
  <2>2. \/ \E f : BeginTransfer(f) \/ BeginFails(f)
        \/ Fails
    BY <1>3 DEF ReceiveBegin
  <2>3. ASSUME Fails PROVE SessionInv'
    BY <2>1, <2>3, SessionGivesUp
  <2> QED
    BY <2>1, <2>2, <2>3, BeginKeeps
<1>4. ASSUME SessionReadFails PROVE SessionInv'
  BY <1>4, SessionGivesUp DEF SessionReadFails
<1>5. ASSUME LoopCheck PROVE SessionInv'
  <2>1. pc \in Streaming /\ pc' \in Streaming
    BY <1>5 DEF LoopCheck, Streaming
  <2> QED
    BY <1>5, <2>1, SessionMoves DEF LoopCheck
<1>6. ASSUME ReceiveEvent PROVE SessionInv'
  <2>1. UNCHANGED <<sink, staging, final, verified, acked>>
    BY <1>6 DEF ReceiveEvent
  <2>2. pc = "recv" /\ pc' \in {"drain", "loop", "cleanup"}
    BY <1>6 DEF ReceiveEvent
  <2>3. pc \in Streaming /\ (pc' \in Streaming \/ pc' = "cleanup")
    BY <2>2 DEF Streaming
  <2> QED
    BY <2>1, <2>3, SessionMoves, SessionGivesUp
<1>7. ASSUME DrainOne PROVE SessionInv'
  <2>1. pc = "drain" /\ UNCHANGED <<final, acked>>
    BY <1>7 DEF DrainOne
  <2>2. \E f : (IngestPlane(f) /\ pc' = "drain") \/ IngestFails(f)
    BY <1>7 DEF DrainOne
  <2> QED
    BY <2>1, <2>2, IngestKeeps
<1>8. ASSUME DrainDone PROVE SessionInv'
  <2>1. pc \in Streaming /\ pc' \in Streaming
    BY <1>8 DEF DrainDone, Streaming
  <2> QED
    BY <1>8, <2>1, SessionMoves DEF DrainDone
<1>9. ASSUME SessionHeader PROVE SessionInv'
  <2>1. UNCHANGED <<sink, staging, final, verified, acked>>
    BY <1>9 DEF SessionHeader
  <2>2. pc = "read" /\ pc' \in {"acquire", "payload", "seal", "cleanup"}
    BY <1>9 DEF SessionHeader
  <2>3. pc \in Streaming /\ (pc' \in Streaming \/ pc' = "cleanup")
    BY <2>2 DEF Streaming
  <2> QED
    BY <2>1, <2>3, SessionMoves, SessionGivesUp
<1>10. ASSUME SessionAcquire PROVE SessionInv'
  <2>1. pc \in Streaming /\ pc' \in Streaming
    BY <1>10 DEF SessionAcquire, Streaming
  <2> QED
    BY <1>10, <2>1, SessionMoves DEF SessionAcquire
<1>11. ASSUME SessionPayload PROVE SessionInv'
  BY <1>11, IngestKeeps DEF SessionPayload
<1>12. ASSUME SessionPayloadInterrupted PROVE SessionInv'
  BY <1>12, SessionGivesUp DEF SessionPayloadInterrupted
<1> QED
  BY <1>1, <1>2, <1>3, <1>4, <1>5, <1>6, <1>7, <1>8, <1>9, <1>10, <1>11, <1>12 DEF SessionNext

-----------------------------------------------------------------------------
(* A complete, sealed stream is published: the rename shows all planes at once. *)
LEMMA PublishKeeps ==
  ASSUME SessionInv, PublishNext
  PROVE  SessionInv'
<1> USE DEF SealStep, SessionStep, Goto, FailWith, recv, pool, disk
<1> USE DEF Starting, Accepting, Streaming, Publishing, Visible, Failed
<1>1. ASSUME IoFails({"seal", "promote", "ready", "rename", "reopen"}) PROVE SessionInv'
  BY <1>1, SessionGivesUp DEF IoFails
<1>2. ASSUME VerifySeal PROVE SessionInv'
  <2>1. /\ pc = "seal" /\ pc' = "promote" /\ verified = Frames
        /\ staging' = [staging EXCEPT !.marks = @ \cup {"seal"}]
        /\ UNCHANGED <<final, sink, verified, acked>>
    BY <1>2 DEF VerifySeal, StreamSealed, WritePreparedSeal
  <2>2. Shape' /\ staging'.planes = staging.planes
    BY <2>1 DEF SessionInv, Shape, Bundles
  <2>3. StagedToCursor' /\ HiddenBefore'
    BY <2>1, <2>2 DEF SessionInv, StagedToCursor, HiddenBefore
  <2>4. PromotedFirst' /\ ReopenedWhole' /\ AckedLate' /\ AckedBundleWhole'
    BY <2>1 DEF SessionInv, PromotedFirst, ReopenedWhole, AckedLate, AckedBundleWhole
  <2> QED
    BY <2>2, <2>3, <2>4 DEF SessionInv
<1>3. ASSUME SealRefused PROVE SessionInv'
  <2>1. /\ pc' = "cleanup" /\ UNCHANGED <<final, sink, verified, acked>>
        /\ staging' \in {staging, [staging EXCEPT !.marks = @ \cup {"seal"}]}
    BY <1>3 DEF SealRefused, WritePreparedSeal
  <2>2. staging' \in Bundles /\ verified' \in Nat /\ sink' \in Sinks
    BY <2>1 DEF SessionInv, Shape, Bundles
  <2> QED
    BY <2>1, <2>2, SessionFails
<1>4. ASSUME SinkPromotes PROVE SessionInv'
  <2>1. /\ pc = "promote" /\ pc' = "ready" /\ sink' = [sink EXCEPT !.state = "promoted"]
        /\ UNCHANGED <<staging, final, verified, acked>>
    BY <1>4 DEF SinkPromotes
  <2>2. Shape' /\ sink'.state = "promoted"
    BY <2>1 DEF SessionInv, Shape, Sinks
  <2>3. StagedToCursor' /\ HiddenBefore'
    BY <2>1 DEF SessionInv, StagedToCursor, HiddenBefore
  <2>4. PromotedFirst' /\ ReopenedWhole' /\ AckedLate' /\ AckedBundleWhole'
    BY <2>1, <2>2 DEF SessionInv, PromotedFirst, ReopenedWhole, AckedLate, AckedBundleWhole
  <2> QED
    BY <2>2, <2>3, <2>4 DEF SessionInv
<1>5. ASSUME PublishReady PROVE SessionInv'
  <2>1. /\ pc = "ready" /\ pc' = "rename"
        /\ staging' = [staging EXCEPT !.marks = @ \cup {"READY"}]
        /\ UNCHANGED <<final, sink, verified, acked>>
    BY <1>5 DEF PublishReady
  <2>2. Shape' /\ staging'.planes = staging.planes
    BY <2>1 DEF SessionInv, Shape, Bundles
  <2>3. StagedToCursor' /\ HiddenBefore'
    BY <2>1, <2>2 DEF SessionInv, StagedToCursor, HiddenBefore
  <2>4. PromotedFirst' /\ ReopenedWhole' /\ AckedLate' /\ AckedBundleWhole'
    BY <2>1 DEF SessionInv, PromotedFirst, ReopenedWhole, AckedLate, AckedBundleWhole
  <2> QED
    BY <2>2, <2>3, <2>4 DEF SessionInv
<1>6. ASSUME PublishRename PROVE SessionInv'
  <2>1. /\ pc = "rename" /\ pc' \in {"reopen", "cleanup"}
        /\ final' = staging /\ staging' = Absent /\ UNCHANGED <<sink, verified, acked>>
    BY <1>6 DEF PublishRename
  <2>2. Shape'
    BY <2>1 DEF SessionInv, Shape, Bundles, Absent
  <2>3. StagedToCursor' /\ HiddenBefore' /\ PromotedFirst' /\ ReopenedWhole'
    BY <2>1 DEF SessionInv, StagedToCursor, HiddenBefore, PromotedFirst, ReopenedWhole
  <2>4. AckedLate' /\ AckedBundleWhole'
    BY <2>1 DEF SessionInv, AckedLate, AckedBundleWhole
  <2> QED
    BY <2>2, <2>3, <2>4 DEF SessionInv
<1>7. ASSUME ReopenBundle PROVE SessionInv'
  <2>1. /\ pc = "reopen" /\ UNCHANGED <<sink, staging, final, verified, acked>>
        /\ pc' = "cleanup" \/ (pc' = "ack" /\ WholeBundle)
    BY <1>7 DEF ReopenBundle, WholeBundle
  <2>2. CASE pc' = "ack" /\ WholeBundle
    <3>1. Shape' /\ StagedToCursor' /\ HiddenBefore' /\ PromotedFirst'
      BY <2>1, <2>2 DEF SessionInv, Shape, StagedToCursor, HiddenBefore, PromotedFirst
    <3>2. ReopenedWhole'
      BY <2>1, <2>2 DEF ReopenedWhole, WholeBundle
    <3>3. AckedLate' /\ AckedBundleWhole'
      BY <2>1, <2>2 DEF SessionInv, AckedLate, AckedBundleWhole
    <3> QED
      BY <3>1, <3>2, <3>3 DEF SessionInv
  <2> QED
    BY <2>1, <2>2, SessionGivesUp
<1>8. ASSUME WriteAck PROVE SessionInv'
  <2>1. /\ pc = "ack" /\ UNCHANGED <<sink, staging, final, verified>>
        /\ \/ pc' = "cleanup" /\ UNCHANGED acked
           \/ pc' = "finish" /\ acked'
    BY <1>8 DEF WriteAck
  <2>2. CASE pc' = "finish" /\ acked'
    <3>1. WholeBundle /\ sink.state = "promoted"
      BY <2>1 DEF SessionInv, ReopenedWhole, PromotedFirst
    <3>2. Shape' /\ StagedToCursor' /\ HiddenBefore' /\ PromotedFirst'
      BY <2>1, <2>2 DEF SessionInv, Shape, StagedToCursor, HiddenBefore, PromotedFirst
    <3>3. ReopenedWhole' /\ AckedLate' /\ AckedBundleWhole'
      BY <2>1, <2>2, <3>1 DEF ReopenedWhole, WholeBundle, AckedLate, AckedBundleWhole
    <3> QED
      BY <3>2, <3>3 DEF SessionInv
  <2> QED
    BY <2>1, <2>2, SessionGivesUp
<1>9. ASSUME Finish PROVE SessionInv'
  <2>1. /\ pc = "finish" /\ pc' \in {"joinAux", "published"}
        /\ UNCHANGED <<sink, staging, final, verified, acked>>
    BY <1>9 DEF Finish
  <2>2. Shape' /\ StagedToCursor' /\ HiddenBefore' /\ PromotedFirst'
    BY <2>1 DEF SessionInv, Shape, StagedToCursor, HiddenBefore, PromotedFirst
  <2>3. ReopenedWhole' /\ AckedLate' /\ AckedBundleWhole'
    BY <2>1 DEF SessionInv, ReopenedWhole, WholeBundle, AckedLate, AckedBundleWhole
  <2> QED
    BY <2>2, <2>3 DEF SessionInv
<1> QED
  BY <1>1, <1>2, <1>3, <1>4, <1>5, <1>6, <1>7, <1>8, <1>9 DEF PublishNext

(* The end of the session removes at most the staging directory. *)
LEMMA EndKeeps ==
  ASSUME SessionInv, EndNext
  PROVE  SessionInv'
<1> USE DEF SessionStep, Goto, pool, disk
<1>1. ASSUME CleanupSprayed PROVE SessionInv'
  BY <1>1, SessionMoves DEF CleanupSprayed
<1>2. ASSUME AbortSession PROVE SessionInv'
  <2>1. /\ pc' = "aborted" /\ UNCHANGED <<final, verified, acked>>
        /\ staging' \in {staging, Absent} /\ sink' = [sink EXCEPT !.state = "aborted"]
    BY <1>2 DEF AbortSession, StagerAbort
  <2>2. staging' \in Bundles /\ verified' \in Nat /\ sink' \in Sinks /\ sink'.state = "aborted"
    BY <2>1 DEF SessionInv, Shape, Bundles, Sinks, Absent
  <2> QED
    BY <2>1, <2>2, SessionFails
<1>3. ASSUME JoinAux PROVE SessionInv'
  <2> USE DEF Starting, Accepting, Streaming, Publishing, Visible, Failed
  <2>1. /\ pc = "joinAux" /\ pc' = "published"
        /\ UNCHANGED <<sink, staging, final, verified, acked>>
    BY <1>3 DEF JoinAux
  <2>2. Shape' /\ StagedToCursor' /\ HiddenBefore' /\ PromotedFirst'
    BY <2>1 DEF SessionInv, Shape, StagedToCursor, HiddenBefore, PromotedFirst
  <2>3. ReopenedWhole' /\ AckedLate' /\ AckedBundleWhole'
    BY <2>1 DEF SessionInv, ReopenedWhole, WholeBundle, AckedLate, AckedBundleWhole
  <2> QED
    BY <2>2, <2>3 DEF SessionInv
<1> QED
  BY <1>1, <1>2, <1>3 DEF EndNext

(* Interrupts, broken connections, the readers and the engine's consumption leave the
   session where it is. *)
Outside ==
    \/ Cancel \/ DeadlineFires \/ ShutdownSockets
    \/ \E s \in Streams : ConnectionBreaks(s) \/ ReaderNext(s)
    \/ SinkConsumes
    \/ UNCHANGED vars

LEMMA OutsideLeaves ==
  ASSUME SessionInv, Outside
  PROVE  /\ UNCHANGED <<pc, staging, final, verified, acked>>
         /\ sink'.state = sink.state /\ sink' \in [state : {sink.state}, held : Int]
<1> USE DEF disk, recv, pool, net
<1>0. sink \in Sinks
  BY DEF SessionInv, Shape
<1>1. CASE Cancel \/ DeadlineFires \/ ShutdownSockets
  BY <1>0, <1>1 DEF Cancel, DeadlineFires, ShutdownSockets, Interrupt, Sinks
<1>2. CASE \E s \in Streams : ConnectionBreaks(s)
  BY <1>0, <1>2 DEF ConnectionBreaks, Sinks
<1>3. CASE \E s \in Streams : ReaderNext(s)
  <2>1. ReaderStep
    BY <1>3 DEF ReaderNext, ReadHeader, AcquirePermit, ReadPayload, ReadFails
  <2> QED
    BY <1>0, <2>1 DEF ReaderStep, Sinks
<1>4. CASE SinkConsumes
  BY <1>0, <1>4 DEF SinkConsumes, Sinks
<1>5. CASE UNCHANGED vars
  BY <1>0, <1>5 DEF vars, Sinks
<1> QED
  BY <1>1, <1>2, <1>3, <1>4, <1>5 DEF Outside

LEMMA CrashKeeps ==
  ASSUME SessionInv, Crash
  PROVE  SessionInv'
BY SessionMoves DEF Crash, Goto, pool, recv, disk

LEMMA NextSplits ==
  ASSUME [Next]_vars
  PROVE  Outside \/ AcceptNext \/ SessionNext \/ PublishNext \/ EndNext \/ Crash
BY DEF Next, Outside

LEMMA SessionStarts ==
  ASSUME Init
  PROVE  SessionInv
<1> USE DEF Init, Start, Starting, Accepting, Streaming, Publishing, Visible, Failed
<1>1. Shape
  BY DEF Shape, Sinks, Bundles, Absent
<1>2. StagedToCursor /\ HiddenBefore /\ PromotedFirst /\ ReopenedWhole
  BY DEF StagedToCursor, HiddenBefore, PromotedFirst, ReopenedWhole, Absent
<1>3. AckedLate /\ AckedBundleWhole
  BY DEF AckedLate, AckedBundleWhole
<1> QED
  BY <1>1, <1>2, <1>3 DEF SessionInv

(* The session's invariant, for every script, fault and interleaving. *)
THEOREM SessionInvariant == Spec => []SessionInv
<1>1. ASSUME SessionInv, [Next]_vars PROVE SessionInv'
  <2>1. CASE Outside
    BY <1>1, <2>1, OutsideLeaves, SessionFrame
  <2> QED
    BY <1>1, <2>1, NextSplits, AcceptKeeps, SessionKeeps, PublishKeeps, EndKeeps, CrashKeeps
<1> QED
  BY <1>1, SessionStarts, PTL DEF Spec

(* An ACK means the whole bundle under its final name, and an engine that promoted it
   (session.rs:82-83), whatever the producer, the faults and the interrupts. *)
THEOREM AcknowledgedIsWhole == Spec => []AckedBundleWhole
<1>1. SessionInv => AckedBundleWhole
  BY DEF SessionInv
<1> QED
  BY <1>1, SessionInvariant, PTL

-----------------------------------------------------------------------------
(* The refinement.  The caller is told at the end only. *)
Told == {"published", "aborted", "unarmed"}

LEMMA Quiet ==
  ASSUME final' = final, pc' = pc \/ (pc \notin Told /\ pc' \notin Told)
  PROVE  UNCHANGED Transfer!vars
<1>1. Verdict' = Verdict
  BY DEF Verdict, Told
<1> QED
  BY <1>1 DEF Transfer!vars

LEMMA Refuses ==
  ASSUME final' = final, pc \notin Told, pc' \in {"aborted", "unarmed"}
  PROVE  Transfer!Next
<1>1. Transfer!Refuse
  BY DEF Transfer!Refuse, Verdict, Told
<1> QED
  BY <1>1 DEF Transfer!Next

LEMMA Accepts ==
  ASSUME SessionInv, pc \in {"finish", "joinAux"}, pc' = "published", final' = final
  PROVE  Transfer!Next
<1>1. final.planes = 1 .. Frames
  BY DEF SessionInv, ReopenedWhole, Visible, WholeBundle
<1>2. Transfer!Accept
  BY <1>1 DEF Transfer!Accept, Verdict
<1> QED
  BY <1>2 DEF Transfer!Next

(* The rename is the one step that shows anything, and it shows every plane. *)
LEMMA Installs ==
  ASSUME SessionInv, PublishRename
  PROVE  Transfer!Next
<1>1. pc = "rename" /\ pc' \in {"reopen", "cleanup"} /\ final' = staging
  BY DEF PublishRename, Goto, FailWith
<1>2. staging.planes = 1 .. Frames /\ final.planes = {}
  BY <1>1 DEF SessionInv, StagedToCursor, HiddenBefore, Publishing
<1>3. Transfer!Install
  BY <1>1, <1>2 DEF Transfer!Install, Verdict
<1> QED
  BY <1>3 DEF Transfer!Next

(* Streaming is silent: a step of the session shows and tells nothing. *)
LEMMA StreamMaps ==
  ASSUME SessionNext
  PROVE  UNCHANGED Transfer!vars
<1> USE DEF SessionStep, Goto, FailWith, Fails, disk, Told
<1>1. ASSUME CheckFails PROVE UNCHANGED Transfer!vars
  BY <1>1, Quiet DEF CheckFails, Checks
<1>2. ASSUME CheckPasses PROVE UNCHANGED Transfer!vars
  BY <1>2, Quiet DEF CheckPasses
<1>3. ASSUME ReceiveBegin PROVE UNCHANGED Transfer!vars
  <2>1. pc = "first" /\ final' = final
    BY <1>3 DEF ReceiveBegin, BeginTransfer, BeginFails
  <2>2. pc' \in {"loop", "header", "cleanup"}
    BY <1>3 DEF ReceiveBegin, BeginTransfer, BeginFails
  <2> QED
    BY <2>1, <2>2, Quiet
<1>4. ASSUME SessionReadFails PROVE UNCHANGED Transfer!vars
  BY <1>4, Quiet DEF SessionReadFails
<1>5. ASSUME LoopCheck \/ DrainDone \/ SessionAcquire PROVE UNCHANGED Transfer!vars
  BY <1>5, Quiet DEF LoopCheck, DrainDone, SessionAcquire
<1>6. ASSUME ReceiveEvent PROVE UNCHANGED Transfer!vars
  BY <1>6, Quiet DEF ReceiveEvent
<1>7. ASSUME DrainOne PROVE UNCHANGED Transfer!vars
  <2>1. pc = "drain" /\ final' = final /\ pc' \in {"drain", "cleanup"}
    BY <1>7 DEF DrainOne, IngestFails
  <2> QED
    BY <2>1, Quiet
<1>8. ASSUME SessionHeader PROVE UNCHANGED Transfer!vars
  BY <1>8, Quiet DEF SessionHeader
<1>9. ASSUME SessionPayload PROVE UNCHANGED Transfer!vars
  <2>1. pc = "payload" /\ final' = final /\ pc' \in {"header", "cleanup"}
    BY <1>9 DEF SessionPayload, IngestFails
  <2> QED
    BY <2>1, Quiet
<1>10. ASSUME SessionPayloadInterrupted PROVE UNCHANGED Transfer!vars
  BY <1>10, Quiet DEF SessionPayloadInterrupted
<1> QED
  BY <1>1, <1>2, <1>3, <1>4, <1>5, <1>6, <1>7, <1>8, <1>9, <1>10 DEF SessionNext

LEMMA AcceptMaps ==
  ASSUME AcceptNext
  PROVE  [Transfer!Next]_(Transfer!vars)
<1> USE DEF AcceptStep, Goto, disk, Told
<1>1. final' = final /\ pc \in Accepting /\ pc' \in Accepting \cup {"begin", "unarmed"}
  BY DEF AcceptNext, AcceptConnection, AcceptRefused, RegisterSocket, RegisterChecked,
         PrepareRejected, PrepareConnection, Accepting
<1>2. pc \notin Told /\ (pc' \notin Told \/ pc' = "unarmed")
  BY <1>1 DEF Accepting
<1> QED
  BY <1>1, <1>2, Quiet, Refuses

LEMMA PublishMaps ==
  ASSUME SessionInv, PublishNext
  PROVE  [Transfer!Next]_(Transfer!vars)
<1> USE DEF SealStep, Goto, FailWith, disk, Told
<1>1. CASE IoFails({"seal", "promote", "ready", "rename", "reopen"})
  BY <1>1, Quiet DEF IoFails
<1>2. CASE VerifySeal \/ SealRefused \/ SinkPromotes \/ PublishReady
  BY <1>2, Quiet DEF VerifySeal, SealRefused, SinkPromotes, PublishReady
<1>3. CASE PublishRename
  BY <1>3, Installs
<1>4. CASE ReopenBundle \/ WriteAck
  BY <1>4, Quiet DEF ReopenBundle, WriteAck
<1>5. CASE Finish
  <2>1. pc = "finish" /\ pc' \in {"joinAux", "published"} /\ final' = final
    BY <1>5 DEF Finish
  <2> QED
    BY <2>1, Quiet, Accepts
<1> QED
  BY <1>1, <1>2, <1>3, <1>4, <1>5 DEF PublishNext

LEMMA EndMaps ==
  ASSUME SessionInv, EndNext
  PROVE  [Transfer!Next]_(Transfer!vars)
<1> USE DEF Goto, disk, Told
<1>1. CASE CleanupSprayed
  BY <1>1, Quiet DEF CleanupSprayed
<1>2. CASE AbortSession
  BY <1>2, Refuses DEF AbortSession
<1>3. CASE JoinAux
  BY <1>3, Accepts DEF JoinAux
<1> QED
  BY <1>1, <1>2, <1>3 DEF EndNext

(* The receive of protocol v1 implements the abstract transfer: the bundle appears
   whole, in the rename, at most once; success is only told with the bundle visible;
   a transfer refused before the rename never appears. *)
THEOREM ImplementsTransferV1 == Spec => RefinesTransfer
<1>1. Init => Transfer!Init
  BY DEF Init, Start, Absent, Verdict, Transfer!Init
<1>2. ASSUME SessionInv, [Next]_vars PROVE [Transfer!Next]_(Transfer!vars)
  <2>1. CASE Outside
    BY <1>2, <2>1, OutsideLeaves, Quiet
  <2>2. CASE Crash
    BY <2>2, Quiet DEF Crash, Goto, disk, Ended, Told
  <2> QED
    BY <1>2, <2>1, <2>2, NextSplits, AcceptMaps, StreamMaps, PublishMaps, EndMaps
<1> QED
  BY <1>1, <1>2, SessionInvariant, PTL DEF Spec, RefinesTransfer, Transfer!Spec

-----------------------------------------------------------------------------
(* An honest single stream.  The frames still on the wire are the ones that are due
   after those read, so no test of the receiver can fail: the header, the plane and
   the seal are the expected ones, the pair cursor is empty at the seal, and the
   bundle that is renamed is whole. *)
FrameRecords == [kind : STRING, seq : Nat, role : {"K", "V"}, ok : BOOLEAN]

(* The n-th frame of an honest script. *)
Due(f, n) ==
    /\ f \in FrameRecords /\ f.ok
    /\ n = 1 => f.kind = "BEGIN"
    /\ n = Frames + 2 => f.kind = "SEAL"
    /\ n \in 2 .. Frames + 1 =>
         f.kind = "LAYER" /\ f.seq = n - 1 /\ f.role = Walk[n - 1].role

(* k frames have been read. *)
Rest(k) ==
    /\ wire[0] \in Seq(FrameRecords)
    /\ Len(wire[0]) = Frames + 2 - k
    /\ \A i \in 1 .. Len(wire[0]) : Due(wire[0][i], k + i)

(* The coordinator holds a K plane only while its V plane is due. *)
PendingKey ==
    pending => verified > 0 /\ Walk[verified].role = "K" /\ ~IsSingleRole(Begin, verified)

HonestLine ==
    /\ DOMAIN wire = {0} /\ DOMAIN rd = {0} /\ DOMAIN rd[0] = {"at", "frame"}
    /\ shut = {} /\ closing = FALSE

HonestPlaces ==
    pc \in Starting \cup {"header", "read", "acquire", "payload", "seal", "promote", "ready",
                          "rename", "reopen", "ack", "finish", "published"}

HonestCursor ==
    /\ pc \in Starting => Rest(0) /\ ~pending
    /\ pc \in {"header", "read"} => Rest(verified + 1) /\ verified <= Frames /\ PendingKey
    /\ pc \in {"acquire", "payload"} =>
         /\ Rest(verified + 2) /\ verified < Frames /\ PendingKey
         /\ Due(rd[0].frame, verified + 2)
    /\ pc = "seal" => sealed.ok /\ verified = Frames /\ ~pending

HonestMarks ==
    /\ pc \in {"header", "read", "acquire", "payload", "seal"} => "begin" \in staging.marks
    /\ pc \in {"promote", "ready"} => {"begin", "seal"} \subseteq staging.marks
    /\ pc = "rename" => {"begin", "seal", "READY"} \subseteq staging.marks
    /\ pc = "reopen" => WholeBundle

Honest == HonestLine /\ HonestPlaces /\ HonestCursor /\ HonestMarks

Excused == Interrupted \/ faults > 0

HonestOrExcused == faults \in Nat /\ (Excused \/ Honest)

(* The last plane of the walk completes its layer. *)
EndsComplete ==
    /\ Frames \in Nat
    /\ Frames > 0 => Walk[Frames].role # "K" \/ IsSingleRole(Begin, Frames)

(* An excuse stays one. *)
LEMMA ExcusesStay ==
  ASSUME [Next]_vars
  PROVE  /\ faults' = faults \/ faults' = faults + 1
         /\ reason # "none" => reason' = reason
<1> USE DEF SessionStep, SealStep, Fault, Goto, FailWith, Fails, net, pool, recv, disk
<1>1. CASE Outside
  <2>1. CASE Cancel \/ DeadlineFires \/ ShutdownSockets
    BY <2>1 DEF Cancel, DeadlineFires, ShutdownSockets, Interrupt
  <2>2. CASE \E s \in Streams : ConnectionBreaks(s)
    BY <2>2 DEF ConnectionBreaks
  <2>3. CASE \E s \in Streams : ReaderNext(s)
    <3>1. ReaderStep
      BY <2>3 DEF ReaderNext, ReadHeader, AcquirePermit, ReadPayload, ReadFails
    <3> QED
      BY <3>1 DEF ReaderStep
  <2>4. CASE SinkConsumes
    BY <2>4 DEF SinkConsumes
  <2>5. CASE UNCHANGED vars
    BY <2>5 DEF vars
  <2> QED
    BY <1>1, <2>1, <2>2, <2>3, <2>4, <2>5 DEF Outside
<1>2. CASE AcceptNext
  BY <1>2 DEF AcceptNext, AcceptStep, AcceptConnection, AcceptRefused, RegisterSocket,
     RegisterChecked, PrepareRejected, PrepareConnection
<1>3. CASE SessionNext
  <2>1. UNCHANGED reason
    BY <1>3 DEF SessionNext, CheckFails, CheckPasses, ReceiveBegin, SessionReadFails, LoopCheck,
       ReceiveEvent, DrainOne, DrainDone, SessionHeader, SessionAcquire, SessionPayload,
       SessionPayloadInterrupted
  <2>2. ASSUME NEW f, IngestPlane(f) \/ IngestFails(f)
        PROVE  faults' = faults \/ faults' = faults + 1
    BY <2>2 DEF IngestPlane, IngestFails
  <2>3. ASSUME NEW f, BeginTransfer(f) \/ BeginFails(f)
        PROVE  faults' = faults \/ faults' = faults + 1
    BY <2>3 DEF BeginTransfer, BeginFails
  <2>4. CASE ReceiveBegin
    BY <2>3, <2>4 DEF ReceiveBegin
  <2>5. CASE DrainOne \/ SessionPayload
    BY <2>2, <2>5 DEF DrainOne, SessionPayload
  <2>6. CASE ~(ReceiveBegin \/ DrainOne \/ SessionPayload)
    BY <1>3, <2>6 DEF SessionNext, CheckFails, CheckPasses, SessionReadFails, LoopCheck,
       ReceiveEvent, DrainDone, SessionHeader, SessionAcquire, SessionPayloadInterrupted
  <2> QED
    BY <2>1, <2>4, <2>5, <2>6
<1>4. CASE PublishNext
  BY <1>4 DEF PublishNext, IoFails, VerifySeal, SealRefused, SinkPromotes, PublishReady,
     PublishRename, ReopenBundle, WriteAck, Finish
<1>5. CASE EndNext
  BY <1>5 DEF EndNext, CleanupSprayed, AbortSession, JoinAux
<1>6. CASE Crash
  BY <1>6 DEF Crash
<1> QED
  BY <1>1, <1>2, <1>3, <1>4, <1>5, <1>6, NextSplits

(* Reading a frame takes the one that is due. *)
LEMMA RestTail ==
  ASSUME Frames \in Nat, NEW k \in Nat, k < Frames + 2, Rest(k), 0 \in DOMAIN wire,
         wire' = [wire EXCEPT ![0] = Tail(@)]
  PROVE  Due(Head(wire[0]), k + 1) /\ Rest(k + 1)'
<1> DEFINE s == wire[0]
<1>1. /\ s \in Seq(FrameRecords) /\ Len(s) = Frames + 2 - k /\ Len(s) \in Nat \ {0}
      /\ \A i \in 1 .. Len(s) : Due(s[i], k + i)
  BY DEF Rest
<1>2. wire'[0] = Tail(s)
  OBVIOUS
<1> HIDE DEF s
<1>3. /\ Head(s) = s[1] /\ Tail(s) \in Seq(FrameRecords) /\ Len(Tail(s)) = Len(s) - 1
      /\ \A i \in 1 .. Len(s) - 1 : Tail(s)[i] = s[i + 1] /\ i + 1 \in 1 .. Len(s)
  BY <1>1
<1>4. \A i \in 1 .. Len(Tail(s)) : Due(Tail(s)[i], (k + 1) + i)
  <2>1. TAKE i \in 1 .. Len(Tail(s))
  <2>2. Tail(s)[i] = s[i + 1] /\ i + 1 \in 1 .. Len(s) /\ k + (i + 1) = (k + 1) + i
    BY <1>1, <1>3
  <2> QED
    BY <1>1, <2>2
<1>5. Due(Head(s), k + 1)
  <2>1. 1 \in 1 .. Len(s)
    BY <1>1
  <2> QED
    BY <1>1, <1>3, <2>1
<1>6. Len(Tail(s)) = Frames + 2 - (k + 1)
  BY <1>1, <1>3
<1> QED
  BY <1>2, <1>3, <1>4, <1>5, <1>6 DEF Rest, s

(* Nothing the argument is about changes, or the receive moves on before the BEGIN. *)
LEMMA HonestStays ==
  ASSUME Honest,
         UNCHANGED <<wire, rd, shut, closing, pc, sealed, verified, pending, staging, final>>
  PROVE  Honest'
<1>1. HonestLine' /\ HonestPlaces' /\ HonestMarks'
  BY DEF Honest, HonestLine, HonestPlaces, HonestMarks, WholeBundle
<1>2. HonestCursor'
  BY DEF Honest, HonestCursor, Rest, PendingKey
<1> QED
  BY <1>1, <1>2 DEF Honest

LEMMA HonestStarts ==
  ASSUME Honest, pc \in Starting, pc' \in Starting, HonestLine',
         UNCHANGED <<wire, pending>>
  PROVE  Honest'
<1>1. HonestPlaces' /\ HonestMarks'
  BY DEF HonestPlaces, HonestMarks, Starting, Accepting
<1>2. HonestCursor'
  BY DEF Honest, HonestCursor, Rest, Starting, Accepting
<1> QED
  BY <1>1, <1>2 DEF Honest

LEMMA OutsideHonest ==
  ASSUME Honest, reason' = "none", reason = "none", faults = 0, faults' = 0, Outside
  PROVE  Honest'
<1> USE DEF net, pool, recv, disk
<1>1. CASE Cancel \/ DeadlineFires
  BY <1>1 DEF Cancel, DeadlineFires, Interrupt
<1>2. CASE ShutdownSockets
  BY <1>2 DEF ShutdownSockets, Honest, HonestLine
<1>3. CASE \E s \in Streams : ConnectionBreaks(s)
  BY <1>3 DEF ConnectionBreaks, Fault
<1>4. CASE \E s \in Streams : ReaderNext(s)
  <2>1. Sprayed
    BY <1>4 DEF ReaderNext, ReadHeader, AcquirePermit, ReadPayload, ReadFails, Reads
  <2> QED
    BY <2>1 DEF Sprayed, Streams, Honest, HonestLine
<1>5. CASE SinkConsumes
  BY <1>5, HonestStays DEF SinkConsumes
<1>6. CASE UNCHANGED vars
  BY <1>6, HonestStays DEF vars
<1> QED
  BY <1>1, <1>2, <1>3, <1>4, <1>5, <1>6 DEF Outside

LEMMA AcceptHonest ==
  ASSUME Honest, reason = "none", faults = 0, faults' = 0, AcceptNext
  PROVE  Honest'
<1> USE DEF AcceptStep, Goto, pool, recv, disk
<1>1. CASE AcceptConnection \/ RegisterSocket \/ RegisterChecked
  <2>1. pc \in Starting /\ pc' \in Starting /\ UNCHANGED <<wire, rd, shut, closing, pending>>
    BY <1>1 DEF AcceptConnection, RegisterSocket, RegisterChecked, Starting, Accepting
  <2>2. HonestLine'
    BY <2>1 DEF Honest, HonestLine
  <2> QED
    BY <2>1, <2>2, HonestStarts
<1>2. CASE AcceptRefused
  BY <1>2 DEF AcceptRefused, Interrupted
<1>3. CASE PrepareRejected
  BY <1>3 DEF PrepareRejected, Fault, Honest, HonestLine
<1>4. CASE PrepareConnection
  <2>1. /\ pc \in Starting /\ pc' \in Starting /\ UNCHANGED <<wire, shut, closing, pending>>
        /\ rd' = [rd EXCEPT ![Incoming].at = "header"]
    BY <1>4 DEF PrepareConnection, Starting, Accepting
  <2>2. HonestLine'
    BY <2>1 DEF Honest, HonestLine
  <2> QED
    BY <2>1, <2>2, HonestStarts
<1> QED
  BY <1>1, <1>2, <1>3, <1>4 DEF AcceptNext

(* The BEGIN. *)
LEMMA BeginHonest ==
  ASSUME SessionInv, EndsComplete, Honest, reason = "none", faults = 0, faults' = 0, ReceiveBegin
  PROVE  Honest'
<1> USE DEF SessionStep, Goto
<1>0. Frames \in Nat /\ ~Sprayed /\ 0 \in DOMAIN wire
  BY DEF EndsComplete, Sprayed, Streams, Honest, HonestLine
<1> DEFINE f == Head(wire[0])
<1>1. /\ pc = "first" /\ UNCHANGED <<shut, closing, rd>> /\ wire' = [wire EXCEPT ![0] = Tail(@)]
      /\ BeginTransfer(f) \/ BeginFails([f EXCEPT !.role = "V"])
  BY <1>0 DEF ReceiveBegin, Interrupted
<1>2. Rest(0) /\ ~pending /\ verified = 0 /\ SessionInv
  BY <1>1 DEF Honest, HonestCursor, SessionInv, StagedToCursor, Starting
<1>3. Due(f, 1) /\ Rest(1)'
  <2>1. Due(f, 0 + 1) /\ Rest(0 + 1)'
    <3>1. 0 \in Nat /\ 0 < Frames + 2
      BY <1>0
    <3> HIDE DEF f
    <3> QED
      BY <1>0, <1>1, <1>2, <3>1, RestTail DEF f
  <2>2. 0 + 1 = 1
    OBVIOUS
  <2> QED
    BY <2>1, <2>2
<1> HIDE DEF f
<1>4. BeginTransfer(f)
  <2>1. BeginMatches([f EXCEPT !.role = "V"])
    BY <1>3 DEF Due, FrameRecords, BeginMatches
  <2>2. BeginFails([f EXCEPT !.role = "V"]) => faults' = faults + 1
    BY <2>1 DEF BeginFails, Fault
  <2> QED
    BY <1>1, <2>2
<1>5. /\ pc' = "header" /\ UNCHANGED <<verified, pending>>
      /\ staging' = [planes |-> {}, marks |-> {"begin"}]
  BY <1>0, <1>4 DEF BeginTransfer
<1>6. HonestLine'
  BY <1>0, <1>1 DEF Honest, HonestLine
<1>7. HonestPlaces' /\ HonestMarks'
  BY <1>5 DEF HonestPlaces, HonestMarks
<1>8. HonestCursor'
  <2>1. Rest(verified + 1)'
    BY <1>2, <1>3, <1>5 DEF Rest
  <2> QED
    BY <1>0, <1>2, <1>5, <2>1 DEF HonestCursor, PendingKey, Starting, Accepting
<1> QED
  BY <1>6, <1>7, <1>8 DEF Honest

(* A header is the one that is due, and after the last plane it is the seal. *)
LEMMA HeaderHonest ==
  ASSUME SessionInv, EndsComplete, Honest, reason = "none", SessionHeader
  PROVE  Honest'
<1> USE DEF SessionStep, Goto, FailWith, disk
<1> DEFINE f == Head(wire[0])
<1>0. /\ Frames \in Nat /\ 0 \in DOMAIN wire /\ verified \in Nat
      /\ pc = "read" /\ Rest(verified + 1) /\ verified <= Frames /\ PendingKey
      /\ "begin" \in staging.marks
  BY DEF EndsComplete, Honest, HonestLine, HonestCursor, HonestMarks, SessionInv, Shape,
     SessionHeader
<1>1. /\ wire' = [wire EXCEPT ![0] = Tail(@)]
      /\ UNCHANGED <<shut, closing, verified, pending, staging, final>>
  BY DEF SessionHeader
<1>2. PICK k \in Nat : k = verified + 1
  BY <1>0
<1>3. Due(f, k + 1) /\ Rest(k + 1)'
  <2>1. k < Frames + 2 /\ Rest(k)
    BY <1>0, <1>2
  <2> HIDE DEF f
  <2> QED
    BY <1>0, <1>1, <2>1, RestTail DEF f
<1>4. HonestLine' <=> DOMAIN rd' = {0} /\ DOMAIN rd'[0] = {"at", "frame"}
  BY <1>0, <1>1 DEF Honest, HonestLine
<1>5. \/ /\ verified < Frames /\ f.kind = "LAYER" /\ HeaderDue(f)
         /\ rd' = [rd EXCEPT ![0].frame = f] /\ pc' \in {"acquire", "payload"}
      \/ verified = Frames /\ f.kind = "SEAL" /\ sealed' = f /\ pc' = "seal" /\ UNCHANGED rd
      \/ verified = Frames /\ f.kind # "SEAL"
      \/ verified < Frames /\ ~(f.kind = "LAYER" /\ HeaderDue(f))
  BY DEF SessionHeader, Interrupted
<1> HIDE DEF f
<1>6. CASE verified < Frames
  <2>1. f.kind = "LAYER" /\ HeaderDue(f) /\ k + 1 = verified + 2
    <3>1. k + 1 \in 2 .. Frames + 1 /\ (k + 1) - 1 = verified + 1 /\ k + 1 = verified + 2
      BY <1>0, <1>2, <1>6
    <3>2. f.kind = "LAYER" /\ f.seq = verified + 1 /\ f.role = Walk[verified + 1].role
      BY <1>3, <3>1 DEF Due
    <3> QED
      BY <1>0, <1>6, <3>1, <3>2 DEF HeaderDue
  <2>2. rd' = [rd EXCEPT ![0].frame = f] /\ pc' \in {"acquire", "payload"}
    BY <1>0, <1>5, <1>6, <2>1
  <2>3. /\ DOMAIN rd' = {0} /\ DOMAIN rd'[0] = {"at", "frame"} /\ rd'[0].frame = f
    BY <2>2 DEF Honest, HonestLine
  <2>4. HonestPlaces' /\ HonestMarks'
    BY <1>0, <1>1, <2>2 DEF HonestPlaces, HonestMarks
  <2>5. Rest(verified + 2)' /\ Due(rd[0].frame, verified + 2)'
    BY <1>1, <1>3, <2>1, <2>3 DEF Rest
  <2>6. HonestCursor'
    BY <1>0, <1>1, <1>6, <2>2, <2>5 DEF HonestCursor, PendingKey, Starting, Accepting
  <2> QED
    BY <1>4, <2>3, <2>4, <2>6 DEF Honest
<1>7. CASE verified = Frames
  <2>1. f.kind = "SEAL" /\ f.ok
    <3>1. k + 1 = Frames + 2
      BY <1>0, <1>2, <1>7
    <3> QED
      BY <1>3, <3>1 DEF Due
  <2>2. sealed' = f /\ pc' = "seal" /\ UNCHANGED rd
    BY <1>0, <1>5, <1>7, <2>1
  <2>3. ~pending
    BY <1>0, <1>7 DEF PendingKey, EndsComplete
  <2>4. HonestPlaces' /\ HonestMarks'
    BY <1>0, <1>1, <2>2 DEF HonestPlaces, HonestMarks
  <2>5. HonestCursor'
    BY <1>1, <1>7, <2>1, <2>2, <2>3 DEF HonestCursor, Starting, Accepting
  <2> QED
    BY <1>4, <2>2, <2>4, <2>5 DEF Honest, HonestLine
<1> QED
  BY <1>0, <1>6, <1>7

(* A plane whose header was due verifies. *)
LEMMA PayloadHonest ==
  ASSUME SessionInv, EndsComplete, Honest, faults = 0, faults' = 0, SessionPayload
  PROVE  Honest'
<1> USE DEF SessionStep, Goto
<1> DEFINE f == rd[0].frame
<1>0. /\ Frames \in Nat /\ verified \in Nat /\ pc = "payload" /\ Rest(verified + 2)
      /\ verified < Frames /\ Due(f, verified + 2) /\ "begin" \in staging.marks
      /\ staging \in Bundles
  BY DEF EndsComplete, Honest, HonestCursor, HonestMarks, SessionInv, Shape, SessionPayload
<1>1. /\ UNCHANGED <<wire, shut, rd, closing>>
      /\ (IngestPlane(f) /\ pc' = "header") \/ IngestFails(f)
  BY DEF SessionPayload
<1> HIDE DEF f
<1>2. PlaneVerifies(f) /\ f.seq = verified + 1
  <2>1. verified + 2 \in 2 .. Frames + 1 /\ (verified + 2) - 1 = verified + 1
    BY <1>0
  <2>2. f.ok /\ f.seq = verified + 1 /\ f.role = Walk[verified + 1].role
    BY <1>0, <2>1 DEF Due
  <2> QED
    BY <1>0, <2>2 DEF PlaneVerifies, HeaderDue
<1>3. IngestPlane(f) /\ pc' = "header"
  <2>1. IngestFails(f) => faults' = faults + 1
    BY <1>2 DEF IngestFails, Fault
  <2> QED
    BY <1>1, <2>1
<1>4. /\ verified' = verified + 1 /\ pending' = (f.role = "K" /\ ~IsSingleRole(Begin, f.seq))
      /\ staging' = [staging EXCEPT !.planes = @ \cup {f.seq}]
  BY <1>3 DEF IngestPlane, StagePlane
<1>5. "begin" \in staging'.marks
  BY <1>0, <1>4 DEF Bundles
<1>6. HonestLine' /\ HonestPlaces' /\ HonestMarks'
  BY <1>1, <1>3, <1>5 DEF Honest, HonestLine, HonestPlaces, HonestMarks
<1>7. PendingKey'
  <2>1. f.role = Walk[verified'].role /\ f.seq = verified' /\ verified' > 0
    BY <1>0, <1>2, <1>4 DEF PlaneVerifies, HeaderDue
  <2> QED
    BY <1>4, <2>1 DEF PendingKey
<1>8. Rest(verified + 1)'
  <2>1. verified' + 1 = verified + 2
    BY <1>0, <1>4
  <2> QED
    BY <1>0, <1>1, <2>1 DEF Rest
<1>9. HonestCursor'
  BY <1>0, <1>3, <1>4, <1>7, <1>8 DEF HonestCursor, Starting, Accepting
<1> QED
  BY <1>6, <1>9 DEF Honest

LEMMA SessionHonest ==
  ASSUME SessionInv, EndsComplete, Honest, reason = "none", faults = 0, faults' = 0, SessionNext
  PROVE  Honest'
<1> USE DEF SessionStep, Goto, recv, pool, disk
<1>0. ~Interrupted /\ ~Sprayed /\ 0 \notin shut /\ pc \notin {"loop", "recv", "drain"}
  BY DEF Interrupted, Sprayed, Streams, Honest, HonestLine, HonestPlaces, Starting, Accepting
<1>1. CASE CheckPasses
  <2>1. /\ UNCHANGED <<wire, rd, shut, closing, sealed, verified, pending, staging, final>>
        /\ \/ pc = "begin" /\ pc' = "first"
           \/ pc = "header" /\ pc' = "read"
    BY <1>1 DEF CheckPasses
  <2>2. HonestLine'
    BY <2>1 DEF Honest, HonestLine
  <2>3. CASE pc = "begin" /\ pc' = "first"
    BY <2>1, <2>2, <2>3, HonestStarts DEF Starting
  <2>4. CASE pc = "header" /\ pc' = "read"
    <3>1. HonestPlaces' /\ HonestMarks'
      BY <2>1, <2>4 DEF Honest, HonestPlaces, HonestMarks
    <3>2. HonestCursor'
      BY <2>1, <2>4 DEF Honest, HonestCursor, Rest, PendingKey, Starting, Accepting
    <3> QED
      BY <2>2, <3>1, <3>2 DEF Honest
  <2> QED
    BY <2>1, <2>3, <2>4
<1>2. CASE SessionAcquire
  <2>1. /\ UNCHANGED <<wire, rd, shut, closing, sealed, verified, pending, staging, final>>
        /\ pc = "acquire" /\ pc' = "payload"
    BY <1>2 DEF SessionAcquire
  <2>2. HonestLine' /\ HonestPlaces' /\ HonestMarks'
    BY <2>1 DEF Honest, HonestLine, HonestPlaces, HonestMarks
  <2>3. HonestCursor'
    BY <2>1 DEF Honest, HonestCursor, Rest, PendingKey, Starting, Accepting
  <2> QED
    BY <2>2, <2>3 DEF Honest
<1>3. ~(CheckFails \/ SessionReadFails \/ LoopCheck \/ ReceiveEvent \/ DrainOne \/ DrainDone
        \/ SessionPayloadInterrupted)
  BY <1>0 DEF CheckFails, SessionReadFails, LoopCheck, ReceiveEvent, DrainOne, DrainDone,
     SessionPayloadInterrupted
<1> QED
  BY <1>1, <1>2, <1>3, BeginHonest, HeaderHonest, PayloadHonest DEF SessionNext

(* From the seal on the steps of the publication follow one another. *)
LEMMA PublishHonest ==
  ASSUME SessionInv, Honest, reason = "none", faults = 0, faults' = 0, PublishNext
  PROVE  Honest'
<1> USE DEF SealStep, SessionStep, Goto, FailWith, recv, pool, disk
<1>0. /\ ~Sprayed /\ 0 \notin shut /\ staging \in Bundles
      /\ pc = "seal" => sealed.ok /\ verified = Frames /\ ~pending
  BY DEF Sprayed, Streams, Honest, HonestLine, HonestCursor, SessionInv, Shape
<1>1. ~IoFails({"seal", "promote", "ready", "rename", "reopen"}) /\ ~SealRefused
  BY <1>0 DEF IoFails, Fault, SealRefused, StreamSealed, SealVerifies
<1>2. PublishNext => UNCHANGED <<wire, rd, closing>> /\ (Finish \/ UNCHANGED shut)
  BY <1>1 DEF PublishNext, VerifySeal, SinkPromotes, PublishReady, PublishRename, ReopenBundle,
     WriteAck, Finish
<1>3. UNCHANGED shut
  BY <1>0, <1>2 DEF Finish
<1>4. HonestLine'
  BY <1>2, <1>3 DEF Honest, HonestLine
<1>5. HonestPlaces' /\ HonestMarks' /\ pc' \in Publishing \cup {"reopen", "ack", "finish", "published"}
  <2> USE DEF HonestPlaces, HonestMarks, Publishing
  <2>1. CASE VerifySeal
    <3>1. /\ pc = "seal" /\ pc' = "promote"
          /\ staging' = [staging EXCEPT !.marks = @ \cup {"seal"}]
      BY <2>1 DEF VerifySeal, WritePreparedSeal
    <3>2. staging'.marks = staging.marks \cup {"seal"}
      BY <1>0, <3>1 DEF Bundles
    <3> QED
      BY <3>1, <3>2 DEF Honest
  <2>2. CASE SinkPromotes
    BY <2>2 DEF SinkPromotes, Honest
  <2>3. CASE PublishReady
    <3>1. /\ pc = "ready" /\ pc' = "rename"
          /\ staging' = [staging EXCEPT !.marks = @ \cup {"READY"}]
      BY <2>3 DEF PublishReady
    <3>2. staging'.marks = staging.marks \cup {"READY"}
      BY <1>0, <3>1 DEF Bundles
    <3> QED
      BY <3>1, <3>2 DEF Honest
  <2>4. CASE PublishRename
    <3>1. pc = "rename" /\ pc' = "reopen" /\ final' = staging
      BY <2>4 DEF PublishRename, Fault
    <3>2. staging.planes = 1 .. Frames
      BY <3>1 DEF SessionInv, StagedToCursor
    <3> QED
      BY <3>1, <3>2 DEF Honest, WholeBundle
  <2>5. CASE ReopenBundle
    BY <2>5 DEF ReopenBundle, Honest, WholeBundle
  <2>6. CASE WriteAck
    BY <1>0, <2>6 DEF WriteAck
  <2>7. CASE Finish
    BY <1>0, <2>7 DEF Finish
  <2> QED
    BY <1>1, <2>1, <2>2, <2>3, <2>4, <2>5, <2>6, <2>7 DEF PublishNext
<1>6. HonestCursor'
  BY <1>5 DEF HonestCursor, Publishing, Starting, Accepting
<1> QED
  BY <1>4, <1>5, <1>6 DEF Honest

LEMMA HonestStep ==
  ASSUME SessionInv, EndsComplete, HonestOrExcused, [Next]_vars
  PROVE  HonestOrExcused'
<1>1. faults' \in Nat /\ (faults > 0 => faults' > 0) /\ (Interrupted => Interrupted')
  BY ExcusesStay DEF HonestOrExcused, Interrupted
<1> SUFFICES ASSUME ~Excused' PROVE Honest'
  BY <1>1 DEF HonestOrExcused
<1>2. Honest /\ reason = "none" /\ faults = 0 /\ reason' = "none" /\ faults' = 0
  BY <1>1 DEF HonestOrExcused, Excused, Interrupted
<1>3. ~EndNext
  BY <1>2 DEF EndNext, CleanupSprayed, AbortSession, JoinAux, Honest, HonestPlaces, Starting,
     Accepting
<1>4. ~Crash
  BY <1>2 DEF Crash, Fault
<1> QED
  BY <1>2, <1>3, <1>4, NextSplits, OutsideHonest, AcceptHonest, SessionHonest, PublishHonest

-----------------------------------------------------------------------------
(* The walk of a begin, for every begin that has the type of the wire. *)

PlaneRecords == [class : Nat, layer : Nat, role : {"K", "V"}]
Plane(i, l, r) == [class |-> i, layer |-> l, role |-> r]

(* A set of numbers in ascending order lists it. *)
LEMMA AscendingLists ==
  ASSUME NEW S \in SUBSET Nat, IsFiniteSet(S)
  PROVE  Lists(S, Ascending(S)) /\ Len(Ascending(S)) = Cardinality(S)
<1> DEFINE N == Cardinality(S)
           f == [x \in S |-> Rank(S, x) + 1]
           q == Ascending(S)
<1>0. N \in Nat /\ IsFiniteSet(1 .. N) /\ Cardinality(1 .. N) = N
  <2>1. N \in Nat
    BY FS_CardinalityType
  <2> HIDE DEF N
  <2> QED
    BY <2>1, FS_Interval
<1>1. /\ \A x \in S : Rank(S, x) \in Nat /\ Rank(S, x) < N
      /\ \A x, z \in S : Rank(S, x) = Rank(S, z) => x = z
  BY RankFacts
<1>6. q = [n \in 1 .. N |-> CHOOSE x \in S : Rank(S, x) = n - 1]
  BY DEF Ascending, Rank, Below
<1>f. IsFiniteSet(S) /\ Cardinality(S) = N
  OBVIOUS
<1> HIDE DEF q, N
<1>4. f \in Injection(S, 1 .. N)
  <2>1. \A x \in S : f[x] \in 1 .. N
    BY <1>0, <1>1
  <2>2. ASSUME NEW x \in S, NEW z \in S, f[x] = f[z] PROVE x = z
    <3>1. Rank(S, x) = Rank(S, z)
      BY <1>1, <2>2
    <3> QED
      BY <1>1, <3>1, Zenon
  <2>3. f \in [S -> 1 .. N]
    BY <2>1
  <2> HIDE DEF f
  <2> QED
    BY <2>2, <2>3 DEF Injection, IsInjective
<1>5. \A n \in 1 .. N : \E x \in S : Rank(S, x) = n - 1
  <2>2. f \in Surjection(S, 1 .. N)
    <3> HIDE DEF f
    <3> QED
      BY <1>0, <1>f, <1>4, FS_Injection
  <2>3. \A n \in 1 .. N : \E x \in S : f[x] = n
    <3> HIDE DEF f
    <3> QED
      BY <2>2 DEF Surjection
  <2>4. \A x \in S : f[x] = Rank(S, x) + 1
    OBVIOUS
  <2> HIDE DEF f
  <2> TAKE n \in 1 .. N
  <2>5. PICK x \in S : f[x] = n
    BY <2>3
  <2>6. Rank(S, x) \in Nat /\ n = Rank(S, x) + 1
    BY <1>1, <2>4, <2>5
  <2>7. Rank(S, x) = n - 1
    BY <2>6
  <2> QED
    BY <2>7
<1>7. \A n \in 1 .. N : q[n] \in S /\ Rank(S, q[n]) = n - 1
  BY <1>5, <1>6
<1>8. q \in Seq(S) /\ Len(q) = N
  BY <1>0, <1>6, <1>7
<1>9. ASSUME NEW x \in S PROVE \E n \in 1 .. N : q[n] = x
  <2> DEFINE n == Rank(S, x) + 1
  <2>1. n \in 1 .. N /\ n - 1 = Rank(S, x)
    BY <1>0, <1>1
  <2> HIDE DEF n
  <2>2. q[n] \in S /\ Rank(S, q[n]) = Rank(S, x)
    BY <1>7, <2>1
  <2>3. q[n] = x
    BY <1>1, <2>2, Zenon
  <2> QED
    BY <2>1, <2>3
<1>10. ASSUME NEW m \in 1 .. N, NEW n \in 1 .. N, q[m] = q[n] PROVE m = n
  <2>1. m - 1 = n - 1
    BY <1>7, <1>10
  <2> QED
    BY <1>0, <2>1
<1>11. Lists(S, q)
  BY <1>8, <1>9, <1>10 DEF Lists
<1> QED
  BY <1>8, <1>11 DEF q, N

(* The schedule names every class once. *)
LEMMA OrderLists ==
  ASSUME NEW b, b.table \in Seq(LayoutClasses)
  PROVE  /\ Lists(1 .. Len(b.table), ScheduleClassOrder(b))
         /\ Len(ScheduleClassOrder(b)) = Len(b.table)
<1> DEFINE n == Len(b.table)
           W == {i \in 1 .. n : b.table[i].window > 0}
           F == {i \in 1 .. n : b.table[i].window = 0}
<1>0. n \in Nat /\ \A i \in 1 .. n : b.table[i].window \in Nat
  <2>1. n \in Nat /\ \A i \in 1 .. n : b.table[i] \in LayoutClasses
    OBVIOUS
  <2>2. \A c \in LayoutClasses : c.window \in Nat
    BY DEF LayoutClasses
  <2> QED
    BY <2>1, <2>2, Zenon
<1>1. CASE b.schedule = "decode-priority"
  <2>1. ScheduleClassOrder(b) = Ascending(W) \o Ascending(F)
    BY <1>1 DEF ScheduleClassOrder
  <2>2. W \cup F = 1 .. n /\ W \cap F = {} /\ W \in SUBSET (1 .. n) /\ F \in SUBSET (1 .. n)
        /\ W \in SUBSET Nat /\ F \in SUBSET Nat
    BY <1>0
  <2>3. IsFiniteSet(1 .. n) /\ Cardinality(1 .. n) = n
    <3> HIDE DEF n
    <3> QED
      BY <1>0, FS_Interval
  <2> HIDE DEF W, F, n
  <2>4. IsFiniteSet(W) /\ IsFiniteSet(F)
    BY <2>2, <2>3, FS_Subset
  <2>5. /\ Lists(W, Ascending(W)) /\ Len(Ascending(W)) = Cardinality(W)
        /\ Lists(F, Ascending(F)) /\ Len(Ascending(F)) = Cardinality(F)
    BY <2>2, <2>4, AscendingLists
  <2>6. /\ Lists(W \cup F, Ascending(W) \o Ascending(F))
        /\ Len(Ascending(W) \o Ascending(F)) = Len(Ascending(W)) + Len(Ascending(F))
    BY <2>2, <2>5, ListsConcat
  <2>7. Cardinality(W \cup F) = Cardinality(W) + Cardinality(F)
    <3>1. Cardinality(W \cup F) = Cardinality(W) + Cardinality(F) - Cardinality(W \cap F)
      BY <2>4, FS_Union
    <3>2. Cardinality(W \cap F) = 0 /\ Cardinality(W) \in Nat /\ Cardinality(F) \in Nat
      BY <2>2, <2>4, FS_EmptySet, FS_CardinalityType
    <3> QED
      BY <3>1, <3>2
  <2>8. Lists(1 .. n, ScheduleClassOrder(b)) /\ Len(ScheduleClassOrder(b)) = n
    BY <2>1, <2>2, <2>3, <2>5, <2>6, <2>7, Zenon
  <2> QED
    BY <2>8 DEF n
<1>2. CASE b.schedule # "decode-priority"
  <2>1. ScheduleClassOrder(b) = [i \in 1 .. n |-> i]
    BY <1>2 DEF ScheduleClassOrder
  <2> HIDE DEF n
  <2>2. Lists(1 .. n, [i \in 1 .. n |-> i]) /\ Len([i \in 1 .. n |-> i]) = n
    BY <1>0 DEF Lists
  <2>3. Lists(1 .. n, ScheduleClassOrder(b)) /\ Len(ScheduleClassOrder(b)) = n
    BY <2>1, <2>2, Zenon
  <2> QED
    BY <2>3 DEF n
<1> QED
  BY <1>1, <1>2

(* The layers of a class are numbers. *)
LEMMA LayersAreNumbers ==
  ASSUME NEW c \in LayoutClasses
  PROVE  Layers(c) \in Seq(Nat)
<1> DEFINE S == {l \in c.from .. c.until - 1 : (l - c.from) % c.step = 0 /\ ~Contains(c.except, l)}
<1>0. c.from \in Nat /\ c.until \in Nat
  BY DEF LayoutClasses
<1>1. IsFiniteSet(c.from .. c.until - 1) /\ S \in SUBSET (c.from .. c.until - 1) /\ S \in SUBSET Nat
  <2>1. c.from \in Int /\ c.until - 1 \in Int
    BY <1>0
  <2>2. IsFiniteSet(c.from .. c.until - 1)
    BY <2>1, FS_Interval
  <2>3. \A l \in c.from .. c.until - 1 : l \in Nat
    BY <1>0
  <2> QED
    BY <2>2, <2>3
<1> HIDE DEF S
<1>2. IsFiniteSet(S)
  BY <1>1, FS_Subset
<1>3. Ascending(S) \in Seq(Nat)
  <2>1. Ascending(S) \in Seq(S)
    BY <1>1, <1>2, AscendingLists DEF Lists
  <2> DEFINE q == Ascending(S)
  <2> HIDE DEF q
  <2>2. q \in Seq(S)
    BY <2>1 DEF q
  <2>3. q = [i \in 1 .. Len(q) |-> q[i]] /\ Len(q) \in Nat /\ \A i \in 1 .. Len(q) : q[i] \in Nat
    BY <1>1, <2>2
  <2>4. q \in Seq(Nat)
    BY <2>3
  <2> QED
    BY <2>4 DEF q
<1>4. Layers(c) = IF c.step = 0 \/ c.from >= c.until THEN <<>> ELSE Ascending(S)
  BY DEF Layers, S
<1> QED
  BY <1>3, <1>4

(* What a valid class sends: its layers in order, K alone or K then V. *)
Sends(b, i, w) ==
    LET c == b.table[i]
        N == Len(Layers(c))
    IN  /\ w \in Seq(PlaneRecords)
        /\ \/ /\ c.roles = <<"K">> /\ Len(w) = N
              /\ \A m \in 1 .. N : w[m] = Plane(i, Layers(c)[m], "K")
           \/ /\ c.roles = <<"K", "V">> /\ Len(w) = 2 * N
              /\ \A m \in 1 .. N :
                   /\ w[2 * m - 1] = Plane(i, Layers(c)[m], "K")
                   /\ w[2 * m] = Plane(i, Layers(c)[m], "V")

(* The walk of a class with one of the two role lists. *)
LEMMA ClassWalkSends ==
  ASSUME NEW b, NEW i \in Nat, b.table[i] \in LayoutClasses,
         b.table[i].roles \in {<<"K">>, <<"K", "V">>}
  PROVE  Sends(b, i, ClassWalk(b, i))
<1> DEFINE c == b.table[i]
           L == Layers(c)
           N == Len(L)
           R == c.roles
           d == Len(R)
           row(m) == [r \in 1 .. d |-> [class |-> i, layer |-> L[m], role |-> R[r]]]
           ss == [m \in 1 .. N |-> row(m)]
           w == FlattenSeq(ss)
<1>0. L \in Seq(Nat) /\ N \in Nat
  BY LayersAreNumbers
<1>1. R = <<"K">> \/ R = <<"K", "V">>
  OBVIOUS
<1>2. w = ClassWalk(b, i)
  BY DEF ClassWalk
<1>3. \A m \in 1 .. N : L[m] \in Nat
  BY <1>0
<1> HIDE DEF L, N, R
<1>4. d \in Nat /\ \A r \in 1 .. d : R[r] \in {"K", "V"}
  BY <1>1
<1>5. \A m \in 1 .. N : row(m) \in Seq(PlaneRecords) /\ Len(row(m)) = d
  <2> TAKE m \in 1 .. N
  <2> HIDE DEF d
  <2>1. \A r \in 1 .. d : [class |-> i, layer |-> L[m], role |-> R[r]] \in PlaneRecords
    BY <1>3, <1>4 DEF PlaneRecords
  <2> QED
    BY <1>4, <2>1
<1>6. ss \in Seq(Seq(PlaneRecords)) /\ Len(ss) = N /\ \A m \in 1 .. N : ss[m] = row(m)
  <2> HIDE DEF row
  <2> QED
    BY <1>0, <1>5
<1> HIDE DEF ss, w, d, row
<1>7. w \in Seq(PlaneRecords)
  BY <1>6, FlattenIsSequence DEF w
<1>8. PICK o : Offsets(ss, o) /\ Placed(ss, w, o)
  BY <1>6, FlattenPlaces DEF w
<1>9. \A m \in 1 .. N + 1 : o[m] = d * (m - 1)
  <2>1. SameLength(ss, d) /\ Offsets(ss, o)
    BY <1>0, <1>4, <1>5, <1>6, <1>8, Zenon DEF SameLength
  <2>2. \A m \in 1 .. Len(ss) + 1 : o[m] = d * (m - 1)
    BY <2>1, EvenOffsets
  <2> QED
    BY <1>6, <2>2, Zenon
<1>10. Len(w) = o[N + 1] /\ N + 1 \in 1 .. N + 1 /\ \A m \in 1 .. N : m \in 1 .. N + 1
  <2>1. N + 1 \in 1 .. N + 1 /\ \A m \in 1 .. N : m \in 1 .. N + 1
    BY <1>0
  <2> QED
    BY <1>6, <1>8, <2>1, Zenon DEF Placed
<1>11. ASSUME NEW m \in 1 .. N, NEW r \in 1 .. d
       PROVE  w[d * (m - 1) + r] = Plane(i, L[m], R[r])
  <2>1. w[o[m] + r] = ss[m][r]
    <3>1. m \in 1 .. Len(ss) /\ r \in 1 .. Len(ss[m])
      BY <1>5, <1>6, Zenon
    <3>2. \A g \in 1 .. Len(ss) : \A h \in 1 .. Len(ss[g]) : w[o[g] + h] = ss[g][h]
      BY <1>8, Zenon DEF Placed
    <3> QED
      BY <3>1, <3>2, Zenon
  <2>2. ss[m][r] = Plane(i, L[m], R[r])
    <3>1. ss[m] = row(m)
      BY <1>6, Zenon
    <3>2. row(m)[r] = Plane(i, L[m], R[r])
      BY DEF Plane, row
    <3> QED
      BY <3>1, <3>2, Zenon
  <2> QED
    BY <1>9, <1>10, <2>1, <2>2, Zenon
<1>12. CASE R = <<"K">>
  <2>1. d = 1 /\ 1 \in 1 .. d /\ R[1] = "K"
    BY <1>12 DEF d
  <2>2. Len(w) = N
    <3>1. o[N + 1] = d * ((N + 1) - 1)
      BY <1>9, <1>10, Zenon
    <3> QED
      BY <1>0, <1>10, <2>1, <3>1
  <2>3. ASSUME NEW m \in 1 .. N PROVE w[m] = Plane(i, L[m], "K")
    <3>1. w[d * (m - 1) + 1] = Plane(i, L[m], R[1])
      BY <1>11, <2>1
    <3>2. d * (m - 1) + 1 = m
      BY <1>0, <2>1
    <3> QED
      BY <2>1, <3>1, <3>2, Zenon
  <2>4. Sends(b, i, w)
    BY <1>7, <1>12, <2>2, <2>3 DEF Sends, L, N, R
  <2> QED
    BY <1>2, <2>4
<1>13. CASE R = <<"K", "V">>
  <2>1. d = 2 /\ 1 \in 1 .. d /\ 2 \in 1 .. d /\ R[1] = "K" /\ R[2] = "V"
    BY <1>13 DEF d
  <2>2. Len(w) = 2 * N
    <3>1. o[N + 1] = d * ((N + 1) - 1)
      BY <1>9, <1>10, Zenon
    <3> QED
      BY <1>0, <1>10, <2>1, <3>1
  <2>3. ASSUME NEW m \in 1 .. N
        PROVE  w[2 * m - 1] = Plane(i, L[m], "K") /\ w[2 * m] = Plane(i, L[m], "V")
    <3>1. w[d * (m - 1) + 1] = Plane(i, L[m], R[1]) /\ w[d * (m - 1) + 2] = Plane(i, L[m], R[2])
      BY <1>11, <2>1
    <3>2. d * (m - 1) + 1 = 2 * m - 1 /\ d * (m - 1) + 2 = 2 * m
      BY <1>0, <2>1
    <3> QED
      BY <2>1, <3>1, <3>2, Zenon
  <2>4. Sends(b, i, w)
    BY <1>7, <1>13, <2>2, <2>3 DEF Sends, L, N, R
  <2> QED
    BY <1>2, <2>4
<1> QED
  BY <1>1, <1>12, <1>13

(* Every plane of a class has its layer and its partner in place. *)
Paired(b, i, w) ==
    LET c == b.table[i]
        L == Layers(c)
    IN  /\ \A j \in 1 .. Len(w) : \E m \in 1 .. Len(L) :
             \/ /\ w[j] = Plane(i, L[m], "K")
                /\ c.roles # <<"K">> => j < Len(w) /\ w[j + 1] = Plane(i, L[m], "V")
             \/ w[j] = Plane(i, L[m], "V") /\ j > 1 /\ w[j - 1] = Plane(i, L[m], "K")
        /\ \A m \in 1 .. Len(L) : \E j \in 1 .. Len(w) : w[j] = Plane(i, L[m], "K")

(* Numbers up to 2 * n are odd or even. *)
LEMMA Halves ==
  ASSUME NEW n \in Nat, NEW j \in 1 .. 2 * n
  PROVE  \E m \in 1 .. n : j = 2 * m - 1 \/ j = 2 * m
<1> DEFINE m == (j + 1) \div 2
<1>1. m \in 1 .. n /\ (j = 2 * m - 1 \/ j = 2 * m)
  OBVIOUS
<1> QED
  BY <1>1

(* What a class sends is paired up. *)
LEMMA SendsPaired ==
  ASSUME NEW b, NEW i, NEW w, Sends(b, i, w), Layers(b.table[i]) \in Seq(Nat)
  PROVE  Paired(b, i, w)
<1> DEFINE c == b.table[i]
           L == Layers(c)
           N == Len(L)
<1>0. N \in Nat
  OBVIOUS
<1> HIDE DEF N
<1>1. CASE /\ c.roles = <<"K">> /\ Len(w) = N
           /\ \A m \in 1 .. N : w[m] = Plane(i, L[m], "K")
  BY <1>1 DEF Paired, N
<1>2. CASE /\ c.roles = <<"K", "V">> /\ Len(w) = 2 * N
           /\ \A m \in 1 .. N : w[2 * m - 1] = Plane(i, L[m], "K") /\ w[2 * m] = Plane(i, L[m], "V")
  <2>1. ASSUME NEW j \in 1 .. Len(w)
        PROVE  \E m \in 1 .. N :
                 \/ w[j] = Plane(i, L[m], "K") /\ j < Len(w) /\ w[j + 1] = Plane(i, L[m], "V")
                 \/ w[j] = Plane(i, L[m], "V") /\ j > 1 /\ w[j - 1] = Plane(i, L[m], "K")
    <3>1. j \in 1 .. 2 * N
      BY <1>2
    <3>2. PICK m \in 1 .. N : j = 2 * m - 1 \/ j = 2 * m
      BY <1>0, <3>1, Halves
    <3>3. CASE j = 2 * m - 1
      <4>1. j + 1 = 2 * m /\ j < 2 * N
        BY <1>0, <3>3
      <4> QED
        BY <1>2, <3>3, <4>1, Zenon
    <3>4. CASE j = 2 * m
      <4>1. j - 1 = 2 * m - 1 /\ j > 1
        BY <1>0, <3>4
      <4> QED
        BY <1>2, <3>4, <4>1, Zenon
    <3> QED
      BY <3>2, <3>3, <3>4
  <2>2. ASSUME NEW m \in 1 .. N PROVE \E j \in 1 .. Len(w) : w[j] = Plane(i, L[m], "K")
    <3>1. 2 * m - 1 \in 1 .. 2 * N
      BY <1>0
    <3> QED
      BY <1>2, <3>1, Zenon
  <2> QED
    BY <2>1, <2>2, Zenon DEF Paired, N
<1> QED
  BY <1>1, <1>2 DEF Sends, N

(* A plane occurs once among those of its class. *)
LEMMA SendsOnce ==
  ASSUME NEW b, NEW i, NEW w, Sends(b, i, w), Layers(b.table[i]) \in Seq(Nat),
         \A m, k \in 1 .. Len(Layers(b.table[i])) :
            Layers(b.table[i])[m] = Layers(b.table[i])[k] => m = k
  PROVE  \A j, h \in 1 .. Len(w) :
            w[j].layer = w[h].layer /\ w[j].role = w[h].role => j = h
<1> DEFINE c == b.table[i]
           L == Layers(c)
           N == Len(L)
<1>0. N \in Nat /\ \A m, k \in 1 .. N : L[m] = L[k] => m = k
  OBVIOUS
<1>p. \A l, r : Plane(i, l, r).layer = l /\ Plane(i, l, r).role = r
  BY DEF Plane
<1> HIDE DEF N, L
<1> TAKE j, h \in 1 .. Len(w)
<1>3. HAVE w[j].layer = w[h].layer /\ w[j].role = w[h].role
<1>1. CASE /\ Len(w) = N
           /\ \A m \in 1 .. N : w[m] = Plane(i, L[m], "K")
  <2>1. j \in 1 .. N /\ h \in 1 .. N
    BY <1>1
  <2>2. w[j].layer = L[j] /\ w[h].layer = L[h]
    <3>1. w[j] = Plane(i, L[j], "K") /\ w[h] = Plane(i, L[h], "K")
      BY <1>1, <2>1
    <3> QED
      BY <1>p, <3>1
  <2> QED
    BY <1>0, <1>3, <2>1, <2>2
<1>2. CASE /\ Len(w) = 2 * N
           /\ \A m \in 1 .. N : w[2 * m - 1] = Plane(i, L[m], "K") /\ w[2 * m] = Plane(i, L[m], "V")
  <2>0. j \in 1 .. 2 * N /\ h \in 1 .. 2 * N
    BY <1>2
  <2>1. PICK m \in 1 .. N : j = 2 * m - 1 \/ j = 2 * m
    BY <1>0, <2>0, Halves
  <2>2. PICK k \in 1 .. N : h = 2 * k - 1 \/ h = 2 * k
    BY <1>0, <2>0, Halves
  <2>3. "K" # "V"
    OBVIOUS
  <2>4. /\ w[2 * m - 1] = Plane(i, L[m], "K") /\ w[2 * m] = Plane(i, L[m], "V")
        /\ w[2 * k - 1] = Plane(i, L[k], "K") /\ w[2 * k] = Plane(i, L[k], "V")
    BY <1>2, Zenon
  <2>7. /\ w[2 * m - 1].layer = L[m] /\ w[2 * m].layer = L[m]
        /\ w[2 * m - 1].role = "K" /\ w[2 * m].role = "V"
    BY <1>p, <2>4
  <2>8. /\ w[2 * k - 1].layer = L[k] /\ w[2 * k].layer = L[k]
        /\ w[2 * k - 1].role = "K" /\ w[2 * k].role = "V"
    BY <1>p, <2>4
  <2>5. m = k
    <3>1. L[m] = L[k]
      BY <1>3, <2>1, <2>2, <2>7, <2>8, Zenon
    <3> QED
      BY <1>0, <3>1, Zenon
  <2>6. /\ j = 2 * m - 1 => w[j].role = "K"
        /\ j = 2 * m => w[j].role = "V"
        /\ h = 2 * k - 1 => w[h].role = "K"
        /\ h = 2 * k => w[h].role = "V"
    BY <2>7, <2>8, Zenon
  <2> QED
    BY <1>3, <2>1, <2>2, <2>3, <2>5, <2>6, Zenon
<1> QED
  BY <1>1, <1>2 DEF Sends, N, L

-----------------------------------------------------------------------------
(* What validation establishes of a layout table. *)
LEMMA ValidTable ==
  ASSUME NEW b, TypedBegin(b), IsV2(b), ValidBegin(b)
  PROVE  /\ Len(b.table) \in Nat /\ Len(b.table) # 0 /\ b.layers \in Nat
         /\ \A i \in 1 .. Len(b.table) :
              /\ b.table[i] \in LayoutClasses /\ ValidClass(b, b.table[i])
              /\ b.table[i].roles \in {<<"K">>, <<"K", "V">>}
              /\ Layers(b.table[i]) \in Seq(Nat) /\ Len(Layers(b.table[i])) \in Nat \ {0}
         /\ CoversOnce(b)
<1>1. Len(b.table) \in Nat /\ b.layers \in Nat /\ \A i \in 1 .. Len(b.table) : b.table[i] \in LayoutClasses
  BY DEF TypedBegin
<1>2. Len(b.table) # 0
  BY EmptySeq DEF TypedBegin, IsV2
<1>3. CoversOnce(b) /\ \A i \in 1 .. Len(b.table) : ValidClass(b, b.table[i])
  BY DEF ValidBegin, ValidLayoutTable
<1>4. ASSUME NEW i \in 1 .. Len(b.table)
      PROVE  /\ b.table[i].roles \in {<<"K">>, <<"K", "V">>}
             /\ Layers(b.table[i]) \in Seq(Nat) /\ Len(Layers(b.table[i])) \in Nat \ {0}
  <2>1. b.table[i].roles = <<"K">> \/ b.table[i].roles = <<"K", "V">>
    BY <1>3, Zenon DEF ValidClass
  <2>2. Layers(b.table[i]) \in Seq(Nat)
    BY <1>1, LayersAreNumbers
  <2>3. Len(Layers(b.table[i])) \in Nat \ {0}
    <3>1. Layers(b.table[i]) # <<>>
      BY <1>3, Zenon DEF ValidClass
    <3> QED
      BY <2>2, <3>1, EmptySeq
  <2> QED
    BY <2>1, <2>2, <2>3
<1> QED
  BY <1>1, <1>2, <1>3, <1>4

(* No layer is in two classes or twice in one, and each is in some class. *)
LEMMA CoverFacts ==
  ASSUME NEW b, TypedBegin(b), IsV2(b), ValidBegin(b)
  PROVE  LET n == Len(b.table)
             L(i) == Layers(b.table[i])
         IN  /\ \A i, h \in 1 .. n : \A m \in 1 .. Len(L(i)), k \in 1 .. Len(L(h)) :
                   L(i)[m] = L(h)[k] => i = h /\ m = k
             /\ \A i \in 1 .. n : \A m \in 1 .. Len(L(i)) : L(i)[m] \in 0 .. b.layers - 1
             /\ \A l \in 0 .. b.layers - 1 : \E i \in 1 .. n : \E m \in 1 .. Len(L(i)) : L(i)[m] = l
<1> DEFINE n == Len(b.table)
           L(i) == Layers(b.table[i])
           ss == [i \in 1 .. n |-> L(i)]
           all == FlattenSeq(ss)
<1>0. /\ n \in Nat /\ CoversOnce(b)
      /\ \A i \in 1 .. n : L(i) \in Seq(Nat) /\ Len(L(i)) \in Nat
  BY ValidTable
<1>1. IsInjective(all) /\ ToSet(all) = 0 .. b.layers - 1
  BY <1>0 DEF CoversOnce
<1> HIDE DEF n, L
<1>2. ss \in Seq(Seq(Nat)) /\ Len(ss) = n /\ \A i \in 1 .. n : ss[i] = L(i)
  BY <1>0
<1> HIDE DEF ss, all
<1>3. all \in Seq(Nat)
  BY <1>2, FlattenIsSequence DEF all
<1>4. PICK o : Offsets(ss, o) /\ Placed(ss, all, o)
  BY <1>2, FlattenPlaces DEF all
<1>5. /\ \A x, y \in 1 .. Len(all) : all[x] = all[y] => x = y
      /\ \A x \in 1 .. Len(all) : all[x] \in 0 .. b.layers - 1
      /\ \A l \in 0 .. b.layers - 1 : \E x \in 1 .. Len(all) : all[x] = l
  <2>1. DOMAIN all = 1 .. Len(all)
    BY <1>3
  <2>2. ToSet(all) = {all[x] : x \in 1 .. Len(all)}
    BY <2>1, Zenon DEF ToSet
  <2>3. \A x, y \in 1 .. Len(all) : all[x] = all[y] => x = y
    BY <1>1, <2>1 DEF IsInjective
  <2> QED
    BY <1>1, <2>2, <2>3
<1>6. /\ \A i \in 1 .. n : \A j \in 1 .. Len(L(i)) :
           o[i] + j \in 1 .. Len(all) /\ all[o[i] + j] = L(i)[j]
      /\ \A x \in 1 .. Len(all) : \E i \in 1 .. n : \E j \in 1 .. Len(L(i)) : x = o[i] + j
  <2>1. /\ \A i \in 1 .. n : \A j \in 1 .. Len(ss[i]) :
             o[i] + j \in 1 .. Len(all) /\ all[o[i] + j] = ss[i][j]
        /\ \A x \in 1 .. Len(all) : \E i \in 1 .. n : \E j \in 1 .. Len(ss[i]) : x = o[i] + j
    BY <1>2, <1>4, Zenon DEF Placed
  <2>2. \A i \in 1 .. n : ss[i] = L(i)
    BY <1>2
  <2>3. ASSUME NEW i \in 1 .. n, NEW j \in 1 .. Len(L(i))
        PROVE  o[i] + j \in 1 .. Len(all) /\ all[o[i] + j] = L(i)[j]
    <3>1. ss[i] = L(i)
      BY <2>2
    <3>2. \A h \in 1 .. Len(ss[i]) : o[i] + h \in 1 .. Len(all) /\ all[o[i] + h] = ss[i][h]
      BY <2>1, Zenon
    <3> QED
      BY <3>1, <3>2, Zenon
  <2>4. ASSUME NEW x \in 1 .. Len(all)
        PROVE  \E i \in 1 .. n : \E j \in 1 .. Len(L(i)) : x = o[i] + j
    <3>1. PICK i \in 1 .. n : \E j \in 1 .. Len(ss[i]) : x = o[i] + j
      BY <2>1
    <3>2. ss[i] = L(i)
      BY <2>2
    <3> QED
      BY <3>1, <3>2, Zenon
  <2> QED
    BY <2>3, <2>4, Zenon
<1>7. ASSUME NEW i \in 1 .. n, NEW h \in 1 .. n, NEW m \in 1 .. Len(L(i)), NEW k \in 1 .. Len(L(h)),
             L(i)[m] = L(h)[k]
      PROVE  i = h /\ m = k
  <2>0. /\ o[i] + m \in 1 .. Len(all) /\ all[o[i] + m] = L(i)[m]
        /\ o[h] + k \in 1 .. Len(all) /\ all[o[h] + k] = L(h)[k]
    BY <1>6, Zenon
  <2>1. o[i] + m = o[h] + k
    BY <1>5, <1>7, <2>0, Zenon
  <2>2. /\ i \in 1 .. Len(ss) /\ h \in 1 .. Len(ss) /\ m \in 1 .. Len(ss[i]) /\ k \in 1 .. Len(ss[h])
        /\ Len(ss) \in Nat /\ Len(ss[i]) \in Nat /\ Len(ss[h]) \in Nat
    BY <1>0, <1>2, Zenon
  <2> QED
    BY <1>4, <2>1, <2>2, PlacesDiffer
<1>8. ASSUME NEW i \in 1 .. n, NEW m \in 1 .. Len(L(i)) PROVE L(i)[m] \in 0 .. b.layers - 1
  BY <1>5, <1>6, Zenon
<1>9. ASSUME NEW l \in 0 .. b.layers - 1 PROVE \E i \in 1 .. n : \E m \in 1 .. Len(L(i)) : L(i)[m] = l
  <2>1. PICK x \in 1 .. Len(all) : all[x] = l
    BY <1>5
  <2>2. PICK i \in 1 .. n : \E j \in 1 .. Len(L(i)) : x = o[i] + j
    BY <1>6, Zenon
  <2>3. PICK j \in 1 .. Len(L(i)) : x = o[i] + j
    BY <2>2
  <2>4. all[o[i] + j] = L(i)[j]
    BY <1>6
  <2>5. L(i)[j] = l
    BY <2>1, <2>3, <2>4, Zenon
  <2> QED
    BY <2>5
<1> QED
  BY <1>7, <1>8, <1>9, Zenon DEF n, L

-----------------------------------------------------------------------------
(* The walks of the classes in the order of the schedule. *)
Stage(b, s) == ClassWalk(b, ScheduleClassOrder(b)[s])

(* Stage s of the walk begins after o[s] planes. *)
Walked(b, o) ==
    /\ o \in [1 .. Len(b.table) + 1 -> Nat] /\ o[1] = 0
    /\ Len(LayoutWalk(b)) = o[Len(b.table) + 1]
    /\ \A s \in 1 .. Len(b.table) :
         /\ o[s + 1] = o[s] + Len(Stage(b, s))
         /\ \A j \in 1 .. Len(Stage(b, s)) :
              o[s] + j \in 1 .. Len(LayoutWalk(b)) /\ LayoutWalk(b)[o[s] + j] = Stage(b, s)[j]
    /\ \A k \in 1 .. Len(LayoutWalk(b)) :
         \E s \in 1 .. Len(b.table) : \E j \in 1 .. Len(Stage(b, s)) : k = o[s] + j

(* Each stage is the walk of one class, and each class has its stage. *)
LEMMA Stages ==
  ASSUME NEW b, TypedBegin(b), IsV2(b), ValidBegin(b)
  PROVE  LET q == ScheduleClassOrder(b)
             n == Len(b.table)
         IN  /\ \A s \in 1 .. n :
                  /\ q[s] \in 1 .. n /\ Sends(b, q[s], Stage(b, s))
                  /\ Stage(b, s) \in Seq(PlaneRecords) /\ Len(Stage(b, s)) \in Nat
             /\ \A i \in 1 .. n : \E s \in 1 .. n : q[s] = i
             /\ \A s, t \in 1 .. n : q[s] = q[t] => s = t
<1> DEFINE q == ScheduleClassOrder(b)
           n == Len(b.table)
<1>1. /\ n \in Nat
      /\ \A i \in 1 .. n : b.table[i] \in LayoutClasses /\ b.table[i].roles \in {<<"K">>, <<"K", "V">>}
  BY ValidTable
<1>2. Lists(1 .. n, q) /\ Len(q) = n
  BY OrderLists DEF TypedBegin
<1> HIDE DEF n, q
<1>3. /\ \A s \in 1 .. n : q[s] \in 1 .. n
      /\ \A i \in 1 .. n : \E s \in 1 .. n : q[s] = i
      /\ \A s, t \in 1 .. n : q[s] = q[t] => s = t
  <2> DEFINE I == 1 .. n
  <2> HIDE DEF I
  <2>1. q \in Seq(I)
    BY <1>2 DEF Lists, I
  <2>2. \A s \in 1 .. Len(q) : q[s] \in I
    BY <2>1
  <2> QED
    BY <1>2, <2>2, Zenon DEF Lists, I
<1>4. ASSUME NEW s \in 1 .. n
      PROVE  /\ Sends(b, q[s], Stage(b, s)) /\ Stage(b, s) \in Seq(PlaneRecords)
             /\ Len(Stage(b, s)) \in Nat
  <2>1. q[s] \in 1 .. n /\ q[s] \in Nat
    BY <1>1, <1>3
  <2>2. b.table[q[s]] \in LayoutClasses /\ b.table[q[s]].roles \in {<<"K">>, <<"K", "V">>}
    BY <1>1, <2>1, Zenon
  <2>3. Sends(b, q[s], ClassWalk(b, q[s]))
    BY <2>1, <2>2, ClassWalkSends
  <2>4. Sends(b, q[s], Stage(b, s))
    BY <2>3, Zenon DEF Stage, q
  <2>5. Stage(b, s) \in Seq(PlaneRecords)
    BY <2>4, Zenon DEF Sends
  <2> QED
    BY <2>4, <2>5
<1> QED
  BY <1>3, <1>4 DEF n, q

(* Where the stages lie in the walk. *)
LEMMA WalkPlaces ==
  ASSUME NEW b, TypedBegin(b), IsV2(b), ValidBegin(b)
  PROVE  \E o : Walked(b, o)
<1> DEFINE n == Len(b.table)
           ss == [s \in 1 .. n |-> Stage(b, s)]
           w == LayoutWalk(b)
<1>1. n \in Nat /\ \A s \in 1 .. n : Stage(b, s) \in Seq(PlaneRecords)
  BY ValidTable, Stages
<1>2. w = FlattenSeq(ss)
  BY DEF LayoutWalk, Stage
<1> HIDE DEF n, w
<1>3. ss \in Seq(Seq(PlaneRecords)) /\ Len(ss) = n /\ \A s \in 1 .. n : ss[s] = Stage(b, s)
  BY <1>1
<1> HIDE DEF ss
<1>4. PICK o : Offsets(ss, o) /\ Placed(ss, w, o)
  BY <1>2, <1>3, FlattenPlaces
<1>5. o \in [1 .. n + 1 -> Nat] /\ o[1] = 0 /\ Len(w) = o[n + 1]
  BY <1>3, <1>4, Zenon DEF Offsets, Placed
<1>6. /\ \A s \in 1 .. n : o[s + 1] = o[s] + Len(Stage(b, s))
      /\ \A s \in 1 .. n : \A j \in 1 .. Len(Stage(b, s)) :
              o[s] + j \in 1 .. Len(w) /\ w[o[s] + j] = Stage(b, s)[j]
      /\ \A k \in 1 .. Len(w) : \E s \in 1 .. n : \E j \in 1 .. Len(Stage(b, s)) : k = o[s] + j
  <2>1. /\ \A s \in 1 .. n : o[s + 1] = o[s] + Len(ss[s])
        /\ \A s \in 1 .. n : \A j \in 1 .. Len(ss[s]) :
                o[s] + j \in 1 .. Len(w) /\ w[o[s] + j] = ss[s][j]
        /\ \A k \in 1 .. Len(w) : \E s \in 1 .. n : \E j \in 1 .. Len(ss[s]) : k = o[s] + j
    BY <1>3, <1>4, Zenon DEF Offsets, Placed
  <2>2. \A s \in 1 .. n : ss[s] = Stage(b, s)
    BY <1>3
  <2>3. ASSUME NEW k \in 1 .. Len(w) PROVE \E s \in 1 .. n : \E j \in 1 .. Len(Stage(b, s)) : k = o[s] + j
    <3>1. PICK s \in 1 .. n : \E j \in 1 .. Len(ss[s]) : k = o[s] + j
      BY <2>1
    <3>2. ss[s] = Stage(b, s)
      BY <2>2
    <3> QED
      BY <3>1, <3>2, Zenon
  <2>4. ASSUME NEW s \in 1 .. n
        PROVE  /\ o[s + 1] = o[s] + Len(Stage(b, s))
               /\ \A j \in 1 .. Len(Stage(b, s)) :
                    o[s] + j \in 1 .. Len(w) /\ w[o[s] + j] = Stage(b, s)[j]
    <3>1. ss[s] = Stage(b, s)
      BY <2>2
    <3>2. /\ o[s + 1] = o[s] + Len(ss[s])
          /\ \A j \in 1 .. Len(ss[s]) : o[s] + j \in 1 .. Len(w) /\ w[o[s] + j] = ss[s][j]
      BY <2>1, Zenon
    <3> QED
      BY <3>1, <3>2, Zenon
  <2> QED
    BY <2>3, <2>4, Zenon
<1> QED
  BY <1>5, <1>6, Zenon DEF Walked, n, w

(* What a plane of the walk is: its stage, its place there and its layer. *)
Stands(b, o, k, s, j, m) ==
    LET i == ScheduleClassOrder(b)[s]
        c == b.table[i]
        w == LayoutWalk(b)
    IN  /\ s \in 1 .. Len(b.table) /\ j \in 1 .. Len(Stage(b, s)) /\ k = o[s] + j
        /\ i \in 1 .. Len(b.table) /\ m \in 1 .. Len(Layers(c)) /\ w[k] = Stage(b, s)[j]
        /\ \/ /\ w[k] = Plane(i, Layers(c)[m], "K")
              /\ c.roles # <<"K">> => k < Len(w) /\ w[k + 1] = Plane(i, Layers(c)[m], "V")
           \/ w[k] = Plane(i, Layers(c)[m], "V") /\ k > 1 /\ w[k - 1] = Plane(i, Layers(c)[m], "K")

(* Every plane of the walk stands in a stage, its partner beside it. *)
LEMMA EveryPlaneStands ==
  ASSUME NEW b, TypedBegin(b), IsV2(b), ValidBegin(b), NEW o, Walked(b, o),
         NEW k \in 1 .. Len(LayoutWalk(b))
  PROVE  \E s, j, m : Stands(b, o, k, s, j, m)
<1> DEFINE n == Len(b.table)
           w == LayoutWalk(b)
<1>1. PICK s \in 1 .. n : \E j \in 1 .. Len(Stage(b, s)) : k = o[s] + j
  BY Zenon DEF Walked
<1>2. PICK j \in 1 .. Len(Stage(b, s)) : k = o[s] + j
  BY <1>1
<1> DEFINE i == ScheduleClassOrder(b)[s]
           L == Layers(b.table[i])
           u == Stage(b, s)
<1>3. i \in 1 .. n /\ Sends(b, i, u) /\ Len(u) \in Nat
  BY Stages
<1>4. L \in Seq(Nat)
  BY <1>3, ValidTable
<1>5. Paired(b, i, u)
  BY <1>3, <1>4, SendsPaired
<1>6. PICK m \in 1 .. Len(L) :
        \/ /\ u[j] = Plane(i, L[m], "K")
           /\ b.table[i].roles # <<"K">> => j < Len(u) /\ u[j + 1] = Plane(i, L[m], "V")
        \/ u[j] = Plane(i, L[m], "V") /\ j > 1 /\ u[j - 1] = Plane(i, L[m], "K")
  BY <1>5, Zenon DEF Paired
<1>7. o[s] \in Nat /\ \A h \in 1 .. Len(u) : o[s] + h \in 1 .. Len(w) /\ w[o[s] + h] = u[h]
  <2>1. n \in Nat
    BY ValidTable
  <2>2. s \in 1 .. n + 1
    BY <2>1
  <2> QED
    BY <2>2, Zenon DEF Walked
<1>8. w[k] = u[j]
  BY <1>2, <1>7, Zenon
<1>a. j \in 1 .. Len(u) /\ Len(u) \in Nat /\ o[s] \in Nat /\ k = o[s] + j /\ k \in 1 .. Len(w)
  BY <1>2, <1>3, <1>7
<1> HIDE DEF u, w, L, i, n
<1>9. ASSUME j < Len(u), u[j + 1] = Plane(i, L[m], "V")
      PROVE  k < Len(w) /\ w[k + 1] = Plane(i, L[m], "V")
  <2>0. j < Len(u)
    BY <1>9
  <2>1. j + 1 \in 1 .. Len(u) /\ o[s] + (j + 1) = k + 1
    BY <1>a, <2>0
  <2>2. k + 1 \in 1 .. Len(w) /\ w[k + 1] = u[j + 1]
    <3>1. o[s] + (j + 1) \in 1 .. Len(w) /\ w[o[s] + (j + 1)] = u[j + 1]
      BY <1>7, <2>1
    <3> QED
      BY <2>1, <3>1
  <2>3. k < Len(w)
    BY <1>a, <2>2
  <2> QED
    BY <1>9, <2>2, <2>3, Zenon
<1>10. ASSUME j > 1, u[j - 1] = Plane(i, L[m], "K")
       PROVE  k > 1 /\ w[k - 1] = Plane(i, L[m], "K")
  <2>1. j - 1 \in 1 .. Len(u) /\ o[s] + (j - 1) = k - 1
    BY <1>a, <1>10
  <2>2. k - 1 \in 1 .. Len(w) /\ w[k - 1] = u[j - 1]
    <3>1. o[s] + (j - 1) \in 1 .. Len(w) /\ w[o[s] + (j - 1)] = u[j - 1]
      BY <1>7, <2>1
    <3> QED
      BY <2>1, <3>1
  <2>3. k > 1
    BY <1>a, <2>2
  <2> QED
    BY <1>10, <2>2, <2>3, Zenon
<1>11. Stands(b, o, k, s, j, m)
  <2>1. \/ /\ w[k] = Plane(i, L[m], "K")
           /\ b.table[i].roles # <<"K">> => k < Len(w) /\ w[k + 1] = Plane(i, L[m], "V")
        \/ w[k] = Plane(i, L[m], "V") /\ k > 1 /\ w[k - 1] = Plane(i, L[m], "K")
    BY <1>6, <1>8, <1>9, <1>10, Zenon
  <2> QED
    BY <1>2, <1>3, <1>8, <2>1, Zenon DEF Stands, u, w, L, i, n
<1> QED
  BY <1>11

(* Parts of a plane. *)
LEMMA PlaneParts ==
  ASSUME NEW i, NEW l, NEW r
  PROVE  /\ Plane(i, l, r).class = i /\ Plane(i, l, r).layer = l /\ Plane(i, l, r).role = r
         /\ \A x : [Plane(i, l, r) EXCEPT !.role = x] = Plane(i, l, x)
BY DEF Plane

(* The planes w send every layer once per role of its class, K directly before V. *)
PairsUp(b, w) ==
    /\ {w[n].layer : n \in 1 .. Len(w)} = 0 .. b.layers - 1
    /\ \A n, m \in 1 .. Len(w) : w[n].layer = w[m].layer /\ w[n].role = w[m].role => n = m
    /\ \A n \in 1 .. Len(w) :
          /\ w[n].class \in 1 .. Len(b.table)
          /\ \E r \in 1 .. Len(b.table[w[n].class].roles) :
                w[n].role = b.table[w[n].class].roles[r]
          /\ w[n].role = "V" => n > 1 /\ w[n - 1] = [w[n] EXCEPT !.role = "K"]
          /\ w[n].role = "K" /\ Len(b.table[w[n].class].roles) # 1 =>
                 n < Len(w) /\ w[n + 1] = [w[n] EXCEPT !.role = "V"]

(* So does the walk of a table. *)
LEMMA WalkPairs ==
  ASSUME NEW b, TypedBegin(b), IsV2(b), ValidBegin(b)
  PROVE  PairsUp(b, LayoutWalk(b))
<1> DEFINE w == LayoutWalk(b)
           q == ScheduleClassOrder(b)
           N == Len(b.table)
           L(i) == Layers(b.table[i])
<1>1. PICK o : Walked(b, o)
  BY WalkPlaces
<1>2. \A k \in 1 .. Len(w) : \E s, j, m : Stands(b, o, k, s, j, m)
  BY <1>1, EveryPlaneStands
<1>3. /\ \A i, h \in 1 .. N : \A m \in 1 .. Len(L(i)), k \in 1 .. Len(L(h)) :
            L(i)[m] = L(h)[k] => i = h /\ m = k
      /\ \A i \in 1 .. N : \A m \in 1 .. Len(L(i)) : L(i)[m] \in 0 .. b.layers - 1
      /\ \A l \in 0 .. b.layers - 1 : \E i \in 1 .. N : \E m \in 1 .. Len(L(i)) : L(i)[m] = l
  BY CoverFacts
<1>4. /\ \A s \in 1 .. N : q[s] \in 1 .. N /\ Sends(b, q[s], Stage(b, s))
      /\ \A i \in 1 .. N : \E s \in 1 .. N : q[s] = i
      /\ \A s, t \in 1 .. N : q[s] = q[t] => s = t
  BY Stages
<1>5. \A i \in 1 .. N : L(i) \in Seq(Nat) /\ b.table[i].roles \in {<<"K">>, <<"K", "V">>}
  BY ValidTable
<1>6. \A s \in 1 .. N : \A j \in 1 .. Len(Stage(b, s)) :
         o[s] + j \in 1 .. Len(w) /\ w[o[s] + j] = Stage(b, s)[j]
  BY <1>1, Zenon DEF Walked
<1>7. \A k, s, j, m : Stands(b, o, k, s, j, m) =>
        \/ /\ w[k] = Plane(q[s], L(q[s])[m], "K")
           /\ b.table[q[s]].roles # <<"K">> =>
                k < Len(w) /\ w[k + 1] = Plane(q[s], L(q[s])[m], "V")
        \/ /\ w[k] = Plane(q[s], L(q[s])[m], "V") /\ k > 1
           /\ w[k - 1] = Plane(q[s], L(q[s])[m], "K")
  BY DEF Stands
<1>8. ASSUME NEW k, NEW s, NEW j, NEW m, Stands(b, o, k, s, j, m)
      PROVE  /\ s \in 1 .. N /\ j \in 1 .. Len(Stage(b, s)) /\ k = o[s] + j
             /\ q[s] \in 1 .. N /\ m \in 1 .. Len(L(q[s])) /\ w[k] = Stage(b, s)[j]
             /\ w[k].class = q[s] /\ w[k].layer = L(q[s])[m]
  <2>1. /\ s \in 1 .. N /\ j \in 1 .. Len(Stage(b, s)) /\ k = o[s] + j
        /\ q[s] \in 1 .. N /\ m \in 1 .. Len(L(q[s])) /\ w[k] = Stage(b, s)[j]
    BY <1>8, Zenon DEF Stands
  <2> HIDE DEF w, q, L, N
  <2>3. w[k] = Plane(q[s], L(q[s])[m], "K") \/ w[k] = Plane(q[s], L(q[s])[m], "V")
    BY <1>7, <1>8
  <2>4. w[k].class = q[s] /\ w[k].layer = L(q[s])[m]
    BY <2>3, PlaneParts
  <2> QED
    BY <2>1, <2>4, Zenon
<1> HIDE DEF w, q, L, N
<1>9. {w[n].layer : n \in 1 .. Len(w)} = 0 .. b.layers - 1
  <2>1. ASSUME NEW k \in 1 .. Len(w) PROVE w[k].layer \in 0 .. b.layers - 1
    <3>1. PICK s, j, m : Stands(b, o, k, s, j, m)
      BY <1>2
    <3>2. q[s] \in 1 .. N /\ m \in 1 .. Len(L(q[s])) /\ w[k].layer = L(q[s])[m]
      BY <1>8, <3>1
    <3> QED
      BY <1>3, <3>2, Zenon
  <2>2. ASSUME NEW l \in 0 .. b.layers - 1 PROVE \E k \in 1 .. Len(w) : w[k].layer = l
    <3>1. PICK i \in 1 .. N : \E m \in 1 .. Len(L(i)) : L(i)[m] = l
      BY <1>3
    <3>2. PICK m \in 1 .. Len(L(i)) : L(i)[m] = l
      BY <3>1
    <3>3. PICK s \in 1 .. N : q[s] = i
      BY <1>4
    <3>4. Sends(b, i, Stage(b, s)) /\ Layers(b.table[i]) \in Seq(Nat)
      BY <1>4, <1>5, <3>3, Zenon DEF L
    <3>5. Paired(b, i, Stage(b, s))
      BY <3>4, SendsPaired
    <3>6. PICK j \in 1 .. Len(Stage(b, s)) : Stage(b, s)[j] = Plane(i, L(i)[m], "K")
      BY <3>5, Zenon DEF Paired, L
    <3>7. o[s] + j \in 1 .. Len(w) /\ w[o[s] + j] = Plane(i, L(i)[m], "K")
      BY <1>6, <3>6, Zenon
    <3>8. w[o[s] + j].layer = l
      BY <3>2, <3>7, PlaneParts
    <3> QED
      BY <3>7, <3>8
  <2> QED
    BY <2>1, <2>2
<1>10. ASSUME NEW x \in 1 .. Len(w), NEW y \in 1 .. Len(w),
              w[x].layer = w[y].layer, w[x].role = w[y].role
       PROVE  x = y
  <2>1. PICK s, j, m : Stands(b, o, x, s, j, m)
    BY <1>2
  <2>2. PICK t, h, k : Stands(b, o, y, t, h, k)
    BY <1>2
  <2>3. /\ s \in 1 .. N /\ q[s] \in 1 .. N /\ m \in 1 .. Len(L(q[s])) /\ w[x].layer = L(q[s])[m]
        /\ j \in 1 .. Len(Stage(b, s)) /\ x = o[s] + j /\ w[x] = Stage(b, s)[j]
    BY <1>8, <2>1
  <2>4. /\ t \in 1 .. N /\ q[t] \in 1 .. N /\ k \in 1 .. Len(L(q[t])) /\ w[y].layer = L(q[t])[k]
        /\ h \in 1 .. Len(Stage(b, t)) /\ y = o[t] + h /\ w[y] = Stage(b, t)[h]
    BY <1>8, <2>2
  <2>5. q[s] = q[t]
    <3>1. L(q[s])[m] = L(q[t])[k]
      BY <1>10, <2>3, <2>4, Zenon
    <3>2. \A i, g \in 1 .. N : \A z \in 1 .. Len(L(i)), y1 \in 1 .. Len(L(g)) :
             L(i)[z] = L(g)[y1] => i = g
      BY <1>3
    <3>3. q[s] \in 1 .. N /\ q[t] \in 1 .. N /\ m \in 1 .. Len(L(q[s])) /\ k \in 1 .. Len(L(q[t]))
      BY <2>3, <2>4, Zenon
    <3> QED
      BY <3>1, <3>2, <3>3, Zenon
  <2>6. s = t
    BY <1>4, <2>3, <2>4, <2>5, Zenon
  <2>7. \A a, c \in 1 .. Len(L(q[s])) : L(q[s])[a] = L(q[s])[c] => a = c
    BY <1>3, <2>3
  <2>8. Sends(b, q[s], Stage(b, s)) /\ L(q[s]) \in Seq(Nat)
    BY <1>4, <1>5, <2>3, Zenon
  <2> DEFINE u == Stage(b, s)
  <2>9. \A a, c \in 1 .. Len(u) : u[a].layer = u[c].layer /\ u[a].role = u[c].role => a = c
    BY <2>7, <2>8, SendsOnce DEF L
  <2> HIDE DEF u
  <2>10. /\ j \in 1 .. Len(u) /\ h \in 1 .. Len(u)
         /\ u[j].layer = u[h].layer /\ u[j].role = u[h].role
    BY <1>10, <2>3, <2>4, <2>6, Zenon DEF u
  <2>11. j = h
    BY <2>9, <2>10, Zenon
  <2> QED
    BY <2>3, <2>4, <2>6, <2>11, Zenon
<1>11. ASSUME NEW n \in 1 .. Len(w)
       PROVE  /\ w[n].class \in 1 .. N
              /\ \E r \in 1 .. Len(b.table[w[n].class].roles) : w[n].role = b.table[w[n].class].roles[r]
              /\ w[n].role = "V" => n > 1 /\ w[n - 1] = [w[n] EXCEPT !.role = "K"]
              /\ w[n].role = "K" /\ Len(b.table[w[n].class].roles) # 1 =>
                     n < Len(w) /\ w[n + 1] = [w[n] EXCEPT !.role = "V"]
  <2>1. PICK s, j, m : Stands(b, o, n, s, j, m)
    BY <1>2
  <2> DEFINE i == q[s]
             l == L(i)[m]
             R == b.table[i].roles
  <2>2. /\ i \in 1 .. N
        /\ \/ w[n] = Plane(i, l, "K") /\ (R # <<"K">> => n < Len(w) /\ w[n + 1] = Plane(i, l, "V"))
           \/ w[n] = Plane(i, l, "V") /\ n > 1 /\ w[n - 1] = Plane(i, l, "K")
    BY <1>7, <1>8, <2>1
  <2>3. w[n].class = i
    BY <1>8, <2>1
  <2>4. R = <<"K">> \/ R = <<"K", "V">>
    BY <1>5, <2>2
  <2>5. ASSUME w[n].role = "V" PROVE R = <<"K", "V">>
    <3>1. s \in 1 .. N /\ Sends(b, i, Stage(b, s)) /\ w[n] = Stage(b, s)[j] /\ j \in 1 .. Len(Stage(b, s))
      BY <1>4, <1>8, <2>1
    <3>2. ASSUME R = <<"K">> PROVE FALSE
      <4>1. R # <<"K", "V">>
        BY <3>2
      <4>2. Stage(b, s)[j] = Plane(i, Layers(b.table[i])[j], "K")
        BY <3>1, <4>1, Zenon DEF Sends
      <4>3. w[n].role = "K"
        BY <3>1, <4>2, PlaneParts
      <4> QED
        BY <2>5, <4>3
    <3> QED
      BY <2>4, <3>2
  <2> HIDE DEF i, l, R
  <2>6. CASE w[n] = Plane(i, l, "K") /\ (R # <<"K">> => n < Len(w) /\ w[n + 1] = Plane(i, l, "V"))
    <3>1. w[n].role = "K" /\ [w[n] EXCEPT !.role = "V"] = Plane(i, l, "V")
      BY <2>6, PlaneParts
    <3>2. w[n].role # "V"
      BY <3>1
    <3>3. Len(R) # 1 => R # <<"K">>
      OBVIOUS
    <3>4. \E r \in 1 .. Len(R) : R[r] = "K"
      BY <2>4
    <3> QED
      BY <2>2, <2>3, <2>6, <3>1, <3>2, <3>3, <3>4, Zenon DEF R
  <2>7. CASE w[n] = Plane(i, l, "V") /\ n > 1 /\ w[n - 1] = Plane(i, l, "K")
    <3>1. w[n].role = "V" /\ [w[n] EXCEPT !.role = "K"] = Plane(i, l, "K")
      BY <2>7, PlaneParts
    <3>2. w[n].role # "K"
      BY <3>1
    <3>3. \E r \in 1 .. Len(R) : R[r] = "V"
      BY <2>5, <3>1
    <3> QED
      BY <2>2, <2>3, <2>7, <3>1, <3>2, <3>3, Zenon DEF R
  <2> QED
    BY <2>2, <2>6, <2>7, Zenon
<1> QED
  BY <1>9, <1>10, <1>11, Zenon DEF PairsUp, w, N

-----------------------------------------------------------------------------
(* Total adds up a sequence. *)
LEMMA TotalIs ==
  ASSUME NEW n \in Nat, NEW f, f \in [1 .. n -> Nat]
  PROVE  Total(f) = Sum(f, 1 .. n)
<1>1. f \in Seq(Nat) /\ DOMAIN f = 1 .. n
  OBVIOUS
<1>2. SeqSum(f) = Sum(f, DOMAIN f)
  BY <1>1, SeqSumIs
<1>3. Total(f) = SeqSum(f)
  BY DEF Total, SeqSum, FoldLeft, MapThenFoldSet
<1> QED
  BY <1>1, <1>2, <1>3, Zenon

(* The total of one number, and of two. *)
LEMMA TotalOfOne ==
  ASSUME NEW f, NEW x \in Nat, f = [r \in 1 .. 1 |-> x]
  PROVE  Total(f) = x
<1>1. f \in [1 .. 1 -> Nat] /\ f[0 + 1] = x /\ \A i \in 1 .. 1 : f[i] \in Nat
  OBVIOUS
<1>2. Total(f) = Sum(f, 1 .. 1)
  BY <1>1, TotalIs
<1>3. Sum(f, 1 .. 0) = 0 /\ Sum(f, 1 .. 0 + 1) = Sum(f, 1 .. 0) + f[0 + 1]
  <2>1. 0 \in 0 .. 1 /\ 0 + 1 \in 1 .. 1 /\ 1 \in Nat
    OBVIOUS
  <2> QED
    BY <1>1, <2>1, PrefixSums
<1>4. 0 + 1 = 1 /\ 0 + x = x
  OBVIOUS
<1> QED
  BY <1>1, <1>2, <1>3, <1>4, Zenon

LEMMA TotalOfTwo ==
  ASSUME NEW f, f \in [1 .. 2 -> Nat]
  PROVE  Total(f) = f[1] + f[2]
<1>1. \A i \in 1 .. 2 : f[i] \in Nat
  OBVIOUS
<1>2. Total(f) = Sum(f, 1 .. 2)
  BY TotalIs
<1>3. /\ Sum(f, 1 .. 0) = 0 /\ Sum(f, 1 .. 0 + 1) = Sum(f, 1 .. 0) + f[0 + 1]
      /\ Sum(f, 1 .. 1 + 1) = Sum(f, 1 .. 1) + f[1 + 1]
  <2>1. 0 \in 0 .. 2 /\ 0 + 1 \in 1 .. 2 /\ 1 \in 0 .. 2 /\ 1 + 1 \in 1 .. 2 /\ 2 \in Nat
    OBVIOUS
  <2> QED
    BY <1>1, <2>1, PrefixSums
<1>4. 0 + 1 = 1 /\ 1 + 1 = 2 /\ 0 + f[1] = f[1]
  BY <1>1
<1> QED
  BY <1>2, <1>3, <1>4, Zenon

(* The length of a plane is a number. *)
LEMMA PlaneBytesNat ==
  ASSUME NEW b, TypedBegin(b), NEW c \in LayoutClasses, NEW role
  PROVE  PlaneBytes(b, c, role) \in Nat
<1>1. c.window \in Nat /\ c.heads \in Nat /\ c.dim \in Nat
  BY DEF LayoutClasses
<1>2. Window(b, c) \in Nat /\ ElementBytes(b, role) \in Nat
  BY <1>1 DEF Window, ElementBytes, TypedBegin
<1> DEFINE x == Window(b, c)
           y == ElementBytes(b, role)
<1> HIDE DEF x, y
<1>3. \A p, r \in Nat : p * r \in Nat
  OBVIOUS
<1>4. x * c.heads * c.dim * y \in Nat
  BY <1>1, <1>2, <1>3, Zenon DEF x, y
<1> QED
  BY <1>4 DEF PlaneBytes, x, y

(* The walk has as many planes as the table declares. *)
LEMMA WalkCounts ==
  ASSUME NEW b, TypedBegin(b), IsV2(b), ValidBegin(b)
  PROVE  Len(LayoutWalk(b)) = FrameCount(b)
<1> DEFINE n == Len(b.table)
           q == ScheduleClassOrder(b)
           c == [i \in 1 .. n |-> Len(Layers(b.table[i])) * Len(b.table[i].roles)]
           d == [s \in 1 .. n |-> Len(Stage(b, s))]
<1>1. PICK o : Walked(b, o)
  BY WalkPlaces
<1>2. /\ n \in Nat
      /\ \A i \in 1 .. n : /\ b.table[i].roles \in {<<"K">>, <<"K", "V">>}
                           /\ Len(Layers(b.table[i])) \in Nat
  BY ValidTable
<1>3. Lists(1 .. n, q) /\ Len(q) = n
  BY OrderLists DEF TypedBegin
<1>4. \A s \in 1 .. n : q[s] \in 1 .. n /\ Sends(b, q[s], Stage(b, s)) /\ Len(Stage(b, s)) \in Nat
  BY Stages
<1>5. FrameCount(b) = Total(c)
  BY DEF FrameCount
<1>6. ASSUME NEW i \in 1 .. n
      PROVE  /\ b.table[i].roles = <<"K">> =>
                  Len(Layers(b.table[i])) * Len(b.table[i].roles) = Len(Layers(b.table[i]))
             /\ b.table[i].roles = <<"K", "V">> =>
                  Len(Layers(b.table[i])) * Len(b.table[i].roles) = 2 * Len(Layers(b.table[i]))
             /\ Len(Layers(b.table[i])) * Len(b.table[i].roles) \in Nat
  <2> DEFINE N == Len(Layers(b.table[i]))
             R == b.table[i].roles
  <2>1. N \in Nat /\ (R = <<"K">> \/ R = <<"K", "V">>)
    BY <1>2
  <2> HIDE DEF N, R
  <2>2. /\ R = <<"K">> => Len(R) = 1
        /\ R = <<"K", "V">> => Len(R) = 2
    OBVIOUS
  <2>3. N * 1 = N /\ N * 2 = 2 * N /\ 2 * N \in Nat
    BY <2>1
  <2>4. /\ R = <<"K">> => N * Len(R) = N
        /\ R = <<"K", "V">> => N * Len(R) = 2 * N
        /\ N * Len(R) \in Nat
    BY <2>1, <2>2, <2>3, Zenon
  <2> QED
    BY <2>4 DEF N, R
<1>7. ASSUME NEW s \in 1 .. n PROVE Len(Stage(b, s)) = c[q[s]]
  <2>1. q[s] \in 1 .. n /\ Sends(b, q[s], Stage(b, s))
    BY <1>4
  <2>2. c[q[s]] = Len(Layers(b.table[q[s]])) * Len(b.table[q[s]].roles)
    BY <2>1
  <2> HIDE DEF c
  <2>3. \/ b.table[q[s]].roles = <<"K">> /\ Len(Stage(b, s)) = Len(Layers(b.table[q[s]]))
        \/ b.table[q[s]].roles = <<"K", "V">> /\ Len(Stage(b, s)) = 2 * Len(Layers(b.table[q[s]]))
    BY <2>1, Zenon DEF Sends
  <2> QED
    BY <1>6, <2>1, <2>2, <2>3, Zenon
<1>8. c \in [1 .. n -> Nat] /\ \A i \in 1 .. n : c[i] \in Nat
  BY <1>6
<1>9. \A s \in 1 .. n : d[s] = Len(Stage(b, s)) /\ d[s] \in Nat
  BY <1>4
<1>10. /\ o \in [1 .. n + 1 -> Nat] /\ o[1] = 0 /\ Len(LayoutWalk(b)) = o[n + 1]
       /\ \A s \in 1 .. n : o[s + 1] = o[s] + Len(Stage(b, s))
  BY <1>1, Zenon DEF Walked
<1> HIDE DEF n, q, c, d
<1>11. o[n + 1] = Sum(d, 1 .. n)
  <2>1. \A s \in 1 .. n : d[s] \in Nat /\ o[s + 1] = o[s] + d[s]
    BY <1>9, <1>10, Zenon
  <2> QED
    BY <1>2, <1>10, <2>1, OffsetsAddUp
<1>12. Sum(d, 1 .. n) = Sum(c, 1 .. n)
  <2>1. \A s \in 1 .. Len(q) : d[s] = c[q[s]]
    BY <1>3, <1>7, <1>9, Zenon
  <2>2. Sum(d, 1 .. Len(q)) = Sum(c, 1 .. n)
    BY <1>3, <1>8, <2>1, SumReordered
  <2> QED
    BY <1>3, <2>2, Zenon
<1>13. Total(c) = Sum(c, 1 .. n)
  BY <1>2, <1>8, TotalIs
<1> QED
  BY <1>5, <1>10, <1>11, <1>12, <1>13, Zenon

(* The first k of the lengths v are numbers, and those of u come after the first a. *)
Lengths(b, u, k, v, a) ==
    /\ k \in Nat /\ a \in Nat /\ a + Len(u) <= k
    /\ \A x \in 1 .. k : v[x] \in Nat
    /\ \A j \in 1 .. Len(u) : v[a + j] = PlaneBytes(b, b.table[u[j].class], u[j].role)

(* What the planes of a stage add to the byte count is what its class declares. *)
LEMMA StageBytes ==
  ASSUME NEW b, TypedBegin(b), NEW i, b.table[i] \in LayoutClasses, NEW u, Sends(b, i, u),
         Len(Layers(b.table[i])) \in Nat, NEW k, NEW v, NEW a, Lengths(b, u, k, v, a)
  PROVE  /\ Sum(v, 1 .. a + Len(u)) = Sum(v, 1 .. a) + ClassBytes(b, b.table[i])
         /\ ClassBytes(b, b.table[i]) \in Nat
<1> DEFINE c == b.table[i]
           N == Len(Layers(c))
           B(r) == PlaneBytes(b, c, r)
           f == [r \in 1 .. Len(c.roles) |-> N * B(c.roles[r])]
<1>0. N \in Nat /\ \A r : B(r) \in Nat
  BY PlaneBytesNat
<1>1. ClassBytes(b, b.table[i]) = Total(f)
  BY DEF ClassBytes
<1>2. \A l, r : Plane(i, l, r).class = i /\ Plane(i, l, r).role = r
  BY PlaneParts
<1>3. /\ \A j \in 1 .. Len(u) : v[a + j] = PlaneBytes(b, b.table[u[j].class], u[j].role)
      /\ k \in Nat /\ a \in Nat /\ a + Len(u) <= k /\ \A x \in 1 .. k : v[x] \in Nat
  BY Zenon DEF Lengths
<1>4. ASSUME NEW j \in 1 .. Len(u), NEW l, NEW r, u[j] = Plane(i, l, r) PROVE v[a + j] = B(r)
  <2>1. u[j].class = i /\ u[j].role = r
    BY <1>2, <1>4
  <2> QED
    BY <1>3, <2>1, Zenon
<1>5. CASE /\ c.roles = <<"K">> /\ Len(u) = N
           /\ \A m \in 1 .. N : u[m] = Plane(i, Layers(c)[m], "K")
  <2> DEFINE x == B("K")
  <2>1. x \in Nat /\ N * x \in Nat
    BY <1>0
  <2>2. f = [r \in 1 .. 1 |-> N * x]
    BY <1>5
  <2>3. ASSUME NEW j \in 1 .. N PROVE v[a + j] = x
    <3>1. j \in 1 .. Len(u) /\ u[j] = Plane(i, Layers(c)[j], "K")
      BY <1>5
    <3> HIDE DEF B, c
    <3> QED
      BY <1>4, <3>1
  <2>6. a + N <= k /\ k \in Nat /\ a \in Nat /\ \A z \in 1 .. k : v[z] \in Nat
    BY <1>3, <1>5, Zenon
  <2>7. N \in Nat
    BY <1>0
  <2> HIDE DEF x, f, N
  <2>4. Total(f) = N * x
    BY <2>1, <2>2, TotalOfOne
  <2>8. RunsOne(k, v, a, N, x)
    BY <2>1, <2>3, <2>6, <2>7 DEF RunsOne
  <2>5. Sum(v, 1 .. a + N) = Sum(v, 1 .. a) + N * x
    BY <2>8, RunOfOne
  <2> QED
    BY <1>1, <1>5, <2>1, <2>4, <2>5, Zenon
<1>6. CASE /\ c.roles = <<"K", "V">> /\ Len(u) = 2 * N
           /\ \A m \in 1 .. N : u[2 * m - 1] = Plane(i, Layers(c)[m], "K") /\ u[2 * m] = Plane(i, Layers(c)[m], "V")
  <2> DEFINE x == B("K")
             y == B("V")
  <2>1. x \in Nat /\ y \in Nat /\ N * x \in Nat /\ N * y \in Nat /\ N * x + N * y \in Nat
    BY <1>0
  <2>2. f \in [1 .. 2 -> Nat] /\ f[1] = N * x /\ f[2] = N * y
    <3>1. f = [r \in 1 .. 2 |-> N * B(c.roles[r])] /\ c.roles[1] = "K" /\ c.roles[2] = "V"
      BY <1>6
    <3>2. \A r \in 1 .. 2 : N * B(c.roles[r]) \in Nat
      <4> HIDE DEF N, B
      <4>1. \A r : B(r) \in Nat
        BY <1>0
      <4> QED
        BY <1>0, <4>1
    <3> HIDE DEF f, N, B
    <3> QED
      BY <3>1, <3>2
  <2>3. ASSUME NEW j \in 1 .. N PROVE v[a + (2 * j - 1)] = x /\ v[a + 2 * j] = y
    <3>1. 2 * j - 1 \in 1 .. Len(u) /\ 2 * j \in 1 .. Len(u)
      BY <1>0, <1>6
    <3>2. u[2 * j - 1] = Plane(i, Layers(c)[j], "K") /\ u[2 * j] = Plane(i, Layers(c)[j], "V")
      BY <1>6
    <3> HIDE DEF B, c
    <3>3. v[a + (2 * j - 1)] = B("K")
      BY <1>4, <3>1, <3>2, Zenon
    <3>4. v[a + 2 * j] = B("V")
      BY <1>4, <3>1, <3>2, Zenon
    <3> QED
      BY <3>3, <3>4
  <2>6. a + 2 * N <= k /\ k \in Nat /\ a \in Nat /\ \A z \in 1 .. k : v[z] \in Nat
    BY <1>3, <1>6, Zenon
  <2>7. N \in Nat
    BY <1>0
  <2> HIDE DEF x, y, f, N
  <2>4. Total(f) = N * x + N * y
    BY <2>2, TotalOfTwo
  <2>8. RunsTwo(k, v, a, N, x, y)
    BY <2>1, <2>3, <2>6, <2>7, Zenon DEF RunsTwo
  <2>5. Sum(v, 1 .. a + 2 * N) = Sum(v, 1 .. a) + (N * x + N * y)
    BY <2>8, RunOfTwo
  <2> QED
    BY <1>1, <1>6, <2>1, <2>4, <2>5, Zenon
<1> QED
  BY <1>5, <1>6, Zenon DEF Sends

(* The planes of the walk add up to the declared bytes. *)
LEMMA WalkBytes ==
  ASSUME NEW b, TypedBegin(b), IsV2(b), ValidBegin(b)
  PROVE  LET w == LayoutWalk(b)
         IN  Total([n \in 1 .. Len(w) |-> PlaneBytes(b, b.table[w[n].class], w[n].role)])
               = DeclaredBytes(b)
<1> DEFINE n == Len(b.table)
           q == ScheduleClassOrder(b)
           w == LayoutWalk(b)
           v == [k \in 1 .. Len(w) |-> PlaneBytes(b, b.table[w[k].class], w[k].role)]
           c == [i \in 1 .. n |-> ClassBytes(b, b.table[i])]
           d == [s \in 1 .. n |-> c[q[s]]]
<1>1. PICK o : Walked(b, o)
  BY WalkPlaces
<1>2. /\ n \in Nat
      /\ \A i \in 1 .. n : b.table[i] \in LayoutClasses /\ Len(Layers(b.table[i])) \in Nat \ {0}
  BY ValidTable
<1>3. Lists(1 .. n, q) /\ Len(q) = n
  BY OrderLists DEF TypedBegin
<1>4. /\ \A s \in 1 .. n : q[s] \in 1 .. n /\ Sends(b, q[s], Stage(b, s)) /\ Len(Stage(b, s)) \in Nat
      /\ \A i \in 1 .. n : \E s \in 1 .. n : q[s] = i
  BY Stages
<1>5. DeclaredBytes(b) = Total(c)
  BY DEF DeclaredBytes
<1>10. /\ o \in [1 .. n + 1 -> Nat] /\ o[1] = 0 /\ Len(w) = o[n + 1]
       /\ \A s \in 1 .. n :
            /\ o[s + 1] = o[s] + Len(Stage(b, s))
            /\ \A j \in 1 .. Len(Stage(b, s)) : o[s] + j \in 1 .. Len(w) /\ w[o[s] + j] = Stage(b, s)[j]
  BY <1>1, Zenon DEF Walked
<1>6. Len(w) \in Nat
  <2>1. n + 1 \in 1 .. n + 1
    BY <1>2
  <2> HIDE DEF w, n
  <2> QED
    BY <1>10, <2>1
<1>7. \A k \in 1 .. Len(w) : w[k].class \in 1 .. n
  BY WalkPairs DEF PairsUp
<1>8. v \in [1 .. Len(w) -> Nat] /\ \A k \in 1 .. Len(w) : v[k] \in Nat
  <2>1. \A k \in 1 .. Len(w) : PlaneBytes(b, b.table[w[k].class], w[k].role) \in Nat
    BY <1>2, <1>7, PlaneBytesNat
  <2> QED
    BY <2>1
<1>9. \A k \in 1 .. Len(w) : v[k] = PlaneBytes(b, b.table[w[k].class], w[k].role)
  OBVIOUS
<1>c. \A i \in 1 .. n : c[i] = ClassBytes(b, b.table[i])
  OBVIOUS
<1>d. \A s \in 1 .. n : d[s] = c[q[s]]
  OBVIOUS
<1> HIDE DEF w, n, v, q
<1>11. ASSUME NEW s \in 1 .. n
       PROVE  /\ Sum(v, 1 .. o[s + 1]) = Sum(v, 1 .. o[s]) + ClassBytes(b, b.table[q[s]])
              /\ ClassBytes(b, b.table[q[s]]) \in Nat
  <2> DEFINE u == Stage(b, s)
             i == q[s]
  <2>1. i \in 1 .. n /\ Sends(b, i, u) /\ Len(u) \in Nat
    BY <1>4
  <2>2. b.table[i] \in LayoutClasses /\ Len(Layers(b.table[i])) \in Nat \ {0}
    BY <1>2, <2>1
  <2>3. o[s] \in Nat /\ o[s + 1] = o[s] + Len(u)
    <3>1. s \in 1 .. n + 1
      BY <1>2
    <3> QED
      BY <1>10, <3>1, Zenon
  <2>4. \A j \in 1 .. Len(u) : o[s] + j \in 1 .. Len(w) /\ w[o[s] + j] = u[j]
    BY <1>10, Zenon
  <2> HIDE DEF u, i
  <2>5. \A j \in 1 .. Len(u) : v[o[s] + j] = PlaneBytes(b, b.table[u[j].class], u[j].role)
    BY <1>9, <2>4
  <2>6. o[s] + Len(u) <= Len(w)
    <3>1. Len(u) = Len(Layers(b.table[i])) \/ Len(u) = 2 * Len(Layers(b.table[i]))
      BY <2>1, Zenon DEF Sends
    <3>2. Len(u) \in 1 .. Len(u)
      BY <2>1, <2>2, <3>1
    <3>3. o[s] + Len(u) \in 1 .. Len(w)
      BY <2>4, <3>2
    <3> QED
      BY <1>6, <3>3
  <2>7. /\ Sum(v, 1 .. o[s] + Len(u)) = Sum(v, 1 .. o[s]) + ClassBytes(b, b.table[i])
        /\ ClassBytes(b, b.table[i]) \in Nat
    <3>1. Len(Layers(b.table[i])) \in Nat
      BY <2>2
    <3>2. Lengths(b, u, Len(w), v, o[s])
      BY <1>6, <1>8, <2>3, <2>5, <2>6, Zenon DEF Lengths
    <3> QED
      BY <2>1, <2>2, <3>1, <3>2, StageBytes, Zenon
  <2> QED
    BY <2>3, <2>7, Zenon DEF i
<1>12. \A i \in 1 .. n : c[i] \in Nat
  <2> TAKE i \in 1 .. n
  <2>1. PICK s \in 1 .. n : q[s] = i
    BY <1>4
  <2> QED
    BY <1>c, <1>11, <2>1, Zenon
<1>t. c \in [1 .. n -> Nat]
  BY <1>12
<1> HIDE DEF c, d
<1>13. \A s \in 1 .. n : d[s] \in Nat /\ Sum(v, 1 .. o[s + 1]) = Sum(v, 1 .. o[s]) + d[s]
  <2> TAKE s \in 1 .. n
  <2>1. q[s] \in 1 .. n
    BY <1>4
  <2>2. d[s] = ClassBytes(b, b.table[q[s]])
    BY <1>c, <1>d, <2>1, Zenon
  <2> QED
    BY <1>11, <2>2, Zenon
<1>14. Sum(v, 1 .. o[n + 1]) = Sum(d, 1 .. n)
  <2>1. Segments(n, v, o, d)
    BY <1>2, <1>10, <1>13, Zenon DEF Segments
  <2> QED
    BY <2>1, SegmentsAddUp
<1>15. Sum(d, 1 .. n) = Sum(c, 1 .. n)
  <2>1. \A s \in 1 .. Len(q) : d[s] = c[q[s]]
    BY <1>3, <1>d, Zenon
  <2>2. Sum(d, 1 .. Len(q)) = Sum(c, 1 .. n)
    BY <1>3, <1>12, <2>1, SumReordered
  <2> QED
    BY <1>3, <2>2, Zenon
<1>16. Total(c) = Sum(c, 1 .. n)
  BY <1>2, <1>t, TotalIs
<1>17. Total(v) = Sum(v, 1 .. Len(w))
  BY <1>6, <1>8, TotalIs
<1>18. Total(v) = DeclaredBytes(b)
  BY <1>5, <1>10, <1>14, <1>15, <1>16, <1>17, Zenon
<1> QED
  BY <1>18 DEF v, w

(* A layout table that validation accepts streams. *)
LEMMA TableStreams ==
  ASSUME NEW b, TypedBegin(b), IsV2(b)
  PROVE  AcceptedBeginStreams(b)
<1> SUFFICES ASSUME ValidBegin(b) PROVE AcceptedBeginStreams(b)
  BY DEF AcceptedBeginStreams
<1> DEFINE w == Planes(b)
           E == [n \in 1 .. Len(w) |-> ExpectedBytes(b, n)]
<1>0. w = LayoutWalk(b)
  BY DEF Planes
<1>1. Len(w) = b.frames
  BY <1>0, WalkCounts DEF ValidBegin
<1>2. /\ {w[n].layer : n \in 1 .. Len(w)} = 0 .. b.layers - 1
      /\ \A n, m \in 1 .. Len(w) : w[n].layer = w[m].layer /\ w[n].role = w[m].role => n = m
      /\ \A n \in 1 .. Len(w) :
            /\ w[n].class \in 1 .. Len(b.table)
            /\ \E r \in 1 .. Len(b.table[w[n].class].roles) : w[n].role = b.table[w[n].class].roles[r]
            /\ w[n].role = "V" => n > 1 /\ w[n - 1] = [w[n] EXCEPT !.role = "K"]
            /\ w[n].role = "K" /\ Len(b.table[w[n].class].roles) # 1 =>
                   n < Len(w) /\ w[n + 1] = [w[n] EXCEPT !.role = "V"]
  <2>1. PairsUp(b, w)
    BY <1>0, WalkPairs, Zenon
  <2> QED
    BY <2>1, Zenon DEF PairsUp
<1>3. \A n \in 1 .. Len(w) : ExpectedBytes(b, n) = PlaneBytes(b, b.table[w[n].class], w[n].role)
  BY DEF ExpectedBytes
<1>4. \A n \in 1 .. Len(w) : IsSingleRole(b, n) <=> Len(b.table[w[n].class].roles) = 1
  BY DEF IsSingleRole
<1>5. Total(E) = b.bytes
  <2> DEFINE F == [n \in 1 .. Len(w) |-> PlaneBytes(b, b.table[w[n].class], w[n].role)]
  <2>1. E = F
    BY <1>3
  <2>2. Total(F) = DeclaredBytes(b)
    <3> HIDE DEF w
    <3> QED
      BY <1>0, WalkBytes
  <2>3. DeclaredBytes(b) = b.bytes
    BY DEF ValidBegin
  <2> QED
    BY <2>1, <2>2, <2>3, Zenon
<1>6. ASSUME NEW n \in 1 .. Len(w) PROVE ExpectedBytes(b, n) <= MaxFrameBytes
  <2> DEFINE c == b.table[w[n].class]
  <2>1. w[n].class \in 1 .. Len(b.table)
    BY <1>2
  <2>2. c \in LayoutClasses /\ ValidClass(b, c)
    BY <2>1, ValidTable
  <2>3. PICK r \in 1 .. Len(c.roles) : w[n].role = c.roles[r]
    BY <1>2
  <2> HIDE DEF c, w
  <2> DEFINE x == PlaneBytes(b, c, c.roles[r])
  <2>4. x <= IF MaxFrameBytes < U64Max THEN MaxFrameBytes ELSE U64Max
    BY <2>2 DEF ValidClass
  <2>5. x \in Nat
    BY <2>2, PlaneBytesNat
  <2>6. ExpectedBytes(b, n) = x
    BY <1>3, <2>3, Zenon DEF c
  <2> HIDE DEF x
  <2>7. x <= MaxFrameBytes
    BY <2>4, <2>5, LimitsAssumption
  <2> QED
    BY <2>6, <2>7
<1> HIDE DEF E, w
<1>7. \A n \in 1 .. Len(w) :
         /\ ExpectedBytes(b, n) <= MaxFrameBytes
         /\ w[n].role = "V" => n > 1 /\ w[n - 1] = [w[n] EXCEPT !.role = "K"]
         /\ w[n].role = "K" /\ ~IsSingleRole(b, n) =>
                n < Len(w) /\ w[n + 1] = [w[n] EXCEPT !.role = "V"]
  BY <1>2, <1>4, <1>6, Zenon
<1> QED
  BY <1>1, <1>2, <1>5, <1>7, Zenon DEF AcceptedBeginStreams, E, w

(* Products, as the bytes of a flat begin are written. *)
LEMMA FlatProduct ==
  ASSUME NEW l \in Nat, NEW t \in Nat, NEW h \in Nat, NEW d \in Nat
  PROVE  /\ 2 * l * t * h * d * 2 = (2 * l) * (t * h * d * 2)
         /\ t * h * d * 2 \in Nat /\ 2 * l * t * h * d * 2 \in Nat
<1>1. \A p, r \in Nat : p * r \in Nat
  OBVIOUS
<1>2. \A p, r, s \in Nat : (p * r) * s = p * (r * s)
  OBVIOUS
<1> DEFINE F == 2 * l
<1>3. F \in Nat
  OBVIOUS
<1> HIDE DEF F
<1>4. t * h \in Nat /\ t * h * d \in Nat /\ F * t \in Nat /\ F * t * h \in Nat /\ F * t * h * d \in Nat
      /\ t * h * d * 2 \in Nat /\ F * t * h * d * 2 \in Nat
  BY <1>1, <1>3
<1>5. F * t * h = F * (t * h)
  BY <1>2, <1>3, Zenon
<1>6. F * (t * h) * d = F * (t * h * d)
  <2> DEFINE y == t * h
  <2> HIDE DEF y
  <2>1. y \in Nat
    BY <1>4 DEF y
  <2>2. F * y * d = F * (y * d)
    BY <1>2, <1>3, <2>1
  <2> QED
    BY <2>2 DEF y
<1>7. F * (t * h * d) * 2 = F * (t * h * d * 2)
  BY <1>2, <1>3, <1>4
<1> QED
  BY <1>4, <1>5, <1>6, <1>7 DEF F

(* A flat begin's bytes divide evenly among its frames. *)
LEMMA QuotientOfProduct ==
  ASSUME NEW F \in Nat, F # 0, NEW x \in Nat
  PROVE  (F * x) \div F = x
OBVIOUS

(* So does a flat begin. *)
LEMMA FlatStreams ==
  ASSUME NEW b, TypedBegin(b), ~IsV2(b)
  PROVE  AcceptedBeginStreams(b)
<1> SUFFICES ASSUME ValidBegin(b) PROVE AcceptedBeginStreams(b)
  BY DEF AcceptedBeginStreams
<1> DEFINE w == Planes(b)
           l == b.layers
           F == 2 * l
           x == b.cached * b.heads * b.dim * 2
           E == [n \in 1 .. Len(w) |-> ExpectedBytes(b, n)]
<1>1. b.layers \in Nat /\ b.cached \in Nat /\ b.heads \in Nat /\ b.dim \in Nat /\ b.layers # 0
  BY LimitsAssumption DEF TypedBegin, ValidBegin
<1>2. /\ b.frames = F /\ b.bytes = 2 * b.layers * b.cached * b.heads * b.dim * 2
      /\ b.bytes \div b.frames <= MaxFrameBytes
  BY DEF ValidBegin, FrameCount, DeclaredBytes
<1>3. x \in Nat /\ b.bytes = F * x
  BY <1>1, <1>2, FlatProduct
<1>4. w = [n \in 1 .. F |-> [class |-> 0, layer |-> (n - 1) \div 2,
                             role |-> IF n % 2 = 1 THEN "K" ELSE "V"]]
  BY DEF Planes
<1>5. \A n : ExpectedBytes(b, n) = b.bytes \div b.frames /\ ~IsSingleRole(b, n)
  BY <1>2 DEF ExpectedBytes, IsSingleRole
<1>6. l \in Nat /\ F \in Nat /\ F # 0 /\ F = 2 * l
  BY <1>1
<1> HIDE DEF w, x, F, l
<1>7. Len(w) = F /\ Len(w) = b.frames
  BY <1>2, <1>4, <1>6
<1>8. b.bytes \div b.frames = x
  BY <1>2, <1>3, <1>6, QuotientOfProduct
<1>w. \A n \in 1 .. F : w[n] = Plane(0, (n - 1) \div 2, IF n % 2 = 1 THEN "K" ELSE "V")
  BY <1>4 DEF Plane
<1>p. \A n \in 1 .. F : /\ w[n].layer = (n - 1) \div 2
                        /\ w[n].role = "K" <=> n % 2 = 1
                        /\ w[n].role = "V" <=> n % 2 # 1
  BY <1>4
<1>9. {w[n].layer : n \in 1 .. Len(w)} = 0 .. l - 1
  <2>1. ASSUME NEW n \in 1 .. F PROVE w[n].layer \in 0 .. l - 1
    <3>1. (n - 1) \div 2 \in 0 .. l - 1
      BY <1>6
    <3> QED
      BY <1>p, <3>1
  <2>2. ASSUME NEW y \in 0 .. l - 1 PROVE \E n \in 1 .. F : w[n].layer = y
    <3>1. 2 * y + 1 \in 1 .. F /\ ((2 * y + 1) - 1) \div 2 = y
      BY <1>6
    <3> QED
      BY <1>p, <3>1
  <2> QED
    BY <1>7, <2>1, <2>2
<1>10. ASSUME NEW n \in 1 .. F, NEW m \in 1 .. F, w[n].layer = w[m].layer, w[n].role = w[m].role
       PROVE  n = m
  <2>1. (n - 1) \div 2 = (m - 1) \div 2 /\ (n % 2 = 1 <=> m % 2 = 1)
    BY <1>p, <1>10
  <2> QED
    BY <1>6, <2>1
<1>11. ASSUME NEW n \in 1 .. F, w[n].role = "V"
       PROVE  n > 1 /\ w[n - 1] = [w[n] EXCEPT !.role = "K"]
  <2>1. n % 2 # 1
    BY <1>p, <1>11
  <2>2. n > 1 /\ n - 1 \in 1 .. F /\ (n - 1) % 2 = 1 /\ ((n - 1) - 1) \div 2 = (n - 1) \div 2
    BY <1>6, <2>1
  <2>3. w[n] = Plane(0, (n - 1) \div 2, "V")
    BY <1>w, <2>1
  <2>4. w[n - 1] = Plane(0, (n - 1) \div 2, "K")
    <3>1. w[n - 1] = Plane(0, ((n - 1) - 1) \div 2, IF (n - 1) % 2 = 1 THEN "K" ELSE "V")
      BY <1>w, <2>2
    <3> QED
      BY <2>2, <3>1
  <2> QED
    BY <2>2, <2>3, <2>4, PlaneParts
<1>12. ASSUME NEW n \in 1 .. F, w[n].role = "K"
       PROVE  n < F /\ w[n + 1] = [w[n] EXCEPT !.role = "V"]
  <2>1. n % 2 = 1
    BY <1>p, <1>12
  <2>2. n < F /\ n + 1 \in 1 .. F /\ (n + 1) % 2 # 1 /\ ((n + 1) - 1) \div 2 = (n - 1) \div 2
    BY <1>6, <2>1
  <2>3. w[n] = Plane(0, (n - 1) \div 2, "K")
    BY <1>w, <2>1
  <2>4. w[n + 1] = Plane(0, (n - 1) \div 2, "V")
    <3>1. w[n + 1] = Plane(0, ((n + 1) - 1) \div 2, IF (n + 1) % 2 = 1 THEN "K" ELSE "V")
      BY <1>w, <2>2
    <3> QED
      BY <2>2, <3>1
  <2> QED
    BY <2>2, <2>3, <2>4, PlaneParts
<1>13. Total(E) = b.bytes
  <2>1. E = [n \in 1 .. F |-> x]
    BY <1>5, <1>7, <1>8
  <2> HIDE DEF E
  <2>2. Total(E) = Sum(E, 1 .. F)
    BY <1>3, <1>6, <2>1, TotalIs
  <2>3. RunsOne(F, E, 0, F, x)
    BY <1>3, <1>6, <2>1 DEF RunsOne
  <2>4. Sum(E, 1 .. 0 + F) = Sum(E, 1 .. 0) + F * x
    BY <2>3, RunOfOne
  <2>5. Sum(E, 1 .. 0) = 0
    BY <1>6, <2>3, PrefixSums DEF RunsOne
  <2>6. 0 + F = F /\ 0 + F * x = F * x
    BY <1>3, <1>6
  <2> QED
    BY <1>3, <2>2, <2>4, <2>5, <2>6, Zenon
<1>14. \A n \in 1 .. Len(w) :
         /\ ExpectedBytes(b, n) <= MaxFrameBytes
         /\ w[n].role = "V" => n > 1 /\ w[n - 1] = [w[n] EXCEPT !.role = "K"]
         /\ w[n].role = "K" /\ ~IsSingleRole(b, n) =>
                n < Len(w) /\ w[n + 1] = [w[n] EXCEPT !.role = "V"]
  BY <1>2, <1>5, <1>7, <1>11, <1>12, Zenon
<1>15. \A n, m \in 1 .. Len(w) : w[n].layer = w[m].layer /\ w[n].role = w[m].role => n = m
  BY <1>7, <1>10, Zenon
<1> HIDE DEF E
<1> QED
  BY <1>7, <1>9, <1>13, <1>14, <1>15, Zenon DEF AcceptedBeginStreams, E, w, l

(* Every begin that validate accepts can be streamed to its end, whatever the limits, the
   number of classes and layers, the windows and the schedule: the walk has the declared
   planes and bytes, every layer once in each role of its class, K directly before V, and no
   plane above the frame bound (manifest/validation.rs:205-299). *)
THEOREM AcceptedBeginsStream ==
  ASSUME NEW b, TypedBegin(b)
  PROVE  AcceptedBeginStreams(b)
BY TableStreams, FlatStreams

-----------------------------------------------------------------------------
(* So the last frame of the armed begin completes its layer. *)
LEMMA WalkEndsComplete == EndsComplete
<1>1. TypedBegin(Begin) /\ ValidBegin(Begin)
  BY HandoffAssumption
<1>2. AcceptedBeginStreams(Begin)
  BY <1>1, AcceptedBeginsStream
<1>3. Begin.frames \in Nat
  BY <1>1 DEF TypedBegin
<1>4. /\ Frames = Begin.frames
      /\ \A n \in 1 .. Frames :
            Walk[n].role = "K" /\ ~IsSingleRole(Begin, n) => n < Frames
  BY <1>1, <1>2 DEF AcceptedBeginStreams, Frames, Walk
<1>5. Frames > 0 => Frames \in 1 .. Frames
  BY <1>3, <1>4
<1> QED
  BY <1>3, <1>4, <1>5 DEF EndsComplete

(* An honest script starts honestly. *)
LEMMA HonestInit ==
  ASSUME Init, HonestScript(wire), EndsComplete
  PROVE  HonestOrExcused
<1>1. /\ DOMAIN wire = {0} /\ wire[0] \in Seq(FrameRecords) /\ Len(wire[0]) = Frames + 2
      /\ Frames \in Nat
  BY HandoffAssumption DEF Init, HonestScript, FrameRecords, EndsComplete
<1>2. \A i \in 1 .. Len(wire[0]) : Due(wire[0][i], 0 + i)
  <2>1. TAKE i \in 1 .. Len(wire[0])
  <2>2. wire[0][i] \in FrameRecords /\ wire[0][i].ok
    BY <1>1 DEF HonestScript
  <2>3. i = 1 => wire[0][i].kind = "BEGIN"
    BY DEF HonestScript
  <2>4. i = Frames + 2 => wire[0][i].kind = "SEAL"
    BY DEF HonestScript
  <2>5. ASSUME i \in 2 .. Frames + 1
        PROVE  /\ wire[0][i].kind = "LAYER" /\ wire[0][i].seq = i - 1
               /\ wire[0][i].role = Walk[i - 1].role
    <3>1. i - 1 \in 1 .. Frames /\ (i - 1) + 1 = i
      BY <1>1, <2>5
    <3>2. \A n \in 1 .. Frames : wire[0][n + 1].kind = "LAYER" /\ wire[0][n + 1].seq = n
                                 /\ wire[0][n + 1].role = Walk[n].role
      BY DEF HonestScript
    <3>3. /\ wire[0][(i - 1) + 1].kind = "LAYER" /\ wire[0][(i - 1) + 1].seq = i - 1
          /\ wire[0][(i - 1) + 1].role = Walk[i - 1].role
      BY <3>1, <3>2
    <3> QED
      BY <3>1, <3>3
  <2>6. 0 + i = i
    BY <1>1
  <2> QED
    BY <2>2, <2>3, <2>4, <2>5, <2>6 DEF Due
<1>3. Rest(0)
  BY <1>1, <1>2 DEF Rest
<1>4. HonestLine
  BY <1>1 DEF HonestLine, Init, Start
<1>5. HonestPlaces /\ HonestCursor /\ HonestMarks /\ faults = 0
  BY <1>3 DEF Init, Start, HonestPlaces, HonestCursor, HonestMarks, Starting, Accepting
<1> QED
  BY <1>4, <1>5 DEF HonestOrExcused, Honest

(* An honest single stream is refused only because of a fault, an interrupt or a lost
   connection, for every begin that the receiver accepts. *)
THEOREM HonestIsNotRefused == Spec => HonestNotRefused
<1>1. EndsComplete
  BY WalkEndsComplete
<1>2. Init /\ HonestScript(wire) => HonestOrExcused
  BY <1>1, HonestInit
<1>3. SessionInv /\ HonestOrExcused /\ [Next]_vars => HonestOrExcused'
  BY <1>1, HonestStep
<1>4. HonestOrExcused => (pc \in {"cleanup", "aborted"} => Interrupted \/ faults > 0)
  BY DEF HonestOrExcused, Excused, Honest, HonestPlaces, Starting, Accepting
<1> QED
  BY <1>2, <1>3, <1>4, SessionInvariant, PTL DEF Spec, HonestNotRefused

-----------------------------------------------------------------------------
(* The live generation is touched by the commit alone.                     *)
LiveOnlyCommitted == state # "committed" => live = {}

LEMMA LiveStep == ASSUME LiveOnlyCommitted, [NextV2]_rvars PROVE LiveOnlyCommitted'
<1> USE DEF LiveOnlyCommitted
<1>1. CASE BeginReceiver BY <1>1 DEF BeginReceiver
<1>2. ASSUME NEW seq, NEW good, SegmentReady(seq, good) PROVE LiveOnlyCommitted'
  BY <1>2 DEF SegmentReady, AcceptSegment, Abort
<1>3. ASSUME NEW d, NEW good, SegmentReadyDeferred(d, good) PROVE LiveOnlyCommitted'
  BY <1>3 DEF SegmentReadyDeferred, AcceptSegment, Abort
<1>4. ASSUME NEW s, PrepareCommit(s) PROVE LiveOnlyCommitted'
  BY <1>4 DEF PrepareCommit, SealMatches, Abort
<1>5. CASE Commit BY <1>5 DEF Commit, Abort
<1>6. CASE Abort BY <1>6 DEF Abort
<1>7. CASE UNCHANGED rvars BY <1>7 DEF rvars
<1> QED BY <1>1, <1>2, <1>3, <1>4, <1>5, <1>6, <1>7 DEF NextV2

LEMMA AbortMaps ==
    ASSUME LiveOnlyCommitted, Abort
    PROVE  [TransferV2!Next]_(TransferV2!vars)
<1>1. CASE state \in {"committed", "aborted"}
  BY <1>1 DEF Abort, Outcome, TransferV2!vars
<1>2. CASE state \notin {"committed", "aborted"}
  <2>1. TransferV2!Refuse BY <1>2 DEF Abort, Outcome, TransferV2!Refuse
  <2> QED BY <2>1 DEF TransferV2!Next
<1> QED BY <1>1, <1>2

LEMMA SegmentMaps ==
    ASSUME LiveOnlyCommitted, NEW d, NEW good, state = "receiving", AcceptSegment(d, good)
    PROVE  [TransferV2!Next]_(TransferV2!vars)
<1>1. CASE Abort BY <1>1, AbortMaps
<1>2. CASE UNCHANGED <<begin, state, live>>
  <2>1. TransferV2!Stream BY <1>2 DEF LiveOnlyCommitted, Outcome, TransferV2!Stream
  <2> QED BY <2>1 DEF TransferV2!Next
<1> QED BY <1>1, <1>2 DEF AcceptSegment

LEMMA StepMaps ==
    ASSUME LiveOnlyCommitted, [NextV2]_rvars
    PROVE  [TransferV2!Next]_(TransferV2!vars)
<1>1. CASE BeginReceiver
  <2>1. CASE state' = "receiving"
    BY <1>1, <2>1 DEF BeginReceiver, Outcome, TransferV2!vars
  <2>2. CASE state' = "rejected"
    <3>1. TransferV2!Refuse BY <1>1, <2>2 DEF BeginReceiver, Outcome, TransferV2!Refuse
    <3> QED BY <3>1 DEF TransferV2!Next
  <2> QED BY <1>1, <2>1, <2>2 DEF BeginReceiver
<1>2. ASSUME NEW seq, NEW good, SegmentReady(seq, good)
      PROVE  [TransferV2!Next]_(TransferV2!vars)
  BY <1>2, AbortMaps, SegmentMaps DEF SegmentReady
<1>3. ASSUME NEW d, NEW good, SegmentReadyDeferred(d, good)
      PROVE  [TransferV2!Next]_(TransferV2!vars)
  BY <1>3, AbortMaps, SegmentMaps DEF SegmentReadyDeferred
<1>4. ASSUME NEW s, PrepareCommit(s) PROVE [TransferV2!Next]_(TransferV2!vars)
  <2>1. CASE Abort BY <2>1, AbortMaps
  <2>2. CASE SealMatches(s) /\ UNCHANGED <<shadow, live>> /\ state' \in {"prepared", state}
    BY <2>2 DEF SealMatches, Outcome, TransferV2!vars
  <2> QED BY <1>4, <2>1, <2>2 DEF PrepareCommit
<1>5. CASE Commit
  <2>1. CASE Abort BY <2>1, AbortMaps
  <2>2. CASE state = "prepared" /\ state' = "committed" /\ live' = shadow /\ UNCHANGED shadow
    <3>1. TransferV2!InstallAndAccept
      BY <2>2 DEF LiveOnlyCommitted, Outcome, TransferV2!InstallAndAccept
    <3> QED BY <3>1 DEF TransferV2!Next
  <2> QED BY <1>5, <2>1, <2>2 DEF Commit
<1>6. CASE Abort BY <1>6, AbortMaps
<1>7. CASE UNCHANGED rvars BY <1>7 DEF rvars, Outcome, TransferV2!vars
<1> QED BY <1>1, <1>2, <1>3, <1>4, <1>5, <1>6, <1>7 DEF NextV2

(* Protocol v2 installs the whole transfer in the step that reports        *)
(* success, and nothing after a refusal, for any manifests, descriptors    *)
(* and seals (AtomicReceiverV2::commit and abort, handoff_v2.rs).          *)
THEOREM ImplementsTransfer == SpecV2 => RefinesTransferV2
<1>1. InitV2 => LiveOnlyCommitted BY DEF InitV2, StartV2, LiveOnlyCommitted
<1>2. InitV2 => TransferV2!Init BY DEF InitV2, StartV2, Outcome, TransferV2!Init
<1> QED BY <1>1, <1>2, LiveStep, StepMaps, PTL DEF SpecV2, RefinesTransferV2, TransferV2!Spec
-----------------------------------------------------------------------------
(* The shadow holds declared segments up to the cursor, or streamed ones   *)
(* whose ranges were recorded; neither kind overlaps another.              *)
Disjoint(S) == \A d, e \in S : d # e => ~Overlaps(RangeOf(d), RangeOf(e))

DisjointInv ==
    /\ begin \in Begins
    /\ next \in Nat
    /\ state \notin {"offered", "rejected"} => ValidatedBegin(begin)
    /\ \A d \in shadow \cup live : IsSegment(d)
    /\ begin.deferred => \A d \in shadow : RangeOf(d) \in ranges
    /\ ~begin.deferred => \A d \in shadow : \E i \in 1 .. Len(begin.segments) :
                              i <= next /\ d = begin.segments[i]
    /\ Disjoint(shadow) /\ Disjoint(live)

LEMMA OverlapsSymmetric ==
    ASSUME NEW r, NEW q, Overlaps(r, q) PROVE Overlaps(q, r)
BY DEF Overlaps

LEMMA AbortKeeps ==
    ASSUME DisjointInv, Abort, ranges' = ranges \/ shadow' = {} \/ (begin.deferred /\ ranges \subseteq ranges')
    PROVE  DisjointInv'
<1>1. CASE shadow' = {}
  BY <1>1 DEF Abort, DisjointInv, Disjoint
<1>2. CASE UNCHANGED <<state, shadow>>
  BY <1>2 DEF Abort, DisjointInv, Disjoint
<1> QED BY <1>1, <1>2 DEF Abort

(* A segment that overlaps none of the shadow's may join it. *)
LEMMA JoinKeeps ==
    ASSUME NEW S, NEW d, Disjoint(S), \A e \in S : ~Overlaps(RangeOf(d), RangeOf(e))
    PROVE  Disjoint(S \cup {d})
BY OverlapsSymmetric DEF Disjoint

LEMMA DeclaredKeeps ==
    ASSUME DisjointInv, NEW seq, NEW good, SegmentReady(seq, good)
    PROVE  DisjointInv'
<1>1. CASE Abort BY <1>1, AbortKeeps DEF SegmentReady
<1> DEFINE d == begin.segments[next + 1]
<1>2. CASE /\ state = "receiving" /\ next < Len(begin.segments)
           /\ shadow' = shadow \cup {d} /\ next' = next + 1
           /\ UNCHANGED <<begin, state, live, ranges>>
  <2>1. next + 1 \in 1 .. Len(begin.segments) /\ IsSegment(d) /\ Len(begin.segments) \in Nat
    BY <1>2, ManifestsAssumption DEF DisjointInv
  <2>2. ValidatedBegin(begin) BY <1>2 DEF DisjointInv
  <2>3. ~begin.deferred BY <2>1, <2>2, <1>2 DEF ValidatedBegin
  <2>4. \A e \in shadow : ~Overlaps(RangeOf(d), RangeOf(e))
    <3>1. TAKE e \in shadow
    <3>2. PICK i \in 1 .. Len(begin.segments) : i <= next /\ e = begin.segments[i]
      BY <2>3, <3>1 DEF DisjointInv
    <3>3. i \in 1 .. (next + 1) - 1 BY <3>2, <2>1 DEF DisjointInv
    <3>4. ValidDescriptor(d, begin.components,
                          {RangeOf(begin.segments[j]) : j \in 1 .. (next + 1) - 1})
      BY <2>1, <2>2 DEF ValidatedBegin
    <3> QED BY <3>2, <3>3, <3>4 DEF ValidDescriptor
  <2>5. Disjoint(shadow') BY <1>2, <2>4, JoinKeeps DEF DisjointInv
  <2>6. \A f \in shadow' : \E i \in 1 .. Len(begin.segments) : i <= next' /\ f = begin.segments[i]
    <3>1. TAKE f \in shadow'
    <3>2. CASE f = d BY <3>2, <1>2, <2>1 DEF DisjointInv
    <3>3. CASE f \in shadow
      <4>1. PICK i \in 1 .. Len(begin.segments) : i <= next /\ f = begin.segments[i]
        BY <2>3, <3>3 DEF DisjointInv
      <4>2. i <= next' BY <4>1, <2>1, <1>2 DEF DisjointInv
      <4> QED BY <4>1, <4>2
    <3> QED BY <1>2, <3>1, <3>2, <3>3
  <2>7. \A f \in shadow' \cup live' : IsSegment(f) BY <1>2, <2>1 DEF DisjointInv
  <2> QED BY <1>2, <2>1, <2>3, <2>5, <2>6, <2>7 DEF DisjointInv, Disjoint
<1> QED BY <1>1, <1>2 DEF SegmentReady, AcceptSegment

LEMMA StreamedKeeps ==
    ASSUME DisjointInv, NEW d \in Descriptors, NEW good,
           SegmentReadyDeferred(d, good)
    PROVE  DisjointInv'
<1>1. CASE Abort
  BY <1>1, AbortKeeps DEF SegmentReadyDeferred
<1>2. CASE /\ begin.deferred /\ ValidDescriptor(d, begin.components, ranges)
           /\ state = "receiving" /\ ranges' = ranges \cup {RangeOf(d)}
           /\ shadow' = shadow \cup {d} /\ next' = next + 1
           /\ UNCHANGED <<begin, state, live>>
  <2>1. \A e \in shadow : ~Overlaps(RangeOf(d), RangeOf(e))
    BY <1>2 DEF DisjointInv, ValidDescriptor
  <2>2. Disjoint(shadow') BY <1>2, <2>1, JoinKeeps DEF DisjointInv
  <2>3. \A f \in shadow' \cup live' : IsSegment(f) BY <1>2, ManifestsAssumption DEF DisjointInv
  <2>4. \A f \in shadow' : RangeOf(f) \in ranges' BY <1>2 DEF DisjointInv
  <2> QED BY <1>2, <2>2, <2>3, <2>4 DEF DisjointInv, Disjoint
<1> QED BY <1>1, <1>2 DEF SegmentReadyDeferred, AcceptSegment

LEMMA DisjointStep ==
    ASSUME DisjointInv, [NextV2]_rvars PROVE DisjointInv'
<1>1. CASE BeginReceiver BY <1>1 DEF BeginReceiver, DisjointInv, Disjoint
<1>2. ASSUME NEW s, PrepareCommit(s) PROVE DisjointInv'
  <2>1. CASE Abort BY <1>2, <2>1, AbortKeeps DEF PrepareCommit
  <2>2. CASE SealMatches(s) /\ UNCHANGED <<begin, next, shadow, live, ranges>>
    BY <2>2, <1>2 DEF DisjointInv, Disjoint, SealMatches
  <2> QED BY <1>2, <2>1, <2>2 DEF PrepareCommit
<1>3. CASE Commit
  <2>1. CASE Abort BY <1>3, <2>1, AbortKeeps DEF Commit
  <2>2. CASE state = "prepared" /\ live' = shadow /\ UNCHANGED <<begin, next, shadow, ranges>>
    BY <2>2 DEF DisjointInv, Disjoint
  <2> QED BY <1>3, <2>1, <2>2 DEF Commit
<1>4. CASE Abort /\ UNCHANGED <<hashed, ranges>> BY <1>4, AbortKeeps
<1>5. CASE UNCHANGED rvars BY <1>5 DEF rvars, DisjointInv, Disjoint
<1> QED BY <1>1, <1>2, <1>3, <1>4, <1>5, DeclaredKeeps, StreamedKeeps DEF NextV2

(* Ranges that do not overlap share no token. *)
LEMMA DisjointTokens ==
    ASSUME NEW d, NEW e, IsSegment(d), IsSegment(e), d.comp = e.comp, d.plane = e.plane,
           ~Overlaps(RangeOf(d), RangeOf(e))
    PROVE  Tokens(d) \cap Tokens(e) = {}
BY DEF IsSegment, Overlaps, RangeOf, Tokens

(* No token of a plane is installed twice, however many components, planes *)
(* and segments a transfer has, declared or streamed                       *)
(* (validate_segment_descriptor, handoff_v2.rs).                           *)
THEOREM InstalledIsDisjoint == SpecV2 => []InstalledDisjoint
<1>1. InitV2 => DisjointInv BY DEF InitV2, StartV2, DisjointInv, Disjoint
<1>2. DisjointInv => InstalledDisjoint
  BY DisjointTokens DEF DisjointInv, Disjoint, InstalledDisjoint
<1> QED BY <1>1, <1>2, DisjointStep, PTL DEF SpecV2
=============================================================================
