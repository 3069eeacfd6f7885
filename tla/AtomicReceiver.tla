--------------------------- MODULE AtomicReceiver ---------------------------
(***************************************************************************)
(* AtomicReceiverV2, the receiver of handoff protocol v2 (crates/          *)
(* kvpack-handoff/src/handoff_v2.rs): segments go into a detached shadow   *)
(* of the engine and become its live generation when an authenticated seal *)
(* has been verified against all of them.                                  *)
(*                                                                         *)
(* A begin is a record [valid, components, deferred, segments], components *)
(* a function from ids to [kind, required].  A descriptor is a record      *)
(* [seq, comp, plane, start, count, valid]; plane is the role and layer,   *)
(* valid the digest's form, the element type and the byte geometry.  A     *)
(* digest is the sequence of what was hashed.                              *)
(***************************************************************************)
EXTENDS Naturals, Sequences

CONSTANTS
    Begins,        \* begin manifests a producer may send
    Descriptors,   \* descriptors a streaming producer may send
    Seals          \* [digest, count, identity, hex, mac]

VARIABLES
    begin,
    state,         \* "idle", "offered", "rejected", then State
    hashed,        \* descriptors in descriptor_hash and payload_hash
    next,          \* segments accepted
    ranges,        \* deferred_ranges: [comp, plane, start, stop]
    seen,          \* seen_components
    shadow, live   \* the sink's segments

rvars == <<begin, state, hashed, next, ranges, seen, shadow, live>>

(* Positions and counts are natural numbers (u64 in the manifests). *)
IsSegment(d) == d.start \in Nat /\ d.count \in Nat

ASSUME ManifestsAssumption ==
    /\ \A d \in Descriptors : IsSegment(d)
    /\ \A b \in Begins : /\ Len(b.segments) \in Nat
                         /\ \A i \in 1 .. Len(b.segments) : IsSegment(b.segments[i])

(* No transfer is offered, or one is. *)
StartV2(s) ==
    /\ state = s
    /\ hashed = <<>> /\ next = 0 /\ ranges = {} /\ seen = {} /\ shadow = {} /\ live = {}

InitV2 == begin \in Begins /\ StartV2("offered")

-----------------------------------------------------------------------------
RangeOf(d) == [comp |-> d.comp, plane |-> d.plane, start |-> d.start, stop |-> d.start + d.count]

(* Mutant: only the start of a range is compared. *)
OverlapsStart(r, q) == r.comp = q.comp /\ r.plane = q.plane /\ r.start = q.start

Overlaps(r, q) ==
    /\ r.comp = q.comp /\ r.plane = q.plane
    /\ r.start < q.stop /\ q.start < r.stop

(* validate_segment_descriptor, against the ranges so far *)
ValidDescriptor(d, components, taken) ==
    /\ d.comp \in DOMAIN components /\ d.count # 0 /\ d.valid
    /\ \A q \in taken : ~Overlaps(RangeOf(d), q)

(* ValidatedBeginV2::validate.  Only a DFlash component must have segments. *)
ValidatedBegin(b) ==
    /\ b.valid /\ DOMAIN b.components # {}
    /\ b.deferred <=> b.segments = <<>>
    /\ \E c \in DOMAIN b.components : b.components[c].required /\ b.components[c].kind = "target"
    /\ \A i \in 1 .. Len(b.segments) :
         /\ b.segments[i].seq = i
         /\ ValidDescriptor(b.segments[i], b.components,
                            {RangeOf(b.segments[j]) : j \in 1 .. i - 1})
    /\ (~b.deferred /\ \E c \in DOMAIN b.components :
            b.components[c].required /\ b.components[c].kind = "dflash")
       => \E i \in 1 .. Len(b.segments) : b.components[b.segments[i].comp].kind = "dflash"

-----------------------------------------------------------------------------
(* begin: the sink may refuse. *)
BeginReceiver ==
    /\ state = "offered"
    /\ \/ ValidatedBegin(begin) /\ state' = "receiving"
       \/ state' = "rejected"
    /\ UNCHANGED <<begin, hashed, next, ranges, seen, shadow, live>>

(* Mutant: dropping a committed receiver discards what it installed. *)
AbortCommitted ==
    /\ state \notin {"idle", "offered", "rejected"}
    /\ state' = "aborted" /\ shadow' = {} /\ live' = {}
    /\ UNCHANGED <<begin, next, seen>>

(* abort: the sink discards the shadow; nothing to do in a final state. *)
Abort ==
    /\ state \notin {"idle", "offered", "rejected"}
    /\ IF state \in {"committed", "aborted"} THEN UNCHANGED <<state, shadow>>
       ELSE state' = "aborted" /\ shadow' = {}
    /\ UNCHANGED <<begin, next, seen, live>>

(* accept_segment: bad bytes or a refusing sink abort the transfer. *)
AcceptSegment(d, good) ==
    \/ /\ good /\ hashed' = Append(hashed, d) /\ shadow' = shadow \cup {d}
       /\ seen' = seen \cup {d.comp} /\ next' = next + 1
       /\ UNCHANGED <<begin, state, live>>
    \/ hashed' = (IF good THEN Append(hashed, d) ELSE hashed) /\ Abort

SegmentReady(seq, good) ==
    /\ IF /\ state = "receiving" /\ next < Len(begin.segments)
          /\ begin.segments[next + 1].seq = seq
       THEN AcceptSegment(begin.segments[next + 1], good)
       ELSE Abort /\ UNCHANGED hashed
    /\ UNCHANGED ranges

SegmentReadyDeferred(d, good) ==
    IF /\ state = "receiving" /\ begin.deferred /\ d.seq = next + 1
       /\ ValidDescriptor(d, begin.components, ranges)
    THEN ranges' = ranges \cup {RangeOf(d)} /\ AcceptSegment(d, good)
    ELSE Abort /\ UNCHANGED <<hashed, ranges>>

AllSegments == IF begin.deferred THEN next > 0 ELSE next = Len(begin.segments)

SealMatches(s) ==
    /\ state = "receiving" /\ AllSegments
    /\ begin.deferred => \A c \in DOMAIN begin.components :
                             begin.components[c].required => c \in seen
    /\ s.identity /\ s.count = next /\ s.digest = hashed

(* A malformed tag is refused without an abort: the caller may try again. *)
PrepareCommit(s) ==
    /\ \/ /\ SealMatches(s) /\ s.hex /\ s.mac /\ state' = "prepared"
          /\ UNCHANGED <<begin, next, seen, shadow, live>>
       \/ SealMatches(s) /\ ~s.hex /\ UNCHANGED <<begin, state, next, seen, shadow, live>>
       \/ ~(SealMatches(s) /\ ~s.hex) /\ Abort
    /\ UNCHANGED <<hashed, ranges>>

Commit ==
    /\ \/ /\ state = "prepared" /\ state' = "committed" /\ live' = shadow
          /\ UNCHANGED <<begin, next, seen, shadow>>
       \/ Abort
    /\ UNCHANGED <<hashed, ranges>>

NextV2 ==
    \/ BeginReceiver
    \/ \E seq \in 1 .. Len(begin.segments) + 1, good \in BOOLEAN : SegmentReady(seq, good)
    \/ \E d \in Descriptors, good \in BOOLEAN : SegmentReadyDeferred(d, good)
    \/ \E s \in Seals : PrepareCommit(s)
    \/ Commit
    \/ Abort /\ UNCHANGED <<hashed, ranges>>         \* the caller aborts or drops the receiver

SpecV2 == InitV2 /\ [][NextV2]_rvars

-----------------------------------------------------------------------------
Tokens(d) == d.start .. d.start + d.count - 1

(* The live generation holds no token of a plane twice, whether the         *)
(* segments were declared or streamed (validate_segment_descriptor).        *)
InstalledDisjoint ==
    \A d, e \in live :
        d # e /\ d.comp = e.comp /\ d.plane = e.plane => Tokens(d) \cap Tokens(e) = {}

Outcome == IF state = "committed" THEN "accepted"
           ELSE IF state \in {"aborted", "rejected"} THEN "refused" ELSE "open"

TransferV2 == INSTANCE AtomicTransfer WITH
    visible <- live, whole <- shadow, outcome <- Outcome

(* The receiver refines the atomic transfer: the engine's live generation   *)
(* changes in the one step that reports success, and never after a refusal  *)
(* (handoff_v2.rs:307-308, "must not mutate their live generation before    *)
(* commit").                                                                *)
RefinesTransferV2 == TransferV2!Spec
=============================================================================
