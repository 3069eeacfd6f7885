------------------------- MODULE RestoreExecution --------------------------
(***************************************************************************)
(* The execution of authenticated restore plans (kvpack, restore/plan.rs,  *)
(* restore/shadow.rs, store/holds.rs): reservation of aggregate resources, *)
(* source pins, sequential and parallel decoding into a verified sink,     *)
(* cancellation, installation, shadow stages and their promotion, and the  *)
(* release by engine_free or by a later acknowledgement.                   *)
(*                                                                         *)
(* Each restore of Restores is one call on its own thread, on one store;   *)
(* Mode says which entry point it uses.  The chunk rows are changed under  *)
(* it by the maintenance of the store: an eviction spares what is pinned,  *)
(* a demotion looks at the pins only when it selects (gc/demotion.rs).     *)
(***************************************************************************)
EXTENDS RestorePlanning

CONSTANTS Restores,         \* restore calls
          Mode,             \* [Restores -> {"sequential", "parallel", "shadow"}]
          Workers,          \* the decoding threads of a parallel restore
          Manifests,        \* the published manifests, by identity
          Chunks,           \* the chunks they name
          Requests,         \* [Restores -> the request the call starts from]
          Limits,           \* RestoreLimits, the same for every plan
          MaxFaults         \* bound: failures of reads and of the sinks

ASSUME RestoreAssumption ==
    /\ Mode \in [Restores -> {"sequential", "parallel", "shadow"}]
    /\ IsFiniteSet(Restores) /\ IsFiniteSet(Workers) /\ Cardinality(Workers) > 1
    /\ Limits \in [shadow : Nat, pinned : Nat, scratch : Nat, pins : Nat]
    /\ MaxFaults \in Nat

(* The states of a manifest and their spans are vectors, and its counts    *)
(* are unsigned.                                                           *)
ASSUME ManifestsAssumption ==
    \A id \in DOMAIN Manifests :
        LET m == Manifests[id]
        IN  /\ m.cut.count \in Nat
            /\ m.states \in Seq(Range(m.states))
            /\ \A i \in DOMAIN m.states :
                 /\ m.states[i].count \in Nat
                 /\ m.states[i].spans \in Seq(Range(m.states[i].spans))
                 /\ \A j \in DOMAIN m.states[i].spans : m.states[i].spans[j].count \in Nat

VARIABLES rows,             \* [Chunks -> state of the catalog row]
          demoting,         \* chunks a demotion has selected and not yet updated
          pins,             \* pin rows: <<restore, operation>>
          holds,            \* restore_holds: [Restores -> hold or NoHold]
          job,              \* [Restores -> the call's own state]
          faults

vars == <<rows, demoting, pins, holds, job, faults>>

NoHold == [reserved |-> FALSE, charge |-> NoCharge, pins |-> {}]

NoPlan == [status |-> "none", ops |-> <<>>, recompute |-> {}, resources |-> NoCharge]

(* sink is the engine's sink; stage the private one of a shadow.  next,    *)
(* failed, worker and channel are those of the parallel path; got is the   *)
(* pins collected so far, written what reached the call's sink.            *)
NoWorkers == [w \in Workers |-> [at |-> "idle", op |-> 0, ok |-> TRUE]]

NewJob ==
    [pc |-> "new", candidate |-> RecomputeCandidate, plan |-> NoPlan,
     cancelled |-> FALSE, next |-> 1, failed |-> FALSE, error |-> "none",
     worker |-> NoWorkers,
     channel |-> <<>>, got |-> {}, written |-> {}, sink |-> "idle",
     outcome |-> "none"]

Init ==
    /\ rows = [c \in Chunks |-> "AVAILABLE"]
    /\ demoting = {}
    /\ pins = {}
    /\ holds = [r \in Restores |-> NoHold]
    /\ job = [r \in Restores |-> NewJob]
    /\ faults = 0

Store == [manifests |-> Manifests, epoch |-> 1, minimum |-> 1,
          rows |-> [c \in Chunks |-> [state |-> rows[c], epoch |-> 1, digest |-> c,
                                      file |-> rows[c] = "AVAILABLE"]]]

Ops(r) == DOMAIN job[r].plan.ops
ChunkOf(r, i) == job[r].plan.ops[i].chunk
PinsOf(r) == {i \in Ops(r) : <<r, i>> \in pins}
Parallelism(r) == IF Mode[r] = "parallel" THEN Cardinality(Workers) ELSE 1
Charge(r) == ResourceCharge(job[r].plan.resources, Parallelism(r))

(* The call's own state; the other calls keep theirs.                      *)
Becomes(r, j) == job' = [job EXCEPT ![r] = j]

Release(r, ops) == pins' = pins \ {<<r, i>> : i \in ops}

Fault == faults < MaxFaults /\ faults' = faults + 1
NoFault == UNCHANGED faults

----------------------------------------------------------------------------
(* The caller: a candidate from the list, and a plan built on it.          *)

(* restore_candidates, and the caller's choice of a local one.             *)
List(r) ==
    /\ job[r].pc = "new"
    /\ LET list == RestoreCandidates(Store, Requests[r], <<>>)
       IN  \/ \E i \in DOMAIN list :
                /\ list[i].tier = "local"
                /\ Becomes(r, [job[r] EXCEPT !.pc = "listed", !.candidate = list[i]])
           \/ /\ \A i \in DOMAIN list : list[i].tier # "local"
              /\ Becomes(r, [job[r] EXCEPT !.pc = "ended", !.outcome = "recompute"])
    /\ UNCHANGED <<rows, demoting, pins, holds, faults>>

(* AuthenticatedRestorePlan::build.                                        *)
Build(r) ==
    /\ job[r].pc = "listed"
    /\ LET plan == BuildPlan(Store, job[r].candidate, 1, Limits)
       IN  Becomes(r, [job[r] EXCEPT !.plan = plan,
                                     !.pc = IF plan.status = "ok" THEN "planned" ELSE "ended",
                                     !.candidate = RecomputeCandidate,
                                     !.outcome = IF plan.status = "ok" THEN @ ELSE "error"])
    /\ UNCHANGED <<rows, demoting, pins, holds, faults>>

(* The caller's token; observed where the code loads it.                   *)
Cancel(r) ==
    /\ ~job[r].cancelled
    /\ job[r].pc \notin {"new", "ended", "freed"}
    /\ Becomes(r, [job[r] EXCEPT !.cancelled = TRUE])
    /\ UNCHANGED <<rows, demoting, pins, holds, faults>>

----------------------------------------------------------------------------
(* restore(): reservation, the sink's begin, the pins.                     *)

Reserved(held) == {r \in Restores : held[r].reserved}

ChargesOf(held) ==
    FoldSet(LAMBDA r, sum : ChargeAdd(sum, held[r].charge), NoCharge, Reserved(held))

Aggregate == ChargesOf(holds)

(* A plausible bug: the new charge is compared alone.                      *)
AdmitsAlone(r) == ChargeWithinLimits(Charge(r), Limits)

(* reserve_restore_resources admits a charge with all that is held.        *)
Admits(r) == ChargeWithinLimits(ChargeAdd(Aggregate, Charge(r)), Limits)

Returned(r, outcome) == [job[r] EXCEPT !.pc = "ended", !.outcome = outcome]

(* A plan with tombstoned chunks is refused, then one beyond the limits or *)
(* cancelled, then one that does not fit beside the others.                *)
Start(r) ==
    /\ job[r].pc = "planned"
    /\ IF \/ job[r].plan.recompute # {}
          \/ ~ChargeWithinLimits(Charge(r), Limits)
          \/ job[r].cancelled
          \/ ~Admits(r)
         THEN Becomes(r, Returned(r, "error")) /\ UNCHANGED holds
         ELSE /\ holds' = [holds EXCEPT ![r] = [reserved |-> TRUE, charge |-> Charge(r),
                                                pins |-> {}]]
              /\ Becomes(r, [job[r] EXCEPT !.pc = "reserved"])
    /\ UNCHANGED <<rows, demoting, pins, faults>>

(* The sink a restore writes to: a shadow's stage is private and never     *)
(* fails, the engine's may.                                                *)
Engine(r) == Mode[r] # "shadow"

(* An error return: the sink is aborted and the guard of the reservation   *)
(* gives the hold back.                                                    *)
Unwind(r) ==
    /\ Becomes(r, [NewJob EXCEPT !.pc = "ended", !.outcome = "error",
                                 !.plan = job[r].plan, !.cancelled = job[r].cancelled,
                                 !.sink = IF Engine(r) THEN "aborted" ELSE "idle"])
    /\ holds' = [holds EXCEPT ![r] = NoHold]

SinkBegin(r) ==
    /\ job[r].pc = "reserved"
    /\ \/ /\ Becomes(r, [job[r] EXCEPT !.pc = "pinning",
                                       !.sink = IF Engine(r) THEN "begun" ELSE @])
          /\ NoFault /\ UNCHANGED holds
       \/ Engine(r) /\ Fault /\ Unwind(r)
    /\ UNCHANGED <<rows, demoting, pins>>

(* pin_chunks_batch: every source in one transaction, or none.             *)
PinAll(r) ==
    /\ job[r].pc = "pinning"
    /\ IF \A i \in Ops(r) : rows[ChunkOf(r, i)] = "AVAILABLE"
         THEN /\ pins' = pins \cup {<<r, i>> : i \in Ops(r)}
              /\ Becomes(r, [job[r] EXCEPT !.pc = "decoding"])
              /\ UNCHANGED holds
         ELSE Unwind(r) /\ UNCHANGED pins
    /\ UNCHANGED <<rows, demoting, faults>>

----------------------------------------------------------------------------
(* Decoding in order, on the calling thread.                               *)

(* A chunk reads and authenticates, unless the read fails or its bytes     *)
(* were demoted under the pin.                                             *)
Decodes(r, i) == rows[ChunkOf(r, i)] = "AVAILABLE" /\ NoFault
DecodeFails(r, i) == IF rows[ChunkOf(r, i)] = "AVAILABLE" THEN Fault ELSE NoFault

(* The rest of the pins on an error at an operation: the collected ones    *)
(* and the ones not reached, with or without the one at hand.              *)
SequentialChunk(r) ==
    /\ job[r].pc = "decoding" /\ Mode[r] # "parallel"
    /\ LET i == job[r].next
       IN  /\ i \in Ops(r)
           /\ \/ /\ job[r].cancelled
                 /\ Release(r, job[r].got \cup {k \in Ops(r) : k >= i})
                 /\ Unwind(r) /\ NoFault
              \/ /\ ~job[r].cancelled
                 /\ DecodeFails(r, i)
                 /\ Release(r, Ops(r))
                 /\ Unwind(r)
              \/ /\ ~job[r].cancelled /\ Engine(r)
                 /\ rows[ChunkOf(r, i)] = "AVAILABLE" /\ Fault
                 /\ Release(r, Ops(r))
                 /\ Unwind(r)
              \/ /\ ~job[r].cancelled
                 /\ Decodes(r, i)
                 /\ Becomes(r, [job[r] EXCEPT !.next = i + 1, !.got = @ \cup {i},
                                              !.written = @ \cup {i}])
                 /\ UNCHANGED <<pins, holds>>
    /\ UNCHANGED <<rows, demoting>>

SequentialDone(r) ==
    /\ job[r].pc = "decoding" /\ Mode[r] # "parallel"
    /\ job[r].next \notin Ops(r)
    /\ Becomes(r, [job[r] EXCEPT !.pc = "decoded", !.next = 1])
    /\ UNCHANGED <<rows, demoting, pins, holds, faults>>

----------------------------------------------------------------------------
(* Decoding on worker threads: an atomic cursor, a failure flag and a      *)
(* bounded channel to the calling thread, which alone writes the sink.     *)

(* A worker claims an operation and stops at the end; on cancellation or   *)
(* failure it releases the pin it claimed and stops; else it decodes.      *)
WorkerClaim(r, w) ==
    /\ job[r].pc = "decoding" /\ Mode[r] = "parallel"
    /\ job[r].worker[w].at = "idle"
    /\ LET i == job[r].next
           to(at, ok) == [job[r] EXCEPT !.next = i + 1,
                                        !.worker[w] = [at |-> at, op |-> i, ok |-> ok]]
       IN  \/ i \notin Ops(r) /\ Becomes(r, to("done", TRUE)) /\ NoFault /\ UNCHANGED pins
           \/ /\ i \in Ops(r) /\ (job[r].cancelled \/ job[r].failed)
              /\ Becomes(r, to("done", TRUE)) /\ Release(r, {i}) /\ NoFault
           \/ /\ i \in Ops(r) /\ ~job[r].cancelled /\ ~job[r].failed
              /\ \/ Decodes(r, i) /\ Becomes(r, to("send", TRUE)) /\ UNCHANGED pins
                 \/ DecodeFails(r, i) /\ Becomes(r, to("send", FALSE)) /\ Release(r, {i})
    /\ UNCHANGED <<rows, demoting, holds>>

(* The channel holds as many results as there are workers.                 *)
WorkerSend(r, w) ==
    /\ job[r].pc = "decoding"
    /\ job[r].worker[w].at = "send"
    /\ Len(job[r].channel) < Parallelism(r)
    /\ LET it == job[r].worker[w]
       IN  Becomes(r, [job[r] EXCEPT !.channel = Append(@, [op |-> it.op, ok |-> it.ok]),
                                     !.worker[w].at = IF it.ok THEN "idle" ELSE "done"])
    /\ UNCHANGED <<rows, demoting, pins, holds, faults>>

(* A plausible bug: the calling thread stops draining at the first error.  *)
ReceiveUntilError(r) ==
    /\ job[r].pc = "decoding" /\ job[r].channel # <<>> /\ job[r].error = "none"
    /\ LET it == Head(job[r].channel)
           taken == [job[r] EXCEPT !.channel = Tail(@), !.got = @ \cup {it.op}]
       IN  \/ ~it.ok /\ Becomes(r, [taken EXCEPT !.error = "decode"]) /\ NoFault
           \/ /\ it.ok /\ Becomes(r, [taken EXCEPT !.written = @ \cup {it.op}])
              /\ NoFault
    /\ UNCHANGED <<rows, demoting, pins, holds>>

(* The calling thread takes a result: it writes the sink unless an error   *)
(* or a cancellation is known, and keeps the pin in every case.            *)
Receive(r) ==
    /\ job[r].pc = "decoding" /\ job[r].channel # <<>>
    /\ LET it == Head(job[r].channel)
           taken == [job[r] EXCEPT !.channel = Tail(@)]
           erred(error) == [taken EXCEPT !.failed = TRUE,
                                         !.got = IF it.ok THEN @ \cup {it.op} ELSE @,
                                         !.error = IF @ = "none" THEN error ELSE @]
       IN  \/ ~it.ok /\ Becomes(r, erred("decode")) /\ NoFault
           \/ /\ it.ok /\ (job[r].error # "none" \/ job[r].cancelled)
              /\ Becomes(r, erred("cancelled")) /\ NoFault
           \/ /\ it.ok /\ job[r].error = "none" /\ ~job[r].cancelled
              /\ \/ /\ Becomes(r, [taken EXCEPT !.got = @ \cup {it.op},
                                                !.written = @ \cup {it.op}])
                    /\ NoFault
                 \/ Becomes(r, erred("write")) /\ Fault
    /\ UNCHANGED <<rows, demoting, pins, holds>>

(* A plausible bug: the pins past the cursor are forgotten on an error.    *)
JoinForgetsUnclaimed(r) ==
    /\ job[r].pc = "decoding" /\ Mode[r] = "parallel"
    /\ \A w \in Workers : job[r].worker[w].at = "done"
    /\ job[r].channel = <<>>
    /\ IF job[r].error # "none"
         THEN Release(r, job[r].got) /\ Unwind(r)
         ELSE /\ Becomes(r, [job[r] EXCEPT !.pc = "decoded", !.next = 1,
                                           !.worker = NoWorkers])
              /\ UNCHANGED <<pins, holds>>
    /\ UNCHANGED <<rows, demoting, faults>>

(* All senders are gone: with an error the collected pins and those past   *)
(* the cursor are released, without one the collected pins are returned.   *)
Join(r) ==
    /\ job[r].pc = "decoding" /\ Mode[r] = "parallel"
    /\ \A w \in Workers : job[r].worker[w].at = "done"
    /\ job[r].channel = <<>>
    /\ IF job[r].error # "none"
         THEN /\ Release(r, job[r].got \cup {i \in Ops(r) : i >= job[r].next})
              /\ Unwind(r)
         ELSE /\ Becomes(r, [job[r] EXCEPT !.pc = "decoded", !.next = 1,
                                           !.worker = NoWorkers])
              /\ UNCHANGED <<pins, holds>>
    /\ UNCHANGED <<rows, demoting, faults>>

----------------------------------------------------------------------------
(* Settlement: the pins are compared with the plan and attached to the     *)
(* hold, and the sink commits.                                             *)

(* attach_restore_pins: once, and exactly as many as were reserved.        *)
AttachPins(r) ==
    /\ holds[r].reserved /\ holds[r].pins = {}
    /\ Cardinality(job[r].got) = holds[r].charge.pins
    /\ holds' = [holds EXCEPT ![r].pins = job[r].got]

Settle(r) ==
    /\ job[r].pc = "decoded"
    /\ IF job[r].got # Ops(r) \/ job[r].cancelled
         THEN /\ Release(r, job[r].got)
              /\ Unwind(r)
         ELSE /\ AttachPins(r)
              /\ Becomes(r, [job[r] EXCEPT !.pc = "attached", !.got = {}])
              /\ UNCHANGED pins
    /\ UNCHANGED <<rows, demoting, faults>>

(* prestage_shadow: the staged bytes are those of the authenticated schema. *)
Prestaged(r) ==
    FoldSet(LAMBDA i, sum : sum + job[r].plan.ops[i].count, 0, job[r].written)
        = job[r].plan.resources.shadow

(* acknowledge_engine_free takes the hold out under the mutex and releases *)
(* its pins after it.                                                      *)
TakeHold(r, outcome, sink) ==
    /\ Becomes(r, [job[r] EXCEPT !.pc = "freeing", !.got = holds[r].pins,
                                 !.outcome = outcome, !.sink = sink, !.written = {}])
    /\ holds' = [holds EXCEPT ![r] = NoHold]

(* commit_restore; a shadow is then a stage, or its handle is dropped with *)
(* an error.  A sink that fails here is reset, not aborted.                *)
Commit(r) ==
    /\ job[r].pc = "attached"
    /\ \/ /\ Becomes(r, [job[r] EXCEPT !.pc = IF Engine(r) THEN "installed"
                                             ELSE IF Prestaged(r) THEN "staged" ELSE "lost",
                                       !.sink = IF Engine(r) THEN "committed" ELSE @,
                                       !.outcome = "ok"])
          /\ NoFault /\ UNCHANGED holds
       \/ Engine(r) /\ Fault /\ TakeHold(r, "error", "reset")
    /\ UNCHANGED <<rows, demoting, pins>>

ReleaseHeld(r) ==
    /\ job[r].pc = "freeing"
    /\ Release(r, job[r].got)
    /\ Becomes(r, [job[r] EXCEPT !.pc = IF job[r].outcome = "ok" THEN "freed" ELSE "ended",
                                 !.got = {}])
    /\ UNCHANGED <<rows, demoting, holds, faults>>

(* InstalledRestore::engine_free, or acknowledge_engine_free with the      *)
(* identity of a handle that was dropped.                                  *)
EngineFree(r) ==
    /\ job[r].pc \in {"installed", "lost"}
    /\ TakeHold(r, "ok", job[r].sink)
    /\ UNCHANGED <<rows, demoting, pins, faults>>

(* Dropping an InstalledRestore or an unsettled shadow keeps everything.   *)
DropHandle(r) ==
    /\ job[r].pc \in {"installed", "staged"}
    /\ Becomes(r, [job[r] EXCEPT !.pc = "lost"])
    /\ UNCHANGED <<rows, demoting, pins, holds, faults>>

----------------------------------------------------------------------------
(* A staged shadow: promoted into the engine's sink, or aborted.           *)

(* promote_if with the exact key and no cancellation: begin, the replay of *)
(* the staged writes and the commit of the engine's sink.                  *)
Promote(r) ==
    /\ job[r].pc = "staged" /\ ~job[r].cancelled
    /\ Becomes(r, [job[r] EXCEPT !.pc = "installed", !.sink = "committed"])
    /\ UNCHANGED <<rows, demoting, pins, holds, faults>>

(* A plausible bug: a failing promotion leaves the engine's sink as it is. *)
PromoteRefusedOpen(r) ==
    /\ job[r].pc = "staged"
    /\ \/ TakeHold(r, "error", "idle") /\ NoFault
       \/ Fault /\ TakeHold(r, "error", "committed")
    /\ UNCHANGED <<rows, demoting, pins>>

(* promote_if refused: another key, a cancellation (before the engine's    *)
(* sink is touched, or after the replay), a failure of that sink.          *)
PromoteRefused(r) ==
    /\ job[r].pc = "staged"
    /\ \/ TakeHold(r, "error", "idle") /\ NoFault
       \/ job[r].cancelled /\ TakeHold(r, "error", "aborted") /\ NoFault
       \/ Fault /\ \E sink \in {"aborted", "reset"} : TakeHold(r, "error", sink)
    /\ UNCHANGED <<rows, demoting, pins>>

AbortShadow(r) ==
    /\ job[r].pc = "staged"
    /\ TakeHold(r, "error", "idle")
    /\ UNCHANGED <<rows, demoting, pins, faults>>

----------------------------------------------------------------------------
(* The maintenance of the store.  A demotion to rung 1 keeps the bytes and *)
(* changes nothing a restore can see.                                      *)

Pinned(c) == \E p \in pins : ChunkOf(p[1], p[2]) = c

Evict(c) ==
    /\ rows[c] # "GONE" /\ ~Pinned(c)
    /\ rows' = [rows EXCEPT ![c] = "GONE"]
    /\ UNCHANGED <<demoting, pins, holds, job, faults>>

DemoteSelect(c) ==
    /\ rows[c] = "AVAILABLE" /\ ~Pinned(c) /\ c \notin demoting
    /\ demoting' = demoting \cup {c}
    /\ UNCHANGED <<rows, pins, holds, job, faults>>

DemoteUpdate(c) ==
    /\ c \in demoting
    /\ demoting' = demoting \ {c}
    /\ rows' = [rows EXCEPT ![c] = IF @ = "AVAILABLE" THEN "TOMBSTONED" ELSE @]
    /\ UNCHANGED <<pins, holds, job, faults>>

----------------------------------------------------------------------------
(* The steps of the call itself, which its thread and workers take.        *)
Step(r) ==
    \/ Start(r) \/ SinkBegin(r) \/ PinAll(r)
    \/ SequentialChunk(r) \/ SequentialDone(r)
    \/ \E w \in Workers : WorkerClaim(r, w) \/ WorkerSend(r, w)
    \/ Receive(r) \/ Join(r) \/ Settle(r) \/ Commit(r) \/ ReleaseHeld(r)

(* What the caller does or not.                                            *)
Caller(r) ==
    \/ List(r) \/ Build(r) \/ Cancel(r) \/ EngineFree(r) \/ DropHandle(r)
    \/ Promote(r) \/ PromoteRefused(r) \/ AbortShadow(r)

Next ==
    \/ \E r \in Restores : Step(r) \/ Caller(r)
    \/ \E c \in Chunks : Evict(c) \/ DemoteSelect(c) \/ DemoteUpdate(c)

Spec == Init /\ [][Next]_vars

(* The thread of a call and its workers go on; nothing is asked of the     *)
(* caller, the sinks or the maintenance.                                   *)
Fairness ==
    \A r \in Restores :
        /\ WF_vars(Start(r) \/ SinkBegin(r) \/ PinAll(r)
                   \/ SequentialChunk(r) \/ SequentialDone(r) \/ Receive(r)
                   \/ Join(r) \/ Settle(r) \/ Commit(r) \/ ReleaseHeld(r))
        /\ \A w \in Workers : WF_vars(WorkerClaim(r, w) \/ WorkerSend(r, w))

FairSpec == Spec /\ Fairness

----------------------------------------------------------------------------
Pcs == {"new", "listed", "planned", "reserved", "pinning", "decoding", "decoded",
        "attached", "installed", "staged", "lost", "freeing", "ended", "freed"}

(* Shape of the state, and the bounds of the cursor and of the channel     *)
(* (sync_channel(parallelism), plan.rs 585).                               *)
TypeOK ==
    /\ rows \in [Chunks -> {"AVAILABLE", "TOMBSTONED", "GONE"}]
    /\ demoting \subseteq Chunks
    /\ \A p \in pins : p[1] \in Restores /\ p[2] \in Ops(p[1])
    /\ \A r \in Restores :
         /\ job[r].pc \in Pcs
         /\ job[r].next \in 1..(Len(job[r].plan.ops) + Cardinality(Workers) + 1)
         /\ Len(job[r].channel) <= Parallelism(r)
         /\ job[r].got \subseteq Ops(r) /\ job[r].written \subseteq Ops(r)

(* What running and installed restores have pinned is what they reserved,  *)
(* and all of it together stays within the limits the plans were built     *)
(* with (holds.rs 14-35): no interleaving of two reservations passes them. *)
PinnedWithinLimits ==
    /\ ChargeWithinLimits(Aggregate, Limits)
    /\ \A r \in Restores : holds[r].reserved =>
         Cardinality(PinsOf(r)) <= holds[r].charge.pins

(* The engine's sink is committed only with every operation decoded,       *)
(* authenticated and written, whatever order the workers finished in; a    *)
(* call that failed leaves it untouched, aborted or reset (plan.rs         *)
(* 391-524, shadow.rs 172-217).                                            *)
AllOrNothing ==
    \A r \in Restores :
        /\ job[r].pc = "installed" =>
             job[r].sink = "committed" /\ job[r].written = Ops(r)
        /\ job[r].pc = "ended" => job[r].sink \in {"idle", "aborted", "reset"}

(* A restore that failed leaves no pin row behind, with any mix of decode  *)
(* and sink failures and any number of results still in the channel        *)
(* (plan.rs 537-564, 650-660).  Cancelled parallel restores are left out:  *)
(* see EndedLeavesNoPins.                                                  *)
FailedLeavesNoPins ==
    \A r \in Restores :
        job[r].pc = "ended" /\ ~(job[r].cancelled /\ Mode[r] = "parallel")
            => PinsOf(r) = {}

(* What the tests of cancellation assert: a restore that ended with an     *)
(* error, cancelled ones included, left no pin row.                        *)
EndedLeavesNoPins ==
    \A r \in Restores : job[r].pc = "ended" => PinsOf(r) = {}

(* Every call that reserved resources returns: workers blocked on a full   *)
(* channel, a failure or a cancellation never leave the calling thread     *)
(* waiting for results (plan.rs 572-647).                                  *)
RestoreReturns ==
    \A r \in Restores :
        job[r].pc = "reserved" ~> job[r].pc \in {"installed", "staged", "lost", "ended", "freed"}

=============================================================================
