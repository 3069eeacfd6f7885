-------------------------- MODULE SingleflightFill --------------------------
(***************************************************************************)
(* The process-local singleflight of crates/kvpack/src/store/fill.rs for   *)
(* one object key (keys share nothing but the map's mutex).  The map holds *)
(* a weak pointer to a FillEntry: it upgrades as long as some call holds   *)
(* the entry.  A call that finds none becomes the leader and fetches; the  *)
(* others wait on the entry's condition variable, at most 50 ms at a time. *)
(***************************************************************************)
EXTENDS Naturals

CONSTANTS
    Callers,   \* threads that call get_or_fill_cancellable, again and again
    Entries,   \* heap addresses of FillEntry values
    NoEntry

ASSUME EntriesAssumption == NoEntry \notin Entries

VARIABLES
    pc,         \* where each caller is
    hold,       \* the entry whose Arc it holds
    weak,       \* entries[object_key]
    state,      \* FillEntry.state
    cancelled   \* FillCancellation of the call under way

fillVars == <<pc, hold, weak, state, cancelled>>

LeaderSteps == {"lead", "fetching"}

FillTypeOK ==
    /\ pc \in [Callers -> {"idle", "lead", "fetching", "look", "blocked", "done"}]
    /\ hold \in [Callers -> Entries \cup {NoEntry}]
    /\ weak \in Entries \cup {NoEntry}
    /\ state \in [Entries -> {"Running", "Ready", "Failed"}]
    /\ cancelled \in [Callers -> BOOLEAN]
    /\ \A c \in Callers : pc[c] # "idle" => hold[c] \in Entries

FillInit ==
    /\ pc = [c \in Callers |-> "idle"]
    /\ hold = [c \in Callers |-> NoEntry]
    /\ weak = NoEntry
    /\ state = [e \in Entries |-> "Failed"]
    /\ cancelled = [c \in Callers |-> FALSE]

-----------------------------------------------------------------------------
(* A strong reference to the entry exists. *)
Alive(e) == e # NoEntry /\ \E c \in Callers : hold[c] = e

(* Mutant: the new entry never reaches the map. *)
NotRemembered(e) == weak

(* entries.insert(object_key, Arc::downgrade(&entry)). *)
Remembered(e) == e

(* The lookup and the insertion, in one critical section of the map's mutex. *)
GetOrFill(c) ==
    /\ pc[c] = "idle"
    /\ \/ /\ Alive(weak)
          /\ hold' = [hold EXCEPT ![c] = weak]
          /\ pc' = [pc EXCEPT ![c] = "look"]
          /\ UNCHANGED <<weak, state>>
       \/ /\ ~Alive(weak)
          /\ \E e \in Entries :
               /\ ~Alive(e)
               /\ hold' = [hold EXCEPT ![c] = e]
               /\ weak' = Remembered(e)
               /\ state' = [state EXCEPT ![e] = "Running"]
          /\ pc' = [pc EXCEPT ![c] = "lead"]
    /\ \E b \in BOOLEAN : cancelled' = [cancelled EXCEPT ![c] = b]

(* FillCancellation::cancel, from another thread. *)
Cancel(c) ==
    /\ pc[c] # "idle"
    /\ cancelled' = [cancelled EXCEPT ![c] = TRUE]
    /\ UNCHANGED <<pc, hold, weak, state>>

(* The leader fetches, unless it is cancelled before it begins. *)
StartFetch(c) ==
    /\ pc[c] = "lead" /\ ~cancelled[c]
    /\ pc' = [pc EXCEPT ![c] = "fetching"]
    /\ UNCHANGED <<hold, weak, state, cancelled>>

(* Mutant: no LeaderGuard; the entry of a leader that gives up stays Running. *)
GiveUpUnguarded(c) ==
    /\ \/ pc[c] = "lead" /\ cancelled[c]
       \/ pc[c] = "fetching"
    /\ pc' = [pc EXCEPT ![c] = "done"]
    /\ UNCHANGED <<hold, weak, state, cancelled>>

(* LeaderGuard::drop after a cancellation or a panic of the fetch. *)
GiveUp(c) ==
    /\ \/ pc[c] = "lead" /\ cancelled[c]
       \/ pc[c] = "fetching"
    /\ state' = [state EXCEPT ![hold[c]] = "Failed"]
    /\ pc' = [pc EXCEPT ![c] = "done"]
    /\ UNCHANGED <<hold, weak, cancelled>>

(* The fetch returns: its outcome is published and the waiters are notified. *)
FetchReturns(c) ==
    /\ pc[c] = "fetching"
    /\ \E outcome \in {"Ready", "Failed"} :
         state' = [state EXCEPT ![hold[c]] = outcome]
    /\ pc' = [pc EXCEPT ![c] = "done"]
    /\ UNCHANGED <<hold, weak, cancelled>>

(* Mutant: a waiter asks for its cancellation only before its first wait. *)
LookIgnoresCancellation(c) ==
    /\ pc[c] = "look"
    /\ pc' = [pc EXCEPT ![c] = IF state[hold[c]] = "Running" THEN "blocked" ELSE "done"]
    /\ UNCHANGED <<hold, weak, state, cancelled>>

(* One turn of the follower's loop: an outcome or a cancellation ends the call,
   otherwise it waits. *)
Look(c) ==
    /\ pc[c] = "look"
    /\ pc' = [pc EXCEPT ![c] =
                IF state[hold[c]] = "Running" /\ ~cancelled[c] THEN "blocked" ELSE "done"]
    /\ UNCHANGED <<hold, weak, state, cancelled>>

(* Mutant: only a success is notified and the wait has no timeout. *)
WakeWhenReady(c) ==
    /\ pc[c] = "blocked" /\ state[hold[c]] = "Ready"
    /\ pc' = [pc EXCEPT ![c] = "look"]
    /\ UNCHANGED <<hold, weak, state, cancelled>>

(* wait_timeout returns: notified, or after 50 ms. *)
Wake(c) ==
    /\ pc[c] = "blocked"
    /\ pc' = [pc EXCEPT ![c] = "look"]
    /\ UNCHANGED <<hold, weak, state, cancelled>>

(* The call returns and drops its Arc. *)
Return(c) ==
    /\ pc[c] = "done"
    /\ pc' = [pc EXCEPT ![c] = "idle"]
    /\ hold' = [hold EXCEPT ![c] = NoEntry]
    /\ UNCHANGED <<weak, state, cancelled>>

FillNext == \E c \in Callers :
    \/ GetOrFill(c) \/ Cancel(c)
    \/ StartFetch(c) \/ GiveUp(c) \/ FetchReturns(c)
    \/ Look(c) \/ Wake(c) \/ Return(c)

FillSpec == FillInit /\ [][FillNext]_fillVars

(* What the coordinator itself owes a caller: its own steps, not the fetch. *)
OwnSteps(c) == StartFetch(c) \/ (pc[c] = "lead" /\ GiveUp(c)) \/ Look(c) \/ Wake(c) \/ Return(c)

(* A scheduled thread runs, a timed wait ends; a fetch may hang. *)
FairFillSpec == FillSpec /\ \A c \in Callers : WF_fillVars(OwnSteps(c))

(* Every fetch ends, by returning or by a panic. *)
FetchesEnd == \A c \in Callers : WF_fillVars(FetchReturns(c) \/ GiveUp(c))

-----------------------------------------------------------------------------
(* However calls overlap, fail, panic and return, at most one of them leads a
   fill of the object, and so at most one fetch runs. *)
OneFetch ==
    \A c, d \in Callers : pc[c] \in LeaderSteps /\ pc[d] \in LeaderSteps => c = d

(* A call never waits on an entry nobody is filling: while the entry a waiter
   holds is Running, the leader of that same entry is still at work. *)
WaitersHaveLeader ==
    \A c \in Callers : pc[c] \in {"look", "blocked"} /\ state[hold[c]] = "Running" =>
        \E d \in Callers : pc[d] \in LeaderSteps /\ hold[d] = hold[c]

(* If fetches end, every call returns, whatever becomes of its leader. *)
EveryCallReturns ==
    FetchesEnd => \A c \in Callers : (pc[c] # "idle") ~> (pc[c] = "idle")

(* A cancelled waiter detaches also from a fetch that never ends
   (tests/store_safety.rs, cancelled_waiter_detaches_...). *)
CancelledWaiterDetaches ==
    \A c \in Callers : (pc[c] \in {"look", "blocked"} /\ cancelled[c]) ~> (pc[c] = "idle")
=============================================================================
