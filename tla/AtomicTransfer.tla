--------------------------- MODULE AtomicTransfer ---------------------------
(***************************************************************************)
(* What a handoff receiver promises, whatever the protocol: the state it   *)
(* transfers becomes visible whole, in one step and at most once; success  *)
(* is reported only when it is visible; a refused transfer may be reported *)
(* at any time, and one refused before the state became visible never      *)
(* shows it.  (crates/kvpack-handoff/src/receiver/session.rs:82-83,        *)
(* handoff_v2.rs:307-308.)                                                 *)
(***************************************************************************)
VARIABLES visible,    \* the parts a consumer can see
          whole,      \* the parts of the transfer known so far
          outcome     \* "open", "accepted", "refused"

vars == <<visible, whole, outcome>>

Init == visible = {} /\ outcome = "open"

(* What will be transferred is only known as it streams in. *)
Stream == outcome = "open" /\ visible = {} /\ UNCHANGED <<visible, outcome>>

Install ==
    /\ outcome = "open" /\ visible = {} /\ visible' = whole
    /\ UNCHANGED <<whole, outcome>>

Accept ==
    /\ outcome = "open" /\ visible = whole /\ outcome' = "accepted"
    /\ UNCHANGED <<visible, whole>>

(* A commit reports in the step that installs. *)
InstallAndAccept ==
    /\ outcome = "open" /\ visible = {} /\ visible' = whole /\ outcome' = "accepted"
    /\ UNCHANGED whole

Refuse == outcome = "open" /\ outcome' = "refused" /\ UNCHANGED visible

Next == Stream \/ Install \/ Accept \/ InstallAndAccept \/ Refuse

Spec == Init /\ [][Next]_vars
=============================================================================
