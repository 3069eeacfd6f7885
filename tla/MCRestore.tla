----------------------------- MODULE MCRestore ------------------------------
(***************************************************************************)
(* Two restores of one chain on one store: a full cut of one token and two *)
(* deltas of one token each, one chunk per manifest.  The first call       *)
(* restores two or three chunks in parallel, the second stages a shadow of *)
(* one.  Both fit the limits only when the first takes the shorter cut.    *)
(* The maintenance of the store takes the chunk both need, and one call is *)
(* cancelled.                                                              *)
(***************************************************************************)
EXTENDS RestoreExecution, TLC

CONSTANTS r1, r2, a, b, c

MCFamily == <<[key |-> 1, rule |-> "direct", deps |-> <<>>]>>
Cut(n) == [root |-> n, count |-> n]
Manifest(n, chunk) ==
    [lineage |-> "m", epoch |-> 1, cut |-> Cut(n), family |-> MCFamily,
     kind |-> IF n = 1 THEN "full" ELSE "delta", parent |-> n - 1,
     parentCut |-> Cut(n - 1), depth |-> n - 1,
     groups |-> <<[id |-> 1, states |-> <<1>>]>>,
     states |-> <<[key |-> 1, start |-> n - 1, count |-> 1,
                   spans |-> <<[start |-> n - 1, count |-> 1, chunk |-> chunk]>>]>>]

MCManifests == <<Manifest(1, a), Manifest(2, b), Manifest(3, c)>>

Request(n) == [roots |-> [i \in 1..n |-> i], lineage |-> "m", family |-> MCFamily,
               minimum |-> 1, maximum |-> 3]

MCMode == r1 :> "parallel" @@ r2 :> "shadow"
MCRequests == r1 :> Request(3) @@ r2 :> Request(1)
MCLimits == [shadow |-> 4, pinned |-> 4, scratch |-> 3, pins |-> 3]

MCNext ==
    /\ Next
    /\ {x \in Chunks : rows'[x] # "AVAILABLE"} \cup demoting' \subseteq {a}
    /\ Cardinality({r \in Restores : job'[r].cancelled}) <= 1

MCSpec == Init /\ [][MCNext]_vars
MCFairSpec == MCSpec /\ Fairness

=============================================================================
