--------------------------- MODULE MCObjectStore ---------------------------
(***************************************************************************)
(* Small instances of ObjectStore.                                         *)
(***************************************************************************)
EXTENDS ObjectStore, TLC

CONSTANTS u1, u2, o1, o2, m1, m2

OneContent == o1 :> "c" @@ o2 :> "c"
TwoContents == o1 :> "c1" @@ o2 :> "c2"

(* u1 is a writer that encrypts the shared chunk as o1, u2 an import that
   carries o2; a writer that is told the canonical key builds the manifest on
   it, so both cut sets are open to it. *)
DedupCarries == u1 :> {o1} @@ u2 :> {o2}
DedupBatches == u1 :> {{m1}, {m2}} @@ u2 :> {{m2}}
DedupChunks  == m1 :> {o1} @@ m2 :> {o2}
NoParents    == m1 :> NoManifest @@ m2 :> NoManifest
OnePrefix    == m1 :> "p" @@ m2 :> "p"

(* A writer, and two imports that carry the same object of a remote store. *)
Peers         == {"writer", "import1", "import2"}
SharedCarries == [u \in Peers |-> IF u = "writer" THEN {o1} ELSE {o2}]
SharedBatches == [u \in Peers |-> IF u = "writer" THEN {{m1}} ELSE {{m2}}]

(* A full manifest and its delta, published as one batch by u2 and the full one
   alone by u1. *)
DeltaCarries == u1 :> {o1} @@ u2 :> {o1, o2}
DeltaBatches == u1 :> {{m1}} @@ u2 :> {{m1, m2}}
DeltaChunks  == m1 :> {o1} @@ m2 :> {o2}
DeltaParents == m1 :> NoManifest @@ m2 :> m1
SoloCarries  == u1 :> {o1, o2}
SoloBatches  == u1 :> {{m1, m2}}
TwoPrefixes  == m1 :> "p1" @@ m2 :> "p2"
=============================================================================
