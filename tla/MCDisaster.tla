----------------------------- MODULE MCDisaster -----------------------------
(***************************************************************************)
(* Two processes that rotate one tenant from epoch 1 to epoch 2, one path  *)
(* for artifacts.  Chunk identities are below those of manifests, so that  *)
(* the order of an inventory is not that of the identities alone.          *)
(***************************************************************************)
EXTENDS DisasterRecovery, TLC

CONSTANTS p, q
MCSymmetry == Permutations({p, q})

MCConfig(t, min, active) == [tenant |-> t, catalog |-> 1, min |-> min, active |-> active]
MCConfigs == {MCConfig("a", 1, 1), MCConfig("a", 1, 2), MCConfig("a", 2, 2)}
MCManifests == {5, 6}
MCChunks == {1, 2}
MCTenantOf == 5 :> "a" @@ 6 :> "a"
MCEpochOf == 5 :> 1 @@ 6 :> 2
MCChunksOf == 5 :> {1} @@ 6 :> {2}
=============================================================================
