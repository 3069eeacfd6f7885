----------------------------- MODULE MCHandoff -----------------------------
(***************************************************************************)
(* A worker armed for one transfer: with protocol v1 (LiveHandoff) or v2   *)
(* (AtomicReceiver).  Both refine AtomicTransfer.                          *)
(***************************************************************************)
EXTENDS LiveHandoff, AtomicReceiver

NoBegin == [valid |-> FALSE, components |-> <<>>, deferred |-> FALSE, segments |-> <<>>]

MCInit ==
    \/ Init /\ begin = NoBegin /\ StartV2("idle")
    \/ InitV2 /\ wire = (0 :> <<>>) /\ Start("idle")

MCNext ==
    \/ Next /\ UNCHANGED rvars
    \/ NextV2 /\ UNCHANGED vars

MCFairSpec == MCInit /\ [][MCNext]_<<vars, rvars>> /\ Fairness

-----------------------------------------------------------------------------

V1Begin(n) ==
    [abi |-> "v1", layers |-> n, heads |-> 1, dim |-> 1, cached |-> 1, maxContext |-> 2,
     table |-> <<>>, schedule |-> "none", frames |-> 2 * n, bytes |-> 4 * n, wellFormed |-> TRUE]

ThreeLayers == V1Begin(3)

SixLatentLayers ==
    [V1Begin(6) EXCEPT !.abi = "v2", !.frames = 6, !.bytes = 12,
        !.table = <<[mla |-> TRUE, from |-> 0, until |-> 6, step |-> 1, except |-> <<>>,
                     window |-> 0, heads |-> 1, dim |-> 1, roles |-> <<"K">>]>>]

Frame(k, n, r) == [kind |-> k, seq |-> n, role |-> r, ok |-> TRUE]
B == Frame("BEGIN", 0, "V")
S == Frame("SEAL", 0, "V")
A == Frame("ABORT", 0, "V")
K(n) == Frame("LAYER", n, "K")
V(n) == Frame("LAYER", n, "V")
Bad(f) == [f EXCEPT !.ok = FALSE]

(* Three layers and two permits.  One connection: honest, where the third   *)
(* layer waits for the engine; cut short; a bad plane; a plane out of order. *)
OneStream ==
    { (0 :> <<B, K(1), V(2), K(3), V(4), K(5), V(6), S>>), (0 :> <<B, K(1), V(2), S>>),
      (0 :> <<B, K(1), Bad(V(2))>>), (0 :> <<B, V(2)>>), (0 :> <<Bad(B)>>),
      (0 :> <<B, K(1), V(2), K(3), V(4), K(5), V(6), Bad(S)>>), (0 :> <<B, K(1), A>>) }

(* Two connections, keys on the first and values on the second: the reader  *)
(* of the first waits for a permit.  In the last script both readers do,    *)
(* and the plane that is due waits too.                                     *)
TwoStreams ==
    { (0 :> <<B, K(1), K(3), K(5), S>> @@ 1 :> <<V(2), V(4), V(6)>>),
      (0 :> <<B, K(1), K(1), S>> @@ 1 :> <<V(2), V(2)>>),
      (0 :> <<B, K(1), S, K(3)>> @@ 1 :> <<V(2), S>>),
      (0 :> <<B, K(1)>> @@ 1 :> <<V(2), Bad(V(4))>>),
      (0 :> <<B, K(3), K(1)>> @@ 1 :> <<K(5), K(5)>>) }

AllScripts == OneStream \cup TwoStreams

(* The planes of a latent-attention model in turn on two connections. *)
RoundRobin == { (0 :> <<B, K(1), K(3), K(5), S>> @@ 1 :> <<K(2), K(4), K(6)>>) }

-----------------------------------------------------------------------------
(* Protocol v2: a target component of two planes' worth of segments and a   *)
(* draft component; tokens 0..2.                                            *)
Seg(n, c, from, count) ==
    [seq |-> n, comp |-> c, plane |-> "K0", start |-> from, count |-> count, valid |-> TRUE]

Both == [t |-> [kind |-> "target", required |-> TRUE], d |-> [kind |-> "dflash", required |-> TRUE]]

BeginV2(deferred, segments) ==
    [valid |-> TRUE, components |-> Both, deferred |-> deferred, segments |-> segments]

V2Begins ==
    { BeginV2(TRUE, <<>>), BeginV2(FALSE, <<>>),
      BeginV2(FALSE, <<Seg(1, "t", 0, 2), Seg(2, "d", 0, 2)>>),
      BeginV2(FALSE, <<Seg(1, "t", 0, 2), Seg(2, "t", 1, 2), Seg(3, "d", 0, 1)>>),
      BeginV2(FALSE, <<Seg(1, "t", 0, 2), Seg(2, "t", 2, 1)>>) }

V2Descriptors ==
    { Seg(n, c, from, count) : n \in 1 .. 3, c \in {"t", "d"}, from \in 0 .. 1, count \in 1 .. 2 }
        \cup {Seg(1, "x", 0, 1), Seg(2, "t", 0, 0)}

V2Digests ==
    { <<Seg(1, "t", 0, 2), Seg(2, "d", 0, 2)>>, <<Seg(1, "t", 0, 2)>>,
      <<Seg(1, "t", 0, 1), Seg(2, "t", 1, 2), Seg(3, "d", 1, 1)>>,
      <<Seg(1, "t", 0, 2), Seg(2, "t", 1, 2), Seg(3, "d", 0, 1)>> }

V2Seals ==
    { [digest |-> g, count |-> n, identity |-> TRUE, hex |-> x, mac |-> m] :
        g \in V2Digests, n \in 1 .. 3, x \in BOOLEAN, m \in BOOLEAN }
=============================================================================
