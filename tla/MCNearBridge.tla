---------------------------- MODULE MCNearBridge ----------------------------
(***************************************************************************)
(* Small instances of NearBridge: an epoch of three producers, one of two  *)
(* and one of a single producer; genuine blocks g1 to g5, a block of an    *)
(* attacker with an invalid signature that brings its own next epoch, and  *)
(* a block signed by the producer of that epoch.                           *)
(***************************************************************************)
EXTENDS NearBridge, TLC

CONSTANTS a1, a2, k1, k2, k3, bad, e1, e2, e3, e4, evil, zero, none

Bp(key, stake) == [key |-> key, stake |-> stake]
MCProducersOf == (e1 :> <<Bp(k1, 1), Bp(k2, 2), Bp(k3, 2)>>
               @@ e2 :> <<Bp(k2, 1), Bp(k3, 1)>>
               @@ e3 :> <<Bp(k1, 1)>>
               @@ e4 :> <<Bp(k2, 1)>>
               @@ evil :> <<Bp(k3, 1)>>)

Near(height, time, epoch, next, hasBps, bps, approvals) ==
    [height |-> height, timestamp |-> time, epochId |-> epoch, nextEpochId |-> next,
     hasBps |-> hasBps, bpsHashOk |-> TRUE, nextBps |-> bps, approvals |-> approvals]

g1 == Near(1, 0, e1, e2, TRUE, MCProducersOf[e2], <<k1, k2, k3>>)
g2 == Near(2, 4, e1, e2, FALSE, <<>>, <<zero, k2, k3, k1>>)
g3 == Near(3, 8, e2, e3, TRUE, MCProducersOf[e3], <<k2, k3>>)
g4 == Near(4, 12, e3, e4, TRUE, MCProducersOf[e4], <<k1>>)
g5 == Near(5, 16, e4, e1, TRUE, MCProducersOf[e1], <<k2>>)
\* g2 has an extra approval.  Too few approvals: exactly 3 of 5 (and 2 of 3 is 3.33).
few == Near(2, 4, e1, e2, FALSE, <<>>, <<k1, k2, zero>>)
\* The second signature is not the producer's.
x3 == Near(3, 7, e2, evil, TRUE, <<Bp(bad, 1)>>, <<k2, bad>>)
x2 == Near(2, 3, e1, e2, FALSE, <<>>, <<k1, bad, k3>>)
\* Signed by the producer that x3 brings.
x4 == Near(4, 11, evil, e1, TRUE, <<Bp(bad, 1)>>, <<bad>>)

MCBlocks == {g1, g2, g3, g4, g5, few, x2, x3, x4}
MCGenuine == {g1, g2, g3, g4, g5}
=============================================================================
