----------------------- MODULE MCRpcServiceRegistry -----------------------
(* Instances of RpcServiceRegistry for TLC.                                *)
EXTENDS RpcServiceRegistry, TLC

CONSTANTS k1, k2, k3, s1, s2, a1, a2

ThreeConns == {k1, k2, k3}
TwoConns == {k1, k2}
TwoServices == {s1, s2}
OneService == {s1}
TwoAddrs == {a1, a2}

ConnSymmetry == Permutations(ThreeConns)
=============================================================================
