--------------------------- MODULE MCRpcClient ---------------------------
(* Instances of RpcClient for TLC.                                         *)
EXTENDS RpcClient, TLC

CONSTANTS c1, c2

TwoCallers == {c1, c2}
OneCaller == {c1}
CallerSymmetry == Permutations(TwoCallers)
=============================================================================
