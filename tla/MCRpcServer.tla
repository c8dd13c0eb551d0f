---------------------------- MODULE MCRpcServer ----------------------------
(* Instances of RpcServer for TLC.                                         *)
EXTENDS RpcServer, TLC

CONSTANT k1

OneConn == {k1}
=============================================================================
