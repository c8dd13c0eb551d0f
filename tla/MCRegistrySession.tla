------------------------- MODULE MCRegistrySession -------------------------
(* Instances of RegistrySession for TLC.                                   *)
EXTENDS RegistrySession

CONSTANTS s1, s2, s3

ThreeServices == {s1, s2, s3}
TwoServices == {s1, s2}
=============================================================================
