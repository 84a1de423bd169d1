---------------------------- MODULE MCGatewayBoot ----------------------------
(* Instances of GatewayBoot for TLC.                                       *)
EXTENDS GatewayBoot

CONSTANTS s1, s2, s3, c1

MCSockets == {s1, s2, s3}
TwoSockets == {s1, s2}
OneCall == {c1}
==============================================================================
