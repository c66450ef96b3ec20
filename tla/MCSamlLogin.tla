---------------------------- MODULE MCSamlLogin ----------------------------
(* An instance of SamlLogin for TLC.                                        *)
EXTENDS SamlLogin

CONSTANTS s1, s2, p1, p2
=============================================================================
