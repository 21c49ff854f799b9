----------------------------- MODULE MCPlatform -----------------------------
(* Instances of Platform for TLC.                                            *)
EXTENDS PlatformProperties, TLC

CONSTANTS b1, b2, r1, r2

Alike == Permutations(Bills) \cup Permutations(Requests)

=============================================================================
