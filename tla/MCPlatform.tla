----------------------------- MODULE MCPlatform -----------------------------
(* Small instances of Platform for TLC. *)
EXTENDS PlatformLedger, TLC

(* For runs without liveness properties only. *)
Symmetry == Permutations(Job) \cup Permutations(Config) \cup Permutations(Worker)
=============================================================================
