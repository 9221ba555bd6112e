------------------------- MODULE MCNexusMonitoring -------------------------
(* Instances of NexusMonitoring for TLC.                                   *)
EXTENDS NexusMonitoring, TLC

CONSTANTS d1, d2, w1, w2, w3, c1, c2

(* Devices, calls and ids are interchangeable.                             *)
AllAlike == Permutations(Devices) \cup Permutations(Calls) \cup Permutations(Windows)

=============================================================================
