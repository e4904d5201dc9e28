---------------------------- MODULE MCSafeQueue ----------------------------
(***************************************************************************)
(* SafeQueue for TLC: two owners that nothing tells apart.                 *)
(***************************************************************************)
EXTENDS SafeQueue, TLC

CONSTANTS alice, bob

Alike == Permutations({alice, bob})
=============================================================================
