------------------------------ MODULE MCKeyRing ------------------------------
(* KeyRing over model values; keys and assets are interchangeable. *)
EXTENDS KeyRing, TLC

Symmetry == Permutations(Key) \cup Permutations(Asset)
=============================================================================
