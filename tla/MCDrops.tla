------------------------------- MODULE MCDrops -------------------------------
(***************************************************************************)
(* Small instances of Drops.  Two requests claim the same hold (two taps,  *)
(* or a retry after a failure), a third another one.                       *)
(***************************************************************************)
EXTENDS Drops, TLC

CONSTANTS tap, retry, other, mine, theirs

Claims == [r \in Request |-> IF r = other THEN theirs ELSE mine]

\* tap and retry differ in name only.
Alike == Permutations({tap, retry})
=============================================================================
