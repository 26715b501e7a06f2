--------------------------- MODULE MCErasureLedger ---------------------------
(***************************************************************************)
(* Two memorials, the first with two media files.                          *)
(***************************************************************************)
EXTENDS ErasureLedger, TLC

CONSTANTS m1, m2, f1, f2, o1, o2

MCOf == f1 :> m1 @@ f2 :> m1

Symmetric == Permutations({f1, f2}) \cup Permutations({o1, o2})
=============================================================================
