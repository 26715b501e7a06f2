---------------------------- MODULE MCMemorialCare ----------------------------
(***************************************************************************)
(* A founder and an heir, two grants, two nominations (care may pass to    *)
(* the heir and back), two erasure requests.                               *)
(***************************************************************************)
EXTENDS MemorialCare, TLC

CONSTANTS heir, g1, g2, n1, n2, r1, r2, v1

Ids == Permutations({g1, g2}) \cup Permutations({n1, n2}) \cup Permutations({r1, r2})
=============================================================================
