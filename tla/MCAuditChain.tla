---------------------------- MODULE MCAuditChain ----------------------------
(***************************************************************************)
(* Two threads, two chains.                                                *)
(***************************************************************************)
EXTENDS AuditChain

CONSTANTS t1, t2, profile1, profile2, plain, other

Symmetric ==
  Permutations({t1, t2}) \cup Permutations({profile1, profile2})
    \cup Permutations({plain, other})
=============================================================================
