------------------------- MODULE MCRevocationCascade -------------------------
(***************************************************************************)
(* Grant g has a voice model; the audio made from it, and the delivery of  *)
(* that audio, are tagged with grant h.                                    *)
(***************************************************************************)
EXTENDS RevocationCascade, TLC

CONSTANTS g, h, w1, w2

MCTag == 1 :> g @@ 2 :> h @@ 3 :> h
MCSource == 1 :> 0 @@ 2 :> 1 @@ 3 :> 2

\* Two items of one grant, for the liveness run.
MCTagOne == 1 :> g @@ 2 :> g
MCSourceOne == 1 :> 0 @@ 2 :> 1

Workers == Permutations({w1, w2})
=============================================================================
