---------------------------- MODULE MCDataExport ----------------------------
(***************************************************************************)
(* One export, by the grantor or an administrator, beside two changes of   *)
(* the profile; two ticks to the second.                                    *)
(***************************************************************************)
EXTENDS DataExport
=============================================================================
