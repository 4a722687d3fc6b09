----------------------------- MODULE MCHandover -----------------------------
(* Small instances of Handover for TLC.                                    *)
EXTENDS Handover
=============================================================================
