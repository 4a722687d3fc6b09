------------------------------- MODULE MCTBF -------------------------------
(* Two handsets, one of which also sends, on a packet channel with a TFI   *)
(* less than it may have TBFs, and a USF for one.                          *)
EXTENDS TBF

\* Data for one handset while the other sends twice, or sends once and fails.
SomeBudgets == {[pdus |-> 1, asks |-> 2, retries |-> 0], [pdus |-> 1, asks |-> 1, retries |-> 1]}
=============================================================================
