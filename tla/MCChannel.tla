------------------------------ MODULE MCChannel ------------------------------
(* Small instances of Channel; the mobiles and the contexts are alike.     *)
EXTENDS Channel, TLC
-----------------------------------------------------------------------------
Alike == Permutations(Mobiles) \cup Permutations(Contexts) \cup Permutations(Sdcch)
=============================================================================
