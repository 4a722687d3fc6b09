----------------------------- MODULE MCMMLayer -----------------------------
(* Small instances of MMLayer for TLC.                                     *)
EXTENDS MMLayer, TLC

CONSTANT Mixes      \* bound: the sets of objects that one behaviour may use

Alike == Permutations(Sdcch) \cup Permutations(Contexts) \cup Permutations(Mocs)

\* What a behaviour has made use of so far; "repeat" stands for mmMTRepage.
Used ==
    {t \in Trans : tran[t].state # "unborn"}
    \cup {i \in Imsis : user[i].known \/ phone[i].at # None}
    \cup {x \in Contexts : ctx[x] # NoContext \/ \E c \in Chans : chan[c].ctx = x}
    \cup (IF repages > 0 THEN {"repeat"} ELSE {})
Mixed == \E m \in Mixes : Used \subseteq m

\* Only steps of the handsets and of the SIP side make Used grow beyond a mix:
\* the bound takes no step from the service loops, whose fairness is stated.
Bounded == Init /\ [][Next /\ Mixed']_vars /\ Fairness
=============================================================================
