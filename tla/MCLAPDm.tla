------------------------------- MODULE MCLAPDm -------------------------------
(* Small instances of LAPDm.                                               *)
EXTENDS LAPDmService
-----------------------------------------------------------------------------
Both == {BTS, MS}
OnlyBTS == {BTS}
OnlyMS == {MS}
NoInfo == {0}
NoStrays == {}
(* What handsets are seen to do: the RR poll of a Blackberry (cr = 0 for   *)
(* a command of a handset), a UA or DM nobody asked for, a REJ with F.     *)
SomeStrays == {[type |-> "RR", cr |-> 0, pf |-> TRUE], [type |-> "RR", cr |-> 1, pf |-> TRUE],
               [type |-> "REJ", cr |-> 0, pf |-> TRUE], [type |-> "REJ", cr |-> 1, pf |-> TRUE],
               [type |-> "UA", cr |-> 1, pf |-> TRUE], [type |-> "UA", cr |-> 1, pf |-> FALSE],
               [type |-> "DM", cr |-> 1, pf |-> TRUE], [type |-> "DM", cr |-> 1, pf |-> FALSE],
               [type |-> "SABM", cr |-> 0, pf |-> TRUE], [type |-> "SABM", cr |-> 0, pf |-> FALSE]}
WithInfo == {0, 1}
=============================================================================
