----------------------------- MODULE RLCWindow ------------------------------
(* Arithmetic on the block sequence numbers of an RLC engine: GPRS/RLCEngine. *)
EXTENDS Integers

CONSTANT WS      \* mWS, the window: 64 blocks

ASSUME WindowAssumption == WS \in Nat /\ WS >= 4

SNS == 2 * WS    \* mSNS, the sequence number space
BSNs == 0..SNS - 1

AddSN(a, b) == (a + b) % SNS

IncSN(a) == AddSN(a, 1)

\* Which of two numbers is ahead, when either may be.
DeltaSN(a, b) == LET d == a - b
                 IN IF d <= -WS THEN d + SNS ELSE IF d > WS THEN d - SNS ELSE d

\* How far the first is ahead, when it is not behind by more than one.
DeltaSNS(a, b) == IF a - b < -1 THEN a - b + SNS ELSE a - b

\* The first number of S at or after a, n at the latest.
FirstSN(a, n, S) ==
    LET dist == CHOOSE i \in 0..AddSN(n, -a) :
                    /\ i = AddSN(n, -a) \/ AddSN(a, i) \in S
                    /\ \A j \in 0..i - 1 : AddSN(a, j) \notin S
    IN AddSN(a, dist)
=============================================================================
