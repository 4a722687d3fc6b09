------------------------------ MODULE RLC_proofs ------------------------------
(* Theorems about the two RLC engines, for every window, any number of      *)
(* blocks and every limit: types, that the windows of either engine and of  *)
(* the handset agree and blocks are delivered in order, that what the       *)
(* downlink engine takes for acknowledged has been received, and that the   *)
(* uplink bitmap is exact.                                                  *)
(*                                                                          *)
(* A BSN is the number of its block modulo SNS.  The invariants speak of    *)
(* block numbers, whose order is that of the integers; lemmas on Wrap say   *)
(* what the engines' arithmetic on BSNs makes of them.                      *)
EXTENDS MCRLC, Sequences, WellFoundedInduction, TLAPS

(* The BSN of the block before block x + 1: x blocks are before it.        *)
Wrap(x) == x % SNS

(* The window and the space of numbers: SNS is twice WS, of at least 4.     *)
LEMMA Sizes == SNS \in Nat /\ SNS >= WS + 4 /\ SNS = WS + WS /\ WS \in Nat /\ BSNs = 0..SNS-1
BY WindowAssumption DEF SNS, BSNs

(* The BSN of a number is a BSN, and a multiple of SNS away from it.        *)
LEMMA WrapIs ==
  ASSUME NEW x \in Int
  PROVE  Wrap(x) \in BSNs /\ \E k \in Int : x = k * SNS + Wrap(x)
<1>1. x % SNS \in 0..SNS-1 /\ x \div SNS \in Int
  BY Sizes
<1>2. x = (x \div SNS) * SNS + (x % SNS)
  BY Sizes
<1>3. QED
  BY <1>1, <1>2 DEF Wrap, BSNs

(* Only one BSN is a multiple of SNS away from a number.                    *)
LEMMA WrapFound ==
  ASSUME NEW x \in Int, NEW r \in BSNs, NEW k \in Int, x = k * SNS + r
  PROVE  Wrap(x) = r
<1>1. PICK j \in Int : x = j * SNS + Wrap(x)
  BY WrapIs
<1>2. PICK t \in BSNs : t = Wrap(x)
  BY WrapIs
<1>3. PICK s \in Nat : s = SNS
  BY Sizes
<1>4. r \in Int /\ t \in Int /\ 0 <= r /\ r < s /\ 0 <= t /\ t < s /\ s > 0
  BY <1>3, Sizes DEF BSNs
<1>5. PICK i \in Int : i = j - k
  OBVIOUS
<1>6. r - t = i * s
  <2>a. j * s \in Int /\ k * s \in Int
    BY <1>3
  <2>b. x = j * s + t /\ x = k * s + r
    BY <1>1, <1>2, <1>3
  <2>1. r - t = j * s - k * s
    BY <1>4, <2>a, <2>b
  <2>2. (j - k) * s = j * s - k * s
    BY <1>3
  <2>3. QED
    BY <2>1, <2>2, <1>5
<1>7. i < 1
  <2>1. ASSUME i >= 1 PROVE i * s >= s
    BY <2>1, <1>4
  <2>2. QED
    BY <2>1, <1>4, <1>6
<1>8. i > -1
  <2>1. ASSUME i <= -1 PROVE i * s <= -s
    BY <2>1, <1>4
  <2>2. QED
    BY <2>1, <1>4, <1>6
<1>9. i = 0
  BY <1>7, <1>8
<1>10. QED
  BY <1>2, <1>4, <1>6, <1>9

(* Rounds do not change the BSN.                                            *)
LEMMA WrapShift ==
  ASSUME NEW x \in Int, NEW j \in Int
  PROVE  Wrap(x + j * SNS) = Wrap(x)
<1>1. PICK k \in Int : x = k * SNS + Wrap(x)
  BY WrapIs
<1>2. PICK s \in Nat : s = SNS
  BY Sizes
<1>3. Wrap(x) \in BSNs /\ Wrap(x) \in Int
  BY WrapIs, Sizes DEF BSNs
<1>4. PICK r \in BSNs : r = Wrap(x)
  BY <1>3
<1>5. x + j * s = (k + j) * s + r /\ x + j * s \in Int /\ k + j \in Int /\ r \in Int
  <2>1. (k + j) * s = k * s + j * s
    BY <1>2
  <2>2. k * s \in Int /\ j * s \in Int
    BY <1>2
  <2>3. QED
    BY <1>1, <1>2, <1>3, <1>4, <2>1, <2>2
<1>6. QED
  BY <1>2, <1>4, <1>5, WrapFound

(* One round does not.                                                      *)
LEMMA WrapOnce == ASSUME NEW x \in Int PROVE Wrap(x + SNS) = Wrap(x)
<1>1. Wrap(x + 1 * SNS) = Wrap(x)
  BY WrapShift
<1>2. 1 * SNS = SNS
  BY Sizes
<1>3. QED
  BY <1>1, <1>2

(* A BSN is its own.                                                        *)
LEMMA WrapSmall == ASSUME NEW b \in BSNs PROVE Wrap(b) = b
<1>1. b \in Int /\ b = 0 * SNS + b
  BY Sizes
<1>2. QED
  BY <1>1, WrapFound

(* Numbers less than SNS apart that have the same BSN are the same.         *)
LEMMA WrapSame ==
  ASSUME NEW x \in Int, NEW y \in Int, Wrap(x) = Wrap(y), x - y < SNS, y - x < SNS
  PROVE  x = y
<1>1. PICK k \in Int : x = k * SNS + Wrap(x)
  BY WrapIs
<1>2. PICK j \in Int : y = j * SNS + Wrap(y)
  BY WrapIs
<1>3. PICK s \in Nat : s = SNS /\ s > 0
  BY Sizes
<1>4. PICK r \in Int : r = Wrap(x)
  BY WrapIs, Sizes DEF BSNs
<1>5. PICK i \in Int : i = k - j
  OBVIOUS
<1>6. x - y = i * s
  <2>1. (k - j) * s = k * s - j * s
    BY <1>3
  <2>2. k * s \in Int /\ j * s \in Int
    BY <1>3
  <2>3. QED
    BY <1>1, <1>2, <1>3, <1>4, <1>5, <2>1, <2>2
<1>7. i < 1
  <2>1. ASSUME i >= 1 PROVE i * s >= s
    BY <2>1, <1>3
  <2>2. QED
    BY <2>1, <1>3, <1>6
<1>8. i > -1
  <2>1. ASSUME i <= -1 PROVE i * s <= -s
    BY <2>1, <1>3
  <2>2. QED
    BY <2>1, <1>3, <1>6
<1>9. i = 0
  BY <1>7, <1>8
<1>10. QED
  BY <1>3, <1>6, <1>9

(* addSN adds and subtracts block numbers.                                  *)
LEMMA WrapAdd ==
  ASSUME NEW x \in Int, NEW y \in Int
  PROVE  AddSN(Wrap(x), y) = Wrap(x + y) /\ AddSN(y, -Wrap(x)) = Wrap(y - x)
<1>1. PICK k \in Int : x = k * SNS + Wrap(x)
  BY WrapIs
<1>2. PICK s \in Nat : s = SNS
  BY Sizes
<1>3. PICK r \in Int : r = Wrap(x)
  BY WrapIs, Sizes DEF BSNs
<1>4. k * s \in Int /\ (-k) * s = -(k * s)
  BY <1>2
<1>5. r + y = (x + y) + (-k) * s /\ r + y \in Int
  BY <1>1, <1>2, <1>3, <1>4
<1>6. y + (-r) = (y - x) + k * s /\ y - x \in Int
  BY <1>1, <1>2, <1>3, <1>4
<1>7. Wrap((x + y) + (-k) * s) = Wrap(x + y) /\ Wrap((y - x) + k * s) = Wrap(y - x)
  <2>1. -k \in Int /\ x + y \in Int /\ y - x \in Int
    OBVIOUS
  <2>2. Wrap((x + y) + (-k) * SNS) = Wrap(x + y) /\ Wrap((y - x) + k * SNS) = Wrap(y - x)
    BY <2>1, WrapShift
  <2>3. QED
    BY <1>2, <2>2
<1>8. QED
  BY <1>2, <1>3, <1>5, <1>6, <1>7 DEF AddSN, Wrap

(* addSN measures the way from one block up to another, less than SNS away. *)
LEMMA WrapGap ==
  ASSUME NEW x \in Int, NEW y \in Int, 0 <= x - y, x - y < SNS
  PROVE  AddSN(Wrap(x), -Wrap(y)) = x - y
<1>1. Wrap(x) \in Int /\ Wrap(y) \in Int /\ -Wrap(y) \in Int
  BY WrapIs, Sizes DEF BSNs
<1>2. AddSN(Wrap(x), -Wrap(y)) = Wrap(Wrap(x) - Wrap(y)) /\ AddSN(Wrap(x), -Wrap(y)) = Wrap(x + (-Wrap(y)))
  BY <1>1, WrapAdd DEF AddSN, Wrap
<1>3. x + (-Wrap(y)) = x - Wrap(y)
  BY <1>1
<1>4. Wrap(x - Wrap(y)) = AddSN(x, -Wrap(y))
  BY <1>1, <1>3 DEF AddSN, Wrap
<1>5. AddSN(x, -Wrap(y)) = Wrap(x - y)
  BY WrapAdd
<1>6. x - y \in BSNs
  BY Sizes DEF BSNs
<1>7. QED
  BY <1>2, <1>3, <1>4, <1>5, <1>6, WrapSmall

(* deltaSN is the difference of two blocks in reach of a window.            *)
LEMMA WrapDelta ==
  ASSUME NEW x \in Int, NEW y \in Int, -WS < x - y, x - y <= WS
  PROVE  DeltaSN(Wrap(x), Wrap(y)) = x - y
<1>1. PICK p \in BSNs : p = Wrap(x)
  BY WrapIs
<1>2. PICK q \in BSNs : q = Wrap(y)
  BY WrapIs
<1>3. PICK s \in Nat : s = SNS /\ s = WS + WS /\ WS \in Nat /\ s > 0
  <2>1. SNS > 0
    BY Sizes
  <2>2. QED
    BY <2>1, Sizes
<1>4. p \in Int /\ q \in Int /\ 0 <= p /\ p < s /\ 0 <= q /\ q < s
  BY <1>3, Sizes DEF BSNs
<1>5. CASE x >= y
  <2>1. Wrap(p - q) = x - y
    <3>1. AddSN(p, -q) = x - y
      BY <1>1, <1>2, <1>3, <1>5, WrapGap
    <3>2. p + (-q) = p - q
      BY <1>4
    <3>3. QED
      BY <3>1, <3>2 DEF AddSN, Wrap
  <2>2. CASE p >= q
    <3>1. p - q \in BSNs
      BY <2>2, <1>3, <1>4, Sizes DEF BSNs
    <3>2. p - q = x - y
      BY <2>1, <3>1, WrapSmall
    <3>3. QED
      BY <1>1, <1>2, <1>3, <1>4, <1>5, <3>2 DEF DeltaSN
  <2>3. CASE p < q
    <3>1. p - q + s \in BSNs /\ p - q \in Int
      BY <2>3, <1>3, <1>4, Sizes DEF BSNs
    <3>2. Wrap(p - q + s) = Wrap(p - q)
      BY <3>1, <1>3, WrapOnce
    <3>3. p - q + s = x - y
      BY <2>1, <3>1, <3>2, WrapSmall
    <3>4. p - q <= -WS
      BY <3>3, <1>3, <1>4
    <3>5. QED
      BY <1>1, <1>2, <1>3, <1>4, <3>3, <3>4 DEF DeltaSN
  <2>4. QED
    BY <1>4, <2>2, <2>3
<1>6. CASE x < y
  <2>1. Wrap(q - p) = y - x
    <3>1. AddSN(q, -p) = y - x
      BY <1>1, <1>2, <1>3, <1>6, WrapGap
    <3>2. q + (-p) = q - p
      BY <1>4
    <3>3. QED
      BY <3>1, <3>2 DEF AddSN, Wrap
  <2>2. CASE q >= p
    <3>1. q - p \in BSNs
      BY <2>2, <1>3, <1>4, Sizes DEF BSNs
    <3>2. q - p = y - x
      BY <2>1, <3>1, WrapSmall
    <3>3. QED
      BY <1>1, <1>2, <1>3, <1>4, <1>6, <3>2 DEF DeltaSN
  <2>3. CASE q < p
    <3>1. q - p + s \in BSNs /\ q - p \in Int
      BY <2>3, <1>3, <1>4, Sizes DEF BSNs
    <3>2. Wrap(q - p + s) = Wrap(q - p)
      BY <3>1, <1>3, WrapOnce
    <3>3. q - p + s = y - x
      BY <2>1, <3>1, <3>2, WrapSmall
    <3>4. p - q > WS /\ ~(p - q <= -WS)
      BY <3>3, <1>3, <1>4, <1>6
    <3>5. QED
      BY <1>1, <1>2, <1>3, <1>4, <3>3, <3>4 DEF DeltaSN
  <2>4. QED
    BY <1>4, <2>2, <2>3
<1>7. QED
  BY <1>5, <1>6

(* deltaSNS is the way to a block ahead.                                    *)
LEMMA WrapAhead ==
  ASSUME NEW x \in Int, NEW y \in Int, 0 <= x - y, x - y < SNS - 1
  PROVE  DeltaSNS(Wrap(x), Wrap(y)) = x - y
<1>1. PICK p \in BSNs : p = Wrap(x)
  BY WrapIs
<1>2. PICK q \in BSNs : q = Wrap(y)
  BY WrapIs
<1>3. PICK s \in Nat : s = SNS /\ s > 0
  BY Sizes
<1>4. p \in Int /\ q \in Int /\ 0 <= p /\ p < s /\ 0 <= q /\ q < s
  BY <1>3, Sizes DEF BSNs
<1>5. Wrap(p - q) = x - y
  <2>1. AddSN(p, -q) = x - y
    BY <1>1, <1>2, <1>3, WrapGap
  <2>2. p + (-q) = p - q
    BY <1>4
  <2>3. QED
    BY <2>1, <2>2 DEF AddSN, Wrap
<1>6. CASE p >= q
  <2>1. p - q \in BSNs
    BY <1>6, <1>3, <1>4, Sizes DEF BSNs
  <2>2. p - q = x - y
    BY <1>5, <2>1, WrapSmall
  <2>3. QED
    BY <1>1, <1>2, <1>4, <2>2 DEF DeltaSNS
<1>7. CASE p < q
  <2>1. p - q + s \in BSNs /\ p - q \in Int
    BY <1>7, <1>3, <1>4, Sizes DEF BSNs
  <2>2. Wrap(p - q + s) = Wrap(p - q)
    BY <2>1, <1>3, WrapOnce
  <2>3. p - q + s = x - y
    BY <1>5, <2>1, <2>2, WrapSmall
  <2>4. p - q < -1
    BY <2>3, <1>3, <1>4
  <2>5. QED
    BY <1>1, <1>2, <1>3, <1>4, <2>3, <2>4 DEF DeltaSNS
<1>8. QED
  BY <1>4, <1>6, <1>7

(* A set of naturals that is not empty has a least one.                     *)
LEMMA Least ==
  ASSUME NEW S \in SUBSET Nat, S # {}
  PROVE  \E x \in S : \A y \in S : x <= y
<1> DEFINE R == OpToRel(<, Nat)
<1>1. IsWellFoundedOn(R, Nat)
  BY NatLessThanWellFounded
<1>2. \A x, y \in Nat : x < y => <<x, y>> \in R
  BY DEF OpToRel
<1> HIDE DEF R
<1>3. PICK x \in S : \A y \in S : ~ (<<y, x>> \in R)
  BY <1>1, WFMin
<1>4. ASSUME NEW y \in S PROVE x <= y
  <2>1. x \in Nat /\ y \in Nat
    OBVIOUS
  <2>2. ~(y < x)
    BY <1>2, <1>3, <2>1
  <2>3. QED
    BY <2>1, <2>2
<1>5. QED
  BY <1>4

(* The search that advances a window stops at the first block of S from x   *)
(* on, or at y when there is none.                                          *)
LEMMA FirstFound ==
  ASSUME NEW x \in Int, NEW y \in Int, 0 <= y - x, y - x < SNS, NEW S
  PROVE  \E z \in x..y : /\ FirstSN(Wrap(x), Wrap(y), S) = Wrap(z)
                         /\ z = y \/ Wrap(z) \in S
                         /\ \A w \in x..z - 1 : Wrap(w) \notin S
<1> DEFINE P(i) == /\ i = y - x \/ Wrap(x + i) \in S
                   /\ \A j \in 0..i - 1 : Wrap(x + j) \notin S
           Q(i) == /\ i = y - x \/ AddSN(Wrap(x), i) \in S
                   /\ \A j \in 0..i - 1 : AddSN(Wrap(x), j) \notin S
           T == {i \in 0..y - x : i = y - x \/ Wrap(x + i) \in S}
<1>1. PICK i \in T : \A j \in T : i <= j
  <2>1. y - x \in T /\ T \in SUBSET Nat
    OBVIOUS
  <2>2. QED
    BY <2>1, Least
<1>2. i \in 0..y - x /\ P(i)
  BY <1>1
<1>3. \A j \in Int : AddSN(Wrap(x), j) = Wrap(x + j)
  BY WrapAdd
<1>4. ASSUME NEW j \in 0..y - x PROVE P(j) <=> Q(j)
  <2>1. AddSN(Wrap(x), j) = Wrap(x + j)
    BY <1>3
  <2>2. \A h \in 0..j - 1 : AddSN(Wrap(x), h) = Wrap(x + h)
    BY <1>3
  <2>3. QED
    BY <2>1, <2>2
<1>5. AddSN(Wrap(y), -Wrap(x)) = y - x
  BY WrapGap
<1>6. PICK d : d = CHOOSE j \in 0..y - x : Q(j)
  OBVIOUS
<1>7. d \in 0..y - x /\ Q(d)
  BY <1>2, <1>4, <1>6
<1>8. FirstSN(Wrap(x), Wrap(y), S) = AddSN(Wrap(x), d)
  BY <1>5, <1>6 DEF FirstSN
<1>9. x + d \in x..y /\ d \in Int /\ AddSN(Wrap(x), d) = Wrap(x + d) /\ P(d)
  <2>1. P(d)
    BY <1>4, <1>7
  <2>2. x + d \in x..y /\ d \in Int
    BY <1>7
  <2>3. QED
    BY <1>3, <2>1, <2>2
<1>10. ASSUME NEW w \in x..(x + d) - 1 PROVE Wrap(w) \notin S
  <2>1. w - x \in 0..d - 1 /\ x + (w - x) = w
    BY <1>9
  <2>2. QED
    BY <1>9, <2>1
<1>11. QED
  BY <1>8, <1>9, <1>10

-----------------------------------------------------------------------------
(* The downlink engine.                                                     *)

(* The records of the types.                                                *)
DownFields ==
    [state: {"Transmit", "Finished", "Cancelled"}, vs: BSNs, va: BSNs, txqNum: BSNs,
     vb: [BSNs -> BOOLEAN], txq: [BSNs -> Numbers], finished: BOOLEAN, stalled: BOOLEAN,
     resendSsn: BSNs, prevAckSsn: BSNs, sincePoll: 0..PerAck, sinceNews: 0..NStuck + 1,
     n3105: 0..N3105Max + 1]

MsFields == [got: Numbers, vq: BSNs, vr: BSNs, buf: [BSNs -> Numbers]]

(* n blocks have been filled, the engine takes a of them for acknowledged   *)
(* and sends block s + 1 next.                                              *)
Window(d, n, a, s) ==
    /\ d.txqNum = Wrap(n) /\ d.va = Wrap(a) /\ d.vs = Wrap(s)
    /\ a <= n /\ s <= n /\ n - a < WS /\ n - s < WS
    /\ a <= s \/ a = n
    /\ \A i \in 1..a : n - WS < i => d.vb[Wrap(i - 1)]

(* The queue has the last SNS blocks and no other.                          *)
Queue(d, n) ==
    /\ \A i \in 1..n : n - SNS < i => d.txq[Wrap(i - 1)] = i
    /\ \A b \in BSNs : d.txq[b] # 0 => /\ d.txq[b] \in 1..n /\ n - SNS < d.txq[b]
                                       /\ b = Wrap(d.txq[b] - 1)

Sender(d, n, a, s) == Window(d, n, a, s) /\ Queue(d, n) /\ s - a <= WS - 2

(* The handset has heard r of them, or of those before r.                   *)
Holds(m, n, r) ==
    /\ m.vq = Wrap(m.got) /\ m.vr = Wrap(r)
    /\ m.got <= r /\ r <= n /\ r - m.got <= WS
    /\ \A b \in BSNs : m.buf[b] # 0 => m.buf[b] \in m.got + 1..r /\ b = Wrap(m.buf[b] - 1)

Receiver(m, n, r) == Holds(m, n, r) /\ m.buf[m.vq] = 0

(* The handset has block i, delivered or waiting.                           *)
Has(m, i) == i <= m.got \/ m.buf[Wrap(i - 1)] = i

(* What is marked acknowledged the handset has.                             *)
Truthful(d, m, n) == \A i \in 1..n : n - SNS < i /\ d.vb[Wrap(i - 1)] => Has(m, i)

(* Blocks filled so far, by what is left of the data.                       *)
Filled(x) == Blocks - x.toCome - x.queue

Joined(d, m, n, a, s, r) ==
    /\ Sender(d, n, a, s) /\ Receiver(m, n, r) /\ a <= m.got /\ Truthful(d, m, n)
    /\ d.finished => n > 0

DownInv ==
    /\ TypeOK /\ data.queue + data.toCome <= Blocks
    /\ \E a, s, r \in Nat : Joined(down, ms, Filled(data), a, s, r)

(* advanceVS leaves V(S) inside the window of V(A), wherever it starts.     *)
LEMMA AdvanceVSType == ASSUME NEW d \in DownFields, NEW n \in Nat, NEW a \in Nat, NEW s \in Nat,
    Window(d, n, a, s)
  PROVE \E t \in Nat :
     /\ AdvanceVS(d) \in DownFields
     /\ Window(AdvanceVS(d), n, a, t) /\ t - a <= WS - 2
     /\ AdvanceVS(d).vb = d.vb /\ AdvanceVS(d).txq = d.txq /\ AdvanceVS(d).state = d.state
     /\ AdvanceVS(d).finished = d.finished /\ AdvanceVS(d).n3105 = d.n3105
<1> DEFINE S == {b \in BSNs : ResendNeeded(d, b)}
<1>1. PICK z \in s..n : /\ FirstSN(Wrap(s), Wrap(n), S) = Wrap(z)
                        /\ z = n \/ Wrap(z) \in S
                        /\ \A w \in s..z - 1 : Wrap(w) \notin S
  <2>1. 0 <= n - s /\ n - s < SNS /\ s \in Int /\ n \in Int
    BY Sizes DEF Window
  <2>2. QED
    BY <2>1, FirstFound
<1>2. z \in Nat /\ s <= z /\ z <= n
  OBVIOUS
<1>3. a <= z
  <2>1. CASE a <= s
    BY <2>1, <1>2
  <2>2. CASE a = n /\ s < a
    <3>1. SUFFICES ASSUME z < n PROVE FALSE
      BY <2>2, <1>2
    <3>2. Wrap(z) \in S
      BY <1>1, <3>1, <1>2
    <3>3. z + 1 \in 1..a /\ n - WS < z + 1 /\ (z + 1) - 1 = z
      BY <2>2, <3>1, <1>2, Sizes DEF Window
    <3>4. d.vb[Wrap(z)]
      BY <3>3 DEF Window
    <3>5. QED
      BY <3>2, <3>4 DEF ResendNeeded
  <2>3. QED
    BY <2>1, <2>2 DEF Window
<1> DEFINE e == [d EXCEPT !.vs = Wrap(z)]
<1>4. d.vs = Wrap(s) /\ d.txqNum = Wrap(n) /\ d.va = Wrap(a)
  BY DEF Window
<1>5. AdvanceVS(d) = IF WindowFull(e) THEN [e EXCEPT !.stalled = TRUE, !.vs = d.va] ELSE e
  BY <1>1, <1>4 DEF AdvanceVS
<1>6. Wrap(z) \in BSNs
  BY <1>2, WrapIs
<1>7. DeltaSNS(Wrap(z), Wrap(a)) = z - a
  <2>1. 0 <= z - a /\ z - a < SNS - 1
    BY <1>2, <1>3, Sizes DEF Window
  <2>2. QED
    BY <2>1, <1>2, WrapAhead
<1>8. WindowFull(e) <=> z - a >= WS - 1
  BY <1>4, <1>6, <1>7 DEF WindowFull, DownFields
<1>9. e \in DownFields /\ d.va \in BSNs
  BY <1>6 DEF DownFields
<1>10. CASE z - a >= WS - 1
  <2>1. AdvanceVS(d) = [e EXCEPT !.stalled = TRUE, !.vs = d.va]
    BY <1>5, <1>8, <1>10
  <2>2. AdvanceVS(d) = [d EXCEPT !.vs = d.va, !.stalled = TRUE]
    BY <2>1 DEF DownFields
  <2>3. AdvanceVS(d) \in DownFields
    BY <2>2, <1>9 DEF DownFields
  <2>4. /\ AdvanceVS(d).va = Wrap(a) /\ AdvanceVS(d).vs = Wrap(a) /\ AdvanceVS(d).txqNum = Wrap(n)
        /\ AdvanceVS(d).vb = d.vb /\ AdvanceVS(d).txq = d.txq /\ AdvanceVS(d).state = d.state
     /\ AdvanceVS(d).finished = d.finished /\ AdvanceVS(d).n3105 = d.n3105
    BY <2>2, <1>4 DEF DownFields
  <2>5. Window(AdvanceVS(d), n, a, a) /\ a - a <= WS - 2
    BY <2>4, <1>2, Sizes DEF Window
  <2>6. QED
    BY <2>3, <2>4, <2>5
<1>11. CASE ~(z - a >= WS - 1)
  <2>1. AdvanceVS(d) = [d EXCEPT !.vs = Wrap(z)]
    BY <1>5, <1>8, <1>11
  <2>2. /\ AdvanceVS(d).va = Wrap(a) /\ AdvanceVS(d).vs = Wrap(z) /\ AdvanceVS(d).txqNum = Wrap(n)
        /\ AdvanceVS(d).vb = d.vb /\ AdvanceVS(d).txq = d.txq /\ AdvanceVS(d).state = d.state
     /\ AdvanceVS(d).finished = d.finished /\ AdvanceVS(d).n3105 = d.n3105
    BY <2>1, <1>4 DEF DownFields
  <2>3. z - a <= WS - 2
    BY <1>2, <1>11, Sizes
  <2>4. n - z < WS
    BY <1>2, Sizes DEF Window
  <2>5. Window(AdvanceVS(d), n, a, z)
    BY <2>2, <2>4, <1>2, <1>3 DEF Window
  <2>6. QED
    BY <2>1, <2>2, <2>3, <2>5, <1>2, <1>9
<1>12. QED
  BY <1>10, <1>11

(* V(A) moves over acknowledged blocks only, and V(S) restarts from there   *)
(* or stays.                                                                *)
LEMMA AfterAcksKeeps ==
  ASSUME NEW d \in DownFields, NEW n \in Nat, NEW a \in Nat, NEW s \in Nat,
         Window(d, n, a, s), s - a <= WS - 2
  PROVE  \E b \in Nat, t \in Nat :
           /\ AfterAcks(d) \in DownFields
           /\ Window(AfterAcks(d), n, b, t) /\ t - b <= WS - 2
           /\ a <= b /\ \A i \in a + 1..b : d.vb[Wrap(i - 1)]
           /\ AfterAcks(d).vb = d.vb /\ AfterAcks(d).txq = d.txq /\ AfterAcks(d).finished = d.finished
<1> DEFINE S == {b \in BSNs : ~d.vb[b]}
<1>1. PICK z \in a..n : /\ FirstSN(Wrap(a), Wrap(n), S) = Wrap(z)
                        /\ z = n \/ Wrap(z) \in S
                        /\ \A w \in a..z - 1 : Wrap(w) \notin S
  <2>1. 0 <= n - a /\ n - a < SNS /\ a \in Int /\ n \in Int
    BY Sizes DEF Window
  <2>2. QED
    BY ZenonT(40), <2>1, FirstFound
<1>2. z \in Nat /\ a <= z /\ z <= n
  OBVIOUS
<1>3. d.vs = Wrap(s) /\ d.txqNum = Wrap(n) /\ d.va = Wrap(a)
  BY DEF Window
<1>4. ASSUME NEW i \in a + 1..z PROVE d.vb[Wrap(i - 1)]
  <2>1. i - 1 \in a..z - 1 /\ i - 1 \in Int
    OBVIOUS
  <2>2. Wrap(i - 1) \notin S /\ Wrap(i - 1) \in BSNs
    BY <2>1, <1>1, WrapIs
  <2>3. QED
    BY <2>2
<1>5. Wrap(z) \in BSNs
  BY <1>2, WrapIs
<1> DEFINE e == [d EXCEPT !.va = Wrap(z)]
<1>6. AdvanceVA(d) = e
  BY <1>1, <1>3 DEF AdvanceVA
<1>7. e \in DownFields
  BY <1>5 DEF DownFields
<1>8. \A i \in 1..z : n - WS < i => d.vb[Wrap(i - 1)]
  <2> SUFFICES ASSUME NEW i \in 1..z, n - WS < i PROVE d.vb[Wrap(i - 1)]
    OBVIOUS
  <2>1. i \in 1..a \/ i \in a + 1..z
    BY <1>2
  <2>2. QED
    BY <2>1, <1>4 DEF Window
<1>9. CASE z = n
  <2>1. AfterAcks(d) = [e EXCEPT !.state = IF e.finished THEN "Finished" ELSE @]
    BY <1>3, <1>6, <1>9 DEF AfterAcks, DownFields
  <2>2. PICK x \in {"Transmit", "Finished", "Cancelled"} : AfterAcks(d) = [d EXCEPT !.va = Wrap(z), !.state = x]
    BY <2>1, <1>7 DEF DownFields
  <2>3. AfterAcks(d) \in DownFields /\ AfterAcks(d).vb = d.vb /\ AfterAcks(d).txq = d.txq
        /\ AfterAcks(d).finished = d.finished
    BY <2>2, <1>5 DEF DownFields
  <2>4. AfterAcks(d).va = Wrap(z) /\ AfterAcks(d).vs = Wrap(s) /\ AfterAcks(d).txqNum = Wrap(n)
    BY <2>2, <1>3 DEF DownFields
  <2>5. Window(AfterAcks(d), n, z, s) /\ s - z <= WS - 2
    BY <2>3, <2>4, <1>2, <1>8, <1>9, Sizes DEF Window
  <2>6. QED
    BY <2>3, <2>5, <1>2, <1>4
<1>10. CASE z # n
  <2>1. Wrap(z) # Wrap(n)
    <3>1. z - n < SNS /\ n - z < SNS
      BY <1>2, Sizes DEF Window
    <3>2. QED
      BY <3>1, <1>2, <1>10, WrapSame
  <2> DEFINE f == [e EXCEPT !.vs = e.va]
  <2>2. AfterAcks(d) = AdvanceVS(f)
    BY <2>1, <1>3, <1>6 DEF AfterAcks, DownFields
  <2>3. f = [d EXCEPT !.va = Wrap(z), !.vs = Wrap(z)]
    BY DEF DownFields
  <2>4. f \in DownFields /\ f.finished = d.finished /\ f.vb = d.vb /\ f.txq = d.txq /\ f.va = Wrap(z) /\ f.vs = Wrap(z) /\ f.txqNum = Wrap(n)
    BY <2>3, <1>3, <1>5 DEF DownFields
  <2> HIDE DEF f
  <2>5. Window(f, n, z, z)
    BY <2>4, <1>2, <1>8, Sizes DEF Window
  <2>6. PICK t \in Nat :
     /\ AdvanceVS(f) \in DownFields
     /\ Window(AdvanceVS(f), n, z, t) /\ t - z <= WS - 2
     /\ AdvanceVS(f).vb = f.vb /\ AdvanceVS(f).txq = f.txq /\ AdvanceVS(f).state = f.state
     /\ AdvanceVS(f).finished = f.finished
    BY <2>4, <2>5, <1>2, AdvanceVSType
  <2>7. QED
    BY <2>2, <2>4, <2>6, <1>2, <1>4
<1>11. QED
  BY <1>9, <1>10

(* InWindow tells the blocks that are due from those a window back.         *)
LEMMA WindowPlace ==
  ASSUME NEW x \in Int, NEW g \in Int, x - g < WS, g - x <= WS
  PROVE  /\ AddSN(Wrap(x), -Wrap(g)) < WS <=> g <= x
         /\ g <= x => AddSN(Wrap(x), -Wrap(g)) = x - g
<1>1. CASE g <= x
  <2>1. 0 <= x - g /\ x - g < SNS
    BY <1>1, Sizes
  <2>2. QED
    BY <1>1, <2>1, WrapGap
<1>2. CASE x < g
  <2>1. PICK y \in Int : y = x + SNS /\ 0 <= y - g /\ y - g < SNS
    BY <1>2, Sizes
  <2>2. AddSN(Wrap(y), -Wrap(g)) = y - g
    BY <2>1, WrapGap
  <2>3. Wrap(y) = Wrap(x)
    BY <2>1, WrapOnce
  <2>4. ~(y - g < WS)
    BY <2>1, Sizes
  <2>5. QED
    BY <1>2, <2>2, <2>3, <2>4
<1>3. QED
  BY <1>1, <1>2

(* What is in order is delivered, up to a gap; nothing the handset has is   *)
(* lost.                                                                    *)
LEMMA DeliverKeeps ==
  ASSUME NEW m \in MsFields, NEW n \in Nat, NEW r \in Nat, Holds(m, n, r), n <= Blocks
  PROVE  /\ Deliver(m) \in MsFields /\ Receiver(Deliver(m), n, r) /\ m.got <= Deliver(m).got
         /\ \A j \in 1..n : Has(m, j) => Has(Deliver(m), j)
<1> DEFINE S == {b \in BSNs : m.buf[b] = 0}
           g == m.got
<1>0. g \in Nat /\ g <= r /\ r <= n /\ r - g <= WS /\ m.vq = Wrap(g) /\ m.vr = Wrap(r)
  BY DEF Holds, MsFields, Numbers
<1> HIDE DEF g
<1>1. PICK z \in g..r : /\ FirstSN(Wrap(g), Wrap(r), S) = Wrap(z)
                        /\ z = r \/ Wrap(z) \in S
                        /\ \A w \in g..z - 1 : Wrap(w) \notin S
  <2>1. 0 <= r - g /\ r - g < SNS /\ g \in Int /\ r \in Int
    BY <1>0, Sizes
  <2>2. QED
    BY <2>1, FirstFound
<1>2. z \in Nat /\ g <= z /\ z <= r /\ z - g <= WS
  BY <1>0, Sizes
<1>3. Wrap(z) \in BSNs
  BY <1>2, WrapIs
<1>4. AddSN(Wrap(z), -Wrap(g)) = z - g
  <2>1. 0 <= z - g /\ z - g < SNS
    BY <1>0, <1>2, Sizes
  <2>2. QED
    BY <2>1, <1>0, <1>2, WrapGap
<1>5. AddSN(Wrap(z), -1) = Wrap(z - 1)
  <2>1. z + (-1) = z - 1 /\ -1 \in Int
    BY <1>2
  <2>2. QED
    BY <2>1, <1>2, WrapAdd
<1>6. ASSUME NEW w \in Nat, g <= w, w < r, m.buf[Wrap(w)] # 0 PROVE m.buf[Wrap(w)] = w + 1
  <2>1. Wrap(w) \in BSNs
    BY WrapIs
  <2>2. PICK j \in Nat : j = m.buf[Wrap(w)]
    BY <2>1 DEF MsFields, Numbers
  <2>3. j \in g + 1..r /\ Wrap(w) = Wrap(j - 1)
    BY <1>6, <2>1, <2>2 DEF Holds, g
  <2>4. w - (j - 1) < SNS /\ (j - 1) - w < SNS /\ j - 1 \in Int
    BY <1>0, <1>6, <2>3, Sizes
  <2>5. w = j - 1
    BY <2>3, <2>4, WrapSame
  <2>6. QED
    BY <2>2, <2>5
<1>7. g < z => m.buf[Wrap(z - 1)] = z
  <2> SUFFICES ASSUME g < z PROVE m.buf[Wrap(z - 1)] = z
    OBVIOUS
  <2>1. z - 1 \in g..z - 1 /\ z - 1 \in Nat /\ z - 1 < r /\ (z - 1) + 1 = z
    BY <1>0, <1>2
  <2>2. Wrap(z - 1) \notin S /\ Wrap(z - 1) \in BSNs
    BY <2>1, <1>1, WrapIs
  <2>3. QED
    BY <2>1, <2>2, <1>6
<1> DEFINE buf == [b \in BSNs |-> IF AddSN(b, -Wrap(g)) < z - g THEN 0 ELSE m.buf[b]]
<1>8. Deliver(m) = [m EXCEPT !.vq = Wrap(z), !.got = z, !.buf = buf]
  <2>1. Deliver(m) = [m EXCEPT !.vq = Wrap(z),
                               !.got = IF z - g = 0 THEN @ ELSE m.buf[Wrap(z - 1)], !.buf = buf]
    BY <1>0, <1>1, <1>4, <1>5 DEF Deliver
  <2>2. (IF z - g = 0 THEN m.got ELSE m.buf[Wrap(z - 1)]) = z
    BY <1>2, <1>0, <1>7 DEF g
  <2>3. QED
    BY <2>1, <2>2
<1>9. buf \in [BSNs -> Numbers]
  <2>1. 0 \in Numbers
    BY DownAssumption DEF Numbers
  <2>2. QED
    BY <2>1 DEF MsFields
<1>10. z \in Numbers
  BY <1>0, <1>2, DownAssumption DEF Numbers
<1> HIDE DEF buf
<1>11. /\ Deliver(m).vq = Wrap(z) /\ Deliver(m).got = z /\ Deliver(m).buf = buf
       /\ Deliver(m).vr = Wrap(r) /\ Deliver(m) \in MsFields
  BY <1>0, <1>3, <1>8, <1>9, <1>10 DEF MsFields
<1>12. ASSUME NEW b \in BSNs, buf[b] # 0
       PROVE  buf[b] = m.buf[b] /\ buf[b] \in z + 1..r /\ b = Wrap(buf[b] - 1)
  <2>1. buf[b] = m.buf[b] /\ m.buf[b] # 0 /\ ~(AddSN(b, -Wrap(g)) < z - g)
    BY <1>12 DEF buf
  <2>2. PICK j \in Nat : j = m.buf[b]
    BY DEF MsFields, Numbers
  <2>3. j \in g + 1..r /\ b = Wrap(j - 1)
    BY <2>1, <2>2 DEF Holds, g
  <2>4. AddSN(Wrap(j - 1), -Wrap(g)) = (j - 1) - g
    <3>1. 0 <= (j - 1) - g /\ (j - 1) - g < SNS /\ j - 1 \in Int
      BY <2>3, <1>0, Sizes
    <3>2. QED
      BY <3>1, <1>0, WrapGap
  <2>5. j > z
    BY <2>1, <2>3, <2>4, <1>0, <1>2
  <2>6. QED
    BY <2>1, <2>2, <2>3, <2>5, <1>2
<1>13. buf[Wrap(z)] = 0
  <2>1. CASE Wrap(z) \in S
    BY <2>1, <1>3 DEF buf
  <2>2. CASE z = r
    <3>1. ASSUME buf[Wrap(z)] # 0 PROVE FALSE
      <4>1. buf[Wrap(z)] \in z + 1..r
        BY <3>1, <1>3, <1>12
      <4>2. QED
        BY <4>1, <2>2, <1>2
    <3>2. QED
      BY <3>1
  <2>3. QED
    BY <1>1, <2>1, <2>2
<1>14. Receiver(Deliver(m), n, r)
  <2>1. z <= r /\ r <= n /\ r - z <= WS
    BY <1>0, <1>2, Sizes
  <2>2. \A b \in BSNs : Deliver(m).buf[b] # 0 =>
          Deliver(m).buf[b] \in Deliver(m).got + 1..r /\ b = Wrap(Deliver(m).buf[b] - 1)
    BY <1>11, <1>12
  <2>3. QED
    BY <2>1, <2>2, <1>11, <1>13 DEF Receiver, Holds
<1>15. ASSUME NEW j \in 1..n, Has(m, j) PROVE Has(Deliver(m), j)
  <2>1. CASE j <= z
    BY <2>1, <1>11 DEF Has
  <2>2. CASE z < j
    <3>a. ~(j <= m.got) /\ j - 1 \in Int
      BY <2>2, <1>0, <1>2 DEF g
    <3>1. m.buf[Wrap(j - 1)] = j /\ Wrap(j - 1) \in BSNs /\ j # 0
      BY <3>a, <1>15, WrapIs DEF Has
    <3>2. j \in g + 1..r
      BY <3>1 DEF Holds, g
    <3>3. AddSN(Wrap(j - 1), -Wrap(g)) = (j - 1) - g
      <4>1. 0 <= (j - 1) - g /\ (j - 1) - g < SNS /\ j - 1 \in Int
        BY <3>2, <1>0, Sizes
      <4>2. QED
        BY <4>1, <1>0, WrapGap
    <3>4. ~((j - 1) - g < z - g)
      BY <2>2, <1>0, <1>2
    <3>5. buf[Wrap(j - 1)] = j
      BY <3>1, <3>3, <3>4 DEF buf
    <3>6. QED
      BY <3>5, <1>11 DEF Has
  <2>3. QED
    BY <2>1, <2>2, <1>2
<1>16. QED
  BY <1>2, <1>11, <1>14, <1>15 DEF g

(* A block that the engine may send goes where it belongs, or is one that   *)
(* has been delivered before.                                               *)
LEMMA HearsKeeps ==
  ASSUME NEW m \in MsFields, NEW n \in Nat, NEW r \in Nat, Receiver(m, n, r), n <= Blocks,
         NEW i \in 1..n, (i - 1) - m.got < WS, m.got - (i - 1) <= WS
  PROVE  /\ Hears(m, Wrap(i - 1), i) \in MsFields
         /\ \E t \in Nat : Receiver(Hears(m, Wrap(i - 1), i), n, t)
         /\ m.got <= Hears(m, Wrap(i - 1), i).got
         /\ \A j \in 1..n : Has(m, j) => Has(Hears(m, Wrap(i - 1), i), j)
<1>0. PICK g \in Nat : /\ g = m.got /\ g <= r /\ r <= n /\ r - g <= WS
                       /\ m.vq = Wrap(g) /\ m.vr = Wrap(r) /\ m.buf[m.vq] = 0
  BY DEF Receiver, Holds, MsFields, Numbers
<1>1. PICK x \in Nat : x = i - 1 /\ x - g < WS /\ g - x <= WS /\ i = x + 1
  BY <1>0
<1>2. InWindow(m, Wrap(x)) <=> g <= x
  BY <1>0, <1>1, WindowPlace DEF InWindow
<1>3. CASE ~(g <= x)
  <2>1. Hears(m, Wrap(i - 1), i) = m
    BY <1>1, <1>2, <1>3 DEF Hears
  <2>2. QED
    BY <2>1, <1>0
<1>4. CASE g <= x
  <2>1. AddSN(Wrap(x), -Wrap(g)) = x - g
    BY <1>0, <1>1, <1>4, WindowPlace
  <2>2. AddSN(Wrap(r), -Wrap(g)) = r - g
    <3>1. 0 <= r - g /\ r - g < SNS
      BY <1>0, Sizes
    <3>2. QED
      BY <3>1, <1>0, WrapGap
  <2>3. IncSN(Wrap(x)) = Wrap(i)
    BY <1>1, WrapAdd DEF IncSN
  <2>4. PICK t \in Nat : t = IF x >= r THEN i ELSE r
    OBVIOUS
  <2> DEFINE h == [m EXCEPT !.buf[Wrap(x)] = i, !.vr = Wrap(t)]
  <2>5. Hears(m, Wrap(i - 1), i) = Deliver(h)
    <3>1. (x - g >= r - g) <=> (x >= r)
      BY <1>0, <1>1
    <3>2. (IF AddSN(Wrap(x), -m.vq) >= AddSN(m.vr, -m.vq) THEN IncSN(Wrap(x)) ELSE m.vr) = Wrap(t)
      BY <3>1, <2>1, <2>2, <2>3, <2>4, <1>0
    <3>3. QED
      BY <3>2, <1>1, <1>2, <1>4 DEF Hears
  <2>6. Wrap(x) \in BSNs /\ Wrap(t) \in BSNs /\ i \in Numbers
    BY <1>1, <2>4, WrapIs, DownAssumption DEF Numbers
  <2>7. h \in MsFields /\ h.got = g /\ h.vq = Wrap(g) /\ h.vr = Wrap(t)
        /\ h.buf = [m.buf EXCEPT ![Wrap(x)] = i]
    BY <1>0, <2>6 DEF MsFields
  <2> HIDE DEF h
  <2>8. g <= t /\ t <= n /\ t - g <= WS /\ r <= t /\ i <= t /\ g + 1 <= i
    BY SMTT(20), <1>0, <1>1, <1>4, <2>4, Sizes
  <2>9. ASSUME NEW b \in BSNs, h.buf[b] # 0
        PROVE  h.buf[b] \in g + 1..t /\ b = Wrap(h.buf[b] - 1)
    <3>1. CASE b = Wrap(x)
      <4>1. h.buf[b] = i
        BY <3>1, <2>6, <2>7 DEF MsFields
      <4>2. QED
        BY <3>1, <4>1, <1>1, <2>8
    <3>2. CASE b # Wrap(x)
      <4>1. h.buf[b] = m.buf[b] /\ m.buf[b] \in Nat
        BY <3>2, <2>7 DEF MsFields, Numbers
      <4>2. m.buf[b] \in g + 1..r /\ b = Wrap(m.buf[b] - 1)
        BY <4>1, <2>9, <1>0 DEF Receiver, Holds
      <4>3. QED
        BY <4>1, <4>2, <2>8
    <3>3. QED
      BY <3>1, <3>2
  <2>10. Holds(h, n, t)
    BY <2>7, <2>8, <2>9 DEF Holds
  <2>11. ASSUME NEW j \in 1..n, Has(m, j) PROVE Has(h, j)
    <3>1. CASE j <= g
      BY <3>1, <2>7 DEF Has
    <3>2. CASE g < j
      <4>1. m.buf[Wrap(j - 1)] = j /\ Wrap(j - 1) \in BSNs /\ j # 0
        BY <3>2, <2>11, <1>0, WrapIs DEF Has
      <4>2. j \in g + 1..r
        BY <4>1, <1>0 DEF Receiver, Holds
      <4>3. CASE Wrap(j - 1) = Wrap(x)
        <5>1. (j - 1) - x < SNS /\ x - (j - 1) < SNS /\ j - 1 \in Int
          BY <4>2, <1>0, <1>1, <1>4, Sizes
        <5>2. j - 1 = x
          BY <5>1, <4>3, <1>1, WrapSame
        <5>3. h.buf[Wrap(j - 1)] = i
          BY <4>1, <4>3, <2>7 DEF MsFields
        <5>4. QED
          BY <5>2, <5>3, <1>1 DEF Has
      <4>4. CASE Wrap(j - 1) # Wrap(x)
        BY <4>1, <4>4, <2>7 DEF MsFields, Has
      <4>5. QED
        BY <4>3, <4>4
    <3>3. QED
      BY <3>1, <3>2, <1>0
  <2>12. /\ Deliver(h) \in MsFields /\ Receiver(Deliver(h), n, t) /\ h.got <= Deliver(h).got
         /\ \A j \in 1..n : Has(h, j) => Has(Deliver(h), j)
    BY <2>7, <2>10, DeliverKeeps
  <2>13. QED
    BY <2>5, <2>7, <2>11, <2>12, <1>0
<1>5. QED
  BY <1>0, <1>1, <1>3, <1>4

(* The bitmap of the handset speaks for no block that it has not.           *)
LEMMA BitmapTruth ==
  ASSUME NEW m \in MsFields, NEW n \in Nat, NEW r \in Nat, Receiver(m, n, r), n < r + WS,
         NEW i \in 1..n, n - SNS < i, Wrap(i - 1) \in AckedBSNs(m.vr, Bitmap(m))
  PROVE  Has(m, i)
<1>0. PICK g \in Nat : /\ g = m.got /\ g <= r /\ r <= n /\ r - g <= WS
                       /\ m.vq = Wrap(g) /\ m.vr = Wrap(r)
  BY DEF Receiver, Holds, MsFields, Numbers
<1>1. PICK k \in 1..WS : /\ Wrap(i - 1) = AddSN(Wrap(r), -k)
                         /\ ~InWindow(m, AddSN(Wrap(r), -k)) \/ m.buf[AddSN(Wrap(r), -k)] # 0
  BY <1>0 DEF AckedBSNs, Bitmap
<1>2. k \in Int /\ 1 <= k /\ k <= WS /\ -k \in Int
  BY Sizes
<1>3. AddSN(Wrap(r), -k) = Wrap(r - k)
  <2>1. r + (-k) = r - k
    BY <1>2
  <2>2. QED
    BY <2>1, <1>2, WrapAdd
<1>4. i - 1 = r - k
  <2>1. (i - 1) - (r - k) < SNS /\ (r - k) - (i - 1) < SNS /\ i - 1 \in Int /\ r - k \in Int
    BY <1>0, <1>2, Sizes
  <2>2. QED
    BY <2>1, <1>1, <1>3, WrapSame
<1>5. CASE i <= g
  BY <1>5, <1>0 DEF Has
<1>6. CASE g < i
  <2>1. PICK x \in Nat : x = i - 1 /\ x - g < WS /\ g - x <= WS /\ g <= x
    BY <1>0, <1>2, <1>4, <1>6, Sizes
  <2>2. InWindow(m, Wrap(x))
    BY <2>1, <1>0, WindowPlace DEF InWindow
  <2>3. m.buf[Wrap(x)] # 0
    BY <2>1, <2>2, <1>1
  <2>4. PICK j \in Nat : j = m.buf[Wrap(x)]
    BY <2>1, WrapIs DEF MsFields, Numbers
  <2>5. j \in g + 1..r /\ Wrap(x) = Wrap(j - 1)
    BY <2>1, <2>3, <2>4, <1>0, WrapIs DEF Receiver, Holds
  <2>6. x - (j - 1) < SNS /\ (j - 1) - x < SNS /\ j - 1 \in Int
    <3>1. x = r - k /\ j - 1 \in Int /\ g + 1 <= j /\ j <= r
      BY <2>1, <2>5, <1>4
    <3>2. r - g <= WS /\ 1 <= k /\ k <= WS /\ WS < SNS
      BY <1>0, <1>2, Sizes
    <3>3. PICK y \in Int : y = j - 1 /\ g <= y /\ y < r
      BY <3>1, <1>0
    <3>4. x - y < SNS /\ y - x < SNS
      BY <3>1, <3>2, <3>3, <1>0, <1>2, Sizes
    <3>5. QED
      BY <3>3, <3>4
  <2>7. x = j - 1
    BY <2>1, <2>5, <2>6, WrapSame
  <2>8. QED
    BY <2>1, <2>4, <2>7, <1>0 DEF Has
<1>7. QED
  BY <1>0, <1>5, <1>6

(* What the invariant says of the variables.                                *)
LEMMA DownTypes ==
  DownInv => /\ down \in DownFields /\ ms \in MsFields
             /\ poll \in {"none", "out", "heard"}
             /\ data \in [queue: Numbers, toCome: Numbers]
             /\ Filled(data) \in Nat /\ Filled(data) <= Blocks
             /\ data.queue + data.toCome <= Blocks
             /\ \E a, s, r \in Nat : Joined(down, ms, Filled(data), a, s, r)
<1> SUFFICES ASSUME DownInv
             PROVE  /\ down \in DownFields /\ ms \in MsFields
                    /\ poll \in {"none", "out", "heard"}
                    /\ data \in [queue: Numbers, toCome: Numbers]
                    /\ Filled(data) \in Nat /\ Filled(data) <= Blocks
                    /\ data.queue + data.toCome <= Blocks
                    /\ \E a, s, r \in Nat : Joined(down, ms, Filled(data), a, s, r)
  OBVIOUS
<1>1. down \in DownFields /\ ms \in MsFields
  BY DEF DownInv, TypeOK, DownFields, MsFields
<1>2. poll \in {"none", "out", "heard"} /\ data \in [queue: Numbers, toCome: Numbers]
  BY DEF DownInv, TypeOK
<1>3. data.queue \in Nat /\ data.toCome \in Nat /\ Blocks \in Nat
  BY <1>2, DownAssumption DEF Numbers
<1>4. Filled(data) \in Nat /\ Filled(data) <= Blocks
  BY <1>3 DEF DownInv, Filled
<1>5. QED
  BY <1>1, <1>2, <1>4 DEF DownInv

(* The invariant after a step, from its parts.                              *)
LEMMA DownMade ==
  ASSUME down' \in DownFields, ms' \in MsFields, poll' \in {"none", "out", "heard"},
         data' \in [queue: Numbers, toCome: Numbers], data'.queue + data'.toCome <= Blocks,
         NEW n, n = Filled(data'), NEW a \in Nat, NEW s \in Nat, NEW r \in Nat,
         Joined(down', ms', n, a, s, r)
  PROVE  DownInv'
BY DEF DownInv, TypeOK, DownFields, MsFields, Joined, Sender, Receiver, Window, Queue, Holds,
       Truthful, Has, Filled

(* What the invariant says of the engine is about its window and queue.     *)
LEMMA JoinedSame ==
  ASSUME NEW d \in DownFields, NEW e \in DownFields, NEW m, NEW n, NEW a, NEW s, NEW r,
         Joined(d, m, n, a, s, r),
         e.vs = d.vs, e.va = d.va, e.txqNum = d.txqNum, e.vb = d.vb, e.txq = d.txq,
         e.finished = d.finished
  PROVE  Joined(e, m, n, a, s, r)
BY DEF Joined, Sender, Window, Queue, Truthful

Refilled(d, k, fin) == [d EXCEPT !.txq[d.txqNum] = k, !.vb[d.txqNum] = FALSE,
                                 !.txqNum = IncSN(d.txqNum), !.finished = fin]

(* engineFillBlock: a new block takes the place of one that is SNS older.   *)
LEMMA FillKeeps ==
  ASSUME NEW d \in DownFields, NEW m \in MsFields, NEW n \in Nat, NEW a \in Nat, NEW s \in Nat,
         NEW r \in Nat, Joined(d, m, n, a, s, r), n + 1 <= Blocks, d.vs = d.txqNum,
         NEW e, NEW fin \in BOOLEAN,
         e = Refilled(d, n + 1, fin)
  PROVE  e \in DownFields /\ s = n /\ Joined(e, m, n + 1, a, s, r)
<1>1. /\ d.txqNum = Wrap(n) /\ d.va = Wrap(a) /\ d.vs = Wrap(s)
      /\ a <= n /\ s <= n /\ n - a < WS /\ n - s < WS /\ s - a <= WS - 2
  BY DEF Joined, Sender, Window
<1>2. s = n
  <2>1. s - n < SNS /\ n - s < SNS
    BY <1>1, Sizes
  <2>2. QED
    BY <2>1, <1>1, WrapSame
<1>3. Wrap(n) \in BSNs /\ Wrap(n + 1) \in BSNs /\ IncSN(Wrap(n)) = Wrap(n + 1)
  BY WrapIs, WrapAdd DEF IncSN
<1>4. e = [d EXCEPT !.txq = [d.txq EXCEPT ![Wrap(n)] = n + 1],
                    !.vb = [d.vb EXCEPT ![Wrap(n)] = FALSE],
                    !.txqNum = Wrap(n + 1), !.finished = fin]
  BY <1>1, <1>3 DEF Refilled
<1>5. /\ [d.txq EXCEPT ![Wrap(n)] = n + 1] \in [BSNs -> Numbers]
      /\ [d.vb EXCEPT ![Wrap(n)] = FALSE] \in [BSNs -> BOOLEAN]
  <2>1. n + 1 \in Numbers
    BY DownAssumption DEF Numbers
  <2>2. QED
    BY <2>1, <1>3 DEF DownFields
<1>6. /\ e \in DownFields /\ e.va = Wrap(a) /\ e.vs = Wrap(s) /\ e.txqNum = Wrap(n + 1)
      /\ e.txq = [d.txq EXCEPT ![Wrap(n)] = n + 1] /\ e.vb = [d.vb EXCEPT ![Wrap(n)] = FALSE]
  BY <1>1, <1>3, <1>4, <1>5 DEF DownFields
<1>7. ASSUME NEW i \in Int, i <= n, n + 1 - SNS < i PROVE Wrap(i - 1) # Wrap(n) /\ Wrap(i - 1) \in BSNs
  <2>1. n - (i - 1) < SNS /\ (i - 1) - n < SNS /\ i - 1 \in Int /\ i - 1 # n
    BY <1>7, Sizes
  <2>2. QED
    BY <2>1, WrapSame, WrapIs
<1>8. ASSUME NEW i \in Int, i <= n, n + 1 - SNS < i
      PROVE  e.txq[Wrap(i - 1)] = d.txq[Wrap(i - 1)] /\ e.vb[Wrap(i - 1)] = d.vb[Wrap(i - 1)]
  BY <1>6, <1>7, <1>8 DEF DownFields
<1>9. Window(e, n + 1, a, s)
  <2>1. ASSUME NEW i \in 1..a, (n + 1) - WS < i PROVE e.vb[Wrap(i - 1)]
    <3>a. i \in Int /\ i <= a /\ a <= n /\ (n + 1) - WS < i
      BY <2>1, <1>1
    <3>b. WS \in Nat /\ SNS = WS + WS
      BY Sizes
    <3>1. i \in Int /\ i <= n /\ n + 1 - SNS < i /\ n - WS < i
      BY <3>a, <3>b
    <3>2. d.vb[Wrap(i - 1)]
      BY <3>1 DEF Joined, Sender, Window
    <3>3. QED
      BY <3>1, <3>2, <1>8
  <2>2. /\ a <= n + 1 /\ s <= n + 1 /\ (n + 1) - a < WS /\ (n + 1) - s < WS /\ a <= s
    BY <1>1, <1>2, Sizes
  <2>3. QED
    BY <2>1, <2>2, <1>6 DEF Window
<1>10. Queue(e, n + 1)
  <2>1. ASSUME NEW i \in 1..n + 1, (n + 1) - SNS < i PROVE e.txq[Wrap(i - 1)] = i
    <3>1. CASE i = n + 1
      <4>1. i - 1 = n
        BY <3>1
      <4>2. QED
        BY <4>1, <3>1, <1>3, <1>6 DEF DownFields
    <3>2. CASE i # n + 1
      <4>1. i \in 1..n /\ i \in Int /\ i <= n /\ n + 1 - SNS < i /\ n - SNS < i
        BY <3>2, <2>1, Sizes
      <4>2. d.txq[Wrap(i - 1)] = i
        BY <4>1 DEF Joined, Sender, Queue
      <4>3. QED
        BY <4>1, <4>2, <1>8
    <3>3. QED
      BY <3>1, <3>2
  <2>2. ASSUME NEW b \in BSNs, e.txq[b] # 0
        PROVE  e.txq[b] \in 1..n + 1 /\ (n + 1) - SNS < e.txq[b] /\ b = Wrap(e.txq[b] - 1)
    <3>1. CASE b = Wrap(n)
      <4>1. e.txq[b] = n + 1 /\ (n + 1) - 1 = n
        BY <3>1, <1>6 DEF DownFields
      <4>2. QED
        BY <4>1, <3>1, Sizes
    <3>2. CASE b # Wrap(n)
      <4>1. PICK j \in Nat : j = e.txq[b] /\ j = d.txq[b]
        BY <3>2, <1>6 DEF DownFields, Numbers
      <4>2. j \in 1..n /\ n - SNS < j /\ b = Wrap(j - 1)
        BY <4>1, <2>2 DEF Joined, Sender, Queue
      <4>3. ASSUME ~((n + 1) - SNS < j) PROVE FALSE
        <5>a. PICK q \in Nat : q = SNS
          BY Sizes
        <5>b. j \in Int /\ n - q < j /\ ~((n + 1) - q < j)
          BY <4>2, <4>3, <5>a
        <5>c. n = (j - 1) + q
          BY <5>b
        <5>1. PICK x \in Int : x = j - 1 /\ n = x + SNS
          BY <5>a, <5>b, <5>c
        <5>2. Wrap(n) = Wrap(x)
          BY <5>1, WrapOnce
        <5>3. QED
          BY <5>1, <5>2, <4>2, <3>2
      <4>4. QED
        BY <4>1, <4>2, <4>3
    <3>3. QED
      BY <3>1, <3>2
  <2>3. QED
    BY <2>1, <2>2 DEF Queue
<1>11. Truthful(e, m, n + 1)
  <2> SUFFICES ASSUME NEW i \in 1..n + 1, (n + 1) - SNS < i, e.vb[Wrap(i - 1)] PROVE Has(m, i)
    BY DEF Truthful
  <2>1. i # n + 1
    <3>1. ASSUME i = n + 1 PROVE FALSE
      <4>1. i - 1 = n
        BY <3>1
      <4>2. QED
        BY <4>1, <1>3, <1>6 DEF DownFields
    <3>2. QED
      BY <3>1
  <2>2. i \in 1..n /\ i \in Int /\ i <= n /\ n + 1 - SNS < i /\ n - SNS < i
    BY <2>1, Sizes
  <2>3. d.vb[Wrap(i - 1)]
    BY <2>2, <1>8
  <2>4. QED
    BY <2>2, <2>3 DEF Joined, Truthful
<1>12. Receiver(m, n + 1, r)
  <2>1. r <= n => r <= n + 1
    OBVIOUS
  <2>2. QED
    BY <2>1 DEF Joined, Receiver, Holds
<1>13. QED
  BY <1>1, <1>2, <1>6, <1>9, <1>10, <1>11, <1>12 DEF Joined, Sender

(* getBlock: the block it chooses is the last one filled, or the one at     *)
(* V(S).                                                                    *)
LEMMA GetBlockKeeps ==
  ASSUME DownInv, NEW e, e = GetBlock(down), NEW b, b = Current(down, e),
         NeedsFill(down) => data.queue > 0,
         data' = IF NeedsFill(down) THEN [data EXCEPT !.queue = @ - 1] ELSE data
  PROVE  \E n, a, s, r \in Nat :
           /\ e \in DownFields /\ e.n3105 = down.n3105
           /\ n = Filled(data') /\ n <= Blocks
           /\ data' \in [queue: Numbers, toCome: Numbers] /\ data'.queue + data'.toCome <= Blocks
           /\ Joined(e, ms, n, a, s, r)
           /\ IsFinal(e, b) => n > 0 /\ b = Wrap(n - 1)
           /\ ~IsFinal(e, b) => s < n /\ b = Wrap(s)
<1>1. PICK n \in Nat, a \in Nat, s \in Nat, r \in Nat :
        n = Filled(data) /\ n <= Blocks /\ Joined(down, ms, n, a, s, r)
  BY DownTypes
<1>2. /\ down \in DownFields /\ ms \in MsFields /\ data \in [queue: Numbers, toCome: Numbers]
      /\ data.queue + data.toCome <= Blocks
  BY DownTypes
<1>3. data.queue \in Nat /\ data.toCome \in Nat /\ Blocks \in Nat
  BY <1>2, DownAssumption DEF Numbers
<1>4. down.vs = Wrap(s) /\ down.txqNum = Wrap(n) /\ s <= n /\ n - s < WS
  BY <1>1 DEF Joined, Sender, Window
<1>5. CASE NeedsFill(down)
  <2>1. e = [down EXCEPT !.txq[down.txqNum] = n + 1, !.vb[down.txqNum] = FALSE,
                         !.txqNum = IncSN(down.txqNum), !.finished = (data.queue = 1)]
    BY <1>1, <1>5 DEF GetBlock, Fill, Filled
  <2>2. data' = [data EXCEPT !.queue = @ - 1] /\ data.queue > 0
    BY <1>5
  <2>3. data'.queue = data.queue - 1 /\ data'.toCome = data.toCome
    BY <2>2, <1>2
  <2>4. n + 1 = Filled(data') /\ n + 1 <= Blocks /\ data'.queue + data'.toCome <= Blocks
    BY <2>2, <2>3, <1>1, <1>2, <1>3 DEF Filled
  <2>5. data' \in [queue: Numbers, toCome: Numbers]
    <3>1. data.queue - 1 \in Numbers /\ data.toCome \in Numbers
      BY <2>2, <1>2, <1>3 DEF Numbers
    <3>2. QED
      BY <3>1, <2>2, <1>2
  <2>6. down.vs = down.txqNum /\ ~down.finished
    BY <1>5 DEF NeedsFill
  <2>7. PICK fin \in BOOLEAN : fin = (data.queue = 1)
    OBVIOUS
  <2>8. e \in DownFields /\ s = n /\ Joined(e, ms, n + 1, a, s, r)
    <3>1. e = Refilled(down, n + 1, fin)
      BY <2>1, <2>7 DEF Refilled
    <3>2. QED
      BY <3>1, <2>4, <2>6, <1>1, <1>2, FillKeeps
  <2>9. e.n3105 = down.n3105
    BY <2>1, <1>2 DEF DownFields
  <2>10. b = Wrap(s)
    BY <2>6, <1>4 DEF Current
  <2>11. (n + 1) - 1 = n /\ n + 1 > 0 /\ s < n + 1 /\ n + 1 \in Nat
    BY <2>8
  <2>12. QED
    BY <2>4, <2>5, <2>8, <2>9, <2>10, <2>11
<1>6. CASE ~NeedsFill(down)
  <2>1. e = down /\ data' = data
    BY <1>6 DEF GetBlock
  <2>2. AddSN(down.txqNum, -1) = Wrap(n - 1)
    <3>1. n + (-1) = n - 1 /\ -1 \in Int
      OBVIOUS
    <3>2. QED
      BY <3>1, <1>4, WrapAdd
  <2>3. IsFinal(e, b) => n > 0 /\ b = Wrap(n - 1)
    BY <2>1, <2>2, <1>1 DEF IsFinal, Joined
  <2>4. ASSUME ~IsFinal(e, b) PROVE s < n /\ b = Wrap(s)
    <3>1. down.vs # down.txqNum
      BY <2>1, <2>4, <1>6 DEF IsFinal, Current, NeedsFill
    <3>2. s # n
      BY <3>1, <1>4
    <3>3. QED
      BY <3>1, <3>2, <1>4 DEF Current
  <2>5. QED
    BY <2>1, <2>3, <2>4, <1>1, <1>2
<1>7. QED
  BY <1>5, <1>6

(* A block of the last WS that is sent and heard.                           *)
LEMMA HeardKeeps ==
  ASSUME NEW d, NEW m \in MsFields, NEW n \in Nat, NEW a \in Nat, NEW s \in Nat, NEW r \in Nat,
         Joined(d, m, n, a, s, r), n <= Blocks, NEW i \in 1..n, n < i + WS,
         NEW h, h = Hears(m, Wrap(i - 1), d.txq[Wrap(i - 1)])
  PROVE  h \in MsFields /\ \E t \in Nat : Joined(d, h, n, a, s, t)
<1>1. PICK g \in Nat : g = m.got /\ a <= g /\ g <= n /\ n - a < WS
  <2>1. m.got \in Nat
    BY DEF MsFields, Numbers
  <2>2. a <= m.got /\ m.got <= r /\ r <= n /\ n - a < WS
    BY DEF Joined, Sender, Window, Receiver, Holds
  <2>3. QED
    BY <2>1, <2>2
<1>2. WS \in Nat /\ SNS = WS + WS
  BY Sizes
<1>3. (i - 1) - m.got < WS /\ m.got - (i - 1) <= WS /\ n - SNS < i
  BY <1>1, <1>2
<1>4. d.txq[Wrap(i - 1)] = i
  BY <1>3 DEF Joined, Sender, Queue
<1>5. Receiver(m, n, r)
  BY DEF Joined
<1>6. /\ h \in MsFields /\ \E t \in Nat : Receiver(h, n, t)
      /\ m.got <= h.got /\ \A j \in 1..n : Has(m, j) => Has(h, j)
  BY <1>3, <1>4, <1>5, HearsKeeps
<1>7. PICK t \in Nat : Receiver(h, n, t)
  BY <1>6
<1>8. a <= h.got
  <2>1. h.got \in Nat
    BY <1>6 DEF MsFields, Numbers
  <2>2. QED
    BY <2>1, <1>1, <1>6
<1>9. Truthful(d, h, n)
  BY <1>6 DEF Joined, Truthful
<1>10. QED
  BY <1>6, <1>7, <1>8, <1>9 DEF Joined

(* V(S) moves past the block that is sent.                                  *)
LEMMA NextKeeps ==
  ASSUME NEW d \in DownFields, NEW m, NEW n \in Nat, NEW a \in Nat, NEW s \in Nat, NEW r \in Nat,
         Joined(d, m, n, a, s, r), s < n, NEW since \in 0..PerAck,
         NEW e, e = [d EXCEPT !.sincePoll = since, !.vs = IncSN(@)]
  PROVE  /\ AdvanceVS(e) \in DownFields /\ AdvanceVS(e).n3105 = d.n3105
         /\ \E t \in Nat : Joined(AdvanceVS(e), m, n, a, t, r)
<1>1. d.vs = Wrap(s) /\ IncSN(Wrap(s)) = Wrap(s + 1) /\ Wrap(s + 1) \in BSNs
  BY WrapAdd, WrapIs DEF IncSN, Joined, Sender, Window
<1>2. e = [d EXCEPT !.sincePoll = since, !.vs = Wrap(s + 1)]
  BY <1>1
<1>3. /\ e \in DownFields /\ e.vs = Wrap(s + 1) /\ e.va = d.va /\ e.txqNum = d.txqNum
      /\ e.vb = d.vb /\ e.txq = d.txq /\ e.finished = d.finished /\ e.n3105 = d.n3105
  BY <1>1, <1>2 DEF DownFields
<1>4. PICK q \in Nat : q = s + 1 /\ Window(e, n, a, q)
  <2>1. /\ d.txqNum = Wrap(n) /\ d.va = Wrap(a) /\ a <= n /\ n - a < WS /\ n - s < WS
        /\ a <= s \/ a = n
        /\ \A i \in 1..a : n - WS < i => d.vb[Wrap(i - 1)]
    BY DEF Joined, Sender, Window
  <2>2. s + 1 <= n /\ n - (s + 1) < WS /\ (a <= s + 1 \/ a = n)
    BY <2>1, Sizes
  <2>3. QED
    BY <2>1, <2>2, <1>3 DEF Window
<1>5. PICK t \in Nat :
     /\ AdvanceVS(e) \in DownFields
     /\ Window(AdvanceVS(e), n, a, t) /\ t - a <= WS - 2
     /\ AdvanceVS(e).vb = e.vb /\ AdvanceVS(e).txq = e.txq /\ AdvanceVS(e).state = e.state
     /\ AdvanceVS(e).finished = e.finished /\ AdvanceVS(e).n3105 = e.n3105
  BY <1>3, <1>4, AdvanceVSType
<1>6. Joined(AdvanceVS(e), m, n, a, t, r)
  BY <1>3, <1>5 DEF Joined, Sender, Queue, Truthful
<1>7. QED
  BY <1>3, <1>5, <1>6

(* The counters of polls and of blocks without news.                        *)
LEMMA SentKeeps ==
  ASSUME NEW d \in DownFields, d.n3105 <= N3105Max, NEW p \in BOOLEAN,
         NEW m, NEW n, NEW a, NEW s, NEW r, Joined(d, m, n, a, s, r)
  PROVE  Sent(d, p) \in DownFields /\ Joined(Sent(d, p), m, n, a, s, r)
<1>1. PICK x \in 0..N3105Max + 1 : x = IF p THEN d.n3105 + 1 ELSE d.n3105
  BY DownAssumption DEF DownFields
<1>2. PICK y \in 0..NStuck + 1 : y = Upto(NStuck + 1, d.sinceNews + 1)
  BY DownAssumption DEF DownFields, Upto
<1>3. Sent(d, p) = [d EXCEPT !.n3105 = x, !.sinceNews = y]
  BY <1>1, <1>2 DEF Sent
<1>4. /\ Sent(d, p) \in DownFields /\ Sent(d, p).vs = d.vs /\ Sent(d, p).va = d.va
      /\ Sent(d, p).txqNum = d.txqNum /\ Sent(d, p).vb = d.vb /\ Sent(d, p).txq = d.txq
      /\ Sent(d, p).finished = d.finished
  BY <1>3 DEF DownFields
<1>5. QED
  BY <1>4, JoinedSame

(* One service of the engine: nothing, a block, or the end by N3105.        *)
LEMMA ServiceKeeps ==
  ASSUME DownInv, NEW primary \in BOOLEAN, NEW granted \in BOOLEAN, Service(primary, granted)
  PROVE  DownInv'
<1>1. /\ down \in DownFields /\ ms \in MsFields /\ poll \in {"none", "out", "heard"}
      /\ data \in [queue: Numbers, toCome: Numbers] /\ data.queue + data.toCome <= Blocks
  BY DownTypes
<1>2. CASE Unanswered(down)
  <2>1. down' = [down EXCEPT !.state = "Cancelled"] /\ UNCHANGED <<poll, data, ms>>
    BY <1>2 DEF Service
  <2>2. PICK a \in Nat, s \in Nat, r \in Nat : Joined(down, ms, Filled(data), a, s, r)
    BY DownTypes
  <2>3. /\ down' \in DownFields /\ down'.vs = down.vs /\ down'.va = down.va
        /\ down'.txqNum = down.txqNum /\ down'.vb = down.vb /\ down'.txq = down.txq
        /\ down'.finished = down.finished
    BY <2>1, <1>1 DEF DownFields
  <2>4. Joined(down', ms', Filled(data'), a, s, r)
    BY <2>1, <2>2, <2>3, <1>1, JoinedSame
  <2>5. QED
    BY <2>1, <2>3, <2>4, <1>1, DownMade
<1>3. CASE ~Unanswered(down)
  <2>1. PICK e, b :
          /\ e = GetBlock(down) /\ b = Current(down, e)
          /\ NeedsFill(down) => data.queue > 0
          /\ data' = IF NeedsFill(down) THEN [data EXCEPT !.queue = @ - 1] ELSE data
          /\ \/ IsFinal(e, b) /\ SendFinal(e, b, primary, granted)
             \/ ~IsFinal(e, b) /\ SendStalled(e, b, primary, granted)
             \/ ~IsFinal(e, b) /\ SendNext(e, b, primary, granted)
    BY <1>3 DEF Service
  <2>2. PICK n \in Nat, a \in Nat, s \in Nat, r \in Nat :
           /\ e \in DownFields /\ e.n3105 = down.n3105
           /\ n = Filled(data') /\ n <= Blocks
           /\ data' \in [queue: Numbers, toCome: Numbers] /\ data'.queue + data'.toCome <= Blocks
           /\ Joined(e, ms, n, a, s, r)
           /\ IsFinal(e, b) => n > 0 /\ b = Wrap(n - 1)
           /\ ~IsFinal(e, b) => s < n /\ b = Wrap(s)
    BY <2>1, GetBlockKeeps
  <2>3. e.n3105 <= N3105Max
    BY <2>2, <1>1, <1>3, DownAssumption DEF Unanswered, DownFields
  <2>4. PICK i \in 1..n : b = Wrap(i - 1) /\ n < i + WS
    <3>1. CASE IsFinal(e, b)
      <4>1. n \in 1..n /\ n < n + WS
        BY <3>1, <2>2, WindowAssumption
      <4>2. QED
        BY <4>1, <3>1, <2>2
    <3>2. CASE ~IsFinal(e, b)
      <4>1. n - s < WS
        BY <2>2 DEF Joined, Sender, Window
      <4>2. s + 1 \in 1..n /\ n < (s + 1) + WS /\ (s + 1) - 1 = s
        BY <4>1, <3>2, <2>2, WindowAssumption
      <4>3. QED
        BY <4>2, <3>2, <2>2
    <3>3. QED
      BY <3>1, <3>2
  <2>5. ASSUME NEW polled \in BOOLEAN, Send(e, b, polled)
        PROVE  /\ ms' \in MsFields /\ poll' \in {"none", "out", "heard"}
               /\ \E t \in Nat : Joined(e, ms', n, a, s, t)
    <3>1. PICK h \in MsFields, t \in Nat :
            h = Hears(ms, Wrap(i - 1), e.txq[Wrap(i - 1)]) /\ Joined(e, h, n, a, s, t)
      BY <2>2, <2>4, <1>1, HeardKeeps
    <3>2. ms' = h \/ ms' = ms
      BY <3>1, <2>4, <2>5 DEF Send
    <3>3. poll' \in {"none", "out", "heard"}
      BY <2>5, <1>1 DEF Send
    <3>4. QED
      BY <3>1, <3>2, <3>3, <2>2, <1>1
  <2>6. ASSUME down' = e, UNCHANGED <<ms, poll>>
        PROVE  DownInv'
    BY <2>2, <2>6, <1>1, DownMade
  <2>7. ASSUME NEW since \in 0..PerAck, NEW polled \in BOOLEAN, Send(e, b, polled), s < n,
               NEW x, x = [e EXCEPT !.sincePoll = since, !.vs = IncSN(@)],
               down' = Sent(AdvanceVS(x), polled)
        PROVE  DownInv'
    <3>1. PICK t \in Nat : Joined(e, ms', n, a, s, t)
      BY <2>5, <2>7
    <3>2. /\ AdvanceVS(x) \in DownFields /\ AdvanceVS(x).n3105 = e.n3105
          /\ \E z \in Nat : Joined(AdvanceVS(x), ms', n, a, z, t)
      BY <3>1, <2>2, <2>7, NextKeeps
    <3>3. PICK z \in Nat : Joined(AdvanceVS(x), ms', n, a, z, t)
      BY <3>2
    <3>4. down' \in DownFields /\ Joined(down', ms', n, a, z, t)
      BY <3>2, <3>3, <2>3, <2>7, SentKeeps
    <3>5. QED
      BY <3>4, <2>2, <2>5, <2>7, DownMade
  <2>8. CASE IsFinal(e, b) /\ SendFinal(e, b, primary, granted)
    <3>1. CASE primary /\ poll = "none" /\ granted
      <4>1. Send(e, b, TRUE) /\ down' = Sent(e, TRUE)
        BY <3>1, <2>8 DEF SendFinal
      <4>2. PICK t \in Nat : Joined(e, ms', n, a, s, t)
        BY <4>1, <2>5
      <4>3. down' \in DownFields /\ Joined(down', ms', n, a, s, t)
        BY <4>1, <4>2, <2>2, <2>3, SentKeeps
      <4>4. QED
        BY <4>1, <4>3, <2>2, <2>5, DownMade
    <3>2. CASE ~(primary /\ poll = "none" /\ granted)
      BY <3>2, <2>6, <2>8 DEF SendFinal
    <3>3. QED
      BY <3>1, <3>2
  <2>9. CASE ~IsFinal(e, b) /\ SendStalled(e, b, primary, granted)
    <3>1. CASE primary /\ poll = "none"
      <4>1. Send(e, b, granted) /\ down' = Sent(AdvanceVS([e EXCEPT !.vs = IncSN(@)]), granted)
        BY <3>1, <2>9 DEF SendStalled
      <4>2. [e EXCEPT !.vs = IncSN(@)] = [e EXCEPT !.sincePoll = e.sincePoll, !.vs = IncSN(@)]
        BY <2>2 DEF DownFields
      <4>3. e.sincePoll \in 0..PerAck
        BY <2>2 DEF DownFields
      <4>4. s < n
        BY <2>2, <2>9
      <4>5. QED
        BY <4>1, <4>2, <4>3, <4>4, <2>7
    <3>2. CASE ~(primary /\ poll = "none")
      BY <3>2, <2>6, <2>9 DEF SendStalled
    <3>3. QED
      BY <3>1, <3>2
  <2>10. CASE ~IsFinal(e, b) /\ SendNext(e, b, primary, granted)
    <3>1. PICK since \in 0..PerAck :
            since = IF primary THEN Upto(PerAck, e.sincePoll + 1) ELSE e.sincePoll
      BY <2>2, DownAssumption DEF DownFields, Upto
    <3>a. PICK polled : polled = (primary /\ since = PerAck /\ poll = "none" /\ granted)
      OBVIOUS
    <3>2. /\ polled \in BOOLEAN /\ Send(e, b, polled)
          /\ down' = Sent(AdvanceVS([e EXCEPT !.sincePoll = since, !.vs = IncSN(@)]), polled)
      BY <3>1, <3>a, <2>10 DEF SendNext
    <3>3. s < n
      BY <2>2, <2>10
    <3>4. QED
      BY <3>1, <3>2, <3>3, <2>7
  <2>11. QED
    BY <2>1, <2>8, <2>9, <2>10
<1>4. QED
  BY <1>2, <1>3

(* After an answer V(A) is still behind what has been delivered: the        *)
(* handset would have delivered the block after that, had it acknowledged   *)
(* it.                                                                      *)
LEMMA AfterAnswer ==
  ASSUME NEW d \in DownFields, NEW m \in MsFields, NEW n \in Nat, NEW a \in Nat, NEW s \in Nat,
         NEW r \in Nat, Joined(d, m, n, a, s, r)
  PROVE  /\ AfterAcks(d) \in DownFields
         /\ \E b, t \in Nat : Joined(AfterAcks(d), m, n, b, t, r)
<1>1. Window(d, n, a, s) /\ s - a <= WS - 2 /\ Queue(d, n) /\ Receiver(m, n, r) /\ Truthful(d, m, n)
  BY DEF Joined, Sender
<1>2. PICK b \in Nat, t \in Nat :
           /\ AfterAcks(d) \in DownFields
           /\ Window(AfterAcks(d), n, b, t) /\ t - b <= WS - 2
           /\ a <= b /\ \A i \in a + 1..b : d.vb[Wrap(i - 1)]
           /\ AfterAcks(d).vb = d.vb /\ AfterAcks(d).txq = d.txq /\ AfterAcks(d).finished = d.finished
  BY <1>1, AfterAcksKeeps
<1>3. PICK g \in Nat : /\ g = m.got /\ a <= g /\ g <= n /\ m.vq = Wrap(g) /\ m.buf[Wrap(g)] = 0
  BY DEF Joined, Receiver, Holds, MsFields, Numbers
<1>4. b <= g
  <2> SUFFICES ASSUME g < b PROVE FALSE
    BY <1>3
  <2>1. b <= n /\ n - a < WS
    BY <1>1, <1>2 DEF Window
  <2>2. PICK i \in Nat : i = g + 1 /\ i - 1 = g
    BY <1>3
  <2>3. i \in a + 1..b /\ i \in 1..n /\ n - SNS < i
    <3>1. WS \in Nat /\ SNS = WS + WS
      BY Sizes
    <3>2. QED
      BY <3>1, <2>1, <2>2, <1>3
  <2>4. Has(m, i)
    BY <2>3, <1>1, <1>2 DEF Truthful
  <2>5. QED
    BY <2>2, <2>4, <1>3 DEF Has
<1>5. Joined(AfterAcks(d), m, n, b, t, r)
  BY <1>1, <1>2, <1>3, <1>4 DEF Joined, Sender, Queue, Truthful
<1>6. QED
  BY <1>2, <1>5

(* An answer, final or with a bitmap.                                       *)
LEMMA AnswerKeeps == DownInv /\ Answer => DownInv'
<1> SUFFICES ASSUME DownInv, Answer PROVE DownInv'
  OBVIOUS
<1>1. /\ down \in DownFields /\ ms \in MsFields
      /\ data \in [queue: Numbers, toCome: Numbers] /\ data.queue + data.toCome <= Blocks
  BY DownTypes
<1>2. PICK n \in Nat, a \in Nat, s \in Nat, r \in Nat :
        n = Filled(data) /\ n <= Blocks /\ Joined(down, ms, n, a, s, r)
  BY DownTypes
<1>3. PICK d : /\ d = [down EXCEPT !.n3105 = 0, !.stalled = FALSE, !.sincePoll = 0]
               /\ down' = IF HasAll(ms) THEN RecvFinalAck(d) ELSE RecvAck(d, ms.vr, Bitmap(ms))
  BY DEF Answer
<1>4. /\ d \in DownFields /\ d.vs = down.vs /\ d.va = down.va /\ d.txqNum = down.txqNum
      /\ d.vb = down.vb /\ d.txq = down.txq /\ d.finished = down.finished
  <2>1. 0 \in 0..N3105Max + 1 /\ 0 \in 0..PerAck
    BY DownAssumption
  <2>2. QED
    BY <2>1, <1>1, <1>3 DEF DownFields
<1>5. Joined(d, ms, n, a, s, r)
  BY <1>1, <1>2, <1>4, JoinedSame
<1>6. poll' = "none" /\ data' = data /\ ms' = ms
  BY DEF Answer
<1>7. SUFFICES \E b \in Nat, t \in Nat : down' \in DownFields /\ Joined(down', ms, n, b, t, r)
  BY <1>1, <1>2, <1>6, DownMade
<1>8. /\ Window(d, n, a, s) /\ s - a <= WS - 2 /\ Queue(d, n) /\ Receiver(ms, n, r)
      /\ a <= ms.got /\ Truthful(d, ms, n) /\ (d.finished => n > 0)
  BY <1>5 DEF Joined, Sender
<1>9. CASE HasAll(ms)
  <2>1. PICK e : e = [d EXCEPT !.vb = [b \in BSNs |-> TRUE]]
    OBVIOUS
  <2>2. down' = AfterAcks(e)
    BY <2>1, <1>3, <1>9 DEF RecvFinalAck
  <2>3. /\ e \in DownFields /\ e.vs = d.vs /\ e.va = d.va /\ e.txqNum = d.txqNum
        /\ e.vb = [b \in BSNs |-> TRUE] /\ e.txq = d.txq /\ e.finished = d.finished
    BY <2>1, <1>4 DEF DownFields
  <2>4. Truthful(e, ms, n)
    BY <1>2, <1>9 DEF Truthful, Has, HasAll, Filled
  <2>5. \A i \in Int : e.vb[Wrap(i - 1)]
    BY <2>3, WrapIs
  <2>6. Window(e, n, a, s)
    <3>1. /\ e.txqNum = Wrap(n) /\ e.va = Wrap(a) /\ e.vs = Wrap(s)
          /\ a <= n /\ s <= n /\ n - a < WS /\ n - s < WS /\ (a <= s \/ a = n)
      BY <2>3, <1>8 DEF Window
    <3>2. \A i \in 1..a : e.vb[Wrap(i - 1)]
      BY <2>5
    <3>3. QED
      BY <3>1, <3>2 DEF Window
  <2>7. Joined(e, ms, n, a, s, r)
    BY <2>3, <2>4, <2>6, <1>8 DEF Joined, Sender, Queue
  <2>8. QED
    BY <2>2, <2>3, <2>7, <1>1, AfterAnswer
<1>10. CASE ~HasAll(ms)
  <2>1. PICK acked, e : /\ acked = AckedBSNs(ms.vr, Bitmap(ms))
                        /\ e = [d EXCEPT !.vb = [b \in BSNs |-> d.vb[b] \/ b \in acked]]
    OBVIOUS
  <2>2. /\ e \in DownFields /\ e.vs = d.vs /\ e.va = d.va /\ e.txqNum = d.txqNum
        /\ e.txq = d.txq /\ e.finished = d.finished
        /\ \A b \in BSNs : e.vb[b] <=> d.vb[b] \/ b \in acked
    BY <2>1, <1>4 DEF DownFields
  <2>3. Window(e, n, a, s)
    <3>1. ASSUME NEW i \in 1..a, n - WS < i PROVE e.vb[Wrap(i - 1)]
      <4>1. d.vb[Wrap(i - 1)] /\ Wrap(i - 1) \in BSNs
        BY <3>1, <1>8, WrapIs DEF Window
      <4>2. QED
        BY <4>1, <2>2
    <3>2. /\ e.txqNum = Wrap(n) /\ e.va = Wrap(a) /\ e.vs = Wrap(s)
          /\ a <= n /\ s <= n /\ n - a < WS /\ n - s < WS /\ (a <= s \/ a = n)
      BY <2>2, <1>8 DEF Window
    <3>3. QED
      BY <3>1, <3>2 DEF Window
  <2>4. n < r + WS
    <3>1. ms.got \in Nat
      BY <1>1 DEF MsFields, Numbers
    <3>2. n - a < WS /\ a <= ms.got /\ ms.got <= r
      BY <1>8 DEF Window, Receiver, Holds
    <3>3. QED
      BY <3>1, <3>2, WindowAssumption
  <2>5. Truthful(e, ms, n)
    <3> SUFFICES ASSUME NEW i \in 1..n, n - SNS < i, e.vb[Wrap(i - 1)] PROVE Has(ms, i)
      BY DEF Truthful
    <3>1. d.vb[Wrap(i - 1)] \/ Wrap(i - 1) \in acked
      BY <2>2, WrapIs
    <3>2. CASE d.vb[Wrap(i - 1)]
      BY <3>2, <1>8 DEF Truthful
    <3>3. CASE Wrap(i - 1) \in acked
      BY <3>3, <2>1, <2>4, <1>1, <1>8, BitmapTruth
    <3>4. QED
      BY <3>1, <3>2, <3>3
  <2>6. Joined(e, ms, n, a, s, r)
    BY <2>2, <2>3, <2>5, <1>8 DEF Joined, Sender, Queue
  <2>7. CASE NoNews(d, ms.vr, acked) /\ d.sinceNews > NStuck
    <3>1. down' = [e EXCEPT !.state = "Cancelled"]
      BY <2>1, <2>7, <1>3, <1>10 DEF RecvAck
    <3>2. /\ down' \in DownFields /\ down'.vs = e.vs /\ down'.va = e.va
          /\ down'.txqNum = e.txqNum /\ down'.vb = e.vb /\ down'.txq = e.txq
          /\ down'.finished = e.finished
      BY <3>1, <2>2 DEF DownFields
    <3>3. QED
      BY <3>2, <2>2, <2>6, JoinedSame
  <2>8. CASE ~(NoNews(d, ms.vr, acked) /\ d.sinceNews > NStuck)
    <3>1. PICK f : /\ f = [e EXCEPT !.prevAckSsn = ms.vr, !.resendSsn = ResendLimit(d, ms.vr),
                                    !.sinceNews = IF NoNews(d, ms.vr, acked) THEN @ ELSE 0]
                   /\ down' = AfterAcks(f)
      BY <2>1, <2>8, <1>3, <1>10 DEF RecvAck
    <3>2. ms.vr \in BSNs
      BY <1>1 DEF MsFields
    <3>3. ResendLimit(d, ms.vr) \in BSNs
      <4>1. d.txqNum \in BSNs
        BY <1>4 DEF DownFields
      <4>2. AddSN(d.txqNum, -Slip) \in BSNs
        <5>1. d.txqNum + (-Slip) \in Int
          BY <4>1, Sizes, DownAssumption
        <5>2. QED
          BY <5>1, WrapIs DEF AddSN, Wrap
      <4>3. QED
        BY <4>1, <4>2, <3>2 DEF ResendLimit
    <3>4. PICK x \in 0..NStuck + 1 : x = IF NoNews(d, ms.vr, acked) THEN e.sinceNews ELSE 0
      BY <2>2, DownAssumption DEF DownFields
    <3>5. f = [e EXCEPT !.prevAckSsn = ms.vr, !.resendSsn = ResendLimit(d, ms.vr), !.sinceNews = x]
      BY <3>1, <3>4
    <3>6. /\ f \in DownFields /\ f.vs = e.vs /\ f.va = e.va /\ f.txqNum = e.txqNum /\ f.vb = e.vb
          /\ f.txq = e.txq /\ f.finished = e.finished
      BY <3>2, <3>3, <3>5, <2>2 DEF DownFields
    <3>7. Joined(f, ms, n, a, s, r)
      BY <3>6, <2>2, <2>6, JoinedSame
    <3>8. QED
      BY <3>1, <3>6, <3>7, <1>1, AfterAnswer
  <2>9. QED
    BY <2>7, <2>8
<1>11. QED
  BY <1>9, <1>10

(* A poll that passes.                                                      *)
LEMMA PollKeeps == DownInv /\ PollPasses => DownInv'
BY DEF DownInv, TypeOK, PollPasses, Filled, Joined, Sender, Window, Queue, Receiver, Holds,
       Truthful, Has

(* Data that come.                                                          *)
LEMMA ArriveKeeps == DownInv /\ Arrive => DownInv'
<1> SUFFICES ASSUME DownInv, Arrive PROVE DownInv'
  OBVIOUS
<1>1. /\ down \in DownFields /\ ms \in MsFields /\ poll \in {"none", "out", "heard"}
      /\ data \in [queue: Numbers, toCome: Numbers] /\ data.queue + data.toCome <= Blocks
  BY DownTypes
<1>2. PICK n \in Nat, a \in Nat, s \in Nat, r \in Nat :
        n = Filled(data) /\ Joined(down, ms, n, a, s, r)
  BY DownTypes
<1>3. data.queue \in Nat /\ data.toCome \in Nat /\ Blocks \in Nat
  BY <1>1, DownAssumption DEF Numbers
<1>4. /\ data.toCome > 0 /\ data' = [queue |-> data.queue + 1, toCome |-> data.toCome - 1]
      /\ UNCHANGED <<down, poll, ms>>
  BY DEF Arrive
<1>5. data'.queue = data.queue + 1 /\ data'.toCome = data.toCome - 1
  BY <1>4
<1>6. n = Filled(data') /\ data'.queue + data'.toCome <= Blocks
  BY <1>1, <1>2, <1>3, <1>4, <1>5 DEF Filled
<1>7. data' \in [queue: Numbers, toCome: Numbers]
  <2>1. data.queue + 1 \in Numbers /\ data.toCome - 1 \in Numbers
    BY <1>1, <1>3, <1>4 DEF Numbers
  <2>2. QED
    BY <2>1, <1>4
<1>8. QED
  BY <1>1, <1>2, <1>4, <1>6, <1>7, DownMade

(* A new downlink TBF.                                                      *)
LEMMA DownBegins == Init => DownInv
<1> SUFFICES ASSUME Init PROVE DownInv
  OBVIOUS
<1>1. Filled(data) = 0 /\ data.queue + data.toCome <= Blocks
      /\ data \in [queue: Numbers, toCome: Numbers]
  BY DownAssumption DEF Init, Filled, Numbers
<1>2. 0 \in BSNs /\ 0 \in Numbers /\ 0 \in 0..PerAck /\ 0 \in 0..NStuck + 1 /\ 0 \in 0..N3105Max + 1
  BY Sizes, DownAssumption DEF Numbers
<1>3. down \in DownFields /\ ms \in MsFields
  BY <1>2 DEF Init, DownFields, MsFields
<1>4. TypeOK
  BY <1>1, <1>3 DEF Init, TypeOK, DownFields, MsFields
<1>5. Wrap(0) = 0
  BY <1>2, WrapSmall
<1>6. Joined(down, ms, 0, 0, 0, 0)
  <2>1. Window(down, 0, 0, 0)
    BY <1>5, WindowAssumption DEF Init, Window
  <2>2. Queue(down, 0)
    BY DEF Init, Queue
  <2>3. Receiver(ms, 0, 0)
    BY <1>5, <1>2, WindowAssumption DEF Init, Receiver, Holds
  <2>4. QED
    BY <2>1, <2>2, <2>3, WindowAssumption DEF Init, Joined, Sender, Truthful
<1>7. QED
  BY <1>1, <1>4, <1>6 DEF DownInv

(* Every step of a downlink TBF keeps the invariant.                        *)
LEMMA DownStep == DownInv /\ Next => DownInv'
BY ServiceKeeps, AnswerKeeps, PollKeeps, ArriveKeeps DEF Next, Primary

(* What the invariant says: order, and that what is acknowledged has been   *)
(* received.                                                                *)
LEMMA DownShows == DownInv => Aligned /\ AckedIsReceived
<1> SUFFICES ASSUME DownInv PROVE Aligned /\ AckedIsReceived
  OBVIOUS
<1>1. down \in DownFields /\ ms \in MsFields
  BY DownTypes
<1>2. PICK n \in Nat, a \in Nat, s \in Nat, r \in Nat : Joined(down, ms, n, a, s, r)
  BY DownTypes
<1>3. PICK g \in Nat : /\ g = ms.got /\ g <= r /\ r - g <= WS /\ ms.vq = Wrap(g)
  BY <1>1, <1>2 DEF Joined, Receiver, Holds, MsFields, Numbers
<1>4. ASSUME NEW b \in BSNs, ms.buf[b] # 0
      PROVE  ms.buf[b] = ms.got + 1 + AddSN(b, -ms.vq)
  <2>1. PICK j \in Nat : j = ms.buf[b] /\ j \in g + 1..r /\ b = Wrap(j - 1)
    <3>1. ms.buf[b] \in Nat
      BY <1>1 DEF MsFields, Numbers
    <3>2. QED
      BY <3>1, <1>2, <1>3, <1>4 DEF Joined, Receiver, Holds
  <2>2. 0 <= (j - 1) - g /\ (j - 1) - g < SNS /\ j - 1 \in Int
    <3>1. WS \in Nat /\ SNS = WS + WS /\ WS >= 4
      BY Sizes, WindowAssumption
    <3>2. j \in Int /\ g + 1 <= j /\ j <= r
      BY <2>1
    <3>3. QED
      BY <3>1, <3>2, <1>3
  <2>3. AddSN(Wrap(j - 1), -Wrap(g)) = (j - 1) - g
    BY <2>2, WrapGap
  <2>4. QED
    BY <2>1, <2>3, <1>3
<1>5. Aligned
  BY <1>3, <1>4 DEF Aligned, Wrap
<1>6. ASSUME NEW b \in BSNs, down.txq[b] # 0, down.vb[b]
      PROVE  down.txq[b] <= ms.got \/ down.txq[b] \in {ms.buf[c] : c \in BSNs}
  <2>1. PICK j \in Nat : j = down.txq[b] /\ j \in 1..n /\ n - SNS < j /\ b = Wrap(j - 1)
    <3>1. down.txq[b] \in Nat
      BY <1>1 DEF DownFields, Numbers
    <3>2. QED
      BY <3>1, <1>2, <1>6 DEF Joined, Sender, Queue
  <2>2. Has(ms, j)
    BY <2>1, <1>2, <1>6 DEF Joined, Truthful
  <2>3. QED
    BY <2>1, <2>2 DEF Has
<1>7. QED
  BY <1>5, <1>6 DEF AckedIsReceived

-----------------------------------------------------------------------------
(* The uplink engine.                                                       *)

(* Both engines have the same arithmetic.                                   *)
LEMMA SameWindow ==
  /\ Up!BSNs = BSNs /\ Up!SNS = SNS
  /\ \A a, b : Up!AddSN(a, b) = AddSN(a, b) /\ Up!IncSN(a) = IncSN(a) /\ Up!DeltaSN(a, b) = DeltaSN(a, b)
  /\ \A a, n, S : Up!FirstSN(a, n, S) = FirstSN(a, n, S)
  /\ \A n : Up!BSN(n) = Wrap(n - 1)
<1>1. Up!SNS = SNS
  BY DEF Up!SNS, SNS
<1>2. Up!BSNs = BSNs
  BY <1>1 DEF Up!BSNs, BSNs
<1>3. \A a, b : Up!AddSN(a, b) = AddSN(a, b) /\ Up!IncSN(a) = IncSN(a) /\ Up!DeltaSN(a, b) = DeltaSN(a, b)
  BY <1>1 DEF Up!AddSN, AddSN, Up!IncSN, IncSN, Up!DeltaSN, DeltaSN
<1>4. \A a, n, S : Up!FirstSN(a, n, S) = FirstSN(a, n, S)
  BY DEF Up!FirstSN, FirstSN, Up!AddSN, AddSN, Up!SNS, SNS
<1>5. \A n : Up!BSN(n) = Wrap(n - 1)
  BY <1>1 DEF Up!BSN, Wrap
<1>6. QED
  BY <1>1, <1>2, <1>3, <1>4, <1>5

(* The records of the types.                                                *)
UpNumbers == 0..UpBlocks

UpFields ==
    [vr: BSNs, vq: BSNs, vn: [BSNs -> BOOLEAN], rxq: [BSNs -> UpNumbers],
     state: {"Transmit", "Quiescent", "PersistFinal", "Finished"}, stalled: BOOLEAN,
     sinceAck: 0..UpPerAck, usf: BOOLEAN, early: 0..Lag, got: UpNumbers,
     heard: SUBSET (1..UpBlocks)]

Tops(h, t) == (t \in h \/ (t = 0 /\ h = {})) /\ \A n \in h : n <= t

(* What the engine has of the blocks up to t, and nothing of older ones.    *)
Kept(u, t) ==
    /\ \A b \in BSNs : u.vn[b] => \E n \in u.heard : t - WS - 1 <= n /\ b = Wrap(n - 1)
    /\ \A n \in u.heard : t - WS < n => u.vn[Wrap(n - 1)]
    /\ \A b \in BSNs : u.rxq[b] # 0 =>
         u.rxq[b] \in u.heard /\ t - WS - 1 <= u.rxq[b] /\ b = Wrap(u.rxq[b] - 1)
    /\ \A n \in u.heard : u.got < n => u.rxq[Wrap(n - 1)] = n

(* Block t is the newest heard; u.got are delivered, up to a gap in Engine. *)
Stocked(u, t) ==
    /\ Tops(u.heard, t) /\ u.vr = Wrap(t) /\ u.vq = Wrap(u.got)
    /\ u.got <= t /\ t <= u.got + WS
    /\ Kept(u, t)

Engine(u, t) == Stocked(u, t) /\ u.got + 1 \notin u.heard

(* What the engine keeps at a number from the next to deliver to V(R) is    *)
(* the block of that number.                                                *)
LEMMA Waiting ==
  ASSUME NEW u \in UpFields, NEW t \in Nat, Stocked(u, t),
         NEW w \in Int, u.got <= w, w <= t, u.rxq[Wrap(w)] # 0
  PROVE  w < t /\ u.rxq[Wrap(w)] = w + 1 /\ w + 1 \in u.heard
<1>1. PICK g \in Nat : g = u.got /\ g <= w /\ t <= g + WS
  BY DEF Stocked, UpFields, UpNumbers
<1>2. PICK j \in Nat : j = u.rxq[Wrap(w)]
  BY WrapIs DEF UpFields, UpNumbers
<1>3. j \in u.heard /\ t - WS - 1 <= j /\ j <= t /\ Wrap(w) = Wrap(j - 1)
  BY <1>2, WrapIs DEF Stocked, Tops, Kept
<1>4. w - (j - 1) < SNS /\ (j - 1) - w < SNS /\ j - 1 \in Int
  <2>1. WS \in Nat /\ WS >= 4 /\ SNS = WS + WS
    BY Sizes, WindowAssumption
  <2>2. QED
    BY <2>1, <1>1, <1>3
<1>5. w = j - 1
  BY <1>3, <1>4, WrapSame
<1>6. QED
  BY <1>2, <1>3, <1>5

(* The search for what is in order stops at V(R) at the latest, and at a    *)
(* block not heard.                                                         *)
LEMMA AdvanceWindowKeeps ==
  ASSUME NEW u \in UpFields, NEW t \in Nat, Stocked(u, t)
  PROVE  /\ Up!AdvanceWindow(u) \in UpFields /\ Engine(Up!AdvanceWindow(u), t)
         /\ u.got <= Up!AdvanceWindow(u).got /\ Up!AdvanceWindow(u).heard = u.heard
<1> DEFINE S == {b \in BSNs : u.rxq[b] = 0}
<1>1. PICK g \in Nat : g = u.got /\ g <= t /\ t <= g + WS /\ u.vq = Wrap(g)
  BY DEF Stocked, UpFields, UpNumbers
<1>2. WS \in Nat /\ WS >= 4 /\ SNS = WS + WS
  BY Sizes, WindowAssumption
<1>3. PICK y \in Nat : y = g + SNS - 1 /\ 0 <= y - g /\ y - g < SNS
  BY <1>2
<1>4. AddSN(Wrap(g), -1) = Wrap(y)
  <2>1. PICK x \in Int : x = g - 1 /\ x = g + (-1) /\ y = x + SNS
    BY <1>2, <1>3
  <2>2. AddSN(Wrap(g), -1) = Wrap(x)
    BY <2>1, WrapAdd
  <2>3. QED
    BY <2>1, <2>2, WrapOnce
<1>5. PICK z \in g..y : /\ FirstSN(Wrap(g), Wrap(y), S) = Wrap(z)
                        /\ z = y \/ Wrap(z) \in S
                        /\ \A w \in g..z - 1 : Wrap(w) \notin S
  <2>1. 0 <= y - g /\ y - g < SNS /\ g \in Int /\ y \in Int
    BY <1>3
  <2>2. QED
    BY <2>1, FirstFound
<1>6. z \in Nat /\ g <= z
  OBVIOUS
<1>7. ASSUME NEW w \in g..z - 1, w <= t
      PROVE  w < t /\ u.rxq[Wrap(w)] = w + 1 /\ w + 1 \in u.heard
  <2>1. Wrap(w) \in BSNs /\ Wrap(w) \notin S /\ w \in Int /\ u.got <= w
    BY <1>1, <1>5, WrapIs
  <2>2. QED
    BY <2>1, <1>7, Waiting
<1>8. z <= t
  <2>1. ASSUME t < z PROVE FALSE
    <3>1. t \in g..z - 1 /\ t <= t
      BY <2>1, <1>1
    <3>2. t < t
      BY <3>1, <1>7
    <3>3. QED
      BY <3>2
  <2>2. QED
    BY <2>1, <1>6
<1>9. z + 1 \notin u.heard
  <2> SUFFICES ASSUME z + 1 \in u.heard PROVE FALSE
    OBVIOUS
  <2>1. z # y
    BY <1>1, <1>2, <1>3, <1>8
  <2>2. u.rxq[Wrap(z)] = 0
    BY <2>1, <1>5
  <2>3. PICK n \in Nat : n = z + 1 /\ n - 1 = z /\ g < n
    BY <1>6
  <2>4. u.rxq[Wrap(n - 1)] = n
    BY <2>3, <1>1 DEF Stocked, Kept
  <2>5. QED
    BY <2>2, <2>3, <2>4
<1>10. AddSN(Wrap(z), -Wrap(g)) = z - g
  <2>1. 0 <= z - g /\ z - g < SNS
    BY <1>1, <1>2, <1>6, <1>8
  <2>2. QED
    BY <2>1, <1>6, WrapGap
<1>11. Up!FirstSN(u.vq, Up!AddSN(u.vq, -1), {b \in Up!BSNs : u.rxq[b] = 0}) = Wrap(z)
  BY <1>1, <1>4, <1>5, SameWindow
<1>12. CASE z = g
  <2>1. Up!AdvanceWindow(u) = u
    BY <1>1, <1>10, <1>11, <1>12, SameWindow DEF Up!AdvanceWindow
  <2>2. QED
    BY <2>1, <1>1, <1>9, <1>12 DEF Engine
<1>13. CASE z # g
  <2>1. AddSN(Wrap(z), -1) = Wrap(z - 1) /\ u.rxq[Wrap(z - 1)] = z
    <3>1. z + (-1) = z - 1 /\ -1 \in Int /\ z - 1 \in g..z - 1 /\ z - 1 <= t /\ (z - 1) + 1 = z
      BY <1>6, <1>8, <1>13
    <3>2. u.rxq[Wrap(z - 1)] = (z - 1) + 1
      BY <3>1, <1>7
    <3>3. QED
      BY <3>1, <3>2, <1>6, WrapAdd
  <2>2. PICK st : st = Up!StateAfter(u.state, u.rxq[u.vq], z)
    OBVIOUS
  <2>3. st \in {"Transmit", "Quiescent", "PersistFinal", "Finished"}
    BY <2>2 DEF Up!StateAfter, UpFields
  <2>4. PICK rxq : rxq = [b \in Up!BSNs |-> IF Up!AddSN(b, -u.vq) < z - g THEN 0 ELSE u.rxq[b]]
    OBVIOUS
  <2>5. Up!AdvanceWindow(u) = [u EXCEPT !.vq = Wrap(z), !.got = z, !.state = st, !.rxq = rxq]
    <3>1. z - g # 0
      BY <1>6, <1>13
    <3>2. QED
      BY ZenonT(40), <3>1, <2>1, <2>2, <2>4, <1>1, <1>10, <1>11, SameWindow DEF Up!AdvanceWindow
  <2>6. /\ rxq \in [BSNs -> UpNumbers]
        /\ \A b \in BSNs : rxq[b] = IF AddSN(b, -Wrap(g)) < z - g THEN 0 ELSE u.rxq[b]
    <3>1. 0 \in UpNumbers
      BY UpAssumption DEF UpNumbers
    <3>2. QED
      BY <3>1, <2>4, <1>1, SameWindow DEF UpFields
  <2>7. z \in UpNumbers /\ Wrap(z) \in BSNs
    <3>1. t \in 0..UpBlocks
      BY UpAssumption DEF Stocked, Tops, UpFields
    <3>2. QED
      BY <3>1, <1>6, <1>8, WrapIs, UpAssumption DEF UpNumbers
  <2>8. PICK v : v = Up!AdvanceWindow(u)
    OBVIOUS
  <2>9. /\ v \in UpFields /\ v.vr = u.vr /\ v.vq = Wrap(z) /\ v.got = z /\ v.rxq = rxq
        /\ v.vn = u.vn /\ v.heard = u.heard
    BY <2>3, <2>5, <2>6, <2>7, <2>8 DEF UpFields
  <2>10. ASSUME NEW b \in BSNs, rxq[b] # 0
         PROVE  rxq[b] \in u.heard /\ t - WS - 1 <= rxq[b] /\ b = Wrap(rxq[b] - 1)
    <3>1. rxq[b] = u.rxq[b]
      BY <2>6, <2>10
    <3>2. QED
      BY <3>1, <2>10 DEF Stocked, Kept
  <2>11. ASSUME NEW n \in u.heard, z < n PROVE rxq[Wrap(n - 1)] = n
    <3>1. n \in Nat /\ n <= t
      BY DEF UpFields, Stocked, Tops
    <3>2. 0 <= (n - 1) - g /\ (n - 1) - g < SNS /\ n - 1 \in Int /\ ~((n - 1) - g < z - g) /\ g < n
      BY <3>1, <2>11, <1>1, <1>2, <1>6
    <3>3. AddSN(Wrap(n - 1), -Wrap(g)) = (n - 1) - g
      BY <3>2, WrapGap
    <3>4. Wrap(n - 1) \in BSNs /\ u.rxq[Wrap(n - 1)] = n
      BY <3>2, <1>1, WrapIs DEF Stocked, Kept
    <3>5. QED
      BY <3>2, <3>3, <3>4, <2>6
  <2>12. Kept(v, t)
    BY <2>9, <2>10, <2>11 DEF Stocked, Kept
  <2>13. z <= t /\ t <= z + WS /\ g <= z
    BY <1>1, <1>2, <1>6, <1>8
  <2>14. Engine(v, t)
    BY <2>9, <2>12, <2>13, <1>9 DEF Engine, Stocked
  <2>15. QED
    BY <2>8, <2>9, <2>13, <2>14, <1>1
<1>14. QED
  BY <1>12, <1>13

(* A block less than WS old or ahead takes its place.                       *)
LEMMA StoreKeeps ==
  ASSUME NEW u \in UpFields, NEW t \in Nat, Stocked(u, t),
         NEW n \in 1..UpBlocks, n <= u.got + WS, t < n + WS,
         NEW s \in UpFields, s.got = u.got, s.heard = u.heard \cup {n},
         s.vn = [u.vn EXCEPT ![Wrap(n - 1)] = TRUE], s.rxq = [u.rxq EXCEPT ![Wrap(n - 1)] = n]
  PROVE  Kept(s, t)
<1>1. PICK g \in Nat : g = u.got /\ g = s.got /\ g <= t /\ t <= g + WS /\ n <= g + WS
  BY DEF Stocked, UpFields, UpNumbers
<1>2. WS \in Nat /\ WS >= 4 /\ SNS = WS + WS
  BY Sizes, WindowAssumption
<1>3. n \in Nat /\ n - 1 \in Int /\ n # 0 /\ Wrap(n - 1) \in BSNs /\ n \in s.heard
  BY WrapIs
<1>4. t - WS - 1 <= n
  BY <1>2, <1>3
<1>5. u.vn \in [BSNs -> BOOLEAN] /\ u.rxq \in [BSNs -> UpNumbers]
  BY DEF UpFields
<1>6. ASSUME NEW b \in BSNs, s.vn[b] PROVE \E m \in s.heard : t - WS - 1 <= m /\ b = Wrap(m - 1)
  <2>1. CASE b = Wrap(n - 1)
    BY <2>1, <1>3, <1>4
  <2>2. CASE b # Wrap(n - 1)
    <3>1. u.vn[b]
      BY <2>2, <1>5, <1>6
    <3>2. PICK m \in u.heard : t - WS - 1 <= m /\ b = Wrap(m - 1)
      BY <3>1 DEF Stocked, Kept
    <3>3. QED
      BY <3>2
  <2>3. QED
    BY <2>1, <2>2
<1>7. ASSUME NEW m \in s.heard, t - WS < m PROVE s.vn[Wrap(m - 1)]
  <2>1. CASE m = n
    BY <2>1, <1>3, <1>5
  <2>2. CASE m # n
    <3>1. m \in u.heard /\ m - 1 \in Int
      BY <2>2 DEF UpFields
    <3>2. u.vn[Wrap(m - 1)] /\ Wrap(m - 1) \in BSNs
      BY <3>1, <1>7, WrapIs DEF Stocked, Kept
    <3>3. QED
      BY <3>2, <1>3, <1>5
  <2>3. QED
    BY <2>1, <2>2
<1>8. ASSUME NEW b \in BSNs, s.rxq[b] # 0
      PROVE  s.rxq[b] \in s.heard /\ t - WS - 1 <= s.rxq[b] /\ b = Wrap(s.rxq[b] - 1)
  <2>1. CASE b = Wrap(n - 1)
    <3>1. s.rxq[b] = n
      BY <2>1, <1>3, <1>5
    <3>2. QED
      BY <3>1, <2>1, <1>3, <1>4
  <2>2. CASE b # Wrap(n - 1)
    <3>1. s.rxq[b] = u.rxq[b]
      BY <2>2, <1>3, <1>5
    <3>2. QED
      BY <3>1, <1>8 DEF Stocked, Kept
  <2>3. QED
    BY <2>1, <2>2
<1>9. ASSUME NEW m \in s.heard, s.got < m PROVE s.rxq[Wrap(m - 1)] = m
  <2>1. CASE m = n
    BY <2>1, <1>3, <1>5
  <2>2. CASE m # n
    <3>1. m \in u.heard /\ m \in Nat /\ m <= t /\ m - 1 \in Int
      BY <2>2 DEF UpFields, Stocked, Tops
    <3>2. u.rxq[Wrap(m - 1)] = m /\ Wrap(m - 1) \in BSNs
      BY <3>1, <1>1, <1>9, WrapIs DEF Stocked, Kept
    <3>3. Wrap(m - 1) # Wrap(n - 1)
      <4>1. (m - 1) - (n - 1) < SNS /\ (n - 1) - (m - 1) < SNS
        BY <3>1, <1>1, <1>2, <1>3, <1>9
      <4>2. m - 1 # n - 1
        BY <3>1, <2>2, <1>3
      <4>3. QED
        BY <4>1, <4>2, <3>1, <1>3, WrapSame
    <3>4. QED
      BY <3>2, <3>3, <1>3, <1>5
  <2>3. QED
    BY <2>1, <2>2
<1>10. QED
  BY <1>6, <1>7, <1>8, <1>9 DEF Kept

(* V(R) moves by less than WS - 1: what it forgets is more than WS old, and *)
(* it forgets no more.                                                      *)
LEMMA MoveVRKeeps ==
  ASSUME NEW u \in UpFields, NEW t \in Nat, Kept(u, t), u.vr = Wrap(t),
         NEW n \in Nat, n \in u.heard, \A m \in u.heard : m <= n,
         t < n, n <= t + WS - 2, n <= u.got + WS,
         NEW v, v = Up!MoveVR(u, Wrap(n - 1))
  PROVE  /\ v \in UpFields /\ v.vr = Wrap(n) /\ Kept(v, n)
         /\ v.vq = u.vq /\ v.got = u.got /\ v.heard = u.heard
<1>1. PICK g \in Nat : g = u.got /\ n <= g + WS
  BY DEF UpFields, UpNumbers
<1>2. WS \in Nat /\ WS >= 4 /\ SNS = WS + WS
  BY Sizes, WindowAssumption
<1>3. PICK x \in Int : x = t - WS - 2
  BY <1>2
<1>4. AddSN(Wrap(t), -WS - 2) = Wrap(x)
  <2>1. t + (-WS - 2) = x /\ -WS - 2 \in Int
    BY <1>2, <1>3
  <2>2. QED
    BY <2>1, WrapAdd
<1>5. IncSN(Wrap(n - 1)) = Wrap(n) /\ Wrap(n) \in BSNs
  <2>1. (n - 1) + 1 = n /\ n - 1 \in Int
    OBVIOUS
  <2>2. QED
    BY <2>1, WrapAdd, WrapIs DEF IncSN
<1>6. AddSN(Wrap(n), -Wrap(t)) = n - t
  <2>1. 0 <= n - t /\ n - t < SNS
    BY <1>2
  <2>2. QED
    BY <2>1, WrapGap
<1> DEFINE cleared == {b \in Up!BSNs : Up!AddSN(b, -Up!AddSN(u.vr, -WS - 2))
                                          < Up!AddSN(Up!IncSN(Wrap(n - 1)), -u.vr)}
<1>7. PICK clear : clear = cleared
  OBVIOUS
<1>8. \A b \in BSNs : b \in clear <=> AddSN(b, -Wrap(x)) < n - t
  BY <1>4, <1>5, <1>6, <1>7, SameWindow
<1>9. v = [u EXCEPT !.vr = Wrap(n),
                    !.vn = [b \in Up!BSNs |-> u.vn[b] /\ b \notin clear],
                    !.rxq = [b \in Up!BSNs |-> IF b \in clear THEN 0 ELSE u.rxq[b]]]
  BY <1>5, <1>7, SameWindow DEF Up!MoveVR
<1> HIDE DEF cleared
<1>10. PICK vn, rxq : /\ vn = [b \in BSNs |-> u.vn[b] /\ b \notin clear]
                      /\ rxq = [b \in BSNs |-> IF b \in clear THEN 0 ELSE u.rxq[b]]
  OBVIOUS
<1>11. v = [u EXCEPT !.vr = Wrap(n), !.vn = vn, !.rxq = rxq]
  BY <1>9, <1>10, SameWindow
<1>12. vn \in [BSNs -> BOOLEAN] /\ \A b \in BSNs : vn[b] <=> u.vn[b] /\ b \notin clear
  BY <1>10
<1>13. /\ rxq \in [BSNs -> UpNumbers]
       /\ \A b \in BSNs : rxq[b] = IF b \in clear THEN 0 ELSE u.rxq[b]
  <2>1. 0 \in UpNumbers
    BY UpAssumption DEF UpNumbers
  <2>2. QED
    BY <2>1, <1>10 DEF UpFields
<1>14. /\ v \in UpFields /\ v.vr = Wrap(n) /\ v.vq = u.vq /\ v.got = u.got /\ v.heard = u.heard
       /\ v.vn = vn /\ v.rxq = rxq
  BY <1>5, <1>11, <1>12, <1>13 DEF UpFields
<1>15. ASSUME NEW m \in u.heard, t - WS - 1 <= m, Wrap(m - 1) \notin clear PROVE n - WS - 1 <= m
  <2>1. m \in Nat /\ m <= n
    BY DEF UpFields
  <2>2. SUFFICES ASSUME m < n - WS - 1 PROVE FALSE
    BY <2>1, <1>2
  <2>3. 0 <= (m - 1) - x /\ (m - 1) - x < SNS /\ m - 1 \in Int /\ (m - 1) - x < n - t
    BY <2>1, <2>2, <1>2, <1>3, <1>15
  <2>4. AddSN(Wrap(m - 1), -Wrap(x)) = (m - 1) - x
    BY <2>3, WrapGap
  <2>5. QED
    BY <2>3, <2>4, <1>8, <1>15, WrapIs
<1>16. ASSUME NEW m \in u.heard, n - WS < m PROVE Wrap(m - 1) \notin clear /\ Wrap(m - 1) \in BSNs
  <2>1. m \in Nat /\ m <= n
    BY DEF UpFields
  <2>2. Wrap(m - 1) \in BSNs
    BY <2>1, WrapIs
  <2>3. CASE (m - 1) - x < SNS
    <3>1. 0 <= (m - 1) - x /\ (m - 1) - x < SNS /\ m - 1 \in Int /\ ~((m - 1) - x < n - t)
      BY <2>1, <2>3, <1>2, <1>3, <1>16
    <3>2. AddSN(Wrap(m - 1), -Wrap(x)) = (m - 1) - x
      BY <3>1, WrapGap
    <3>3. QED
      BY <3>1, <3>2, <2>2, <1>8
  <2>4. CASE ~((m - 1) - x < SNS)
    BY <2>1, <2>4, <1>2, <1>3
  <2>5. QED
    BY <2>3, <2>4
<1>17. ASSUME NEW b \in BSNs, vn[b] PROVE \E m \in u.heard : n - WS - 1 <= m /\ b = Wrap(m - 1)
  <2>1. u.vn[b] /\ b \notin clear
    BY <1>12, <1>17
  <2>2. PICK m \in u.heard : t - WS - 1 <= m /\ b = Wrap(m - 1)
    BY <2>1 DEF Kept
  <2>3. QED
    BY <2>1, <2>2, <1>15
<1>18. ASSUME NEW m \in u.heard, n - WS < m PROVE vn[Wrap(m - 1)]
  <2>1. m \in Nat /\ t - WS < m
    BY <1>2, <1>18 DEF UpFields
  <2>2. u.vn[Wrap(m - 1)]
    BY <2>1 DEF Kept
  <2>3. QED
    BY <2>2, <1>12, <1>16, <1>18
<1>19. ASSUME NEW b \in BSNs, rxq[b] # 0
       PROVE  rxq[b] \in u.heard /\ n - WS - 1 <= rxq[b] /\ b = Wrap(rxq[b] - 1)
  <2>1. rxq[b] = u.rxq[b] /\ b \notin clear
    BY <1>13, <1>19
  <2>2. u.rxq[b] \in u.heard /\ t - WS - 1 <= u.rxq[b] /\ b = Wrap(u.rxq[b] - 1)
    BY <2>1, <1>19 DEF Kept
  <2>3. QED
    BY <2>1, <2>2, <1>15
<1>20. ASSUME NEW m \in u.heard, u.got < m PROVE rxq[Wrap(m - 1)] = m
  <2>1. m \in Nat /\ n - WS < m
    BY <1>1, <1>2, <1>20 DEF UpFields
  <2>2. u.rxq[Wrap(m - 1)] = m
    BY <1>20 DEF Kept
  <2>3. QED
    BY <2>1, <2>2, <1>13, <1>16
<1>21. Kept(v, n)
  BY <1>14, <1>17, <1>18, <1>19, <1>20 DEF Kept
<1>22. QED
  BY <1>14, <1>21

(* The newest block heard.                                                  *)
LEMMA NewestIs ==
  ASSUME NEW h \in SUBSET (1..UpBlocks), h = up.heard, NEW t \in Nat, Tops(h, t)
  PROVE  Up!Newest = t
<1>1. CASE h = {}
  BY <1>1 DEF Up!Newest, Tops
<1>2. CASE h # {}
  <2>1. t \in h /\ \A n \in h : n <= t
    BY <1>2 DEF Tops
  <2>2. \A x, y \in h : (\A m \in h : m <= x) /\ (\A m \in h : m <= y) => x = y
    <3>1. \A x, y \in h : x <= y /\ y <= x => x = y
      OBVIOUS
    <3>2. QED
      BY <3>1
  <2>3. t = CHOOSE n \in h : \A m \in h : m <= n
    <3>1. PICK n : n = CHOOSE x \in h : \A m \in h : m <= x
      OBVIOUS
    <3>2. n \in h /\ \A m \in h : m <= n
      BY <2>1, <3>1
    <3>3. QED
      BY <2>1, <2>2, <3>1, <3>2
  <2>4. QED
    BY <2>3, <1>2 DEF Up!Newest
<1>3. QED
  BY <1>1, <1>2

TbfFields ==
    [state: {"DataTransmit", "DataFinal", "Finished", "Dead"},
     n3101: 0..N3101Max + 1, n3103: 0..N3103Max + 1, poll: BOOLEAN,
     final: {"none", "out", "heard", "acked"}]

PhoneFields == [on: BOOLEAN, va: 1..UpBlocks + 1, vs: 1..UpBlocks + 1]

(* A block on its way fits the window of the engine when it comes, and is   *)
(* less than WS - 1 beyond the newest that the engine has heard by then.    *)
Coming(x, i, got, t) ==
    \/ x[i].n = 0 /\ x[i] = Up!Dummy
    \/ /\ x[i].n \in 1..UpBlocks /\ x[i].bsn = Wrap(x[i].n - 1)
       /\ x[i].n <= got + WS /\ t < x[i].n + WS
       /\ \A j \in 1..i - 1 : x[j].n < x[i].n + WS
       /\ x[i].n <= t + WS - 2 \/ \E j \in 1..i - 1 : x[i].n <= x[j].n + WS - 2

(* The window of the handset's transmitter is in reach of the engine's.     *)
Transmitter(p, x, got, t) ==
    /\ p.va <= got + 1 /\ p.va <= p.vs /\ p.vs <= p.va + WS
    /\ p.on => t < p.vs /\ \A i \in 1..Len(x) : x[i].n < p.vs

(* The next new block will be in reach too: what is lost stays below this.  *)
Sends(p, x, t) ==
    p.vs <= t + WS - 2 \/ \E i \in 1..Len(x) : p.vs <= x[i].n + WS - 2

Linked(u, p, x, alive, t) ==
    /\ Engine(u, t) /\ Transmitter(p, x, u.got, t)
    /\ \A i \in 1..Len(x) : Coming(x, i, u.got, t)
    /\ p.on /\ alive => Sends(p, x, t)

Alive == tbf.state # "Dead"

UpInv == Up!TypeOK /\ \E t \in Nat : Linked(up, phone, air, Alive, t)

(* The types of an uplink TBF.                                              *)
LEMMA UpTypes ==
  Up!TypeOK <=> /\ up \in UpFields /\ tbf \in TbfFields /\ phone \in PhoneFields
                /\ air \in Seq(Up!Data) /\ Len(air) <= Lag
BY SameWindow DEF Up!TypeOK, UpFields, TbfFields, PhoneFields, Up!Numbers, UpNumbers

(* The same after a step.                                                   *)
LEMMA UpTypesNext ==
  Up!TypeOK' <=> /\ up' \in UpFields /\ tbf' \in TbfFields /\ phone' \in PhoneFields
                 /\ air' \in Seq(Up!Data) /\ Len(air') <= Lag
BY SameWindow DEF Up!TypeOK, UpFields, TbfFields, PhoneFields, Up!Numbers, UpNumbers

(* What the invariant says of the engine is about its window.               *)
LEMMA LinkedSame ==
  ASSUME NEW u, NEW v, NEW p, NEW x, NEW alive, NEW still, NEW t, Linked(u, p, x, alive, t),
         v.vr = u.vr, v.vq = u.vq, v.vn = u.vn, v.rxq = u.rxq, v.got = u.got, v.heard = u.heard,
         still => alive
  PROVE  Linked(v, p, x, still, t)
BY DEF Linked, Engine, Stocked, Kept

(* The handset goes.                                                        *)
LEMMA LinkedOff ==
  ASSUME NEW u \in UpFields, NEW p, NEW x, NEW alive, NEW still, NEW t, Linked(u, p, x, alive, t)
  PROVE  Linked(u, Up!Off, x, still, t)
<1>1. Up!Off.on = FALSE /\ Up!Off.va = 1 /\ Up!Off.vs = 1
  BY DEF Up!Off
<1>2. u.got \in Nat
  BY DEF UpFields, UpNumbers
<1>3. Transmitter(Up!Off, x, u.got, t)
  BY <1>1, <1>2, WindowAssumption DEF Transmitter
<1>4. QED
  BY <1>1, <1>3 DEF Linked

(* What is on the air is dropped with the TBF.                              *)
LEMMA LinkedSilent ==
  ASSUME NEW u, NEW p, NEW x, NEW alive, NEW t, Linked(u, p, x, alive, t)
  PROVE  Linked(u, p, <<>>, FALSE, t)
<1>1. 1..Len(<<>>) = {}
  OBVIOUS
<1>2. QED
  BY <1>1 DEF Linked, Transmitter

(* The handset hears an acknowledgement: its V(A) moves to the next block   *)
(* to deliver, at most.                                                     *)
LEMMA LinkedAck ==
  ASSUME NEW u \in UpFields, NEW p \in PhoneFields, NEW x, NEW alive, NEW t \in Nat,
         Linked(u, p, x, alive, t), NEW q, p = phone, q = Up!HearsAck(u.vr, Up!Bitmap(u))
  PROVE  q \in PhoneFields /\ Linked(u, q, x, alive, t)
<1>1. PICK g \in Nat : /\ g = u.got /\ g + 1 \notin u.heard /\ g <= t /\ t <= g + WS
                       /\ u.vr = Wrap(t)
  BY DEF Linked, Engine, Stocked, UpFields, UpNumbers
<1>2. WS \in Nat /\ WS >= 4 /\ SNS = WS + WS
  BY Sizes, WindowAssumption
<1>3. /\ p.va \in Nat /\ p.vs \in Nat /\ p.va <= g + 1 /\ p.va <= p.vs /\ p.vs <= p.va + WS
      /\ p.va \in 1..UpBlocks + 1 /\ p.vs \in 1..UpBlocks + 1
  BY <1>1 DEF Linked, Transmitter, PhoneFields
<1>4. PICK left : left = {n \in p.va..p.vs - 1 : Up!AddSN(u.vr, -Up!BSN(n)) \notin Up!Bitmap(u)}
  OBVIOUS
<1>5. ASSUME g + 1 < p.vs PROVE g + 1 \in left
  <2>1. g + 1 \in p.va..p.vs - 1
    BY <1>3, <1>5
  <2>2. SUFFICES ASSUME Up!AddSN(u.vr, -Up!BSN(g + 1)) \in Up!Bitmap(u) PROVE FALSE
    BY <2>1, <1>4
  <2>3. Up!BSN(g + 1) = Wrap(g)
    <3>1. (g + 1) - 1 = g
      OBVIOUS
    <3>2. QED
      BY <3>1, SameWindow
  <2>4. AddSN(Wrap(t), -Wrap(g)) = t - g
    <3>1. 0 <= t - g /\ t - g < SNS /\ t \in Int /\ g \in Int
      BY <1>1, <1>2
    <3>2. QED
      BY <3>1, WrapGap
  <2>5. t - g \in Up!Bitmap(u)
    BY <2>2, <2>3, <2>4, <1>1, SameWindow
  <2>6. u.vn[AddSN(Wrap(t), -(t - g))]
    BY <2>5, <1>1, SameWindow DEF Up!Bitmap
  <2>7. AddSN(Wrap(t), -(t - g)) = Wrap(g)
    <3>1. t + (-(t - g)) = g /\ -(t - g) \in Int
      OBVIOUS
    <3>2. QED
      BY <3>1, WrapAdd
  <2>8. PICK m \in u.heard : t - WS - 1 <= m /\ Wrap(g) = Wrap(m - 1)
    <3>1. \A b \in BSNs : u.vn[b] => \E n \in u.heard : t - WS - 1 <= n /\ b = Wrap(n - 1)
      BY DEF Linked, Engine, Stocked, Kept
    <3>2. Wrap(g) \in BSNs /\ u.vn[Wrap(g)]
      BY <2>6, <2>7, WrapIs
    <3>3. QED
      BY <3>1, <3>2
  <2>9. m \in Nat /\ m <= t
    BY DEF UpFields, Linked, Engine, Stocked, Tops
  <2>10. g - (m - 1) < SNS /\ (m - 1) - g < SNS /\ m - 1 \in Int
    BY <2>8, <2>9, <1>1, <1>2
  <2>11. g = m - 1
    BY <2>8, <2>10, WrapSame
  <2>12. QED
    BY <2>9, <2>11, <1>1
<1>6. PICK y : y = IF left = {} THEN p.vs ELSE CHOOSE n \in left : \A m \in left : n <= m
  OBVIOUS
<1>7. q = [p EXCEPT !.va = y]
  BY <1>4, <1>6 DEF Up!HearsAck
<1>8. y \in Nat /\ p.va <= y /\ y <= p.vs /\ y <= g + 1
  <2>1. CASE left = {}
    BY <2>1, <1>3, <1>5, <1>6
  <2>2. CASE left # {}
    <3>1. left \in SUBSET Nat
      BY <1>3, <1>4
    <3>2. \E n \in left : \A m \in left : n <= m
      BY <3>1, <2>2, Least
    <3>3. y \in left /\ \A m \in left : y <= m
      BY <3>2, <2>2, <1>6
    <3>4. y \in Nat /\ p.va <= y /\ y <= p.vs
      BY <3>3, <1>3, <1>4
    <3>5. QED
      BY <3>3, <3>4, <1>3, <1>5
  <2>3. QED
    BY <2>1, <2>2
<1>9. y \in 1..UpBlocks + 1
  BY <1>3, <1>8, UpAssumption
<1>10. q \in PhoneFields /\ q.va = y /\ q.vs = p.vs /\ q.on = p.on
  BY <1>7, <1>9 DEF PhoneFields
<1>11. y <= u.got + 1 /\ y <= p.vs /\ p.vs <= y + WS
  BY <1>1, <1>2, <1>3, <1>8
<1>12. Transmitter(q, x, u.got, t)
  BY <1>10, <1>11 DEF Linked, Transmitter
<1>13. Linked(u, q, x, alive, t)
  BY <1>10, <1>12 DEF Linked, Sends
<1>14. QED
  BY <1>10, <1>13

(* One more block on the air.                                               *)
LEMMA LinkedSaid ==
  ASSUME NEW u, NEW p, NEW x, NEW alive, NEW t \in Nat,
         NEW y \in Seq(Up!Data), Linked(u, p, y, alive, t), NEW b \in Up!Data,
         x = Append(y, b), NEW q \in PhoneFields,
         Transmitter(q, y, u.got, t), b.n < q.vs, Coming(x, Len(y) + 1, u.got, t),
         q.on => Sends(q, x, t)
  PROVE  Linked(u, q, x, TRUE, t)
<1>1. PICK k \in Nat : k = Len(y) /\ Len(x) = k + 1 /\ x[k + 1] = b
  OBVIOUS
<1>2. \A i \in 1..k : x[i] = y[i]
  BY <1>1
<1>3. ASSUME NEW i \in 1..k + 1 PROVE Coming(x, i, u.got, t)
  <2>1. CASE i = k + 1
    BY <2>1, <1>1
  <2>2. CASE i # k + 1
    <3>1. i \in 1..k /\ \A j \in 1..i - 1 : j \in 1..k
      BY <2>2
    <3>2. x[i] = y[i] /\ \A j \in 1..i - 1 : x[j] = y[j]
      BY <3>1, <1>2
    <3>3. Coming(y, i, u.got, t)
      BY <3>1, <1>1 DEF Linked
    <3>4. QED
      BY <3>2, <3>3 DEF Coming
  <2>3. QED
    BY <2>1, <2>2
<1>4. Transmitter(q, x, u.got, t)
  <2>1. ASSUME q.on, NEW i \in 1..k + 1 PROVE x[i].n < q.vs
    <3>1. i \in 1..k \/ i = k + 1
      OBVIOUS
    <3>2. QED
      BY <3>1, <2>1, <1>1, <1>2 DEF Transmitter
  <2>2. QED
    BY <2>1, <1>1 DEF Transmitter
<1>5. QED
  BY <1>1, <1>3, <1>4 DEF Linked

(* engineRecvDataBlock, from the storing to the delivery.                   *)
LEMMA ReceivedKeeps ==
  ASSUME NEW u \in UpFields, NEW t \in Nat, Engine(u, t),
         NEW n \in 1..UpBlocks, n <= u.got + WS, t < n + WS, n <= t + WS - 2,
         NEW s \in UpFields, s.vr = u.vr, s.vq = u.vq, s.got = u.got, s.heard = u.heard \cup {n},
         s.vn = [u.vn EXCEPT ![Wrap(n - 1)] = TRUE], s.rxq = [u.rxq EXCEPT ![Wrap(n - 1)] = n],
         NEW v, v = IF Up!IsAhead(s, Wrap(n - 1)) THEN Up!MoveVR(s, Wrap(n - 1)) ELSE s,
         NEW w, w = Up!AdvanceWindow(v)
  PROVE  \E i \in Nat : /\ w \in UpFields /\ Engine(w, i) /\ u.got <= w.got
                        /\ t <= i /\ n <= i /\ (i = t \/ i = n)
<1>1. /\ Tops(u.heard, t) /\ u.vr = Wrap(t) /\ u.vq = Wrap(u.got) /\ u.got <= t /\ t <= u.got + WS
      /\ Stocked(u, t)
  BY DEF Engine, Stocked
<1>2. Kept(s, t)
  BY <1>1, StoreKeeps
<1>3. WS \in Nat /\ WS >= 4 /\ SNS = WS + WS /\ u.got \in Nat /\ n \in Nat
  BY Sizes, WindowAssumption DEF UpFields, UpNumbers
<1>4. Up!IsAhead(s, Wrap(n - 1)) <=> n > t
  <2>1. AddSN(Wrap(t), -1) = Wrap(t - 1)
    <3>1. t + (-1) = t - 1 /\ -1 \in Int
      OBVIOUS
    <3>2. QED
      BY <3>1, WrapAdd
  <2>2. PICK x \in Int, y \in Int : x = n - 1 /\ y = t - 1 /\ -WS < x - y /\ x - y <= WS
    BY <1>3
  <2>3. DeltaSN(Wrap(x), Wrap(y)) = x - y
    BY <2>2, WrapDelta
  <2>4. x - y > 0 <=> n > t
    BY <2>2, <1>3
  <2>5. QED
    BY <2>1, <2>2, <2>3, <2>4, <1>1, SameWindow DEF Up!IsAhead
<1>5. PICK i \in Nat : i = IF n > t THEN n ELSE t
  BY <1>3
<1>6. v \in UpFields /\ Stocked(v, i) /\ v.got = u.got
  <2>1. CASE n > t
    <3>1. n \in s.heard /\ \A m \in s.heard : m <= n
      <4>1. \A m \in u.heard : m \in Nat /\ m <= t
        BY <1>1 DEF Tops, UpFields
      <4>2. QED
        BY <4>1, <2>1, <1>3
    <3>2. v = Up!MoveVR(s, Wrap(n - 1))
      BY <2>1, <1>4
    <3>3. /\ v \in UpFields /\ v.vr = Wrap(n) /\ Kept(v, n)
          /\ v.vq = s.vq /\ v.got = s.got /\ v.heard = s.heard
      BY <3>1, <3>2, <2>1, <1>1, <1>2, <1>3, MoveVRKeeps
    <3>4. Tops(v.heard, n)
      BY <3>1, <3>3 DEF Tops
    <3>5. u.got <= n /\ i = n
      BY <2>1, <1>1, <1>3, <1>5
    <3>6. QED
      BY <3>3, <3>4, <3>5, <1>1 DEF Stocked
  <2>2. CASE ~(n > t)
    <3>1. Tops(s.heard, t)
      <4>1. n <= t /\ t # 0
        BY <2>2, <1>3
      <4>2. QED
        BY <4>1, <1>1 DEF Tops
    <3>2. v = s /\ i = t
      BY <2>2, <1>4, <1>5
    <3>3. QED
      BY <3>1, <3>2, <1>1, <1>2 DEF Stocked
  <2>3. QED
    BY <2>1, <2>2
<1>7. w \in UpFields /\ Engine(w, i) /\ u.got <= w.got
  BY <1>6, AdvanceWindowKeeps
<1>8. t <= i /\ n <= i /\ (i = t \/ i = n)
  BY <1>3, <1>5
<1>9. QED
  BY <1>7, <1>8

(* The first block on the air has come.                                     *)
LEMMA TailKeeps ==
  ASSUME NEW u \in UpFields, NEW p \in PhoneFields, NEW y \in Seq(Up!Data), y # <<>>,
         NEW t \in Nat, Linked(u, p, y, TRUE, t),
         NEW v \in UpFields, NEW h \in Nat, Engine(v, h), u.got <= v.got,
         t <= h, y[1].n <= h, h = t \/ h = y[1].n
  PROVE  Linked(v, p, Tail(y), TRUE, h)
<1>1. PICK k \in Nat : /\ Len(y) = k + 1 /\ Len(Tail(y)) = k
                       /\ \A i \in 1..k : Tail(y)[i] = y[i + 1]
  <2>1. Len(y) \in Nat /\ Len(y) > 0
    OBVIOUS
  <2>2. PICK k \in Nat : Len(y) = k + 1
    BY <2>1
  <2>3. QED
    BY <2>2
<1>2. \A i \in 1..k + 1 : y[i].n \in Nat
  <2>1. ASSUME NEW i \in 1..k + 1 PROVE y[i].n \in Nat
    <3>1. i \in 1..Len(y)
      BY <1>1
    <3>2. y[i] \in Up!Data
      BY <3>1
    <3>3. y[i].n \in 0..UpBlocks
      BY <3>2 DEF Up!Data, Up!Numbers
    <3>4. QED
      BY <3>3
  <2>2. QED
    BY <2>1
<1>3. u.got \in Nat /\ v.got \in Nat /\ WS \in Nat
  BY WindowAssumption DEF UpFields, UpNumbers
<1>4. 1 \in 1..k + 1 /\ y[1].n \in Nat
  BY <1>2
<1>5. ASSUME NEW i \in 1..k PROVE Coming(Tail(y), i, v.got, h)
  <2>1. PICK e \in Nat : e = i + 1 /\ e \in 1..k + 1 /\ Tail(y)[i] = y[e] /\ e - 1 = i /\ e \in Int
    BY <1>1
  <2>2. Coming(y, e, u.got, t)
    BY <2>1, <1>1 DEF Linked
  <2>3. CASE y[e].n = 0 /\ y[e] = Up!Dummy
    BY <2>1, <2>3 DEF Coming
  <2>4. CASE /\ y[e].n \in 1..UpBlocks /\ y[e].bsn = Wrap(y[e].n - 1)
             /\ y[e].n <= u.got + WS /\ t < y[e].n + WS
             /\ \A j \in 1..e - 1 : y[j].n < y[e].n + WS
             /\ y[e].n <= t + WS - 2 \/ \E j \in 1..e - 1 : y[e].n <= y[j].n + WS - 2
    <3>1. PICK n \in Nat : n = y[e].n
      BY <2>1, <1>2
    <3>2. n <= v.got + WS
      BY <3>1, <2>4, <1>3
    <3>3. h < n + WS
      <4>1. 1 \in 1..e - 1
        BY <2>1
      <4>2. y[1].n < n + WS /\ t < n + WS
        BY <4>1, <3>1, <2>4
      <4>3. QED
        BY <4>2
    <3>4. ASSUME NEW j \in 1..i - 1 PROVE Tail(y)[j].n < n + WS
      <4>1. j + 1 \in 1..e - 1 /\ Tail(y)[j] = y[j + 1]
        BY <2>1, <1>1
      <4>2. QED
        BY <4>1, <3>1, <2>4
    <3>5. n <= h + WS - 2 \/ \E j \in 1..i - 1 : n <= Tail(y)[j].n + WS - 2
      <4>1. CASE n <= t + WS - 2
        BY <4>1, <1>3
      <4>2. CASE \E j \in 1..e - 1 : n <= y[j].n + WS - 2
        <5>1. PICK j \in 1..e - 1 : n <= y[j].n + WS - 2
          BY <4>2
        <5>2. CASE j = 1
          BY <5>1, <5>2, <1>3, <1>4
        <5>3. CASE j # 1
          <6>1. PICK f \in 1..i - 1 : f = j - 1 /\ f + 1 = j
            BY <5>3, <2>1
          <6>2. Tail(y)[f] = y[j]
            BY <6>1, <1>1
          <6>3. QED
            BY <6>1, <6>2, <5>1
        <5>4. QED
          BY <5>2, <5>3
      <4>3. QED
        BY <4>1, <4>2, <3>1, <2>4
    <3>6. QED
      BY <3>1, <3>2, <3>3, <3>4, <3>5, <2>1, <2>4 DEF Coming
  <2>5. QED
    BY <2>2, <2>3, <2>4 DEF Coming
<1>6. Transmitter(p, Tail(y), v.got, h)
  <2>1. p.va <= u.got + 1 /\ p.va <= p.vs /\ p.vs <= p.va + WS
    BY DEF Linked, Transmitter
  <2>2. p.va <= v.got + 1
    BY <2>1, <1>3 DEF PhoneFields
  <2>3. ASSUME p.on PROVE h < p.vs /\ \A i \in 1..k : Tail(y)[i].n < p.vs
    <3>1. t < p.vs /\ \A i \in 1..k + 1 : y[i].n < p.vs
      BY <2>3, <1>1 DEF Linked, Transmitter
    <3>2. h < p.vs
      BY <3>1, <1>4
    <3>3. \A i \in 1..k : i + 1 \in 1..k + 1
      OBVIOUS
    <3>4. QED
      BY <3>1, <3>2, <3>3, <1>1
  <2>4. QED
    BY <2>1, <2>2, <2>3, <1>1 DEF Transmitter
<1>7. ASSUME p.on PROVE Sends(p, Tail(y), h)
  <2>1. p.vs \in Nat
    BY DEF PhoneFields
  <2>2. CASE p.vs <= t + WS - 2
    <3>1. p.vs <= h + WS - 2
      BY <2>1, <2>2, <1>3
    <3>2. QED
      BY <3>1 DEF Sends
  <2>3. CASE \E i \in 1..k + 1 : p.vs <= y[i].n + WS - 2
    <3>1. PICK i \in 1..k + 1 : p.vs <= y[i].n + WS - 2
      BY <2>3
    <3>2. CASE i = 1
      <4>1. p.vs <= h + WS - 2
        BY <3>1, <3>2, <2>1, <1>3, <1>4
      <4>2. QED
        BY <4>1 DEF Sends
    <3>3. CASE i # 1
      <4>1. PICK f \in 1..k : f = i - 1 /\ f + 1 = i
        BY <3>3
      <4>2. Tail(y)[f] = y[i]
        BY <4>1, <1>1
      <4>3. QED
        BY <4>2, <3>1, <1>1 DEF Sends
    <3>4. QED
      BY <3>2, <3>3
  <2>4. QED
    BY <2>2, <2>3, <1>1, <1>7 DEF Linked, Sends
<1>8. QED
  BY <1>1, <1>5, <1>6, <1>7 DEF Linked

(* The invariant after a step, from its parts.                              *)
LEMMA UpMade ==
  ASSUME up' \in UpFields, tbf' \in TbfFields, phone' \in PhoneFields,
         air' \in Seq(Up!Data), Len(air') <= Lag,
         NEW t \in Nat, Linked(up', phone', air', Alive', t)
  PROVE  UpInv'
<1>1. Up!TypeOK'
  BY UpTypesNext
<1>2. QED
  BY <1>1 DEF UpInv, Linked, Engine, Stocked, Kept, Tops, Transmitter, Coming, Sends

(* A block comes, of data or a dummy.                                       *)
LEMMA UpArriveKeeps == UpInv /\ Up!Arrive => UpInv'
<1> SUFFICES ASSUME UpInv, Up!Arrive PROVE UpInv'
  OBVIOUS
<1>1. /\ up \in UpFields /\ tbf \in TbfFields /\ phone \in PhoneFields
      /\ air \in Seq(Up!Data) /\ Len(air) <= Lag
  BY UpTypes DEF UpInv
<1>2. air # <<>> /\ air' = Tail(air) /\ phone' = phone /\ tbf.state # "Dead"
  BY DEF Up!Arrive
<1>3. PICK t \in Nat : Linked(up, phone, air, TRUE, t)
  BY <1>2 DEF UpInv, Alive
<1>4. air' \in Seq(Up!Data) /\ Len(air') <= Lag
  <2>1. Tail(air) \in Seq(Up!Data) /\ Len(Tail(air)) = Len(air) - 1 /\ Len(air) \in Nat
    BY <1>1, <1>2
  <2>2. QED
    BY <2>1, <1>1, <1>2, UpAssumption
<1>5. PICK b : b = Head(air) /\ b = air[1] /\ b \in Up!Data /\ 1 \in 1..Len(air)
  BY <1>1, <1>2
<1>6. Coming(air, 1, up.got, t)
  BY <1>3, <1>5 DEF Linked
<1>7. SUFFICES ASSUME TRUE
               PROVE  /\ up' \in UpFields /\ tbf' \in TbfFields /\ Alive'
                      /\ \E h \in Nat : /\ Engine(up', h) /\ up.got <= up'.got
                                        /\ t <= h /\ b.n <= h /\ (h = t \/ h = b.n)
  <2>1. PICK h \in Nat : /\ Engine(up', h) /\ up.got <= up'.got
                         /\ t <= h /\ air[1].n <= h /\ (h = t \/ h = air[1].n)
    BY <1>5, <1>7
  <2>2. Linked(up', phone, Tail(air), TRUE, h)
    BY <2>1, <1>1, <1>2, <1>3, <1>7, TailKeeps
  <2>3. Linked(up', phone', air', Alive', h)
    BY <2>2, <1>2, <1>7 DEF Linked
  <2>4. QED
    BY <2>3, <1>1, <1>2, <1>4, <1>7, UpMade
<1>8. CASE b = Up!Dummy
  <2>1. tbf' = [tbf EXCEPT !.n3101 = 0] /\ up' = [up EXCEPT !.early = Up!OneLess(@)]
    BY <1>5, <1>8 DEF Up!Arrive
  <2>2. Up!OneLess(up.early) \in 0..Lag
    BY <1>1, UpAssumption DEF UpFields, Up!OneLess
  <2>3. /\ up' \in UpFields /\ up'.vr = up.vr /\ up'.vq = up.vq /\ up'.vn = up.vn
        /\ up'.rxq = up.rxq /\ up'.got = up.got /\ up'.heard = up.heard
    BY <2>1, <2>2, <1>1 DEF UpFields
  <2>4. tbf' \in TbfFields /\ Alive'
    BY SMTT(20), <2>1, <1>1, <1>2, UpAssumption DEF TbfFields, Alive
  <2>5. Engine(up', t)
    BY <2>3, <1>3 DEF Linked, Engine, Stocked, Kept
  <2>6. b.n = 0 /\ up.got <= up'.got
    BY <2>3, <1>1, <1>8 DEF Up!Dummy, UpFields, UpNumbers
  <2>7. QED
    BY <2>3, <2>4, <2>5, <2>6
<1>9. CASE b # Up!Dummy
  <2>1. PICK n \in 1..UpBlocks :
          /\ n = b.n /\ b.bsn = Wrap(n - 1) /\ n <= up.got + WS /\ t < n + WS /\ n <= t + WS - 2
    BY <1>5, <1>6, <1>9 DEF Coming
  <2>2. Up!RecvDataBlock(b)
    BY <1>5, <1>9 DEF Up!Arrive
  <2>3. PICK u, v, w :
          /\ u = Up!Stored(b)
          /\ v = IF Up!IsAhead(u, b.bsn) THEN Up!MoveVR(u, b.bsn) ELSE u
          /\ w = Up!AdvanceWindow(v)
          /\ up' = w
          /\ tbf' = [tbf EXCEPT !.n3101 = 0, !.state = IF w.state = "Finished" THEN "DataFinal" ELSE @]
    BY <2>2 DEF Up!RecvDataBlock
  <2>4. PICK x \in 0..Lag, y \in 0..UpPerAck :
          /\ x = Up!OneLess(up.early)
          /\ y = IF up.sinceAck < UpPerAck THEN up.sinceAck + 1 ELSE UpPerAck
    BY <1>1, UpAssumption DEF UpFields, Up!OneLess
  <2>5. u = [up EXCEPT !.vn[b.bsn] = TRUE, !.rxq[b.bsn] = b.n, !.heard = @ \cup {b.n},
                       !.stalled = b.si, !.early = x, !.sinceAck = y]
    BY <2>3, <2>4, <1>1 DEF Up!Stored, Up!Store, UpFields
  <2>6. Wrap(n - 1) \in BSNs /\ n \in UpNumbers /\ b.si \in BOOLEAN
    <3>1. Wrap(n - 1) \in BSNs
      BY WrapIs
    <3>2. n \in UpNumbers
      BY UpAssumption DEF UpNumbers
    <3>3. b.si \in BOOLEAN
      BY <1>5 DEF Up!Data
    <3>4. QED
      BY <3>1, <3>2, <3>3
  <2>7. /\ [up.vn EXCEPT ![Wrap(n - 1)] = TRUE] \in [BSNs -> BOOLEAN]
        /\ [up.rxq EXCEPT ![Wrap(n - 1)] = n] \in [BSNs -> UpNumbers]
        /\ up.heard \cup {n} \in SUBSET (1..UpBlocks)
    BY <2>6, <1>1 DEF UpFields
  <2>8. u = [up EXCEPT !.vn = [up.vn EXCEPT ![Wrap(n - 1)] = TRUE],
                       !.rxq = [up.rxq EXCEPT ![Wrap(n - 1)] = n], !.heard = up.heard \cup {n},
                       !.stalled = b.si, !.early = x, !.sinceAck = y]
    BY <2>1, <2>5, <1>1 DEF UpFields
  <2>9. /\ u \in UpFields /\ u.vr = up.vr /\ u.vq = up.vq /\ u.got = up.got
        /\ u.heard = up.heard \cup {n} /\ u.vn = [up.vn EXCEPT ![Wrap(n - 1)] = TRUE]
        /\ u.rxq = [up.rxq EXCEPT ![Wrap(n - 1)] = n]
    BY <2>6, <2>7, <2>8, <1>1 DEF UpFields
  <2>10. Engine(up, t)
    BY <1>3 DEF Linked
  <2>11. v = IF Up!IsAhead(u, Wrap(n - 1)) THEN Up!MoveVR(u, Wrap(n - 1)) ELSE u
    BY <2>1, <2>3
  <2>12. \E i \in Nat : /\ w \in UpFields /\ Engine(w, i) /\ up.got <= w.got
                        /\ t <= i /\ n <= i /\ (i = t \/ i = n)
    <3>1. /\ up \in UpFields /\ Engine(up, t) /\ n <= up.got + WS /\ t < n + WS /\ n <= t + WS - 2
          /\ w = Up!AdvanceWindow(v)
      BY <2>1, <2>3, <2>10, <1>1
    <3>2. QED
      BY <3>1, <2>9, <2>11, ReceivedKeeps
  <2>13. tbf' \in TbfFields /\ Alive'
    <3>1. PICK st : st = IF w.state = "Finished" THEN "DataFinal" ELSE tbf.state
      OBVIOUS
    <3>2. st \in {"DataTransmit", "DataFinal", "Finished", "Dead"} /\ st # "Dead"
      BY <3>1, <1>1, <1>2 DEF TbfFields
    <3>3. tbf' = [tbf EXCEPT !.n3101 = 0, !.state = st]
      BY <2>3, <3>1, <1>1 DEF TbfFields
    <3>4. 0 \in 0..N3101Max + 1
      BY UpAssumption
    <3>5. QED
      BY <3>2, <3>3, <3>4, <1>1 DEF TbfFields, Alive
  <2>14. QED
    BY <2>1, <2>3, <2>12, <2>13
<1>10. QED
  BY <1>8, <1>9

(* A block of the window again, or the next one, is on its way.             *)
LEMMA LinkedBlock ==
  ASSUME NEW u \in UpFields, NEW p \in PhoneFields, NEW y \in Seq(Up!Data), NEW t \in Nat,
         Linked(u, p, y, TRUE, t), p.on, NEW n \in Nat, p.va <= n, n <= p.vs, n < p.va + WS,
         n \in 1..UpBlocks, NEW b \in Up!Data, b.n = n, b.bsn = Wrap(n - 1),
         NEW q \in PhoneFields, q.va = p.va, q.on = p.on,
         q.vs = IF n < p.vs THEN p.vs ELSE p.vs + 1
  PROVE  Linked(u, q, Append(y, b), TRUE, t)
<1>1. u.got \in Nat /\ WS \in Nat /\ WS >= 4 /\ p.va \in Nat /\ p.vs \in Nat
  BY WindowAssumption DEF UpFields, UpNumbers, PhoneFields
<1>2. PICK k \in Nat : /\ k = Len(y) /\ Len(Append(y, b)) = k + 1 /\ Append(y, b)[k + 1] = b
                       /\ \A i \in 1..k : Append(y, b)[i] = y[i]
  BY Sizes
<1>3. \A i \in 1..k : y[i].n \in Nat
  <2>1. ASSUME NEW i \in 1..k PROVE y[i].n \in Nat
    <3>1. y[i] \in Up!Data
      BY <1>2
    <3>2. y[i].n \in 0..UpBlocks
      BY <3>1 DEF Up!Data, Up!Numbers
    <3>3. QED
      BY <3>2
  <2>2. QED
    BY <2>1
<1>4. /\ p.va <= u.got + 1 /\ p.va <= p.vs /\ p.vs <= p.va + WS
      /\ t < p.vs /\ \A i \in 1..k : y[i].n < p.vs
  BY <1>2 DEF Linked, Transmitter
<1>5. Sends(p, y, t)
  BY DEF Linked
<1>6. p.vs <= t + WS - 2 \/ \E i \in 1..k : p.vs <= y[i].n + WS - 2
  BY <1>2, <1>5 DEF Sends
<1>7. n <= u.got + WS /\ t < n + WS /\ \A i \in 1..k : y[i].n < n + WS
  <2>1. n <= u.got + WS /\ t < n + WS
    BY <1>1, <1>4
  <2>2. ASSUME NEW i \in 1..k PROVE y[i].n < n + WS
    <3>1. y[i].n \in Nat /\ y[i].n < p.vs
      BY <1>3, <1>4
    <3>2. QED
      BY SMTT(20), <3>1, <1>1, <1>4
  <2>3. QED
    BY <2>1, <2>2
<1>8. n <= t + WS - 2 \/ \E i \in 1..k : n <= y[i].n + WS - 2
  <2>1. CASE p.vs <= t + WS - 2
    BY <2>1, <1>1
  <2>2. CASE \E i \in 1..k : p.vs <= y[i].n + WS - 2
    <3>1. PICK i \in 1..k : p.vs <= y[i].n + WS - 2
      BY <2>2
    <3>2. y[i].n \in Nat
      BY <1>3
    <3>3. n <= y[i].n + WS - 2
      BY <3>1, <3>2, <1>1
    <3>4. QED
      BY <3>3
  <2>3. QED
    BY <2>1, <2>2, <1>6
<1>9. Coming(Append(y, b), k + 1, u.got, t)
  <2>1. \A i \in 1..(k + 1) - 1 : i \in 1..k /\ Append(y, b)[i] = y[i]
    BY <1>2
  <2>2. \A i \in 1..(k + 1) - 1 : Append(y, b)[i].n < n + WS
    BY <2>1, <1>7
  <2>3. n <= t + WS - 2 \/ \E i \in 1..(k + 1) - 1 : n <= Append(y, b)[i].n + WS - 2
    <3>1. \A i \in 1..k : i \in 1..(k + 1) - 1
      OBVIOUS
    <3>2. QED
      BY <3>1, <2>1, <1>8
  <2>4. QED
    BY <2>2, <2>3, <1>2, <1>7 DEF Coming
<1>10. q.vs \in Nat /\ p.vs <= q.vs /\ n < q.vs /\ p.va <= q.vs /\ q.vs <= p.va + WS
  BY <1>1, <1>4
<1>11. Transmitter(q, y, u.got, t)
  <2>1. t < q.vs
    BY <1>1, <1>4, <1>10
  <2>2. ASSUME NEW i \in 1..k PROVE y[i].n < q.vs
    <3>1. y[i].n \in Nat /\ y[i].n < p.vs
      BY <1>3, <1>4
    <3>2. QED
      BY <3>1, <1>1, <1>10
  <2>3. QED
    BY <2>1, <2>2, <1>2, <1>4, <1>10 DEF Transmitter
<1>12. Sends(q, Append(y, b), t)
  <2>1. CASE n = p.vs
    <3>1. q.vs <= n + WS - 2
      BY <2>1, <1>1
    <3>2. k + 1 \in 1..k + 1
      OBVIOUS
    <3>3. QED
      BY <3>1, <3>2, <1>2 DEF Sends
  <2>2. CASE n # p.vs
    <3>1. q.vs = p.vs
      BY <2>2, <1>1
    <3>2. \A i \in 1..k : i \in 1..k + 1 /\ Append(y, b)[i] = y[i]
      BY <1>2
    <3>3. QED
      BY <3>1, <3>2, <1>2, <1>6 DEF Sends
  <2>3. QED
    BY <2>1, <2>2
<1>13. QED
  BY <1>2, <1>9, <1>10, <1>11, <1>12, LinkedSaid

(* A dummy is on its way.                                                   *)
LEMMA LinkedDummy ==
  ASSUME NEW u \in UpFields, NEW p \in PhoneFields, NEW y \in Seq(Up!Data), NEW t \in Nat,
         Linked(u, p, y, TRUE, t)
  PROVE  Up!Dummy \in Up!Data /\ Linked(u, p, Append(y, Up!Dummy), TRUE, t)
<1>1. Up!Dummy \in Up!Data /\ Up!Dummy.n = 0
  BY UpAssumption, Sizes, SameWindow DEF Up!Dummy, Up!Data, Up!Numbers
<1>2. PICK k \in Nat : /\ k = Len(y) /\ Len(Append(y, Up!Dummy)) = k + 1
                       /\ Append(y, Up!Dummy)[k + 1] = Up!Dummy
                       /\ \A i \in 1..k : Append(y, Up!Dummy)[i] = y[i]
  BY <1>1
<1>3. Coming(Append(y, Up!Dummy), k + 1, u.got, t)
  BY <1>1, <1>2 DEF Coming
<1>4. Transmitter(p, y, u.got, t) /\ 0 < p.vs
  BY DEF Linked, PhoneFields
<1>5. ASSUME p.on PROVE Sends(p, Append(y, Up!Dummy), t)
  <2>1. \A i \in 1..k : i \in 1..k + 1 /\ Append(y, Up!Dummy)[i] = y[i]
    BY <1>2
  <2>2. QED
    BY <2>1, <1>2, <1>5 DEF Linked, Sends
<1>6. QED
  BY <1>1, <1>2, <1>3, <1>4, <1>5, LinkedSaid

(* The next block is lost, when MayBeLost.                                  *)
LEMMA LinkedLost ==
  ASSUME NEW u \in UpFields, NEW p \in PhoneFields, NEW y \in Seq(Up!Data), NEW t \in Nat,
         Linked(u, p, y, TRUE, t), p.on, p.vs < p.va + WS, p.vs <= t + WS - 3,
         NEW q \in PhoneFields, q.va = p.va, q.on = p.on, q.vs = p.vs + 1
  PROVE  Linked(u, q, y, TRUE, t)
<1>1. u.got \in Nat /\ WS \in Nat /\ WS >= 4 /\ p.va \in Nat /\ p.vs \in Nat
  BY WindowAssumption DEF UpFields, UpNumbers, PhoneFields
<1>2. /\ p.va <= u.got + 1 /\ p.va <= p.vs /\ p.vs <= p.va + WS
      /\ t < p.vs /\ \A i \in 1..Len(y) : y[i].n < p.vs
  BY DEF Linked, Transmitter
<1>3. ASSUME NEW i \in 1..Len(y) PROVE y[i].n < p.vs + 1
  <2>1. y[i] \in Up!Data /\ y[i].n < p.vs
    BY <1>2
  <2>2. y[i].n \in 0..UpBlocks
    BY <2>1 DEF Up!Data, Up!Numbers
  <2>3. QED
    BY <2>1, <2>2, <1>1
<1>4. p.va <= p.vs + 1 /\ p.vs + 1 <= p.va + WS /\ t < p.vs + 1 /\ p.vs + 1 <= t + WS - 2
  BY <1>1, <1>2
<1>5. Transmitter(q, y, u.got, t)
  BY <1>2, <1>3, <1>4 DEF Transmitter
<1>6. Sends(q, y, t)
  BY <1>4 DEF Sends
<1>7. QED
  BY <1>5, <1>6 DEF Linked

(* The handset has its turn.                                                *)
LEMMA UpGrantKeeps == UpInv /\ Up!Grant => UpInv'
<1> SUFFICES ASSUME UpInv, Up!Grant PROVE UpInv'
  OBVIOUS
<1>1. /\ up \in UpFields /\ tbf \in TbfFields /\ phone \in PhoneFields
      /\ air \in Seq(Up!Data) /\ Len(air) <= Lag
  BY UpTypes DEF UpInv
<1>2. /\ tbf.state = "DataTransmit" /\ ~Up!NotThere /\ Len(air) < Lag
      /\ tbf' = [tbf EXCEPT !.n3101 = @ + 1] /\ up' = [up EXCEPT !.usf = TRUE]
  BY DEF Up!Grant
<1>3. PICK t \in Nat : Linked(up, phone, air, TRUE, t)
  BY <1>2 DEF UpInv, Alive
<1>4. /\ up' \in UpFields /\ up'.vr = up.vr /\ up'.vq = up.vq /\ up'.vn = up.vn
      /\ up'.rxq = up.rxq /\ up'.got = up.got /\ up'.heard = up.heard
  BY <1>1, <1>2 DEF UpFields
<1>5. tbf' \in TbfFields /\ Alive' = TRUE
  <2>1. tbf.n3101 + 1 \in 0..N3101Max + 1
    BY <1>1, <1>2, UpAssumption DEF TbfFields, Up!NotThere
  <2>2. QED
    BY <2>1, <1>1, <1>2 DEF TbfFields, Alive
<1>6. ASSUME NEW q \in PhoneFields, NEW x \in Seq(Up!Data), Len(x) <= Lag, phone' = q, air' = x,
             Linked(up, q, x, TRUE, t)
      PROVE  UpInv'
  <2>1. Linked(up', q, x, TRUE, t)
    BY <1>4, <1>6, LinkedSame
  <2>2. Linked(up', phone', air', Alive', t)
    BY <2>1, <1>5, <1>6
  <2>3. QED
    BY <2>2, <1>4, <1>5, <1>6, UpMade
<1>7. CASE UNCHANGED <<air, phone>>
  BY <1>1, <1>3, <1>6, <1>7
<1>8. CASE /\ phone.on
           /\ \E a \in Up!Answers :
                /\ phone' = a.phone
                /\ air' = Append(air, a.block) \/ (air' = air /\ Up!MayBeLost(a.block))
  <2>1. PICK a \in Up!Answers :
          /\ phone' = a.phone
          /\ air' = Append(air, a.block) \/ (air' = air /\ Up!MayBeLost(a.block))
    BY <1>8
  <2>2. \A b \in Up!Data : Append(air, b) \in Seq(Up!Data) /\ Len(Append(air, b)) <= Lag
    <3>1. ASSUME NEW b \in Up!Data PROVE Append(air, b) \in Seq(Up!Data) /\ Len(Append(air, b)) <= Lag
      <4>1. Append(air, b) \in Seq(Up!Data) /\ Len(Append(air, b)) = Len(air) + 1 /\ Len(air) \in Nat
        BY <1>1
      <4>2. QED
        BY <4>1, <1>2, UpAssumption
    <3>2. QED
      BY <3>1
  <2>3. /\ phone.va \in 1..UpBlocks + 1 /\ phone.vs \in 1..UpBlocks + 1
        /\ phone.vs <= phone.va + WS /\ WS \in Nat /\ UpBlocks \in Nat
    BY <1>1, <1>3, WindowAssumption, UpAssumption DEF PhoneFields, Linked, Transmitter
  <2>4. ASSUME NEW n \in 1..UpBlocks, NEW full \in BOOLEAN
        PROVE  /\ Up!Block(n, full) \in Up!Data /\ Up!Block(n, full).n = n
               /\ Up!Block(n, full).bsn = Wrap(n - 1)
    <3>1. Up!BSN(n) = Wrap(n - 1) /\ Wrap(n - 1) \in Up!BSNs
      BY WrapIs, SameWindow
    <3>2. n \in Up!Numbers
      BY UpAssumption DEF Up!Numbers
    <3>3. QED
      BY <3>1, <3>2 DEF Up!Block, Up!Data
  <2>5. \/ \E n \in phone.va..phone.vs - 1 : a = Up!Says(Up!Block(n, Up!Full), phone)
        \/ a = Up!MakeNew /\ ~Up!Full /\ Up!MayMake
        \/ a = Up!Says(Up!Dummy, phone)
    BY DEF Up!Answers
  <2>6. CASE \E n \in phone.va..phone.vs - 1 : a = Up!Says(Up!Block(n, Up!Full), phone)
    <3>1. PICK n \in phone.va..phone.vs - 1 : a = Up!Says(Up!Block(n, Up!Full), phone)
      BY <2>6
    <3>2. PICK b : b = Up!Block(n, Up!Full)
      OBVIOUS
    <3>3. a.phone = phone /\ a.block = b
      BY <3>1, <3>2 DEF Up!Says
    <3>4. n \in 1..UpBlocks /\ n \in Nat /\ phone.va <= n /\ n < phone.vs /\ n <= phone.vs /\ n < phone.va + WS
      BY <2>3
    <3>5. b \in Up!Data /\ b.n = n /\ b.bsn = Wrap(n - 1)
      <4>1. Up!Full \in BOOLEAN
        BY DEF Up!Full
      <4>2. QED
        BY <4>1, <3>2, <3>4, <2>4
    <3>6. Linked(up, phone, Append(air, b), TRUE, t)
      BY <3>4, <3>5, <1>1, <1>3, <1>8, LinkedBlock
    <3>7. CASE air' = air
      BY <3>3, <3>7, <2>1, <1>1, <1>3, <1>6
    <3>8. CASE air' = Append(air, b)
      BY <3>3, <3>5, <3>6, <3>8, <2>1, <2>2, <1>1, <1>6
    <3>9. QED
      BY <3>3, <3>7, <3>8, <2>1
  <2>7. CASE a = Up!MakeNew /\ ~Up!Full /\ Up!MayMake
    <3>1. PICK n \in Nat : n = phone.vs /\ n \in 1..UpBlocks /\ n < phone.va + WS /\ phone.va <= n
      <4>1. phone.vs <= UpBlocks /\ phone.vs # phone.va + WS
        BY <2>7 DEF Up!MayMake, Up!Full
      <4>2. phone.va <= phone.vs
        BY <1>3 DEF Linked, Transmitter
      <4>3. QED
        BY <4>1, <4>2, <2>3
    <3>0. PICK full \in BOOLEAN : full = (phone.vs + 1 = phone.va + WS)
      OBVIOUS
    <3>2. PICK b, q : b = Up!Block(n, full) /\ q = [phone EXCEPT !.vs = @ + 1]
      OBVIOUS
    <3>3. a.phone = q /\ a.block = b
      BY <3>0, <3>1, <3>2, <2>7 DEF Up!MakeNew, Up!Says
    <3>4. b \in Up!Data /\ b.n = n /\ b.bsn = Wrap(n - 1)
      BY <3>0, <3>1, <3>2, <2>4
    <3>5. q \in PhoneFields /\ q.va = phone.va /\ q.on = phone.on /\ q.vs = phone.vs + 1
      <4>1. phone.vs + 1 \in 1..UpBlocks + 1
        BY <3>1, <2>3
      <4>2. QED
        BY <4>1, <3>2, <1>1 DEF PhoneFields
    <3>6. CASE air' = Append(air, b)
      <4>1. q.vs = IF n < phone.vs THEN phone.vs ELSE phone.vs + 1
        BY <3>1, <3>5
      <4>2. n <= phone.vs
        BY <3>1
      <4>3. Linked(up, q, Append(air, b), TRUE, t)
        BY <4>1, <4>2, <3>1, <3>4, <3>5, <1>1, <1>3, <1>8, LinkedBlock
      <4>4. QED
        BY <4>3, <3>3, <3>4, <3>5, <3>6, <2>1, <2>2, <1>6
    <3>7. CASE air' = air /\ Up!MayBeLost(b)
      <4>1. Tops(up.heard, t) /\ up.heard \in SUBSET (1..UpBlocks)
        BY <1>1, <1>3 DEF Linked, Engine, Stocked, UpFields
      <4>2. Up!Newest = t
        BY <4>1, NewestIs
      <4>3. phone.vs <= t + WS - 3 /\ phone.vs < phone.va + WS
        BY <4>2, <3>1, <3>4, <3>7 DEF Up!MayBeLost
      <4>4. Linked(up, q, air, TRUE, t)
        BY <4>3, <3>5, <1>1, <1>3, <1>8, LinkedLost
      <4>5. QED
        BY <4>4, <3>3, <3>5, <3>7, <2>1, <1>1, <1>6
    <3>8. QED
      BY <3>3, <3>6, <3>7, <2>1
  <2>8. CASE a = Up!Says(Up!Dummy, phone)
    <3>1. a.phone = phone /\ a.block = Up!Dummy
      BY <2>8 DEF Up!Says
    <3>2. Up!Dummy \in Up!Data /\ Linked(up, phone, Append(air, Up!Dummy), TRUE, t)
      BY <1>1, <1>3, LinkedDummy
    <3>3. CASE air' = air
      BY <3>1, <3>3, <2>1, <1>1, <1>3, <1>6
    <3>4. CASE air' = Append(air, Up!Dummy)
      BY <3>1, <3>2, <3>4, <2>1, <2>2, <1>1, <1>6
    <3>5. QED
      BY <3>1, <3>3, <3>4, <2>1
  <2>9. QED
    BY <2>5, <2>6, <2>7, <2>8
<1>9. QED
  BY <1>7, <1>8 DEF Up!Grant

(* A step that leaves the window of the engine alone.                       *)
LEMMA UpActKeeps ==
  ASSUME UpInv, NEW t \in Nat, Linked(up, phone, air, Alive, t),
         up' \in UpFields, tbf' \in TbfFields,
         up'.vr = up.vr, up'.vq = up.vq, up'.vn = up.vn, up'.rxq = up.rxq, up'.got = up.got,
         up'.heard = up.heard,
         \/ air' = air /\ (Alive' => Alive)
         \/ air' = <<>> /\ ~Alive',
         \/ phone' = phone
         \/ phone' = Up!Off
         \/ phone' = Up!HearsAck(up.vr, Up!Bitmap(up))
  PROVE  UpInv'
<1>1. up \in UpFields /\ phone \in PhoneFields /\ air \in Seq(Up!Data) /\ Len(air) <= Lag
  BY UpTypes DEF UpInv
<1>2. Up!Off \in PhoneFields
  BY UpAssumption DEF Up!Off, PhoneFields
<1>3. phone' \in PhoneFields /\ Linked(up, phone', air, Alive, t)
  BY <1>1, <1>2, LinkedOff, LinkedAck
<1>4. CASE air' = air /\ (Alive' => Alive)
  <2>1. Linked(up', phone', air, Alive', t)
    BY <1>3, <1>4, LinkedSame
  <2>2. QED
    BY <2>1, <1>1, <1>3, <1>4, UpMade
<1>5. CASE air' = <<>> /\ ~Alive'
  <2>1. Linked(up, phone', <<>>, FALSE, t)
    BY <1>3, LinkedSilent
  <2>2. Linked(up', phone', <<>>, FALSE, t)
    BY <2>1, LinkedSame
  <2>3. Alive' = FALSE
    BY <1>5 DEF Alive
  <2>4. <<>> \in Seq(Up!Data) /\ Len(<<>>) <= Lag
    BY UpAssumption
  <2>5. Linked(up', phone', air', Alive', t)
    BY <2>2, <2>3, <1>5
  <2>6. QED
    BY <2>4, <2>5, <1>3, <1>5, UpMade
<1>6. QED
  BY <1>4, <1>5

(* The acknowledgements, timers and ends.                                   *)
LEMMA UpRestKeeps ==
  /\ UpInv
  /\ \/ Up!N3101Expires \/ Up!SendAck \/ Up!PersistExpires \/ Up!PersistEnds \/ Up!Close
     \/ Up!PollPasses \/ Up!FinalAcked \/ Up!FinalPasses \/ Up!NonResponsive \/ Up!Leaves
  => UpInv'
<1> SUFFICES ASSUME UpInv,
                    \/ Up!N3101Expires \/ Up!SendAck \/ Up!PersistExpires \/ Up!PersistEnds \/ Up!Close
                    \/ Up!PollPasses \/ Up!FinalAcked \/ Up!FinalPasses \/ Up!NonResponsive \/ Up!Leaves
             PROVE  UpInv'
  OBVIOUS
<1>1. /\ up \in UpFields /\ tbf \in TbfFields /\ phone \in PhoneFields
      /\ air \in Seq(Up!Data) /\ Len(air) <= Lag
  BY UpTypes DEF UpInv
<1>2. PICK t \in Nat : Linked(up, phone, air, Alive, t)
  BY DEF UpInv
<1>3. CASE Up!N3101Expires
  <2>1. up' = up /\ phone' = phone /\ air' = <<>> /\ tbf' = [tbf EXCEPT !.state = "Dead"]
    BY <1>3 DEF Up!N3101Expires
  <2>2. tbf' \in TbfFields /\ ~Alive'
    BY <2>1, <1>1 DEF TbfFields, Alive
  <2>3. QED
    BY <2>1, <2>2, <1>1, <1>2, UpActKeeps
<1>4. CASE Up!SendAck
  <2>1. /\ up' = [up EXCEPT !.usf = FALSE, !.sinceAck = 0] /\ air' = air
        /\ phone' = phone \/ phone' = Up!HearsAck(up.vr, Up!Bitmap(up))
        /\ tbf' = tbf \/ tbf' = [tbf EXCEPT !.poll = TRUE]
    BY <1>4 DEF Up!SendAck
  <2>2. /\ up' \in UpFields /\ up'.vr = up.vr /\ up'.vq = up.vq /\ up'.vn = up.vn
        /\ up'.rxq = up.rxq /\ up'.got = up.got /\ up'.heard = up.heard
    <3>1. up' = [up EXCEPT !.usf = FALSE, !.sinceAck = 0] /\ 0 \in 0..UpPerAck
      BY <2>1, UpAssumption
    <3>2. QED
      BY <3>1, <1>1 DEF UpFields
  <2>3. tbf' \in TbfFields /\ (Alive' => Alive)
    BY <2>1, <1>1 DEF TbfFields, Alive
  <2>4. QED
    BY <2>1, <2>2, <2>3, <1>2, UpActKeeps
<1>5. CASE Up!PersistExpires
  <2>1. up' = [up EXCEPT !.state = "PersistFinal", !.early = Len(air)] /\ UNCHANGED <<tbf, air, phone>>
    BY <1>5 DEF Up!PersistExpires
  <2>2. Len(air) \in 0..Lag
    BY <1>1, UpAssumption
  <2>3. /\ up' \in UpFields /\ up'.vr = up.vr /\ up'.vq = up.vq /\ up'.vn = up.vn
        /\ up'.rxq = up.rxq /\ up'.got = up.got /\ up'.heard = up.heard
    BY <2>1, <2>2, <1>1 DEF UpFields
  <2>4. Alive' => Alive
    BY <2>1 DEF Alive
  <2>5. QED
    BY <2>1, <2>3, <2>4, <1>1, <1>2, UpActKeeps
<1>6. CASE Up!PersistEnds
  <2>1. /\ up' = [up EXCEPT !.state = "Finished"] /\ UNCHANGED <<air, phone>>
        /\ tbf' = [tbf EXCEPT !.state = "DataFinal"] /\ Up!Serviced
    BY <1>6 DEF Up!PersistEnds
  <2>2. /\ up' \in UpFields /\ up'.vr = up.vr /\ up'.vq = up.vq /\ up'.vn = up.vn
        /\ up'.rxq = up.rxq /\ up'.got = up.got /\ up'.heard = up.heard
    BY <2>1, <1>1 DEF UpFields
  <2>3. tbf' \in TbfFields /\ Alive
    BY <2>1, <1>1 DEF TbfFields, Alive, Up!Serviced
  <2>4. QED
    BY <2>1, <2>2, <2>3, <1>2, UpActKeeps
<1>7. CASE Up!SendFinalAck
  <2>1. /\ UNCHANGED <<up, air>> /\ tbf.n3103 <= N3103Max
        /\ phone' = phone \/ phone' = Up!Off
        /\ \E f \in {"out", "heard"} : tbf' = [tbf EXCEPT !.n3103 = @ + 1, !.final = f]
    BY <1>7 DEF Up!SendFinalAck
  <2>2. tbf.n3103 + 1 \in 0..N3103Max + 1
    BY <2>1, <1>1, UpAssumption DEF TbfFields
  <2>3. tbf' \in TbfFields /\ (Alive' => Alive)
    BY <2>1, <2>2, <1>1 DEF TbfFields, Alive
  <2>4. QED
    BY <2>1, <2>3, <1>1, <1>2, UpActKeeps
<1>8. CASE Up!Finish
  <2>1. /\ UNCHANGED <<up, phone>> /\ tbf.state = "DataFinal"
        /\ \/ tbf' = [tbf EXCEPT !.state = "Finished", !.final = "none"] /\ air' = air
           \/ tbf' = [tbf EXCEPT !.state = "Dead"] /\ air' = <<>>
    BY <1>8 DEF Up!Finish
  <2>2. tbf' \in TbfFields /\ Alive
    BY <2>1, <1>1 DEF TbfFields, Alive
  <2>3. air' = air \/ (air' = <<>> /\ ~Alive')
    BY <2>1, <1>1 DEF TbfFields, Alive
  <2>4. QED
    BY <2>1, <2>2, <2>3, <1>1, <1>2, UpActKeeps
<1>9. CASE Up!Detach \/ Up!NonResponsive
  <2>1. UNCHANGED <<up, phone>> /\ tbf' = [tbf EXCEPT !.state = "Dead"] /\ air' = <<>>
    BY <1>9 DEF Up!Detach, Up!NonResponsive
  <2>2. tbf' \in TbfFields /\ ~Alive'
    BY <2>1, <1>1 DEF TbfFields, Alive
  <2>3. QED
    BY <2>1, <2>2, <1>1, <1>2, UpActKeeps
<1>10. CASE Up!PollPasses
  <2>1. tbf' = [tbf EXCEPT !.poll = FALSE] /\ UNCHANGED <<up, air, phone>>
    BY <1>10 DEF Up!PollPasses
  <2>2. tbf' \in TbfFields /\ (Alive' => Alive)
    BY <2>1, <1>1 DEF TbfFields, Alive
  <2>3. QED
    BY <2>1, <2>2, <1>1, <1>2, UpActKeeps
<1>11. CASE Up!FinalAcked \/ Up!FinalPasses
  <2>1. PICK f \in {"acked", "none"} : tbf' = [tbf EXCEPT !.final = f] /\ UNCHANGED <<up, air, phone>>
    BY <1>11 DEF Up!FinalAcked, Up!FinalPasses
  <2>2. tbf' \in TbfFields /\ (Alive' => Alive)
    BY <2>1, <1>1 DEF TbfFields, Alive
  <2>3. QED
    BY <2>1, <2>2, <1>1, <1>2, UpActKeeps
<1>12. CASE Up!Leaves
  <2>1. phone' = Up!Off /\ UNCHANGED <<up, tbf, air>>
    BY <1>12 DEF Up!Leaves
  <2>2. Alive' => Alive
    BY <2>1 DEF Alive
  <2>3. QED
    BY <2>1, <2>2, <1>1, <1>2, UpActKeeps
<1>13. QED
  BY <1>3, <1>4, <1>5, <1>6, <1>7, <1>8, <1>9, <1>10, <1>11, <1>12 DEF Up!Close

(* Every step of an uplink TBF keeps the invariant.                         *)
LEMMA UpStep == UpInv /\ Up!Next => UpInv'
BY UpArriveKeeps, UpGrantKeeps, UpRestKeeps DEF Up!Next

(* A new uplink TBF.                                                        *)
LEMMA UpBegins == Up!Init => UpInv
<1> SUFFICES ASSUME Up!Init PROVE UpInv
  OBVIOUS
<1>1. /\ up = [vr |-> 0, vq |-> 0, vn |-> [b \in Up!BSNs |-> FALSE], rxq |-> [b \in Up!BSNs |-> 0],
               state |-> "Transmit", stalled |-> FALSE, sinceAck |-> 0, usf |-> FALSE,
               early |-> 0, got |-> 0, heard |-> {}]
      /\ tbf = [state |-> "DataTransmit", n3101 |-> 0, n3103 |-> 0, poll |-> FALSE, final |-> "none"]
      /\ air = <<>> /\ phone = [on |-> TRUE, va |-> 1, vs |-> 1]
  BY DEF Up!Init
<1>2. 0 \in BSNs /\ 0 \in UpNumbers /\ 0 \in 0..Lag /\ 0 \in 0..UpPerAck
  BY Sizes, UpAssumption DEF UpNumbers
<1>3. up \in UpFields
  <2>1. [b \in Up!BSNs |-> FALSE] \in [BSNs -> BOOLEAN] /\ [b \in Up!BSNs |-> 0] \in [BSNs -> UpNumbers]
    BY <1>2, SameWindow
  <2>2. QED
    BY <2>1, <1>1, <1>2 DEF UpFields
<1>4. tbf \in TbfFields /\ phone \in PhoneFields
  BY <1>1, UpAssumption DEF TbfFields, PhoneFields
<1>5. air \in Seq(Up!Data) /\ Len(air) = 0 /\ Len(air) <= Lag /\ 1..Len(air) = {}
  BY <1>1, UpAssumption
<1>6. Wrap(0) = 0
  BY <1>2, WrapSmall
<1>7. Engine(up, 0)
  <2>1. /\ up.vr = 0 /\ up.vq = 0 /\ up.got = 0 /\ up.heard = {}
        /\ \A b \in BSNs : ~up.vn[b] /\ up.rxq[b] = 0
    BY <1>1, SameWindow
  <2>2. QED
    BY <2>1, <1>6, WindowAssumption DEF Engine, Stocked, Kept, Tops
<1>8. up.got = 0 /\ phone.va = 1 /\ phone.vs = 1
  BY <1>1
<1>9. Linked(up, phone, air, Alive, 0)
  BY <1>5, <1>7, <1>8, WindowAssumption DEF Linked, Transmitter, Sends
<1>10. QED
  BY <1>3, <1>4, <1>5, <1>9, UpTypes DEF UpInv

(* What the invariant says: order and the exact bitmap.                     *)
LEMMA UpShows == UpInv => Up!TypeOK /\ Up!Aligned /\ Up!BitmapIsExact
<1> SUFFICES ASSUME UpInv PROVE Up!TypeOK /\ Up!Aligned /\ Up!BitmapIsExact
  OBVIOUS
<1>1. up \in UpFields
  BY UpTypes DEF UpInv
<1>2. PICK t \in Nat : Engine(up, t)
  BY DEF UpInv, Linked
<1>3. PICK g \in Nat : /\ g = up.got /\ g <= t /\ t <= g + WS /\ up.vr = Wrap(t) /\ up.vq = Wrap(g)
                       /\ Tops(up.heard, t) /\ Stocked(up, t) /\ Kept(up, t)
  BY <1>1, <1>2 DEF Engine, Stocked, UpFields, UpNumbers
<1>4. WS \in Nat /\ WS >= 4 /\ SNS = WS + WS
  BY Sizes, WindowAssumption
<1>5. Up!Aligned
  <2>1. up.got % Up!SNS = up.vq
    BY <1>3, SameWindow DEF Wrap
  <2>2. AddSN(Wrap(t), -Wrap(g)) = t - g
    <3>1. 0 <= t - g /\ t - g < SNS /\ t \in Int /\ g \in Int
      BY <1>3, <1>4
    <3>2. QED
      BY <3>1, WrapGap
  <2>3. ASSUME NEW i \in 0..(t - g) - 1, up.rxq[AddSN(Wrap(g), i)] # 0
        PROVE  up.rxq[AddSN(Wrap(g), i)] = g + 1 + i
    <3>1. PICK w \in Int : w = g + i /\ g <= w /\ w <= t /\ w + 1 = g + 1 + i
      BY <1>3
    <3>2. AddSN(Wrap(g), i) = Wrap(w)
      BY <3>1, WrapAdd
    <3>3. up.rxq[Wrap(w)] = w + 1
      BY <3>1, <3>2, <2>3, <1>1, <1>3, Waiting
    <3>4. QED
      BY <3>1, <3>2, <3>3
  <2>4. QED
    BY <2>1, <2>2, <2>3, <1>3, SameWindow DEF Up!Aligned
<1>6. up.heard \in SUBSET (1..UpBlocks) /\ Up!Newest = t
  <2>1. up.heard \in SUBSET (1..UpBlocks)
    BY <1>1 DEF UpFields
  <2>2. QED
    BY <2>1, <1>3, NewestIs
<1>7. ASSUME NEW i \in 1..WS
      PROVE  up.vn[Up!AddSN(up.vr, -i)] <=> t + 1 - i \in up.heard
  <2>1. PICK x \in Int : x = t - i /\ x = t + (-i) /\ x + 1 = t + 1 - i /\ -i \in Int
    BY <1>4
  <2>2. Up!AddSN(up.vr, -i) = Wrap(x) /\ Wrap(x) \in BSNs
    BY <2>1, <1>3, SameWindow, WrapAdd, WrapIs
  <2>3. ASSUME up.vn[Wrap(x)] PROVE x + 1 \in up.heard
    <3>1. PICK m \in up.heard : t - WS - 1 <= m /\ Wrap(x) = Wrap(m - 1)
      BY <2>2, <2>3, <1>3 DEF Kept
    <3>2. m \in Nat /\ m <= t
      BY <1>3, <1>6 DEF Tops
    <3>3. x - (m - 1) < SNS /\ (m - 1) - x < SNS /\ m - 1 \in Int
      BY <3>1, <3>2, <2>1, <1>4
    <3>4. x = m - 1
      BY <3>1, <3>3, WrapSame
    <3>5. QED
      BY <3>2, <3>4
  <2>4. ASSUME x + 1 \in up.heard PROVE up.vn[Wrap(x)]
    <3>1. PICK m \in up.heard : m = x + 1 /\ m - 1 = x /\ t - WS < m
      BY <2>1, <2>4, <1>4
    <3>2. up.vn[Wrap(m - 1)]
      BY <3>1, <1>3 DEF Kept
    <3>3. QED
      BY <3>1, <3>2
  <2>5. QED
    BY <2>1, <2>2, <2>3, <2>4
<1>8. Up!BitmapIsExact
  <2>1. up.vr = Up!Newest % Up!SNS
    BY <1>3, <1>6, SameWindow DEF Wrap
  <2>2. Up!Bitmap(up) = {i \in 1..WS : Up!Newest + 1 - i \in up.heard}
    BY <1>6, <1>7 DEF Up!Bitmap
  <2>3. QED
    BY <2>1, <2>2 DEF Up!BitmapIsExact
<1>9. QED
  BY <1>5, <1>8 DEF UpInv

EnginesInv == DownInv /\ UpInv

(* The engine that does not run.                                            *)
LEMMA EnginesSame ==
  /\ DownInv /\ UNCHANGED vars => DownInv'
  /\ UpInv /\ UNCHANGED upVars => UpInv'
<1>1. DownInv /\ UNCHANGED vars => DownInv'
  BY DEF DownInv, vars, TypeOK, Filled, Joined, Sender, Window, Queue, Receiver, Holds, Truthful, Has
<1>2. UpInv /\ UNCHANGED upVars => UpInv'
  <2> SUFFICES ASSUME UpInv, UNCHANGED upVars PROVE UpInv'
    OBVIOUS
  <2>1. up' = up /\ tbf' = tbf /\ air' = air /\ phone' = phone
    BY DEF upVars
  <2>2. PICK t \in Nat : Linked(up, phone, air, Alive, t)
    BY DEF UpInv
  <2>3. up \in UpFields /\ tbf \in TbfFields
    BY UpTypes DEF UpInv
  <2>4. Alive' => Alive
    BY <2>1 DEF Alive
  <2>5. QED
    BY <2>1, <2>2, <2>3, <2>4, UpActKeeps
<1>3. QED
  BY <1>1, <1>2

(* The windows of both engines and both handsets are always where the       *)
(* invariants have them.                                                    *)
THEOREM EnginesAlways == MCSpec => []EnginesInv
<1>1. MCInit => EnginesInv
  BY DownBegins, UpBegins DEF MCInit, EnginesInv
<1>2. EnginesInv /\ [MCNext]_mcvars => EnginesInv'
  BY DownStep, UpStep, EnginesSame DEF EnginesInv, MCNext, mcvars, vars, upVars
<1>3. QED
  BY <1>1, <1>2, PTL DEF MCSpec

(* Every variable keeps its type, and in either direction what waits in a   *)
(* window is what its place stands for, so that blocks are delivered in     *)
(* order, though numbers wrap, blocks are lost and sent again and answers   *)
(* come late (engineRecvAckNack, engineRecvDataBlock,                       *)
(* engineUpAdvanceWindow).                                                  *)
THEOREM BothAlignedAlways == MCSpec => []BothAligned
<1>1. EnginesInv => BothAligned
  BY DownShows, UpShows DEF EnginesInv, BothAligned, DownInv
<1>2. QED
  BY <1>1, EnginesAlways, PTL

(* No bit of an answer is ever taken for a block of another round: what the *)
(* downlink engine holds for acknowledged the handset has                   *)
(* (engineRecvAckNack).                                                     *)
THEOREM AckedIsReceivedAlways == MCSpec => []AckedIsReceived
<1>1. EnginesInv => AckedIsReceived
  BY DownShows DEF EnginesInv
<1>2. QED
  BY <1>1, EnginesAlways, PTL

(* An uplink acknowledgement reports exactly the blocks heard of the last   *)
(* WS: those a round older have been forgotten and no newer one has         *)
(* (engineRecvDataBlock, engineUpAckNack).                                  *)
THEOREM BitmapIsExactAlways == MCSpec => []BitmapIsExact
<1>1. EnginesInv => BitmapIsExact
  BY UpShows DEF EnginesInv, BitmapIsExact
<1>2. QED
  BY <1>1, EnginesAlways, PTL
=============================================================================
