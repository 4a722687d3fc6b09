--------------------------- MODULE DataLink_proofs ---------------------------
(* What every implementation of the data link service inherits from it.    *)
EXTENDS DataLink, SequenceTheorems, TLAPS

(* The beginning of a sequence: what Leave may keep of heard.              *)
LEMMA PrefixInSeq == ASSUME NEW S, NEW s \in Seq(S), NEW k \in 0 .. Len(s)
                     PROVE  SubSeq(s, 1, k) \in Seq(S)
<1>1. \A i \in 1 .. k : s[i] \in S
  OBVIOUS
<1>2. QED
  BY <1>1, SubSeqProperties

(* The variables of the service keep their types.                          *)
THEOREM TypeCorrect == Spec => []TypeOK
<1>1. Init => TypeOK
  BY DEF Init, TypeOK, Item
<1>2. TypeOK /\ [Next]_vars => TypeOK'
  <2> SUFFICES ASSUME TypeOK, [Next]_vars PROVE TypeOK'
    OBVIOUS
  <2> USE DEF TypeOK, Item
  <2>1. CASE UNCHANGED vars
    BY <2>1 DEF vars
  <2>2. ASSUME NEW e \in Ends, Enter(e) PROVE TypeOK'
    BY <2>2 DEF Enter
  <2>3. ASSUME NEW e \in Ends, Leave(e) PROVE TypeOK'
    <3>1. PICK k \in 0 .. Len(heard[e]) : heard' = [heard EXCEPT ![e] = SubSeq(@, 1, k)]
      BY <2>3 DEF Leave
    <3>2. SubSeq(heard[e], 1, k) \in Seq(Item)
      <4>1. heard[e] \in Seq(Item)
        OBVIOUS
      <4>2. QED
        BY ONLY <4>1, PrefixInSeq
    <3>3. QED
      BY <2>3, <3>1, <3>2 DEF Leave
  <2>4. ASSUME NEW e \in Ends, Transmit(e) PROVE TypeOK'
    BY <2>4 DEF Transmit
  <2>5. ASSUME NEW e \in Ends, Hear(e) PROVE TypeOK'
    BY <2>5 DEF Hear
  <2>6. QED
    BY <2>1, <2>2, <2>3, <2>4, <2>5 DEF Next
<1>3. QED
  BY <1>1, <1>2, PTL DEF Spec
-----------------------------------------------------------------------------
(* A sender never sends a segment before the last one has arrived, on any  *)
(* number of links: what L3_DATA_CONFIRM relies on.                        *)
THEOREM SenderIsOneAhead == Spec => []OneAhead
<1>1. Init => OneAhead
  <2> SUFFICES ASSUME Init, NEW e \in Ends PROVE sent[e] - arrived[e] = 0
    BY DEF OneAhead
  <2>1. sent[e] = 0 /\ arrived[e] = 0
    BY DEF Init
  <2>2. QED
    BY <2>1
<1>2. TypeOK /\ OneAhead /\ [Next]_vars => OneAhead'
  <2> SUFFICES ASSUME TypeOK, OneAhead, [Next]_vars PROVE OneAhead'
    OBVIOUS
  <2> USE DEF TypeOK, OneAhead
  <2>1. CASE UNCHANGED <<sent, arrived>>
    BY <2>1
  <2>2. ASSUME NEW e \in Ends, Enter(e) PROVE OneAhead'
    BY <2>2 DEF Enter
  <2>3. ASSUME NEW e \in Ends, Transmit(e) PROVE OneAhead'
    BY <2>3 DEF Transmit
  <2>4. ASSUME NEW e \in Ends, Hear(e) PROVE OneAhead'
    BY <2>4 DEF Hear
  <2>5. QED
    BY <2>1, <2>2, <2>3, <2>4 DEF Next, Leave, vars
<1>3. QED
  BY <1>1, <1>2, TypeCorrect, PTL DEF Spec
-----------------------------------------------------------------------------
(* A gapless prefix of one link; what Leave and Hear make of one.          *)
Prefix(s) == \A i \in DOMAIN s : s[i] = [link |-> s[1].link, n |-> i]

LEMMA LeavePrefix ==
  ASSUME NEW s \in Seq(Item), NEW k \in 0 .. Len(s), Prefix(s)
  PROVE  Prefix(SubSeq(s, 1, k))
<1>1. DOMAIN SubSeq(s, 1, k) = 1 .. k
  OBVIOUS
<1>2. \A i \in 1 .. k : SubSeq(s, 1, k)[i] = s[i] /\ i \in DOMAIN s /\ 1 \in 1 .. k
  OBVIOUS
<1>3. QED
  BY <1>1, <1>2 DEF Prefix

LEMMA HearPrefix ==
  ASSUME NEW s \in Seq(Item), NEW l \in Nat, Prefix(s), s # << >> => s[1].link = l
  PROVE  Prefix(Append(s, [link |-> l, n |-> Len(s) + 1]))
<1> DEFINE item == [link |-> l, n |-> Len(s) + 1]
           t == Append(s, item)
<1>1. /\ DOMAIN t = 1 .. Len(s) + 1 /\ Len(s) \in Nat /\ DOMAIN s = 1 .. Len(s)
      /\ t[Len(s) + 1] = item /\ \A i \in DOMAIN s : t[i] = s[i]
  OBVIOUS
<1>2. t[1].link = l
  <2>1. CASE s = << >>
    BY <1>1, <2>1
  <2>2. CASE s # << >>
    BY <1>1, <2>2
  <2>3. QED
    BY <2>1, <2>2
<1>3. \A i \in DOMAIN s : s # << >> /\ s[i] = [link |-> l, n |-> i]
  BY DEF Prefix
<1> HIDE DEF t
<1>4. ASSUME NEW i \in DOMAIN t PROVE t[i] = [link |-> l, n |-> i]
  <2>1. CASE i = Len(s) + 1
    BY <1>1, <2>1
  <2>2. CASE i \in DOMAIN s
    BY <1>1, <1>3, <2>2
  <2>3. QED
    BY <1>1, <2>1, <2>2
<1>5. Prefix(t)
  BY <1>2, <1>4 DEF Prefix
<1>6. QED
  BY <1>5 DEF t

(* What an end has heard and kept is a gapless prefix of one link of the   *)
(* other end.                                                              *)
THEOREM ListenerHearsInOrder == Spec => []HeardInOrder
<1>1. Init => HeardInOrder
  BY DEF Init, HeardInOrder
<1>2. TypeOK /\ HeardInOrder /\ [Next]_vars => HeardInOrder'
  <2> SUFFICES ASSUME TypeOK, HeardInOrder, [Next]_vars, NEW d \in Ends
               PROVE  Prefix(heard'[d])
    BY DEF HeardInOrder, Prefix
  <2>1. heard[d] \in Seq(Item) /\ Prefix(heard[d])
    BY DEF TypeOK, HeardInOrder, Prefix
  <2>2. CASE heard'[d] = heard[d]
    BY <2>1, <2>2
  <2>3. CASE heard'[d] = << >>
    BY <2>3 DEF Prefix
  <2>4. ASSUME NEW k \in 0 .. Len(heard[d]), heard'[d] = SubSeq(heard[d], 1, k)
        PROVE  Prefix(heard'[d])
    BY <2>1, <2>4, LeavePrefix
  <2>5. ASSUME NEW e \in Ends, Hear(e), d = Other(e) PROVE Prefix(heard'[d])
    <3>1. heard'[d] = Append(heard[d], [link |-> link[e], n |-> Len(heard[d]) + 1])
      BY <2>5 DEF Hear, TypeOK
    <3>2. link[e] \in Nat /\ (heard[d] # << >> => heard[d][1].link = link[e])
      BY <2>5 DEF Hear, TypeOK
    <3>3. QED
      BY <2>1, <3>1, <3>2, HearPrefix
  <2>6. ASSUME NEW e \in Ends, Enter(e) \/ Leave(e) \/ Transmit(e) \/ Hear(e)
        PROVE  Prefix(heard'[d])
    BY <2>2, <2>3, <2>4, <2>5, <2>6 DEF Enter, Leave, Transmit, Hear, TypeOK
  <2>7. QED
    BY <2>2, <2>6 DEF Next, vars
<1>3. QED
  BY <1>1, <1>2, TypeCorrect, PTL DEF Spec
=============================================================================
