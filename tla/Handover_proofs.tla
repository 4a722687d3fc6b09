---------------------------- MODULE Handover_proofs ----------------------------
(* Theorems about Handover, for any number of calls and channels.           *)
EXTENDS Handover, FiniteSetTheorems, TLAPS

Asks == {m \in net : m.kind = "REQ"}

Datagrams ==
    [kind: {"REQ"}, call: Calls] \cup [kind: {"RSP"}, call: Calls, cmd: Targets \cup {None}]
        \cup [kind: {"COMPLETE", "FAILURE", "ACK"}, id: Ids]

NetOK ==
    /\ net \subseteq Datagrams
    /\ IsFiniteSet(Asks)
    /\ made + Cardinality(Asks) <= asked

(* What a command, a reference that L1 awaits and a transaction stand for.  *)
ChannelShaped(c) ==
    /\ c.loop # "idle" \/ c.up # <<>> \/ c.ref # None => c.entry # None
    /\ c.ref # None => c.ref = c.entry.ref /\ c.loop = "idle"
    /\ c.loop = "access" => c.n # 0

Shaped ==
    /\ \A k \in Calls : bs1[k].state = "HandoverOutbound" => bs1[k].cmd # None
    /\ \A k \in Calls : phone[k].at \in {"moving", "heard", "BS2"} => phone[k].to # None
    /\ \A t \in Tch : ChannelShaped(bs2[t])

TInv == TypeOK /\ NetOK /\ Shaped

(* The references that a call has been given, wherever they still are.      *)
Given(k, r) ==
    \/ \E m \in net : m.kind = "RSP" /\ m.call = k /\ m.cmd # None /\ m.cmd.ref = r
    \/ bs1[k].cmd # None /\ bs1[k].cmd.ref = r
    \/ phone[k].to # None /\ phone[k].to.ref = r
    \/ \E t \in Tch : bs2[t].entry # None /\ bs2[t].entry.call = k /\ bs2[t].entry.ref = r

OwnRefs ==
    /\ \A k \in Calls, r \in 0..RefSpace - 1 : Given(k, r) => \E i \in 1..made : r = i % RefSpace
    /\ \A k, j \in Calls, r \in 0..RefSpace - 1 : Given(k, r) /\ Given(j, r) => j = k

(* A handset that a channel has heard, or serves, is that of its            *)
(* transaction; what it has sent is from that handset.                      *)
Serves(t, k) == bs2[t].entry # None /\ bs2[t].entry.call = k

OnChannel ==
    /\ \A k \in Calls : phone[k].at = "heard" =>
          LET c == bs2[phone[k].to.ch] IN
          /\ Serves(phone[k].to.ch, k)
          /\ c.loop = "access" \/ (c.loop = "idle" /\ (c.up # <<>> \/ c.t3101))
    /\ \A k \in Calls : phone[k].at = "BS2" =>
          Serves(phone[k].to.ch, k) /\ bs2[phone[k].to.ch].loop # "idle"
    /\ \A t \in Tch : \A i \in DOMAIN bs2[t].up :
          /\ bs2[t].up[i] # "ACCESS" => phone[bs2[t].entry.call].at \in {"BS2", "lost"}
          /\ bs2[t].up[i] = "COMPLETE" => phone[bs2[t].entry.call].came

Dialogs ==
    /\ \A k \in Calls : phone[k].came => phone[k].at \in {"BS2", "lost"}
    /\ \A k \in Calls : sip[k] = "BS2" => phone[k].came
    /\ \A t \in Tch : bs2[t].loop = "sip" => phone[bs2[t].entry.call].came


LEMMA Objects ==
  ASSUME TypeOK
  PROVE  /\ \A k \in Calls : bs1[k] \in BS1Calls /\ phone[k] \in Handsets
         /\ \A t \in Tch : bs2[t] \in BS2Channels
BY DEF TypeOK

LEMMA InitTyped == Init => TInv
<1> SUFFICES ASSUME Init PROVE TInv
  OBVIOUS
<1>1. NewChan \in BS2Channels
  BY CountAssumption DEF NewChan, BS2Channels
<1>2. TypeOK
  <2>1. bs1 \in [Calls -> BS1Calls] /\ phone \in [Calls -> Handsets]
    BY DEF Init, BS1Calls, Handsets
  <2>2. bs2 \in [Tch -> BS2Channels] /\ sip \in [Calls -> {"BS1", "BS2", "over"}]
    BY <1>1 DEF Init
  <2>3. holdoff \in BOOLEAN
    BY DEF Init
  <2>4. made \in Ids \cup {0}
    BY DEF Init
  <2>5. asked \in 0..MaxRequests
    BY CountAssumption DEF Init
  <2>6. QED
    BY <2>1, <2>2, <2>3, <2>4, <2>5 DEF TypeOK
<1>3. NetOK
  <2>1. Asks = {}
    BY DEF Init, Asks
  <2>2. QED
    BY <2>1, FS_EmptySet DEF Init, NetOK
<1>4. Shaped
  BY DEF Init, Shaped, ChannelShaped, NewChan
<1>5. QED
  BY <1>2, <1>3, <1>4 DEF TInv

-----------------------------------------------------------------------------
(* The datagrams in flight: no step but a measurement adds a request.       *)
LEMMA NoNewRequest ==
  ASSUME NetOK, TypeOK, UNCHANGED <<made, asked>>, net' \subseteq Datagrams,
         \A m \in net' \ net : m.kind # "REQ"
  PROVE  NetOK'
<1>1. Asks' \subseteq Asks
  BY DEF Asks
<1>2. IsFiniteSet(Asks') /\ Cardinality(Asks') <= Cardinality(Asks)
  BY <1>1, FS_Subset DEF NetOK
<1>3. Cardinality(Asks') \in Nat /\ Cardinality(Asks) \in Nat
  BY <1>2, FS_CardinalityType DEF NetOK
<1>4. made \in Nat /\ asked \in Nat
  BY CountAssumption DEF TypeOK, Ids
<1>5. QED
  BY <1>2, <1>3, <1>4 DEF NetOK

LEMMA SameNet ==
  ASSUME NetOK, TypeOK, UNCHANGED <<made, asked, net>>
  PROVE  NetOK'
BY NoNewRequest DEF NetOK

(* Indications and acknowledgements.                                        *)
LEMMA Replies ==
  ASSUME TypeOK, NetOK, NEW id \in Ids
  PROVE  /\ ACK(id) \in Datagrams /\ ACK(id).kind = "ACK"
         /\ \A kind \in {"COMPLETE", "FAILURE"} :
               IND(kind, id) \in Datagrams /\ IND(kind, id).kind = kind
BY DEF ACK, IND, Datagrams

LEMMA Indicates ==
  ASSUME TypeOK, NetOK, UNCHANGED <<made, asked>>,
         NEW t \in Tch, bs2[t].entry # None, NEW kind \in {"COMPLETE", "FAILURE"},
         net' = net \cup {IND(kind, bs2[t].entry.id)}
  PROVE  NetOK'
<1>1. bs2[t].entry.id \in Ids
  BY DEF TypeOK, BS2Channels, Entries
<1>2. IND(kind, bs2[t].entry.id) \in Datagrams /\ IND(kind, bs2[t].entry.id).kind = kind
  BY <1>1, Replies
<1>3. QED
  BY <1>2, NoNewRequest DEF NetOK

-----------------------------------------------------------------------------
(* What BS1 and the remote party do.                                        *)
LEMMA MeasureTyped ==
  ASSUME TInv, NEW k \in Calls, Measure(k) PROVE TInv'
<1>1. /\ REQ(k) \notin net /\ net' = net \cup {REQ(k)} /\ asked < MaxRequests /\ asked' = asked + 1
      /\ UNCHANGED <<bs1, holdoff, bs2, made, phone, sip>>
  BY DEF Measure
<1>2. TypeOK'
  BY <1>1, CountAssumption DEF TInv, TypeOK
<1>3. Asks' = Asks \cup {REQ(k)} /\ REQ(k) \notin Asks
  BY <1>1 DEF Asks, REQ
<1>4. IsFiniteSet(Asks') /\ Cardinality(Asks') = Cardinality(Asks) + 1
  BY <1>3, FS_AddElement DEF TInv, NetOK
<1>5. Cardinality(Asks) \in Nat /\ made \in Nat /\ asked \in Nat
  BY FS_CardinalityType, CountAssumption DEF TInv, NetOK, TypeOK, Ids
<1>6. REQ(k) \in Datagrams
  BY DEF REQ, Datagrams
<1>7. NetOK'
  BY <1>1, <1>4, <1>5, <1>6 DEF TInv, NetOK
<1>8. Shaped'
  BY <1>1 DEF TInv, Shaped
<1>9. QED
  BY <1>2, <1>7, <1>8 DEF TInv

LEMMA ResponseTyped ==
  ASSUME TInv, NEW k \in Calls, Response(k) PROVE TInv'
<1>1. PICK m \in net :
        /\ m.kind = "RSP" /\ m.call = k
        /\ bs1' = IF m.cmd = None \/ bs1[k].state = "Deleted" THEN bs1
                  ELSE [bs1 EXCEPT ![k].cmd = m.cmd, ![k].state = "HandoverOutbound", ![k].old = FALSE]
        /\ net' = net \ {m}
        /\ UNCHANGED <<holdoff, bs2, made, asked, phone, sip>>
  BY DEF Response
<1>2. m.cmd \in Targets \cup {None}
  BY <1>1 DEF TInv, NetOK, Datagrams
<1>3. TypeOK /\ NetOK /\ Shaped
  BY DEF TInv
<1>4. bs1' \in [Calls -> BS1Calls]
  <2>1. CASE m.cmd = None \/ bs1[k].state = "Deleted"
    BY <1>1, <1>3, <2>1 DEF TypeOK
  <2>2. CASE ~(m.cmd = None \/ bs1[k].state = "Deleted")
    <3>1. [bs1[k] EXCEPT !.cmd = m.cmd, !.state = "HandoverOutbound", !.old = FALSE] \in BS1Calls
      BY <1>2, <1>3, Objects DEF BS1Calls
    <3>2. bs1' = [bs1 EXCEPT ![k] = [bs1[k] EXCEPT !.cmd = m.cmd, !.state = "HandoverOutbound", !.old = FALSE]]
      BY <1>1, <1>3, <2>2 DEF TypeOK
    <3>3. QED
      BY <1>3, <3>1, <3>2 DEF TypeOK
  <2>3. QED
    BY <2>1, <2>2
<1>5. TypeOK'
  BY <1>1, <1>3, <1>4 DEF TypeOK
<1>6. NetOK'
  BY <1>1, <1>3, NoNewRequest DEF NetOK
<1>7. \A j \in Calls : bs1'[j].state = "HandoverOutbound" => bs1'[j].cmd # None
  BY <1>1, <1>3, Objects DEF TypeOK, Shaped, BS1Calls
<1>8. Shaped'
  BY <1>1, <1>3, <1>7 DEF Shaped
<1>9. QED
  BY <1>5, <1>6, <1>8 DEF TInv

LEMMA IndicationTyped ==
  ASSUME TInv, Indication PROVE TInv'
<1>1. PICK m \in net :
        /\ m.kind \in {"COMPLETE", "FAILURE"}
        /\ holdoff' = (holdoff \/ m.kind = "FAILURE")
        /\ net' = (net \ {m}) \cup {ACK(m.id)}
        /\ UNCHANGED <<bs1, bs2, made, asked, phone, sip>>
  BY DEF Indication
<1>2. m.id \in Ids
  BY <1>1 DEF TInv, NetOK, Datagrams
<1>3. TypeOK /\ NetOK /\ Shaped
  BY DEF TInv
<1>4. ACK(m.id) \in Datagrams /\ ACK(m.id).kind = "ACK"
  BY <1>2, <1>3, Replies
<1>5. NetOK'
  BY <1>1, <1>3, <1>4, NoNewRequest DEF NetOK
<1>6. TypeOK'
  BY <1>1, <1>3 DEF TypeOK
<1>7. Shaped'
  BY <1>1, <1>3 DEF Shaped
<1>8. QED
  BY <1>5, <1>6, <1>7 DEF TInv

(* The steps that leave BS2 and the network alone.                          *)
LEMMA NearTyped ==
  ASSUME TInv, UNCHANGED <<bs2, net, made, asked>>,
         bs1' \in [Calls -> BS1Calls], phone' \in [Calls -> Handsets],
         holdoff' \in BOOLEAN, sip' \in [Calls -> {"BS1", "BS2", "over"}],
         \A k \in Calls : bs1'[k].state = "HandoverOutbound" => bs1'[k].cmd # None,
         \A k \in Calls : phone'[k].at \in {"moving", "heard", "BS2"} => phone'[k].to # None
  PROVE  TInv'
<1>1. TypeOK'
  BY DEF TInv, TypeOK
<1>2. NetOK'
  BY SameNet DEF TInv
<1>3. Shaped'
  BY DEF TInv, Shaped
<1>4. QED
  BY <1>1, <1>2, <1>3 DEF TInv

LEMMA LostType ==
  ASSUME NEW p \in Handsets
  PROVE  /\ Lost(p) \in Handsets /\ Lost(p).at = "lost" /\ Lost(p).came = p.came
         /\ Lost(p).to = None
BY DEF Lost, Handsets

(* One call changes at BS1.                                                 *)
LEMMA CallChanges ==
  ASSUME TypeOK, Shaped, NEW k \in Calls, NEW b \in BS1Calls,
         b.state = "HandoverOutbound" => b.cmd # None,
         bs1' = [bs1 EXCEPT ![k] = b]
  PROVE  /\ bs1' \in [Calls -> BS1Calls]
         /\ \A j \in Calls : bs1'[j].state = "HandoverOutbound" => bs1'[j].cmd # None
BY DEF TypeOK, Shaped

LEMMA HandsetChanges ==
  ASSUME TypeOK, Shaped, NEW k \in Calls, NEW p \in Handsets,
         p.at \in {"moving", "heard", "BS2"} => p.to # None,
         phone' = [phone EXCEPT ![k] = p]
  PROVE  /\ phone' \in [Calls -> Handsets]
         /\ \A j \in Calls : phone'[j].at \in {"moving", "heard", "BS2"} => phone'[j].to # None
BY DEF TypeOK, Shaped

LEMMA SameCalls ==
  ASSUME TypeOK, Shaped, UNCHANGED bs1
  PROVE  /\ bs1' \in [Calls -> BS1Calls]
         /\ \A j \in Calls : bs1'[j].state = "HandoverOutbound" => bs1'[j].cmd # None
BY DEF TypeOK, Shaped

LEMMA SameHandsets ==
  ASSUME TypeOK, Shaped, UNCHANGED phone
  PROVE  /\ phone' \in [Calls -> Handsets]
         /\ \A j \in Calls : phone'[j].at \in {"moving", "heard", "BS2"} => phone'[j].to # None
BY DEF TypeOK, Shaped

LEMMA Near1 ==
  ASSUME TInv, NEW k \in Calls,
         \/ Ages(k) \/ TransferRead(k) \/ ReadFrame(k) \/ ReadBye(k) \/ Talks(k)
  PROVE  TInv'
<1>1. TypeOK /\ Shaped /\ bs1[k] \in BS1Calls
  BY Objects DEF TInv
<1>2. \E b \in BS1Calls : /\ b.state = "HandoverOutbound" => b.cmd # None
                         /\ bs1' = [bs1 EXCEPT ![k] = b]
  <2>1. ASSUME NEW b, b \in BS1Calls, bs1' = [bs1 EXCEPT ![k] = b],
               b.state = "HandoverOutbound" => bs1[k].state = "HandoverOutbound" /\ b.cmd = bs1[k].cmd
        PROVE  <1>2!:
    BY <1>1, <2>1 DEF Shaped
  <2>2. CASE Ages(k)
    <3>1. bs1' = [bs1 EXCEPT ![k] = [bs1[k] EXCEPT !.old = TRUE]]
      BY <1>1, <2>2 DEF Ages, TypeOK
    <3>2. QED
      BY <1>1, <2>1, <3>1 DEF BS1Calls
  <2>3. CASE TransferRead(k)
    <3> DEFINE b == [bs1[k] EXCEPT !.up = FALSE, !.loop = "traffic", !.state = "Active", !.old = FALSE]
    <3>1. bs1' = [bs1 EXCEPT ![k] = b]
      BY <1>1, <2>3 DEF TransferRead, TypeOK
    <3>2. b \in BS1Calls /\ b.state = "Active"
      BY <1>1 DEF BS1Calls
    <3>3. QED
      BY <2>1, <3>1, <3>2
  <2>4. CASE ReadFrame(k)
    <3>1. bs1' = [bs1 EXCEPT ![k] = [bs1[k] EXCEPT !.up = FALSE]]
      BY <1>1, <2>4 DEF ReadFrame, TypeOK
    <3>2. QED
      BY <1>1, <2>1, <3>1 DEF BS1Calls
  <2>5. CASE ReadBye(k)
    <3> DEFINE b == [bs1[k] EXCEPT !.bye = FALSE, !.state = "Clearing"]
    <3>1. bs1' = [bs1 EXCEPT ![k] = b]
      BY <1>1, <2>5 DEF ReadBye, TypeOK
    <3>2. b \in BS1Calls /\ b.state = "Clearing"
      BY <1>1 DEF BS1Calls
    <3>3. QED
      BY <2>1, <3>1, <3>2
  <2>6. CASE Talks(k)
    <3>1. bs1' = [bs1 EXCEPT ![k] = [bs1[k] EXCEPT !.up = TRUE]]
      BY <1>1, <2>6 DEF Talks, TypeOK
    <3>2. QED
      BY <1>1, <2>1, <3>1 DEF BS1Calls
  <2>7. QED
    BY <2>2, <2>3, <2>4, <2>5, <2>6
<1>3. UNCHANGED <<holdoff, bs2, made, asked, net, phone, sip>>
  BY DEF Ages, TransferRead, ReadFrame, ReadBye, Talks
<1>4. QED
  BY <1>1, <1>2, <1>3, NearTyped, CallChanges, SameHandsets DEF TypeOK

LEMMA Near2 ==
  ASSUME TInv, NEW k \in Calls,
         \/ TransferTimeout(k) \/ RadioFailure(k) \/ ClearingEnds(k) \/ HangsUp(k)
  PROVE  TInv'
<1>1. TypeOK /\ Shaped /\ bs1[k] \in BS1Calls /\ phone[k] \in Handsets
  BY Objects DEF TInv
<1>2. Deleted \in BS1Calls /\ Deleted.state = "Deleted"
  BY DEF Deleted, BS1Calls
<1>3. /\ \/ bs1' = bs1
         \/ bs1' = [bs1 EXCEPT ![k] = Deleted]
         \/ bs1' = [bs1 EXCEPT ![k].bye = TRUE]
      /\ phone' = phone \/ phone' = [phone EXCEPT ![k] = Lost(phone[k])]
      /\ UNCHANGED <<holdoff, bs2, made, asked, net>>
  BY DEF TransferTimeout, RadioFailure, ClearingEnds, HangsUp
<1>4. sip' \in [Calls -> {"BS1", "BS2", "over"}]
  BY <1>1 DEF TransferTimeout, RadioFailure, ClearingEnds, HangsUp, TypeOK
<1>5. /\ bs1' \in [Calls -> BS1Calls]
      /\ \A j \in Calls : bs1'[j].state = "HandoverOutbound" => bs1'[j].cmd # None
  <2>1. CASE bs1' = bs1
    BY <1>1, <2>1, SameCalls
  <2>2. CASE bs1' = [bs1 EXCEPT ![k] = Deleted]
    BY <1>1, <1>2, <2>2, CallChanges
  <2>3. CASE bs1' = [bs1 EXCEPT ![k].bye = TRUE]
    <3> DEFINE b == [bs1[k] EXCEPT !.bye = TRUE]
    <3>1. bs1' = [bs1 EXCEPT ![k] = b]
      BY <1>1, <2>3 DEF TypeOK
    <3>2. b \in BS1Calls /\ b.state = bs1[k].state /\ b.cmd = bs1[k].cmd
      BY <1>1 DEF BS1Calls
    <3>3. b.state = "HandoverOutbound" => b.cmd # None
      BY <1>1, <3>2 DEF Shaped
    <3> HIDE DEF b
    <3>4. QED
      BY <1>1, <3>1, <3>2, <3>3, CallChanges
  <2>4. QED
    BY <1>3, <2>1, <2>2, <2>3
<1>6. Lost(phone[k]) \in Handsets /\ Lost(phone[k]).at = "lost"
  BY <1>1, LostType
<1>7. /\ phone' \in [Calls -> Handsets]
      /\ \A j \in Calls : phone'[j].at \in {"moving", "heard", "BS2"} => phone'[j].to # None
  BY <1>1, <1>3, <1>6, SameHandsets, HandsetChanges
<1>8. holdoff' \in BOOLEAN
  BY <1>1, <1>3 DEF TypeOK
<1>9. QED
  BY <1>3, <1>4, <1>5, <1>7, <1>8, NearTyped

LEMMA Near3 ==
  ASSUME TInv, NEW k \in Calls,
         TransferStart(k) \/ TurnsBack(k) \/ Vanishes(k) \/ HoldoffPasses
  PROVE  TInv'
<1>1. TypeOK /\ Shaped /\ bs1[k] \in BS1Calls /\ phone[k] \in Handsets
  BY Objects DEF TInv
<1>2. \/ bs1' = bs1
      \/ bs1' = [bs1 EXCEPT ![k].loop = "transfer"]
      \/ bs1' = [bs1 EXCEPT ![k].up = TRUE]
  BY DEF TransferStart, TurnsBack, Vanishes, HoldoffPasses
<1>3. /\ bs1' \in [Calls -> BS1Calls]
      /\ \A j \in Calls : bs1'[j].state = "HandoverOutbound" => bs1'[j].cmd # None
  <2>1. ASSUME NEW b \in BS1Calls, b.state = bs1[k].state, b.cmd = bs1[k].cmd,
               bs1' = [bs1 EXCEPT ![k] = b]
        PROVE  <1>3!:
    BY <1>1, <2>1, CallChanges DEF Shaped
  <2>2. CASE bs1' = bs1
    BY <1>1, <2>2, SameCalls
  <2>3. CASE bs1' = [bs1 EXCEPT ![k].loop = "transfer"]
    <3>1. bs1' = [bs1 EXCEPT ![k] = [bs1[k] EXCEPT !.loop = "transfer"]]
      BY <1>1, <2>3 DEF TypeOK
    <3>2. QED
      BY <1>1, <2>1, <3>1 DEF BS1Calls
  <2>4. CASE bs1' = [bs1 EXCEPT ![k].up = TRUE]
    <3>1. bs1' = [bs1 EXCEPT ![k] = [bs1[k] EXCEPT !.up = TRUE]]
      BY <1>1, <2>4 DEF TypeOK
    <3>2. QED
      BY <1>1, <2>1, <3>1 DEF BS1Calls
  <2>5. QED
    BY <1>2, <2>2, <2>3, <2>4
<1>4. Lost(phone[k]) \in Handsets /\ Lost(phone[k]).at = "lost"
  BY <1>1, LostType
<1>5. /\ phone' \in [Calls -> Handsets]
      /\ \A j \in Calls : phone'[j].at \in {"moving", "heard", "BS2"} => phone'[j].to # None
  <2>1. CASE phone' = phone
    BY <1>1, <2>1, SameHandsets
  <2>2. CASE phone' = [phone EXCEPT ![k] = Lost(phone[k])]
    BY <1>1, <1>4, <2>2, HandsetChanges
  <2>3. CASE phone' = [phone EXCEPT ![k].at = "BS1", ![k].to = None]
    <3> DEFINE p == [phone[k] EXCEPT !.at = "BS1", !.to = None]
    <3>1. phone' = [phone EXCEPT ![k] = p]
      BY <1>1, <2>3 DEF TypeOK
    <3>2. p \in Handsets /\ p.at = "BS1"
      BY <1>1 DEF Handsets
    <3> HIDE DEF p
    <3>3. QED
      BY <1>1, <3>1, <3>2, HandsetChanges
  <2>4. CASE /\ bs1[k].state = "HandoverOutbound"
             /\ phone' = [phone EXCEPT ![k] = [at |-> "moving", to |-> bs1[k].cmd, came |-> FALSE]]
    <3> DEFINE p == [at |-> "moving", to |-> bs1[k].cmd, came |-> FALSE]
    <3>1. bs1[k].cmd \in Targets \cup {None} /\ bs1[k].cmd # None
      BY <1>1, <2>4 DEF BS1Calls, Shaped
    <3>2. p \in Handsets /\ p.to # None
      BY <3>1 DEF Handsets
    <3>3. phone' = [phone EXCEPT ![k] = p]
      BY <2>4
    <3> HIDE DEF p
    <3>4. QED
      BY <1>1, <3>2, <3>3, HandsetChanges
  <2>5. QED
    BY <2>1, <2>2, <2>3, <2>4 DEF TransferStart, TurnsBack, Vanishes, HoldoffPasses
<1>6. /\ sip' \in [Calls -> {"BS1", "BS2", "over"}] /\ holdoff' \in BOOLEAN
      /\ UNCHANGED <<bs2, made, asked, net>>
  BY <1>1 DEF TransferStart, TurnsBack, Vanishes, HoldoffPasses, TypeOK
<1>7. QED
  BY <1>3, <1>5, <1>6, NearTyped

LEMMA LoseTyped ==
  ASSUME TInv, Lose PROVE TInv'
<1>1. net' \subseteq net /\ UNCHANGED <<bs1, holdoff, bs2, made, asked, phone, sip>>
  BY DEF Lose
<1>2. TypeOK'
  BY <1>1 DEF TInv, TypeOK
<1>3. NetOK'
  BY <1>1, NoNewRequest DEF TInv, NetOK
<1>4. Shaped'
  BY <1>1 DEF TInv, Shaped
<1>5. QED
  BY <1>2, <1>3, <1>4 DEF TInv

-----------------------------------------------------------------------------
(* What BS2 does: one channel changes.                                      *)
LEMMA FarTyped ==
  ASSUME TInv, NEW t \in Tch, NEW c \in BS2Channels, ChannelShaped(c),
         bs2' = [bs2 EXCEPT ![t] = c], UNCHANGED <<bs1, holdoff, made, asked>>, NetOK',
         sip' \in [Calls -> {"BS1", "BS2", "over"}], phone' \in [Calls -> Handsets],
         \A k \in Calls : phone'[k].at \in {"moving", "heard", "BS2"} => phone'[k].to # None
  PROVE  TInv'
<1>1. TypeOK'
  BY DEF TInv, TypeOK
<1>2. Shaped'
  BY DEF TInv, TypeOK, Shaped
<1>3. QED
  BY <1>1, <1>2 DEF TInv

LEMMA FarSameHandsets ==
  ASSUME TInv, NEW t \in Tch, NEW c \in BS2Channels, ChannelShaped(c),
         bs2' = [bs2 EXCEPT ![t] = c], UNCHANGED <<bs1, holdoff, made, asked, phone>>, NetOK',
         sip' \in [Calls -> {"BS1", "BS2", "over"}]
  PROVE  TInv'
BY SameHandsets, FarTyped DEF TInv

LEMMA FarQuiet ==
  ASSUME TInv, NEW t \in Tch, NEW c \in BS2Channels, ChannelShaped(c),
         bs2' = [bs2 EXCEPT ![t] = c], UNCHANGED <<bs1, holdoff, made, asked, net, phone, sip>>
  PROVE  TInv'
BY SameNet, FarSameHandsets DEF TInv, TypeOK

LEMMA At ==
  ASSUME TInv, NEW t \in Tch
  PROVE  /\ bs2[t] \in BS2Channels /\ ChannelShaped(bs2[t])
         /\ bs2[t].entry # None => bs2[t].entry \in Entries
BY DEF TInv, TypeOK, Shaped, BS2Channels

LEMMA Stays ==
  ASSUME NEW c \in BS2Channels, ChannelShaped(c),
         NEW d \in BS2Channels, d.entry = c.entry, d.ref = c.ref, d.loop = c.loop, d.n = c.n,
         c.up = <<>> => d.up = <<>>
  PROVE  ChannelShaped(d)
BY DEF ChannelShaped

LEMMA Popped ==
  ASSUME NEW c \in BS2Channels, c.up # <<>>
  PROVE  Tail(c.up) \in Seq(Prims) /\ Head(c.up) \in Prims
BY DEF BS2Channels

LEMMA TimersTyped ==
  ASSUME TInv, NEW t \in Tch, T3101Expires(t) \/ T3103Expires(t) \/ Stuck(t)
  PROVE  TInv'
<1>1. bs2[t] \in BS2Channels /\ ChannelShaped(bs2[t]) /\ TypeOK
  BY At DEF TInv
<1>2. CASE T3101Expires(t)
  <2> DEFINE d == [bs2[t] EXCEPT !.t3101 = FALSE, !.active = FALSE]
  <2>1. d \in BS2Channels /\ d.entry = bs2[t].entry /\ d.ref = bs2[t].ref
        /\ d.loop = bs2[t].loop /\ d.up = bs2[t].up /\ d.n = bs2[t].n
    BY <1>1 DEF BS2Channels
  <2>2. bs2' = [bs2 EXCEPT ![t] = d] /\ UNCHANGED <<bs1, holdoff, made, asked, net, phone, sip>>
    BY <1>1, <1>2 DEF T3101Expires, TypeOK
  <2> HIDE DEF d
  <2>3. QED
    BY <1>1, <2>1, <2>2, Stays, FarQuiet
<1>3. CASE T3103Expires(t)
  <2> DEFINE d == [bs2[t] EXCEPT !.t3103 = FALSE, !.ref = None]
  <2>1. d \in BS2Channels /\ d.entry = bs2[t].entry /\ d.ref = None
        /\ d.loop = bs2[t].loop /\ d.up = bs2[t].up /\ d.n = bs2[t].n
    BY <1>1 DEF BS2Channels
  <2>2. bs2' = [bs2 EXCEPT ![t] = d] /\ UNCHANGED <<bs1, holdoff, made, asked, net, phone, sip>>
    BY <1>1, <1>3 DEF T3103Expires, TypeOK
  <2>3. ChannelShaped(d)
    BY <1>1, <2>1 DEF ChannelShaped
  <2> HIDE DEF d
  <2>4. QED
    BY <2>1, <2>2, <2>3, FarQuiet
<1>4. CASE Stuck(t)
  <2> DEFINE e == [bs2[t].entry EXCEPT !.stuck = TRUE]
             d == [bs2[t] EXCEPT !.entry = e]
  <2>1. bs2[t].entry \in Entries /\ bs2[t].loop = "idle" /\ bs2[t].ref = None
    BY <1>4, At DEF Stuck
  <2>2. e \in Entries
    BY <2>1 DEF Entries
  <2>3. e # None
    BY <2>2, NoneAssumption DEF Entries, Ids
  <2> HIDE DEF e
  <2>4. d \in BS2Channels /\ d.entry = e /\ d.ref = None /\ d.loop = "idle"
    BY <1>1, <2>1, <2>2 DEF BS2Channels
  <2>5. bs2' = [bs2 EXCEPT ![t] = d] /\ UNCHANGED <<bs1, holdoff, made, asked, net, phone, sip>>
    BY <1>1, <1>4 DEF Stuck, TypeOK, e
  <2>6. ChannelShaped(d)
    BY <2>3, <2>4 DEF ChannelShaped
  <2> HIDE DEF d
  <2>7. QED
    BY <2>4, <2>5, <2>6, FarQuiet
<1>5. QED
  BY <1>2, <1>3, <1>4

(* The fields of a channel whose loop goes on, by what the step writes.     *)
LEMMA Written ==
  ASSUME NEW c \in BS2Channels, ChannelShaped(c), c.loop # "idle",
         NEW u \in Seq(Prims), NEW n \in 0..Resends,
         NEW l \in {"access", "failing", "machine", "sip", "completing", "call", "closing"},
         l = "access" => n # 0
  PROVE  LET d == [c EXCEPT !.up = u, !.loop = l, !.n = n]
         IN  d \in BS2Channels /\ ChannelShaped(d)
<1> DEFINE d == [c EXCEPT !.up = u, !.loop = l, !.n = n]
<1>1. d \in BS2Channels /\ d.entry = c.entry /\ d.ref = c.ref /\ d.loop = l /\ d.n = n
  BY DEF BS2Channels
<1>2. c.entry # None /\ c.ref = None
  BY DEF ChannelShaped
<1>3. QED
  BY <1>1, <1>2 DEF ChannelShaped

LEMMA StartAccessTyped ==
  ASSUME TInv, NEW t \in Tch, StartAccess(t) PROVE TInv'
<1>1. bs2[t] \in BS2Channels /\ ChannelShaped(bs2[t]) /\ TypeOK /\ NetOK /\ Shaped
  BY At DEF TInv
<1>2. bs2[t].up # <<>> /\ bs2[t].entry # None
  BY <1>1 DEF StartAccess, ChannelShaped
<1>3. bs2[t].entry \in Entries
  BY <1>2, At
<1> DEFINE c == [bs2[t] EXCEPT !.up = Tail(@), !.ref = None, !.t3103 = FALSE]
<1>4. c \in BS2Channels /\ c.entry = bs2[t].entry /\ c.ref = None
  BY <1>1, <1>2, Popped DEF BS2Channels
<1>5. ASSUME NEW l \in {"access", "failing"}, NEW n \in 0..Resends, l = "access" => n # 0
      PROVE  [c EXCEPT !.loop = l, !.n = n] \in BS2Channels
             /\ ChannelShaped([c EXCEPT !.loop = l, !.n = n])
  <2> DEFINE d == [c EXCEPT !.loop = l, !.n = n]
  <2> HIDE DEF c
  <2>1. d \in BS2Channels /\ d.entry = c.entry /\ d.ref = c.ref /\ d.loop = l /\ d.n = n
    BY <1>4 DEF BS2Channels
  <2> HIDE DEF d
  <2>2. ChannelShaped(d)
    BY <1>2, <1>4, <1>5, <2>1 DEF ChannelShaped
  <2>3. QED
    BY <2>1, <2>2 DEF d
<1>6. Resends \in 0..Resends /\ Resends # 0 /\ Resends - 1 \in 0..Resends
  BY CountAssumption
<1>7. sip' \in [Calls -> {"BS1", "BS2", "over"}] /\ UNCHANGED <<bs1, holdoff, made, asked>>
  BY <1>1 DEF StartAccess, TypeOK
<1>8. CASE bs2' = [bs2 EXCEPT ![t] = [c EXCEPT !.loop = "access", !.n = Resends]] /\ UNCHANGED <<net, phone>>
  <2>1. [c EXCEPT !.loop = "access", !.n = Resends] \in BS2Channels
        /\ ChannelShaped([c EXCEPT !.loop = "access", !.n = Resends])
    BY <1>5, <1>6
  <2> HIDE DEF c
  <2>2. QED
    BY <1>1, <1>7, <1>8, <2>1, SameNet, FarSameHandsets
<1>9. CASE /\ bs2' = [bs2 EXCEPT ![t] = [c EXCEPT !.loop = "failing", !.n = Resends - 1]]
           /\ net' = net \cup {IND("FAILURE", c.entry.id)}
           /\ phone' = [k \in Calls |-> IF phone[k].at = "heard" /\ phone[k].to.ch = t
                                         THEN [phone[k] EXCEPT !.at = "moving"] ELSE phone[k]]
  <2>1. [c EXCEPT !.loop = "failing", !.n = Resends - 1] \in BS2Channels
        /\ ChannelShaped([c EXCEPT !.loop = "failing", !.n = Resends - 1])
    BY <1>5, <1>6
  <2> HIDE DEF c
  <2>2. NetOK'
    BY <1>1, <1>2, <1>4, <1>7, <1>9, Indicates
  <2>3. phone' \in [Calls -> Handsets]
    BY <1>1, <1>9 DEF TypeOK, Handsets
  <2>4. \A k \in Calls : phone'[k].at \in {"moving", "heard", "BS2"} => phone'[k].to # None
    BY <1>1, <1>9 DEF TypeOK, Handsets, Shaped
  <2>5. QED
    BY <1>7, <1>9, <2>1, <2>2, <2>3, <2>4, FarTyped
<1>10. QED
  BY <1>8, <1>9 DEF StartAccess

LEMMA ReadAccessTyped ==
  ASSUME TInv, NEW t \in Tch, ReadAccess(t) PROVE TInv'
<1>1. bs2[t] \in BS2Channels /\ ChannelShaped(bs2[t]) /\ TypeOK /\ NetOK
  BY At DEF TInv
<1>2. bs2[t].up # <<>> /\ bs2[t].loop = "access"
  BY DEF ReadAccess
<1>3. bs2[t].entry # None
  BY <1>1, <1>2 DEF ChannelShaped
<1> DEFINE u == Tail(bs2[t].up)
           d(l, n) == [bs2[t] EXCEPT !.up = u, !.loop = l, !.n = n]
<1>4. u \in Seq(Prims)
  BY <1>1, <1>2, Popped
<1>5. \A n \in 0..Resends : \A l \in {"access", "failing", "machine"} :
        (l = "access" => n # 0) => d(l, n) \in BS2Channels /\ ChannelShaped(d(l, n))
  <2> HIDE DEF u
  <2>1. QED
    BY <1>1, <1>2, <1>4, Written
<1>6. 0 \in 0..Resends /\ Resends - 1 \in 0..Resends /\ bs2[t].n \in 0..Resends /\ bs2[t].n # 0
  BY <1>1, <1>2, CountAssumption DEF BS2Channels, ChannelShaped
<1>7. /\ UNCHANGED <<bs1, holdoff, made, asked, phone, sip>>
      /\ sip' \in [Calls -> {"BS1", "BS2", "over"}]
  BY <1>1 DEF ReadAccess, TypeOK
<1>8. CASE Head(bs2[t].up) = "ACCESS"
  <2>1. bs2' = [bs2 EXCEPT ![t] = [bs2[t] EXCEPT !.up = u]] /\ UNCHANGED net
    BY <1>8 DEF ReadAccess
  <2>2. [bs2[t] EXCEPT !.up = u] = d("access", bs2[t].n)
    BY <1>1, <1>2 DEF BS2Channels
  <2> HIDE DEF d
  <2>3. QED
    BY <1>1, <1>5, <1>6, <1>7, <2>1, <2>2, SameNet, FarSameHandsets
<1>9. CASE Head(bs2[t].up) = "ESTABLISH"
  <2>1. bs2' = [bs2 EXCEPT ![t] = d("machine", 0)] /\ UNCHANGED net
    BY <1>1, <1>9 DEF ReadAccess, BS2Channels
  <2> HIDE DEF d
  <2>2. QED
    BY <1>1, <1>5, <1>6, <1>7, <2>1, SameNet, FarSameHandsets
<1>10. CASE Head(bs2[t].up) \notin {"ACCESS", "ESTABLISH"}
  <2>1. /\ bs2' = [bs2 EXCEPT ![t] = d("failing", Resends - 1)]
        /\ net' = net \cup {IND("FAILURE", bs2[t].entry.id)}
    BY <1>1, <1>10 DEF ReadAccess, BS2Channels
  <2>2. NetOK'
    BY <1>1, <1>3, <1>7, <2>1, Indicates
  <2> HIDE DEF d
  <2>3. QED
    BY <1>1, <1>5, <1>6, <1>7, <2>1, <2>2, FarSameHandsets
<1>11. QED
  BY <1>8, <1>9, <1>10

(* A step of a running loop, as the fields that it writes.                  *)
LEMMA LoopTyped ==
  ASSUME TInv, NEW t \in Tch, bs2[t].loop # "idle",
         NEW u \in Seq(Prims), NEW n \in 0..Resends,
         NEW l \in {"access", "failing", "machine", "sip", "completing", "call", "closing"},
         l = "access" => n # 0,
         bs2' = [bs2 EXCEPT ![t] = [bs2[t] EXCEPT !.up = u, !.loop = l, !.n = n]],
         UNCHANGED <<bs1, holdoff, made, asked, phone>>, NetOK',
         sip' \in [Calls -> {"BS1", "BS2", "over"}]
  PROVE  TInv'
<1> DEFINE d == [bs2[t] EXCEPT !.up = u, !.loop = l, !.n = n]
<1>1. d \in BS2Channels /\ ChannelShaped(d)
  BY At, Written
<1>2. bs2' = [bs2 EXCEPT ![t] = d]
  OBVIOUS
<1> HIDE DEF d
<1>3. QED
  BY <1>1, <1>2, FarSameHandsets

LEMMA InLoop ==
  ASSUME TInv, NEW t \in Tch, bs2[t].loop # "idle"
  PROVE  /\ bs2[t] \in BS2Channels /\ bs2[t].up \in Seq(Prims) /\ bs2[t].n \in 0..Resends
         /\ bs2[t].entry # None /\ bs2[t].entry \in Entries /\ bs2[t].entry.id \in Ids
         /\ bs2[t].entry.call \in Calls
         /\ Resends - 1 \in 0..Resends /\ 0 \in 0..Resends
         /\ bs2[t].n # 0 => bs2[t].n - 1 \in 0..Resends
         /\ bs2[t].loop = "access" => bs2[t].n # 0
<1>1. bs2[t] \in BS2Channels /\ bs2[t].entry # None /\ bs2[t].entry \in Entries
  BY At DEF ChannelShaped
<1>2. bs2[t].up \in Seq(Prims) /\ bs2[t].n \in 0..Resends
  BY <1>1 DEF BS2Channels
<1>3. bs2[t].entry.id \in Ids /\ bs2[t].entry.call \in Calls
  BY <1>1 DEF Entries
<1>4. bs2[t].loop = "access" => bs2[t].n # 0
  BY At DEF ChannelShaped
<1>5. QED
  BY <1>1, <1>2, <1>3, <1>4, CountAssumption

LEMMA T3105Typed ==
  ASSUME TInv, NEW t \in Tch, T3105Expires(t) PROVE TInv'
<1>1. bs2[t].loop = "access" /\ TypeOK /\ NetOK
  BY DEF T3105Expires, TInv
<1>2. /\ bs2[t] \in BS2Channels /\ bs2[t].up \in Seq(Prims) /\ bs2[t].n \in 0..Resends
      /\ bs2[t].entry # None /\ Resends - 1 \in 0..Resends
      /\ bs2[t].n # 0 => bs2[t].n - 1 \in 0..Resends
  BY <1>1, InLoop
<1>3. /\ UNCHANGED <<bs1, holdoff, made, asked, phone, sip>>
      /\ sip' \in [Calls -> {"BS1", "BS2", "over"}]
  BY <1>1 DEF T3105Expires, TypeOK
<1>4. CASE bs2[t].n > 1
  <2>1. bs2' = [bs2 EXCEPT ![t] = [bs2[t] EXCEPT !.up = bs2[t].up, !.loop = "access", !.n = bs2[t].n - 1]]
    <3>1. bs2' = [bs2 EXCEPT ![t] = OneLess(bs2[t])]
      BY <1>4 DEF T3105Expires
    <3>2. OneLess(bs2[t]) = [bs2[t] EXCEPT !.up = bs2[t].up, !.loop = "access", !.n = bs2[t].n - 1]
      BY <1>1, <1>2 DEF OneLess, BS2Channels
    <3>3. QED
      BY <3>1, <3>2
  <2>2. NetOK'
    BY <1>1, <1>3, <1>4, SameNet DEF T3105Expires
  <2>3. bs2[t].n # 0 /\ bs2[t].n - 1 # 0 /\ bs2[t].n - 1 \in 0..Resends
    BY <1>2, <1>4
  <2>4. QED
    BY <1>1, <1>2, <1>3, <2>1, <2>2, <2>3, LoopTyped
<1>5. CASE ~(bs2[t].n > 1)
  <2>1. bs2' = [bs2 EXCEPT ![t] = [bs2[t] EXCEPT !.up = bs2[t].up, !.loop = "failing", !.n = Resends - 1]]
    BY <1>1, <1>2, <1>5 DEF T3105Expires, TypeOK, BS2Channels
  <2>2. NetOK'
    BY <1>1, <1>2, <1>3, <1>5, Indicates DEF T3105Expires
  <2>3. QED
    BY <1>1, <1>2, <1>3, <2>1, <2>2, LoopTyped
<1>6. QED
  BY <1>4, <1>5

LEMMA MachineTyped ==
  ASSUME TInv, NEW t \in Tch,
         ReadComplete(t) \/ MachineTimeout(t) \/ DialogEnds(t) \/ LosesRadio(t)
  PROVE  TInv'
<1>1. bs2[t].loop # "idle" /\ TypeOK /\ NetOK
  BY DEF ReadComplete, MachineTimeout, DialogEnds, LosesRadio, TInv
<1>2. bs2[t] \in BS2Channels /\ bs2[t].up \in Seq(Prims) /\ bs2[t].n \in 0..Resends
  BY <1>1, InLoop
<1>3. /\ UNCHANGED <<bs1, holdoff, made, asked, net, phone, sip>>
      /\ sip' \in [Calls -> {"BS1", "BS2", "over"}]
  BY <1>1 DEF ReadComplete, MachineTimeout, DialogEnds, LosesRadio, TypeOK
<1>4. NetOK'
  BY <1>1, <1>3, SameNet
<1>5. CASE ReadComplete(t)
  <2>1. bs2[t].up # <<>> /\ Answer(Head(bs2[t].up)) \in {"sip", "closing"}
    BY <1>5 DEF ReadComplete, Answer
  <2>2. Tail(bs2[t].up) \in Seq(Prims)
    BY <1>2, <2>1, Popped
  <2>3. bs2' = [bs2 EXCEPT ![t] = [bs2[t] EXCEPT !.up = Tail(bs2[t].up), !.loop = Answer(Head(bs2[t].up)),
                                                 !.n = bs2[t].n]]
    BY <1>1, <1>2, <1>5 DEF ReadComplete, TypeOK, BS2Channels
  <2>4. QED
    BY <1>1, <1>2, <1>3, <1>4, <2>1, <2>2, <2>3, LoopTyped
<1>6. CASE bs2' = [bs2 EXCEPT ![t].loop = "closing"]
  <2>1. bs2' = [bs2 EXCEPT ![t] = [bs2[t] EXCEPT !.up = bs2[t].up, !.loop = "closing", !.n = bs2[t].n]]
    BY <1>1, <1>2, <1>6 DEF TypeOK, BS2Channels
  <2>2. QED
    BY <1>1, <1>2, <1>3, <1>4, <2>1, LoopTyped
<1>7. QED
  BY <1>5, <1>6 DEF MachineTimeout, DialogEnds, LosesRadio

LEMMA DialogActiveTyped ==
  ASSUME TInv, NEW t \in Tch, DialogActive(t) PROVE TInv'
<1>1. bs2[t].loop = "sip" /\ TypeOK /\ NetOK
  BY DEF DialogActive, TInv
<1>2. /\ bs2[t] \in BS2Channels /\ bs2[t].up \in Seq(Prims) /\ bs2[t].entry # None
      /\ bs2[t].entry.call \in Calls /\ Resends - 1 \in 0..Resends
  BY <1>1, InLoop
<1>3. sip' \in [Calls -> {"BS1", "BS2", "over"}]
  BY <1>1, <1>2 DEF DialogActive, TypeOK
<1>4. NetOK'
  BY <1>1, <1>2, Indicates DEF DialogActive
<1>5. bs2' = [bs2 EXCEPT ![t] = [bs2[t] EXCEPT !.up = bs2[t].up, !.loop = "completing", !.n = Resends - 1]]
  BY <1>1, <1>2 DEF DialogActive, TypeOK, BS2Channels
<1>6. UNCHANGED <<bs1, holdoff, made, asked, phone>>
  BY DEF DialogActive
<1>7. QED
  BY <1>1, <1>2, <1>3, <1>4, <1>5, <1>6, LoopTyped

LEMMA AckTyped ==
  ASSUME TInv, NEW t \in Tch, Acknowledged(t) \/ ResendTimeout(t) PROVE TInv'
<1>1. bs2[t].loop \in {"completing", "failing"} /\ TypeOK /\ NetOK
  BY DEF Acknowledged, ResendTimeout, TInv
<1>2. /\ bs2[t] \in BS2Channels /\ bs2[t].up \in Seq(Prims) /\ bs2[t].n \in 0..Resends /\ bs2[t].entry # None
      /\ 0 \in 0..Resends
      /\ bs2[t].n # 0 => bs2[t].n - 1 \in 0..Resends
  BY <1>1, InLoop
<1>3. /\ UNCHANGED <<bs1, holdoff, made, asked, phone, sip>>
      /\ sip' \in [Calls -> {"BS1", "BS2", "over"}]
  BY <1>1 DEF Acknowledged, ResendTimeout, TypeOK
<1>4. AfterAck(bs2[t].loop) \in {"call", "closing"}
  BY DEF AfterAck
<1>5. CASE Acknowledged(t)
  <2>1. bs2' = [bs2 EXCEPT ![t] = [bs2[t] EXCEPT !.up = bs2[t].up, !.loop = AfterAck(bs2[t].loop), !.n = 0]]
    BY <1>1, <1>2, <1>5 DEF Acknowledged, TypeOK, BS2Channels
  <2>2. NetOK'
    BY <1>1, <1>3, <1>5, NoNewRequest DEF Acknowledged, NetOK
  <2>3. QED
    BY <1>1, <1>2, <1>3, <1>4, <2>1, <2>2, LoopTyped
<1>6. CASE ResendTimeout(t) /\ bs2[t].n # 0
  <2>1. PICK kind \in {"COMPLETE", "FAILURE"} : net' = net \cup {IND(kind, bs2[t].entry.id)}
    BY <1>1, <1>6 DEF ResendTimeout, LastTry
  <2>2. NetOK'
    BY <1>1, <1>2, <1>3, <2>1, Indicates
  <2>3. bs2' = [bs2 EXCEPT ![t] = [bs2[t] EXCEPT !.up = bs2[t].up, !.loop = bs2[t].loop, !.n = bs2[t].n - 1]]
    BY <1>1, <1>2, <1>6 DEF ResendTimeout, LastTry, OneLess, TypeOK, BS2Channels
  <2>4. QED
    BY <1>1, <1>2, <1>3, <1>6, <2>2, <2>3, LoopTyped
<1>7. CASE ResendTimeout(t) /\ bs2[t].n = 0
  <2>1. bs2' = [bs2 EXCEPT ![t] = [bs2[t] EXCEPT !.up = bs2[t].up, !.loop = AfterAck(bs2[t].loop), !.n = bs2[t].n]]
    BY <1>1, <1>2, <1>7 DEF ResendTimeout, LastTry, TypeOK, BS2Channels
  <2>2. NetOK'
    BY <1>1, <1>3, <1>7, SameNet DEF ResendTimeout, LastTry
  <2>3. QED
    BY <1>1, <1>2, <1>3, <1>4, <2>1, <2>2, LoopTyped
<1>8. QED
  BY <1>5, <1>6, <1>7

LEMMA CloseTyped ==
  ASSUME TInv, NEW t \in Tch, Close(t) PROVE TInv'
<1>1. TypeOK /\ NetOK /\ Shaped
  BY DEF TInv
<1>2. NewChan \in BS2Channels /\ ChannelShaped(NewChan)
  BY CountAssumption DEF NewChan, BS2Channels, ChannelShaped
<1>3. sip' \in [Calls -> {"BS1", "BS2", "over"}]
  BY <1>1 DEF Close, TypeOK
<1>4. \A k \in Calls : Lost(phone[k]) \in Handsets /\ Lost(phone[k]).at = "lost"
  BY <1>1, Objects, LostType
<1>5. phone' \in [Calls -> Handsets]
  BY <1>1, <1>4 DEF Close, TypeOK
<1>6. \A k \in Calls : phone'[k].at \in {"moving", "heard", "BS2"} => phone'[k].to # None
  BY <1>1, <1>4 DEF Close, Shaped
<1>7. NetOK'
  BY <1>1, SameNet DEF Close
<1>8. QED
  BY <1>2, <1>3, <1>5, <1>6, <1>7, FarTyped DEF Close

-----------------------------------------------------------------------------
(* What a handset does on a channel of BS2.                                 *)
LEMMA HeardTyped ==
  ASSUME NEW c \in BS2Channels, ChannelShaped(c), c.entry # None, NEW p \in Prims
  PROVE  /\ Heard(c, p) \in BS2Channels /\ ChannelShaped(Heard(c, p))
         /\ Heard(c, p).entry = c.entry /\ Heard(c, p).loop = c.loop /\ Heard(c, p).ref = c.ref
         /\ Heard(c, p).up = Append(c.up, p)
<1>1. Append(c.up, p) \in Seq(Prims)
  BY DEF BS2Channels
<1>2. Heard(c, p) = [c EXCEPT !.up = Append(c.up, p), !.t3101 = FALSE]
  BY DEF Heard, BS2Channels
<1> HIDE DEF Heard
<1>3. /\ Heard(c, p) \in BS2Channels /\ Heard(c, p).up = Append(c.up, p) /\ Heard(c, p).n = c.n
      /\ Heard(c, p).entry = c.entry /\ Heard(c, p).loop = c.loop /\ Heard(c, p).ref = c.ref
  BY <1>1, <1>2 DEF BS2Channels
<1>4. QED
  BY <1>3 DEF ChannelShaped

LEMMA OnItsWay ==
  ASSUME TInv, NEW k \in Calls, phone[k].at \in {"moving", "heard", "BS2"}
  PROVE  phone[k].to \in Targets /\ phone[k].to.ch \in Tch /\ phone[k].to.ref \in 0..RefSpace - 1
BY DEF TInv, TypeOK, Shaped, Handsets, Targets

LEMMA SendsTyped ==
  ASSUME TInv, NEW k \in Calls, SendAccess(k) \/ SendSabm(k) \/ SendComplete(k)
  PROVE  TInv'
<1> DEFINE t == phone[k].to.ch
<1>1. TypeOK /\ NetOK /\ Shaped /\ phone[k] \in Handsets
  BY Objects DEF TInv
<1>2. phone[k].to \in Targets /\ t \in Tch /\ phone[k].to.ref \in 0..RefSpace - 1
  BY OnItsWay DEF SendAccess, SendSabm, SendComplete, Moving
<1>3. phone[k].to.ref # None /\ phone[k].to # None
  BY <1>2, NoneAssumption
<1>4. UNCHANGED <<bs1, holdoff, made, asked, net, sip>> /\ sip' \in [Calls -> {"BS1", "BS2", "over"}]
  BY <1>1 DEF SendAccess, SendSabm, SendComplete, TypeOK
<1>5. NetOK'
  BY <1>1, <1>4, SameNet
<1>6. bs2[t] \in BS2Channels /\ ChannelShaped(bs2[t])
  BY <1>2, At
<1>7. ASSUME NEW p \in Handsets, p.to = phone[k].to, phone' = [phone EXCEPT ![k] = p]
      PROVE  /\ phone' \in [Calls -> Handsets]
             /\ \A j \in Calls : phone'[j].at \in {"moving", "heard", "BS2"} => phone'[j].to # None
  BY <1>1, <1>3, <1>7, HandsetChanges
<1>8. CASE SendAccess(k)
  <2> DEFINE c == [Heard(bs2[t], "ACCESS") EXCEPT !.t3103 = FALSE]
             p == [phone[k] EXCEPT !.at = "heard"]
  <2>1. bs2[t].ref = phone[k].to.ref /\ bs2' = [bs2 EXCEPT ![t] = c]
    BY <1>8 DEF SendAccess, Awaits
  <2>2. bs2[t].entry # None
    BY <1>3, <1>6, <2>1 DEF ChannelShaped
  <2>3. Heard(bs2[t], "ACCESS") \in BS2Channels /\ ChannelShaped(Heard(bs2[t], "ACCESS"))
    BY <1>6, <2>2, HeardTyped DEF Prims
  <2>4. c \in BS2Channels /\ ChannelShaped(c)
    BY <2>3 DEF BS2Channels, ChannelShaped
  <2>5. p \in Handsets /\ p.to = phone[k].to /\ phone' = [phone EXCEPT ![k] = p]
    BY <1>1, <1>8 DEF SendAccess, TypeOK, Handsets
  <2> HIDE DEF c, p, t
  <2>6. QED
    BY <1>2, <1>4, <1>5, <1>7, <2>1, <2>4, <2>5, FarTyped
<1>9. CASE SendSabm(k)
  <2> DEFINE c == Heard(bs2[t], "ESTABLISH")
             p == [phone[k] EXCEPT !.at = "BS2"]
  <2>1. bs2[t].loop = "access" /\ bs2' = [bs2 EXCEPT ![t] = c]
    BY <1>9 DEF SendSabm
  <2>2. bs2[t].entry # None
    BY <1>6, <2>1 DEF ChannelShaped
  <2>3. c \in BS2Channels /\ ChannelShaped(c)
    BY <1>6, <2>2, HeardTyped DEF Prims
  <2>4. p \in Handsets /\ p.to = phone[k].to /\ phone' = [phone EXCEPT ![k] = p]
    BY <1>1, <1>9 DEF SendSabm, TypeOK, Handsets
  <2> HIDE DEF c, p, t
  <2>5. QED
    BY <1>2, <1>4, <1>5, <1>7, <2>1, <2>3, <2>4, FarTyped
<1>10. CASE SendComplete(k)
  <2>1. PICK q \in {"COMPLETE", "OTHER"} :
          /\ bs2[t].loop \in {"access", "machine"} /\ bs2' = [bs2 EXCEPT ![t] = Heard(bs2[t], q)]
          /\ phone' = [phone EXCEPT ![k].came = (q = "COMPLETE")]
    BY <1>10 DEF SendComplete
  <2> DEFINE c == Heard(bs2[t], q)
             p == [phone[k] EXCEPT !.came = (q = "COMPLETE")]
  <2>2. bs2[t].entry # None
    BY <1>6, <2>1 DEF ChannelShaped
  <2>3. c \in BS2Channels /\ ChannelShaped(c) /\ bs2' = [bs2 EXCEPT ![t] = c]
    BY <1>6, <2>1, <2>2, HeardTyped DEF Prims
  <2>4. p \in Handsets /\ p.to = phone[k].to /\ phone' = [phone EXCEPT ![k] = p]
    BY <1>1, <2>1 DEF TypeOK, Handsets
  <2> HIDE DEF c, p, t
  <2>5. QED
    BY <1>2, <1>4, <1>5, <1>7, <2>3, <2>4, FarTyped
<1>11. QED
  BY <1>8, <1>9, <1>10

-----------------------------------------------------------------------------
(* processHandoverRequest.                                                  *)
LEMMA LcStartTyped ==
  ASSUME NEW c \in BS2Channels, ChannelShaped(c)
  PROVE  /\ LcStart(c) \in BS2Channels /\ ChannelShaped(LcStart(c))
         /\ LcStart(c).up = <<>> /\ LcStart(c).t3101
         /\ LcStart(c).entry = c.entry /\ LcStart(c).loop = c.loop /\ LcStart(c).ref = c.ref
<1>1. LcStart(c) = [c EXCEPT !.active = TRUE, !.t3101 = TRUE, !.up = <<>>]
  BY DEF LcStart
<1>2. <<>> \in Seq(Prims)
  OBVIOUS
<1>3. /\ LcStart(c) \in BS2Channels /\ LcStart(c).up = <<>> /\ LcStart(c).t3101 /\ LcStart(c).n = c.n
      /\ LcStart(c).entry = c.entry /\ LcStart(c).loop = c.loop /\ LcStart(c).ref = c.ref
  BY <1>1, <1>2 DEF BS2Channels
<1>4. QED
  BY <1>3 DEF ChannelShaped

(* The transaction of a new handover.                                       *)
NewEntry(k) == [id |-> made + 1, call |-> k, ref |-> (made + 1) % RefSpace, stuck |-> FALSE]

LEMMA InboundTyped ==
  ASSUME TypeOK, NEW k \in Calls, made < MaxRequests,
         NEW c \in BS2Channels, c.loop = "idle"
  PROVE  /\ Inbound(c, k) \in BS2Channels /\ ChannelShaped(Inbound(c, k))
         /\ Inbound(c, k).entry = NewEntry(k) /\ NewEntry(k) \in Entries /\ NewEntry(k) # None
         /\ Inbound(c, k).loop = "idle" /\ Inbound(c, k).ref = NewEntry(k).ref
         /\ (made + 1) % RefSpace \in 0..RefSpace - 1 /\ made + 1 \in Ids
<1>1. made \in Nat /\ made + 1 \in Ids
  BY CountAssumption DEF TypeOK, Ids
<1>2. (made + 1) % RefSpace \in 0..RefSpace - 1
  BY <1>1, CountAssumption
<1> DEFINE r == (made + 1) % RefSpace
           e == NewEntry(k)
<1>3. e \in Entries /\ e.ref = r
  BY <1>1, <1>2 DEF NewEntry, Entries
<1>4. e # None
  BY <1>3, NoneAssumption DEF Entries, Ids
<1>5. Inbound(c, k) = [c EXCEPT !.t3103 = TRUE, !.ref = r, !.entry = e]
  BY DEF Inbound, NewEntry
<1>6. r \in 0..RefSpace - 1
  BY <1>2
<1> HIDE DEF r, e
<1>7. Inbound(c, k) \in BS2Channels /\ Inbound(c, k).entry = e /\ Inbound(c, k).ref = r
      /\ Inbound(c, k).loop = "idle"
  BY <1>3, <1>5, <1>6 DEF BS2Channels
<1>8. ChannelShaped(Inbound(c, k))
  BY <1>3, <1>4, <1>7 DEF ChannelShaped
<1>9. QED
  BY <1>1, <1>3, <1>4, <1>6, <1>7, <1>8 DEF r, e

(* A step that takes a request from the network leaves it one less.         *)
LEMMA OneRequestLess ==
  ASSUME TypeOK, NetOK, NEW k \in Calls, REQ(k) \in net, UNCHANGED asked,
         NEW x \in Datagrams, x.kind = "RSP", net' = (net \ {REQ(k)}) \cup {x},
         made' \in {made, made + 1}
  PROVE  NetOK' /\ made < MaxRequests
<1>1. REQ(k) \in Asks /\ REQ(k) \in Datagrams
  BY DEF Asks, REQ, NetOK
<1>2. Asks' = Asks \ {REQ(k)}
  BY DEF Asks, REQ
<1>3. IsFiniteSet(Asks') /\ Cardinality(Asks') = Cardinality(Asks) - 1
  BY <1>1, <1>2, FS_RemoveElement DEF NetOK
<1>4. Cardinality(Asks) \in Nat /\ Cardinality(Asks') \in Nat /\ made \in Nat /\ asked \in 0..MaxRequests
  BY <1>3, FS_CardinalityType, CountAssumption DEF NetOK, TypeOK, Ids
<1>5. QED
  BY <1>3, <1>4, CountAssumption DEF NetOK

LEMMA RequestTyped ==
  ASSUME TInv, NEW k \in Calls, Request(k) PROVE TInv'
<1>1. TypeOK /\ NetOK /\ Shaped
  BY DEF TInv
<1>2. REQ(k) \in net /\ UNCHANGED <<bs1, holdoff, asked, phone, sip>>
  BY DEF Request
<1>3. /\ sip' \in [Calls -> {"BS1", "BS2", "over"}] /\ phone' \in [Calls -> Handsets]
      /\ \A j \in Calls : phone'[j].at \in {"moving", "heard", "BS2"} => phone'[j].to # None
      /\ bs1' \in [Calls -> BS1Calls] /\ holdoff' \in BOOLEAN /\ asked' \in 0..MaxRequests
      /\ \A j \in Calls : bs1'[j].state = "HandoverOutbound" => bs1'[j].cmd # None
  BY <1>1, <1>2 DEF TypeOK, Shaped
<1>4. ASSUME NEW cmd \in Targets \cup {None}
      PROVE  RSP(k, cmd) \in Datagrams /\ RSP(k, cmd).kind = "RSP"
  BY DEF RSP, Datagrams
<1>5. ASSUME NEW t \in Tch, NEW c \in BS2Channels, ChannelShaped(c), bs2' = [bs2 EXCEPT ![t] = c],
             NetOK', made' \in Ids \cup {0}
      PROVE  TInv'
  <2>1. bs2' \in [Tch -> BS2Channels] /\ \A u \in Tch : ChannelShaped(bs2'[u])
    BY <1>1, <1>5 DEF TypeOK, Shaped
  <2>2. TypeOK'
    BY <1>3, <1>5, <2>1 DEF TypeOK
  <2>3. Shaped'
    BY <1>3, <2>1 DEF Shaped
  <2>4. QED
    BY <1>5, <2>2, <2>3 DEF TInv
<1>6. ASSUME NEW t \in Found(k), bs2' = [bs2 EXCEPT ![t] = LcStart(bs2[t])], made' = made,
             net' = (net \ {REQ(k)}) \cup {RSP(k, [ch |-> t, ref |-> bs2[t].entry.ref])}
      PROVE  TInv'
  <2>1. t \in Tch /\ bs2[t].entry # None
    BY DEF Found
  <2>2. bs2[t].entry.ref \in 0..RefSpace - 1
    BY <2>1, At DEF Entries
  <2>3. [ch |-> t, ref |-> bs2[t].entry.ref] \in Targets
    BY <2>1, <2>2 DEF Targets
  <2>4. NetOK'
    BY <1>1, <1>2, <1>4, <1>6, <2>3, OneRequestLess
  <2>5. LcStart(bs2[t]) \in BS2Channels /\ ChannelShaped(LcStart(bs2[t]))
    BY <2>1, At, LcStartTyped
  <2>6. made' \in Ids \cup {0}
    BY <1>1, <1>6 DEF TypeOK
  <2>7. QED
    BY <1>5, <1>6, <2>1, <2>4, <2>5, <2>6
<1>7. ASSUME NEW t \in Tch, Free(t), bs2' = [bs2 EXCEPT ![t] = LcStart(Inbound(bs2[t], k))], made' = made + 1,
             net' = (net \ {REQ(k)}) \cup {RSP(k, [ch |-> t, ref |-> (made + 1) % RefSpace])}
      PROVE  TInv'
  <2>1. (made + 1) % RefSpace \in 0..RefSpace - 1
    BY <1>1, CountAssumption DEF TypeOK, Ids
  <2>2. [ch |-> t, ref |-> (made + 1) % RefSpace] \in Targets
    BY <2>1 DEF Targets
  <2>3. NetOK' /\ made < MaxRequests
    BY <1>1, <1>2, <1>4, <1>7, <2>2, OneRequestLess
  <2>4. Inbound(bs2[t], k) \in BS2Channels /\ ChannelShaped(Inbound(bs2[t], k)) /\ made + 1 \in Ids
    BY <1>1, <1>7, <2>3, At, InboundTyped DEF Free
  <2>5. LcStart(Inbound(bs2[t], k)) \in BS2Channels /\ ChannelShaped(LcStart(Inbound(bs2[t], k)))
    BY <2>4, LcStartTyped
  <2>6. QED
    BY <1>5, <1>7, <2>3, <2>4, <2>5
<1>8. ASSUME net' = (net \ {REQ(k)}) \cup {RSP(k, None)}, UNCHANGED <<bs2, made>>
      PROVE  TInv'
  <2>1. NetOK'
    BY <1>1, <1>2, <1>4, <1>8, OneRequestLess
  <2>2. TypeOK'
    BY <1>1, <1>2, <1>8 DEF TypeOK
  <2>3. Shaped'
    BY <1>1, <1>2, <1>8 DEF Shaped
  <2>4. QED
    BY <2>1, <2>2, <2>3 DEF TInv
<1>9. QED
  BY <1>6, <1>7, <1>8 DEF Request

LEMMA StutterTyped == ASSUME TInv, UNCHANGED vars PROVE TInv'
<1>1. TypeOK'
  BY DEF TInv, TypeOK, vars
<1>2. NetOK'
  BY SameNet DEF TInv, vars
<1>3. Shaped'
  BY DEF TInv, Shaped, vars
<1>4. QED
  BY <1>1, <1>2, <1>3 DEF TInv

LEMMA NextTyped == ASSUME TInv, [Next]_vars PROVE TInv'
<1>1. CASE UNCHANGED vars
  BY <1>1, StutterTyped
<1>2. ASSUME NEW k \in Calls, \/ Measure(k) \/ Ages(k) \/ Response(k) \/ Request(k) \/ Loop1(k)
                              \/ SendAccess(k) \/ SendSabm(k) \/ SendComplete(k)
                              \/ TurnsBack(k) \/ Vanishes(k) \/ Talks(k) \/ HangsUp(k)
      PROVE  TInv'
  BY <1>2, MeasureTyped, ResponseTyped, RequestTyped, SendsTyped, Near1, Near2, Near3 DEF Loop1
<1>3. ASSUME NEW t \in Tch, \/ Loop2(t) \/ DialogActive(t) \/ DialogEnds(t)
                            \/ T3101Expires(t) \/ T3103Expires(t) \/ Stuck(t)
      PROVE  TInv'
  BY <1>3, StartAccessTyped, ReadAccessTyped, T3105Typed, MachineTyped, DialogActiveTyped, AckTyped,
     CloseTyped, TimersTyped DEF Loop2
<1>4. CASE Indication \/ Lose
  BY <1>4, IndicationTyped, LoseTyped
<1>5. CASE HoldoffPasses
  <2>1. TypeOK /\ NetOK /\ Shaped
    BY DEF TInv
  <2>2. UNCHANGED <<bs1, bs2, made, asked, net, phone, sip>> /\ holdoff' = FALSE
    BY <1>5 DEF HoldoffPasses
  <2>3. TypeOK'
    BY <2>1, <2>2 DEF TypeOK
  <2>4. NetOK' /\ Shaped'
    BY <2>1, <2>2, SameNet DEF Shaped
  <2>5. QED
    BY <2>3, <2>4 DEF TInv
<1>6. QED
  BY <1>1, <1>2, <1>3, <1>4, <1>5 DEF Next

(* Whatever the timing, the fields of both stations, of the network and of  *)
(* the handsets have their types: the transactions of BS2 never outnumber   *)
(* the requests of BS1, a loop that has been started has a transaction.     *)
THEOREM TypeCorrect == Spec => []TypeOK
<1>1. Init => TInv
  BY InitTyped
<1>2. TInv /\ [Next]_vars => TInv'
  BY NextTyped
<1>3. TInv => TypeOK
  BY DEF TInv
<1>4. QED
  BY <1>1, <1>2, <1>3, PTL DEF Spec

-----------------------------------------------------------------------------
(* References.  Up to RefSpace transactions bear different ones.            *)
LEMMA RefsDiffer ==
  ASSUME NEW m \in Nat, m + 1 <= RefSpace, NEW i \in 1..m
  PROVE  (m + 1) % RefSpace # i % RefSpace
<1>1. RefSpace \in Nat \ {0}
  BY CountAssumption
<1>2. \A n \in Nat : n < RefSpace => n % RefSpace = n
  BY <1>1
<1>3. i \in Nat /\ i < RefSpace /\ i # 0 /\ i < m + 1
  BY <1>1
<1>4. i % RefSpace = i
  BY <1>2, <1>3
<1>5. CASE m + 1 < RefSpace
  BY <1>2, <1>3, <1>4, <1>5
<1>6. CASE m + 1 = RefSpace
  <2>1. RefSpace % RefSpace = 0
    BY <1>1
  <2>2. QED
    BY <1>3, <1>4, <1>6, <2>1
<1>7. QED
  BY <1>1, <1>5, <1>6

(* A step that gives no call a reference that it had not.                   *)
LEMMA NothingGiven ==
  ASSUME TInv, OwnRefs, made' = made,
         \A k \in Calls, r \in 0..RefSpace - 1 : Given(k, r)' => Given(k, r)
  PROVE  OwnRefs'
BY DEF OwnRefs

(* The simple case: whatever bears a reference keeps it or is gone.         *)
LEMMA OnlyForgotten ==
  ASSUME TInv, OwnRefs, made' = made,
         \A m \in net' : m.kind = "RSP" => m \in net,
         \A k \in Calls : bs1'[k].cmd \in {bs1[k].cmd, None},
         \A k \in Calls : phone'[k].to \in {phone[k].to, None},
         \A t \in Tch : bs2'[t].entry # None =>
            /\ bs2[t].entry # None
            /\ bs2'[t].entry.call = bs2[t].entry.call /\ bs2'[t].entry.ref = bs2[t].entry.ref
  PROVE  OwnRefs'
<1>1. ASSUME NEW k \in Calls, NEW r \in 0..RefSpace - 1, Given(k, r)' PROVE Given(k, r)
  <2>1. CASE \E m \in net' : m.kind = "RSP" /\ m.call = k /\ m.cmd # None /\ m.cmd.ref = r
    BY <2>1 DEF Given
  <2>2. CASE bs1'[k].cmd # None /\ bs1'[k].cmd.ref = r
    BY <2>2 DEF Given
  <2>3. CASE phone'[k].to # None /\ phone'[k].to.ref = r
    BY <2>3 DEF Given
  <2>4. CASE \E t \in Tch : bs2'[t].entry # None /\ bs2'[t].entry.call = k /\ bs2'[t].entry.ref = r
    <3>1. PICK t \in Tch : bs2'[t].entry # None /\ bs2'[t].entry.call = k /\ bs2'[t].entry.ref = r
      BY <2>4
    <3>2. bs2[t].entry # None /\ bs2[t].entry.call = k /\ bs2[t].entry.ref = r
      BY <3>1
    <3>3. QED
      BY <3>2 DEF Given
  <2>5. QED
    BY <1>1, <2>1, <2>2, <2>3, <2>4 DEF Given
<1>2. QED
  BY <1>1, NothingGiven

(* processHandoverResponse takes the reference from a response.             *)
LEMMA ResponseRefs ==
  ASSUME TInv, OwnRefs, NEW k \in Calls, Response(k) PROVE OwnRefs'
<1>1. PICK m \in net :
        /\ m.kind = "RSP" /\ m.call = k
        /\ bs1' = IF m.cmd = None \/ bs1[k].state = "Deleted" THEN bs1
                  ELSE [bs1 EXCEPT ![k].cmd = m.cmd, ![k].state = "HandoverOutbound", ![k].old = FALSE]
        /\ net' = net \ {m}
        /\ UNCHANGED <<holdoff, bs2, made, asked, phone, sip>>
  BY DEF Response
<1>2. TypeOK /\ \A j \in Calls : bs1[j] \in BS1Calls
  BY Objects DEF TInv
<1>3. \A j \in Calls : bs1'[j].cmd = bs1[j].cmd \/ (j = k /\ bs1'[j].cmd = m.cmd /\ m.cmd # None)
  BY <1>1, <1>2 DEF TypeOK, BS1Calls
<1>4. ASSUME NEW j \in Calls, NEW r \in 0..RefSpace - 1, Given(j, r)' PROVE Given(j, r)
  BY <1>1, <1>3, <1>4 DEF Given
<1>5. QED
  BY <1>1, <1>4, NothingGiven

(* The handset takes it from the command of its call.                       *)
LEMMA TransferRefs ==
  ASSUME TInv, OwnRefs, NEW k \in Calls, TransferStart(k) PROVE OwnRefs'
<1>1. TypeOK /\ bs1[k].cmd # None /\ \A j \in Calls : bs1[j] \in BS1Calls
  BY Objects DEF TInv, TransferStart, Shaped
<1>2. \A j \in Calls : bs1'[j].cmd = bs1[j].cmd
  BY <1>1 DEF TransferStart, TypeOK, BS1Calls
<1>3. \A j \in Calls : phone'[j].to = phone[j].to \/ (j = k /\ phone'[j].to = bs1[k].cmd)
  BY <1>1 DEF TransferStart, TypeOK
<1>4. UNCHANGED <<net, bs2, made>>
  BY DEF TransferStart
<1>5. ASSUME NEW j \in Calls, NEW r \in 0..RefSpace - 1, Given(j, r)' PROVE Given(j, r)
  BY <1>1, <1>2, <1>3, <1>4, <1>5 DEF Given
<1>6. QED
  BY <1>4, <1>5, NothingGiven

(* processHandoverRequest: the reference of the transaction that it finds,  *)
(* or one that no transaction has had.                                      *)
LEMMA FoundRefs ==
  ASSUME TInv, OwnRefs, NEW k \in Calls, NEW t \in Found(k),
         bs2' = [bs2 EXCEPT ![t] = LcStart(bs2[t])],
         net' = (net \ {REQ(k)}) \cup {RSP(k, [ch |-> t, ref |-> bs2[t].entry.ref])},
         UNCHANGED <<bs1, phone, made>>
  PROVE  OwnRefs'
<1>1. t \in Tch /\ bs2[t].entry # None /\ bs2[t].entry.call = k
  BY DEF Found
<1>2. LcStart(bs2[t]).entry = bs2[t].entry
  BY <1>1, At, LcStartTyped
<1>3. \A u \in Tch : bs2'[u].entry = bs2[u].entry
  BY <1>1, <1>2 DEF TInv, TypeOK
<1>4. ASSUME NEW j \in Calls, NEW r \in 0..RefSpace - 1, Given(j, r)' PROVE Given(j, r)
  <2>1. CASE \E m \in net' : m.kind = "RSP" /\ m.call = j /\ m.cmd # None /\ m.cmd.ref = r
    <3>1. PICK m \in net' : m.kind = "RSP" /\ m.call = j /\ m.cmd # None /\ m.cmd.ref = r
      BY <2>1
    <3>2. CASE m \in net
      BY <3>1, <3>2 DEF Given
    <3>3. CASE m = RSP(k, [ch |-> t, ref |-> bs2[t].entry.ref])
      BY <1>1, <3>1, <3>3 DEF Given, RSP
    <3>4. QED
      BY <3>1, <3>2, <3>3
  <2>2. CASE ~\E m \in net' : m.kind = "RSP" /\ m.call = j /\ m.cmd # None /\ m.cmd.ref = r
    BY <1>3, <1>4, <2>2 DEF Given
  <2>3. QED
    BY <2>1, <2>2
<1>5. QED
  BY <1>4, NothingGiven

LEMMA NewRefs ==
  ASSUME TInv, OwnRefs, MaxRequests <= RefSpace, NEW k \in Calls, NEW t \in Tch, made < MaxRequests,
         bs2[t].loop = "idle", bs2' = [bs2 EXCEPT ![t] = LcStart(Inbound(bs2[t], k))], made' = made + 1,
         net' = (net \ {REQ(k)}) \cup {RSP(k, [ch |-> t, ref |-> (made + 1) % RefSpace])},
         UNCHANGED <<bs1, phone>>
  PROVE  OwnRefs'
<1> DEFINE new == (made + 1) % RefSpace
<1>1. made \in Nat /\ made + 1 <= RefSpace
  BY CountAssumption DEF TInv, TypeOK, Ids
<1>2. \A i \in 1..made : new # i % RefSpace
  BY <1>1, RefsDiffer
<1>3. LcStart(Inbound(bs2[t], k)).entry = NewEntry(k)
  BY At, InboundTyped, LcStartTyped DEF TInv
<1>4. /\ bs2'[t].entry.call = k /\ bs2'[t].entry.ref = new
      /\ \A u \in Tch \ {t} : bs2'[u] = bs2[u]
  BY <1>3 DEF TInv, TypeOK, NewEntry
<1>5. \A m \in net' : m.kind = "RSP" => m \in net \/ (m.call = k /\ m.cmd.ref = new)
  BY DEF RSP
<1> HIDE DEF new
<1>6. ASSUME NEW j \in Calls, NEW r \in 0..RefSpace - 1, Given(j, r)'
      PROVE  Given(j, r) \/ (j = k /\ r = new)
  <2>1. CASE \E m \in net' : m.kind = "RSP" /\ m.call = j /\ m.cmd # None /\ m.cmd.ref = r
    BY <1>5, <2>1 DEF Given
  <2>2. CASE \E u \in Tch : bs2'[u].entry # None /\ bs2'[u].entry.call = j /\ bs2'[u].entry.ref = r
    BY <1>4, <2>2 DEF Given
  <2>3. CASE (bs1[j].cmd # None /\ bs1[j].cmd.ref = r) \/ (phone[j].to # None /\ phone[j].to.ref = r)
    BY <2>3 DEF Given
  <2>4. QED
    BY <1>6, <2>1, <2>2, <2>3 DEF Given
<1>7. \A j \in Calls, r \in 0..RefSpace - 1 : Given(j, r) => r # new /\ \E i \in 1..made' : r = i % RefSpace
  BY <1>1, <1>2 DEF OwnRefs
<1>8. \E i \in 1..made' : new = i % RefSpace
  BY <1>1 DEF new
<1>9. QED
  BY <1>6, <1>7, <1>8 DEF OwnRefs

-----------------------------------------------------------------------------
(* Where the handsets are.  Steps of BS1, of the network, of the remote     *)
(* party that touch neither channels nor handsets.                          *)
Served == OnChannel /\ Dialogs

LEMMA ElsewhereServed ==
  ASSUME Served, UNCHANGED <<bs2, phone>>, \A k \in Calls : sip'[k] = "BS2" => sip[k] = "BS2"
  PROVE  Served'
BY DEF Served, OnChannel, Dialogs, Serves

LEMMA Elsewhere ==
  ASSUME TInv, OwnRefs, Served,
         \/ \E k \in Calls : \/ Measure(k) \/ Ages(k) \/ TransferRead(k) \/ ReadFrame(k)
                             \/ ReadBye(k) \/ Talks(k) \/ HangsUp(k) \/ RadioFailure(k)
         \/ Indication \/ HoldoffPasses \/ Lose \/ UNCHANGED vars
  PROVE  OwnRefs' /\ Served'
<1>1. /\ UNCHANGED <<bs2, phone, made>>
      /\ \A k \in Calls : sip'[k] = "BS2" => sip[k] = "BS2"
  BY DEF Measure, Ages, TransferRead, ReadFrame, ReadBye, Talks, HangsUp, RadioFailure, Indication,
         HoldoffPasses, Lose, vars, TInv, TypeOK
<1>2. \A m \in net' : m.kind = "RSP" => m \in net
  <2>1. CASE net' \subseteq net
    BY <2>1
  <2>2. ASSUME NEW k \in Calls, Measure(k) PROVE \A m \in net' : m.kind = "RSP" => m \in net
    BY <2>2 DEF Measure, REQ
  <2>3. CASE Indication
    BY <2>3 DEF Indication, ACK
  <2>4. CASE Lose \/ HoldoffPasses \/ UNCHANGED vars
    BY <2>1, <2>4 DEF Lose, HoldoffPasses, vars
  <2>5. ASSUME NEW k \in Calls, \/ Ages(k) \/ TransferRead(k) \/ ReadFrame(k) \/ ReadBye(k) \/ Talks(k)
                                \/ HangsUp(k) \/ RadioFailure(k)
        PROVE  net' = net
    BY <2>5 DEF Ages, TransferRead, ReadFrame, ReadBye, Talks, HangsUp, RadioFailure
  <2>6. QED
    BY <2>1, <2>2, <2>3, <2>4, <2>5
<1>3. \A j \in Calls : bs1'[j].cmd \in {bs1[j].cmd, None}
  <2>1. \A j \in Calls : bs1[j] \in BS1Calls /\ bs1 \in [Calls -> BS1Calls]
    BY DEF TInv, TypeOK
  <2>2. CASE UNCHANGED bs1
    BY <2>2
  <2>3. ASSUME NEW k \in Calls, Ages(k) \/ TransferRead(k) PROVE \A j \in Calls : bs1'[j].cmd = bs1[j].cmd
    <3>1. CASE Ages(k)
      BY <2>1, <3>1 DEF Ages, BS1Calls
    <3>2. CASE TransferRead(k)
      BY <2>1, <3>2 DEF TransferRead, BS1Calls
    <3>3. QED
      BY <2>3, <3>1, <3>2
  <2>4. ASSUME NEW k \in Calls, ReadFrame(k) \/ ReadBye(k) \/ Talks(k) \/ HangsUp(k)
        PROVE  \A j \in Calls : bs1'[j].cmd = bs1[j].cmd
    <3>1. CASE ReadFrame(k)
      BY <2>1, <3>1 DEF ReadFrame, BS1Calls
    <3>2. CASE ReadBye(k)
      BY <2>1, <3>2 DEF ReadBye, BS1Calls
    <3>3. CASE Talks(k)
      BY <2>1, <3>3 DEF Talks, BS1Calls
    <3>4. CASE HangsUp(k)
      <4>1. bs1' = bs1 \/ bs1' = [bs1 EXCEPT ![k].bye = TRUE]
        BY <3>4 DEF HangsUp
      <4>2. CASE bs1' = [bs1 EXCEPT ![k].bye = TRUE]
        BY <2>1, <4>2 DEF BS1Calls
      <4>3. QED
        BY <4>1, <4>2
    <3>5. QED
      BY <2>4, <3>1, <3>2, <3>3, <3>4
  <2>5. ASSUME NEW k \in Calls, RadioFailure(k) PROVE \A j \in Calls : bs1'[j].cmd \in {bs1[j].cmd, None}
    BY <2>1, <2>5 DEF RadioFailure, Deleted
  <2>6. QED
    BY <2>2, <2>3, <2>4, <2>5 DEF Measure, Indication, HoldoffPasses, Lose, vars
<1>4. OwnRefs'
  BY <1>1, <1>2, <1>3, OnlyForgotten
<1>5. QED
  BY <1>1, <1>4, ElsewhereServed

(* A handset that leaves, or that no channel of BS2 has heard.              *)
Leaves(p, q) ==
    /\ q.at \in {"BS1", "moving", "lost"}
    /\ p.at \in {"BS2", "lost"} => q.at = "lost" /\ q.came = p.came
    /\ q.came => p.came

LEMMA LeavesServed ==
  ASSUME TInv, Served, NEW k \in Calls, UNCHANGED <<bs2, sip>>,
         \A j \in Calls \ {k} : phone'[j] = phone[j], Leaves(phone[k], phone'[k])
  PROVE  Served'
<1>1. \A j \in Calls : /\ phone[j].at \in {"BS2", "lost"} => phone'[j].at \in {"BS2", "lost"}
                       /\ phone[j].came <=> phone'[j].came
                       /\ phone'[j].at \in {"heard", "BS2"} => phone'[j] = phone[j]
  BY DEF Leaves, Served, Dialogs
<1>2. \A t \in Tch : bs2[t].entry # None => bs2[t].entry.call \in Calls
  BY At DEF Entries
<1>3. \A t \in Tch : bs2[t].loop = "sip" \/ bs2[t].up # <<>> => bs2[t].entry # None
  BY At DEF ChannelShaped
<1>4. \A t \in Tch : \A i \in DOMAIN bs2[t].up : bs2[t].up # <<>>
  OBVIOUS
<1>5. OnChannel'
  <2>1. \A j \in Calls : phone'[j].at = "heard" =>
          /\ Serves(phone'[j].to.ch, j)
          /\ \/ bs2[phone'[j].to.ch].loop = "access"
             \/ /\ bs2[phone'[j].to.ch].loop = "idle"
                /\ bs2[phone'[j].to.ch].up # <<>> \/ bs2[phone'[j].to.ch].t3101
    BY <1>1 DEF Served, OnChannel
  <2>2. \A j \in Calls : phone'[j].at = "BS2" =>
          Serves(phone'[j].to.ch, j) /\ bs2[phone'[j].to.ch].loop # "idle"
    BY <1>1 DEF Served, OnChannel
  <2>3. \A t \in Tch : \A i \in DOMAIN bs2[t].up :
          /\ bs2[t].up[i] # "ACCESS" => phone'[bs2[t].entry.call].at \in {"BS2", "lost"}
          /\ bs2[t].up[i] = "COMPLETE" => phone'[bs2[t].entry.call].came
    BY <1>1, <1>2, <1>3, <1>4 DEF Served, OnChannel
  <2>4. QED
    BY <2>1, <2>2, <2>3 DEF OnChannel, Serves
<1>6. Dialogs'
  BY <1>1, <1>2, <1>3 DEF Served, Dialogs, Leaves
<1>7. QED
  BY <1>5, <1>6 DEF Served

LEMMA Departures ==
  ASSUME TInv, OwnRefs, Served, NEW k \in Calls,
         TransferStart(k) \/ TransferTimeout(k) \/ ClearingEnds(k) \/ TurnsBack(k) \/ Vanishes(k)
  PROVE  OwnRefs' /\ Served'
<1>1. TypeOK /\ phone[k] \in Handsets /\ bs1[k] \in BS1Calls
  BY Objects DEF TInv
<1>2. phone[k].at \notin {"BS2", "lost"} => ~phone[k].came
  BY DEF Served, Dialogs
<1>3. UNCHANGED <<bs2, sip, made, net>>
  BY DEF TransferStart, TransferTimeout, ClearingEnds, TurnsBack, Vanishes
<1>4. /\ Lost(phone[k]) \in Handsets /\ Lost(phone[k]).at = "lost" /\ Lost(phone[k]).came = phone[k].came
      /\ Lost(phone[k]).to = None
  BY <1>1, LostType
<1>5. /\ Served'
      /\ TransferStart(k) \/ \A j \in Calls : phone'[j].to \in {phone[j].to, None}
  <2>1. CASE phone' = phone
    BY <1>3, <2>1, ElsewhereServed
  <2>2. CASE phone' = [phone EXCEPT ![k] = Lost(phone[k])]
    <3>1. phone'[k] = Lost(phone[k]) /\ \A j \in Calls \ {k} : phone'[j] = phone[j]
      BY <1>1, <2>2 DEF TypeOK
    <3>2. Leaves(phone[k], phone'[k])
      BY <1>4, <3>1 DEF Leaves
    <3>3. QED
      BY <1>3, <1>4, <3>1, <3>2, LeavesServed
  <2>3. CASE Moving(k) /\ phone' = [phone EXCEPT ![k].at = "BS1", ![k].to = None]
    <3>1. phone'[k] = [phone[k] EXCEPT !.at = "BS1", !.to = None] /\ \A j \in Calls \ {k} : phone'[j] = phone[j]
      BY <1>1, <2>3 DEF TypeOK, Handsets
    <3>2. phone'[k].at = "BS1" /\ phone'[k].to = None /\ phone'[k].came = phone[k].came
      BY <1>1, <3>1 DEF Handsets
    <3>3. Leaves(phone[k], phone'[k])
      BY <2>3, <3>2 DEF Leaves, Moving
    <3>4. QED
      BY <1>3, <3>1, <3>2, <3>3, LeavesServed
  <2>4. CASE TransferStart(k) /\ phone[k].at = "BS1"
             /\ phone' = [phone EXCEPT ![k] = [at |-> "moving", to |-> bs1[k].cmd, came |-> FALSE]]
    <3>1. /\ phone'[k] = [at |-> "moving", to |-> bs1[k].cmd, came |-> FALSE]
          /\ \A j \in Calls \ {k} : phone'[j] = phone[j]
      BY <1>1, <2>4 DEF TypeOK
    <3>2. Leaves(phone[k], phone'[k])
      BY <2>4, <3>1 DEF Leaves
    <3>3. QED
      BY <1>3, <2>4, <3>1, <3>2, LeavesServed
  <2>5. QED
    BY <2>1, <2>2, <2>3, <2>4 DEF TransferStart, TransferTimeout, ClearingEnds, TurnsBack, Vanishes
<1>6. OwnRefs'
  <2>1. CASE TransferStart(k)
    BY <2>1, TransferRefs
  <2>2. CASE ~TransferStart(k)
    <3>1. \A j \in Calls : bs1'[j].cmd \in {bs1[j].cmd, None}
      BY <1>1, <2>2, Objects DEF TransferTimeout, ClearingEnds, TurnsBack, Vanishes, Deleted, TypeOK, BS1Calls
    <3>2. QED
      BY <1>3, <1>5, <2>2, <3>1, OnlyForgotten
  <2>3. QED
    BY <2>1, <2>2
<1>7. QED
  BY <1>5, <1>6

-----------------------------------------------------------------------------
(* A channel of BS2 that goes on with its transaction.                      *)
LEMMA ChannelServed ==
  ASSUME TInv, OwnRefs, Served, NEW t \in Tch, NEW c \in BS2Channels,
         \A u \in Tch \ {t} : bs2'[u] = bs2[u], bs2'[t] = c,
         UNCHANGED <<bs1, phone, made>>, \A m \in net' : m.kind = "RSP" => m \in net,
         bs2[t].entry # None =>
            c.entry # None /\ c.entry.call = bs2[t].entry.call /\ c.entry.ref = bs2[t].entry.ref,
         bs2[t].entry = None => c.entry = None,
         \A i \in DOMAIN c.up : \E j \in DOMAIN bs2[t].up : c.up[i] = bs2[t].up[j],
         \/ c.loop = "access"
         \/ c.loop = "idle" /\ (c.up # <<>> \/ c.t3101)
         \/ \A k \in Calls : phone[k].at = "heard" => phone[k].to.ch # t,
         bs2[t].loop # "idle" => c.loop # "idle",
         c.loop = "sip" => bs2[t].loop # "idle" /\ (bs2[t].loop = "sip" \/ phone[bs2[t].entry.call].came),
         \A k \in Calls : sip'[k] = "BS2" => sip[k] = "BS2" \/ phone[k].came
  PROVE  OwnRefs' /\ Served'
<1>1. OwnRefs'
  BY OnlyForgotten
<1>2. \A k \in Calls : phone[k].at \in {"heard", "BS2"} => phone[k].to.ch \in Tch
  BY OnItsWay
<1>3. \A u \in Tch, k \in Calls : Serves(u, k) => bs2'[u].entry # None /\ bs2'[u].entry.call = k
  BY DEF Serves
<1>4. ASSUME NEW k \in Calls, phone[k].at = "heard", NEW u, u = phone[k].to.ch
      PROVE  /\ bs2'[u].entry # None /\ bs2'[u].entry.call = k
             /\ \/ bs2'[u].loop = "access"
                \/ bs2'[u].loop = "idle" /\ (bs2'[u].up # <<>> \/ bs2'[u].t3101)
  <2>1. u \in Tch
    BY <1>2, <1>4
  <2>2. bs2'[u].entry # None /\ bs2'[u].entry.call = k
    BY <1>3, <1>4, <2>1 DEF Served, OnChannel
  <2>3. CASE u = t
    BY <1>4, <2>2, <2>3
  <2>4. CASE u # t
    BY <1>4, <2>1, <2>2, <2>4 DEF Served, OnChannel
  <2>5. QED
    BY <2>3, <2>4
<1>5. ASSUME NEW k \in Calls, phone[k].at = "BS2", NEW u, u = phone[k].to.ch
      PROVE  bs2'[u].entry # None /\ bs2'[u].entry.call = k /\ bs2'[u].loop # "idle"
  <2>1. u \in Tch
    BY <1>2, <1>5
  <2>2. Serves(u, k) /\ bs2[u].loop # "idle"
    BY <1>5 DEF Served, OnChannel
  <2>3. QED
    BY <1>3, <2>1, <2>2
<1>6. ASSUME NEW u \in Tch, NEW i \in DOMAIN bs2'[u].up
      PROVE  /\ bs2'[u].up[i] # "ACCESS" => phone[bs2'[u].entry.call].at \in {"BS2", "lost"}
             /\ bs2'[u].up[i] = "COMPLETE" => phone[bs2'[u].entry.call].came
  <2>1. CASE u # t
    BY <1>6, <2>1 DEF Served, OnChannel
  <2>2. CASE u = t
    <3>1. PICK j \in DOMAIN bs2[t].up : c.up[i] = bs2[t].up[j]
      BY <1>6, <2>2
    <3>2. bs2[t].entry # None
      BY <3>1, At DEF ChannelShaped
    <3>3. /\ bs2[t].up[j] # "ACCESS" => phone[bs2[t].entry.call].at \in {"BS2", "lost"}
          /\ bs2[t].up[j] = "COMPLETE" => phone[bs2[t].entry.call].came
      BY <3>1 DEF Served, OnChannel
    <3>4. QED
      BY <2>2, <3>1, <3>2, <3>3
  <2>3. QED
    BY <2>1, <2>2
<1>7. OnChannel'
  BY <1>4, <1>5, <1>6 DEF OnChannel, Serves
<1>8. \A u \in Tch : bs2'[u].loop = "sip" => phone'[bs2'[u].entry.call].came
  <2>1. SUFFICES ASSUME bs2'[t].loop = "sip" PROVE phone'[bs2'[t].entry.call].came
    BY DEF Served, Dialogs
  <2>2. bs2[t].entry # None
    BY <2>1, At DEF ChannelShaped
  <2>3. phone[bs2[t].entry.call].came
    BY <2>1 DEF Served, Dialogs
  <2>4. QED
    BY <2>2, <2>3
<1>9. Dialogs'
  BY <1>8 DEF Served, Dialogs
<1>10. QED
  BY <1>1, <1>7, <1>9 DEF Served

LEMMA TailOf ==
  ASSUME NEW q \in Seq(Prims), q # <<>>
  PROVE  /\ \A i \in DOMAIN Tail(q) : \E j \in DOMAIN q : Tail(q)[i] = q[j]
         /\ 1 \in DOMAIN q /\ Head(q) = q[1]
<1>1. \A i \in DOMAIN Tail(q) : i + 1 \in DOMAIN q /\ Tail(q)[i] = q[i + 1]
  OBVIOUS
<1>2. QED
  BY <1>1

(* A running loop that writes its fields, see LoopTyped.                    *)
LEMMA LoopServed ==
  ASSUME TInv, OwnRefs, Served, NEW t \in Tch, bs2[t].loop # "idle",
         NEW u, u = bs2[t].up \/ (bs2[t].up # <<>> /\ u = Tail(bs2[t].up)),
         NEW n \in 0..Resends,
         NEW l \in {"access", "failing", "machine", "sip", "completing", "call", "closing"},
         bs2' = [bs2 EXCEPT ![t] = [bs2[t] EXCEPT !.up = u, !.loop = l, !.n = n]],
         UNCHANGED <<bs1, made, phone>>, \A m \in net' : m.kind = "RSP" => m \in net,
         l = "access" \/ \A k \in Calls : phone[k].at = "heard" => phone[k].to.ch # t,
         l = "sip" => bs2[t].loop = "sip" \/ phone[bs2[t].entry.call].came,
         \A k \in Calls : sip'[k] = "BS2" => sip[k] = "BS2" \/ phone[k].came
  PROVE  OwnRefs' /\ Served'
<1> DEFINE c == [bs2[t] EXCEPT !.up = u, !.loop = l, !.n = n]
<1>1. bs2[t] \in BS2Channels /\ ChannelShaped(bs2[t]) /\ bs2[t].up \in Seq(Prims) /\ bs2[t].entry # None
  BY At, InLoop
<1>2. u \in Seq(Prims)
  BY <1>1, Popped
<1>3. c \in BS2Channels /\ c.entry = bs2[t].entry /\ c.up = u /\ c.loop = l
  BY <1>1, <1>2 DEF BS2Channels
<1>4. bs2'[t] = c /\ \A v \in Tch \ {t} : bs2'[v] = bs2[v]
  BY DEF TInv, TypeOK
<1>5. \A i \in DOMAIN u : \E j \in DOMAIN bs2[t].up : u[i] = bs2[t].up[j]
  <2>1. CASE u = bs2[t].up
    BY <2>1
  <2>2. CASE bs2[t].up # <<>> /\ u = Tail(bs2[t].up)
    BY <1>1, <2>2, TailOf
  <2>3. QED
    BY <2>1, <2>2
<1> HIDE DEF c
<1>6. /\ bs2[t].entry # None =>
            c.entry # None /\ c.entry.call = bs2[t].entry.call /\ c.entry.ref = bs2[t].entry.ref
      /\ bs2[t].entry = None => c.entry = None
      /\ bs2[t].loop # "idle" => c.loop # "idle"
  BY <1>3
<1>7. \/ c.loop = "access"
      \/ c.loop = "idle" /\ (c.up # <<>> \/ c.t3101)
      \/ \A k \in Calls : phone[k].at = "heard" => phone[k].to.ch # t
  BY <1>3
<1>8. c.loop = "sip" => bs2[t].loop # "idle" /\ (bs2[t].loop = "sip" \/ phone[bs2[t].entry.call].came)
  BY <1>3
<1>9. \A i \in DOMAIN c.up : \E j \in DOMAIN bs2[t].up : c.up[i] = bs2[t].up[j]
  BY <1>3, <1>5
<1>10. c \in BS2Channels
  BY <1>3
<1>11. QED
  BY <1>4, <1>6, <1>7, <1>8, <1>9, <1>10, ChannelServed

(* Timers of seconds do not run out while a handset is on its way.          *)
LEMMA NobodyMoves ==
  ASSUME PromptNet, Prompt, NEW k \in Calls
  PROVE  phone[k].at # "heard"
BY DEF Prompt, Moving

LEMMA TimersServed ==
  ASSUME TInv, OwnRefs, Served, PromptNet, NEW t \in Tch,
         T3101Expires(t) \/ T3103Expires(t) \/ Stuck(t)
  PROVE  OwnRefs' /\ Served'
<1>1. bs2[t] \in BS2Channels /\ ChannelShaped(bs2[t]) /\ TypeOK
  BY At DEF TInv
<1>2. /\ \A k \in Calls : phone[k].at # "heard"
      /\ UNCHANGED <<bs1, made, net, phone, sip>>
  BY NobodyMoves DEF T3101Expires, T3103Expires, Stuck
<1>3. ASSUME NEW c \in BS2Channels, bs2' = [bs2 EXCEPT ![t] = c],
             c.loop = bs2[t].loop, c.up = bs2[t].up,
             bs2[t].entry # None =>
               c.entry # None /\ c.entry.call = bs2[t].entry.call /\ c.entry.ref = bs2[t].entry.ref,
             bs2[t].entry = None => c.entry = None
      PROVE  OwnRefs' /\ Served'
  <2>1. bs2'[t] = c /\ \A u \in Tch \ {t} : bs2'[u] = bs2[u]
    BY <1>1, <1>3 DEF TypeOK
  <2>2. \A i \in DOMAIN c.up : \E j \in DOMAIN bs2[t].up : c.up[i] = bs2[t].up[j]
    BY <1>3
  <2>3. QED
    BY <1>2, <1>3, <2>1, <2>2, ChannelServed
<1>4. CASE T3101Expires(t)
  <2> DEFINE c == [bs2[t] EXCEPT !.t3101 = FALSE, !.active = FALSE]
  <2>1. c \in BS2Channels /\ c.loop = bs2[t].loop /\ c.up = bs2[t].up /\ c.entry = bs2[t].entry
    BY <1>1 DEF BS2Channels
  <2>2. bs2' = [bs2 EXCEPT ![t] = c]
    BY <1>1, <1>4 DEF T3101Expires, TypeOK
  <2> HIDE DEF c
  <2>3. QED
    BY <1>3, <2>1, <2>2
<1>5. CASE T3103Expires(t)
  <2> DEFINE c == [bs2[t] EXCEPT !.t3103 = FALSE, !.ref = None]
  <2>1. c \in BS2Channels /\ c.loop = bs2[t].loop /\ c.up = bs2[t].up /\ c.entry = bs2[t].entry
    BY <1>1 DEF BS2Channels
  <2>2. bs2' = [bs2 EXCEPT ![t] = c]
    BY <1>1, <1>5 DEF T3103Expires, TypeOK
  <2> HIDE DEF c
  <2>3. QED
    BY <1>3, <2>1, <2>2
<1>6. CASE Stuck(t)
  <2> DEFINE e == [bs2[t].entry EXCEPT !.stuck = TRUE]
             c == [bs2[t] EXCEPT !.entry = e]
  <2>1. bs2[t].entry # None /\ bs2[t].entry \in Entries
    BY <1>6, At DEF Stuck
  <2>2. e \in Entries /\ e.call = bs2[t].entry.call /\ e.ref = bs2[t].entry.ref
    BY <2>1 DEF Entries
  <2>3. e # None
    BY <2>2, NoneAssumption DEF Entries, Ids
  <2> HIDE DEF e
  <2>4. c \in BS2Channels /\ c.loop = bs2[t].loop /\ c.up = bs2[t].up /\ c.entry = e
    BY <1>1, <2>2 DEF BS2Channels
  <2>5. bs2' = [bs2 EXCEPT ![t] = c]
    BY <1>1, <1>6 DEF Stuck, TypeOK, e
  <2> HIDE DEF c
  <2>6. QED
    BY <1>3, <2>1, <2>2, <2>3, <2>4, <2>5
<1>7. QED
  BY <1>4, <1>5, <1>6

LEMMA NotHeard ==
  ASSUME TInv, Served, NEW t \in Tch, bs2[t].loop \notin {"idle", "access"}, NEW k \in Calls
  PROVE  ~(phone[k].at = "heard" /\ phone[k].to.ch = t)
BY DEF Served, OnChannel

(* What has been sent on a channel is from the handset that it serves.      *)
LEMMA SentBy ==
  ASSUME TInv, Served, NEW t \in Tch, bs2[t].up # <<>>
  PROVE  /\ Head(bs2[t].up) # "ACCESS" => phone[bs2[t].entry.call].at \in {"BS2", "lost"}
         /\ Head(bs2[t].up) = "COMPLETE" => phone[bs2[t].entry.call].came
<1>1. bs2[t].up \in Seq(Prims)
  BY At DEF BS2Channels
<1>2. 1 \in DOMAIN bs2[t].up /\ Head(bs2[t].up) = bs2[t].up[1]
  BY <1>1, TailOf
<1>3. QED
  BY <1>2 DEF Served, OnChannel

LEMMA ReadAccessServed ==
  ASSUME TInv, OwnRefs, Served, NEW t \in Tch, ReadAccess(t) PROVE OwnRefs' /\ Served'
<1>1. /\ bs2[t].loop = "access" /\ bs2[t].up # <<>> /\ bs2[t].n \in 0..Resends /\ bs2[t].entry # None
      /\ bs2[t] \in BS2Channels /\ Resends - 1 \in 0..Resends /\ 0 \in 0..Resends
  BY InLoop DEF ReadAccess
<1>2. UNCHANGED <<bs1, made, phone, sip>>
  BY DEF ReadAccess
<1> DEFINE u == Tail(bs2[t].up)
<1>3. CASE Head(bs2[t].up) = "ACCESS"
  <2>1. bs2' = [bs2 EXCEPT ![t] = [bs2[t] EXCEPT !.up = u]] /\ UNCHANGED net
    BY <1>3 DEF ReadAccess
  <2>2. [bs2[t] EXCEPT !.up = u] = [bs2[t] EXCEPT !.up = u, !.loop = "access", !.n = bs2[t].n]
    BY <1>1 DEF BS2Channels
  <2>3. u = Tail(bs2[t].up)
    OBVIOUS
  <2> HIDE DEF u
  <2>4. bs2' = [bs2 EXCEPT ![t] = [bs2[t] EXCEPT !.up = u, !.loop = "access", !.n = bs2[t].n]]
    BY <2>1, <2>2
  <2>5. bs2[t].loop # "idle" /\ \A m \in net' : m.kind = "RSP" => m \in net
    BY <1>1, <2>1
  <2>6. \A k \in Calls : sip'[k] = "BS2" => sip[k] = "BS2" \/ phone[k].came
    BY <1>2
  <2>7. QED
    BY <1>1, <1>2, <2>3, <2>4, <2>5, <2>6, LoopServed
<1>4. ASSUME Head(bs2[t].up) # "ACCESS", NEW k \in Calls
      PROVE  phone[k].at = "heard" => phone[k].to.ch # t
  BY <1>4, <1>1, SentBy DEF Served, OnChannel, Serves
<1>5. CASE Head(bs2[t].up) = "ESTABLISH"
  <2>1. bs2' = [bs2 EXCEPT ![t] = [bs2[t] EXCEPT !.up = u, !.loop = "machine", !.n = 0]] /\ UNCHANGED net
    BY <1>1, <1>5 DEF ReadAccess, BS2Channels
  <2>2. u = Tail(bs2[t].up)
    OBVIOUS
  <2>3. \A k \in Calls : phone[k].at = "heard" => phone[k].to.ch # t
    BY <1>4, <1>5
  <2> HIDE DEF u
  <2>4. QED
    BY <1>1, <1>2, <2>1, <2>2, <2>3, LoopServed
<1>6. CASE Head(bs2[t].up) \notin {"ACCESS", "ESTABLISH"}
  <2>1. /\ bs2' = [bs2 EXCEPT ![t] = [bs2[t] EXCEPT !.up = u, !.loop = "failing", !.n = Resends - 1]]
        /\ net' = net \cup {IND("FAILURE", bs2[t].entry.id)}
    BY <1>1, <1>6 DEF ReadAccess, BS2Channels
  <2>2. \A m \in net' : m.kind = "RSP" => m \in net
    BY <2>1 DEF IND
  <2>3. u = Tail(bs2[t].up)
    OBVIOUS
  <2>4. \A k \in Calls : phone[k].at = "heard" => phone[k].to.ch # t
    BY <1>4, <1>6
  <2> HIDE DEF u
  <2>5. QED
    BY <1>1, <1>2, <2>1, <2>2, <2>3, <2>4, LoopServed
<1>7. QED
  BY <1>3, <1>5, <1>6

LEMMA T3105Served ==
  ASSUME TInv, OwnRefs, Served, PromptNet, NEW t \in Tch, T3105Expires(t) PROVE OwnRefs' /\ Served'
<1>1. /\ bs2[t].loop = "access" /\ bs2[t].n \in 0..Resends
      /\ bs2[t] \in BS2Channels /\ Resends - 1 \in 0..Resends
      /\ bs2[t].n # 0 /\ bs2[t].n - 1 \in 0..Resends
  BY InLoop DEF T3105Expires
<1>2. UNCHANGED <<bs1, made, phone, sip>> /\ \A m \in net' : m.kind = "RSP" => m \in net
  BY DEF T3105Expires, IND
<1>3. CASE bs2[t].n > 1
  <2>1. bs2' = [bs2 EXCEPT ![t] = OneLess(bs2[t])]
    BY <1>3 DEF T3105Expires
  <2>2. OneLess(bs2[t]) = [bs2[t] EXCEPT !.up = bs2[t].up, !.loop = "access", !.n = bs2[t].n - 1]
    BY <1>1 DEF OneLess, BS2Channels
  <2>3. bs2' = [bs2 EXCEPT ![t] = [bs2[t] EXCEPT !.up = bs2[t].up, !.loop = "access", !.n = bs2[t].n - 1]]
    BY <2>1, <2>2
  <2>4. QED
    BY <1>1, <1>2, <2>3, LoopServed
<1>4. CASE ~(bs2[t].n > 1)
  <2>1. bs2' = [bs2 EXCEPT ![t] = [bs2[t] EXCEPT !.up = bs2[t].up, !.loop = "failing", !.n = Resends - 1]]
    BY <1>1, <1>4 DEF T3105Expires, TInv, TypeOK, BS2Channels
  <2>2. bs2[t].n = 1
    BY <1>1, <1>4
  <2>3. \A k \in Calls : phone[k].at = "heard" => phone[k].to.ch # t
    BY <2>2 DEF T3105Expires, Moving
  <2>4. QED
    BY <1>1, <1>2, <2>1, <2>3, LoopServed
<1>5. QED
  BY <1>3, <1>4

LEMMA MachineServed ==
  ASSUME TInv, OwnRefs, Served, NEW t \in Tch,
         ReadComplete(t) \/ MachineTimeout(t) \/ DialogEnds(t) \/ LosesRadio(t)
  PROVE  OwnRefs' /\ Served'
<1>1. bs2[t].loop \notin {"idle", "access"}
  BY DEF ReadComplete, MachineTimeout, DialogEnds, LosesRadio
<1>2. bs2[t] \in BS2Channels /\ bs2[t].n \in 0..Resends
  BY <1>1, InLoop
<1>3. UNCHANGED <<bs1, made, net, phone, sip>>
  BY DEF ReadComplete, MachineTimeout, DialogEnds, LosesRadio
<1>4. \A k \in Calls : phone[k].at = "heard" => phone[k].to.ch # t
  BY <1>1, NotHeard
<1>5. CASE ReadComplete(t)
  <2> DEFINE l == Answer(Head(bs2[t].up))
  <2>1. bs2[t].up # <<>> /\ l \in {"sip", "closing"}
    BY <1>5 DEF ReadComplete, Answer
  <2>2. bs2' = [bs2 EXCEPT ![t] = [bs2[t] EXCEPT !.up = Tail(bs2[t].up), !.loop = l, !.n = bs2[t].n]]
    BY <1>2, <1>5 DEF ReadComplete, TInv, TypeOK, BS2Channels
  <2>3. l = "sip" => phone[bs2[t].entry.call].came
    BY <2>1, SentBy DEF Answer
  <2> HIDE DEF l
  <2>4. QED
    BY <1>1, <1>2, <1>3, <1>4, <2>1, <2>2, <2>3, LoopServed
<1>6. CASE bs2' = [bs2 EXCEPT ![t].loop = "closing"]
  <2>1. bs2' = [bs2 EXCEPT ![t] = [bs2[t] EXCEPT !.up = bs2[t].up, !.loop = "closing", !.n = bs2[t].n]]
    BY <1>2, <1>6 DEF TInv, TypeOK, BS2Channels
  <2>2. QED
    BY <1>1, <1>2, <1>3, <1>4, <2>1, LoopServed
<1>7. QED
  BY <1>5, <1>6 DEF MachineTimeout, DialogEnds, LosesRadio

(* dialogActive comes to a channel whose handset has sent HandoverComplete. *)
LEMMA DialogActiveServed ==
  ASSUME TInv, OwnRefs, Served, NEW t \in Tch, DialogActive(t) PROVE OwnRefs' /\ Served'
<1>1. bs2[t].loop = "sip"
  BY DEF DialogActive
<1>2. bs2[t] \in BS2Channels /\ Resends - 1 \in 0..Resends /\ bs2[t].entry.call \in Calls
  BY <1>1, InLoop
<1>3. UNCHANGED <<bs1, made, phone>> /\ \A m \in net' : m.kind = "RSP" => m \in net
  BY DEF DialogActive, IND
<1>4. \A k \in Calls : phone[k].at = "heard" => phone[k].to.ch # t
  BY <1>1, NotHeard
<1>5. phone[bs2[t].entry.call].came
  BY <1>1 DEF Served, Dialogs
<1>6. \A k \in Calls : sip'[k] = "BS2" => sip[k] = "BS2" \/ phone[k].came
  BY <1>2, <1>5 DEF DialogActive, TInv, TypeOK
<1>7. bs2' = [bs2 EXCEPT ![t] = [bs2[t] EXCEPT !.up = bs2[t].up, !.loop = "completing", !.n = Resends - 1]]
  BY <1>2 DEF DialogActive, TInv, TypeOK, BS2Channels
<1>8. QED
  BY <1>1, <1>2, <1>3, <1>4, <1>6, <1>7, LoopServed

LEMMA AckServed ==
  ASSUME TInv, OwnRefs, Served, NEW t \in Tch, Acknowledged(t) \/ ResendTimeout(t)
  PROVE  OwnRefs' /\ Served'
<1>1. bs2[t].loop \in {"completing", "failing"}
  BY DEF Acknowledged, ResendTimeout
<1>2. /\ bs2[t] \in BS2Channels /\ 0 \in 0..Resends /\ bs2[t].n \in 0..Resends
      /\ bs2[t].n # 0 => bs2[t].n - 1 \in 0..Resends
  BY <1>1, InLoop
<1>3. UNCHANGED <<bs1, made, phone, sip>> /\ \A m \in net' : m.kind = "RSP" => m \in net
  BY DEF Acknowledged, ResendTimeout, IND
<1>4. \A k \in Calls : phone[k].at = "heard" => phone[k].to.ch # t
  BY <1>1, NotHeard
<1>5. AfterAck(bs2[t].loop) \in {"call", "closing"}
  BY DEF AfterAck
<1>6. CASE Acknowledged(t)
  <2>1. bs2' = [bs2 EXCEPT ![t] = [bs2[t] EXCEPT !.up = bs2[t].up, !.loop = AfterAck(bs2[t].loop), !.n = 0]]
    BY <1>2, <1>6 DEF Acknowledged, TInv, TypeOK, BS2Channels
  <2>2. QED
    BY <1>1, <1>2, <1>3, <1>4, <1>5, <2>1, LoopServed
<1>7. CASE ResendTimeout(t) /\ bs2[t].n # 0
  <2>1. bs2' = [bs2 EXCEPT ![t] = [bs2[t] EXCEPT !.up = bs2[t].up, !.loop = bs2[t].loop, !.n = bs2[t].n - 1]]
    BY <1>2, <1>7 DEF ResendTimeout, LastTry, OneLess, TInv, TypeOK, BS2Channels
  <2>2. QED
    BY <1>1, <1>2, <1>3, <1>4, <1>7, <2>1, LoopServed
<1>8. CASE ResendTimeout(t) /\ bs2[t].n = 0
  <2>1. bs2' = [bs2 EXCEPT ![t] = [bs2[t] EXCEPT !.up = bs2[t].up, !.loop = AfterAck(bs2[t].loop), !.n = bs2[t].n]]
    BY <1>2, <1>8 DEF ResendTimeout, LastTry, TInv, TypeOK, BS2Channels
  <2>2. QED
    BY <1>1, <1>2, <1>3, <1>4, <1>5, <2>1, LoopServed
<1>9. QED
  BY <1>6, <1>7, <1>8

(* When a channel closes, the handset on it is lost.                        *)
LEMMA CloseServed ==
  ASSUME TInv, OwnRefs, Served, NEW t \in Tch, Close(t) PROVE OwnRefs' /\ Served'
<1>1. /\ bs2'[t] = NewChan /\ \A u \in Tch \ {t} : bs2'[u] = bs2[u]
      /\ UNCHANGED <<bs1, made, net>> /\ bs2[t].loop = "closing"
  BY DEF Close, TInv, TypeOK
<1>2. NewChan.entry = None /\ NewChan.up = <<>> /\ NewChan.loop = "idle"
  BY DEF NewChan
<1>3. \A k \in Calls :
        \/ phone'[k] = phone[k] /\ ~(phone[k].at = "BS2" /\ phone[k].to.ch = t)
        \/ /\ phone[k].at = "BS2" /\ phone'[k].at = "lost"
           /\ phone'[k].came = phone[k].came /\ phone'[k].to = None
  BY LostType, Objects DEF Close, TInv
<1>4. OwnRefs'
  <2>1. \A k \in Calls : phone'[k].to \in {phone[k].to, None}
    BY <1>3
  <2>2. QED
    BY <1>1, <1>2, <2>1, OnlyForgotten
<1>5. \A k \in Calls : phone[k].at \in {"heard", "BS2"} => phone[k].to.ch \in Tch
  BY OnItsWay
<1>6. \A k \in Calls : phone[k].at = "heard" => phone[k].to.ch # t
  BY <1>1, NotHeard
<1>7. ASSUME NEW k \in Calls, phone'[k].at \in {"heard", "BS2"}
      PROVE  phone'[k] = phone[k] /\ phone[k].to.ch \in Tch /\ bs2'[phone[k].to.ch] = bs2[phone[k].to.ch]
  <2>1. phone'[k] = phone[k] /\ phone[k].to.ch \in Tch /\ phone[k].to.ch # t
    BY <1>3, <1>5, <1>6, <1>7
  <2>2. QED
    BY <1>1, <2>1
<1>8. \A u \in Tch : bs2'[u].up # <<>> \/ bs2'[u].loop = "sip" =>
        u # t /\ bs2'[u] = bs2[u] /\ bs2[u].entry # None /\ bs2[u].entry.call \in Calls
  BY <1>1, <1>2, At DEF ChannelShaped, Entries
<1>9. OnChannel'
  <2>1. ASSUME NEW k \in Calls, phone'[k].at = "heard"
        PROVE  /\ bs2'[phone'[k].to.ch].entry # None /\ bs2'[phone'[k].to.ch].entry.call = k
               /\ \/ bs2'[phone'[k].to.ch].loop = "access"
                  \/ /\ bs2'[phone'[k].to.ch].loop = "idle"
                     /\ bs2'[phone'[k].to.ch].up # <<>> \/ bs2'[phone'[k].to.ch].t3101
    BY <1>7, <2>1 DEF Served, OnChannel, Serves
  <2>2. ASSUME NEW k \in Calls, phone'[k].at = "BS2"
        PROVE  /\ bs2'[phone'[k].to.ch].entry # None /\ bs2'[phone'[k].to.ch].entry.call = k
               /\ bs2'[phone'[k].to.ch].loop # "idle"
    BY <1>7, <2>2 DEF Served, OnChannel, Serves
  <2>3. ASSUME NEW u \in Tch, NEW i \in DOMAIN bs2'[u].up
        PROVE  /\ bs2'[u].up[i] # "ACCESS" => phone'[bs2'[u].entry.call].at \in {"BS2", "lost"}
               /\ bs2'[u].up[i] = "COMPLETE" => phone'[bs2'[u].entry.call].came
    <3>1. bs2'[u].up # <<>>
      BY <2>3
    <3>2. bs2'[u] = bs2[u] /\ bs2[u].entry.call \in Calls
      BY <1>8, <3>1
    <3>3. /\ bs2[u].up[i] # "ACCESS" => phone[bs2[u].entry.call].at \in {"BS2", "lost"}
          /\ bs2[u].up[i] = "COMPLETE" => phone[bs2[u].entry.call].came
      BY <3>2 DEF Served, OnChannel
    <3>4. QED
      BY <1>3, <3>2, <3>3
  <2>4. QED
    BY <2>1, <2>2, <2>3 DEF OnChannel, Serves
<1>10. Dialogs'
  <2>1. \A k \in Calls : phone'[k].came => phone'[k].at \in {"BS2", "lost"}
    BY <1>3 DEF Served, Dialogs
  <2>2. \A k \in Calls : sip'[k] = "BS2" => sip[k] = "BS2"
    BY DEF Close
  <2>3. \A k \in Calls : sip'[k] = "BS2" => phone'[k].came
    BY <1>3, <2>2 DEF Served, Dialogs
  <2>4. \A u \in Tch : bs2'[u].loop = "sip" => phone'[bs2'[u].entry.call].came
    BY <1>3, <1>8 DEF Served, Dialogs
  <2>5. QED
    BY <2>1, <2>3, <2>4 DEF Dialogs
<1>11. QED
  BY <1>4, <1>9, <1>10 DEF Served

(* ProcessHandoverAccess starts.  A timing advance out of range leaves the  *)
(* handset unheard.                                                         *)
LEMMA StartAccessServed ==
  ASSUME TInv, OwnRefs, Served, NEW t \in Tch, StartAccess(t) PROVE OwnRefs' /\ Served'
<1>1. bs2[t] \in BS2Channels /\ ChannelShaped(bs2[t]) /\ TypeOK
  BY At DEF TInv
<1>2. bs2[t].up # <<>> /\ bs2[t].entry # None /\ bs2[t].loop = "idle" /\ UNCHANGED <<bs1, made, sip>>
  BY <1>1 DEF StartAccess, ChannelShaped
<1>3. bs2[t].entry.call \in Calls
  BY <1>2, At DEF Entries
<1> DEFINE b == [bs2[t] EXCEPT !.up = Tail(@), !.ref = None, !.t3103 = FALSE]
           c(l, n) == [b EXCEPT !.loop = l, !.n = n]
<1>4. b \in BS2Channels /\ b.entry = bs2[t].entry /\ b.up = Tail(bs2[t].up)
  BY <1>1, <1>2, Popped DEF BS2Channels
<1>5. ASSUME NEW l \in {"access", "failing"}, NEW n \in 0..Resends
      PROVE  c(l, n) \in BS2Channels /\ c(l, n).entry = bs2[t].entry /\ c(l, n).up = Tail(bs2[t].up)
             /\ c(l, n).loop = l
  <2> HIDE DEF b
  <2>1. QED
    BY <1>4 DEF BS2Channels
<1>6. Resends \in 0..Resends /\ Resends - 1 \in 0..Resends
  BY CountAssumption
<1>7. \A i \in DOMAIN Tail(bs2[t].up) : \E j \in DOMAIN bs2[t].up : Tail(bs2[t].up)[i] = bs2[t].up[j]
  BY <1>1, <1>2, TailOf DEF BS2Channels
<1>8. CASE bs2' = [bs2 EXCEPT ![t] = c("access", Resends)] /\ UNCHANGED <<net, phone>>
  <2> DEFINE d == c("access", Resends)
  <2>1. d \in BS2Channels /\ d.entry = bs2[t].entry /\ d.up = Tail(bs2[t].up) /\ d.loop = "access"
    BY <1>5, <1>6
  <2>2. bs2'[t] = d /\ \A u \in Tch \ {t} : bs2'[u] = bs2[u]
    BY <1>1, <1>8 DEF TypeOK
  <2> HIDE DEF b, c, d
  <2>3. \A k \in Calls : sip'[k] = "BS2" => sip[k] = "BS2" \/ phone[k].came
    BY <1>2
  <2>4. UNCHANGED <<bs1, phone, made>> /\ \A m \in net' : m.kind = "RSP" => m \in net
    BY <1>2, <1>8
  <2>5. \A i \in DOMAIN d.up : \E j \in DOMAIN bs2[t].up : d.up[i] = bs2[t].up[j]
    BY <1>7, <2>1
  <2>6. d.entry # None /\ d.entry.call = bs2[t].entry.call /\ d.entry.ref = bs2[t].entry.ref
    BY <1>2, <2>1
  <2>7. d \in BS2Channels /\ d.loop = "access"
    BY <2>1
  <2>8. QED
    BY <1>2, <2>2, <2>3, <2>4, <2>5, <2>6, <2>7, ChannelServed
<1>9. CASE /\ bs2' = [bs2 EXCEPT ![t] = c("failing", Resends - 1)]
           /\ net' = net \cup {IND("FAILURE", b.entry.id)}
           /\ phone' = [k \in Calls |-> IF phone[k].at = "heard" /\ phone[k].to.ch = t
                                         THEN [phone[k] EXCEPT !.at = "moving"] ELSE phone[k]]
  <2> DEFINE d == c("failing", Resends - 1)
  <2>1. d \in BS2Channels /\ d.entry = bs2[t].entry /\ d.up = Tail(bs2[t].up) /\ d.loop = "failing"
    BY <1>5, <1>6
  <2>2. bs2'[t] = d /\ \A u \in Tch \ {t} : bs2'[u] = bs2[u]
    BY <1>1, <1>9 DEF TypeOK
  <2>3. \A m \in net' : m.kind = "RSP" => m \in net
    BY <1>9 DEF IND
  <2>4. \A k \in Calls :
          /\ phone'[k].to = phone[k].to /\ phone'[k].came = phone[k].came
          /\ phone[k].at = "heard" /\ phone[k].to.ch = t => phone'[k].at = "moving"
          /\ ~(phone[k].at = "heard" /\ phone[k].to.ch = t) => phone'[k] = phone[k]
    BY <1>1, <1>9, Objects DEF Handsets
  <2> HIDE DEF b, c, d
  <2>5. \A k \in Calls : phone[k].at \in {"heard", "BS2"} => phone[k].to.ch \in Tch
    BY OnItsWay
  <2>6. OwnRefs'
    <3>1. \A k \in Calls : phone'[k].to \in {phone[k].to, None}
      BY <2>4
    <3>2. \A u \in Tch : bs2'[u].entry = bs2[u].entry
      BY <2>1, <2>2
    <3>3. QED
      BY <1>2, <2>3, <3>1, <3>2, OnlyForgotten
  <2>7. ASSUME NEW k \in Calls, NEW u, u = phone[k].to.ch, phone'[k].at = "heard"
        PROVE  /\ u \in Tch /\ bs2'[u].entry # None /\ bs2'[u].entry.call = k
               /\ \/ bs2'[u].loop = "access"
                  \/ bs2'[u].loop = "idle" /\ (bs2'[u].up # <<>> \/ bs2'[u].t3101)
    <3>1. phone[k].at = "heard" /\ u # t /\ u \in Tch
      BY <2>4, <2>5, <2>7
    <3>2. QED
      BY <2>2, <2>7, <3>1 DEF Served, OnChannel, Serves
  <2>8. ASSUME NEW k \in Calls, NEW u, u = phone[k].to.ch, phone'[k].at = "BS2"
        PROVE  bs2'[u].entry # None /\ bs2'[u].entry.call = k /\ bs2'[u].loop # "idle"
    <3>1. phone[k].at = "BS2" /\ u \in Tch
      BY <2>4, <2>5, <2>8
    <3>2. QED
      BY <1>2, <2>1, <2>2, <2>8, <3>1 DEF Served, OnChannel, Serves
  <2>9. \A k \in Calls : phone[k].at \in {"BS2", "lost"} => phone'[k].at \in {"BS2", "lost"}
    BY <2>4
  <2>10. ASSUME NEW u \in Tch, NEW i \in DOMAIN bs2'[u].up
        PROVE  /\ bs2'[u].up[i] # "ACCESS" => phone'[bs2'[u].entry.call].at \in {"BS2", "lost"}
               /\ bs2'[u].up[i] = "COMPLETE" => phone'[bs2'[u].entry.call].came
    <3>1. PICK j \in DOMAIN bs2[u].up : bs2'[u].up[i] = bs2[u].up[j]
      <4>1. CASE u = t
        BY <1>7, <2>1, <2>2, <2>10, <4>1
      <4>2. CASE u # t
        BY <2>2, <2>10, <4>2
      <4>3. QED
        BY <4>1, <4>2
    <3>2. bs2'[u].entry = bs2[u].entry
      BY <2>1, <2>2
    <3>3. bs2[u].entry.call \in Calls
      BY <3>1, At DEF ChannelShaped, Entries
    <3>4. /\ bs2[u].up[j] # "ACCESS" => phone[bs2[u].entry.call].at \in {"BS2", "lost"}
          /\ bs2[u].up[j] = "COMPLETE" => phone[bs2[u].entry.call].came
      BY DEF Served, OnChannel
    <3>5. QED
      BY <2>4, <2>9, <3>1, <3>2, <3>3, <3>4
  <2>11. OnChannel'
    BY <2>4, <2>7, <2>8, <2>10 DEF OnChannel, Serves
  <2>12. Dialogs'
    <3>1. \A k \in Calls : phone'[k].came => phone'[k].at \in {"BS2", "lost"}
      BY <2>4, <2>9 DEF Served, Dialogs
    <3>2. \A k \in Calls : sip'[k] = "BS2" => phone'[k].came
      BY <1>2, <2>4 DEF Served, Dialogs
    <3>3. \A u \in Tch : bs2'[u].loop = "sip" => bs2'[u] = bs2[u] /\ bs2[u].entry.call \in Calls
      BY <2>1, <2>2, At DEF ChannelShaped, Entries
    <3>4. \A u \in Tch : bs2'[u].loop = "sip" => phone'[bs2'[u].entry.call].came
      BY <2>4, <3>3 DEF Served, Dialogs
    <3>5. QED
      BY <3>1, <3>2, <3>4 DEF Dialogs
  <2>13. QED
    BY <2>6, <2>11, <2>12 DEF Served
<1>10. QED
  BY <1>8, <1>9 DEF StartAccess

-----------------------------------------------------------------------------
(* A handset on a channel: what L1 awaits is what the handset was given, so *)
(* the transaction of the channel is that of its call.                      *)
LEMMA AwaitsItsCall ==
  ASSUME TInv, OwnRefs, NEW k \in Calls, phone[k].to # None, NEW t \in Tch,
         Awaits(t, phone[k].to.ref), phone[k].to.ref \in 0..RefSpace - 1
  PROVE  bs2[t].entry # None /\ bs2[t].entry.call = k /\ bs2[t].loop = "idle"
<1>1. bs2[t].ref = phone[k].to.ref /\ bs2[t].ref # None
  BY NoneAssumption DEF Awaits
<1>2. bs2[t].entry # None /\ bs2[t].ref = bs2[t].entry.ref /\ bs2[t].loop = "idle"
  BY <1>1, At DEF ChannelShaped
<1>3. bs2[t].entry.call \in Calls
  BY <1>2, At DEF Entries
<1>4. Given(k, phone[k].to.ref) /\ Given(bs2[t].entry.call, phone[k].to.ref)
  BY <1>1, <1>2, <1>3 DEF Given
<1>5. QED
  BY <1>2, <1>3, <1>4 DEF OwnRefs

(* The handset k sends p on its channel t.                                  *)
LEMMA SendServed ==
  ASSUME TInv, Served, NEW k \in Calls, NEW t \in Tch, phone[k].to.ch = t, NEW p \in Prims,
         bs2[t].entry # None, bs2[t].entry.call = k,
         \A u \in Tch \ {t} : bs2'[u] = bs2[u], \A j \in Calls \ {k} : phone'[j] = phone[j],
         bs2'[t].up = Append(bs2[t].up, p), bs2'[t].entry = bs2[t].entry, bs2'[t].loop = bs2[t].loop,
         phone'[k].to = phone[k].to, UNCHANGED sip,
         phone[k].at \in {"BS2", "lost"} => phone'[k].at \in {"BS2", "lost"},
         phone[k].came => phone'[k].came,
         phone'[k].came => phone'[k].at \in {"BS2", "lost"},
         p # "ACCESS" => phone'[k].at \in {"BS2", "lost"},
         p = "COMPLETE" => phone'[k].came,
         phone'[k].at = "heard" => bs2[t].loop \in {"idle", "access"},
         phone'[k].at = "BS2" => bs2[t].loop # "idle"
  PROVE  Served'
<1>1. bs2[t].up \in Seq(Prims)
  BY At DEF BS2Channels
<1>2. \A j \in Calls : phone[j].at \in {"heard", "BS2"} => phone[j].to.ch \in Tch
  BY OnItsWay
<1>3. bs2'[t].up # <<>>
  BY <1>1
<1>4. ASSUME NEW j \in Calls, NEW u, u = phone'[j].to.ch, phone'[j].at = "heard"
      PROVE  /\ bs2'[u].entry # None /\ bs2'[u].entry.call = j
             /\ \/ bs2'[u].loop = "access"
                \/ bs2'[u].loop = "idle" /\ (bs2'[u].up # <<>> \/ bs2'[u].t3101)
  <2>1. CASE j = k
    BY <1>3, <1>4, <2>1
  <2>2. CASE j # k
    <3>1. phone'[j] = phone[j] /\ u \in Tch
      BY <1>2, <1>4, <2>2
    <3>2. u # t
      BY <1>4, <2>2, <3>1 DEF Served, OnChannel, Serves
    <3>3. QED
      BY <1>4, <3>1, <3>2 DEF Served, OnChannel, Serves
  <2>3. QED
    BY <2>1, <2>2
<1>5. ASSUME NEW j \in Calls, NEW u, u = phone'[j].to.ch, phone'[j].at = "BS2"
      PROVE  bs2'[u].entry # None /\ bs2'[u].entry.call = j /\ bs2'[u].loop # "idle"
  <2>1. CASE j = k
    BY <1>5, <2>1
  <2>2. CASE j # k
    <3>1. phone'[j] = phone[j] /\ u \in Tch
      BY <1>2, <1>5, <2>2
    <3>2. u # t
      BY <1>5, <2>2, <3>1 DEF Served, OnChannel, Serves
    <3>3. QED
      BY <1>5, <3>1, <3>2 DEF Served, OnChannel, Serves
  <2>3. QED
    BY <2>1, <2>2
<1>6. ASSUME NEW u \in Tch, NEW i \in DOMAIN bs2'[u].up
      PROVE  /\ bs2'[u].up[i] # "ACCESS" => phone'[bs2'[u].entry.call].at \in {"BS2", "lost"}
             /\ bs2'[u].up[i] = "COMPLETE" => phone'[bs2'[u].entry.call].came
  <2>1. bs2'[u].entry = bs2[u].entry
    OBVIOUS
  <2>2. CASE i \in DOMAIN bs2[u].up
    <3>1. bs2'[u].up[i] = bs2[u].up[i]
      BY <1>1, <2>2
    <3>2. bs2[u].entry.call \in Calls
      BY <2>2, At DEF ChannelShaped, Entries
    <3>3. /\ bs2[u].up[i] # "ACCESS" => phone[bs2[u].entry.call].at \in {"BS2", "lost"}
          /\ bs2[u].up[i] = "COMPLETE" => phone[bs2[u].entry.call].came
      BY <2>2 DEF Served, OnChannel
    <3>4. QED
      BY <2>1, <3>1, <3>2, <3>3
  <2>3. CASE i \notin DOMAIN bs2[u].up
    <3>1. u = t
      BY <1>6, <2>3
    <3>2. bs2'[u].up[i] = p
      BY <1>1, <1>6, <2>3, <3>1
    <3>3. QED
      BY <2>1, <3>1, <3>2
  <2>4. QED
    BY <2>2, <2>3
<1>7. OnChannel'
  BY <1>4, <1>5, <1>6 DEF OnChannel, Serves
<1>8. Dialogs'
  <2>1. \A j \in Calls : phone[j].came => phone'[j].came
    OBVIOUS
  <2>2. \A j \in Calls : phone'[j].came => phone'[j].at \in {"BS2", "lost"}
    BY DEF Served, Dialogs
  <2>3. \A j \in Calls : sip'[j] = "BS2" => phone'[j].came
    BY <2>1 DEF Served, Dialogs
  <2>4. ASSUME NEW u \in Tch, bs2'[u].loop = "sip" PROVE phone'[bs2'[u].entry.call].came
    <3>1. bs2[u].loop = "sip" /\ bs2'[u].entry = bs2[u].entry
      BY <2>4
    <3>2. bs2[u].entry.call \in Calls
      BY <3>1, At DEF ChannelShaped, Entries
    <3>3. phone[bs2[u].entry.call].came
      BY <3>1 DEF Served, Dialogs
    <3>4. QED
      BY <2>1, <3>1, <3>2, <3>3
  <2>5. QED
    BY <2>2, <2>3, <2>4 DEF Dialogs
<1>9. QED
  BY <1>7, <1>8 DEF Served

LEMMA SendsServed ==
  ASSUME TInv, OwnRefs, Served, NEW k \in Calls, SendAccess(k) \/ SendSabm(k) \/ SendComplete(k)
  PROVE  OwnRefs' /\ Served'
<1> DEFINE t == phone[k].to.ch
<1>1. TypeOK /\ phone[k] \in Handsets
  BY Objects DEF TInv
<1>2. /\ phone[k].to \in Targets /\ t \in Tch /\ phone[k].to.ref \in 0..RefSpace - 1
      /\ phone[k].at \in {"moving", "heard", "BS2"}
  BY OnItsWay DEF SendAccess, SendSabm, SendComplete, Moving
<1>3. phone[k].to # None
  BY <1>2, NoneAssumption
<1>4. UNCHANGED <<bs1, made, net, sip>>
  BY DEF SendAccess, SendSabm, SendComplete
<1>5. bs2[t] \in BS2Channels /\ ChannelShaped(bs2[t])
  BY <1>2, At
<1>6. phone[k].at # "BS2" => ~phone[k].came
  BY <1>2 DEF Served, Dialogs
<1>7. ASSUME NEW c, NEW p, bs2' = [bs2 EXCEPT ![t] = c], phone' = [phone EXCEPT ![k] = p],
             bs2[t].entry # None, c.entry = bs2[t].entry, p.to = phone[k].to
      PROVE  /\ bs2'[t] = c /\ \A u \in Tch \ {t} : bs2'[u] = bs2[u]
             /\ phone'[k] = p /\ \A j \in Calls \ {k} : phone'[j] = phone[j]
             /\ OwnRefs'
  <2>1. /\ bs2'[t] = c /\ \A u \in Tch \ {t} : bs2'[u] = bs2[u]
        /\ phone'[k] = p /\ \A j \in Calls \ {k} : phone'[j] = phone[j]
    BY <1>1, <1>2, <1>7 DEF TypeOK
  <2>2. /\ \A j \in Calls : phone'[j].to \in {phone[j].to, None}
        /\ \A u \in Tch : bs2'[u].entry = bs2[u].entry
    BY <1>7, <2>1
  <2> HIDE DEF t
  <2>3. OwnRefs'
    BY <1>4, <2>2, OnlyForgotten
  <2>4. QED
    BY <2>1, <2>3
<1>8. CASE SendAccess(k)
  <2> DEFINE h == Heard(bs2[t], "ACCESS")
             c == [h EXCEPT !.t3103 = FALSE]
             p == [phone[k] EXCEPT !.at = "heard"]
  <2>1. Moving(k) /\ Awaits(t, phone[k].to.ref) /\ bs2' = [bs2 EXCEPT ![t] = c]
    BY <1>8 DEF SendAccess
  <2>2. bs2[t].entry # None /\ bs2[t].entry.call = k /\ bs2[t].loop = "idle"
    BY <1>2, <1>3, <2>1, AwaitsItsCall
  <2>3. h \in BS2Channels /\ h.entry = bs2[t].entry /\ h.loop = "idle" /\ h.up = Append(bs2[t].up, "ACCESS")
    BY <1>5, <2>2, HeardTyped DEF Prims
  <2> HIDE DEF h
  <2>4. c.entry = bs2[t].entry /\ c.loop = "idle" /\ c.up = Append(bs2[t].up, "ACCESS")
    BY <2>3 DEF BS2Channels
  <2>5. phone' = [phone EXCEPT ![k] = p] /\ p.at = "heard" /\ p.to = phone[k].to /\ p.came = phone[k].came
    BY <1>1, <1>8 DEF SendAccess, TypeOK, Handsets
  <2> HIDE DEF c, p
  <2>6. /\ bs2'[t] = c /\ \A u \in Tch \ {t} : bs2'[u] = bs2[u]
        /\ phone'[k] = p /\ \A j \in Calls \ {k} : phone'[j] = phone[j]
        /\ OwnRefs'
    BY <1>7, <2>1, <2>2, <2>4, <2>5
  <2>7. phone[k].at \in {"moving", "heard"} /\ ~phone[k].came
    BY <1>6, <2>1 DEF Moving
  <2>8. Served'
    BY <1>2, <1>4, <2>2, <2>4, <2>5, <2>6, <2>7, SendServed DEF Prims
  <2>9. QED
    BY <2>6, <2>8
<1>9. CASE SendSabm(k)
  <2> DEFINE c == Heard(bs2[t], "ESTABLISH")
             p == [phone[k] EXCEPT !.at = "BS2"]
  <2>1. phone[k].at = "heard" /\ bs2[t].loop = "access" /\ bs2' = [bs2 EXCEPT ![t] = c]
    BY <1>9 DEF SendSabm
  <2>2. bs2[t].entry # None /\ bs2[t].entry.call = k
    BY <2>1 DEF Served, OnChannel, Serves
  <2>3. c.entry = bs2[t].entry /\ c.loop = "access" /\ c.up = Append(bs2[t].up, "ESTABLISH")
    BY <1>5, <2>1, <2>2, HeardTyped DEF Prims
  <2>4. phone' = [phone EXCEPT ![k] = p] /\ p.at = "BS2" /\ p.to = phone[k].to /\ p.came = phone[k].came
    BY <1>1, <1>9 DEF SendSabm, TypeOK, Handsets
  <2> HIDE DEF c, p
  <2>5. /\ bs2'[t] = c /\ \A u \in Tch \ {t} : bs2'[u] = bs2[u]
        /\ phone'[k] = p /\ \A j \in Calls \ {k} : phone'[j] = phone[j]
        /\ OwnRefs'
    BY <1>7, <2>1, <2>2, <2>3, <2>4
  <2>6. /\ phone'[k].at = "BS2" /\ phone'[k].to = phone[k].to /\ phone'[k].came = phone[k].came
        /\ bs2'[t].up = Append(bs2[t].up, "ESTABLISH") /\ bs2'[t].entry = bs2[t].entry
        /\ bs2'[t].loop = bs2[t].loop /\ "ESTABLISH" \in Prims
    BY <2>1, <2>3, <2>4, <2>5 DEF Prims
  <2>7. t \in Tch /\ phone[k].to.ch = t /\ UNCHANGED sip
    BY <1>2, <1>4
  <2> HIDE DEF t
  <2>8. Served'
    BY <2>1, <2>2, <2>5, <2>6, <2>7, SendServed
  <2>9. QED
    BY <2>5, <2>8
<1>10. CASE SendComplete(k)
  <2>1. PICK q \in {"COMPLETE", "OTHER"} :
          /\ bs2[t].loop \in {"access", "machine"} /\ bs2' = [bs2 EXCEPT ![t] = Heard(bs2[t], q)]
          /\ phone' = [phone EXCEPT ![k].came = (q = "COMPLETE")]
    BY <1>10 DEF SendComplete
  <2> DEFINE c == Heard(bs2[t], q)
             p == [phone[k] EXCEPT !.came = (q = "COMPLETE")]
  <2>2. phone[k].at = "BS2" /\ ~phone[k].came
    BY <1>10 DEF SendComplete
  <2>3. bs2[t].entry # None /\ bs2[t].entry.call = k
    BY <2>2 DEF Served, OnChannel, Serves
  <2>4. c.entry = bs2[t].entry /\ c.loop = bs2[t].loop /\ c.up = Append(bs2[t].up, q)
    <3>1. q \in Prims
      BY <2>1 DEF Prims
    <3>2. QED
      BY <1>5, <2>3, <3>1, HeardTyped
  <2>5. phone' = [phone EXCEPT ![k] = p] /\ p.at = "BS2" /\ p.to = phone[k].to
    BY <1>1, <2>1, <2>2 DEF TypeOK, Handsets
  <2>6. p.came <=> q = "COMPLETE"
    BY <1>1 DEF Handsets
  <2>7. bs2' = [bs2 EXCEPT ![t] = c]
    BY <2>1
  <2> HIDE DEF c, p
  <2>8. /\ bs2'[t] = c /\ \A u \in Tch \ {t} : bs2'[u] = bs2[u]
        /\ phone'[k] = p /\ \A j \in Calls \ {k} : phone'[j] = phone[j]
        /\ OwnRefs'
    BY <1>7, <2>3, <2>4, <2>5, <2>7
  <2>9. /\ phone'[k].at = "BS2" /\ phone'[k].to = phone[k].to /\ (phone'[k].came <=> q = "COMPLETE")
        /\ bs2'[t].up = Append(bs2[t].up, q) /\ bs2'[t].entry = bs2[t].entry
        /\ bs2'[t].loop = bs2[t].loop /\ bs2[t].loop # "idle" /\ q \in Prims
    BY <2>1, <2>4, <2>5, <2>6, <2>8 DEF Prims
  <2>10. t \in Tch /\ phone[k].to.ch = t /\ UNCHANGED sip
    BY <1>2, <1>4
  <2> HIDE DEF t
  <2>11. Served'
    BY <2>2, <2>3, <2>8, <2>9, <2>10, SendServed
  <2>12. QED
    BY <2>8, <2>11
<1>11. QED
  BY <1>8, <1>9, <1>10

(* processHandoverRequest takes a free channel, which no handset is on, or  *)
(* starts anew the one that is being held for the same call.                *)
LEMMA RequestServed ==
  ASSUME TInv, OwnRefs, Served, MaxRequests <= RefSpace, NEW k \in Calls, Request(k)
  PROVE  OwnRefs' /\ Served'
<1>1. TypeOK /\ NetOK
  BY DEF TInv
<1>2. REQ(k) \in net /\ UNCHANGED <<bs1, holdoff, asked, phone, sip>>
  BY DEF Request
<1>3. \A j \in Calls : phone[j].at \in {"heard", "BS2"} => phone[j].to.ch \in Tch
  BY OnItsWay
<1>4. ASSUME NEW t \in Tch, NEW c \in BS2Channels, bs2' = [bs2 EXCEPT ![t] = c], c.up = <<>>,
             \/ /\ bs2[t].entry # None /\ c.entry = bs2[t].entry /\ c.t3101 /\ c.loop = bs2[t].loop
             \/ Free(t) /\ c.loop = "idle"
      PROVE  Served'
  <2>1. bs2'[t] = c /\ \A u \in Tch \ {t} : bs2'[u] = bs2[u]
    BY <1>1, <1>4 DEF TypeOK
  <2>2. ASSUME NEW j \in Calls, NEW u, u = phone[j].to.ch, phone[j].at = "heard"
        PROVE  /\ bs2'[u].entry # None /\ bs2'[u].entry.call = j
               /\ \/ bs2'[u].loop = "access"
                  \/ bs2'[u].loop = "idle" /\ (bs2'[u].up # <<>> \/ bs2'[u].t3101)
    <3>1. /\ bs2[u].entry # None /\ bs2[u].entry.call = j
          /\ \/ bs2[u].loop = "access"
             \/ bs2[u].loop = "idle" /\ (bs2[u].up # <<>> \/ bs2[u].t3101)
      BY <2>2 DEF Served, OnChannel, Serves
    <3>2. u \in Tch
      BY <1>3, <2>2
    <3>3. CASE u # t
      BY <2>1, <3>1, <3>2, <3>3
    <3>4. CASE u = t
      <4>1. ~Free(t)
        BY <3>1, <3>4 DEF Free
      <4>2. QED
        BY <1>4, <2>1, <3>1, <3>4, <4>1
    <3>5. QED
      BY <3>3, <3>4
  <2>3. ASSUME NEW j \in Calls, NEW u, u = phone[j].to.ch, phone[j].at = "BS2"
        PROVE  bs2'[u].entry # None /\ bs2'[u].entry.call = j /\ bs2'[u].loop # "idle"
    <3>1. bs2[u].entry # None /\ bs2[u].entry.call = j /\ bs2[u].loop # "idle"
      BY <2>3 DEF Served, OnChannel, Serves
    <3>2. u \in Tch
      BY <1>3, <2>3
    <3>3. QED
      BY <1>4, <2>1, <3>1, <3>2 DEF Free
  <2>4. ASSUME NEW u \in Tch, NEW i \in DOMAIN bs2'[u].up
        PROVE  /\ bs2'[u].up[i] # "ACCESS" => phone[bs2'[u].entry.call].at \in {"BS2", "lost"}
               /\ bs2'[u].up[i] = "COMPLETE" => phone[bs2'[u].entry.call].came
    <3>1. u # t
      BY <1>4, <2>1, <2>4
    <3>2. QED
      BY <2>1, <2>4, <3>1 DEF Served, OnChannel
  <2>5. OnChannel'
    BY <1>2, <2>2, <2>3, <2>4 DEF OnChannel, Serves
  <2>6. \A u \in Tch : bs2'[u].loop = "sip" => phone'[bs2'[u].entry.call].came
    <3>1. bs2'[t].loop = "sip" => phone'[bs2'[t].entry.call].came
      BY <1>2, <1>4, <2>1 DEF Served, Dialogs
    <3>2. QED
      BY <1>2, <2>1, <3>1 DEF Served, Dialogs
  <2>7. Dialogs'
    BY <1>2, <2>6 DEF Served, Dialogs
  <2>8. QED
    BY <2>5, <2>7 DEF Served
<1>5. ASSUME NEW t \in Found(k), bs2' = [bs2 EXCEPT ![t] = LcStart(bs2[t])], made' = made,
             net' = (net \ {REQ(k)}) \cup {RSP(k, [ch |-> t, ref |-> bs2[t].entry.ref])}
      PROVE  OwnRefs' /\ Served'
  <2>1. t \in Tch /\ bs2[t].entry # None
    BY DEF Found
  <2>2. /\ LcStart(bs2[t]) \in BS2Channels /\ LcStart(bs2[t]).up = <<>> /\ LcStart(bs2[t]).t3101
        /\ LcStart(bs2[t]).entry = bs2[t].entry /\ LcStart(bs2[t]).loop = bs2[t].loop
    BY <2>1, At, LcStartTyped
  <2>3. Served'
    BY <1>4, <1>5, <2>1, <2>2
  <2>4. OwnRefs'
    BY <1>2, <1>5, FoundRefs
  <2>5. QED
    BY <2>3, <2>4
<1>6. ASSUME NEW t \in Tch, Free(t), bs2' = [bs2 EXCEPT ![t] = LcStart(Inbound(bs2[t], k))], made' = made + 1,
             net' = (net \ {REQ(k)}) \cup {RSP(k, [ch |-> t, ref |-> (made + 1) % RefSpace])}
      PROVE  OwnRefs' /\ Served'
  <2>1. made < MaxRequests
    <3>1. (made + 1) % RefSpace \in 0..RefSpace - 1
      BY <1>1, CountAssumption DEF TypeOK, Ids
    <3>2. [ch |-> t, ref |-> (made + 1) % RefSpace] \in Targets
      BY <3>1 DEF Targets
    <3>3. /\ RSP(k, [ch |-> t, ref |-> (made + 1) % RefSpace]) \in Datagrams
          /\ RSP(k, [ch |-> t, ref |-> (made + 1) % RefSpace]).kind = "RSP"
      BY <3>2 DEF RSP, Datagrams
    <3>4. QED
      BY <1>1, <1>2, <1>6, <3>3, OneRequestLess
  <2>2. bs2[t].loop = "idle" /\ bs2[t] \in BS2Channels
    BY <1>6, At DEF Free
  <2>3. /\ Inbound(bs2[t], k) \in BS2Channels /\ ChannelShaped(Inbound(bs2[t], k))
        /\ Inbound(bs2[t], k).loop = "idle"
    BY <1>1, <2>1, <2>2, InboundTyped
  <2>4. /\ LcStart(Inbound(bs2[t], k)) \in BS2Channels /\ LcStart(Inbound(bs2[t], k)).up = <<>>
        /\ LcStart(Inbound(bs2[t], k)).loop = "idle"
    BY <2>3, LcStartTyped
  <2>5. Served'
    BY <1>4, <1>6, <2>4
  <2>6. OwnRefs'
    BY <1>2, <1>6, <2>1, <2>2, NewRefs
  <2>7. QED
    BY <2>5, <2>6
<1>7. ASSUME net' = (net \ {REQ(k)}) \cup {RSP(k, None)}, UNCHANGED <<bs2, made>>
      PROVE  OwnRefs' /\ Served'
  <2>1. Served'
    BY <1>2, <1>7, ElsewhereServed
  <2>2. ASSUME NEW j \in Calls, NEW r \in 0..RefSpace - 1, Given(j, r)' PROVE Given(j, r)
    BY <1>2, <1>7, <2>2 DEF Given, RSP
  <2>3. QED
    BY <1>7, <2>1, <2>2, NothingGiven
<1>8. QED
  BY <1>5, <1>6, <1>7 DEF Request

-----------------------------------------------------------------------------
LEMMA InitServed == Init => OwnRefs /\ Served
<1> SUFFICES ASSUME Init PROVE OwnRefs /\ Served
  OBVIOUS
<1>1. \A k \in Calls, r \in 0..RefSpace - 1 : ~Given(k, r)
  BY DEF Init, Given, NewChan
<1>2. OwnRefs
  BY <1>1 DEF OwnRefs
<1>3. Served
  BY DEF Init, Served, OnChannel, Dialogs, NewChan
<1>4. QED
  BY <1>2, <1>3

LEMMA NextServed ==
  ASSUME TInv, OwnRefs, Served, PromptNet, MaxRequests <= RefSpace, [Next]_vars
  PROVE  OwnRefs' /\ Served'
<1>1. CASE UNCHANGED vars \/ Indication \/ HoldoffPasses \/ Lose
  BY <1>1, Elsewhere
<1>2. ASSUME NEW k \in Calls, \/ Measure(k) \/ Ages(k) \/ Response(k) \/ Request(k) \/ Loop1(k)
                              \/ SendAccess(k) \/ SendSabm(k) \/ SendComplete(k)
                              \/ TurnsBack(k) \/ Vanishes(k) \/ Talks(k) \/ HangsUp(k)
      PROVE  OwnRefs' /\ Served'
  <2>1. CASE Response(k)
    <3>1. UNCHANGED <<bs2, phone, sip>>
      BY <2>1 DEF Response
    <3>2. QED
      BY <2>1, <3>1, ResponseRefs, ElsewhereServed
  <2>2. CASE Request(k)
    BY <2>2, RequestServed
  <2>3. CASE SendAccess(k) \/ SendSabm(k) \/ SendComplete(k)
    BY <2>3, SendsServed
  <2>4. CASE TransferStart(k) \/ TransferTimeout(k) \/ ClearingEnds(k) \/ TurnsBack(k) \/ Vanishes(k)
    BY <2>4, Departures
  <2>5. CASE \/ Measure(k) \/ Ages(k) \/ TransferRead(k) \/ ReadFrame(k)
             \/ ReadBye(k) \/ Talks(k) \/ HangsUp(k) \/ RadioFailure(k)
    BY <2>5, Elsewhere
  <2>6. QED
    BY <1>2, <2>1, <2>2, <2>3, <2>4, <2>5 DEF Loop1
<1>3. ASSUME NEW t \in Tch, \/ Loop2(t) \/ DialogActive(t) \/ DialogEnds(t)
                            \/ T3101Expires(t) \/ T3103Expires(t) \/ Stuck(t)
      PROVE  OwnRefs' /\ Served'
  BY <1>3, StartAccessServed, ReadAccessServed, T3105Served, MachineServed, DialogActiveServed, AckServed,
     CloseServed, TimersServed DEF Loop2
<1>4. QED
  BY <1>1, <1>2, <1>3 DEF Next

LEMMA Reachable ==
  ASSUME PromptNet, MaxRequests <= RefSpace
  PROVE  Spec => [](TInv /\ OwnRefs /\ Served)
<1>1. Init => TInv /\ OwnRefs /\ Served
  BY InitTyped, InitServed
<1>2. TInv /\ OwnRefs /\ Served /\ [Next]_vars => (TInv /\ OwnRefs /\ Served)'
  BY NextTyped, NextServed
<1>3. QED
  BY <1>1, <1>2, PTL DEF Spec

(* While the counter of handover references has not come round, and timers  *)
(* of seconds outlive datagrams and a handset's move: the handset that a    *)
(* channel of BS2 serves is that of the transaction in it, in whatever      *)
(* order requests, responses and access bursts came.                        *)
THEOREM ServesTheRightCall ==
  ASSUME PromptNet, MaxRequests <= RefSpace
  PROVE  Spec => []RightCall
<1>1. TInv /\ OwnRefs /\ Served => RightCall
  BY DEF Served, OnChannel, Serves, RightCall
<1>2. QED
  BY <1>1, Reachable, PTL

(* Under the same conditions BS2 asks the remote party for the dialog, and  *)
(* has it, only for a handset that has sent its HandoverComplete.           *)
THEOREM DialogComesLast ==
  ASSUME PromptNet, MaxRequests <= RefSpace
  PROVE  Spec => []DialogFollows
<1>1. TInv /\ OwnRefs /\ Served => DialogFollows
  BY DEF Served, Dialogs, DialogFollows
<1>2. QED
  BY <1>1, Reachable, PTL
=============================================================================
