------------------------------- MODULE RLCUp --------------------------------
(***************************************************************************)
(* An uplink TBF in acknowledged mode: RLCUpEngine of GPRS/RLCEngine, the  *)
(* USFs that give a handset its turn, and the handset's transmitter.  In   *)
(* an extended TBF (GPRS.Uplink.Persist) the handset keeps the TBF after   *)
(* its final block and may send more; when it has been quiet long enough   *)
(* the network closes the TBF with a final acknowledgement.                *)
(*                                                                         *)
(* Blocks carry numbers 1, 2, ... in the order the handset makes them; the *)
(* code knows only their BSN.  Segments and PDUs are left out: an engine   *)
(* that delivers the blocks in order cuts them as the handset joined them. *)
(***************************************************************************)
EXTENDS RLCWindow, Sequences, FiniteSets

CONSTANTS
    Blocks,      \* bound: blocks the handset has to send
    Finals,      \* those that end a transfer: countdown value 0
    Extended,    \* mUpPersistentMode
    PerAck,      \* mNumUpPerAckNack
    N3101Max,    \* GPRS.Counters.N3101
    N3103Max,    \* GPRS.Counters.N3103
    Lag          \* blocks between a USF and its answer

VARIABLES
    up,       \* the engine
    tbf,      \* state of its TBF
    air,      \* blocks on their way to the network
    phone     \* the handset's transmitter

vars == <<up, tbf, air, phone>>

Numbers == 0..Blocks
Data == [bsn: BSNs, n: Numbers, si: BOOLEAN]

\* PACKET UPLINK DUMMY CONTROL BLOCK: no block of data.
Dummy == [bsn |-> 0, n |-> 0, si |-> FALSE]

TypeOK ==
    /\ up \in [vr: BSNs, vq: BSNs, vn: [BSNs -> BOOLEAN], rxq: [BSNs -> Numbers],
               state: {"Transmit", "Quiescent", "PersistFinal", "Finished"},   \* mtUpState
               stalled: BOOLEAN,              \* mUpStalled
               sinceAck: 0..PerAck,           \* mNumUpBlocksSinceAckNack
               usf: BOOLEAN,                  \* a USF since the last acknowledgement
               early: 0..Lag,                 \* answers due before PersistFinal ends
               got: Numbers,                  \* the last block delivered
               heard: SUBSET (1..Blocks)]     \* history: every block received
    /\ tbf \in [state: {"DataTransmit", "DataFinal", "Finished", "Dead"},
                n3101: 0..N3101Max + 1, n3103: 0..N3103Max + 1,
                poll: BOOLEAN,                                \* one in an acknowledgement: MsgTransTransmit
                final: {"none", "out", "heard", "acked"}]     \* one in the final acknowledgement
    /\ air \in Seq(Data) /\ Len(air) <= Lag
    /\ phone \in [on: BOOLEAN, va: 1..Blocks + 1, vs: 1..Blocks + 1]

Init ==
    /\ up = [vr |-> 0, vq |-> 0, vn |-> [b \in BSNs |-> FALSE], rxq |-> [b \in BSNs |-> 0],
             state |-> "Transmit", stalled |-> FALSE, sinceAck |-> 0, usf |-> FALSE,
             early |-> 0, got |-> 0, heard |-> {}]
    /\ tbf = [state |-> "DataTransmit", n3101 |-> 0, n3103 |-> 0, poll |-> FALSE, final |-> "none"]
    /\ air = <<>>
    /\ phone = [on |-> TRUE, va |-> 1, vs |-> 1]

BSN(n) == (n - 1) % SNS

-----------------------------------------------------------------------------
(* The handset's transmitter, GSM 04.60 9.1.                               *)

Full == phone.vs = phone.va + WS

\* A transfer is over until the handset begins the next.
MayMake == phone.vs <= Blocks /\ (phone.vs - 1 \in Finals => Extended)

Block(n, full) == [bsn |-> BSN(n), n |-> n, si |-> full]

Says(block, p) == [block |-> block, phone |-> p]

MakeNew == Says(Block(phone.vs, phone.vs + 1 = phone.va + WS), [phone EXCEPT !.vs = @ + 1])

\* What it answers a USF with: any block of its window again, the next one, or nothing
\* when it has nothing to send.  A new transfer begins when the handset likes.
Answers ==
    {Says(Block(n, Full), phone) : n \in phone.va..phone.vs - 1}
    \cup (IF ~Full /\ MayMake THEN {MakeNew} ELSE {})
    \cup (IF phone.va = phone.vs /\ (MayMake => phone.vs - 1 \in Finals) THEN {Says(Dummy, phone)} ELSE {})

\* An acknowledgement moves V(A) over what is acknowledged.
HearsAck(ssn, bits) ==
    LET left == {n \in phone.va..phone.vs - 1 : AddSN(ssn, -BSN(n)) \notin bits}
    IN [phone EXCEPT !.va = IF left = {} THEN phone.vs ELSE CHOOSE n \in left : \A m \in left : n <= m]

Off == [on |-> FALSE, va |-> 1, vs |-> 1]

-----------------------------------------------------------------------------
(* The engine receives.                                                    *)

\* What engineUpAdvanceWindow makes of mtUpState when it delivers blocks first..last.
StateAfter(s, first, last) ==
    IF last \in Finals THEN IF Extended THEN "Quiescent" ELSE "Finished"
    ELSE IF s = "Finished" /\ Finals \cap (first..last) = {} THEN s ELSE "Transmit"

AdvanceWindow(u) ==
    LET vq == FirstSN(u.vq, AddSN(u.vq, -1), {b \in BSNs : u.rxq[b] = 0})
        n == AddSN(vq, -u.vq)
    IN IF n = 0 THEN u
       ELSE [u EXCEPT !.vq = vq, !.got = u.rxq[AddSN(vq, -1)],
                      !.state = StateAfter(u.state, u.rxq[u.vq], u.rxq[AddSN(vq, -1)]),
                      !.rxq = [b \in BSNs |-> IF AddSN(b, -u.vq) < n THEN 0 ELSE u.rxq[b]]]

\* V(R) moves on, and what is more than WS behind it is forgotten.
MoveVRForgetsNothing(u, bsn) == [u EXCEPT !.vr = IncSN(bsn)]

MoveVR(u, bsn) ==
    LET past == AddSN(u.vr, -WS - 2)
        clear == {b \in BSNs : AddSN(b, -past) < AddSN(IncSN(bsn), -u.vr)}
    IN [u EXCEPT !.vr = IncSN(bsn),
                 !.vn = [b \in BSNs |-> u.vn[b] /\ b \notin clear],
                 !.rxq = [b \in BSNs |-> IF b \in clear THEN 0 ELSE u.rxq[b]]]

Store(u, block) == [u EXCEPT !.vn[block.bsn] = TRUE, !.rxq[block.bsn] = block.n,
                             !.heard = @ \cup {block.n}]

IsAhead(u, bsn) == DeltaSN(bsn, AddSN(u.vr, -1)) > 0

OneLess(n) == IF n > 0 THEN n - 1 ELSE 0

\* engineRecvDataBlock: the block is stored, V(R) moves, what is in order is delivered.
Stored(block) == [Store(up, block) EXCEPT !.stalled = block.si, !.early = OneLess(@),
                                          !.sinceAck = IF @ < PerAck THEN @ + 1 ELSE PerAck]

RecvDataBlock(block) ==
    \E u \in {Stored(block)} :
    \E v \in {IF IsAhead(u, block.bsn) THEN MoveVR(u, block.bsn) ELSE u} :
    \E w \in {AdvanceWindow(v)} :
        /\ up' = w
        /\ tbf' = [tbf EXCEPT !.n3101 = 0, !.state = IF w.state = "Finished" THEN "DataFinal" ELSE @]

Arrive ==
    /\ air # <<>> /\ tbf.state # "Dead"
    /\ air' = Tail(air)
    /\ IF Head(air) = Dummy
       THEN /\ tbf' = [tbf EXCEPT !.n3101 = 0]
            /\ up' = [up EXCEPT !.early = OneLess(@)]
       ELSE RecvDataBlock(Head(air))
    /\ UNCHANGED phone

\* msService: too many USFs have been left unanswered.
NotThere == tbf.n3101 > N3101Max

Newest == IF up.heard = {} THEN 0 ELSE CHOOSE n \in up.heard : \A m \in up.heard : m <= n

\* The radio never loses WS - 2 new blocks in a row (62, with older ones heard between
\* them): the engine would clear the place of the block that it has just stored.
MayBeLost(block) == block.n <= Newest + WS - 3

\* findNeedyUSF gives the handset its turn, in every state of the engine.
Grant ==
    /\ tbf.state = "DataTransmit" /\ ~NotThere /\ Len(air) < Lag
    /\ tbf' = [tbf EXCEPT !.n3101 = @ + 1]
    /\ up' = [up EXCEPT !.usf = TRUE]
    /\ \/ UNCHANGED <<air, phone>> /\ ~phone.on
       \/ /\ phone.on
          /\ \E a \in Answers :
               /\ phone' = a.phone
               /\ \/ air' = Append(air, a.block)
                  \/ air' = air /\ MayBeLost(a.block)

N3101Expires ==
    /\ tbf.state # "Dead" /\ NotThere
    /\ tbf' = [tbf EXCEPT !.state = "Dead"]
    /\ air' = <<>>
    /\ UNCHANGED <<up, phone>>

-----------------------------------------------------------------------------
(* The engine acknowledges: engineService.                                 *)

MustAck == (up.stalled \/ up.sinceAck = PerAck) /\ ~tbf.poll

Serviced == tbf.state \in {"DataTransmit", "DataFinal"} /\ up.state # "Finished"

BitmapFromVQ(u) == {i \in 1..WS : u.vn[AddSN(u.vq, -i)]}

Bitmap(u) == {i \in 1..WS : u.vn[AddSN(u.vr, -i)]}

\* sendNonFinalAckNack, when it is due or, in a quiet TBF, to keep it alive.
SendAck ==
    /\ Serviced /\ up.usf
    /\ MustAck \/ up.state = "Quiescent"
    /\ up' = [up EXCEPT !.usf = FALSE, !.sinceAck = 0]
    /\ \/ phone' = phone
       \/ phone.on /\ phone' = HearsAck(up.vr, Bitmap(up))
    /\ tbf' \in {tbf, [tbf EXCEPT !.poll = TRUE]}
    /\ UNCHANGED air

\* The block reserved for an answer has passed.
PollPasses ==
    /\ tbf.poll
    /\ tbf' = [tbf EXCEPT !.poll = FALSE]
    /\ UNCHANGED <<up, air, phone>>

\* GPRS.Uplink.Persist has passed.
PersistExpires ==
    /\ Serviced /\ ~MustAck /\ up.state = "Quiescent"
    /\ up' = [up EXCEPT !.state = "PersistFinal", !.early = Len(air)]
    /\ UNCHANGED <<tbf, air, phone>>

\* Three blocks later no answer to an earlier USF is due any more.
PersistEnds ==
    /\ Serviced /\ ~MustAck /\ up.state = "PersistFinal" /\ up.early = 0
    /\ up' = [up EXCEPT !.state = "Finished"]
    /\ tbf' = [tbf EXCEPT !.state = "DataFinal"]
    /\ UNCHANGED <<air, phone>>

\* The final acknowledgement, with a poll, until the handset answers that.
SendFinalAck ==
    /\ tbf.state = "DataFinal" /\ up.state = "Finished" /\ tbf.n3103 <= N3103Max
    /\ tbf.final = "none" /\ ~tbf.poll
    /\ \/ /\ tbf' = [tbf EXCEPT !.n3103 = @ + 1, !.final = "out"]
          /\ phone' = phone
       \/ /\ phone.on
          /\ tbf' = [tbf EXCEPT !.n3103 = @ + 1, !.final = "heard"]
          /\ phone' = Off
    /\ UNCHANGED <<up, air>>

FinalAcked ==
    /\ tbf.final = "heard"
    /\ tbf' = [tbf EXCEPT !.final = "acked"]
    /\ UNCHANGED <<up, air, phone>>

FinalPasses ==
    /\ tbf.final \in {"out", "heard"}
    /\ tbf' = [tbf EXCEPT !.final = "none"]
    /\ UNCHANGED <<up, air, phone>>

\* mtFinishSuccess, or N3103.
Finish ==
    /\ tbf.state = "DataFinal"
    /\ \/ /\ up.state = "Finished" /\ tbf.final = "acked"
          /\ tbf' = [tbf EXCEPT !.state = "Finished", !.final = "none"]
          /\ air' = air
       \/ /\ tbf.n3103 > N3103Max
          /\ tbf' = [tbf EXCEPT !.state = "Dead"]
          /\ air' = <<>>
    /\ UNCHANGED <<up, phone>>

\* mtDetach, once nothing is expected any more.
Detach ==
    /\ tbf.state = "Finished" /\ tbf.final = "none" /\ ~tbf.poll
    /\ tbf' = [tbf EXCEPT !.state = "Dead"]
    /\ air' = <<>>
    /\ UNCHANGED <<up, phone>>

\* GPRS.Timers.MS.NonResponsive: nothing has been heard of the handset for a long time.
Responsive == phone.on /\ tbf.state # "DataFinal"

NonResponsive ==
    /\ tbf.state # "Dead" /\ ~Responsive
    /\ tbf' = [tbf EXCEPT !.state = "Dead"]
    /\ air' = <<>>
    /\ UNCHANGED <<up, phone>>

\* The handset goes, or gives up (T3182).
Leaves ==
    /\ phone.on
    /\ phone' = Off
    /\ UNCHANGED <<up, tbf, air>>

-----------------------------------------------------------------------------
Close == SendFinalAck \/ Finish \/ Detach

Next ==
    \/ Grant \/ Arrive \/ N3101Expires \/ SendAck \/ PersistExpires \/ PersistEnds \/ Close
    \/ PollPasses \/ FinalAcked \/ FinalPasses \/ NonResponsive \/ Leaves

Spec == Init /\ [][Next]_vars

-----------------------------------------------------------------------------
(* Properties.                                                             *)

\* What waits in the window of the engine is what belongs there, whatever was lost, sent
\* again and forgotten: blocks are delivered in the order the handset made them.
Aligned ==
    /\ up.got % SNS = up.vq
    /\ \A i \in 0..AddSN(up.vr, -up.vq) - 1 :
          LET n == up.rxq[AddSN(up.vq, i)] IN n # 0 => n = up.got + 1 + i

\* The bitmap of an acknowledgement is exact: V(R) is one beyond the newest block heard,
\* and of the WS before it those are reported that have been heard, not the ones that
\* had the same numbers a round earlier, nor one less for clearing too much.
BitmapIsExact ==
    /\ up.vr = Newest % SNS
    /\ Bitmap(up) = {i \in 1..WS : Newest + 1 - i \in up.heard}
=============================================================================
