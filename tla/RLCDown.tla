------------------------------ MODULE RLCDown -------------------------------
(***************************************************************************)
(* A downlink TBF in acknowledged mode: RLCDownEngine of GPRS/RLCEngine    *)
(* and the handset that receives its blocks.  The engine has a window over *)
(* block numbers that wrap around, polls the handset through RRBP          *)
(* reservations, resends what the bitmaps of the answers deny, and gives   *)
(* up when polls stay unanswered (N3105) or the answers bring nothing new  *)
(* (NStuck).                                                               *)
(*                                                                         *)
(* Blocks carry numbers 1, 2, ... of the order in which they are filled,   *)
(* which the code does not have: they tell block from block.  Persistent   *)
(* mode, which the configuration says is not implemented, is left out.     *)
(***************************************************************************)
EXTENDS RLCWindow, FiniteSets

CONSTANTS
    Blocks,      \* bound: blocks of data that come for the handset
    PerAck,      \* GPRS.TBF.Downlink.Poll1
    Slip,        \* 6 * msPCHDowns.size(): blocks that an answer may lag behind
    NStuck,      \* GPRS.TBF.Downlink.NStuck
    N3105Max,    \* GPRS.Counters.N3105
    Channels     \* downlink channels of the handset

ASSUME DownAssumption ==
    /\ Blocks \in Nat \ {0} /\ PerAck \in Nat \ {0} /\ Slip \in Nat /\ NStuck \in Nat
    /\ N3105Max \in Nat /\ Channels \in Nat \ {0}

VARIABLES
    down,    \* the engine
    poll,    \* the RRBP reservation that the engine waits for
    data,    \* blocks' worth of data: in msDownlinkQueue, and still to come
    ms       \* the handset's receiver

vars == <<down, poll, data, ms>>

Numbers == 0..Blocks     \* 0: no block

TypeOK ==
    /\ down \in [state: {"Transmit", "Finished", "Cancelled"},
                 vs: BSNs, va: BSNs, txqNum: BSNs,
                 vb: [BSNs -> BOOLEAN], txq: [BSNs -> Numbers],
                 finished: BOOLEAN, stalled: BOOLEAN,
                 resendSsn: BSNs, prevAckSsn: BSNs,
                 sincePoll: 0..PerAck,              \* mNumDownBlocksSinceAckNack
                 sinceNews: 0..NStuck + 1,          \* mTotalBlocksSent - mPrevAckBlockCount
                 n3105: 0..N3105Max + 1]
    /\ poll \in {"none", "out", "heard"}
    /\ data \in [queue: Numbers, toCome: Numbers]
    /\ ms \in [got: Numbers, vq: BSNs, vr: BSNs, buf: [BSNs -> Numbers]]

Init ==
    /\ down = [state |-> "Transmit", vs |-> 0, va |-> 0, txqNum |-> 0,
               vb |-> [b \in BSNs |-> FALSE], txq |-> [b \in BSNs |-> 0],
               finished |-> FALSE, stalled |-> FALSE, resendSsn |-> 0, prevAckSsn |-> 0,
               sincePoll |-> 0, sinceNews |-> 0, n3105 |-> 0]
    /\ poll = "none"
    /\ data = [queue |-> 1, toCome |-> Blocks - 1]
    /\ ms = [got |-> 0, vq |-> 0, vr |-> 0, buf |-> [b \in BSNs |-> 0]]

Upto(max, n) == IF n < max THEN n ELSE max      \* counters stop where no test tells more apart

-----------------------------------------------------------------------------
(* The engine's helpers.                                                   *)

AdvanceVA(d) == [d EXCEPT !.va = FirstSN(d.va, d.txqNum, {b \in BSNs : ~d.vb[b]})]

ResendNeeded(d, b) == ~d.vb[b] /\ (d.stalled \/ DeltaSN(b, d.resendSsn) < 0)

WindowFullLate(d) == DeltaSNS(d.vs, d.va) >= WS + 1

WindowFull(d) == DeltaSNS(d.vs, d.va) >= WS - 1

AdvanceVS(d) ==
    LET e == [d EXCEPT !.vs = FirstSN(d.vs, d.txqNum, {b \in BSNs : ResendNeeded(d, b)})]
    IN IF WindowFull(e) THEN [e EXCEPT !.stalled = TRUE, !.vs = d.va] ELSE e

\* engineFillBlock for getBlock: the block that takes the last of the data is final.
Fill(d) == [d EXCEPT !.txq[d.txqNum] = Blocks - data.toCome - data.queue + 1, !.vb[d.txqNum] = FALSE,
                     !.txqNum = IncSN(d.txqNum), !.finished = (data.queue = 1)]

\* getBlock: a block sent before, the final block again, or a new one.
NeedsFill(d) == d.vs = d.txqNum /\ ~d.finished

GetBlock(d) == IF NeedsFill(d) THEN Fill(d) ELSE d

Current(d, e) == IF d.vs = d.txqNum /\ d.finished THEN AddSN(d.vs, -1) ELSE d.vs

IsFinal(e, b) == e.finished /\ b = AddSN(e.txqNum, -1)

-----------------------------------------------------------------------------
(* The handset's receiver, GSM 04.60 9.1.                                  *)

InWindow(m, b) == AddSN(b, -m.vq) < WS

Deliver(m) ==
    LET vq == FirstSN(m.vq, m.vr, {b \in BSNs : m.buf[b] = 0})
        n == AddSN(vq, -m.vq)
    IN [m EXCEPT !.vq = vq, !.got = IF n = 0 THEN @ ELSE m.buf[AddSN(vq, -1)],
                 !.buf = [b \in BSNs |-> IF AddSN(b, -m.vq) < n THEN 0 ELSE m.buf[b]]]

Hears(m, b, n) ==
    IF ~InWindow(m, b) THEN m
    ELSE Deliver([m EXCEPT !.buf[b] = n,
                           !.vr = IF AddSN(b, -m.vq) >= AddSN(m.vr, -m.vq) THEN IncSN(b) ELSE @])

\* The bitmap: what it has of the last WS numbers before SSN = V(R).
Bitmap(m) == {i \in 1..WS : LET b == AddSN(m.vr, -i) IN ~InWindow(m, b) \/ m.buf[b] # 0}

-----------------------------------------------------------------------------
(* Transmission.                                                           *)

\* send1DataFrame, with a reservation or without: the handset hears it or not.
Send(e, b, polled) ==
    \E heard \in BOOLEAN :
        /\ ms' = IF heard THEN Hears(ms, b, e.txq[b]) ELSE ms
        /\ poll' = IF ~polled THEN poll ELSE IF heard THEN "heard" ELSE "out"

SentUncounted(e, polled) == [e EXCEPT !.sinceNews = Upto(NStuck + 1, @ + 1)]

Sent(e, polled) ==
    [e EXCEPT !.n3105 = IF polled THEN @ + 1 ELSE @, !.sinceNews = Upto(NStuck + 1, @ + 1)]

SendFinal(e, b, primary, granted) ==
    IF primary /\ poll = "none" /\ granted
    THEN Send(e, b, TRUE) /\ down' = Sent(e, TRUE)
    ELSE down' = e /\ UNCHANGED <<ms, poll>>

SendStalled(e, b, primary, granted) ==
    IF primary /\ poll = "none"
    THEN /\ Send(e, b, granted)
         /\ down' = Sent(AdvanceVS([e EXCEPT !.vs = IncSN(@)]), granted)
    ELSE down' = e /\ UNCHANGED <<ms, poll>>

SendNext(e, b, primary, granted) ==
    LET since == IF primary THEN Upto(PerAck, e.sincePoll + 1) ELSE e.sincePoll
        polled == primary /\ since = PerAck /\ poll = "none" /\ granted
    IN /\ Send(e, b, polled)
       /\ down' = Sent(AdvanceVS([e EXCEPT !.sincePoll = since, !.vs = IncSN(@)]), polled)

Unanswered(d) == d.n3105 > N3105Max

\* mtServiceDownlink in DataTransmit, and engineService.
Service(primary, granted) ==
    /\ down.state = "Transmit"
    /\ IF Unanswered(down)
       THEN down' = [down EXCEPT !.state = "Cancelled"] /\ UNCHANGED <<poll, data, ms>>
       ELSE LET e == GetBlock(down)  b == Current(down, e)
            IN /\ NeedsFill(down) => data.queue > 0
               /\ data' = IF NeedsFill(down) THEN [data EXCEPT !.queue = @ - 1] ELSE data
               /\ CASE IsFinal(e, b) -> SendFinal(e, b, primary, granted)
                    [] ~IsFinal(e, b) /\ e.stalled -> SendStalled(e, b, primary, granted)
                    [] OTHER -> SendNext(e, b, primary, granted)

-----------------------------------------------------------------------------
(* Answers.                                                                *)

AckedBSNs(ssn, bits) == {AddSN(ssn, -i) : i \in bits}

\* Where the engine stops resending what the answer does not acknowledge.
ResendLimit(d, ssn) ==
    IF ssn = d.prevAckSsn \/ d.finished THEN d.txqNum
    ELSE IF DeltaSNS(d.txqNum, ssn) > Slip THEN AddSN(d.txqNum, -Slip) ELSE ssn

\* engineRecvAckNack after the bitmap.
AfterAcks(d) ==
    LET e == AdvanceVA(d)
    IN IF e.va = e.txqNum
       THEN [e EXCEPT !.state = IF e.finished THEN "Finished" ELSE @]
       ELSE AdvanceVS([e EXCEPT !.vs = e.va])

\* No news: neither SSN nor a bit is new.
NoNews(d, ssn, acked) == ssn = d.prevAckSsn /\ \A b \in acked : d.vb[b]

RecvAck(d, ssn, bits) ==
    LET acked == AckedBSNs(ssn, bits)
        e == [d EXCEPT !.vb = [b \in BSNs |-> d.vb[b] \/ b \in acked]]
    IN IF NoNews(d, ssn, acked) /\ d.sinceNews > NStuck
       THEN [e EXCEPT !.state = "Cancelled"]
       ELSE AfterAcks([e EXCEPT !.prevAckSsn = ssn, !.resendSsn = ResendLimit(d, ssn),
                                !.sinceNews = IF NoNews(d, ssn, acked) THEN @ ELSE 0])

RecvFinalAck(d) == AfterAcks([d EXCEPT !.vb = [b \in BSNs |-> TRUE]])

\* The answer of a handset that has heard the poll, in its reserved block.
HasAll(m) == down.finished /\ m.got = Blocks - data.toCome - data.queue

Answer ==
    /\ down.state = "Transmit" /\ poll = "heard"
    /\ poll' = "none"
    /\ LET d == [down EXCEPT !.n3105 = 0, !.stalled = FALSE, !.sincePoll = 0]
       IN down' = IF HasAll(ms) THEN RecvFinalAck(d) ELSE RecvAck(d, ms.vr, Bitmap(ms))
    /\ UNCHANGED <<data, ms>>

\* The reserved block has passed: the poll was not heard, or the answer was not.
PollPasses ==
    /\ poll # "none"
    /\ poll' = "none"
    /\ UNCHANGED <<down, data, ms>>

\* The SGSN has more data.
Arrive ==
    /\ data.toCome > 0
    /\ data' = [queue |-> data.queue + 1, toCome |-> data.toCome - 1]
    /\ UNCHANGED <<down, poll, ms>>

-----------------------------------------------------------------------------
Primary == IF Channels = 1 THEN {TRUE} ELSE BOOLEAN

Next ==
    \/ \E primary \in Primary, granted \in BOOLEAN : Service(primary, granted)
    \/ Answer \/ PollPasses \/ Arrive

Spec == Init /\ [][Next]_vars

\* The MAC serves the primary channel, finds a block to reserve now and then, and time
\* passes.  The radio may lose every block and every answer.
Fairness == WF_vars(Service(TRUE, TRUE)) /\ WF_vars(PollPasses)

FairSpec == Spec /\ Fairness

-----------------------------------------------------------------------------
(* Properties.                                                             *)

\* A number the handset has is the one its place in the window stands for: numbers wrap,
\* blocks are sent again and answers come late, and yet it never takes a block for
\* another WS or SNS away, so that what it delivers is in order.
Aligned ==
    /\ ms.got % SNS = ms.vq
    /\ \A b \in BSNs : ms.buf[b] # 0 => ms.buf[b] = ms.got + 1 + AddSN(b, -ms.vq)

\* What the engine holds for acknowledged, the handset has: no bit of an answer is taken
\* for a block of the next round, and no data is lost in a TBF that ends well.
AckedIsReceived ==
    \A b \in BSNs : down.txq[b] # 0 /\ down.vb[b] =>
        down.txq[b] <= ms.got \/ down.txq[b] \in {ms.buf[c] : c \in BSNs}

\* Unless the radio fails for good the whole transfer ends; then N3105 or NStuck end it.
TransferEnds == down.state = "Transmit" ~> down.state # "Transmit"
=============================================================================
