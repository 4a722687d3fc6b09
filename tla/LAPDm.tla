-------------------------------- MODULE LAPDm --------------------------------
(***************************************************************************)
(* The data link layer of a dedicated GSM channel: GSM/GSML2LAPDm.cpp.     *)
(* Two L2LAPDm entities of one SAP, the BTS's (mC = 1) and the handset's   *)
(* (mC = 0, the form the class is given to emulate a handset), talk over   *)
(* two lossy FIFO radio directions.  Each entity is driven by two threads  *)
(* that share its state under mLock:                                       *)
(*   - the service thread (lapServiceLoop): takes the next frame of mL1In  *)
(*     or, when its blocking read times out, serves an expired T200;       *)
(*   - the L3 downlink thread, which calls l2dlWriteHighSide and blocks in *)
(*     waitForAck, where mLock is let go.                                  *)
(* One action is one stretch of code that runs without letting mLock go.   *)
(***************************************************************************)
EXTENDS Integers, Sequences

CONSTANTS
  BTS, MS,        \* the two entities of the SAP
  N200,           \* retransmissions allowed (23 on SDCCH, 34 on FACCH, 5 on SACCH)
  Modulus,         \* modulus of VS, VA, VR: 8 in the code, less in small instances
  MaxSegs,        \* bound: I-frames that one L3 message is cut into
  MaxTx,          \* bound: I-frames an entity sends on one link
  MaxAsks,        \* bound: ESTABLISH_REQUESTs
  MaxStrays,      \* bound: frames a handset sends unasked
  ChanCap,        \* bound: frames in flight in one direction; the radio loses the rest
  PromptRadio,    \* a frame arrives, or is lost, within T200 of its sending
  QuietStart,     \* and before a thread that asks for a link sends its SABM
  Initiators,     \* the entities whose L3 asks for a link
  Writers,        \* the entities whose L3 sends data
  Releasers,      \* the entities whose L3 asks for a release
  HardReleasers,  \* the entities whose L3 drops the link without a word
  SabmInfo,       \* payloads of a SABM, 0 for none; a payload asks for contention resolution
  Strays          \* frames a handset that is not an L2LAPDm is seen to send unasked

E == {BTS, MS}
Peer(e) == IF e = BTS THEN MS ELSE BTS
C(e) == IF e = BTS THEN 1 ELSE 0        \* mC
R(e) == 1 - C(e)                        \* mR

LAPDState == {"LinkReleased", "AwaitingEstablish", "AwaitingRelease",
              "LinkEstablished", "ContentionResolution"}
FrameType == {"PH_CONNECT", "SABM", "DISC", "UA", "DM", "RR", "REJ", "I", "idleFill"}

(* A frame.  link, n and first are not bits of it.  They let a property    *)
(* tell segments apart: the n-th I-frame its sender sent on its link-th    *)
(* link, first of its L3 message or not.                                   *)
Frame == [type : FrameType, cr : {0, 1}, pf : BOOLEAN, ns : 0 .. Modulus - 1,
          nr : 0 .. Modulus - 1, more : BOOLEAN, info : SabmInfo \cup {0},
          link : Nat, n : 0 .. MaxTx, first : BOOLEAN]
Segment == [link : Nat, n : 0 .. MaxTx, first : BOOLEAN, more : BOOLEAN]

(* A frame, not a primitive of the layer below.                            *)
SapFrame == {f \in Frame : f.type # "PH_CONNECT"}

(* What the code keeps in one L2LAPDm.  t200: mT200 is running.  poll: how *)
(* long the service thread's current read of mL1In blocks, one T200 period *)
(* or the hour it gives a released link.                                   *)
Lap == [state : LAPDState, VS : 0 .. Modulus - 1, VA : 0 .. Modulus - 1,
        VR : 0 .. Modulus - 1, RC : 0 .. N200 + 1, t200 : BOOLEAN,
        inProgress : BOOLEAN, discard : BOOLEAN, recvBuffer : Seq(Segment),
        sentFrame : SapFrame, contentionCheck : SabmInfo \cup {0},
        poll : {"T200", "hour"}]

(* The L3 downlink thread: idle, or inside l2dlWriteHighSide, where it may *)
(* have the left last segments of a message to send.                       *)
Thread == [pc : {"idle", "lockSABM", "drain", "release"}, left : {0}, first : {FALSE}]
          \cup [pc : {"data"}, left : 1 .. MaxSegs, first : BOOLEAN]

ASSUME EntityAssumption == BTS # MS
ASSUME BoundsAssumption ==
  /\ N200 \in Nat /\ Modulus \in Nat \ {0, 1} /\ MaxSegs \in Nat \ {0}
  /\ MaxTx \in Nat /\ MaxAsks \in Nat /\ MaxStrays \in Nat /\ ChanCap \in Nat \ {0}
  /\ SabmInfo \subseteq Nat /\ PromptRadio \in BOOLEAN /\ QuietStart \in BOOLEAN
ASSUME RolesAssumption ==
  /\ Initiators \subseteq E /\ Writers \subseteq E /\ Releasers \subseteq E
  /\ HardReleasers \subseteq E
  /\ Strays \subseteq [type : {"SABM", "UA", "DM", "RR", "REJ"}, cr : {0, 1}, pf : BOOLEAN]

VARIABLES
  lap,        \* the L2LAPDm objects
  thr,        \* their L3 downlink threads
  chan,       \* chan[e]: frames on their way to e, on the radio or in its mL1In
  l3,         \* what L3 believes of the link: what it asked for, or was last told
  link,       \* how many times e has entered multiframe mode
  tx,         \* I-frames e has sent since, retransmissions not counted
  reached,    \* how many of these its peer has accepted
  delivered,  \* the segments of the L3 messages handed up on the current link
  nAsks, nStrays
vars == <<lap, thr, chan, l3, link, tx, reached, delivered, nAsks, nStrays>>
-----------------------------------------------------------------------------
(* Frames.                                                                 *)

Blank == [type |-> "idleFill", cr |-> 0, pf |-> FALSE, ns |-> 0, nr |-> 0,
          more |-> FALSE, info |-> 0, link |-> 0, n |-> 0, first |-> FALSE]
Command(e, type) == [Blank EXCEPT !.type = type, !.cr = C(e), !.pf = TRUE]
Response(e, type, f) == [Blank EXCEPT !.type = type, !.cr = R(e), !.pf = f]
Supervisory(e, type, f, vr) == [Response(e, type, f) EXCEPT !.nr = vr]
SegmentOf(f) == [link |-> f.link, n |-> f.n, first |-> f.first, more |-> f.more]

(* The radio takes what fits and loses the rest.  A retransmission of an   *)
(* mSentFrame that was never written is fill, which no SAP accepts.        *)
Put(q, out) ==
  IF Len(q \o out) <= ChanCap /\ \A i \in DOMAIN out : out[i].type # "idleFill"
  THEN q \o out ELSE q
-----------------------------------------------------------------------------
(* Faulty forms of the definitions below: each is what a plausible slip in *)
(* the code would make of one, and some property of the runs finds it.     *)
NextSeqUnwrapped(s) == s + 1
ClearCountersButVR(r) == [r EXCEPT !.t200 = FALSE, !.VS = 0, !.VA = 0,
                                   !.RC = 0, !.recvBuffer = <<>>, !.discard = TRUE]
WriteL1AckUntimed(r, f) == [r EXCEPT !.sentFrame = f]
AckReadyAnyAck(r) == r.state = "LinkReleased" \/ r.state \in {"LinkEstablished", "ContentionResolution"}
ToldNoError(belief, ind) ==
  CASE ind \in {"L3_ESTABLISH_INDICATION", "L3_ESTABLISH_CONFIRM"} -> "up"
    [] ind \in {"L3_RELEASE_INDICATION", "L3_RELEASE_CONFIRM"} -> "down"
    [] OTHER -> belief
-----------------------------------------------------------------------------
(* The parts of an L2LAPDm that its handlers share.                        *)

NextSeq(s) == (s + 1) % Modulus
Expected(r, f) == f.ns = r.VR
ClearCounters(r) == [r EXCEPT !.t200 = FALSE, !.VS = 0, !.VA = 0, !.VR = 0,
                              !.RC = 0, !.recvBuffer = <<>>, !.discard = TRUE]
ReleaseLink(r) == [ClearCounters(r) EXCEPT !.state = "LinkReleased",
                                           !.inProgress = FALSE]
ProcessAck(r, nr) ==
  IF nr = r.VS THEN [r EXCEPT !.VA = nr, !.RC = 0, !.t200 = FALSE]
               ELSE [r EXCEPT !.VA = nr]
WriteL1Ack(r, f) == [r EXCEPT !.sentFrame = f, !.t200 = TRUE]
RetransmissionProcedure(r) == [r EXCEPT !.RC = @ + 1, !.t200 = TRUE]
(* An I-frame or an S-frame ends contention resolution.                    *)
Confirmed(r) == [r EXCEPT !.state = "LinkEstablished", !.inProgress = FALSE]

InMultiframe(r) == r.state \in {"LinkEstablished", "ContentionResolution"}
(* waitForAck does not block, or is woken for good.                        *)
AckReady(r) == r.state = "LinkReleased" \/ (InMultiframe(r) /\ r.VS = r.VA)

(* How long the service thread will block, computed as it goes back to     *)
(* read mL1In.                                                             *)
Reread(r) ==
  [r EXCEPT !.poll = IF ~r.t200 /\ r.state = "LinkReleased" THEN "hour" ELSE "T200"]

(* What L3 knows after an indication.                                      *)
Told(belief, ind) ==
  CASE ind \in {"L3_ESTABLISH_INDICATION", "L3_ESTABLISH_CONFIRM"} -> "up"
    [] ind \in {"L3_RELEASE_INDICATION", "L3_RELEASE_CONFIRM", "MDL_ERROR_INDICATION"} -> "down"
    [] OTHER -> belief
-----------------------------------------------------------------------------
(* The service thread: receiveFrame and the handlers it dispatches to.     *)

Arrives(e, type) == chan[e] # <<>> /\ Head(chan[e]).type = type
State(e) == lap[e].state

(* The entity becomes new, the frames out go to the peer, L3 is told ind,  *)
(* and the thread goes back to reading mL1In.                              *)
React(e, new, out, ind) ==
  /\ lap' = [lap EXCEPT ![e] = Reread(new)]
  /\ chan' = [chan EXCEPT ![e] = Tail(@), ![Peer(e)] = Put(@, out)]
  /\ l3' = [l3 EXCEPT ![e] = Told(@, ind)]
  /\ UNCHANGED <<thr, nAsks, nStrays>>
OnSameLink == UNCHANGED <<link, tx, reached, delivered>>
OnNewLink(e) == /\ link' = [link EXCEPT ![e] = @ + 1]
                /\ tx' = [tx EXCEPT ![e] = 0]
                /\ reached' = [reached EXCEPT ![e] = 0]
                /\ delivered' = [delivered EXCEPT ![e] = <<>>]

UA(e, f) == <<[Response(e, "UA", f.pf) EXCEPT !.info = f.info]>>
DM(e, f) == <<Response(e, "DM", f)>>
(* unexpectedMessage: abnormalRelease with a DM.                           *)
Unexpected(e) == React(e, ReleaseLink(lap[e]), DM(e, TRUE), "MDL_ERROR_INDICATION")
Ignore(e) == React(e, lap[e], <<>>, "none")

ReceivePhConnect(e) ==
  /\ Arrives(e, "PH_CONNECT")
  /\ React(e, [ClearCounters(lap[e]) EXCEPT !.state = "LinkReleased"], <<>>, "none")
  /\ OnSameLink

ReceiveSABM(e) ==
  LET f == Head(chan[e])
      r == lap[e]
  IN
  /\ Arrives(e, "SABM")
  /\ \/ ~f.pf /\ Ignore(e) /\ OnSameLink
     \/ /\ f.pf /\ State(e) = "LinkReleased" /\ f.info # 0
        /\ React(e, [ClearCounters(r) EXCEPT !.state = "ContentionResolution",
                       !.inProgress = TRUE, !.contentionCheck = f.info],
                 UA(e, f), "L3_ESTABLISH_INDICATION")
        /\ OnNewLink(e)
     \/ /\ f.pf /\ State(e) = "LinkReleased" /\ f.info = 0
        /\ React(e, [ClearCounters(r) EXCEPT !.state = "LinkEstablished",
                       !.inProgress = TRUE],
                 UA(e, f), "L3_ESTABLISH_INDICATION")
        /\ OnNewLink(e)
     \/ /\ f.pf /\ State(e) = "ContentionResolution" /\ f.info # r.contentionCheck
        /\ Ignore(e) /\ OnSameLink
     \/ /\ f.pf /\ State(e) = "ContentionResolution" /\ f.info = r.contentionCheck
        /\ React(e, [r EXCEPT !.state = "LinkEstablished"], UA(e, f), "none")
        /\ OnSameLink
     \/ /\ f.pf /\ State(e) = "AwaitingEstablish"
        /\ React(e, r, UA(e, [f EXCEPT !.info = 0]), "none") /\ OnSameLink
     \/ /\ f.pf /\ State(e) = "AwaitingRelease"
        /\ React(e, r, DM(e, TRUE), "none") /\ OnSameLink
     \/ /\ f.pf /\ State(e) = "LinkEstablished" /\ r.inProgress
        /\ React(e, r, UA(e, f), "none") /\ OnSameLink
     \/ /\ f.pf /\ State(e) = "LinkEstablished" /\ ~r.inProgress /\ f.info # 0
        /\ Unexpected(e) /\ OnSameLink
     \/ /\ f.pf /\ State(e) = "LinkEstablished" /\ ~r.inProgress /\ f.info = 0
        /\ React(e, ClearCounters(r), UA(e, f), "none")
        /\ OnNewLink(e)

ReceiveDISC(e) ==
  LET f == Head(chan[e])
      r == lap[e]
  IN
  /\ Arrives(e, "DISC")
  /\ OnSameLink
  /\ \/ /\ State(e) = "AwaitingEstablish"
        /\ React(e, ReleaseLink(r), <<>>, "L3_RELEASE_INDICATION")
     \/ /\ State(e) = "LinkReleased"
        /\ React(e, ReleaseLink(r), DM(e, f.pf), "none")
     \/ /\ InMultiframe(r)
        /\ React(e, ReleaseLink(r), UA(e, f), "L3_RELEASE_INDICATION")
     \/ /\ State(e) = "AwaitingRelease"
        /\ React(e, ReleaseLink(r), UA(e, f), "L3_RELEASE_CONFIRM")

ReceiveUA(e) ==
  LET f == Head(chan[e])
      r == lap[e]
  IN
  /\ Arrives(e, "UA")
  /\ \/ /\ f.pf /\ State(e) = "AwaitingEstablish"
        /\ React(e, [ClearCounters(r) EXCEPT !.state = "LinkEstablished"], <<>>,
                 "L3_ESTABLISH_CONFIRM")
        /\ OnNewLink(e)
     \/ /\ f.pf /\ State(e) = "AwaitingRelease"
        /\ React(e, ReleaseLink(r), <<>>, "L3_RELEASE_CONFIRM") /\ OnSameLink
     \/ f.pf /\ InMultiframe(r) /\ Ignore(e) /\ OnSameLink
     \/ f.pf /\ State(e) = "LinkReleased" /\ Unexpected(e) /\ OnSameLink
     \/ ~f.pf /\ Unexpected(e) /\ OnSameLink

(* An unsolicited DM does not release the link: it starts T200, tells L3   *)
(* of a release, and leaves the end to the retransmission counter.         *)
ReceiveDM(e) ==
  LET f == Head(chan[e])
      r == lap[e]
  IN
  /\ Arrives(e, "DM")
  /\ OnSameLink
  /\ \/ (~f.pf \/ State(e) = "LinkReleased") /\ Ignore(e)
     \/ /\ f.pf /\ State(e) = "AwaitingRelease"
        /\ React(e, ReleaseLink(r), <<>>, "L3_RELEASE_CONFIRM")
     \/ /\ f.pf /\ (State(e) = "AwaitingEstablish" \/ InMultiframe(r))
        /\ React(e, [r EXCEPT !.t200 = TRUE], <<>>, "L3_RELEASE_INDICATION")

(* The S-frames and the I-frame end the establishment whatever the state,  *)
(* and are otherwise ignored out of multiframe mode.                       *)
OutOfMultiframeAcks(e) ==     \* a faulty form of the next one
  /\ ~InMultiframe(lap[e])
  /\ React(e, ProcessAck([lap[e] EXCEPT !.inProgress = FALSE], Head(chan[e]).nr), <<>>, "none")
OutOfMultiframe(e) ==
  /\ ~InMultiframe(lap[e])
  /\ React(e, [lap[e] EXCEPT !.inProgress = FALSE], <<>>, "none")

ReceiveRR(e) ==
  LET f == Head(chan[e])
      new == ProcessAck(Confirmed(lap[e]), f.nr)
  IN
  /\ Arrives(e, "RR")
  /\ OnSameLink
  /\ \/ OutOfMultiframe(e)
     \/ /\ InMultiframe(lap[e])
        /\ React(e, new, IF f.cr = C(e) /\ f.pf
                         THEN <<Supervisory(e, "RR", TRUE, new.VR)>> ELSE <<>>, "none")

ReceiveREJ(e) ==
  LET f == Head(chan[e])
      new == ProcessAck(Confirmed(lap[e]), f.nr)
  IN
  /\ Arrives(e, "REJ")
  /\ OnSameLink
  /\ \/ OutOfMultiframe(e)
     \/ InMultiframe(lap[e]) /\ ~f.pf /\ React(e, new, <<>>, "none")
     \/ /\ InMultiframe(lap[e]) /\ f.pf /\ f.cr # C(e)
        /\ React(e, new, <<Supervisory(e, "RR", TRUE, new.VR)>>, "none")
     \/ InMultiframe(lap[e]) /\ f.pf /\ f.cr = C(e) /\ Unexpected(e)

(* receiveIFrame and bufferIFrameData.                                     *)
ReceiveI(e) ==
  LET f == Head(chan[e])
      acked == ProcessAck(Confirmed(lap[e]), f.nr)
      vr == NextSeq(acked.VR)
      part == Append(acked.recvBuffer, SegmentOf(f))
  IN
  /\ Arrives(e, "I")
  /\ UNCHANGED <<link, tx>>
  /\ \/ OutOfMultiframe(e) /\ UNCHANGED <<reached, delivered>>
     \/ /\ InMultiframe(lap[e]) /\ Expected(acked, f)
        /\ React(e, [acked EXCEPT !.VR = vr,
                                  !.recvBuffer = IF f.more THEN part ELSE <<>>],
                 <<Supervisory(e, "RR", f.pf, vr)>>, "none")
        /\ delivered' = [delivered EXCEPT ![e] = IF f.more THEN @ ELSE @ \o part]
        /\ reached' = [reached EXCEPT ![Peer(e)] = IF f.link = link[Peer(e)] THEN f.n ELSE @]
     \/ /\ InMultiframe(lap[e]) /\ ~Expected(acked, f)
        /\ React(e, acked, <<Supervisory(e, "REJ", f.pf, acked.VR)>>, "none")
        /\ UNCHANGED <<reached, delivered>>

Receive(e) == \/ ReceivePhConnect(e) \/ ReceiveSABM(e) \/ ReceiveDISC(e) \/ ReceiveUA(e)
              \/ ReceiveDM(e) \/ ReceiveRR(e) \/ ReceiveREJ(e) \/ ReceiveI(e)
-----------------------------------------------------------------------------
(* The service thread: the read of mL1In times out.                        *)

(* A T200 that runs is noticed only when the read was given its time.      *)
T200Expiration(e) ==
  LET r == lap[e] IN
  /\ r.t200 /\ r.poll = "T200"
  /\ PromptRadio => chan = [d \in E |-> <<>>]
  /\ \/ /\ r.RC > N200
        /\ lap' = [lap EXCEPT ![e] = Reread(ReleaseLink(r))]
        /\ l3' = [l3 EXCEPT ![e] = Told(@, "MDL_ERROR_INDICATION")]
        /\ UNCHANGED chan
     \/ /\ r.RC <= N200
        /\ lap' = [lap EXCEPT ![e] = Reread(RetransmissionProcedure(r))]
        /\ chan' = [chan EXCEPT ![Peer(e)] = Put(@, <<r.sentFrame>>)]
        /\ UNCHANGED l3
  /\ UNCHANGED <<thr, nAsks, nStrays>> /\ OnSameLink

IdleTimeout(e) ==
  /\ ~lap[e].t200 /\ lap[e].poll = "T200" /\ State(e) = "LinkReleased"
  /\ lap' = [lap EXCEPT ![e] = Reread(@)]
  /\ UNCHANGED <<thr, chan, l3, nAsks, nStrays>> /\ OnSameLink
-----------------------------------------------------------------------------
(* The L3 downlink thread: l2dlWriteHighSide.                              *)

Goto(pc) == [pc |-> pc, left |-> 0, first |-> FALSE]
Idle == Goto("idle")

Downlink(e, new, out, belief, next) ==
  /\ lap' = [lap EXCEPT ![e] = new]
  /\ chan' = [chan EXCEPT ![Peer(e)] = Put(@, out)]
  /\ l3' = [l3 EXCEPT ![e] = belief]
  /\ thr' = [thr EXCEPT ![e] = next]
  /\ UNCHANGED <<nAsks, nStrays>>
Calls(e) == thr[e] = Idle

(* L3_ESTABLISH_REQUEST reads mState before it takes mLock.  L3 waits for  *)
(* the outcome of one request before it makes another.                     *)
EstablishRequest(e) ==
  /\ e \in Initiators /\ Calls(e) /\ l3[e] # "asked"
  /\ \/ /\ State(e) = "LinkEstablished"
        /\ Downlink(e, lap[e], <<>>, Told(l3[e], "L3_ESTABLISH_CONFIRM"), Idle)
     \/ /\ State(e) # "LinkEstablished" /\ nAsks < MaxAsks
        /\ l3' = [l3 EXCEPT ![e] = "asked"]
        /\ thr' = [thr EXCEPT ![e] = Goto("lockSABM")]
        /\ nAsks' = nAsks + 1
        /\ UNCHANGED <<lap, chan, nStrays>>
  /\ OnSameLink

SendSABM(e) ==
  /\ thr[e].pc = "lockSABM"
  /\ QuietStart => chan = [d \in E |-> <<>>]
  /\ \E i \in IF e = MS THEN SabmInfo ELSE {0} :
       LET sabm == [Command(e, "SABM") EXCEPT !.info = i]
       IN  Downlink(e, WriteL1Ack([ClearCounters(lap[e]) EXCEPT
                                     !.state = "AwaitingEstablish"], sabm),
                    <<sabm>>, l3[e], Idle)
  /\ OnSameLink

(* sendIFrame: the next segment of a message of which left remain.         *)
SendIFrame(e, r, left, first) ==
  LET n == tx[e] + 1
      f == [Command(e, "I") EXCEPT !.pf = FALSE, !.ns = r.VS, !.nr = r.VR,
              !.more = left > 1, !.link = link[e], !.n = n, !.first = first]
  IN
  /\ n <= MaxTx
  /\ Downlink(e, WriteL1Ack([r EXCEPT !.VS = NextSeq(@)], f), <<f>>, l3[e],
              IF left = 1 THEN Idle ELSE [pc |-> "data", left |-> left - 1, first |-> FALSE])
  /\ tx' = [tx EXCEPT ![e] = n]
  /\ UNCHANGED <<link, reached, delivered>>

(* sendMultiframeData up to its first waitForAck, or past it.              *)
DataRequest(e) ==
  LET r == [lap[e] EXCEPT !.discard = FALSE] IN
  /\ e \in Writers /\ Calls(e)
  /\ \/ /\ State(e) = "LinkReleased"
        /\ Downlink(e, ReleaseLink(lap[e]), <<>>, Told(l3[e], "MDL_ERROR_INDICATION"), Idle)
        /\ OnSameLink
     \/ /\ State(e) # "LinkReleased"
        /\ \E k \in 1 .. MaxSegs :
             /\ tx[e] + k <= MaxTx
             /\ \/ AckReady(r) /\ SendIFrame(e, r, k, TRUE)
                \/ /\ ~AckReady(r)
                   /\ Downlink(e, r, <<>>, l3[e], [pc |-> "data", left |-> k, first |-> TRUE])
                   /\ OnSameLink

(* sendMultiframeData woken in waitForAck.                                 *)
DataAcked(e) ==
  LET r == lap[e] IN
  /\ thr[e].pc = "data" /\ AckReady(r)
  /\ \/ /\ ~r.discard /\ InMultiframe(r)
        /\ SendIFrame(e, r, thr[e].left, thr[e].first)
     \/ /\ r.discard \/ ~InMultiframe(r)
        /\ Downlink(e, r, <<>>, l3[e], Idle)
        /\ OnSameLink

(* normalRelease from the DISC on.                                         *)
SendDISC(e) ==
  /\ Downlink(e, WriteL1Ack([ClearCounters(lap[e]) EXCEPT !.inProgress = FALSE,
                               !.state = "AwaitingRelease"], Command(e, "DISC")),
              <<Command(e, "DISC")>>, l3[e], Goto("release"))
  /\ OnSameLink

ReleaseRequest(e) ==
  /\ e \in Releasers /\ Calls(e) /\ State(e) \notin {"LinkReleased", "AwaitingRelease"}
  /\ \/ (State(e) # "LinkEstablished" \/ AckReady(lap[e])) /\ SendDISC(e)
     \/ /\ State(e) = "LinkEstablished" /\ ~AckReady(lap[e])
        /\ Downlink(e, lap[e], <<>>, l3[e], Goto("drain"))
        /\ OnSameLink

Drained(e) ==
  /\ thr[e].pc = "drain" /\ AckReady(lap[e])
  /\ \/ State(e) # "LinkReleased" /\ SendDISC(e)
     \/ /\ State(e) = "LinkReleased"
        /\ Downlink(e, lap[e], <<>>, l3[e], Idle)
        /\ OnSameLink

ReleaseDone(e) ==
  /\ thr[e].pc = "release" /\ AckReady(lap[e])
  /\ Downlink(e, lap[e], <<>>, l3[e], Idle)
  /\ OnSameLink

HardRelease(e) ==
  /\ e \in HardReleasers /\ Calls(e) /\ State(e) # "LinkReleased"
  /\ Downlink(e, ReleaseLink(lap[e]), <<>>, "down", Idle)
  /\ OnSameLink
-----------------------------------------------------------------------------
(* The radio and the handset.                                              *)

Lose(e) ==
  /\ chan[e] # <<>> /\ Head(chan[e]).type # "PH_CONNECT"
  /\ chan' = [chan EXCEPT ![e] = Tail(@)]
  /\ UNCHANGED <<lap, thr, l3, nAsks, nStrays>> /\ OnSameLink

Stray ==
  /\ nStrays < MaxStrays
  /\ \E s \in Strays :
       chan' = [chan EXCEPT ![BTS] = Put(@, <<[Blank EXCEPT !.type = s.type,
                   !.cr = s.cr, !.pf = s.pf, !.nr = lap[MS].VR]>>)]
  /\ nStrays' = nStrays + 1
  /\ UNCHANGED <<lap, thr, l3, nAsks>> /\ OnSameLink
-----------------------------------------------------------------------------
(* l2dlOpen on both sides; the first good frame of the handset brings      *)
(* PH_CONNECT to the BTS.                                                  *)
Opened == [state |-> "LinkReleased", VS |-> 0, VA |-> 0, VR |-> 0, RC |-> 0,
           t200 |-> FALSE, inProgress |-> FALSE, discard |-> TRUE, recvBuffer |-> <<>>,
           sentFrame |-> Blank, contentionCheck |-> 0, poll |-> "hour"]

Init ==
  /\ lap = [e \in E |-> Opened]
  /\ thr = [e \in E |-> Idle]
  /\ chan = [e \in E |-> IF e = BTS THEN <<[Blank EXCEPT !.type = "PH_CONNECT"]>> ELSE <<>>]
  /\ l3 = [e \in E |-> "down"]
  /\ link = [e \in E |-> 0]
  /\ tx = [e \in E |-> 0] /\ reached = [e \in E |-> 0]
  /\ delivered = [e \in E |-> <<>>]
  /\ nAsks = 0 /\ nStrays = 0

ServiceThread(e) == Receive(e) \/ T200Expiration(e) \/ IdleTimeout(e)
Resume(e) == SendSABM(e) \/ DataAcked(e) \/ Drained(e) \/ ReleaseDone(e)
Call(e) == EstablishRequest(e) \/ DataRequest(e) \/ ReleaseRequest(e) \/ HardRelease(e)

Next == Stray \/ \E e \in E : ServiceThread(e) \/ Resume(e) \/ Call(e) \/ Lose(e)
Spec == Init /\ [][Next]_vars

(* The service thread takes every frame and, after each, looks at T200; a  *)
(* thread whose wait is over returns.  Nothing is assumed of the radio or  *)
(* of what L3 asks.                                                        *)
Fairness == \A e \in E : /\ WF_vars(Receive(e)) /\ WF_vars(T200Expiration(e))
                         /\ WF_vars(Resume(e))
FairSpec == Spec /\ Fairness
-----------------------------------------------------------------------------
(* Every variable has its type.                                            *)
TypeOK ==
  /\ lap \in [E -> Lap]
  /\ thr \in [E -> Thread]
  /\ chan \in [E -> Seq(Frame)]
  /\ l3 \in [E -> {"down", "asked", "up"}]
  /\ link \in [E -> Nat]
  /\ tx \in [E -> 0 .. MaxTx]
  /\ reached \in [E -> 0 .. MaxTx]
  /\ delivered \in [E -> Seq(Segment)]
  /\ nAsks \in 0 .. MaxAsks
  /\ nStrays \in 0 .. MaxStrays

(* What e has accepted on its current link, delivered or still buffered.   *)
Accepted(e) == delivered[e] \o lap[e].recvBuffer

(* k = 1, and so L3_DATA_CONFIRM means that all but the last segment of    *)
(* the message have arrived: a sender is never two segments ahead, and one *)
(* that has not arrived will be sent again, or its link given up: T200     *)
(* runs until then.                                                        *)
OneOutstanding == \A e \in E :
  /\ tx[e] - reached[e] \in {0, 1}
  /\ InMultiframe(lap[e]) /\ tx[e] > reached[e] => lap[e].t200

(* An entity that waits for the answer to its SABM or DISC has T200        *)
(* running, and one that is released has not.                              *)
AwaitingIsTimed == \A e \in E :
  /\ State(e) \in {"AwaitingEstablish", "AwaitingRelease"} => lap[e].t200
  /\ State(e) = "LinkReleased" => ~lap[e].t200

(* L3 is never left to believe in a link that LAPDm has released.          *)
L3KnowsOfRelease == \A e \in E : l3[e] = "up" => State(e) # "LinkReleased"

(* A thread blocked in waitForAck has a running T200 to end its wait.      *)
BlockedIsTimed == \A e \in E :
  thr[e].pc \in {"data", "drain", "release"} /\ ~AckReady(lap[e]) => lap[e].t200

(* Every call of l2dlWriteHighSide by an entity that never asks for a link *)
(* itself, the BTS on SAPI 0, returns: the other end answers, or N200      *)
(* retransmissions later the link is given up.  (One that asks for links   *)
(* may start T200 while its service thread is in the read of an hour, which*)
(* nobody interrupts, and then blocks as long.)                            *)
CallsReturn == \A e \in E \ Initiators : thr[e] # Idle ~> thr[e] = Idle
=============================================================================
