---------------------------- MODULE LAPDm_proofs ----------------------------
(* Theorems about LAPDm, for every N200, every modulus and every bound:    *)
(* type correctness; the two invariants that say an entity is never left   *)
(* waiting for an answer without a timer, nor its L3 with a link that is   *)
(* gone; and, where data flows one way, that no more than one segment is   *)
(* outstanding, that no thread is blocked without a timer, and that the    *)
(* entities give layer 3 the service of DataLink.                          *)
EXTENDS LAPDmService, SequenceTheorems, TLAPS

(* Frames.                                                                 *)
LEMMA BlankType == Blank \in Frame /\ Blank.type = "idleFill"
BY BoundsAssumption DEF Blank, Frame, FrameType

LEMMA CommandType ==
  ASSUME NEW e \in E, NEW type \in FrameType
  PROVE  Command(e, type) \in Frame /\ Command(e, type).type = type
<1>1. C(e) \in {0, 1}
  BY DEF C
<1>2. QED
  BY <1>1, BlankType DEF Command, Frame

LEMMA FrameTypes ==
  ASSUME NEW e \in E, NEW type \in FrameType, NEW f \in BOOLEAN,
         NEW vr \in 0 .. Modulus - 1
  PROVE  /\ Response(e, type, f) \in Frame /\ Response(e, type, f).type = type
         /\ Supervisory(e, type, f, vr) \in Frame
         /\ Supervisory(e, type, f, vr).type = type
<1>1. R(e) \in {0, 1}
  BY DEF C, R
<1>2. Response(e, type, f) \in Frame /\ Response(e, type, f).type = type
  BY <1>1, BlankType DEF Response, Frame
<1>3. QED
  BY <1>2 DEF Supervisory, Frame

LEMMA SegmentType == ASSUME NEW f \in Frame PROVE SegmentOf(f) \in Segment
BY DEF SegmentOf, Frame, Segment

LEMMA PutType ==
  ASSUME NEW q \in Seq(Frame), NEW out \in Seq(Frame)
  PROVE  Put(q, out) \in Seq(Frame)
BY DEF Put

(* The parts of an entity that the handlers share keep its type.           *)
LEMMA LapTypes ==
  ASSUME NEW r \in Lap
  PROVE  /\ ClearCounters(r) \in Lap
         /\ ReleaseLink(r) \in Lap
         /\ Confirmed(r) \in Lap
         /\ Reread(r) \in Lap
         /\ \A nr \in 0 .. Modulus - 1 : ProcessAck(r, nr) \in Lap
         /\ \A f \in SapFrame : WriteL1Ack(r, f) \in Lap
         /\ r.RC <= N200 => RetransmissionProcedure(r) \in Lap
<1> USE DEF Lap, LAPDState
<1>1. ClearCounters(r) \in Lap
  <2>1. 0 \in 0 .. Modulus - 1 /\ 0 \in 0 .. N200 + 1 /\ << >> \in Seq(Segment)
    BY BoundsAssumption
  <2>2. QED
    BY <2>1 DEF ClearCounters
<1>2. ReleaseLink(r) \in Lap
  BY <1>1 DEF ReleaseLink
<1>3. Confirmed(r) \in Lap
  BY DEF Confirmed
<1>4. Reread(r) \in Lap
  BY DEF Reread
<1>5. ASSUME NEW nr \in 0 .. Modulus - 1 PROVE ProcessAck(r, nr) \in Lap
  <2>1. 0 \in 0 .. N200 + 1
    BY BoundsAssumption
  <2>2. CASE nr = r.VS
    BY <2>1, <2>2 DEF ProcessAck
  <2>3. CASE nr # r.VS
    BY <2>3 DEF ProcessAck
  <2>4. QED
    BY <2>2, <2>3
<1>6. ASSUME NEW f \in SapFrame PROVE WriteL1Ack(r, f) \in Lap
  BY DEF WriteL1Ack
<1>7. ASSUME r.RC <= N200 PROVE RetransmissionProcedure(r) \in Lap
  <2>1. r.RC + 1 \in 0 .. N200 + 1
    BY <1>7, BoundsAssumption
  <2>2. QED
    BY <2>1 DEF RetransmissionProcedure
<1>8. QED
  BY <1>1, <1>2, <1>3, <1>4, <1>5, <1>6, <1>7
-----------------------------------------------------------------------------
(* What a step of either thread does to the entity, the radio and L3.      *)
StepTypes == /\ lap' \in [E -> Lap] /\ thr' \in [E -> Thread]
             /\ chan' \in [E -> Seq(Frame)]
             /\ l3' \in [E -> {"down", "asked", "up"}]
             /\ nAsks' \in 0 .. MaxAsks /\ nStrays' \in 0 .. MaxStrays
LinkTypes == /\ link' \in [E -> Nat] /\ tx' \in [E -> 0 .. MaxTx]
             /\ reached' \in [E -> 0 .. MaxTx]
             /\ delivered' \in [E -> Seq(Segment)]

LEMMA StepsType == StepTypes /\ LinkTypes => TypeOK'
BY DEF StepTypes, LinkTypes, TypeOK

LEMMA PeerType == \A e \in E : Peer(e) \in E /\ Peer(e) # e
BY EntityAssumption DEF E, Peer

LEMMA SameLinkType == TypeOK /\ OnSameLink => LinkTypes
BY DEF TypeOK, OnSameLink, LinkTypes

LEMMA NewLinkType == ASSUME TypeOK, NEW e \in E, OnNewLink(e) PROVE LinkTypes
<1>1. 0 \in 0 .. MaxTx /\ << >> \in Seq(Segment) /\ link[e] + 1 \in Nat
  BY BoundsAssumption DEF TypeOK
<1>2. QED
  BY <1>1 DEF TypeOK, OnNewLink, LinkTypes

LEMMA ToldType == ASSUME NEW b \in {"down", "asked", "up"}, NEW ind
                  PROVE  Told(b, ind) \in {"down", "asked", "up"}
BY DEF Told

LEMMA ReactType ==
  ASSUME TypeOK, NEW e \in E, NEW new \in Lap, NEW out \in Seq(Frame), NEW ind,
         chan[e] # << >>, React(e, new, out, ind)
  PROVE  StepTypes
<1>1. lap' \in [E -> Lap]
  BY LapTypes DEF TypeOK, React
<1>2. chan' \in [E -> Seq(Frame)]
  <2>1. Tail(chan[e]) \in Seq(Frame)
    BY HeadTailProperties DEF TypeOK
  <2>2. Put(chan[Peer(e)], out) \in Seq(Frame)
    BY PutType, PeerType DEF TypeOK
  <2>3. QED
    BY <2>1, <2>2, PeerType DEF TypeOK, React
<1>3. l3' \in [E -> {"down", "asked", "up"}]
  BY ToldType DEF TypeOK, React
<1>4. QED
  BY <1>1, <1>2, <1>3 DEF StepTypes, TypeOK, React

LEMMA DownlinkType ==
  ASSUME TypeOK, NEW e \in E, NEW new \in Lap, NEW out \in Seq(Frame),
         NEW belief \in {"down", "asked", "up"}, NEW next \in Thread,
         Downlink(e, new, out, belief, next)
  PROVE  StepTypes
<1>1. Put(chan[Peer(e)], out) \in Seq(Frame)
  BY PutType, PeerType DEF TypeOK
<1>2. QED
  BY <1>1, PeerType DEF TypeOK, Downlink, StepTypes

LEMMA GotoType == \A pc \in {"idle", "lockSABM", "drain", "release"} :
                    Goto(pc) \in Thread /\ Idle \in Thread
BY DEF Goto, Idle, Thread

(* The frame at the head of a channel, and the entity that takes it.       *)
LEMMA HeadType ==
  ASSUME TypeOK, NEW e \in E, NEW type, Arrives(e, type)
  PROVE  /\ chan[e] # << >> /\ Head(chan[e]) \in Frame /\ lap[e] \in Lap
         /\ Head(chan[e]).pf \in BOOLEAN /\ Head(chan[e]).nr \in 0 .. Modulus - 1
         /\ Head(chan[e]).info \in SabmInfo \cup {0}
         /\ Head(chan[e]).n \in 0 .. MaxTx /\ lap[e].VR \in 0 .. Modulus - 1
<1>1. chan[e] # << >> /\ chan[e] \in Seq(Frame) /\ lap[e] \in Lap
  BY DEF TypeOK, Arrives
<1>2. Head(chan[e]) \in Frame
  BY <1>1, HeadTailProperties
<1>3. QED
  BY <1>1, <1>2 DEF Frame, Lap

(* The answers to the frame at the head of a channel.                      *)
LEMMA AnswerTypes ==
  ASSUME NEW e \in E, NEW f \in Frame, NEW b \in BOOLEAN, NEW vr \in 0 .. Modulus - 1
  PROVE  /\ UA(e, f) \in Seq(Frame) /\ UA(e, [f EXCEPT !.info = 0]) \in Seq(Frame)
         /\ DM(e, b) \in Seq(Frame)
         /\ <<Supervisory(e, "RR", b, vr)>> \in Seq(Frame)
         /\ <<Supervisory(e, "REJ", b, vr)>> \in Seq(Frame)
<1>1. \A p \in BOOLEAN : /\ Response(e, "UA", p) \in Frame /\ Response(e, "DM", p) \in Frame
                         /\ Supervisory(e, "RR", p, vr) \in Frame
                         /\ Supervisory(e, "REJ", p, vr) \in Frame
  BY FrameTypes DEF FrameType
<1>2. \A g \in Frame : UA(e, g) \in Seq(Frame)
  <2> TAKE g \in Frame
  <2>1. g.pf \in BOOLEAN /\ g.info \in SabmInfo \cup {0}
    BY DEF Frame
  <2>2. [Response(e, "UA", g.pf) EXCEPT !.info = g.info] \in Frame
    BY <1>1, <2>1 DEF Frame
  <2>3. QED
    BY <2>2 DEF UA
<1>3. [f EXCEPT !.info = 0] \in Frame
  BY DEF Frame
<1>4. QED
  BY <1>1, <1>2, <1>3 DEF DM
-----------------------------------------------------------------------------
(* What every handler of the service thread does, whatever the frame: it   *)
(* keeps the entity's type and its timer right, sends frames of a SAP only *)
(* and leaves L3 informed of a release.                                    *)
Timed(r) == /\ r.state \in {"AwaitingEstablish", "AwaitingRelease"} => r.t200
            /\ r.state = "LinkReleased" => ~r.t200
NoConnect(out) == \A i \in DOMAIN out : out[i].type # "PH_CONNECT"
Informed(e) == l3[e] = "up" => State(e) # "LinkReleased" /\ ~Arrives(e, "PH_CONNECT")
Sound(e, new, out, ind) ==
  /\ new \in Lap /\ out \in Seq(Frame) /\ NoConnect(out)
  /\ Timed(lap[e]) => Timed(new)
  /\ Informed(e) => (Told(l3[e], ind) = "up" => new.state # "LinkReleased")
Handled(e) == \E new, out, ind : Sound(e, new, out, ind) /\ React(e, new, out, ind)

LEMMA HandledBy == ASSUME NEW e, NEW new, NEW out, NEW ind,
                          Sound(e, new, out, ind), React(e, new, out, ind)
                   PROVE  Handled(e)
BY DEF Handled

LEMMA NothingSent == << >> \in Seq(Frame) /\ NoConnect(<< >>)
BY DEF NoConnect

LEMMA AnswersSound ==
  ASSUME NEW e \in E, NEW f \in Frame, NEW b \in BOOLEAN, NEW vr \in 0 .. Modulus - 1
  PROVE  /\ NoConnect(UA(e, f)) /\ NoConnect(UA(e, [f EXCEPT !.info = 0]))
         /\ NoConnect(DM(e, b))
         /\ NoConnect(<<Supervisory(e, "RR", b, vr)>>)
         /\ NoConnect(<<Supervisory(e, "REJ", b, vr)>>)
<1>1. \A p \in BOOLEAN : /\ Response(e, "UA", p) \in Frame
                         /\ Response(e, "UA", p).type = "UA"
                         /\ Response(e, "DM", p).type = "DM"
                         /\ Supervisory(e, "RR", p, vr).type = "RR"
                         /\ Supervisory(e, "REJ", p, vr).type = "REJ"
  BY FrameTypes DEF FrameType
<1>2. \A g \in Frame : [Response(e, "UA", g.pf) EXCEPT !.info = g.info].type = "UA"
  BY <1>1 DEF Frame
<1>3. [f EXCEPT !.info = 0] \in Frame
  BY DEF Frame
<1>4. \A x, y : x.type = y /\ y # "PH_CONNECT" => NoConnect(<<x>>)
  BY DEF NoConnect
<1>5. \A g \in Frame : NoConnect(UA(e, g))
  BY <1>2, <1>4 DEF UA
<1>6. QED
  BY <1>1, <1>3, <1>4, <1>5 DEF DM

(* releaseLink, under an indication that tells L3 of a release, or when L3 *)
(* knows of it already.                                                    *)
LEMMA ReleaseSound ==
  ASSUME NEW e \in E, lap[e] \in Lap, NEW out \in Seq(Frame), NoConnect(out),
         NEW ind, \/ Told(l3[e], ind) = "down"
                  \/ State(e) = "LinkReleased" /\ Told(l3[e], ind) = l3[e]
  PROVE  Sound(e, ReleaseLink(lap[e]), out, ind)
<1>1. ReleaseLink(lap[e]) \in Lap
  BY LapTypes
<1>2. Timed(ReleaseLink(lap[e]))
  BY DEF Timed, ReleaseLink, ClearCounters, Lap
<1>3. QED
  BY <1>1, <1>2 DEF Sound, Informed

(* A handler that changes neither the state nor T200, nor what L3 knows.   *)
LEMMA QuietSound ==
  ASSUME NEW e \in E, NEW new \in Lap, NEW out \in Seq(Frame), NoConnect(out),
         new.state = State(e), new.t200 = lap[e].t200
  PROVE  Sound(e, new, out, "none")
BY DEF Sound, Timed, Told, Informed, State

LEMMA UnexpectedHandled ==
  ASSUME TypeOK, NEW e \in E, lap[e] \in Lap, Unexpected(e) PROVE Handled(e)
<1>1. 0 \in 0 .. Modulus - 1 /\ Blank \in Frame
  BY BoundsAssumption, BlankType
<1>2. DM(e, TRUE) \in Seq(Frame) /\ NoConnect(DM(e, TRUE))
  BY <1>1, AnswerTypes, AnswersSound
<1>3. Told(l3[e], "MDL_ERROR_INDICATION") = "down"
  BY DEF Told
<1>4. QED
  BY <1>2, <1>3, ReleaseSound, HandledBy DEF Unexpected

LEMMA IgnoreHandled ==
  ASSUME TypeOK, NEW e \in E, lap[e] \in Lap, Ignore(e) PROVE Handled(e)
BY NothingSent, QuietSound, HandledBy DEF Ignore, State
-----------------------------------------------------------------------------
(* One lemma per handler.                                                  *)
LEMMA PhConnectHandled ==
  ASSUME TypeOK, NEW e \in E, ReceivePhConnect(e) PROVE Handled(e) /\ LinkTypes
<1> DEFINE cleared == ClearCounters(lap[e])
           new == [cleared EXCEPT !.state = "LinkReleased"]
<1>1. lap[e] \in Lap
  BY DEF TypeOK
<1>2. cleared \in Lap /\ cleared.t200 = FALSE
  BY <1>1, LapTypes DEF ClearCounters, Lap
<1> HIDE DEF cleared
<1>3. new \in Lap /\ new.t200 = FALSE /\ new.state = "LinkReleased"
  BY <1>2 DEF Lap, LAPDState
<1> USE DEF cleared
<1>4. Timed(new)
  BY <1>3 DEF Timed
<1>5. Informed(e) => Told(l3[e], "none") # "up"
  BY DEF Informed, Told, ReceivePhConnect
<1>6. Sound(e, new, << >>, "none")
  BY <1>3, <1>4, <1>5, NothingSent DEF Sound
<1>7. QED
  BY <1>6, HandledBy, SameLinkType DEF ReceivePhConnect

LEMMA SABMHandled ==
  ASSUME TypeOK, NEW e \in E, ReceiveSABM(e) PROVE Handled(e) /\ LinkTypes
<1> DEFINE f == Head(chan[e])
           r == lap[e]
           cleared == ClearCounters(r)
<1>1. /\ f \in Frame /\ r \in Lap /\ f.info \in SabmInfo \cup {0} /\ f.pf \in BOOLEAN
      /\ r.VR \in 0 .. Modulus - 1
  BY HeadType DEF ReceiveSABM
<1>2. /\ UA(e, f) \in Seq(Frame) /\ UA(e, [f EXCEPT !.info = 0]) \in Seq(Frame)
      /\ DM(e, TRUE) \in Seq(Frame)
      /\ NoConnect(UA(e, f)) /\ NoConnect(UA(e, [f EXCEPT !.info = 0]))
      /\ NoConnect(DM(e, TRUE))
  BY <1>1, AnswerTypes, AnswersSound
<1>3. LinkTypes
  BY SameLinkType, NewLinkType DEF ReceiveSABM
<1>4. cleared \in Lap /\ cleared.state = r.state /\ cleared.t200 = FALSE
  BY <1>1, LapTypes DEF ClearCounters, Lap
<1>5. CASE Ignore(e)
  BY <1>1, <1>3, <1>5, IgnoreHandled
<1>6. CASE Unexpected(e)
  BY <1>1, <1>3, <1>6, UnexpectedHandled
<1>7. CASE React(e, r, UA(e, f), "none")
  BY <1>1, <1>2, <1>3, <1>7, QuietSound, HandledBy DEF State
<1>8. CASE React(e, r, UA(e, [f EXCEPT !.info = 0]), "none")
  BY <1>1, <1>2, <1>3, <1>8, QuietSound, HandledBy DEF State
<1>9. CASE React(e, r, DM(e, TRUE), "none")
  BY <1>1, <1>2, <1>3, <1>9, QuietSound, HandledBy DEF State
<1>10. ASSUME f.info # 0,
              React(e, [cleared EXCEPT !.state = "ContentionResolution",
                          !.inProgress = TRUE, !.contentionCheck = f.info],
                    UA(e, f), "L3_ESTABLISH_INDICATION")
       PROVE  Handled(e)
  <2> DEFINE new == [cleared EXCEPT !.state = "ContentionResolution",
                       !.inProgress = TRUE, !.contentionCheck = f.info]
  <2>1. new \in Lap /\ new.state = "ContentionResolution"
    BY <1>1, <1>4 DEF Lap, LAPDState
  <2>2. Timed(new) /\ new.state # "LinkReleased"
    BY <2>1 DEF Timed
  <2>3. Sound(e, new, UA(e, f), "L3_ESTABLISH_INDICATION")
    BY <1>2, <2>1, <2>2 DEF Sound
  <2>4. QED
    BY <1>10, <2>3, HandledBy
<1>11. ASSUME React(e, [cleared EXCEPT !.state = "LinkEstablished", !.inProgress = TRUE],
                    UA(e, f), "L3_ESTABLISH_INDICATION")
       PROVE  Handled(e)
  <2> DEFINE new == [cleared EXCEPT !.state = "LinkEstablished", !.inProgress = TRUE]
  <2>1. new \in Lap /\ new.state = "LinkEstablished"
    BY <1>1, <1>4 DEF Lap, LAPDState
  <2>2. Timed(new) /\ new.state # "LinkReleased"
    BY <2>1 DEF Timed
  <2>3. Sound(e, new, UA(e, f), "L3_ESTABLISH_INDICATION")
    BY <1>2, <2>1, <2>2 DEF Sound
  <2>4. QED
    BY <1>11, <2>3, HandledBy
<1>12. ASSUME React(e, [r EXCEPT !.state = "LinkEstablished"], UA(e, f), "none")
       PROVE  Handled(e)
  <2> DEFINE new == [r EXCEPT !.state = "LinkEstablished"]
  <2>1. new \in Lap /\ new.state = "LinkEstablished"
    BY <1>1 DEF Lap, LAPDState
  <2>2. Timed(new) /\ new.state # "LinkReleased"
    BY <2>1 DEF Timed
  <2>3. Sound(e, new, UA(e, f), "none")
    BY <1>2, <2>1, <2>2 DEF Sound
  <2>4. QED
    BY <1>12, <2>3, HandledBy
<1>13. ASSUME r.state = "LinkEstablished", React(e, cleared, UA(e, f), "none")
       PROVE  Handled(e)
  <2>1. Timed(cleared) /\ cleared.state # "LinkReleased"
    BY <1>4, <1>13 DEF Timed
  <2>2. Sound(e, cleared, UA(e, f), "none")
    BY <1>2, <1>4, <2>1 DEF Sound
  <2>3. QED
    BY <1>13, <2>2, HandledBy
<1>14. QED
  BY <1>3, <1>5, <1>6, <1>7, <1>8, <1>9, <1>10, <1>11, <1>12, <1>13
  DEF ReceiveSABM, State

LEMMA DISCHandled ==
  ASSUME TypeOK, NEW e \in E, ReceiveDISC(e) PROVE Handled(e) /\ LinkTypes
<1> DEFINE f == Head(chan[e])
           r == lap[e]
<1>1. /\ f \in Frame /\ r \in Lap /\ f.pf \in BOOLEAN /\ r.VR \in 0 .. Modulus - 1
  BY HeadType DEF ReceiveDISC
<1>2. /\ UA(e, f) \in Seq(Frame) /\ DM(e, f.pf) \in Seq(Frame)
      /\ NoConnect(UA(e, f)) /\ NoConnect(DM(e, f.pf))
  BY <1>1, AnswerTypes, AnswersSound
<1>3. LinkTypes
  BY SameLinkType DEF ReceiveDISC
<1>4. /\ Told(l3[e], "L3_RELEASE_INDICATION") = "down"
      /\ Told(l3[e], "L3_RELEASE_CONFIRM") = "down" /\ Told(l3[e], "none") = l3[e]
  BY DEF Told
<1>5. CASE React(e, ReleaseLink(r), << >>, "L3_RELEASE_INDICATION")
  BY <1>1, <1>3, <1>4, <1>5, NothingSent, ReleaseSound, HandledBy
<1>6. CASE State(e) = "LinkReleased" /\ React(e, ReleaseLink(r), DM(e, f.pf), "none")
  BY <1>1, <1>2, <1>3, <1>4, <1>6, ReleaseSound, HandledBy
<1>7. CASE React(e, ReleaseLink(r), UA(e, f), "L3_RELEASE_INDICATION")
  BY <1>1, <1>2, <1>3, <1>4, <1>7, ReleaseSound, HandledBy
<1>8. CASE React(e, ReleaseLink(r), UA(e, f), "L3_RELEASE_CONFIRM")
  BY <1>1, <1>2, <1>3, <1>4, <1>8, ReleaseSound, HandledBy
<1>9. QED
  BY <1>3, <1>5, <1>6, <1>7, <1>8 DEF ReceiveDISC

LEMMA UAHandled ==
  ASSUME TypeOK, NEW e \in E, ReceiveUA(e) PROVE Handled(e) /\ LinkTypes
<1> DEFINE r == lap[e]
           cleared == ClearCounters(r)
           new == [cleared EXCEPT !.state = "LinkEstablished"]
<1>1. r \in Lap
  BY DEF TypeOK
<1>2. LinkTypes
  BY SameLinkType, NewLinkType DEF ReceiveUA
<1>3. CASE React(e, new, << >>, "L3_ESTABLISH_CONFIRM")
  <2>1. cleared \in Lap
    BY <1>1, LapTypes
  <2>2. new \in Lap /\ new.state = "LinkEstablished"
    BY <2>1 DEF Lap, LAPDState
  <2>3. Timed(new) /\ new.state # "LinkReleased"
    BY <2>2 DEF Timed
  <2>4. Sound(e, new, << >>, "L3_ESTABLISH_CONFIRM")
    BY <2>2, <2>3, NothingSent DEF Sound
  <2>5. QED
    BY <1>2, <1>3, <2>4, HandledBy
<1>4. CASE React(e, ReleaseLink(r), << >>, "L3_RELEASE_CONFIRM")
  <2>1. Told(l3[e], "L3_RELEASE_CONFIRM") = "down"
    BY DEF Told
  <2>2. QED
    BY <1>1, <1>2, <1>4, <2>1, NothingSent, ReleaseSound, HandledBy
<1>5. CASE Ignore(e)
  BY <1>1, <1>2, <1>5, IgnoreHandled
<1>6. CASE Unexpected(e)
  BY <1>1, <1>2, <1>6, UnexpectedHandled
<1>7. QED
  BY <1>2, <1>3, <1>4, <1>5, <1>6 DEF ReceiveUA

LEMMA DMHandled ==
  ASSUME TypeOK, NEW e \in E, ReceiveDM(e) PROVE Handled(e) /\ LinkTypes
<1> DEFINE r == lap[e]
           new == [r EXCEPT !.t200 = TRUE]
<1>1. r \in Lap
  BY DEF TypeOK
<1>2. LinkTypes
  BY SameLinkType DEF ReceiveDM
<1>3. /\ Told(l3[e], "L3_RELEASE_CONFIRM") = "down"
      /\ Told(l3[e], "L3_RELEASE_INDICATION") = "down"
  BY DEF Told
<1>4. CASE Ignore(e)
  BY <1>1, <1>2, <1>4, IgnoreHandled
<1>5. CASE React(e, ReleaseLink(r), << >>, "L3_RELEASE_CONFIRM")
  BY <1>1, <1>2, <1>3, <1>5, NothingSent, ReleaseSound, HandledBy
<1>6. CASE /\ State(e) = "AwaitingEstablish" \/ InMultiframe(r)
           /\ React(e, new, << >>, "L3_RELEASE_INDICATION")
  <2>1. new \in Lap /\ new.t200 = TRUE /\ new.state # "LinkReleased"
    BY <1>1, <1>6 DEF Lap, State, InMultiframe
  <2>2. Timed(new)
    BY <2>1 DEF Timed
  <2>3. Sound(e, new, << >>, "L3_RELEASE_INDICATION")
    BY <2>1, <2>2, NothingSent DEF Sound
  <2>4. QED
    BY <1>2, <1>6, <2>3, HandledBy
<1>7. QED
  BY <1>2, <1>4, <1>5, <1>6 DEF ReceiveDM

LEMMA OutOfMultiframeHandled ==
  ASSUME TypeOK, NEW e \in E, OutOfMultiframe(e) PROVE Handled(e)
<1> DEFINE new == [lap[e] EXCEPT !.inProgress = FALSE]
<1>1. lap[e] \in Lap
  BY DEF TypeOK
<1>2. new \in Lap /\ new.state = State(e) /\ new.t200 = lap[e].t200
  BY <1>1 DEF Lap, State
<1>3. QED
  BY <1>2, NothingSent, QuietSound, HandledBy DEF OutOfMultiframe

(* In multiframe mode an acknowledgement leaves an established link, for   *)
(* which T200 may or may not run.                                          *)
LEMMA AckedSound ==
  ASSUME NEW e \in E, NEW new \in Lap, new.state = "LinkEstablished",
         NEW out \in Seq(Frame), NoConnect(out)
  PROVE  Sound(e, new, out, "none")
BY DEF Sound, Timed

LEMMA AckedType ==
  ASSUME NEW r \in Lap, NEW nr \in 0 .. Modulus - 1
  PROVE  /\ ProcessAck(Confirmed(r), nr) \in Lap
         /\ ProcessAck(Confirmed(r), nr).state = "LinkEstablished"
<1>1. Confirmed(r) \in Lap /\ Confirmed(r).state = "LinkEstablished"
  BY LapTypes DEF Confirmed, Lap
<1> DEFINE c == Confirmed(r)
<1> HIDE DEF c
<1>2. ProcessAck(c, nr) \in Lap
  BY <1>1, LapTypes DEF c
<1>3. ProcessAck(c, nr).state = c.state
  BY <1>1 DEF ProcessAck, Lap, c
<1>4. QED
  BY <1>1, <1>2, <1>3 DEF c

LEMMA RRHandled ==
  ASSUME TypeOK, NEW e \in E, ReceiveRR(e) PROVE Handled(e) /\ LinkTypes
<1> DEFINE f == Head(chan[e])
           new == ProcessAck(Confirmed(lap[e]), f.nr)
           out == IF f.cr = C(e) /\ f.pf THEN <<Supervisory(e, "RR", TRUE, new.VR)>> ELSE << >>
<1>1. f \in Frame /\ lap[e] \in Lap /\ f.nr \in 0 .. Modulus - 1
  BY HeadType DEF ReceiveRR
<1>2. LinkTypes
  BY SameLinkType DEF ReceiveRR
<1>3. new \in Lap /\ new.state = "LinkEstablished"
  BY <1>1, AckedType
<1>4. out \in Seq(Frame) /\ NoConnect(out)
  <2>1. new.VR \in 0 .. Modulus - 1
    BY <1>3 DEF Lap
  <2>2. QED
    BY <1>1, <2>1, AnswerTypes, AnswersSound, NothingSent
<1>5. CASE OutOfMultiframe(e)
  BY <1>2, <1>5, OutOfMultiframeHandled
<1>6. CASE React(e, new, out, "none")
  BY <1>2, <1>3, <1>4, <1>6, AckedSound, HandledBy
<1>7. QED
  BY <1>2, <1>5, <1>6 DEF ReceiveRR

LEMMA REJHandled ==
  ASSUME TypeOK, NEW e \in E, ReceiveREJ(e) PROVE Handled(e) /\ LinkTypes
<1> DEFINE f == Head(chan[e])
           new == ProcessAck(Confirmed(lap[e]), f.nr)
           out == <<Supervisory(e, "RR", TRUE, new.VR)>>
<1>1. f \in Frame /\ lap[e] \in Lap /\ f.nr \in 0 .. Modulus - 1
  BY HeadType DEF ReceiveREJ
<1>2. LinkTypes
  BY SameLinkType DEF ReceiveREJ
<1>3. new \in Lap /\ new.state = "LinkEstablished"
  BY <1>1, AckedType
<1>4. out \in Seq(Frame) /\ NoConnect(out)
  <2>1. new.VR \in 0 .. Modulus - 1
    BY <1>3 DEF Lap
  <2>2. QED
    BY <1>1, <2>1, AnswerTypes, AnswersSound
<1>5. CASE OutOfMultiframe(e)
  BY <1>2, <1>5, OutOfMultiframeHandled
<1>6. CASE React(e, new, << >>, "none")
  BY <1>2, <1>3, <1>6, NothingSent, AckedSound, HandledBy
<1>7. CASE React(e, new, out, "none")
  <2> HIDE DEF new, out
  <2>1. Sound(e, new, out, "none")
    BY <1>3, <1>4, AckedSound
  <2>2. QED
    BY <1>2, <1>7, <2>1, HandledBy
<1>8. CASE Unexpected(e)
  BY <1>1, <1>2, <1>8, UnexpectedHandled
<1>9. QED
  BY <1>2, <1>5, <1>6, <1>7, <1>8 DEF ReceiveREJ

LEMMA IHandled ==
  ASSUME TypeOK, NEW e \in E, ReceiveI(e) PROVE Handled(e) /\ LinkTypes
<1> DEFINE f == Head(chan[e])
           acked == ProcessAck(Confirmed(lap[e]), f.nr)
           vr == NextSeq(acked.VR)
           part == Append(acked.recvBuffer, SegmentOf(f))
           new == [acked EXCEPT !.VR = vr, !.recvBuffer = IF f.more THEN part ELSE << >>]
           rr == <<Supervisory(e, "RR", f.pf, vr)>>
           rej == <<Supervisory(e, "REJ", f.pf, acked.VR)>>
<1>1. /\ f \in Frame /\ lap[e] \in Lap /\ f.nr \in 0 .. Modulus - 1 /\ f.pf \in BOOLEAN
      /\ f.n \in 0 .. MaxTx
  BY HeadType DEF ReceiveI
<1>2. acked \in Lap /\ acked.state = "LinkEstablished"
  BY <1>1, AckedType
<1>3. part \in Seq(Segment)
  BY <1>1, <1>2, SegmentType DEF Lap
<1>4. vr \in 0 .. Modulus - 1 /\ acked.VR \in 0 .. Modulus - 1
  BY <1>2, BoundsAssumption DEF Lap, NextSeq
<1>5. /\ rr \in Seq(Frame) /\ NoConnect(rr)
      /\ rej \in Seq(Frame) /\ NoConnect(rej)
  BY <1>1, <1>4, AnswerTypes, AnswersSound
<1> HIDE DEF acked, vr, part, rr, rej
<1>6. new \in Lap /\ new.state = "LinkEstablished"
  <2> DEFINE buf == IF f.more THEN part ELSE << >>
  <2>1. buf \in Seq(Segment)
    BY <1>3
  <2> HIDE DEF buf
  <2>2. [acked EXCEPT !.VR = vr, !.recvBuffer = buf] \in Lap
    BY <1>2, <1>4, <2>1 DEF Lap
  <2>3. [acked EXCEPT !.VR = vr, !.recvBuffer = buf].state = acked.state
    BY <1>2 DEF Lap
  <2>4. QED
    BY <1>2, <2>2, <2>3 DEF buf
<1>7. CASE OutOfMultiframe(e) /\ UNCHANGED <<link, tx, reached, delivered>>
  BY <1>7, OutOfMultiframeHandled, SameLinkType DEF OnSameLink
<1>8. CASE /\ React(e, new, rr, "none") /\ UNCHANGED <<link, tx>>
           /\ delivered' = [delivered EXCEPT ![e] = IF f.more THEN @ ELSE @ \o part]
           /\ reached' = [reached EXCEPT ![Peer(e)] =
                            IF f.link = link[Peer(e)] THEN f.n ELSE @]
  <2>1. Handled(e)
    BY <1>5, <1>6, <1>8, AckedSound, HandledBy
  <2>2. delivered' \in [E -> Seq(Segment)]
    <3>1. delivered[e] \o part \in Seq(Segment) /\ delivered[e] \in Seq(Segment)
      BY <1>3 DEF TypeOK
    <3>2. QED
      BY <1>8, <3>1 DEF TypeOK
  <2>3. reached' \in [E -> 0 .. MaxTx]
    BY <1>1, <1>8, PeerType DEF TypeOK
  <2>4. QED
    BY <1>8, <2>1, <2>2, <2>3 DEF TypeOK, LinkTypes
<1>9. CASE /\ React(e, acked, rej, "none")
           /\ UNCHANGED <<link, tx, reached, delivered>>
  BY <1>2, <1>5, <1>9, AckedSound, HandledBy, SameLinkType DEF OnSameLink
<1>10. QED
  BY <1>7, <1>8, <1>9 DEF ReceiveI, acked, vr, part, rr, rej

LEMMA ReceiveHandled ==
  ASSUME TypeOK, NEW e \in E, Receive(e) PROVE Handled(e) /\ LinkTypes
BY PhConnectHandled, SABMHandled, DISCHandled, UAHandled, DMHandled, RRHandled,
   REJHandled, IHandled DEF Receive
-----------------------------------------------------------------------------
(* What every step of the L3 downlink thread does.                         *)
SoundCall(e, new, out, belief, next) ==
  /\ new \in Lap /\ out \in Seq(Frame) /\ NoConnect(out) /\ next \in Thread
  /\ belief \in {"down", "asked", "up"}
  /\ Timed(lap[e]) => Timed(new)
  /\ InMultiframe(new) => InMultiframe(lap[e])
  /\ belief = "up" => \/ l3[e] = "up" /\ (State(e) # "LinkReleased" => new.state # "LinkReleased")
                      \/ new.state = "LinkEstablished"
Called(e) == \E new, out, belief, next :
               SoundCall(e, new, out, belief, next) /\ Downlink(e, new, out, belief, next)

LEMMA CalledBy == ASSUME NEW e, NEW new, NEW out, NEW belief, NEW next,
                         SoundCall(e, new, out, belief, next),
                         Downlink(e, new, out, belief, next)
                  PROVE  Called(e)
BY DEF Called

(* The thread goes on, or blocks, and leaves the entity's state alone.     *)
LEMMA QuietCall ==
  ASSUME NEW e \in E, NEW new \in Lap, new.state = State(e), new.t200 = lap[e].t200,
         l3[e] \in {"down", "asked", "up"}, NEW next \in Thread
  PROVE  SoundCall(e, new, << >>, l3[e], next)
BY NothingSent DEF SoundCall, Timed, InMultiframe, State

LEMMA WriteL1AckFields ==
  ASSUME NEW r \in Lap, NEW f \in Frame, f.type # "PH_CONNECT"
  PROVE  /\ WriteL1Ack(r, f) \in Lap /\ WriteL1Ack(r, f).state = r.state
         /\ WriteL1Ack(r, f).t200 = TRUE
BY LapTypes DEF WriteL1Ack, Lap, SapFrame

LEMMA SendSABMCalled ==
  ASSUME TypeOK, NEW e \in E, SendSABM(e) PROVE Called(e) /\ LinkTypes
<1>1. PICK i \in SabmInfo \cup {0} :
        Downlink(e, WriteL1Ack([ClearCounters(lap[e]) EXCEPT !.state = "AwaitingEstablish"],
                               [Command(e, "SABM") EXCEPT !.info = i]),
                 <<[Command(e, "SABM") EXCEPT !.info = i]>>, l3[e], Idle)
  BY DEF SendSABM
<1> DEFINE cleared == ClearCounters(lap[e])
           r == [cleared EXCEPT !.state = "AwaitingEstablish"]
           sabm == [Command(e, "SABM") EXCEPT !.info = i]
<1>2. cleared \in Lap
  BY LapTypes DEF TypeOK
<1>3. r \in Lap /\ r.state = "AwaitingEstablish"
  BY <1>2 DEF Lap, LAPDState
<1>4. sabm \in Frame /\ sabm.type = "SABM"
  <2>1. Command(e, "SABM") \in Frame /\ Command(e, "SABM").type = "SABM"
    BY CommandType DEF FrameType
  <2>2. QED
    BY <2>1 DEF Frame
<1> HIDE DEF r, sabm
<1>5. /\ WriteL1Ack(r, sabm) \in Lap /\ WriteL1Ack(r, sabm).state = "AwaitingEstablish"
      /\ WriteL1Ack(r, sabm).t200 = TRUE
  BY <1>3, <1>4, WriteL1AckFields
<1>6. <<sabm>> \in Seq(Frame) /\ NoConnect(<<sabm>>)
  BY <1>4 DEF NoConnect
<1>7. l3[e] \in {"down", "asked", "up"} /\ Idle \in Thread
  BY GotoType DEF TypeOK
<1>8. SoundCall(e, WriteL1Ack(r, sabm), <<sabm>>, l3[e], Idle)
  BY <1>5, <1>6, <1>7 DEF SoundCall, Timed, InMultiframe
<1>9. QED
  BY <1>1, <1>8, CalledBy, SameLinkType DEF SendSABM, r, sabm

LEMMA SendDISCCalled ==
  ASSUME TypeOK, NEW e \in E, SendDISC(e) PROVE Called(e) /\ LinkTypes
<1> DEFINE cleared == ClearCounters(lap[e])
           r == [cleared EXCEPT !.inProgress = FALSE, !.state = "AwaitingRelease"]
           disc == Command(e, "DISC")
<1>2. cleared \in Lap
  BY LapTypes DEF TypeOK
<1>3. r \in Lap /\ r.state = "AwaitingRelease"
  BY <1>2 DEF Lap, LAPDState
<1>4. disc \in Frame /\ disc.type = "DISC"
  BY CommandType DEF FrameType
<1> HIDE DEF r, disc
<1>5. /\ WriteL1Ack(r, disc) \in Lap /\ WriteL1Ack(r, disc).state = "AwaitingRelease"
      /\ WriteL1Ack(r, disc).t200 = TRUE
  BY <1>3, <1>4, WriteL1AckFields
<1>6. <<disc>> \in Seq(Frame) /\ NoConnect(<<disc>>)
  BY <1>4 DEF NoConnect
<1>7. l3[e] \in {"down", "asked", "up"} /\ Goto("release") \in Thread
  BY GotoType DEF TypeOK
<1>8. SoundCall(e, WriteL1Ack(r, disc), <<disc>>, l3[e], Goto("release"))
  BY <1>5, <1>6, <1>7 DEF SoundCall, Timed, InMultiframe
<1>9. QED
  BY <1>8, CalledBy, SameLinkType DEF SendDISC, r, disc

LEMMA SendIFrameCalled ==
  ASSUME TypeOK, NEW e \in E, NEW r \in Lap, NEW left \in 1 .. MaxSegs,
         NEW first \in BOOLEAN, InMultiframe(r), r.state = State(e),
         SendIFrame(e, r, left, first)
  PROVE  Called(e) /\ LinkTypes
<1> DEFINE n == tx[e] + 1
           f == [Command(e, "I") EXCEPT !.pf = FALSE, !.ns = r.VS, !.nr = r.VR,
                   !.more = left > 1, !.link = link[e], !.n = n, !.first = first]
           s == [r EXCEPT !.VS = NextSeq(@)]
           next == IF left = 1 THEN Idle
                   ELSE [pc |-> "data", left |-> left - 1, first |-> FALSE]
<1>1. n \in 0 .. MaxTx
  <2>1. tx[e] \in 0 .. MaxTx /\ MaxTx \in Nat
    BY BoundsAssumption DEF TypeOK
  <2>2. n <= MaxTx
    BY DEF SendIFrame
  <2>3. QED
    BY <2>1, <2>2
<1>2. Command(e, "I") \in Frame /\ Command(e, "I").type = "I"
  BY CommandType DEF FrameType
<1>3. f \in Frame /\ f.type = "I"
  <2>1. r.VS \in 0 .. Modulus - 1 /\ r.VR \in 0 .. Modulus - 1 /\ link[e] \in Nat
    BY DEF TypeOK, Lap
  <2>2. (left > 1) \in BOOLEAN
    OBVIOUS
  <2> HIDE DEF n
  <2>3. QED
    BY <1>1, <1>2, <2>1, <2>2 DEF Frame
<1>4. s \in Lap /\ s.state = r.state
  <2>1. NextSeq(r.VS) \in 0 .. Modulus - 1
    BY BoundsAssumption DEF NextSeq, Lap
  <2>2. QED
    BY <2>1 DEF Lap
<1>5. next \in Thread
  <2>1. ASSUME left # 1 PROVE left - 1 \in 1 .. MaxSegs
    BY <2>1, BoundsAssumption
  <2>2. ASSUME left # 1 PROVE [pc |-> "data", left |-> left - 1, first |-> FALSE] \in Thread
    BY <2>1, <2>2 DEF Thread
  <2>3. QED
    BY <2>2, GotoType
<1> HIDE DEF f, s, next
<1>6. /\ WriteL1Ack(s, f) \in Lap /\ WriteL1Ack(s, f).state = r.state
  BY <1>3, <1>4, WriteL1AckFields
<1>7. <<f>> \in Seq(Frame) /\ NoConnect(<<f>>)
  BY <1>3 DEF NoConnect
<1>8. l3[e] \in {"down", "asked", "up"}
  BY DEF TypeOK
<1>9. SoundCall(e, WriteL1Ack(s, f), <<f>>, l3[e], next)
  BY <1>5, <1>6, <1>7, <1>8 DEF SoundCall, Timed, InMultiframe, State
<1>10. LinkTypes
  BY <1>1 DEF LinkTypes, TypeOK, SendIFrame
<1>11. QED
  BY <1>9, <1>10, CalledBy DEF SendIFrame, f, s, next

(* releaseLink, called by the downlink thread.                             *)
LEMMA ReleaseCall ==
  ASSUME NEW e \in E, lap[e] \in Lap,
         NEW belief \in {"down", "asked", "up"}, belief = "up" => FALSE
  PROVE  SoundCall(e, ReleaseLink(lap[e]), << >>, belief, Idle)
<1>1. /\ ReleaseLink(lap[e]) \in Lap /\ ReleaseLink(lap[e]).state = "LinkReleased"
      /\ ReleaseLink(lap[e]).t200 = FALSE
  BY LapTypes DEF ReleaseLink, ClearCounters, Lap
<1>2. QED
  BY <1>1, NothingSent, GotoType DEF SoundCall, Timed, InMultiframe

LEMMA DataRequestCalled ==
  ASSUME TypeOK, NEW e \in E, DataRequest(e) PROVE Called(e) /\ LinkTypes
<1> DEFINE r == [lap[e] EXCEPT !.discard = FALSE]
<1>1. lap[e] \in Lap /\ l3[e] \in {"down", "asked", "up"}
  BY DEF TypeOK
<1>2. r \in Lap /\ r.state = State(e) /\ r.t200 = lap[e].t200
  BY <1>1 DEF Lap, State
<1> HIDE DEF r
<1>3. CASE /\ Downlink(e, ReleaseLink(lap[e]), << >>, Told(l3[e], "MDL_ERROR_INDICATION"), Idle)
           /\ OnSameLink
  <2>1. Told(l3[e], "MDL_ERROR_INDICATION") = "down"
    BY DEF Told
  <2>2. QED
    BY <1>1, <1>3, <2>1, ReleaseCall, CalledBy, SameLinkType
<1>4. ASSUME NEW k \in 1 .. MaxSegs, State(e) # "LinkReleased", AckReady(r),
             SendIFrame(e, r, k, TRUE)
      PROVE  Called(e) /\ LinkTypes
  <2>1. InMultiframe(r)
    BY <1>2, <1>4 DEF AckReady
  <2>2. QED
    BY <1>2, <1>4, <2>1, SendIFrameCalled
<1>5. ASSUME NEW k \in 1 .. MaxSegs, OnSameLink,
             Downlink(e, r, << >>, l3[e], [pc |-> "data", left |-> k, first |-> TRUE])
      PROVE  Called(e) /\ LinkTypes
  <2>1. [pc |-> "data", left |-> k, first |-> TRUE] \in Thread
    BY BoundsAssumption DEF Thread
  <2>2. QED
    BY <1>1, <1>2, <1>5, <2>1, QuietCall, CalledBy, SameLinkType
<1>6. QED
  BY <1>3, <1>4, <1>5 DEF DataRequest, r

LEMMA DataAckedCalled ==
  ASSUME TypeOK, NEW e \in E, DataAcked(e) PROVE Called(e) /\ LinkTypes
<1>1. lap[e] \in Lap /\ l3[e] \in {"down", "asked", "up"} /\ thr[e] \in Thread
  BY DEF TypeOK
<1>2. CASE InMultiframe(lap[e]) /\ SendIFrame(e, lap[e], thr[e].left, thr[e].first)
  <2>1. thr[e].left \in 1 .. MaxSegs /\ thr[e].first \in BOOLEAN
    BY <1>1 DEF Thread, DataAcked
  <2>2. QED
    BY <1>1, <1>2, <2>1, SendIFrameCalled DEF State
<1>3. CASE Downlink(e, lap[e], << >>, l3[e], Idle) /\ OnSameLink
  BY <1>1, <1>3, GotoType, QuietCall, CalledBy, SameLinkType DEF State
<1>4. QED
  BY <1>2, <1>3 DEF DataAcked

LEMMA ReleaseCalled ==
  ASSUME TypeOK, NEW e \in E,
         ReleaseRequest(e) \/ Drained(e) \/ ReleaseDone(e) \/ HardRelease(e)
  PROVE  Called(e) /\ LinkTypes
<1>1. /\ lap[e] \in Lap /\ l3[e] \in {"down", "asked", "up"}
      /\ Goto("drain") \in Thread /\ Idle \in Thread
  BY GotoType DEF TypeOK
<1>2. CASE SendDISC(e)
  BY <1>2, SendDISCCalled
<1>3. ASSUME NEW next \in Thread, Downlink(e, lap[e], << >>, l3[e], next), OnSameLink
      PROVE  Called(e) /\ LinkTypes
  BY <1>1, <1>3, QuietCall, CalledBy, SameLinkType DEF State
<1>4. CASE Downlink(e, ReleaseLink(lap[e]), << >>, "down", Idle) /\ OnSameLink
  BY <1>1, <1>4, ReleaseCall, CalledBy, SameLinkType
<1>5. QED
  BY <1>1, <1>2, <1>3, <1>4 DEF ReleaseRequest, Drained, ReleaseDone, HardRelease

(* An ESTABLISH_REQUEST on an established link is confirmed at once, any   *)
(* other waits for mLock.                                                  *)
EstablishWaits(e) == /\ l3' = [l3 EXCEPT ![e] = "asked"]
                     /\ thr' = [thr EXCEPT ![e] = Goto("lockSABM")]
                     /\ nAsks' \in 0 .. MaxAsks
                     /\ UNCHANGED <<lap, chan, nStrays>>

LEMMA EstablishCalled ==
  ASSUME TypeOK, NEW e \in E, EstablishRequest(e)
  PROVE  (Called(e) \/ EstablishWaits(e)) /\ LinkTypes
<1>1. /\ lap[e] \in Lap /\ l3[e] \in {"down", "asked", "up"} /\ Idle \in Thread
  BY GotoType DEF TypeOK
<1>2. CASE /\ State(e) = "LinkEstablished"
           /\ Downlink(e, lap[e], << >>, Told(l3[e], "L3_ESTABLISH_CONFIRM"), Idle)
           /\ OnSameLink
  <2>1. Told(l3[e], "L3_ESTABLISH_CONFIRM") = "up"
    BY DEF Told
  <2>2. SoundCall(e, lap[e], << >>, "up", Idle)
    BY <1>1, <1>2, NothingSent DEF SoundCall, State
  <2>3. QED
    BY <1>2, <2>1, <2>2, CalledBy, SameLinkType
<1>3. CASE /\ nAsks < MaxAsks /\ nAsks' = nAsks + 1
           /\ l3' = [l3 EXCEPT ![e] = "asked"]
           /\ thr' = [thr EXCEPT ![e] = Goto("lockSABM")]
           /\ UNCHANGED <<lap, chan, nStrays>> /\ OnSameLink
  <2>1. nAsks' \in 0 .. MaxAsks
    BY <1>3, BoundsAssumption DEF TypeOK
  <2>2. QED
    BY <1>3, <2>1, SameLinkType DEF EstablishWaits
<1>4. QED
  BY <1>2, <1>3 DEF EstablishRequest

LEMMA CallCalled ==
  ASSUME TypeOK, NEW e \in E, Resume(e) \/ Call(e)
  PROVE  (Called(e) \/ EstablishWaits(e)) /\ LinkTypes
BY SendSABMCalled, DataAckedCalled, ReleaseCalled, DataRequestCalled, EstablishCalled
DEF Resume, Call

(* The two outcomes of an expired T200, and the radio.                     *)
GivesUp(e) == /\ lap' = [lap EXCEPT ![e] = Reread(ReleaseLink(lap[e]))]
              /\ l3' = [l3 EXCEPT ![e] = "down"]
              /\ UNCHANGED <<thr, chan, nAsks, nStrays>>
SendsAgain(e) == /\ lap[e].RC <= N200
                 /\ lap' = [lap EXCEPT ![e] = Reread(RetransmissionProcedure(lap[e]))]
                 /\ chan' = [chan EXCEPT ![Peer(e)] = Put(@, <<lap[e].sentFrame>>)]
                 /\ UNCHANGED <<thr, l3, nAsks, nStrays>>

LEMMA T200Outcome ==
  ASSUME TypeOK, NEW e \in E, T200Expiration(e)
  PROVE  (GivesUp(e) \/ SendsAgain(e)) /\ LinkTypes
<1>1. Told(l3[e], "MDL_ERROR_INDICATION") = "down"
  BY DEF Told
<1>2. QED
  BY <1>1, SameLinkType DEF T200Expiration, GivesUp, SendsAgain, TypeOK

LEMMA RereadFields ==
  ASSUME NEW r \in Lap
  PROVE  Reread(r) \in Lap /\ Reread(r).state = r.state /\ Reread(r).t200 = r.t200
         /\ Reread(r).sentFrame = r.sentFrame
BY LapTypes DEF Reread, Lap
-----------------------------------------------------------------------------
(* Every variable of the two entities, their threads and the radio keeps   *)
(* its type.  RC <= N200 + 1 is part of it: the retransmissions of a frame *)
(* are bounded; so is that a thread in waitForAck has a segment to send.   *)
LEMMA InitType == Init => TypeOK
<1> SUFFICES ASSUME Init PROVE TypeOK
  OBVIOUS
<1>1. Opened \in Lap
  BY BoundsAssumption, BlankType DEF Opened, Lap, LAPDState, SapFrame
<1>2. Idle \in Thread
  BY GotoType
<1>3. [Blank EXCEPT !.type = "PH_CONNECT"] \in Frame
  BY BlankType DEF Frame, FrameType
<1>4. chan \in [E -> Seq(Frame)]
  BY <1>3 DEF Init
<1>5. QED
  BY <1>1, <1>2, <1>4, BoundsAssumption DEF Init, TypeOK

LEMMA StepType == TypeOK /\ [Next]_vars => TypeOK'
<1> SUFFICES ASSUME TypeOK, [Next]_vars PROVE TypeOK'
  OBVIOUS
<1>1. CASE UNCHANGED vars
  BY <1>1 DEF vars, TypeOK
<1>2. CASE Stray
  <2>1. PICK s \in Strays :
          chan' = [chan EXCEPT ![BTS] = Put(@, <<[Blank EXCEPT !.type = s.type,
                     !.cr = s.cr, !.pf = s.pf, !.nr = lap[MS].VR]>>)]
    BY <1>2 DEF Stray
  <2> DEFINE f == [Blank EXCEPT !.type = s.type, !.cr = s.cr, !.pf = s.pf, !.nr = lap[MS].VR]
  <2>2. /\ s.type \in FrameType /\ s.cr \in {0, 1} /\ s.pf \in BOOLEAN
        /\ lap[MS].VR \in 0 .. Modulus - 1
    BY RolesAssumption DEF FrameType, TypeOK, Lap, E
  <2>3. f \in Frame
    BY <2>2, BlankType DEF Frame
  <2> HIDE DEF f
  <2>4. Put(chan[BTS], <<f>>) \in Seq(Frame)
    <3>1. chan[BTS] \in Seq(Frame) /\ <<f>> \in Seq(Frame)
      BY <2>3 DEF TypeOK, E
    <3>2. QED
      BY <3>1, PutType
  <2>5. chan' \in [E -> Seq(Frame)]
    BY <2>1, <2>4 DEF TypeOK, E, f
  <2>6. nStrays' \in 0 .. MaxStrays
    BY <1>2, BoundsAssumption DEF TypeOK, Stray
  <2>7. StepTypes
    BY <1>2, <2>5, <2>6 DEF StepTypes, TypeOK, Stray
  <2>8. QED
    BY <1>2, <2>7, SameLinkType, StepsType DEF Stray
<1>3. ASSUME NEW e \in E, Lose(e) PROVE TypeOK'
  <2>1. Tail(chan[e]) \in Seq(Frame)
    BY <1>3, HeadTailProperties DEF TypeOK, Lose
  <2>2. chan' \in [E -> Seq(Frame)]
    BY <1>3, <2>1 DEF TypeOK, Lose
  <2>3. StepTypes
    BY <1>3, <2>2 DEF StepTypes, TypeOK, Lose
  <2>4. QED
    BY <1>3, <2>3, SameLinkType, StepsType DEF Lose
<1>4. ASSUME NEW e \in E, Receive(e) PROVE TypeOK'
  <2>1. Handled(e) /\ LinkTypes /\ chan[e] # << >>
    BY <1>4, ReceiveHandled DEF Receive, Arrives, ReceivePhConnect, ReceiveSABM,
       ReceiveDISC, ReceiveUA, ReceiveDM, ReceiveRR, ReceiveREJ, ReceiveI
  <2>2. QED
    BY <2>1, ReactType, StepsType DEF Handled, Sound
<1>5. ASSUME NEW e \in E, Called(e), LinkTypes PROVE TypeOK'
  BY <1>5, DownlinkType, StepsType DEF Called, SoundCall
<1>6. ASSUME NEW e \in E, EstablishWaits(e), LinkTypes PROVE TypeOK'
  <2>1. StepTypes
    BY <1>6, GotoType DEF EstablishWaits, StepTypes, TypeOK
  <2>2. QED
    BY <1>6, <2>1, StepsType
<1>7. ASSUME NEW e \in E, T200Expiration(e) PROVE TypeOK'
  <2>1. (GivesUp(e) \/ SendsAgain(e)) /\ LinkTypes /\ lap[e] \in Lap
    BY <1>7, T200Outcome DEF TypeOK
  <2>2. CASE GivesUp(e)
    <3>1. Reread(ReleaseLink(lap[e])) \in Lap
      BY <2>1, LapTypes
    <3>2. StepTypes
      BY <2>2, <3>1 DEF GivesUp, StepTypes, TypeOK
    <3>3. QED
      BY <2>1, <3>2, StepsType
  <2>3. CASE SendsAgain(e)
    <3>1. Reread(RetransmissionProcedure(lap[e])) \in Lap
      BY <2>1, <2>3, LapTypes DEF SendsAgain
    <3>2. <<lap[e].sentFrame>> \in Seq(Frame)
      BY <2>1 DEF Lap, SapFrame
    <3>3. Put(chan[Peer(e)], <<lap[e].sentFrame>>) \in Seq(Frame)
      BY <3>2, PutType, PeerType DEF TypeOK
    <3>4. StepTypes
      BY <2>3, <3>1, <3>3, PeerType DEF SendsAgain, StepTypes, TypeOK
    <3>5. QED
      BY <2>1, <3>4, StepsType
  <2>4. QED
    BY <2>1, <2>2, <2>3
<1>8. ASSUME NEW e \in E, IdleTimeout(e) PROVE TypeOK'
  <2>1. Reread(lap[e]) \in Lap
    BY LapTypes DEF TypeOK
  <2>2. StepTypes
    BY <1>8, <2>1 DEF IdleTimeout, StepTypes, TypeOK
  <2>3. QED
    BY <1>8, <2>2, SameLinkType, StepsType DEF IdleTimeout
<1>9. QED
  BY <1>1, <1>2, <1>3, <1>4, <1>5, <1>6, <1>7, <1>8, CallCalled DEF Next, ServiceThread

THEOREM TypeCorrect == Spec => []TypeOK
BY InitType, StepType, PTL DEF Spec
-----------------------------------------------------------------------------
(* What a step of the specification does to the state and T200 of one      *)
(* entity and to what its L3 knows; the radio may do anything else.        *)
Untouched == UNCHANGED <<lap, l3>>

LEMMA StepCases ==
  ASSUME TypeOK, [Next]_vars
  PROVE  \/ Untouched
         \/ \E e \in E : \/ Receive(e) /\ Handled(e)
                         \/ Called(e) \/ EstablishWaits(e)
                         \/ GivesUp(e)
                         \/ T200Expiration(e) /\ SendsAgain(e)
                         \/ IdleTimeout(e)
<1>1. CASE UNCHANGED vars
  BY <1>1 DEF vars, Untouched
<1>2. CASE Stray \/ \E e \in E : Lose(e)
  BY <1>2 DEF Stray, Lose, Untouched
<1>3. ASSUME NEW e \in E, Receive(e) PROVE Handled(e)
  BY <1>3, ReceiveHandled
<1>4. ASSUME NEW e \in E, T200Expiration(e) PROVE GivesUp(e) \/ SendsAgain(e)
  BY <1>4, T200Outcome
<1>5. QED
  BY <1>1, <1>2, <1>3, <1>4, CallCalled DEF Next, ServiceThread

(* The entity that awaits an answer has T200 running, whatever overtakes   *)
(* what: TypeOK is all the invariant needs beside itself.                  *)
LEMMA TimedStep == TypeOK /\ AwaitingIsTimed /\ [Next]_vars => AwaitingIsTimed'
<1> SUFFICES ASSUME TypeOK, AwaitingIsTimed, [Next]_vars, NEW d \in E
             PROVE  Timed(lap'[d])
  BY DEF AwaitingIsTimed, Timed, State
<1>1. Timed(lap[d])
  BY DEF AwaitingIsTimed, Timed, State
<1>2. CASE Untouched
  BY <1>1, <1>2 DEF Untouched
<1>3. ASSUME NEW e \in E, NEW new, new \in Lap, Timed(lap[e]) => Timed(new),
             lap' = [lap EXCEPT ![e] = Reread(new)]
      PROVE  Timed(lap'[d])
  <2>1. Timed(new) => Timed(Reread(new))
    BY <1>3, RereadFields DEF Timed
  <2>2. QED
    BY <1>1, <1>3, <2>1 DEF TypeOK
<1>4. ASSUME NEW e \in E, Handled(e) PROVE Timed(lap'[d])
  BY <1>3, <1>4 DEF Handled, Sound, React
<1>5. ASSUME NEW e \in E, Called(e) PROVE Timed(lap'[d])
  BY <1>1, <1>5 DEF Called, SoundCall, Downlink, TypeOK
<1>6. ASSUME NEW e \in E, EstablishWaits(e) PROVE Timed(lap'[d])
  BY <1>1, <1>6 DEF EstablishWaits
<1>7. ASSUME NEW e \in E, GivesUp(e) PROVE Timed(lap'[d])
  <2>1. lap[e] \in Lap
    BY DEF TypeOK
  <2>2. ReleaseLink(lap[e]) \in Lap /\ Timed(ReleaseLink(lap[e]))
    BY <2>1, LapTypes DEF Timed, ReleaseLink, ClearCounters, Lap
  <2>3. QED
    BY <1>3, <1>7, <2>2 DEF GivesUp
<1>8. ASSUME NEW e \in E, T200Expiration(e), SendsAgain(e) PROVE Timed(lap'[d])
  <2> DEFINE r == lap[e]
  <2>1. r \in Lap /\ r.t200
    BY <1>8 DEF TypeOK, T200Expiration
  <2>2. RetransmissionProcedure(r) \in Lap
    BY <1>8, <2>1, LapTypes DEF SendsAgain
  <2>3. RetransmissionProcedure(r).state = r.state /\ RetransmissionProcedure(r).t200 = TRUE
    BY <2>1 DEF RetransmissionProcedure, Lap
  <2>4. Timed(r) => Timed(RetransmissionProcedure(r))
    BY <2>1, <2>3 DEF Timed
  <2>5. QED
    BY <1>3, <1>8, <2>2, <2>4 DEF SendsAgain
<1>9. ASSUME NEW e \in E, IdleTimeout(e) PROVE Timed(lap'[d])
  BY <1>3, <1>9 DEF IdleTimeout, TypeOK
<1>10. QED
  BY <1>2, <1>4, <1>5, <1>6, <1>7, <1>8, <1>9, StepCases

(* An entity that waits for the answer to its SABM or DISC has T200        *)
(* running, a released one has not (GSML2LAPDm.cpp: writeL1Ack,            *)
(* releaseLink, and the default branch of T200Expiration, which is dead).  *)
THEOREM AwaitingTimed == Spec => []AwaitingIsTimed
<1>1. Init => AwaitingIsTimed
  BY DEF Init, Opened, AwaitingIsTimed, State
<1>2. QED
  BY <1>1, TimedStep, TypeCorrect, PTL DEF Spec
-----------------------------------------------------------------------------
(* PH_CONNECT comes before anything the handset sends, so it cannot cut an *)
(* established link: what makes L3KnowsOfRelease inductive, for PH_CONNECT *)
(* releases an entity without telling L3.                                  *)
PhConnectFirst ==
  \A e \in E : \A i \in DOMAIN chan[e] : chan[e][i].type = "PH_CONNECT" =>
                 i = 1 /\ l3[e] # "up" /\ ~InMultiframe(lap[e])
InformedInv == L3KnowsOfRelease /\ PhConnectFirst

LEMMA TailConnect ==
  ASSUME NEW q \in Seq(Frame), q # << >>,
         \A i \in DOMAIN q : q[i].type = "PH_CONNECT" => i = 1
  PROVE  NoConnect(Tail(q))
BY DEF NoConnect

LEMMA PutConnect ==
  ASSUME NEW q \in Seq(Frame), NEW out \in Seq(Frame), NoConnect(out)
  PROVE  \A i \in DOMAIN Put(q, out) :
           Put(q, out)[i].type = "PH_CONNECT" => i \in DOMAIN q /\ q[i].type = "PH_CONNECT"
BY DEF NoConnect, Put

(* What one end of the link must keep, given what is left of its channel.  *)
InformedAt(d) ==
  /\ l3[d] = "up" => lap[d].state # "LinkReleased"
  /\ \A i \in DOMAIN chan[d] : chan[d][i].type = "PH_CONNECT" =>
       i = 1 /\ l3[d] # "up" /\ ~InMultiframe(lap[d])

LEMMA InformedLocally == InformedInv <=> \A d \in E : InformedAt(d)
BY DEF InformedInv, L3KnowsOfRelease, PhConnectFirst, InformedAt, State

(* The end that a step of its peer only sends to.                          *)
LEMMA PutInformed ==
  ASSUME TypeOK, NEW d \in E, InformedAt(d), NEW out \in Seq(Frame), NoConnect(out),
         lap'[d] = lap[d], l3'[d] = l3[d],
         chan'[d] = Put(chan[d], out) \/ chan'[d] = chan[d]
  PROVE  InformedAt(d)'
<1>1. chan[d] \in Seq(Frame)
  BY DEF TypeOK
<1>2. ASSUME NEW i \in DOMAIN chan'[d], chan'[d][i].type = "PH_CONNECT"
      PROVE  i \in DOMAIN chan[d] /\ chan[d][i].type = "PH_CONNECT"
  BY <1>1, <1>2, PutConnect
<1>3. QED
  BY <1>2 DEF InformedAt, InMultiframe

LEMMA ReactInformed ==
  ASSUME TypeOK, InformedInv, NEW e \in E, Receive(e), Handled(e)
  PROVE  InformedInv'
<1>1. PICK new, out, ind : Sound(e, new, out, ind) /\ React(e, new, out, ind)
  BY DEF Handled
<1>2. chan[e] # << >> /\ chan[e] \in Seq(Frame)
  BY DEF TypeOK, Receive, Arrives, ReceivePhConnect, ReceiveSABM, ReceiveDISC, ReceiveUA,
     ReceiveDM, ReceiveRR, ReceiveREJ, ReceiveI
<1>3. \A d \in E : InformedAt(d)
  BY InformedLocally
<1>4. NoConnect(chan'[e])
  <2>1. chan'[e] = Tail(chan[e])
    BY <1>1, PeerType DEF React, TypeOK
  <2>2. QED
    BY <1>2, <1>3, <2>1, TailConnect DEF InformedAt
<1>5. Informed(e)
  <2>1. Arrives(e, "PH_CONNECT") => chan[e][1].type = "PH_CONNECT" /\ 1 \in DOMAIN chan[e]
    BY <1>2 DEF Arrives
  <2>2. QED
    BY <1>3, <2>1 DEF Informed, InformedAt, State
<1>6. InformedAt(e)'
  <2>1. lap'[e] = Reread(new) /\ l3'[e] = Told(l3[e], ind) /\ new \in Lap
    BY <1>1 DEF React, Sound, TypeOK
  <2>2. lap'[e].state = new.state
    BY <2>1, RereadFields
  <2>3. l3'[e] = "up" => lap'[e].state # "LinkReleased"
    BY <1>1, <1>5, <2>1, <2>2 DEF Sound
  <2>4. QED
    BY <1>4, <2>3 DEF InformedAt, NoConnect
<1>7. ASSUME NEW d \in E, d # e PROVE InformedAt(d)'
  <2>1. d = Peer(e)
    BY <1>7 DEF E, Peer
  <2>2. lap'[d] = lap[d] /\ l3'[d] = l3[d] /\ chan'[d] = Put(chan[d], out)
    BY <1>1, <1>7, <2>1 DEF React, TypeOK
  <2>3. QED
    BY <1>1, <1>3, <2>2, PutInformed DEF Sound
<1>8. \A d \in E : InformedAt(d)'
  BY <1>6, <1>7
<1>9. QED
  BY <1>8 DEF InformedInv, L3KnowsOfRelease, PhConnectFirst, InformedAt, State

LEMMA DownlinkInformed ==
  ASSUME TypeOK, InformedInv, NEW e \in E, Called(e)
  PROVE  InformedInv'
<1>1. PICK new, out, belief, next :
        SoundCall(e, new, out, belief, next) /\ Downlink(e, new, out, belief, next)
  BY DEF Called
<1>2. \A d \in E : InformedAt(d)
  BY InformedLocally
<1>3. InformedAt(e)'
  <2>1. lap'[e] = new /\ l3'[e] = belief /\ chan'[e] = chan[e]
    BY <1>1, PeerType DEF Downlink, TypeOK
  <2>2. l3'[e] = "up" => lap'[e].state # "LinkReleased"
    BY <1>1, <1>2, <2>1 DEF SoundCall, InformedAt, State
  <2>3. l3'[e] = "up" => l3[e] = "up" \/ InMultiframe(lap[e])
    BY <1>1, <2>1 DEF SoundCall, InMultiframe
  <2>4. InMultiframe(lap'[e]) => InMultiframe(lap[e])
    BY <1>1, <2>1 DEF SoundCall
  <2>5. QED
    BY <1>2, <2>1, <2>2, <2>3, <2>4 DEF InformedAt
<1>4. ASSUME NEW d \in E, d # e PROVE InformedAt(d)'
  <2>1. d = Peer(e)
    BY <1>4 DEF E, Peer
  <2>2. lap'[d] = lap[d] /\ l3'[d] = l3[d] /\ chan'[d] = Put(chan[d], out)
    BY <1>1, <1>4, <2>1 DEF Downlink, TypeOK
  <2>3. QED
    BY <1>1, <1>2, <2>2, PutInformed DEF SoundCall
<1>5. \A d \in E : InformedAt(d)'
  BY <1>3, <1>4
<1>6. QED
  BY <1>5 DEF InformedInv, L3KnowsOfRelease, PhConnectFirst, InformedAt, State

LEMMA RadioInformed ==
  ASSUME TypeOK, InformedInv, Stray \/ \E e \in E : Lose(e)
  PROVE  InformedInv'
<1>1. \A d \in E : InformedAt(d)
  BY InformedLocally
<1>2. ASSUME NEW d \in E PROVE InformedAt(d)'
  <2>1. CASE Stray
    <3>1. PICK s \in Strays :
            chan' = [chan EXCEPT ![BTS] = Put(@, <<[Blank EXCEPT !.type = s.type,
                       !.cr = s.cr, !.pf = s.pf, !.nr = lap[MS].VR]>>)]
      BY <2>1 DEF Stray
    <3> DEFINE f == [Blank EXCEPT !.type = s.type, !.cr = s.cr, !.pf = s.pf, !.nr = lap[MS].VR]
    <3>2. /\ s.type \in FrameType \ {"PH_CONNECT"} /\ s.cr \in {0, 1} /\ s.pf \in BOOLEAN
          /\ lap[MS].VR \in 0 .. Modulus - 1
      BY RolesAssumption DEF FrameType, TypeOK, Lap, E
    <3>3. f \in Frame /\ f.type # "PH_CONNECT"
      BY <3>2, BlankType DEF Frame
    <3> HIDE DEF f
    <3>4. <<f>> \in Seq(Frame) /\ NoConnect(<<f>>)
      BY <3>3 DEF NoConnect
    <3>5. chan'[d] = Put(chan[d], <<f>>) \/ chan'[d] = chan[d]
      BY <3>1 DEF TypeOK, f
    <3>6. lap'[d] = lap[d] /\ l3'[d] = l3[d]
      BY <2>1 DEF Stray
    <3>7. QED
      BY <1>1, <3>4, <3>5, <3>6, PutInformed
  <2>2. ASSUME NEW e \in E, Lose(e) PROVE InformedAt(d)'
    <3>1. lap' = lap /\ l3' = l3 /\ chan' = [chan EXCEPT ![e] = Tail(@)]
      BY <2>2 DEF Lose
    <3>2. CASE d # e
      BY <1>1, <3>1, <3>2 DEF InformedAt, TypeOK, InMultiframe
    <3>3. CASE d = e
      <4>1. chan[e] \in Seq(Frame) /\ chan[e] # << >> /\ chan'[e] = Tail(chan[e])
        BY <2>2, <3>1 DEF Lose, TypeOK
      <4>2. NoConnect(Tail(chan[e]))
        BY <1>1, <4>1, TailConnect DEF InformedAt
      <4>3. QED
        BY <1>1, <3>1, <3>3, <4>1, <4>2 DEF InformedAt, NoConnect
    <3>4. QED
      BY <3>2, <3>3
  <2>3. QED
    BY <2>1, <2>2
<1>3. QED
  BY <1>2 DEF InformedInv, L3KnowsOfRelease, PhConnectFirst, InformedAt, State

LEMMA TimerInformed ==
  ASSUME TypeOK, InformedInv, NEW e \in E,
         \/ EstablishWaits(e) \/ GivesUp(e) \/ SendsAgain(e) \/ IdleTimeout(e)
  PROVE  InformedInv'
<1>1. \A d \in E : InformedAt(d)
  BY InformedLocally
<1>2. lap[e] \in Lap
  BY DEF TypeOK
<1>3. ASSUME NEW d \in E PROVE InformedAt(d)'
  <2>1. CASE EstablishWaits(e)
    BY <1>1, <2>1 DEF EstablishWaits, InformedAt, TypeOK, InMultiframe
  <2>2. CASE GivesUp(e)
    <3>1. ReleaseLink(lap[e]) \in Lap /\ ReleaseLink(lap[e]).state = "LinkReleased"
      BY <1>2, LapTypes DEF ReleaseLink, ClearCounters, Lap
    <3>2. Reread(ReleaseLink(lap[e])).state = "LinkReleased"
      BY <3>1, RereadFields
    <3>3. /\ d = e => l3'[d] = "down" /\ lap'[d].state = "LinkReleased"
          /\ d # e => l3'[d] = l3[d] /\ lap'[d] = lap[d]
          /\ chan' = chan
      BY <2>2, <3>2 DEF GivesUp, TypeOK
    <3>4. QED
      BY <1>1, <3>3 DEF InformedAt, InMultiframe
  <2>3. CASE IdleTimeout(e)
    <3>1. Reread(lap[e]).state = lap[e].state
      BY <1>2, RereadFields
    <3>2. lap'[d].state = lap[d].state /\ l3' = l3 /\ chan' = chan
      BY <2>3, <3>1 DEF IdleTimeout, TypeOK
    <3>3. QED
      BY <1>1, <3>2 DEF InformedAt, InMultiframe
  <2>4. CASE SendsAgain(e)
    <3> DEFINE r == RetransmissionProcedure(lap[e])
               f == lap[e].sentFrame
    <3>1. f \in Frame /\ f.type # "PH_CONNECT"
      BY <1>2 DEF Lap, SapFrame
    <3>2. <<f>> \in Seq(Frame) /\ NoConnect(<<f>>)
      BY <3>1 DEF NoConnect
    <3>3. r \in Lap /\ r.state = lap[e].state
      BY <1>2, <2>4, LapTypes DEF SendsAgain, RetransmissionProcedure, Lap
    <3>4. Reread(r).state = lap[e].state
      BY <3>3, RereadFields
    <3>5. CASE d = e
      <4>1. lap'[d].state = lap[d].state /\ l3'[d] = l3[d] /\ chan'[d] = chan[d]
        BY <2>4, <3>4, <3>5, PeerType DEF SendsAgain, TypeOK
      <4>2. QED
        BY <1>1, <4>1 DEF InformedAt, InMultiframe
    <3>6. CASE d # e
      <4>1. d = Peer(e)
        BY <3>6 DEF E, Peer
      <4>2. lap'[d] = lap[d] /\ l3'[d] = l3[d] /\ chan'[d] = Put(chan[d], <<f>>)
        BY <2>4, <3>6, <4>1 DEF SendsAgain, TypeOK
      <4>3. QED
        BY <1>1, <3>2, <4>2, PutInformed
    <3>7. QED
      BY <3>5, <3>6
  <2>5. QED
    BY <2>1, <2>2, <2>3, <2>4
<1>4. QED
  BY <1>3 DEF InformedInv, L3KnowsOfRelease, PhConnectFirst, InformedAt, State

(* L3 is never left to believe in a link that LAPDm has released: every    *)
(* releaseLink of an established link comes with an indication.            *)
THEOREM L3Informed == Spec => []L3KnowsOfRelease
<1>1. Init => InformedInv
  <2> SUFFICES ASSUME Init PROVE InformedInv
    OBVIOUS
  <2>1. \A d \in E : \A i \in DOMAIN chan[d] : i = 1
    BY DEF Init
  <2>2. \A d \in E : l3[d] = "down" /\ ~InMultiframe(lap[d])
    BY DEF Init, Opened, InMultiframe
  <2>3. QED
    BY <2>1, <2>2 DEF InformedInv, L3KnowsOfRelease, PhConnectFirst
<1>2. TypeOK /\ InformedInv /\ [Next]_vars => InformedInv'
  <2> SUFFICES ASSUME TypeOK, InformedInv, [Next]_vars PROVE InformedInv'
    OBVIOUS
  <2>1. CASE UNCHANGED vars
    BY <2>1 DEF vars, InformedInv, L3KnowsOfRelease, PhConnectFirst, InMultiframe, State
  <2>2. CASE Stray \/ \E e \in E : Lose(e)
    BY <2>2, RadioInformed
  <2>3. ASSUME NEW e \in E, Receive(e) PROVE InformedInv'
    BY <2>3, ReceiveHandled, ReactInformed
  <2>4. ASSUME NEW e \in E, Resume(e) \/ Call(e) PROVE InformedInv'
    BY <2>4, CallCalled, DownlinkInformed, TimerInformed
  <2>5. ASSUME NEW e \in E, T200Expiration(e) \/ IdleTimeout(e) PROVE InformedInv'
    BY <2>5, T200Outcome, TimerInformed
  <2>6. QED
    BY <2>1, <2>2, <2>3, <2>4, <2>5 DEF Next, ServiceThread
<1>3. InformedInv => L3KnowsOfRelease
  BY DEF InformedInv
<1>4. QED
  BY <1>1, <1>2, <1>3, TypeCorrect, PTL DEF Spec
-----------------------------------------------------------------------------
(* One segment outstanding, and a T200 that runs until it is acknowledged. *)
(* The names of the two ends' state, their frames in flight and the counts *)
(* of the BTS's segments; Multi, Out, Begun: the BTS is in multiframe mode,*)
(* a segment of it is unacknowledged, none has been acknowledged.          *)
Bts == lap[BTS]
Mob == lap[MS]
ToBts == chan[BTS]
ToMs == chan[MS]
Lk == link[BTS]
Sent == tx[BTS]
Arrived == reached[BTS]

Multi == Bts.state \in {"LinkEstablished", "ContentionResolution"}
Out == Bts.VS # Bts.VA
Begun == Bts.VA = 0 /\ (Out \/ Sent = 0)
Current(f, l) == f.type = "I" /\ f.link = l
Ack(f) == f.type \in {"RR", "REJ"}
Answer(f) == f.type \in {"UA", "DM"}
WellFormed(f) == /\ f.type \in {"SABM", "DISC", "UA"} => f.pf
                 /\ f.type \in {"I", "RR", "REJ"} => ~f.pf
                 /\ f.type = "I" => f.nr = 0

(* What the two entities can be doing.                                     *)
BtsStation ==
  /\ Bts.state # "AwaitingEstablish" /\ Bts.VR = 0 /\ thr[BTS].pc # "lockSABM"
  /\ Bts.state = "AwaitingRelease" => thr[BTS].pc = "release" /\ Bts.sentFrame.type = "DISC"
  /\ WellFormed(Bts.sentFrame)
MobStation ==
  /\ Mob.state # "ContentionResolution" /\ Mob.VS = 0 /\ Mob.VA = 0
  /\ thr[MS].pc \in {"idle", "lockSABM", "release"}
  /\ thr[MS].pc = "release" => Mob.state \in {"AwaitingRelease", "LinkReleased"}
  /\ Mob.state = "AwaitingRelease" => Mob.sentFrame.type = "DISC" /\ thr[MS].pc = "release"
  /\ Mob.state = "AwaitingEstablish" => Mob.sentFrame.type = "SABM"
  /\ Mob.state = "LinkEstablished" => ~Mob.t200
  /\ WellFormed(Mob.sentFrame)
Counts == /\ tx[MS] = 0 /\ reached[MS] = 0
          /\ Sent = Arrived \/ Sent = Arrived + 1

(* What can be on the air at all.                                          *)
AirToMs ==
  \A i \in DOMAIN ToMs :
    /\ WellFormed(ToMs[i]) /\ ToMs[i].type \in {"I", "UA", "DM", "DISC"}
    /\ ToMs[i].type = "I" => ToMs[i].link <= Lk
    /\ Current(ToMs[i], Lk) => ToMs[i].n = Sent
AirToBts ==
  \A i \in DOMAIN ToBts :
    /\ WellFormed(ToBts[i]) /\ ToBts[i].type # "I" /\ ToBts[i].type # "idleFill"
    /\ ToBts[i].type = "SABM" => i = 1

(* A handset that asks: its SABM or the one answer to it is on the air; a  *)
(* handset that has its answer: no other.                                  *)
Greeting ==
  /\ Mob.state = "AwaitingEstablish" =>
       /\ \A i \in DOMAIN ToBts : ToBts[i].type = "SABM"
       /\ \A i \in DOMAIN ToMs : Answer(ToMs[i]) =>
             /\ DOMAIN ToBts = {}
             /\ \A j \in DOMAIN ToMs : Answer(ToMs[j]) => i = j
  /\ Mob.state = "LinkEstablished" =>
       /\ \A i \in DOMAIN ToBts : Ack(ToBts[i])
       /\ \A i \in DOMAIN ToMs : ~Answer(ToMs[i])

(* A SABM that the BTS will take.                                          *)
Asked ==
  \A k \in DOMAIN ToBts : ToBts[k].type = "SABM" /\ Bts.state # "AwaitingRelease" =>
    /\ Mob.state \in {"AwaitingEstablish", "AwaitingRelease"}
    /\ \A i \in DOMAIN ToBts : i # k => ToBts[i].type = "DISC"
    /\ \A i \in DOMAIN ToMs : ToMs[i].type = "I"

Sender ==
  /\ Out <=> Bts.t200
  /\ Out => /\ Current(Bts.sentFrame, Lk) /\ Bts.sentFrame.n = Sent
            /\ Bts.sentFrame.ns = Bts.VA /\ Bts.VS = NextSeq(Bts.VA)
  /\ Sent = Arrived \/ Out
  /\ Bts.inProgress => Begun
  /\ Bts.state = "ContentionResolution" => Bts.inProgress

OnAirToMs ==
  \A i \in DOMAIN ToMs :
    /\ ToMs[i].type \in {"I", "UA"}
    /\ Current(ToMs[i], Lk) =>
         /\ Out /\ ToMs[i].ns = Bts.VA
         /\ \A j \in DOMAIN ToMs : Current(ToMs[j], Lk) => i = j
    /\ ToMs[i].type = "UA" =>
         /\ Begun /\ Mob.state # "LinkReleased"
         /\ \A j \in DOMAIN ToMs : /\ ToMs[j].type = "UA" => i = j
                                   /\ j > i => Current(ToMs[j], Lk)
OnAirToBts ==
  \A i \in DOMAIN ToBts :
    /\ ToBts[i].type \in {"SABM", "DISC", "RR", "REJ"}
    /\ Ack(ToBts[i]) =>
         /\ Out /\ ToBts[i].nr = Bts.VS /\ Sent = Arrived
         /\ \A j \in DOMAIN ToBts : Ack(ToBts[j]) => i = j
         /\ \A j \in DOMAIN ToMs : ~Current(ToMs[j], Lk) /\ ToMs[j].type # "UA"
         /\ Mob.state = "LinkEstablished" => Mob.VR = Bts.VS

Listener ==
  Mob.state = "LinkEstablished" =>
    /\ \A i \in DOMAIN ToMs : Current(ToMs[i], Lk)
    /\ \/ Mob.VR = Bts.VS /\ Sent = Arrived
       \/ Out /\ Mob.VR = Bts.VA

(* What the handset has heard of the BTS's link, and kept.                 *)
Kept == delivered[MS] \o Mob.recvBuffer
(* An established handset has heard all that the BTS has sent, or all but  *)
(* the last segment, and takes an I-frame exactly if it is the latter; a   *)
(* handset that entered anew may hear the first segment once more.         *)
Hearing ==
  Mob.state = "LinkEstablished" =>
    /\ \A i \in DOMAIN ToMs : ToMs[i].type = "I" =>
         ToMs[i].link = Lk /\ (ToMs[i].ns = Mob.VR <=> Len(Kept) + 1 = Sent)
    /\ Kept # << >> => Kept[1].link = Lk /\ Len(Kept) = Arrived
    /\ Multi => \/ Mob.VR = Bts.VS /\ Len(Kept) = Sent
                \/ Out /\ Mob.VR = Bts.VA /\ Len(Kept) + 1 = Sent
(* Behind the UA that will establish it there is only the first segment.   *)
Starting ==
  Mob.state = "AwaitingEstablish" =>
    \A i \in DOMAIN ToMs : ToMs[i].type = "UA" =>
      /\ Sent <= 1
      /\ \A j \in DOMAIN ToMs : j > i /\ ToMs[j].type = "I" =>
           ToMs[j].link = Lk /\ ToMs[j].ns = 0 /\ Sent = 1
Young == Multi => (Out => Sent # 0) /\ (Bts.inProgress => Sent <= 1)

Calm == BtsStation /\ MobStation /\ Counts /\ AirToMs /\ AirToBts /\ Greeting /\ Asked
Flow == Sender /\ OnAirToMs /\ OnAirToBts /\ Listener
Story == Hearing /\ Starting /\ Young
OneInv == Calm /\ (Multi => Flow) /\ Story
-----------------------------------------------------------------------------
(* What becomes of a channel when its first frame is taken, and when the   *)
(* frame f is sent on it.                                                  *)
Shortened(q, p) ==
  /\ 1 \in DOMAIN q
  /\ \A i \in DOMAIN p : i \in Nat \ {0} /\ i + 1 \in DOMAIN q /\ p[i] = q[i + 1]
Extended(q, p, f) ==
  /\ f.type # "idleFill"
  /\ \A i \in DOMAIN p : i \in Nat \ {0}
  /\ \A i \in DOMAIN p : \/ i \in DOMAIN q /\ p[i] = q[i]
                         \/ i \notin DOMAIN q /\ p[i] = f /\ \A j \in DOMAIN q : j < i
  /\ \A i, j \in DOMAIN p : i \notin DOMAIN q /\ j \notin DOMAIN q => i = j

Typed ==
  /\ Bts.VS \in 0 .. Modulus - 1 /\ Bts.VA \in 0 .. Modulus - 1
  /\ Sent \in Nat /\ Arrived \in Nat /\ Lk \in Nat
  /\ \A i \in DOMAIN ToMs : i \in Nat \ {0} /\ ToMs[i].link \in Nat
  /\ \A i \in DOMAIN ToBts : i \in Nat \ {0}

MobUntouched == Mob' = Mob /\ thr'[MS] = thr[MS]
BtsUntouched == Bts' = Bts /\ thr'[BTS] = thr[BTS]
SameCounts == /\ Lk' = Lk /\ Sent' = Sent /\ Arrived' = Arrived
              /\ tx'[MS] = tx[MS] /\ reached'[MS] = reached[MS]
              /\ delivered'[MS] = delivered[MS]
Alike(r, s) == /\ s.state = r.state /\ s.VS = r.VS /\ s.VA = r.VA /\ s.VR = r.VR
               /\ s.t200 = r.t200 /\ s.sentFrame = r.sentFrame
               /\ s.recvBuffer = r.recvBuffer
-----------------------------------------------------------------------------
(* The BTS leaves multiframe mode, or stays out of it: nothing of a link   *)
(* is promised any more.                                                   *)
LEMMA BtsIsOut ==
  ASSUME OneInv, Typed, MobUntouched, SameCounts, NEW f,
         Bts'.state \in {"LinkReleased", "AwaitingRelease"}, Bts'.VR = 0,
         thr'[BTS].pc # "lockSABM", WellFormed(Bts'.sentFrame),
         Bts'.state = "AwaitingRelease" =>
           thr'[BTS].pc = "release" /\ Bts'.sentFrame.type = "DISC",
         \/ ToBts' = ToBts /\ (Bts.state = "AwaitingRelease" =>
              Bts'.state = "AwaitingRelease" \/ DOMAIN ToBts = {})
         \/ Shortened(ToBts, ToBts'),
         \/ ToMs' = ToMs
         \/ Extended(ToMs, ToMs', f) /\ f.type = "DISC" /\ f.pf /\ Bts'.state = "AwaitingRelease"
         \/ /\ Extended(ToMs, ToMs', f) /\ Answer(f) /\ (f.type = "UA" => f.pf /\ ToBts[1].type = "DISC")
            /\ Shortened(ToBts, ToBts') /\ ~Ack(ToBts[1])
  PROVE  OneInv'
<1>1. BtsStation'
  BY DEF BtsStation
<1>2. MobStation' /\ Counts'
  BY DEF OneInv, Calm, MobStation, Counts, MobUntouched, SameCounts
<1>3. AirToMs'
  <2>1. AirToMs
    BY DEF OneInv, Calm
  <2>2. \A g : g.type \in {"DISC", "UA", "DM"} => g.type # "I" /\ ~Current(g, Lk)
    BY DEF Current
  <2>3. ASSUME NEW i \in DOMAIN ToMs'
        PROVE  \/ i \in DOMAIN ToMs /\ ToMs'[i] = ToMs[i]
               \/ /\ WellFormed(ToMs'[i]) /\ ToMs'[i].type \in {"DISC", "UA", "DM"}
    BY DEF Extended, WellFormed, Answer
  <2>4. QED
    BY <2>1, <2>2, <2>3 DEF AirToMs, SameCounts
<1>4. AirToBts'
  BY DEF OneInv, Calm, AirToBts, Shortened
<1>5. Shortened(ToBts, ToBts') => \A i \in DOMAIN ToBts' : ToBts'[i].type # "SABM"
  BY DEF OneInv, Calm, AirToBts, Shortened
<1>6. Greeting'
  <2>1. Greeting
    BY DEF OneInv, Calm
  <2>2. CASE ToMs' = ToMs
    BY <2>1, <2>2 DEF Greeting, MobUntouched, Shortened
  <2>3. CASE Extended(ToMs, ToMs', f) /\ f.type = "DISC"
    <3>1. ~Answer(f)
      BY <2>3 DEF Answer
    <3>2. QED
      BY <2>1, <2>3, <3>1 DEF Greeting, MobUntouched, Shortened, Extended
  <2>4. CASE Extended(ToMs, ToMs', f) /\ Shortened(ToBts, ToBts') /\ ~Ack(ToBts[1])
    <3>1. Mob.state # "LinkEstablished"
      BY <2>1, <2>4 DEF Greeting, Shortened
    <3>2. ASSUME Mob.state = "AwaitingEstablish"
          PROVE  DOMAIN ToBts' = {} /\ \A i \in DOMAIN ToMs : ~Answer(ToMs[i])
      <4>1. \A i \in DOMAIN ToMs : ~Answer(ToMs[i])
        BY <2>1, <2>4, <3>2 DEF Greeting, Shortened
      <4>2. \A i \in DOMAIN ToBts' : FALSE
        BY <1>5, <2>1, <2>4, <3>2 DEF Greeting, Shortened
      <4>3. QED
        BY <4>1, <4>2
    <3>3. QED
      BY <2>4, <3>1, <3>2 DEF Greeting, MobUntouched, Extended
  <2>5. QED
    BY <2>2, <2>3, <2>4
<1>7. Asked'
  BY <1>5 DEF OneInv, Calm, Asked, MobUntouched, Extended
<1>8. Story'
  <2>1. Kept' = Kept
    BY DEF Kept, MobUntouched, SameCounts
  <2>2. Hearing /\ Starting
    BY DEF OneInv, Story
  <2>3. ASSUME NEW i \in DOMAIN ToMs', ToMs'[i].type = "I"
        PROVE  i \in DOMAIN ToMs /\ ToMs'[i] = ToMs[i]
    BY <2>3 DEF Extended, Answer
  <2>4. Hearing'
    BY <2>1, <2>2, <2>3 DEF Hearing, MobUntouched, SameCounts, Multi
  <2>5. ASSUME Mob.state = "AwaitingEstablish", NEW i \in DOMAIN ToMs', ToMs'[i].type = "UA"
        PROVE  i \in DOMAIN ToMs /\ ToMs'[i] = ToMs[i]
    <3>1. ~(1 \in DOMAIN ToBts /\ ToBts[1].type = "DISC")
      BY <2>5 DEF OneInv, Calm, Greeting
    <3>2. QED
      BY <2>5, <3>1 DEF Extended, Shortened
  <2>6. Starting'
    BY <2>2, <2>3, <2>5 DEF Starting, MobUntouched, SameCounts
  <2>7. Young'
    BY DEF Young, Multi
  <2>8. QED
    BY <2>4, <2>6, <2>7 DEF Story
<1>9. QED
  BY <1>1, <1>2, <1>3, <1>4, <1>6, <1>7, <1>8 DEF OneInv, Calm, Multi

(* The BTS takes a SABM as the beginning of a new link.                    *)
LEMMA BtsBegins ==
  ASSUME OneInv, Typed, MobUntouched, NEW f, Lk' = Lk + 1, Sent' = 0, Arrived' = 0,
         tx'[MS] = tx[MS], reached'[MS] = reached[MS],
         delivered'[MS] = delivered[MS],
         Bts.state # "AwaitingRelease", ToBts[1].type = "SABM", Shortened(ToBts, ToBts'),
         Bts'.state \in {"LinkEstablished", "ContentionResolution"},
         Bts'.state = "ContentionResolution" => Bts'.inProgress,
         Bts'.VS = 0, Bts'.VA = 0, Bts'.VR = 0, Bts'.t200 = FALSE,
         WellFormed(Bts'.sentFrame), thr'[BTS].pc # "lockSABM",
         ToMs' = ToMs \/ (Extended(ToMs, ToMs', f) /\ f.type = "UA" /\ f.pf)
  PROVE  OneInv'
<1>1. /\ Mob.state \in {"AwaitingEstablish", "AwaitingRelease"}
      /\ \A i \in DOMAIN ToBts' : ToBts'[i].type = "DISC" /\ WellFormed(ToBts'[i])
      /\ \A i \in DOMAIN ToMs : ToMs[i].type = "I"
  BY DEF OneInv, Calm, Asked, AirToBts, Shortened
<1>2. BtsStation'
  BY DEF BtsStation
<1>3. MobStation' /\ Counts'
  BY DEF OneInv, Calm, MobStation, Counts, MobUntouched
<1>4. \A i \in DOMAIN ToMs' : \/ /\ i \in DOMAIN ToMs /\ ToMs'[i] = ToMs[i]
                                /\ ToMs[i].type = "I" /\ ~Current(ToMs[i], Lk')
                                /\ ToMs[i].link <= Lk' /\ WellFormed(ToMs[i])
                             \/ /\ i \notin DOMAIN ToMs /\ ToMs'[i] = f /\ f.type = "UA"
                                /\ WellFormed(f) /\ ~Current(f, Lk')
                                /\ \A j \in DOMAIN ToMs : j < i
  <2>1. ASSUME NEW i \in DOMAIN ToMs
        PROVE  /\ ToMs[i].type = "I" /\ ~Current(ToMs[i], Lk') /\ ToMs[i].link <= Lk'
               /\ WellFormed(ToMs[i])
    BY <1>1 DEF OneInv, Calm, AirToMs, Current, Typed
  <2>2. f.type = "UA" /\ f.pf => WellFormed(f) /\ ~Current(f, Lk')
    BY DEF WellFormed, Current
  <2>3. QED
    BY <2>1, <2>2 DEF Extended
<1>5. AirToMs'
  BY <1>4 DEF AirToMs
<1>6. AirToBts'
  BY <1>1 DEF AirToBts
<1>7. \A i, j \in DOMAIN ToMs' : ToMs'[i].type = "UA" /\ ToMs'[j].type = "UA" => i = j
  BY <1>4 DEF Extended
<1>8. Greeting'
  <2>1. ASSUME Mob.state = "AwaitingEstablish" PROVE DOMAIN ToBts' = {}
    <3>1. \A i \in DOMAIN ToBts' : FALSE
      BY <1>1, <2>1 DEF OneInv, Calm, Greeting, Shortened
    <3>2. QED
      BY <3>1
  <2>2. \A i \in DOMAIN ToMs' : Answer(ToMs'[i]) => ToMs'[i].type = "UA"
    BY <1>4 DEF Answer
  <2>3. QED
    BY <1>1, <1>7, <2>1, <2>2 DEF Greeting, MobUntouched
<1>9. Asked'
  BY <1>1 DEF Asked
<1>10. Sender'
  BY DEF Sender, Out, Begun
<1>11. OnAirToMs'
  <2>1. Begun' /\ Mob'.state # "LinkReleased"
    BY <1>1 DEF Begun, MobUntouched
  <2>2. ASSUME NEW i \in DOMAIN ToMs', ToMs'[i].type = "UA", NEW j \in DOMAIN ToMs', j > i
        PROVE  FALSE
    BY <1>4, <1>7, <2>2 DEF Typed, Extended
  <2>3. QED
    BY <1>4, <1>7, <2>1, <2>2 DEF OnAirToMs
<1>12. OnAirToBts'
  BY <1>1 DEF OnAirToBts, Ack
<1>13. Listener'
  BY <1>1 DEF Listener, MobUntouched
<1>14. Story'
  <2>1. Hearing'
    BY <1>1 DEF Hearing, MobUntouched
  <2>2. ASSUME NEW i \in DOMAIN ToMs', ToMs'[i].type = "UA", NEW j \in DOMAIN ToMs', j > i
        PROVE  FALSE
    BY <1>4, <1>7, <2>2 DEF Typed, Extended
  <2>3. Starting' /\ Young'
    BY <2>2 DEF Starting, Young, Out
  <2>4. QED
    BY <2>1, <2>3 DEF Story
<1>15. QED
  BY <1>2, <1>3, <1>5, <1>6, <1>8, <1>9, <1>10, <1>11, <1>12, <1>13, <1>14
  DEF OneInv, Calm, Flow, Multi

(* The BTS answers a repeated SABM once more.                              *)
LEMMA BtsAnswersAgain ==
  ASSUME OneInv, Typed, MobUntouched, SameCounts, Multi, Bts.inProgress, NEW f,
         ToBts[1].type = "SABM", Shortened(ToBts, ToBts'),
         Bts'.state = "LinkEstablished", Bts'.VS = Bts.VS, Bts'.VA = Bts.VA,
         Bts'.VR = Bts.VR, Bts'.t200 = Bts.t200, Bts'.inProgress = Bts.inProgress,
         Bts'.sentFrame = Bts.sentFrame, thr'[BTS] = thr[BTS],
         ToMs' = ToMs \/ (Extended(ToMs, ToMs', f) /\ f.type = "UA" /\ f.pf)
  PROVE  OneInv'
<1>1. /\ Mob.state \in {"AwaitingEstablish", "AwaitingRelease"}
      /\ \A i \in DOMAIN ToBts' : ToBts'[i].type = "DISC" /\ WellFormed(ToBts'[i])
      /\ \A i \in DOMAIN ToMs : ToMs[i].type = "I"
  BY DEF OneInv, Calm, Asked, AirToBts, Shortened, Multi
<1>2. BtsStation'
  BY DEF BtsStation, OneInv, Calm
<1>3. MobStation' /\ Counts'
  BY DEF OneInv, Calm, MobStation, Counts, MobUntouched, SameCounts
<1>4. \A i \in DOMAIN ToMs' : \/ i \in DOMAIN ToMs /\ ToMs'[i] = ToMs[i]
                             \/ /\ i \notin DOMAIN ToMs /\ ToMs'[i] = f /\ f.type = "UA"
                                /\ WellFormed(f) /\ ~Current(f, Lk)
                                /\ \A j \in DOMAIN ToMs : j < i
  <2>1. f.type = "UA" /\ f.pf => WellFormed(f) /\ ~Current(f, Lk)
    BY DEF WellFormed, Current
  <2>2. QED
    BY <2>1 DEF Extended
<1>5. AirToMs'
  BY <1>4 DEF OneInv, Calm, AirToMs, SameCounts
<1>6. AirToBts'
  BY <1>1 DEF AirToBts
<1>7. \A i, j \in DOMAIN ToMs' : ToMs'[i].type = "UA" /\ ToMs'[j].type = "UA" => i = j
  BY <1>1, <1>4 DEF Extended
<1>8. Greeting'
  <2>1. ASSUME Mob.state = "AwaitingEstablish" PROVE DOMAIN ToBts' = {}
    <3>1. \A i \in DOMAIN ToBts' : FALSE
      BY <1>1, <2>1 DEF OneInv, Calm, Greeting, Shortened
    <3>2. QED
      BY <3>1
  <2>2. \A i \in DOMAIN ToMs' : Answer(ToMs'[i]) => ToMs'[i].type = "UA"
    BY <1>1, <1>4 DEF Answer
  <2>3. QED
    BY <1>1, <1>7, <2>1, <2>2 DEF Greeting, MobUntouched
<1>9. Asked'
  BY <1>1 DEF Asked
<1>10. Flow
  BY DEF OneInv
<1>11. Out' = Out /\ Begun' = Begun
  BY DEF Out, Begun, SameCounts
<1>12. Sender'
  BY <1>10, <1>11 DEF Flow, Sender, SameCounts
<1>13. OnAirToMs'
  <2>1. Begun' /\ Mob'.state # "LinkReleased"
    BY <1>1, <1>10, <1>11 DEF Flow, Sender, MobUntouched
  <2>2. ASSUME NEW i \in DOMAIN ToMs', ToMs'[i].type = "UA", NEW j \in DOMAIN ToMs', j > i
        PROVE  FALSE
    BY <1>1, <1>4, <1>7, <2>2 DEF Typed, Extended
  <2>3. ASSUME NEW i \in DOMAIN ToMs', Current(ToMs'[i], Lk')
        PROVE  /\ Out' /\ ToMs'[i].ns = Bts'.VA
               /\ \A j \in DOMAIN ToMs' : Current(ToMs'[j], Lk') => i = j
    BY <1>4, <1>10, <1>11, <2>3 DEF Flow, OnAirToMs, SameCounts
  <2>4. QED
    BY <1>1, <1>4, <1>7, <2>1, <2>2, <2>3 DEF OnAirToMs
<1>14. OnAirToBts'
  BY <1>1 DEF OnAirToBts, Ack
<1>15. Listener'
  BY <1>1 DEF Listener, MobUntouched
<1>16. Story'
  <2>1. Hearing'
    BY <1>1 DEF Hearing, MobUntouched
  <2>2. ASSUME NEW i \in DOMAIN ToMs', ToMs'[i].type = "UA", NEW j \in DOMAIN ToMs', j > i
        PROVE  FALSE
    BY <1>1, <1>4, <1>7, <2>2 DEF Typed, Extended
  <2>3. Young /\ Sent <= 1
    BY DEF OneInv, Story, Young
  <2>4. Starting' /\ Young'
    BY <1>11, <2>2, <2>3 DEF Starting, Young, SameCounts
  <2>5. QED
    BY <2>1, <2>4 DEF Story
<1>17. QED
  BY <1>2, <1>3, <1>5, <1>6, <1>8, <1>9, <1>12, <1>13, <1>14, <1>15, <1>16 DEF OneInv, Calm, Flow

(* The BTS does nothing that counts: it ignores a frame, the radio loses   *)
(* one, its thread goes on.                                                *)
LEMMA BtsIsIdle ==
  ASSUME OneInv, Typed, MobUntouched, SameCounts, ToMs' = ToMs,
         ToBts' = ToBts \/ Shortened(ToBts, ToBts'),
         Alike(Bts, Bts'), Bts'.inProgress = Bts.inProgress, thr'[BTS].pc # "lockSABM",
         Bts.state = "AwaitingRelease" => thr'[BTS] = thr[BTS]
  PROVE  OneInv'
<1>1. BtsStation'
  BY DEF OneInv, Calm, BtsStation, Alike
<1>2. MobStation' /\ Counts' /\ AirToMs'
  BY DEF OneInv, Calm, MobStation, Counts, AirToMs, MobUntouched, SameCounts
<1>3. AirToBts'
  BY DEF OneInv, Calm, AirToBts, Shortened
<1>4. Greeting'
  <2>1. DOMAIN ToBts = {} => DOMAIN ToBts' = {}
    BY DEF Shortened
  <2>2. QED
    BY <2>1 DEF OneInv, Calm, Greeting, MobUntouched, Shortened
<1>5. Asked'
  BY DEF OneInv, Calm, Asked, AirToBts, MobUntouched, Shortened, Alike
<1>6. Multi' = Multi /\ Out' = Out /\ Begun' = Begun
  BY DEF Multi, Out, Begun, Alike, SameCounts
<1>7. ASSUME Flow PROVE Flow'
  <2>1. Sender' /\ Listener'
    BY <1>6, <1>7 DEF Flow, Sender, Listener, Alike, SameCounts, MobUntouched
  <2>2. OnAirToMs'
    BY <1>6, <1>7 DEF Flow, OnAirToMs, Alike, SameCounts, MobUntouched
  <2>3. OnAirToBts'
    BY <1>6, <1>7 DEF Flow, OnAirToBts, Alike, SameCounts, MobUntouched, Shortened
  <2>4. QED
    BY <2>1, <2>2, <2>3 DEF Flow
<1>8. Story'
  <2>1. Kept' = Kept
    BY DEF Kept, MobUntouched, SameCounts
  <2>2. Hearing'
    BY <1>6, <2>1 DEF OneInv, Story, Hearing, MobUntouched, SameCounts, Alike
  <2>3. Starting' /\ Young'
    BY <1>6 DEF OneInv, Story, Starting, Young, MobUntouched, SameCounts, Alike
  <2>4. QED
    BY <2>2, <2>3 DEF Story
<1>9. QED
  BY <1>1, <1>2, <1>3, <1>4, <1>5, <1>6, <1>7, <1>8 DEF OneInv, Calm

(* The BTS hears the acknowledgement of the segment that is out.           *)
LEMMA BtsIsAcked ==
  ASSUME OneInv, Typed, MobUntouched, SameCounts, ToMs' = ToMs, Multi,
         Ack(ToBts[1]), Shortened(ToBts, ToBts'),
         Bts'.state = "LinkEstablished", Bts'.VS = Bts.VS, Bts'.VA = Bts.VS,
         Bts'.VR = Bts.VR, Bts'.t200 = FALSE, Bts'.inProgress = FALSE,
         Bts'.sentFrame = Bts.sentFrame, thr'[BTS] = thr[BTS]
  PROVE  OneInv'
<1>1. Flow
  BY DEF OneInv
<1>2. /\ Sent = Arrived /\ \A j \in DOMAIN ToMs : ~Current(ToMs[j], Lk) /\ ToMs[j].type # "UA"
      /\ \A i \in DOMAIN ToBts' : ~Ack(ToBts'[i])
      /\ Mob.state = "LinkEstablished" => Mob.VR = Bts.VS
  BY <1>1 DEF Flow, OnAirToBts, Shortened
<1>3. BtsStation'
  BY DEF OneInv, Calm, BtsStation
<1>4. MobStation' /\ Counts' /\ AirToMs'
  BY DEF OneInv, Calm, MobStation, Counts, AirToMs, MobUntouched, SameCounts
<1>5. AirToBts'
  BY DEF OneInv, Calm, AirToBts, Shortened
<1>6. Greeting'
  <2>1. DOMAIN ToBts # {}
    BY DEF Shortened
  <2>2. QED
    BY <2>1 DEF OneInv, Calm, Greeting, MobUntouched, Shortened
<1>7. Asked'
  BY DEF OneInv, Calm, Asked, AirToBts, Shortened
<1>8. Sender'
  BY <1>2 DEF Sender, Out, SameCounts
<1>9. OnAirToMs'
  BY <1>1, <1>2 DEF Flow, OnAirToMs, SameCounts
<1>10. OnAirToBts'
  BY <1>1, <1>2 DEF Flow, OnAirToBts, Shortened
<1>11. Listener'
  BY <1>1, <1>2 DEF Flow, Listener, MobUntouched, SameCounts
<1>12. Story'
  <2>1. Kept' = Kept
    BY DEF Kept, MobUntouched, SameCounts
  <2>2. Hearing'
    BY <1>2, <2>1 DEF OneInv, Story, Hearing, Out, MobUntouched, SameCounts
  <2>3. Starting' /\ Young'
    BY DEF OneInv, Story, Starting, Young, Out, MobUntouched, SameCounts
  <2>4. QED
    BY <2>2, <2>3 DEF Story
<1>13. QED
  BY <1>3, <1>4, <1>5, <1>6, <1>7, <1>8, <1>9, <1>10, <1>11, <1>12 DEF OneInv, Calm, Flow

(* T200 of the BTS expires: nothing is on the air but the segment that it  *)
(* sends again.                                                            *)
LEMMA BtsSendsAgain ==
  ASSUME OneInv, Typed, MobUntouched, SameCounts, ToBts' = ToBts, Multi, Bts.t200,
         DOMAIN ToMs = {}, DOMAIN ToBts = {},
         ToMs' = ToMs \/ Extended(ToMs, ToMs', Bts.sentFrame),
         Alike(Bts, Bts'), Bts'.inProgress = Bts.inProgress, thr'[BTS] = thr[BTS]
  PROVE  OneInv'
<1> DEFINE f == Bts.sentFrame
<1>1. Flow
  BY DEF OneInv
<1>2. /\ Out /\ Current(f, Lk) /\ f.n = Sent /\ f.ns = Bts.VA /\ f.type = "I"
      /\ ~Answer(f) /\ WellFormed(f) /\ f.link = Lk
  BY <1>1 DEF Flow, Sender, Current, Answer, OneInv, Calm, BtsStation
<1>3. /\ \A i \in DOMAIN ToMs' : ToMs'[i] = f
      /\ \A i, j \in DOMAIN ToMs' : i = j
  BY DEF Extended
<1>4. BtsStation'
  BY DEF OneInv, Calm, BtsStation, Alike
<1>5. MobStation' /\ Counts' /\ AirToBts'
  BY DEF OneInv, Calm, MobStation, Counts, AirToBts, MobUntouched, SameCounts
<1>6. AirToMs'
  BY <1>2, <1>3 DEF AirToMs, SameCounts, Typed
<1>7. Greeting' /\ Asked'
  BY <1>2, <1>3 DEF Greeting, Asked
<1>8. Multi' = Multi /\ Out' = Out /\ Begun' = Begun
  BY DEF Multi, Out, Begun, Alike, SameCounts
<1>9. Sender'
  BY <1>1, <1>8 DEF Flow, Sender, Alike, SameCounts
<1>10. OnAirToMs'
  BY <1>2, <1>3, <1>8 DEF OnAirToMs, Alike, SameCounts
<1>11. OnAirToBts'
  BY DEF OnAirToBts
<1>12. Listener'
  BY <1>1, <1>2, <1>3, <1>8 DEF Flow, Listener, Alike, SameCounts, MobUntouched
<1>13. Story'
  <2>1. Kept' = Kept
    BY DEF Kept, MobUntouched, SameCounts
  <2>2. ASSUME Mob.state = "LinkEstablished" PROVE f.ns = Mob.VR <=> Len(Kept) + 1 = Sent
    BY <1>2, <2>2 DEF OneInv, Story, Hearing, Out, Typed
  <2>3. Hearing'
    BY <1>2, <1>3, <1>8, <2>1, <2>2
    DEF OneInv, Story, Hearing, MobUntouched, SameCounts, Alike
  <2>4. Starting' /\ Young'
    BY <1>2, <1>3, <1>8 DEF OneInv, Story, Starting, Young, SameCounts, Alike
  <2>5. QED
    BY <2>3, <2>4 DEF Story
<1>14. QED
  BY <1>4, <1>5, <1>6, <1>7, <1>9, <1>10, <1>11, <1>12, <1>13 DEF OneInv, Calm, Flow

(* The BTS sends the next segment: the last one has been acknowledged.     *)
LEMMA BtsSends ==
  ASSUME OneInv, Typed, MobUntouched, ToBts' = ToBts, Multi, ~Out, NEW f,
         Lk' = Lk, Sent' = Sent + 1, Arrived' = Arrived, tx'[MS] = tx[MS],
         reached'[MS] = reached[MS], delivered'[MS] = delivered[MS],
         NextSeq(Bts.VS) # Bts.VS,
         f.type = "I", f.link = Lk, f.n = Sent', f.ns = Bts.VS, f.nr = 0, f.pf = FALSE,
         ToMs' = ToMs \/ Extended(ToMs, ToMs', f),
         Bts'.state = Bts.state, Bts'.VS = NextSeq(Bts.VS), Bts'.VA = Bts.VA,
         Bts'.VR = Bts.VR, Bts'.t200 = TRUE, Bts'.inProgress = Bts.inProgress,
         Bts'.sentFrame = f, thr'[BTS].pc # "lockSABM"
  PROVE  OneInv'
<1>1. Flow
  BY DEF OneInv
<1>2. /\ \A i \in DOMAIN ToMs : ~Current(ToMs[i], Lk)
      /\ \A i \in DOMAIN ToBts : ~Ack(ToBts[i])
      /\ Sent = Arrived /\ Bts.VS = Bts.VA
  BY <1>1 DEF Flow, OnAirToMs, OnAirToBts, Sender, Out
<1>3. /\ Current(f, Lk) /\ ~Answer(f) /\ WellFormed(f)
  BY DEF Current, Answer, WellFormed
<1>4. Out' /\ (Begun => Begun') /\ Multi'
  BY <1>2 DEF Out, Begun, Multi
<1>5. BtsStation'
  BY <1>3 DEF OneInv, Calm, BtsStation, Multi
<1>6. MobStation' /\ AirToBts' /\ Counts'
  BY <1>2 DEF OneInv, Calm, MobStation, Counts, AirToBts, MobUntouched
<1>7. AirToMs'
  BY <1>2, <1>3 DEF OneInv, Calm, AirToMs, Extended, Typed
<1>8. Greeting'
  BY <1>3 DEF OneInv, Calm, Greeting, MobUntouched, Extended
<1>9. Asked'
  BY DEF OneInv, Calm, Asked, MobUntouched, Extended
<1>10. Sender'
  BY <1>1, <1>2, <1>3, <1>4 DEF Flow, Sender
<1>11. OnAirToMs'
  <2>1. \A i \in DOMAIN ToMs' : \/ /\ i \in DOMAIN ToMs /\ ToMs'[i] = ToMs[i]
                                   /\ ~Current(ToMs[i], Lk)
                                \/ i \notin DOMAIN ToMs /\ ToMs'[i] = f
    BY <1>2 DEF Extended
  <2>2. \A i, j \in DOMAIN ToMs' : Current(ToMs'[i], Lk) /\ Current(ToMs'[j], Lk) => i = j
    BY <2>1 DEF Extended
  <2>3. ASSUME NEW i \in DOMAIN ToMs', ToMs'[i].type = "UA"
        PROVE  /\ Begun' /\ Mob'.state # "LinkReleased"
               /\ \A j \in DOMAIN ToMs' : /\ ToMs'[j].type = "UA" => i = j
                                          /\ j > i => Current(ToMs'[j], Lk)
    BY <1>1, <1>3, <1>4, <2>1, <2>3 DEF Flow, OnAirToMs, MobUntouched
  <2>4. ASSUME NEW i \in DOMAIN ToMs', Current(ToMs'[i], Lk) PROVE ToMs'[i].ns = Bts'.VA
    BY <1>2, <2>1, <2>4
  <2>5. ASSUME NEW i \in DOMAIN ToMs' PROVE ToMs'[i].type \in {"I", "UA"}
    BY <1>1, <2>1 DEF Flow, OnAirToMs
  <2>6. QED
    BY <1>4, <2>2, <2>3, <2>4, <2>5 DEF OnAirToMs
<1>12. OnAirToBts'
  BY <1>1, <1>2 DEF Flow, OnAirToBts
<1>13. Listener'
  BY <1>1, <1>2, <1>3, <1>4 DEF Flow, Listener, MobUntouched, Extended
<1>14. Story'
  <2>1. Kept' = Kept
    BY DEF Kept, MobUntouched
  <2>2. Hearing /\ Starting /\ Young
    BY DEF OneInv, Story
  <2>3. ASSUME Mob.state = "LinkEstablished"
        PROVE  /\ Mob.VR = Bts.VS /\ Len(Kept) = Sent
               /\ \A i \in DOMAIN ToMs' : ToMs'[i] = f
    BY <1>1, <1>2, <2>2, <2>3 DEF Flow, Listener, Hearing, Out, Extended
  <2>4. Hearing'
    <3>1. \A i \in DOMAIN ToMs' : Mob.state = "LinkEstablished" => ToMs'[i].ns = Bts.VS
      BY <2>3
    <3>2. QED
      BY <1>2, <1>4, <2>1, <2>2, <2>3, <3>1 DEF Hearing, MobUntouched, Typed
  <2>5. Begun => Sent = 0 /\ Sent' = 1 /\ Bts.VS = 0
    BY <1>2 DEF Begun, Out, Typed
  <2>6. Starting'
    <3>1. ASSUME NEW i \in DOMAIN ToMs', ToMs'[i].type = "UA"
          PROVE  /\ i \in DOMAIN ToMs /\ Begun
                 /\ \A j \in DOMAIN ToMs' : j > i => ToMs'[j] = f
      BY <1>1, <1>2, <3>1 DEF Flow, OnAirToMs, Extended
    <3>2. QED
      BY <2>5, <3>1 DEF Starting
  <2>7. Young'
    BY <1>1, <2>5 DEF Flow, Sender, Young, Typed
  <2>8. QED
    BY <2>4, <2>6, <2>7 DEF Story
<1>15. QED
  BY <1>5, <1>6, <1>7, <1>8, <1>9, <1>10, <1>11, <1>12, <1>13, <1>14 DEF OneInv, Calm, Flow

(* The handset's link ends: by a DISC, an answer to its own, or T200.      *)
LEMMA MobIsOut ==
  ASSUME OneInv, Typed, BtsUntouched, SameCounts, NEW f,
         Mob'.state = "LinkReleased", Mob'.VS = 0, Mob'.VA = 0, WellFormed(Mob'.sentFrame),
         thr'[MS] = thr[MS],
         \/ Shortened(ToMs, ToMs') /\ ToMs[1].type # "I"
         \/ ToMs' = ToMs /\ DOMAIN ToMs = {} /\ DOMAIN ToBts = {},
         \/ ToBts' = ToBts
         \/ Extended(ToBts, ToBts', f) /\ ~Multi /\ Answer(f) /\ (f.type = "UA" => f.pf)
  PROVE  OneInv'
<1>1. /\ BtsStation' /\ Multi' = Multi /\ Out' = Out /\ Begun' = Begun
  BY DEF OneInv, Calm, BtsStation, BtsUntouched, Multi, Out, Begun, SameCounts
<1>2. MobStation' /\ Counts'
  BY DEF OneInv, Calm, MobStation, Counts, SameCounts
<1>3. AirToMs'
  BY DEF OneInv, Calm, AirToMs, SameCounts, Shortened
<1>4. AirToBts'
  <2>1. Answer(f) /\ (f.type = "UA" => f.pf) => WellFormed(f) /\ f.type \in {"UA", "DM"}
    BY DEF Answer, WellFormed
  <2>2. QED
    BY <2>1 DEF OneInv, Calm, AirToBts, Extended
<1>5. Greeting'
  BY DEF Greeting
<1>6. Asked'
  <2>1. ASSUME NEW k \in DOMAIN ToBts', ToBts'[k].type = "SABM",
               Bts.state # "AwaitingRelease"
        PROVE  FALSE
    <3>1. k \in DOMAIN ToBts /\ ToBts[k].type = "SABM"
      BY <2>1 DEF Extended, Answer
    <3>2. QED
      BY <2>1, <3>1 DEF OneInv, Calm, Asked, Shortened
  <2>2. QED
    BY <2>1 DEF Asked, BtsUntouched
<1>7. ASSUME Multi PROVE Flow'
  <2>1. Flow /\ ToBts' = ToBts
    BY <1>7 DEF OneInv
  <2>2. Sender' /\ Listener'
    BY <1>1, <2>1 DEF Flow, Sender, Listener, SameCounts, BtsUntouched
  <2>3. \A i \in DOMAIN ToMs' : ToMs'[i].type # "UA"
    BY <2>1 DEF Flow, OnAirToMs, Shortened
  <2>4. OnAirToMs'
    BY <1>1, <2>1, <2>3 DEF Flow, OnAirToMs, Shortened, SameCounts, BtsUntouched
  <2>5. OnAirToBts'
    BY <1>1, <2>1 DEF Flow, OnAirToBts, Shortened, SameCounts, BtsUntouched
  <2>6. QED
    BY <2>2, <2>4, <2>5 DEF Flow
<1>8. Story'
  BY <1>1 DEF OneInv, Story, Hearing, Starting, Young, SameCounts, BtsUntouched
<1>9. QED
  BY <1>1, <1>2, <1>3, <1>4, <1>5, <1>6, <1>7, <1>8 DEF OneInv, Calm

(* The handset does nothing that counts.                                   *)
LEMMA MobIsIdle ==
  ASSUME OneInv, Typed, BtsUntouched, SameCounts, ToBts' = ToBts,
         ToMs' = ToMs \/ Shortened(ToMs, ToMs'), Alike(Mob, Mob'),
         thr'[MS].pc \in {"idle", "lockSABM", "release"},
         thr'[MS].pc = "release" => thr[MS].pc = "release",
         Mob.state = "AwaitingRelease" => thr'[MS] = thr[MS]
  PROVE  OneInv'
<1>1. /\ BtsStation' /\ Multi' = Multi /\ Out' = Out /\ Begun' = Begun
  BY DEF OneInv, Calm, BtsStation, BtsUntouched, Multi, Out, Begun, SameCounts
<1>2. MobStation' /\ Counts' /\ AirToBts'
  BY DEF OneInv, Calm, MobStation, Counts, AirToBts, SameCounts, Alike
<1>3. AirToMs'
  BY DEF OneInv, Calm, AirToMs, SameCounts, Shortened
<1>4. Greeting'
  BY DEF OneInv, Calm, Greeting, Alike, Shortened
<1>5. Asked'
  BY DEF OneInv, Calm, Asked, BtsUntouched, Alike, Shortened
<1>6. ASSUME Flow PROVE Flow'
  <2>1. Sender' /\ Listener'
    BY <1>1, <1>6 DEF Flow, Sender, Listener, SameCounts, BtsUntouched, Alike, Shortened
  <2>2. OnAirToMs'
    <3>1. ASSUME NEW i \in DOMAIN ToMs' PROVE ToMs'[i].type \in {"I", "UA"}
      BY <1>6 DEF Flow, OnAirToMs, Shortened
    <3>2. ASSUME NEW i \in DOMAIN ToMs', Current(ToMs'[i], Lk)
          PROVE  /\ Out /\ ToMs'[i].ns = Bts.VA
                 /\ \A j \in DOMAIN ToMs' : Current(ToMs'[j], Lk) => i = j
      BY <1>6, <3>2 DEF Flow, OnAirToMs, Shortened
    <3>3. ASSUME NEW i \in DOMAIN ToMs', ToMs'[i].type = "UA"
          PROVE  /\ Begun /\ Mob.state # "LinkReleased"
                 /\ \A j \in DOMAIN ToMs' : /\ ToMs'[j].type = "UA" => i = j
                                            /\ j > i => Current(ToMs'[j], Lk)
      <4>1. CASE ToMs' = ToMs
        BY <1>6, <3>3, <4>1 DEF Flow, OnAirToMs
      <4>2. CASE Shortened(ToMs, ToMs')
        <5>1. i + 1 \in DOMAIN ToMs /\ ToMs[i + 1].type = "UA" /\ i \in Nat
          BY <3>3, <4>2 DEF Shortened
        <5>2. /\ Begun /\ Mob.state # "LinkReleased"
              /\ \A j \in DOMAIN ToMs : /\ ToMs[j].type = "UA" => i + 1 = j
                                        /\ j > i + 1 => Current(ToMs[j], Lk)
          BY <1>6, <5>1 DEF Flow, OnAirToMs
        <5>3. QED
          BY <4>2, <5>1, <5>2 DEF Shortened
      <4>3. QED
        BY <4>1, <4>2
    <3>4. QED
      BY <1>1, <3>1, <3>2, <3>3 DEF OnAirToMs, SameCounts, BtsUntouched, Alike
  <2>3. OnAirToBts'
    BY <1>1, <1>6 DEF Flow, OnAirToBts, Shortened, SameCounts, BtsUntouched, Alike
  <2>4. QED
    BY <2>1, <2>2, <2>3 DEF Flow
<1>7. Story'
  <2>1. Kept' = Kept
    BY DEF Kept, Alike, SameCounts
  <2>2. Hearing'
    BY <1>1, <2>1 DEF OneInv, Story, Hearing, Alike, SameCounts, BtsUntouched, Shortened
  <2>3. Starting'
    <3>1. CASE ToMs' = ToMs
      BY <3>1 DEF OneInv, Story, Starting, Alike, SameCounts
    <3>2. CASE Shortened(ToMs, ToMs')
      <4>1. ASSUME NEW i \in DOMAIN ToMs', NEW j \in DOMAIN ToMs'
            PROVE  /\ i + 1 \in DOMAIN ToMs /\ ToMs'[i] = ToMs[i + 1]
                   /\ j + 1 \in DOMAIN ToMs /\ ToMs'[j] = ToMs[j + 1]
                   /\ (j > i => j + 1 > i + 1)
        BY <3>2 DEF Shortened
      <4>2. QED
        BY <4>1 DEF OneInv, Story, Starting, Alike, SameCounts
    <3>3. QED
      BY <3>1, <3>2
  <2>4. Young'
    BY <1>1 DEF OneInv, Story, Young, SameCounts, BtsUntouched
  <2>5. QED
    BY <2>2, <2>3, <2>4 DEF Story
<1>8. QED
  BY <1>1, <1>2, <1>3, <1>4, <1>5, <1>6, <1>7 DEF OneInv, Calm

(* The handset hears the answer to its SABM.                               *)
LEMMA MobIsUp ==
  ASSUME OneInv, Typed, BtsUntouched, ToBts' = ToBts, Shortened(ToMs, ToMs'),
         Lk' = Lk, Sent' = Sent, Arrived' = Arrived, tx'[MS] = tx[MS],
         reached'[MS] = reached[MS], Kept' = << >>, ToMs[1].type = "UA", Mob.state = "AwaitingEstablish",
         Mob'.state = "LinkEstablished", Mob'.VS = 0, Mob'.VA = 0, Mob'.VR = 0,
         Mob'.t200 = FALSE, WellFormed(Mob'.sentFrame), thr'[MS] = thr[MS]
  PROVE  OneInv'
<1>1. /\ BtsStation' /\ Multi' = Multi /\ Out' = Out /\ Begun' = Begun
  BY DEF OneInv, Calm, BtsStation, BtsUntouched, Multi, Out, Begun
<1>2. MobStation' /\ Counts' /\ AirToBts'
  BY DEF OneInv, Calm, MobStation, Counts, AirToBts
<1>3. AirToMs'
  BY DEF OneInv, Calm, AirToMs, Shortened
<1>4. DOMAIN ToBts = {} /\ \A j \in DOMAIN ToMs' : ~Answer(ToMs'[j])
  <2>1. 1 \in DOMAIN ToMs /\ Answer(ToMs[1])
    BY DEF Shortened, Answer
  <2>2. DOMAIN ToBts = {} /\ \A j \in DOMAIN ToMs : Answer(ToMs[j]) => 1 = j
    BY <2>1 DEF OneInv, Calm, Greeting
  <2>3. QED
    BY <2>2 DEF Shortened
<1>5. Greeting' /\ Asked'
  BY <1>4 DEF Greeting, Asked
<1>6. ASSUME Flow PROVE Flow'
  <2>1. /\ Begun /\ \A j \in DOMAIN ToMs : j > 1 => Current(ToMs[j], Lk)
    BY <1>6 DEF Flow, OnAirToMs, Shortened
  <2>2. \A j \in DOMAIN ToMs' : Current(ToMs'[j], Lk)
    BY <2>1 DEF Shortened
  <2>3. Sender'
    BY <1>1, <1>6 DEF Flow, Sender, BtsUntouched
  <2>4. OnAirToMs'
    BY <1>1, <1>4, <1>6 DEF Flow, OnAirToMs, BtsUntouched, Shortened, Answer
  <2>5. OnAirToBts'
    BY <1>4 DEF OnAirToBts
  <2>6. Listener'
    <3>1. \/ Out /\ Mob'.VR = Bts.VA
          \/ ~Out /\ Mob'.VR = Bts.VS /\ Sent = 0
      BY <2>1 DEF Begun, Out
    <3>2. Sent = 0 => Sent = Arrived
      BY DEF OneInv, Calm, Counts, Typed
    <3>3. QED
      BY <1>1, <2>2, <3>1, <3>2 DEF Listener, BtsUntouched
  <2>7. QED
    BY <2>3, <2>4, <2>5, <2>6 DEF Flow
<1>7. Story'
  <2>1. /\ Sent <= 1 /\ 1 \in DOMAIN ToMs
        /\ \A j \in DOMAIN ToMs : j > 1 /\ ToMs[j].type = "I" =>
             ToMs[j].link = Lk /\ ToMs[j].ns = 0 /\ Sent = 1
    BY DEF OneInv, Story, Starting, Shortened
  <2>2. \A j \in DOMAIN ToMs' : ToMs'[j].type = "I" =>
          ToMs'[j].link = Lk /\ ToMs'[j].ns = 0 /\ Sent = 1
    BY <2>1 DEF Shortened
  <2>3. Multi => \/ Bts.VS = 0 /\ Sent = 0
                 \/ Out /\ Bts.VA = 0 /\ Sent = 1
    <3>1. Multi => Begun /\ (Out => Sent # 0)
      BY <2>1 DEF OneInv, Flow, OnAirToMs, Story, Young
    <3>2. QED
      BY <2>1, <3>1 DEF Begun, Out, Typed
  <2>4. Len(Kept') = 0
    OBVIOUS
  <2>5. Hearing'
    BY <1>1, <2>2, <2>3, <2>4 DEF Hearing, BtsUntouched
  <2>6. Starting' /\ Young'
    BY <1>1 DEF OneInv, Story, Starting, Young, BtsUntouched
  <2>7. QED
    BY <2>5, <2>6 DEF Story
<1>8. QED
  BY <1>1, <1>2, <1>3, <1>4, <1>5, <1>6, <1>7 DEF OneInv, Calm

(* The handset takes an I-frame of an established link, the next or one    *)
(* that it has: its RR or REJ says that all is heard.                      *)
LEMMA MobHears ==
  ASSUME OneInv, Typed, BtsUntouched, NEW f, Shortened(ToMs, ToMs'),
         ToMs[1].type = "I", Mob.state = "LinkEstablished",
         Lk' = Lk, Sent' = Sent, tx'[MS] = tx[MS], reached'[MS] = reached[MS],
         \/ /\ ToMs[1].ns = Mob.VR /\ Mob'.VR = NextSeq(Mob.VR)
            /\ Arrived' = IF ToMs[1].link = Lk THEN ToMs[1].n ELSE Arrived
            /\ Len(Kept') = Len(Kept) + 1 /\ Kept' # << >>
            /\ Kept'[1].link = IF Kept = << >> THEN ToMs[1].link ELSE Kept[1].link
         \/ /\ ToMs[1].ns # Mob.VR /\ Mob'.VR = Mob.VR /\ Arrived' = Arrived
            /\ Kept' = Kept,
         NextSeq(Mob.VR) # Mob.VR,
         Mob'.state = "LinkEstablished", Mob'.VS = 0, Mob'.VA = 0, Mob'.t200 = FALSE,
         WellFormed(Mob'.sentFrame), thr'[MS] = thr[MS],
         Ack(f) /\ ~f.pf /\ f.nr = Mob'.VR,
         ToBts' = ToBts \/ Extended(ToBts, ToBts', f)
  PROVE  OneInv'
<1>1. /\ BtsStation' /\ Multi' = Multi /\ Out' = Out /\ Begun' = Begun
  BY DEF OneInv, Calm, BtsStation, BtsUntouched, Multi, Out, Begun
<1>2. MobStation'
  BY DEF OneInv, Calm, MobStation
<1>3. /\ Arrived' = Arrived \/ Arrived' = Sent
      /\ Counts'
  <2>1. 1 \in DOMAIN ToMs /\ (ToMs[1].link = Lk => ToMs[1].n = Sent)
    BY DEF OneInv, Calm, AirToMs, Current, Shortened
  <2>2. QED
    BY <2>1 DEF OneInv, Calm, Counts
<1>4. AirToMs'
  BY DEF OneInv, Calm, AirToMs, Shortened
<1>5. WellFormed(f) /\ f.type # "I" /\ f.type # "idleFill" /\ f.type # "SABM"
  BY DEF WellFormed, Ack
<1>6. AirToBts'
  BY <1>5 DEF OneInv, Calm, AirToBts, Extended
<1>7. \A i \in DOMAIN ToBts' : Ack(ToBts'[i])
  BY DEF OneInv, Calm, Greeting, Extended
<1>8. Greeting' /\ Asked'
  BY <1>7 DEF OneInv, Calm, Greeting, Asked, Shortened, Ack
<1>9. ASSUME Multi PROVE Flow'
  <2>1. Flow /\ 1 \in DOMAIN ToMs
    BY <1>9 DEF OneInv, Shortened
  <2>2. /\ Current(ToMs[1], Lk) /\ Out /\ ToMs[1].ns = Bts.VA /\ ToMs[1].link = Lk
        /\ ToMs[1].n = Sent
        /\ \A j \in DOMAIN ToMs : Current(ToMs[j], Lk) => 1 = j
    BY <2>1 DEF Flow, Listener, OnAirToMs, Current, OneInv, Calm, AirToMs
  <2>3. /\ \A j \in DOMAIN ToMs' : FALSE
        /\ \A j \in DOMAIN ToBts : FALSE
    <3>1. ASSUME NEW j \in DOMAIN ToMs' PROVE FALSE
      BY <2>1, <2>2, <3>1 DEF Flow, Listener, Shortened
    <3>2. ASSUME NEW j \in DOMAIN ToBts PROVE FALSE
      BY <2>1, <2>2, <3>2 DEF Flow, OnAirToBts, OneInv, Calm, Greeting
    <3>3. QED
      BY <3>1, <3>2
  <2>4. Mob'.VR = Bts.VS /\ Arrived' = Sent
    <3>1. Bts.VS = NextSeq(Bts.VA)
      BY <2>1, <2>2 DEF Flow, Sender
    <3>2. \/ Mob.VR = Bts.VS /\ Sent = Arrived
          \/ Mob.VR = Bts.VA
      BY <2>1 DEF Flow, Listener
    <3>3. QED
      BY <2>2, <3>1, <3>2 DEF Out
  <2>5. Sender'
    BY <1>1, <2>1, <2>2 DEF Flow, Sender, BtsUntouched
  <2>6. OnAirToMs' /\ Listener'
    BY <2>3, <2>4 DEF OnAirToMs, Listener, BtsUntouched
  <2>7. OnAirToBts'
    BY <1>1, <2>2, <2>3, <2>4 DEF OnAirToBts, Extended, Ack, BtsUntouched
  <2>8. QED
    BY <2>5, <2>6, <2>7 DEF Flow
<1>10. Story'
  <2>1. Hearing /\ ToMs[1].link = Lk /\ ToMs[1].n = Sent
        /\ (ToMs[1].ns = Mob.VR <=> Len(Kept) + 1 = Sent)
    BY DEF OneInv, Calm, AirToMs, Current, Story, Hearing, Shortened
  <2>2. ASSUME ToMs[1].ns = Mob.VR PROVE Hearing'
    <3>1. /\ Mob'.VR = NextSeq(Mob.VR) /\ Len(Kept) + 1 = Sent /\ Arrived' = Sent
          /\ Len(Kept') = Sent /\ Kept' # << >> /\ Kept'[1].link = Lk
      BY <2>1, <2>2 DEF Hearing
    <3>2. \A j \in DOMAIN ToMs' : ToMs'[j].type = "I" =>
            ToMs'[j].link = Lk /\ ToMs'[j].ns = Mob.VR
      BY <2>1, <3>1 DEF Hearing, Shortened
    <3>3. Multi => Mob'.VR = Bts.VS
      <4>1. Multi => Flow /\ 1 \in DOMAIN ToMs
        BY DEF OneInv, Shortened
      <4>2. Multi => ToMs[1].ns = Bts.VA /\ Bts.VS = NextSeq(Bts.VA)
        BY <2>1, <4>1 DEF Flow, Sender, OnAirToMs, Current
      <4>3. QED
        BY <2>2, <3>1, <4>2
    <3>4. Sent \in Nat /\ Bts' = Bts
      BY DEF Typed, BtsUntouched
    <3>5. \A j \in DOMAIN ToMs' : ToMs'[j].type = "I" =>
            ToMs'[j].link = Lk' /\ (ToMs'[j].ns = Mob'.VR <=> Len(Kept') + 1 = Sent')
      BY <3>1, <3>2, <3>4
    <3>6. QED
      BY <1>1, <3>1, <3>3, <3>4, <3>5 DEF Hearing
  <2>3. ASSUME ToMs[1].ns # Mob.VR PROVE Hearing'
    <3>1. Mob'.VR = Mob.VR /\ Arrived' = Arrived /\ Kept' = Kept /\ Bts' = Bts
      BY <2>3 DEF BtsUntouched
    <3>2. \A j \in DOMAIN ToMs' : ToMs'[j].type = "I" =>
            ToMs'[j].link = Lk' /\ (ToMs'[j].ns = Mob'.VR <=> Len(Kept') + 1 = Sent')
      BY <2>1, <3>1 DEF Hearing, Shortened
    <3>3. QED
      BY <1>1, <2>1, <3>1, <3>2 DEF Hearing
  <2>4. Starting' /\ Young'
    BY <1>1 DEF OneInv, Story, Starting, Young, BtsUntouched
  <2>5. QED
    BY <2>2, <2>3, <2>4 DEF Story
<1>11. QED
  BY <1>1, <1>2, <1>3, <1>4, <1>6, <1>8, <1>9, <1>10 DEF OneInv, Calm

(* A SABM of the handset, the first or a repetition, goes out when nothing *)
(* is on the air.                                                          *)
LEMMA MobAsks ==
  ASSUME OneInv, Typed, BtsUntouched, SameCounts, NEW f, f.type = "SABM", f.pf,
         DOMAIN ToMs = {}, DOMAIN ToBts = {}, ToMs' = ToMs,
         ToBts' = ToBts \/ (Extended(ToBts, ToBts', f) /\ \A i \in DOMAIN ToBts' : i = 1),
         Mob'.state = "AwaitingEstablish", Mob'.VS = 0, Mob'.VA = 0,
         Mob'.sentFrame = f, thr'[MS].pc \in {"idle", "lockSABM"}
  PROVE  OneInv'
<1>1. /\ BtsStation' /\ Multi' = Multi /\ Out' = Out /\ Begun' = Begun
  BY DEF OneInv, Calm, BtsStation, BtsUntouched, Multi, Out, Begun, SameCounts
<1>2. WellFormed(f)
  BY DEF WellFormed
<1>3. MobStation' /\ Counts' /\ AirToMs'
  BY <1>2 DEF OneInv, Calm, MobStation, Counts, AirToMs, SameCounts
<1>4. \A i \in DOMAIN ToBts' : ToBts'[i] = f /\ i = 1
  BY DEF Extended
<1>5. AirToBts' /\ Greeting' /\ Asked'
  BY <1>2, <1>4 DEF AirToBts, Greeting, Asked
<1>6. ASSUME Flow PROVE Flow'
  BY <1>1, <1>4, <1>6 DEF Flow, Sender, OnAirToMs, OnAirToBts, Listener, Ack, SameCounts,
     BtsUntouched
<1>7. Story'
  BY <1>1 DEF OneInv, Story, Hearing, Starting, Young, SameCounts, BtsUntouched
<1>8. QED
  BY <1>1, <1>3, <1>5, <1>6, <1>7 DEF OneInv, Calm

(* The handset's DISC, the first or a repetition.                          *)
LEMMA MobLeaves ==
  ASSUME OneInv, Typed, BtsUntouched, SameCounts, NEW f, f.type = "DISC", f.pf,
         ToMs' = ToMs, ToBts' = ToBts \/ Extended(ToBts, ToBts', f),
         Mob'.state = "AwaitingRelease", Mob'.VS = 0, Mob'.VA = 0, Mob'.sentFrame = f,
         thr'[MS].pc = "release", Mob.state # "LinkReleased"
  PROVE  OneInv'
<1>1. /\ BtsStation' /\ Multi' = Multi /\ Out' = Out /\ Begun' = Begun
  BY DEF OneInv, Calm, BtsStation, BtsUntouched, Multi, Out, Begun, SameCounts
<1>2. WellFormed(f)
  BY DEF WellFormed
<1>3. MobStation' /\ Counts' /\ AirToMs'
  BY <1>2 DEF OneInv, Calm, MobStation, Counts, AirToMs, SameCounts
<1>4. AirToBts'
  BY <1>2 DEF OneInv, Calm, AirToBts, Extended
<1>5. Greeting'
  BY DEF Greeting
<1>6. Asked'
  BY DEF OneInv, Calm, Asked, BtsUntouched, Extended
<1>7. ASSUME Flow PROVE Flow'
  <2>1. Sender' /\ OnAirToMs' /\ Listener'
    BY <1>1, <1>7 DEF Flow, Sender, OnAirToMs, Listener, SameCounts, BtsUntouched
  <2>2. ~Ack(f)
    BY DEF Ack
  <2>3. OnAirToBts'
    BY <1>1, <1>7, <2>2 DEF Flow, OnAirToBts, Extended, SameCounts, BtsUntouched
  <2>4. QED
    BY <2>1, <2>3 DEF Flow
<1>8. Story'
  BY <1>1 DEF OneInv, Story, Hearing, Starting, Young, SameCounts, BtsUntouched
<1>9. QED
  BY <1>1, <1>3, <1>4, <1>5, <1>6, <1>7, <1>8 DEF OneInv, Calm
-----------------------------------------------------------------------------
(* How a step of one end shows in these terms.                             *)
Situation == TypeOK /\ AwaitingIsTimed /\ OneInv

LEMMA SituationTyped ==
  ASSUME TypeOK
  PROVE  /\ Typed /\ Bts \in Lap /\ Mob \in Lap /\ ToBts \in Seq(Frame) /\ ToMs \in Seq(Frame)
         /\ BTS \in E /\ MS \in E /\ BTS # MS /\ Peer(BTS) = MS /\ Peer(MS) = BTS
<1>1. BTS \in E /\ MS \in E /\ BTS # MS /\ Peer(BTS) = MS /\ Peer(MS) = BTS
  BY EntityAssumption DEF E, Peer
<1>2. Bts \in Lap /\ Mob \in Lap /\ ToBts \in Seq(Frame) /\ ToMs \in Seq(Frame)
  BY <1>1 DEF TypeOK, Bts, Mob, ToBts, ToMs
<1>3. Sent \in Nat /\ Arrived \in Nat /\ Lk \in Nat
  BY <1>1, BoundsAssumption DEF TypeOK, Sent, Arrived, Lk
<1>4. \A q \in Seq(Frame) : \A i \in DOMAIN q : i \in Nat \ {0} /\ q[i] \in Frame
  OBVIOUS
<1>5. \A f \in Frame : f.link \in Nat
  BY DEF Frame
<1>6. Bts.VS \in 0 .. Modulus - 1 /\ Bts.VA \in 0 .. Modulus - 1
  BY <1>2 DEF Lap
<1>7. QED
  BY <1>1, <1>2, <1>3, <1>4, <1>5, <1>6 DEF Typed

LEMMA TailShortens ==
  ASSUME NEW q \in Seq(Frame), q # << >>
  PROVE  Shortened(q, Tail(q)) /\ Head(q) = q[1] /\ Head(q) \in Frame
BY DEF Shortened

LEMMA PutExtends ==
  ASSUME NEW q \in Seq(Frame), NEW f \in Frame
  PROVE  /\ Put(q, << >>) = q
         /\ \/ Put(q, <<f>>) = q
            \/ /\ Extended(q, Put(q, <<f>>), f)
               /\ DOMAIN q = {} => \A i \in DOMAIN Put(q, <<f>>) : i = 1
<1>1. q \o << >> = q
  OBVIOUS
<1>2. Put(q, << >>) = q
  BY <1>1 DEF Put
<1>3. ASSUME Put(q, <<f>>) # q PROVE f.type # "idleFill" /\ Put(q, <<f>>) = Append(q, f)
  <2>1. q \o <<f>> = Append(q, f) /\ 1 \in DOMAIN <<f>> /\ <<f>>[1] = f
    OBVIOUS
  <2>2. QED
    BY <1>3, <2>1 DEF Put
<1>4. /\ \A i \in DOMAIN Append(q, f) :
           /\ i \in Nat \ {0}
           /\ \/ i \in DOMAIN q /\ Append(q, f)[i] = q[i]
              \/ i = Len(q) + 1 /\ Append(q, f)[i] = f
      /\ \A j \in DOMAIN q : j < Len(q) + 1 /\ j \in Nat
      /\ Len(q) \in Nat /\ Len(q) + 1 \notin DOMAIN q
      /\ DOMAIN q = {} => Len(q) = 0
  OBVIOUS
<1>5. Put(q, <<f>>) = Append(q, f) /\ f.type # "idleFill" =>
         /\ Extended(q, Put(q, <<f>>), f)
         /\ DOMAIN q = {} => \A i \in DOMAIN Put(q, <<f>>) : i = 1
  BY <1>4 DEF Extended
<1>6. QED
  BY <1>2, <1>3, <1>5

LEMMA AlikeFields ==
  ASSUME NEW r \in Lap
  PROVE  /\ Alike(r, Reread(r)) /\ Reread(r).inProgress = r.inProgress
         /\ ClearCounters(r) \in Lap /\ ReleaseLink(r) \in Lap
         /\ ClearCounters(r).state = r.state /\ ReleaseLink(r).state = "LinkReleased"
         /\ ClearCounters(r).inProgress = r.inProgress
         /\ \A c \in {ClearCounters(r), ReleaseLink(r)} :
              /\ c.VS = 0 /\ c.VA = 0 /\ c.VR = 0 /\ c.t200 = FALSE
              /\ c.sentFrame = r.sentFrame /\ c.recvBuffer = << >>
<1>1. Alike(r, Reread(r)) /\ Reread(r).inProgress = r.inProgress
  BY DEF Alike, Reread, Lap
<1>2. ClearCounters(r) \in Lap /\ ReleaseLink(r) \in Lap
  BY LapTypes
<1>3. /\ ClearCounters(r).state = r.state /\ ClearCounters(r).inProgress = r.inProgress
      /\ ClearCounters(r).VS = 0 /\ ClearCounters(r).VA = 0 /\ ClearCounters(r).VR = 0
      /\ ClearCounters(r).t200 = FALSE /\ ClearCounters(r).sentFrame = r.sentFrame
      /\ ClearCounters(r).recvBuffer = << >>
  BY DEF ClearCounters, Lap
<1> DEFINE c == ClearCounters(r)
<1>4. [c EXCEPT !.state = "LinkReleased", !.inProgress = FALSE] = ReleaseLink(r)
  BY DEF ReleaseLink
<1> HIDE DEF c
<1>5. \A x \in Lap : LET y == [x EXCEPT !.state = "LinkReleased", !.inProgress = FALSE]
                     IN  /\ y.state = "LinkReleased" /\ y.VS = x.VS /\ y.VA = x.VA
                         /\ y.VR = x.VR /\ y.t200 = x.t200 /\ y.sentFrame = x.sentFrame
                         /\ y.recvBuffer = x.recvBuffer
  BY DEF Lap
<1>6. /\ ReleaseLink(r).state = "LinkReleased" /\ ReleaseLink(r).VS = c.VS
      /\ ReleaseLink(r).VA = c.VA /\ ReleaseLink(r).VR = c.VR
      /\ ReleaseLink(r).t200 = c.t200 /\ ReleaseLink(r).sentFrame = c.sentFrame
      /\ ReleaseLink(r).recvBuffer = c.recvBuffer
  <2>1. c \in Lap
    BY <1>2 DEF c
  <2>2. QED
    BY <1>4, <1>5, <2>1
<1>7. QED
  BY <1>1, <1>2, <1>3, <1>6 DEF c

LEMMA ReactAtBts ==
  ASSUME Situation, NEW new \in Lap, NEW out, NEW ind, chan[BTS] # << >>,
         React(BTS, new, out, ind)
  PROVE  /\ Alike(new, Bts') /\ Bts'.inProgress = new.inProgress /\ MobUntouched
         /\ Shortened(ToBts, ToBts') /\ ToMs' = Put(ToMs, out) /\ thr' = thr
         /\ OnSameLink => SameCounts
<1>1. /\ Bts' = Reread(new) /\ Mob' = Mob /\ thr' = thr
      /\ ToBts' = Tail(ToBts) /\ ToMs' = Put(ToMs, out)
  BY SituationTyped DEF Situation, TypeOK, React, Bts, Mob, ToBts, ToMs
<1>2. ToBts # << >>
  BY DEF ToBts
<1>3. OnSameLink => SameCounts
  BY DEF OnSameLink, SameCounts, Lk, Sent, Arrived
<1>4. QED
  BY <1>1, <1>2, <1>3, SituationTyped, TailShortens, AlikeFields DEF Situation, MobUntouched

LEMMA ReactAtMs ==
  ASSUME Situation, NEW new \in Lap, NEW out, NEW ind, chan[MS] # << >>,
         React(MS, new, out, ind)
  PROVE  /\ Alike(new, Mob') /\ BtsUntouched
         /\ Shortened(ToMs, ToMs') /\ ToBts' = Put(ToBts, out) /\ thr' = thr
         /\ OnSameLink => SameCounts
<1>1. /\ Mob' = Reread(new) /\ Bts' = Bts /\ thr' = thr
      /\ ToMs' = Tail(ToMs) /\ ToBts' = Put(ToBts, out)
  BY SituationTyped DEF Situation, TypeOK, React, Bts, Mob, ToBts, ToMs
<1>2. ToMs # << >>
  BY DEF ToMs
<1>3. OnSameLink => SameCounts
  BY DEF OnSameLink, SameCounts, Lk, Sent, Arrived
<1>4. QED
  BY <1>1, <1>2, <1>3, SituationTyped, TailShortens, AlikeFields DEF Situation, BtsUntouched

LEMMA DownlinkAtBts ==
  ASSUME Situation, NEW new, NEW out, NEW belief, NEW next,
         Downlink(BTS, new, out, belief, next)
  PROVE  /\ Bts' = new /\ MobUntouched /\ ToBts' = ToBts /\ ToMs' = Put(ToMs, out)
         /\ thr'[BTS] = next /\ (OnSameLink => SameCounts)
<1>1. OnSameLink => SameCounts
  BY DEF OnSameLink, SameCounts, Lk, Sent, Arrived
<1>2. QED
  BY <1>1, SituationTyped
  DEF Situation, TypeOK, Downlink, Bts, Mob, ToBts, ToMs, MobUntouched

LEMMA DownlinkAtMs ==
  ASSUME Situation, NEW new, NEW out, NEW belief, NEW next,
         Downlink(MS, new, out, belief, next)
  PROVE  /\ Mob' = new /\ BtsUntouched /\ ToMs' = ToMs /\ ToBts' = Put(ToBts, out)
         /\ thr'[MS] = next /\ (OnSameLink => SameCounts)
<1>1. OnSameLink => SameCounts
  BY DEF OnSameLink, SameCounts, Lk, Sent, Arrived
<1>2. QED
  BY <1>1, SituationTyped
  DEF Situation, TypeOK, Downlink, Bts, Mob, ToBts, ToMs, BtsUntouched

LEMMA BtsTakes ==
  ASSUME Situation, NEW type, Arrives(BTS, type)
  PROVE  /\ chan[BTS] # << >> /\ 1 \in DOMAIN ToBts /\ Head(chan[BTS]) = ToBts[1]
         /\ ToBts[1].type = type /\ ToBts[1] \in Frame /\ WellFormed(ToBts[1])
<1>1. ToBts # << >> /\ ToBts \in Seq(Frame)
  BY SituationTyped DEF Situation, Arrives, ToBts
<1>2. 1 \in DOMAIN ToBts /\ Head(ToBts) = ToBts[1] /\ Head(ToBts) \in Frame
  BY <1>1, TailShortens DEF Shortened
<1>3. WellFormed(ToBts[1])
  BY <1>2 DEF Situation, OneInv, Calm, AirToBts
<1>4. QED
  BY <1>1, <1>2, <1>3 DEF Arrives, ToBts

LEMMA MobTakes ==
  ASSUME Situation, NEW type, Arrives(MS, type)
  PROVE  /\ chan[MS] # << >> /\ 1 \in DOMAIN ToMs /\ Head(chan[MS]) = ToMs[1]
         /\ ToMs[1].type = type /\ ToMs[1] \in Frame /\ WellFormed(ToMs[1])
         /\ type \in {"I", "UA", "DM", "DISC"}
<1>1. ToMs # << >> /\ ToMs \in Seq(Frame)
  BY SituationTyped DEF Situation, Arrives, ToMs
<1>2. 1 \in DOMAIN ToMs /\ Head(ToMs) = ToMs[1] /\ Head(ToMs) \in Frame
  BY <1>1, TailShortens DEF Shortened
<1>3. WellFormed(ToMs[1]) /\ ToMs[1].type \in {"I", "UA", "DM", "DISC"}
  BY <1>2 DEF Situation, OneInv, Calm, AirToMs
<1>4. QED
  BY <1>1, <1>2, <1>3 DEF Arrives, ToMs

(* What an answer is.                                                      *)
LEMMA ResponseFields ==
  ASSUME NEW e \in E, NEW type \in FrameType, NEW p \in BOOLEAN
  PROVE  /\ Response(e, type, p) \in Frame /\ Response(e, type, p).type = type
         /\ Response(e, type, p).pf = p
<1>1. 0 \in 0 .. Modulus - 1
  BY BoundsAssumption
<1>2. Response(e, type, p) \in Frame /\ Response(e, type, p).type = type
  BY <1>1, FrameTypes
<1>3. Response(e, type, p).pf = p
  BY BlankType DEF Response, Frame
<1>4. QED
  BY <1>2, <1>3

LEMMA UAFrame ==
  ASSUME NEW e \in E, NEW f \in Frame
  PROVE  \E g \in Frame : UA(e, f) = <<g>> /\ g.type = "UA" /\ g.pf = f.pf
<1> DEFINE r == Response(e, "UA", f.pf)
<1>1. f.pf \in BOOLEAN /\ f.info \in SabmInfo \cup {0}
  BY DEF Frame
<1>2. r \in Frame /\ r.type = "UA" /\ r.pf = f.pf
  BY <1>1, ResponseFields DEF FrameType
<1>3. UA(e, f) = <<[r EXCEPT !.info = f.info]>>
  BY DEF UA
<1> HIDE DEF r
<1>4. [r EXCEPT !.info = f.info] \in Frame /\ [r EXCEPT !.info = f.info].type = "UA"
      /\ [r EXCEPT !.info = f.info].pf = f.pf
  BY <1>1, <1>2 DEF Frame
<1>5. QED
  BY <1>3, <1>4

LEMMA DMFrame ==
  ASSUME NEW e \in E, NEW b \in BOOLEAN
  PROVE  \E g \in Frame : DM(e, b) = <<g>> /\ g.type = "DM"
BY ResponseFields DEF DM, FrameType

LEMMA SupervisoryFrame ==
  ASSUME NEW e \in E, NEW type \in {"RR", "REJ"}, NEW b \in BOOLEAN,
         NEW vr \in 0 .. Modulus - 1
  PROVE  LET g == Supervisory(e, type, b, vr)
         IN  g \in Frame /\ g.type = type /\ g.pf = b /\ g.nr = vr
<1> DEFINE r == Response(e, type, b)
<1>1. r \in Frame /\ r.type = type /\ r.pf = b
  BY ResponseFields DEF FrameType
<1>2. Supervisory(e, type, b, vr) = [r EXCEPT !.nr = vr]
  BY DEF Supervisory
<1> HIDE DEF r
<1>3. [r EXCEPT !.nr = vr] \in Frame /\ [r EXCEPT !.nr = vr].type = type
      /\ [r EXCEPT !.nr = vr].pf = b /\ [r EXCEPT !.nr = vr].nr = vr
  BY <1>1 DEF Frame
<1>4. QED
  BY <1>2, <1>3

(* The three ways in which a frame ends at the BTS without serving a link. *)
LEMMA BtsIgnores ==
  ASSUME Situation, Ignore(BTS), OnSameLink, chan[BTS] # << >>
  PROVE  OneInv'
<1>1. Bts \in Lap /\ ToMs \in Seq(Frame) /\ Typed /\ \E f : f \in Frame
  BY SituationTyped, BlankType DEF Situation
<1>2. /\ Alike(Bts, Bts') /\ Bts'.inProgress = Bts.inProgress /\ MobUntouched
      /\ Shortened(ToBts, ToBts') /\ ToMs' = Put(ToMs, << >>) /\ thr' = thr /\ SameCounts
  BY <1>1, ReactAtBts DEF Ignore, Bts
<1>3. ToMs' = ToMs
  BY <1>1, <1>2, PutExtends
<1>4. thr'[BTS].pc # "lockSABM"
  BY <1>2 DEF Situation, OneInv, Calm, BtsStation
<1>5. QED
  BY <1>1, <1>2, <1>3, <1>4, BtsIsIdle DEF Situation

LEMMA BtsReleases ==
  ASSUME Situation, NEW r \in Lap, NEW out, NEW ind, chan[BTS] # << >>, OnSameLink,
         React(BTS, r, out, ind), r.state = "LinkReleased", r.VR = 0,
         r.sentFrame = Bts.sentFrame,
         \/ out = << >>
         \/ /\ ~Ack(ToBts[1])
            /\ \E f \in Frame : out = <<f>> /\ Answer(f) /\ (f.type = "UA" => f.pf /\ ToBts[1].type = "DISC")
  PROVE  OneInv'
<1>1. ToMs \in Seq(Frame) /\ Typed
  BY SituationTyped DEF Situation
<1>2. /\ Alike(r, Bts') /\ MobUntouched
      /\ Shortened(ToBts, ToBts') /\ ToMs' = Put(ToMs, out) /\ thr' = thr /\ SameCounts
  BY ReactAtBts
<1>3. /\ thr'[BTS].pc # "lockSABM" /\ WellFormed(Bts'.sentFrame)
      /\ Bts'.state = "LinkReleased" /\ Bts'.VR = 0
  BY <1>2 DEF Situation, OneInv, Calm, BtsStation, Alike
<1>4. CASE out = << >>
  <2>1. ToMs' = ToMs
    BY <1>1, <1>2, <1>4, PutExtends, BlankType
  <2>2. QED
    BY <1>1, <1>2, <1>3, <2>1, BtsIsOut DEF Situation
<1>5. ASSUME NEW f \in Frame, out = <<f>>, Answer(f), f.type = "UA" => f.pf /\ ToBts[1].type = "DISC", ~Ack(ToBts[1])
      PROVE  OneInv'
  <2>1. ToMs' = ToMs \/ Extended(ToMs, ToMs', f)
    BY <1>1, <1>2, <1>5, PutExtends
  <2>2. QED
    BY <1>1, <1>2, <1>3, <1>5, <2>1, BtsIsOut DEF Situation
<1>6. QED
  BY <1>4, <1>5

LEMMA BtsRejects ==
  ASSUME Situation, Unexpected(BTS), OnSameLink, chan[BTS] # << >>, ~Ack(ToBts[1])
  PROVE  OneInv'
<1>1. Bts \in Lap /\ BTS \in E
  BY SituationTyped DEF Situation
<1>2. \E g \in Frame : DM(BTS, TRUE) = <<g>> /\ g.type = "DM"
  BY <1>1, DMFrame
<1>3. /\ ReleaseLink(Bts) \in Lap /\ ReleaseLink(Bts).state = "LinkReleased"
      /\ ReleaseLink(Bts).VR = 0 /\ ReleaseLink(Bts).sentFrame = Bts.sentFrame
  BY <1>1, AlikeFields
<1>4. React(BTS, ReleaseLink(Bts), DM(BTS, TRUE), "MDL_ERROR_INDICATION")
  BY DEF Unexpected, Bts
<1>5. \E f \in Frame : DM(BTS, TRUE) = <<f>> /\ Answer(f) /\ (f.type = "UA" => f.pf /\ ToBts[1].type = "DISC")
  BY <1>2 DEF Answer
<1>6. QED
  BY <1>3, <1>4, <1>5, BtsReleases

LEMMA BtsOutOfMultiframe ==
  ASSUME Situation, OutOfMultiframe(BTS), OnSameLink, chan[BTS] # << >>
  PROVE  OneInv'
<1> DEFINE new == [Bts EXCEPT !.inProgress = FALSE]
<1>1. Bts \in Lap /\ ToMs \in Seq(Frame) /\ Typed
  BY SituationTyped DEF Situation
<1>2. new \in Lap /\ Alike(Bts, new)
  BY <1>1 DEF Lap, Alike
<1>3. React(BTS, new, << >>, "none") /\ ~InMultiframe(Bts)
  BY DEF OutOfMultiframe, Bts
<1> HIDE DEF new
<1>4. /\ Alike(new, Bts') /\ MobUntouched
      /\ Shortened(ToBts, ToBts') /\ ToMs' = Put(ToMs, << >>) /\ thr' = thr /\ SameCounts
  BY <1>2, <1>3, ReactAtBts
<1>5. ToMs' = ToMs
  BY <1>1, <1>4, PutExtends, BlankType
<1>6. Bts.state \in {"LinkReleased", "AwaitingRelease"}
  BY <1>1, <1>3 DEF Situation, OneInv, Calm, BtsStation, InMultiframe, Lap, LAPDState
<1>7. /\ thr'[BTS].pc # "lockSABM" /\ WellFormed(Bts'.sentFrame)
      /\ Bts'.state \in {"LinkReleased", "AwaitingRelease"} /\ Bts'.VR = 0
      /\ Bts'.state = "AwaitingRelease" =>
           thr'[BTS].pc = "release" /\ Bts'.sentFrame.type = "DISC"
  BY <1>2, <1>4, <1>6 DEF Situation, OneInv, Calm, BtsStation, Alike
<1>8. QED
  BY <1>1, <1>4, <1>5, <1>7, BtsIsOut DEF Situation

(* A SABM while the BTS waits for the answer to its DISC.                  *)
LEMMA BtsRefuses ==
  ASSUME Situation, NEW g \in Frame, g.type = "DM", Bts.state = "AwaitingRelease",
         Alike(Bts, Bts'), thr' = thr, MobUntouched, SameCounts, ~Ack(ToBts[1]),
         Shortened(ToBts, ToBts'), ToMs' = ToMs \/ Extended(ToMs, ToMs', g)
  PROVE  OneInv'
<1>1. Typed /\ OneInv /\ Answer(g) /\ (g.type = "UA" => g.pf /\ ToBts[1].type = "DISC")
  BY SituationTyped DEF Situation, Answer
<1>2. /\ Bts'.state \in {"LinkReleased", "AwaitingRelease"} /\ Bts'.VR = 0
      /\ thr'[BTS].pc = "release" /\ WellFormed(Bts'.sentFrame)
      /\ Bts'.sentFrame.type = "DISC"
  BY DEF Alike, Situation, OneInv, Calm, BtsStation
<1>3. QED
  BY <1>1, <1>2, BtsIsOut
-----------------------------------------------------------------------------
(* One lemma per handler of the BTS.                                       *)
LEMMA BtsPhConnectOne ==
  ASSUME Situation, ReceivePhConnect(BTS) PROVE OneInv'
<1> DEFINE c == ClearCounters(Bts)
           r == [c EXCEPT !.state = "LinkReleased"]
<1>1. chan[BTS] # << >> /\ Bts \in Lap
  BY BtsTakes, SituationTyped DEF ReceivePhConnect, Situation
<1>2. c \in Lap /\ c.VR = 0 /\ c.sentFrame = Bts.sentFrame
  BY <1>1, AlikeFields
<1> HIDE DEF c
<1>3. r \in Lap /\ r.state = "LinkReleased" /\ r.VR = 0 /\ r.sentFrame = Bts.sentFrame
  BY <1>2 DEF Lap, LAPDState
<1>4. React(BTS, r, << >>, "none") /\ OnSameLink
  BY DEF ReceivePhConnect, Bts, c
<1> HIDE DEF r
<1>5. QED
  BY <1>1, <1>3, <1>4, BtsReleases

LEMMA BtsSABMOne ==
  ASSUME Situation, ReceiveSABM(BTS) PROVE OneInv'
<1> DEFINE f == ToBts[1]
           c == ClearCounters(Bts)
           ContentionLap == [c EXCEPT !.state = "ContentionResolution",
                               !.inProgress = TRUE, !.contentionCheck = f.info]
           PlainLap == [c EXCEPT !.state = "LinkEstablished", !.inProgress = TRUE]
           AgreedLap == [Bts EXCEPT !.state = "LinkEstablished"]
<1>1. /\ chan[BTS] # << >> /\ f \in Frame /\ f.type = "SABM" /\ Head(chan[BTS]) = f
      /\ f.pf /\ ~Ack(f) /\ 1 \in DOMAIN ToBts
  BY BtsTakes DEF ReceiveSABM, WellFormed, Ack
<1>2. /\ Bts \in Lap /\ Mob \in Lap /\ ToMs \in Seq(Frame) /\ Typed /\ BTS \in E /\ MS \in E
      /\ BTS # MS
  BY SituationTyped DEF Situation
<1>3. /\ c \in Lap /\ c.VS = 0 /\ c.VA = 0 /\ c.VR = 0 /\ c.t200 = FALSE
      /\ c.sentFrame = Bts.sentFrame /\ c.state = Bts.state
  BY <1>2, AlikeFields
<1>4. /\ f.info \in SabmInfo \cup {0}
      /\ \E g \in Frame : UA(BTS, f) = <<g>> /\ g.type = "UA" /\ g.pf
      /\ \E g \in Frame : DM(BTS, TRUE) = <<g>> /\ g.type = "DM"
  <2> HIDE DEF f
  <2>1. f.info \in SabmInfo \cup {0}
    BY <1>1 DEF Frame
  <2>2. \E g \in Frame : UA(BTS, f) = <<g>> /\ g.type = "UA" /\ g.pf = f.pf
    BY <1>1, <1>2, UAFrame
  <2>3. \E g \in Frame : DM(BTS, TRUE) = <<g>> /\ g.type = "DM"
    BY <1>2, DMFrame
  <2>4. QED
    BY <1>1, <2>1, <2>2, <2>3
<1> HIDE DEF c, f
<1>5. Bts.state # "AwaitingEstablish" /\ thr[BTS].pc # "lockSABM" /\ Bts.VR = 0
      /\ WellFormed(Bts.sentFrame)
  BY DEF Situation, OneInv, Calm, BtsStation
<1>6. ASSUME NEW r \in Lap, NEW ind, OnNewLink(BTS), React(BTS, r, UA(BTS, f), ind),
             Bts.state # "AwaitingRelease",
             r.state \in {"LinkEstablished", "ContentionResolution"},
             r.state = "ContentionResolution" => r.inProgress,
             r.VS = 0, r.VA = 0, r.VR = 0, r.t200 = FALSE, r.sentFrame = Bts.sentFrame
      PROVE  OneInv'
  <2>1. /\ Alike(r, Bts') /\ Bts'.inProgress = r.inProgress /\ MobUntouched
        /\ Shortened(ToBts, ToBts') /\ ToMs' = Put(ToMs, UA(BTS, f)) /\ thr' = thr
    BY <1>1, <1>6, ReactAtBts
  <2>2. PICK g \in Frame : UA(BTS, f) = <<g>> /\ g.type = "UA" /\ g.pf
    BY <1>4
  <2>3. ToMs' = ToMs \/ Extended(ToMs, ToMs', g)
    BY <1>2, <2>1, <2>2, PutExtends
  <2>4. /\ Lk' = Lk + 1 /\ Sent' = 0 /\ Arrived' = 0 /\ tx'[MS] = tx[MS]
        /\ reached'[MS] = reached[MS] /\ delivered'[MS] = delivered[MS]
    BY <1>2, <1>6 DEF OnNewLink, Situation, TypeOK, Lk, Sent, Arrived
  <2>5. /\ Bts'.state \in {"LinkEstablished", "ContentionResolution"}
        /\ Bts'.state = "ContentionResolution" => Bts'.inProgress
        /\ Bts'.VS = 0 /\ Bts'.VA = 0 /\ Bts'.VR = 0 /\ Bts'.t200 = FALSE
        /\ WellFormed(Bts'.sentFrame) /\ thr'[BTS].pc # "lockSABM"
    BY <1>5, <1>6, <2>1 DEF Alike
  <2>6. ToBts[1].type = "SABM"
    BY <1>1 DEF f
  <2>7. QED
    BY <1>2, <1>6, <2>1, <2>2, <2>3, <2>4, <2>5, <2>6, BtsBegins DEF Situation
<1>7. ASSUME NEW r \in Lap, OnSameLink, React(BTS, r, UA(BTS, f), "none"), Multi,
             Bts.inProgress, r.state = "LinkEstablished", r.VS = Bts.VS, r.VA = Bts.VA,
             r.VR = Bts.VR, r.t200 = Bts.t200, r.inProgress = Bts.inProgress,
             r.sentFrame = Bts.sentFrame
      PROVE  OneInv'
  <2>1. /\ Alike(r, Bts') /\ Bts'.inProgress = r.inProgress /\ MobUntouched /\ SameCounts
        /\ Shortened(ToBts, ToBts') /\ ToMs' = Put(ToMs, UA(BTS, f)) /\ thr' = thr
    BY <1>1, <1>7, ReactAtBts
  <2>2. PICK g \in Frame : UA(BTS, f) = <<g>> /\ g.type = "UA" /\ g.pf
    BY <1>4
  <2>3. ToMs' = ToMs \/ Extended(ToMs, ToMs', g)
    BY <1>2, <2>1, <2>2, PutExtends
  <2>4. /\ Bts'.state = "LinkEstablished" /\ Bts'.VS = Bts.VS /\ Bts'.VA = Bts.VA
        /\ Bts'.VR = Bts.VR /\ Bts'.t200 = Bts.t200 /\ Bts'.inProgress = Bts.inProgress
        /\ Bts'.sentFrame = Bts.sentFrame /\ thr'[BTS] = thr[BTS]
    BY <1>7, <2>1 DEF Alike
  <2>5. ToBts[1].type = "SABM"
    BY <1>1 DEF f
  <2>6. QED
    BY <1>2, <1>7, <2>1, <2>2, <2>3, <2>4, <2>5, BtsAnswersAgain DEF Situation
<1>8. CASE Ignore(BTS) /\ OnSameLink
  BY <1>1, <1>8, BtsIgnores
<1>9. CASE Unexpected(BTS) /\ OnSameLink
  BY <1>1, <1>9, BtsRejects DEF f
<1>10. ASSUME Bts.state = "LinkReleased", OnNewLink(BTS),
              React(BTS, ContentionLap, UA(BTS, f), "L3_ESTABLISH_INDICATION"), f.info # 0
       PROVE  OneInv'
  <2>1. /\ ContentionLap \in Lap /\ ContentionLap.state = "ContentionResolution"
        /\ ContentionLap.VS = 0 /\ ContentionLap.VA = 0 /\ ContentionLap.VR = 0
        /\ ContentionLap.t200 = FALSE /\ ContentionLap.sentFrame = Bts.sentFrame
        /\ ContentionLap.inProgress
    BY <1>3, <1>4 DEF Lap, LAPDState
  <2> HIDE DEF ContentionLap
  <2>2. QED
    BY <1>6, <1>10, <2>1
<1>11. ASSUME Bts.state = "LinkReleased", OnNewLink(BTS),
              React(BTS, PlainLap, UA(BTS, f), "L3_ESTABLISH_INDICATION")
       PROVE  OneInv'
  <2>1. /\ PlainLap \in Lap /\ PlainLap.state = "LinkEstablished"
        /\ PlainLap.VS = 0 /\ PlainLap.VA = 0 /\ PlainLap.VR = 0
        /\ PlainLap.t200 = FALSE /\ PlainLap.sentFrame = Bts.sentFrame
    BY <1>3 DEF Lap, LAPDState
  <2> HIDE DEF PlainLap
  <2>2. QED
    BY <1>6, <1>11, <2>1
<1>12. ASSUME Bts.state = "LinkEstablished", OnNewLink(BTS), React(BTS, c, UA(BTS, f), "none")
       PROVE  OneInv'
  BY <1>3, <1>6, <1>12
<1>13. ASSUME Bts.state = "ContentionResolution", OnSameLink,
              React(BTS, AgreedLap, UA(BTS, f), "none")
       PROVE  OneInv'
  <2>1. /\ AgreedLap \in Lap /\ AgreedLap.state = "LinkEstablished"
        /\ AgreedLap.VS = Bts.VS /\ AgreedLap.VA = Bts.VA /\ AgreedLap.VR = Bts.VR
        /\ AgreedLap.t200 = Bts.t200 /\ AgreedLap.inProgress = Bts.inProgress
        /\ AgreedLap.sentFrame = Bts.sentFrame
    BY <1>2 DEF Lap, LAPDState
  <2>2. Multi /\ Bts.inProgress
    BY <1>13 DEF Multi, Situation, OneInv, Flow, Sender
  <2> HIDE DEF AgreedLap
  <2>3. QED
    BY <1>7, <1>13, <2>1, <2>2
<1>14. ASSUME Bts.state = "LinkEstablished", Bts.inProgress, OnSameLink,
              React(BTS, Bts, UA(BTS, f), "none")
       PROVE  OneInv'
  <2>1. Multi
    BY <1>14 DEF Multi
  <2>2. QED
    BY <1>2, <1>7, <1>14, <2>1
<1>15. ASSUME Bts.state = "AwaitingRelease", OnSameLink, React(BTS, Bts, DM(BTS, TRUE), "none")
       PROVE  OneInv'
  <2>1. /\ Alike(Bts, Bts') /\ MobUntouched /\ SameCounts
        /\ Shortened(ToBts, ToBts') /\ ToMs' = Put(ToMs, DM(BTS, TRUE)) /\ thr' = thr
    BY <1>1, <1>2, <1>15, ReactAtBts
  <2>2. PICK g \in Frame : DM(BTS, TRUE) = <<g>> /\ g.type = "DM"
    BY <1>4
  <2>3. ToMs' = ToMs \/ Extended(ToMs, ToMs', g)
    BY <1>2, <2>1, <2>2, PutExtends
  <2>4. ~Ack(ToBts[1])
    BY <1>1 DEF f
  <2>5. QED
    BY <1>15, <2>1, <2>2, <2>3, <2>4, BtsRefuses
<1>16. QED
  BY <1>1, <1>5, <1>8, <1>9, <1>10, <1>11, <1>12, <1>13, <1>14, <1>15
  DEF ReceiveSABM, State, Bts, c


LEMMA BtsDISCOne ==
  ASSUME Situation, ReceiveDISC(BTS) PROVE OneInv'
<1> DEFINE f == ToBts[1]
           r == ReleaseLink(Bts)
<1>1. /\ chan[BTS] # << >> /\ f \in Frame /\ f.type = "DISC" /\ Head(chan[BTS]) = f
      /\ f.pf /\ ~Ack(f) /\ ToBts[1].type = "DISC"
  BY BtsTakes DEF ReceiveDISC, WellFormed, Ack
<1>2. Bts \in Lap /\ BTS \in E
  BY SituationTyped DEF Situation
<1>3. r \in Lap /\ r.state = "LinkReleased" /\ r.VR = 0 /\ r.sentFrame = Bts.sentFrame
  BY <1>2, AlikeFields
<1> HIDE DEF f, r
<1>4. \E g \in Frame : UA(BTS, f) = <<g>> /\ Answer(g) /\ (g.type = "UA" => g.pf /\ ToBts[1].type = "DISC")
  BY <1>1, <1>2, UAFrame DEF Answer
<1>5. \E g \in Frame : DM(BTS, f.pf) = <<g>> /\ Answer(g) /\ (g.type = "UA" => g.pf /\ ToBts[1].type = "DISC")
  <2>1. f.pf \in BOOLEAN
    BY <1>1 DEF Frame
  <2>2. QED
    BY <1>2, <2>1, DMFrame DEF Answer
<1>6. ASSUME NEW out, NEW ind, React(BTS, r, out, ind),
             out \in {<< >>, UA(BTS, f), DM(BTS, f.pf)}
      PROVE  OneInv'
  <2>1. ~Ack(ToBts[1]) /\ OnSameLink
    BY <1>1 DEF f, ReceiveDISC
  <2>2. QED
    BY <1>1, <1>3, <1>4, <1>5, <1>6, <2>1, BtsReleases
<1>7. QED
  BY <1>1, <1>6 DEF ReceiveDISC, Bts, r

LEMMA BtsUAOne ==
  ASSUME Situation, ReceiveUA(BTS) PROVE OneInv'
<1> DEFINE r == ReleaseLink(Bts)
<1>1. /\ chan[BTS] # << >> /\ ToBts[1].type = "UA" /\ Head(chan[BTS]) = ToBts[1]
      /\ ToBts[1].pf /\ ~Ack(ToBts[1])
  BY BtsTakes DEF ReceiveUA, WellFormed, Ack
<1>2. Bts \in Lap /\ Bts.state # "AwaitingEstablish"
  BY SituationTyped DEF Situation, OneInv, Calm, BtsStation
<1>3. r \in Lap /\ r.state = "LinkReleased" /\ r.VR = 0 /\ r.sentFrame = Bts.sentFrame
  BY <1>2, AlikeFields
<1> HIDE DEF r
<1>4. CASE React(BTS, r, << >>, "L3_RELEASE_CONFIRM") /\ OnSameLink
  BY <1>1, <1>3, <1>4, BtsReleases
<1>5. CASE Ignore(BTS) /\ OnSameLink
  BY <1>1, <1>5, BtsIgnores
<1>6. CASE Unexpected(BTS) /\ OnSameLink
  BY <1>1, <1>6, BtsRejects
<1>7. QED
  BY <1>1, <1>2, <1>4, <1>5, <1>6 DEF ReceiveUA, Bts, State, r

LEMMA BtsDMOne ==
  ASSUME Situation, ReceiveDM(BTS) PROVE OneInv'
<1> DEFINE r == ReleaseLink(Bts)
<1>1. /\ chan[BTS] # << >> /\ ToBts[1].type = "DM" /\ 1 \in DOMAIN ToBts
  BY BtsTakes DEF ReceiveDM
<1>2. Bts \in Lap /\ Bts.state # "AwaitingEstablish"
  BY SituationTyped DEF Situation, OneInv, Calm, BtsStation
<1>3. ~Multi
  BY <1>1 DEF Situation, OneInv, Flow, OnAirToBts
<1>4. r \in Lap /\ r.state = "LinkReleased" /\ r.VR = 0 /\ r.sentFrame = Bts.sentFrame
  BY <1>2, AlikeFields
<1> HIDE DEF r
<1>5. CASE React(BTS, r, << >>, "L3_RELEASE_CONFIRM") /\ OnSameLink
  BY <1>1, <1>4, <1>5, BtsReleases
<1>6. CASE Ignore(BTS) /\ OnSameLink
  BY <1>1, <1>6, BtsIgnores
<1>7. QED
  BY <1>2, <1>3, <1>5, <1>6 DEF ReceiveDM, Bts, State, r, Multi, InMultiframe

(* What an acknowledgement of NR makes of an entity in multiframe mode.    *)
LEMMA AckFields ==
  ASSUME NEW r \in Lap, NEW nr \in 0 .. Modulus - 1
  PROVE  LET a == ProcessAck(Confirmed(r), nr)
         IN  /\ a \in Lap /\ a.state = "LinkEstablished" /\ a.inProgress = FALSE
             /\ a.VS = r.VS /\ a.VA = nr /\ a.VR = r.VR /\ a.sentFrame = r.sentFrame
             /\ a.t200 = IF nr = r.VS THEN FALSE ELSE r.t200
             /\ a.recvBuffer = r.recvBuffer
<1> DEFINE c == Confirmed(r)
<1>1. c \in Lap /\ c.state = "LinkEstablished" /\ c.inProgress = FALSE
      /\ c.VS = r.VS /\ c.VA = r.VA /\ c.VR = r.VR /\ c.sentFrame = r.sentFrame
      /\ c.t200 = r.t200 /\ c.recvBuffer = r.recvBuffer
  <2>1. c \in Lap
    BY LapTypes
  <2>2. QED
    BY <2>1 DEF Confirmed, Lap
<1> HIDE DEF c
<1>2. ProcessAck(c, nr) \in Lap
  BY <1>1, LapTypes
<1>3. LET a == ProcessAck(c, nr)
      IN  /\ a.state = c.state /\ a.inProgress = c.inProgress
          /\ a.VS = c.VS /\ a.VA = nr /\ a.VR = c.VR /\ a.sentFrame = c.sentFrame
          /\ a.t200 = IF nr = c.VS THEN FALSE ELSE c.t200
          /\ a.recvBuffer = c.recvBuffer
  <2>1. CASE nr = c.VS
    BY <1>1, <2>1 DEF ProcessAck, Lap
  <2>2. CASE nr # c.VS
    BY <1>1, <2>2 DEF ProcessAck, Lap
  <2>3. QED
    BY <2>1, <2>2
<1>4. QED
  BY <1>1, <1>2, <1>3 DEF c

LEMMA BtsAckOne ==
  ASSUME Situation, ReceiveRR(BTS) \/ ReceiveREJ(BTS) PROVE OneInv'
<1> DEFINE f == ToBts[1]
           new == ProcessAck(Confirmed(Bts), f.nr)
<1>1. /\ chan[BTS] # << >> /\ f \in Frame /\ f.type \in {"RR", "REJ"} /\ Ack(f)
      /\ Head(chan[BTS]) = f /\ ~f.pf /\ 1 \in DOMAIN ToBts
  BY BtsTakes DEF ReceiveRR, ReceiveREJ, WellFormed, Ack
<1>2. Bts \in Lap /\ ToMs \in Seq(Frame) /\ Typed /\ f.nr \in 0 .. Modulus - 1
  BY <1>1, SituationTyped DEF Situation, Frame
<1>3. /\ new \in Lap /\ new.state = "LinkEstablished" /\ new.inProgress = FALSE
      /\ new.VS = Bts.VS /\ new.VA = f.nr /\ new.VR = Bts.VR
      /\ new.sentFrame = Bts.sentFrame
      /\ new.t200 = IF f.nr = Bts.VS THEN FALSE ELSE Bts.t200
  BY <1>2, AckFields
<1> HIDE DEF f, new
<1>4. CASE OutOfMultiframe(BTS)
  BY <1>1, <1>4, BtsOutOfMultiframe DEF ReceiveRR, ReceiveREJ
<1>5. CASE InMultiframe(Bts) /\ React(BTS, new, << >>, "none")
  <2>1. Multi /\ OnSameLink
    BY <1>5 DEF Multi, InMultiframe, ReceiveRR, ReceiveREJ
  <2>2. /\ Alike(new, Bts') /\ Bts'.inProgress = new.inProgress /\ MobUntouched /\ SameCounts
        /\ Shortened(ToBts, ToBts') /\ ToMs' = Put(ToMs, << >>) /\ thr' = thr
    BY <1>1, <1>3, <1>5, <2>1, ReactAtBts
  <2>3. ToMs' = ToMs
    BY <1>2, <2>2, PutExtends, BlankType
  <2>4. f.nr = Bts.VS
    BY <1>1, <2>1 DEF Situation, OneInv, Flow, OnAirToBts, f
  <2>5. /\ Bts'.state = "LinkEstablished" /\ Bts'.VS = Bts.VS /\ Bts'.VA = Bts.VS
        /\ Bts'.VR = Bts.VR /\ Bts'.t200 = FALSE /\ Bts'.inProgress = FALSE
        /\ Bts'.sentFrame = Bts.sentFrame /\ thr'[BTS] = thr[BTS]
    BY <1>3, <2>2, <2>4 DEF Alike
  <2>6. Ack(ToBts[1])
    BY <1>1 DEF f
  <2>7. QED
    BY <1>2, <2>1, <2>2, <2>3, <2>5, <2>6, BtsIsAcked DEF Situation
<1>6. QED
  BY <1>1, <1>4, <1>5 DEF ReceiveRR, ReceiveREJ, Bts, new, f

LEMMA BtsReceivesOne ==
  ASSUME Situation, Receive(BTS) PROVE OneInv'
<1>1. ~ReceiveI(BTS)
  <2>1. Arrives(BTS, "I") => FALSE
    BY BtsTakes DEF Situation, OneInv, Calm, AirToBts
  <2>2. QED
    BY <2>1 DEF ReceiveI
<1>2. QED
  BY <1>1, BtsPhConnectOne, BtsSABMOne, BtsDISCOne, BtsUAOne, BtsDMOne, BtsAckOne DEF Receive
-----------------------------------------------------------------------------
(* The hypotheses under which the BTS sends and a handset listens: one end *)
(* asks for links, the other sends data and may drop one; frames keep to   *)
(* the radio's round trip.                                                 *)
OneWay == /\ PromptRadio /\ QuietStart
          /\ Initiators \subseteq {MS} /\ Writers \subseteq {BTS}
          /\ MS \notin HardReleasers /\ Strays = {}

LEMMA QuietAir ==
  ASSUME Situation, chan = [d \in E |-> << >>]
  PROVE  DOMAIN ToBts = {} /\ DOMAIN ToMs = {}
BY SituationTyped DEF Situation, ToBts, ToMs

LEMMA BtsTimerOne ==
  ASSUME Situation, OneWay, T200Expiration(BTS) PROVE OneInv'
<1> DEFINE r == ReleaseLink(Bts)
           s == RetransmissionProcedure(Bts)
           f == Bts.sentFrame
<1>1. /\ Bts \in Lap /\ ToMs \in Seq(Frame) /\ Typed /\ BTS \in E /\ MS \in E /\ BTS # MS
      /\ Peer(BTS) = MS
  BY SituationTyped DEF Situation
<1>2. /\ Bts.t200 /\ DOMAIN ToBts = {} /\ DOMAIN ToMs = {} /\ OnSameLink /\ thr' = thr
  BY QuietAir DEF OneWay, T200Expiration, Bts
<1>3. SameCounts
  BY <1>2 DEF OnSameLink, SameCounts, Lk, Sent, Arrived
<1>4. r \in Lap /\ r.state = "LinkReleased" /\ r.VR = 0 /\ r.sentFrame = Bts.sentFrame
  BY <1>1, AlikeFields
<1>5. /\ Bts.state # "AwaitingEstablish" /\ thr[BTS].pc # "lockSABM" /\ Bts.VR = 0
      /\ WellFormed(Bts.sentFrame)
      /\ Bts.state = "AwaitingRelease" => thr[BTS].pc = "release" /\ Bts.sentFrame.type = "DISC"
  BY DEF Situation, OneInv, Calm, BtsStation
<1>6. Bts.state # "LinkReleased"
  BY <1>1, <1>2 DEF Situation, AwaitingIsTimed, State, Bts
<1> HIDE DEF r
<1>7. CASE lap' = [lap EXCEPT ![BTS] = Reread(r)] /\ UNCHANGED chan
  <2>1. Bts' = Reread(r) /\ MobUntouched /\ ToBts' = ToBts /\ ToMs' = ToMs
    BY <1>1, <1>2, <1>7 DEF Situation, TypeOK, Bts, Mob, ToBts, ToMs, MobUntouched
  <2>2. Alike(r, Bts')
    BY <1>4, <2>1, AlikeFields
  <2>3. /\ Bts'.state = "LinkReleased" /\ Bts'.VR = 0 /\ WellFormed(Bts'.sentFrame)
        /\ thr'[BTS].pc # "lockSABM"
    BY <1>2, <1>4, <1>5, <2>2 DEF Alike
  <2>4. QED
    BY <1>1, <1>2, <1>3, <2>1, <2>3, BtsIsOut DEF Situation
<1>8. CASE /\ Bts.RC <= N200 /\ lap' = [lap EXCEPT ![BTS] = Reread(s)]
           /\ chan' = [chan EXCEPT ![MS] = Put(@, <<f>>)]
  <2>1. Bts' = Reread(s) /\ MobUntouched /\ ToBts' = ToBts /\ ToMs' = Put(ToMs, <<f>>)
    BY <1>1, <1>2, <1>8 DEF Situation, TypeOK, Bts, Mob, ToBts, ToMs, MobUntouched
  <2>2. s \in Lap /\ Alike(Bts, s) /\ s.inProgress = Bts.inProgress
    <3>1. s \in Lap
      BY <1>1, <1>8, LapTypes
    <3>2. Bts.t200 = TRUE
      BY <1>1, <1>2 DEF Lap
    <3>3. QED
      BY <1>1, <3>1, <3>2 DEF RetransmissionProcedure, Alike, Lap
  <2> HIDE DEF s
  <2>3. Alike(s, Bts') /\ Bts'.inProgress = Bts.inProgress
    BY <2>1, <2>2, AlikeFields
  <2>4. Alike(Bts, Bts')
    BY <2>2, <2>3 DEF Alike
  <2>5. f \in Frame
    BY <1>1 DEF Lap, SapFrame
  <2>6. ToMs' = ToMs \/ Extended(ToMs, ToMs', f)
    BY <1>1, <2>1, <2>5, PutExtends
  <2>7. CASE Multi
    <3>1. thr'[BTS] = thr[BTS]
      BY <1>2
    <3>2. QED
      BY <1>1, <1>2, <1>3, <2>1, <2>3, <2>4, <2>6, <2>7, <3>1, BtsSendsAgain
      DEF Situation
  <2>8. CASE Bts.state = "AwaitingRelease"
    <3>1. /\ Bts'.state = "AwaitingRelease" /\ Bts'.VR = 0 /\ WellFormed(Bts'.sentFrame)
          /\ thr'[BTS].pc = "release" /\ Bts'.sentFrame.type = "DISC"
          /\ f.type = "DISC" /\ f.pf
      BY <1>2, <1>5, <2>4, <2>8 DEF Alike, WellFormed
    <3>2. OneInv
      BY DEF Situation
    <3> HIDE DEF f
    <3>3. CASE ToMs' = ToMs
      BY <1>1, <1>2, <1>3, <2>1, <3>1, <3>2, <3>3, BtsIsOut
    <3>4. CASE Extended(ToMs, ToMs', f)
      BY <1>1, <1>2, <1>3, <2>1, <3>1, <3>2, <3>4, BtsIsOut
    <3>5. QED
      BY <2>6, <3>3, <3>4
  <2>9. QED
    BY <1>1, <1>5, <1>6, <2>7, <2>8 DEF Multi, Lap, LAPDState
<1>9. QED
  BY <1>1, <1>7, <1>8 DEF T200Expiration, Bts, r

LEMMA BtsIdleTimeoutOne ==
  ASSUME Situation, IdleTimeout(BTS) PROVE OneInv'
<1>1. Bts \in Lap /\ Typed /\ BTS \in E /\ MS \in E /\ BTS # MS
  BY SituationTyped DEF Situation
<1>2. Bts' = Reread(Bts) /\ MobUntouched /\ ToBts' = ToBts /\ ToMs' = ToMs /\ thr' = thr
  BY <1>1 DEF Situation, TypeOK, IdleTimeout, Bts, Mob, ToBts, ToMs, MobUntouched
<1>3. SameCounts
  BY DEF IdleTimeout, OnSameLink, SameCounts, Lk, Sent, Arrived
<1>4. Alike(Bts, Bts') /\ Bts'.inProgress = Bts.inProgress
  BY <1>1, <1>2, AlikeFields
<1>5. thr'[BTS].pc # "lockSABM"
  BY <1>2 DEF Situation, OneInv, Calm, BtsStation
<1>6. QED
  BY <1>1, <1>2, <1>3, <1>4, <1>5, BtsIsIdle DEF Situation


(* The L3 downlink thread of the BTS.                                      *)
LEMMA CommandFields ==
  ASSUME NEW e \in E, NEW type \in FrameType
  PROVE  /\ Command(e, type) \in Frame /\ Command(e, type).type = type
         /\ Command(e, type).pf = TRUE
<1>1. Command(e, type) \in Frame /\ Command(e, type).type = type
  BY CommandType
<1>2. Command(e, type).pf = TRUE
  BY BlankType DEF Command, Frame
<1>3. QED
  BY <1>1, <1>2

LEMMA WrittenFields ==
  ASSUME NEW r \in Lap, NEW f \in Frame
  PROVE  LET w == WriteL1Ack(r, f)
         IN  /\ w.state = r.state /\ w.VS = r.VS /\ w.VA = r.VA /\ w.VR = r.VR
             /\ w.t200 = TRUE /\ w.inProgress = r.inProgress /\ w.sentFrame = f
BY DEF WriteL1Ack, Lap

LEMMA NextSeqMoves == ASSUME NEW s \in 0 .. Modulus - 1 PROVE NextSeq(s) # s
<1>1. Modulus \in Nat /\ Modulus > 1 /\ s \in Int /\ 0 <= s /\ s < Modulus
  BY BoundsAssumption
<1>2. CASE s + 1 < Modulus
  <2>1. (s + 1) % Modulus = s + 1
    BY <1>1, <1>2
  <2>2. QED
    BY <1>1, <2>1 DEF NextSeq
<1>3. CASE s + 1 = Modulus
  <2>1. Modulus % Modulus = 0
    BY <1>1
  <2>2. QED
    BY <1>1, <1>3, <2>1 DEF NextSeq
<1>4. QED
  BY <1>1, <1>2, <1>3

LEMMA BtsSendDISCOne ==
  ASSUME Situation, SendDISC(BTS), thr[BTS].pc # "release" PROVE OneInv'
<1> DEFINE c == ClearCounters(Bts)
           r == [c EXCEPT !.inProgress = FALSE, !.state = "AwaitingRelease"]
           f == Command(BTS, "DISC")
<1>1. Bts \in Lap /\ ToMs \in Seq(Frame) /\ Typed /\ BTS \in E
  BY SituationTyped DEF Situation
<1>2. c \in Lap /\ c.VR = 0
  BY <1>1, AlikeFields
<1> HIDE DEF c
<1>3. r \in Lap /\ r.VR = 0 /\ r.state = "AwaitingRelease"
  BY <1>2 DEF Lap, LAPDState
<1>4. f \in Frame /\ f.type = "DISC" /\ f.pf
  BY <1>1, CommandFields DEF FrameType
<1>5. Downlink(BTS, WriteL1Ack(r, f), <<f>>, l3[BTS], Goto("release")) /\ OnSameLink
  BY DEF SendDISC, Bts, c
<1> HIDE DEF f, r
<1>6. /\ Bts' = WriteL1Ack(r, f) /\ MobUntouched /\ ToBts' = ToBts /\ ToMs' = Put(ToMs, <<f>>)
      /\ thr'[BTS] = Goto("release") /\ SameCounts
  BY <1>5, DownlinkAtBts
<1>7. /\ Bts'.state = "AwaitingRelease" /\ Bts'.VR = 0 /\ WellFormed(Bts'.sentFrame)
      /\ thr'[BTS].pc = "release" /\ Bts'.sentFrame.type = "DISC"
  <2>1. WellFormed(f)
    BY <1>4 DEF WellFormed
  <2>2. Bts'.state = r.state /\ Bts'.VR = r.VR /\ Bts'.sentFrame = f
    BY <1>3, <1>4, <1>6, WrittenFields
  <2>3. thr'[BTS].pc = "release"
    BY <1>6 DEF Goto
  <2>4. QED
    BY <1>3, <1>4, <2>1, <2>2, <2>3
<1>8. ToMs' = ToMs \/ Extended(ToMs, ToMs', f)
  BY <1>1, <1>4, <1>6, PutExtends
<1>9. Bts.state # "AwaitingRelease" /\ OneInv
  BY DEF Situation, OneInv, Calm, BtsStation
<1>10. CASE ToMs' = ToMs
  BY <1>1, <1>6, <1>7, <1>9, <1>10, BtsIsOut
<1>11. CASE Extended(ToMs, ToMs', f)
  BY <1>1, <1>4, <1>6, <1>7, <1>9, <1>11, BtsIsOut
<1>12. QED
  BY <1>8, <1>10, <1>11

LEMMA BtsSendIFrameOne ==
  ASSUME Situation, NEW r \in Lap, Alike(Bts, r), r.inProgress = Bts.inProgress, AckReady(r),
         InMultiframe(r), NEW left \in 1 .. MaxSegs, NEW first \in BOOLEAN,
         SendIFrame(BTS, r, left, first)
  PROVE  OneInv'
<1> DEFINE n == tx[BTS] + 1
           c == Command(BTS, "I")
           f == [c EXCEPT !.pf = FALSE, !.ns = r.VS, !.nr = r.VR,
                   !.more = left > 1, !.link = link[BTS], !.n = n, !.first = first]
           s == [r EXCEPT !.VS = NextSeq(@)]
           next == IF left = 1 THEN Idle
                   ELSE [pc |-> "data", left |-> left - 1, first |-> FALSE]
<1>1. /\ Bts \in Lap /\ ToMs \in Seq(Frame) /\ Typed /\ BTS \in E /\ MS \in E /\ BTS # MS
      /\ OneInv
  BY SituationTyped DEF Situation
<1>2. n = Sent + 1 /\ link[BTS] = Lk
  BY DEF Sent, Lk
<1>3. c \in Frame /\ c.type = "I"
  BY <1>1, CommandFields DEF FrameType
<1> HIDE DEF n, c
<1>4. /\ f.type = "I" /\ f.pf = FALSE /\ f.ns = r.VS /\ f.nr = r.VR /\ f.link = Lk
      /\ f.n = Sent + 1
  BY <1>2, <1>3 DEF Frame
<1>5. /\ s.state = r.state /\ s.VS = NextSeq(r.VS) /\ s.VA = r.VA /\ s.VR = r.VR
      /\ s.inProgress = r.inProgress
  BY DEF Lap
<1>6. /\ Downlink(BTS, WriteL1Ack(s, f), <<f>>, l3[BTS], next)
      /\ tx' = [tx EXCEPT ![BTS] = n] /\ UNCHANGED <<link, reached, delivered>>
  BY DEF SendIFrame, n, c
<1>7. next.pc # "lockSABM"
  BY DEF Idle, Goto
<1>8. s \in Lap /\ f \in Frame
  <2>1. /\ r.VS \in 0 .. Modulus - 1 /\ r.VR \in 0 .. Modulus - 1 /\ link[BTS] \in Nat
        /\ NextSeq(r.VS) \in 0 .. Modulus - 1
    <3>1. r.VS \in 0 .. Modulus - 1 /\ r.VR \in 0 .. Modulus - 1
      BY DEF Lap
    <3>2. link[BTS] \in Nat
      BY <1>1 DEF Situation, TypeOK
    <3>3. NextSeq(r.VS) \in 0 .. Modulus - 1
      BY <3>1, BoundsAssumption DEF NextSeq
    <3>4. QED
      BY <3>1, <3>2, <3>3
  <2>2. s \in Lap
    BY <2>1 DEF Lap
  <2>3. (left > 1) \in BOOLEAN
    OBVIOUS
  <2>4. n \in 0 .. MaxTx
    <3>1. tx[BTS] \in 0 .. MaxTx /\ MaxTx \in Nat
      BY <1>1, BoundsAssumption DEF Situation, TypeOK
    <3>2. tx[BTS] + 1 <= MaxTx
      BY DEF SendIFrame
    <3>3. QED
      BY <3>1, <3>2 DEF n
  <2>5. f \in Frame
    BY <1>3, <2>1, <2>3, <2>4 DEF Frame
  <2>6. QED
    BY <2>2, <2>5
<1> HIDE DEF f, s, next
<1>9. /\ Bts' = WriteL1Ack(s, f) /\ MobUntouched /\ ToBts' = ToBts /\ ToMs' = Put(ToMs, <<f>>)
      /\ thr'[BTS] = next
  BY <1>6, DownlinkAtBts
<1>10. /\ Lk' = Lk /\ Sent' = Sent + 1 /\ Arrived' = Arrived /\ tx'[MS] = tx[MS]
       /\ reached'[MS] = reached[MS] /\ delivered'[MS] = delivered[MS]
  BY <1>1, <1>2, <1>6 DEF Situation, TypeOK, Lk, Sent, Arrived
<1>11. ToMs' = ToMs \/ Extended(ToMs, ToMs', f)
  BY <1>1, <1>8, <1>9, PutExtends
<1>12. Multi /\ ~Out /\ Bts.VR = 0 /\ NextSeq(Bts.VS) # Bts.VS
  <2>1. Multi /\ ~Out
    BY DEF Multi, Out, AckReady, InMultiframe, Alike
  <2>2. Bts.VR = 0
    BY DEF Situation, OneInv, Calm, BtsStation
  <2>3. QED
    BY <1>1, <2>1, <2>2, NextSeqMoves DEF Typed
<1>13. /\ Bts'.state = Bts.state /\ Bts'.VS = NextSeq(Bts.VS) /\ Bts'.VA = Bts.VA
       /\ Bts'.VR = Bts.VR /\ Bts'.t200 = TRUE /\ Bts'.inProgress = Bts.inProgress
       /\ Bts'.sentFrame = f /\ thr'[BTS].pc # "lockSABM"
  BY <1>5, <1>7, <1>8, <1>9, WrittenFields DEF Alike
<1>14. /\ f.type = "I" /\ f.link = Lk /\ f.n = Sent' /\ f.ns = Bts.VS /\ f.nr = 0
       /\ f.pf = FALSE
  BY <1>4, <1>10, <1>12 DEF Alike
<1>15. QED
  BY <1>1, <1>9, <1>10, <1>11, <1>12, <1>13, <1>14, BtsSends

LEMMA BtsThreadIdles ==
  ASSUME Situation, NEW r \in Lap, Alike(Bts, r), r.inProgress = Bts.inProgress,
         NEW next, next.pc # "lockSABM", Bts.state # "AwaitingRelease",
         Downlink(BTS, r, << >>, l3[BTS], next), OnSameLink
  PROVE  OneInv'
<1>1. Bts \in Lap /\ ToMs \in Seq(Frame) /\ Typed /\ OneInv
  BY SituationTyped DEF Situation
<1>2. /\ Bts' = r /\ MobUntouched /\ ToBts' = ToBts /\ ToMs' = Put(ToMs, << >>)
      /\ thr'[BTS] = next /\ SameCounts
  BY DownlinkAtBts
<1>3. ToMs' = ToMs
  BY <1>1, <1>2, PutExtends, BlankType
<1>4. Alike(Bts, Bts') /\ Bts'.inProgress = Bts.inProgress /\ thr'[BTS].pc # "lockSABM"
  BY <1>2
<1>5. QED
  BY <1>1, <1>2, <1>3, <1>4, BtsIsIdle

LEMMA BtsThreadReleases ==
  ASSUME Situation, NEW belief, Downlink(BTS, ReleaseLink(Bts), << >>, belief, Idle),
         OnSameLink, Bts.state # "AwaitingRelease"
  PROVE  OneInv'
<1>1. Bts \in Lap /\ ToMs \in Seq(Frame) /\ Typed /\ OneInv
  BY SituationTyped DEF Situation
<1>2. /\ Bts' = ReleaseLink(Bts) /\ MobUntouched /\ ToBts' = ToBts
      /\ ToMs' = Put(ToMs, << >>) /\ thr'[BTS] = Idle /\ SameCounts
  BY DownlinkAtBts
<1>3. ToMs' = ToMs
  BY <1>1, <1>2, PutExtends, BlankType
<1>4. /\ Bts'.state = "LinkReleased" /\ Bts'.VR = 0 /\ Bts'.sentFrame = Bts.sentFrame
      /\ thr'[BTS].pc # "lockSABM"
  <2>1. /\ ReleaseLink(Bts).state = "LinkReleased" /\ ReleaseLink(Bts).VR = 0
        /\ ReleaseLink(Bts).sentFrame = Bts.sentFrame
    BY <1>1, AlikeFields
  <2>2. Idle.pc # "lockSABM"
    BY DEF Idle, Goto
  <2>3. QED
    BY <1>2, <2>1, <2>2
<1>5. WellFormed(Bts'.sentFrame)
  BY <1>1, <1>4 DEF OneInv, Calm, BtsStation
<1>6. QED
  BY <1>1, <1>2, <1>3, <1>4, <1>5, BtsIsOut

LEMMA BtsThreadOne ==
  ASSUME Situation, OneWay, Resume(BTS) \/ Call(BTS) PROVE OneInv'
<1> DEFINE kept == [Bts EXCEPT !.discard = FALSE]
<1>1. Bts \in Lap /\ BTS \in E /\ MS \in E /\ BTS # MS
  BY SituationTyped DEF Situation
<1>2. /\ thr[BTS].pc # "lockSABM"
      /\ Bts.state = "AwaitingRelease" => thr[BTS].pc = "release"
  BY DEF Situation, OneInv, Calm, BtsStation
<1>3. ~SendSABM(BTS) /\ ~EstablishRequest(BTS)
  BY <1>1, <1>2 DEF SendSABM, EstablishRequest, OneWay
<1>4. Calls(BTS) => Bts.state # "AwaitingRelease" /\ thr[BTS].pc # "release"
  BY <1>2 DEF Calls, Idle, Goto
<1>5. Alike(Bts, Bts) /\ Alike(Bts, kept) /\ kept \in Lap /\ kept.inProgress = Bts.inProgress
  BY <1>1 DEF Alike, Lap
<1>6. AckReady(Bts) => Bts.state # "AwaitingRelease"
  BY DEF AckReady, InMultiframe
<1>7. Idle.pc # "lockSABM" /\ Goto("drain").pc # "lockSABM"
  BY DEF Idle, Goto
<1>8. CASE DataRequest(BTS)
  <2>1. CASE /\ OnSameLink
             /\ Downlink(BTS, ReleaseLink(Bts), << >>, Told(l3[BTS], "MDL_ERROR_INDICATION"), Idle)
    BY <1>4, <1>8, <2>1, BtsThreadReleases DEF DataRequest
  <2>2. ASSUME NEW k \in 1 .. MaxSegs, State(BTS) # "LinkReleased", AckReady(kept),
               SendIFrame(BTS, kept, k, TRUE)
        PROVE  OneInv'
    <3>1. InMultiframe(kept)
      BY <1>5, <2>2 DEF AckReady, Alike, State, Bts
    <3>2. QED
      BY <1>5, <2>2, <3>1, BtsSendIFrameOne
  <2>3. ASSUME NEW k \in 1 .. MaxSegs, OnSameLink,
               Downlink(BTS, kept, << >>, l3[BTS], [pc |-> "data", left |-> k, first |-> TRUE])
        PROVE  OneInv'
    <3>1. [pc |-> "data", left |-> k, first |-> TRUE].pc # "lockSABM"
      OBVIOUS
    <3>2. Bts.state # "AwaitingRelease"
      BY <1>4, <1>8 DEF DataRequest
    <3>3. QED
      BY <1>5, <2>3, <3>1, <3>2, BtsThreadIdles
  <2>4. QED
    BY <1>8, <2>1, <2>2, <2>3 DEF DataRequest, Bts
<1>9. CASE DataAcked(BTS)
  <2>1. CASE InMultiframe(Bts) /\ SendIFrame(BTS, Bts, thr[BTS].left, thr[BTS].first)
    <3>1. thr[BTS] \in Thread /\ thr[BTS].pc = "data"
      BY <1>1, <1>9 DEF Situation, TypeOK, DataAcked
    <3>2. thr[BTS].left \in 1 .. MaxSegs /\ thr[BTS].first \in BOOLEAN
      BY <3>1 DEF Thread
    <3>3. AckReady(Bts)
      BY <1>9 DEF DataAcked, Bts
    <3>4. QED
      BY <1>1, <1>5, <2>1, <3>2, <3>3, BtsSendIFrameOne
  <2>2. CASE Downlink(BTS, Bts, << >>, l3[BTS], Idle) /\ OnSameLink
    BY <1>1, <1>5, <1>6, <1>7, <1>9, <2>2, BtsThreadIdles DEF DataAcked, Bts
  <2>3. QED
    BY <1>9, <2>1, <2>2 DEF DataAcked, Bts
<1>10. CASE ReleaseRequest(BTS)
  <2>1. CASE SendDISC(BTS)
    BY <1>4, <1>10, <2>1, BtsSendDISCOne DEF ReleaseRequest
  <2>2. CASE Downlink(BTS, Bts, << >>, l3[BTS], Goto("drain")) /\ OnSameLink
    BY <1>1, <1>4, <1>5, <1>7, <1>10, <2>2, BtsThreadIdles DEF ReleaseRequest
  <2>3. QED
    BY <1>10, <2>1, <2>2 DEF ReleaseRequest, Bts
<1>11. CASE Drained(BTS)
  <2>1. CASE SendDISC(BTS)
    BY <1>11, <2>1, BtsSendDISCOne DEF Drained
  <2>2. CASE Downlink(BTS, Bts, << >>, l3[BTS], Idle) /\ OnSameLink
    BY <1>1, <1>5, <1>6, <1>7, <1>11, <2>2, BtsThreadIdles DEF Drained, Bts
  <2>3. QED
    BY <1>11, <2>1, <2>2 DEF Drained, Bts
<1>12. CASE ReleaseDone(BTS)
  BY <1>1, <1>5, <1>6, <1>7, <1>12, BtsThreadIdles DEF ReleaseDone, Bts
<1>13. CASE HardRelease(BTS)
  BY <1>4, <1>13, BtsThreadReleases DEF HardRelease, Bts
<1>14. QED
  BY <1>3, <1>8, <1>9, <1>10, <1>11, <1>12, <1>13 DEF Resume, Call
-----------------------------------------------------------------------------
(* The ways in which a frame ends at the handset.                          *)
LEMMA MobIgnores ==
  ASSUME Situation, NEW r \in Lap, Alike(Mob, r), NEW ind, React(MS, r, << >>, ind),
         OnSameLink, chan[MS] # << >>
  PROVE  OneInv'
<1>1. Mob \in Lap /\ ToBts \in Seq(Frame) /\ Typed
  BY SituationTyped DEF Situation
<1>2. /\ Alike(r, Mob') /\ BtsUntouched
      /\ Shortened(ToMs, ToMs') /\ ToBts' = Put(ToBts, << >>) /\ thr' = thr /\ SameCounts
  BY <1>1, ReactAtMs
<1>3. ToBts' = ToBts
  BY <1>1, <1>2, PutExtends, BlankType
<1>4. Alike(Mob, Mob')
  BY <1>2 DEF Alike
<1>5. thr'[MS].pc \in {"idle", "lockSABM", "release"} /\ thr'[MS] = thr[MS]
  BY <1>2 DEF Situation, OneInv, Calm, MobStation
<1>6. QED
  BY <1>1, <1>2, <1>3, <1>4, <1>5, MobIsIdle DEF Situation

LEMMA MobReleases ==
  ASSUME Situation, NEW out, NEW ind, chan[MS] # << >>, OnSameLink,
         React(MS, ReleaseLink(Mob), out, ind), ToMs[1].type # "I",
         \/ out = << >>
         \/ ~Multi /\ \E f \in Frame : out = <<f>> /\ Answer(f) /\ (f.type = "UA" => f.pf)
  PROVE  OneInv'
<1> DEFINE r == ReleaseLink(Mob)
<1>1. Mob \in Lap /\ ToBts \in Seq(Frame) /\ Typed /\ OneInv
  BY SituationTyped DEF Situation
<1>2. /\ r \in Lap /\ r.state = "LinkReleased" /\ r.VS = 0 /\ r.VA = 0
      /\ r.sentFrame = Mob.sentFrame
  BY <1>1, AlikeFields
<1> HIDE DEF r
<1>3. /\ Alike(r, Mob') /\ BtsUntouched
      /\ Shortened(ToMs, ToMs') /\ ToBts' = Put(ToBts, out) /\ thr' = thr /\ SameCounts
  BY <1>2, ReactAtMs DEF r
<1>4. /\ Mob'.state = "LinkReleased" /\ Mob'.VS = 0 /\ Mob'.VA = 0
      /\ WellFormed(Mob'.sentFrame) /\ thr'[MS] = thr[MS]
  BY <1>1, <1>2, <1>3 DEF OneInv, Calm, MobStation, Alike
<1>5. CASE out = << >>
  <2>1. ToBts' = ToBts
    BY <1>1, <1>3, <1>5, PutExtends, BlankType
  <2>2. QED
    BY <1>1, <1>3, <1>4, <2>1, MobIsOut
<1>6. ASSUME NEW f \in Frame, out = <<f>>, Answer(f), f.type = "UA" => f.pf, ~Multi
      PROVE  OneInv'
  <2>1. ToBts' = ToBts \/ Extended(ToBts, ToBts', f)
    BY <1>1, <1>3, <1>6, PutExtends
  <2>2. CASE ToBts' = ToBts
    BY <1>1, <1>3, <1>4, <2>2, MobIsOut
  <2>3. CASE Extended(ToBts, ToBts', f)
    BY <1>1, <1>3, <1>4, <1>6, <2>3, MobIsOut
  <2>4. QED
    BY <2>1, <2>2, <2>3
<1>7. QED
  BY <1>5, <1>6

(* One lemma per handler of the handset.                                   *)
LEMMA MobDISCOne ==
  ASSUME Situation, ReceiveDISC(MS) PROVE OneInv'
<1> DEFINE f == ToMs[1]
           r == ReleaseLink(Mob)
<1>1. /\ chan[MS] # << >> /\ f \in Frame /\ f.type = "DISC" /\ Head(chan[MS]) = f
      /\ f.pf /\ 1 \in DOMAIN ToMs /\ MS \in E
  BY MobTakes, SituationTyped DEF ReceiveDISC, WellFormed, Situation
<1>2. ~Multi
  BY <1>1 DEF Situation, OneInv, Flow, OnAirToMs
<1> HIDE DEF f
<1>3. \E g \in Frame : UA(MS, f) = <<g>> /\ Answer(g) /\ (g.type = "UA" => g.pf)
  BY <1>1, UAFrame DEF Answer
<1>4. \E g \in Frame : DM(MS, f.pf) = <<g>> /\ Answer(g) /\ (g.type = "UA" => g.pf)
  <2>1. f.pf \in BOOLEAN
    BY <1>1 DEF Frame
  <2>2. QED
    BY <1>1, <2>1, DMFrame DEF Answer
<1>5. ASSUME NEW out, NEW ind, React(MS, r, out, ind),
             out \in {<< >>, UA(MS, f), DM(MS, f.pf)}
      PROVE  OneInv'
  <2>1. ToMs[1].type # "I" /\ OnSameLink
    BY <1>1 DEF f, ReceiveDISC
  <2>2. QED
    BY <1>1, <1>2, <1>3, <1>4, <1>5, <2>1, MobReleases
<1>6. QED
  BY <1>1, <1>5 DEF ReceiveDISC, Mob

LEMMA MobUAOne ==
  ASSUME Situation, ReceiveUA(MS) PROVE OneInv'
<1> DEFINE c == ClearCounters(Mob)
           up == [c EXCEPT !.state = "LinkEstablished"]
<1>1. /\ chan[MS] # << >> /\ ToMs[1].type = "UA" /\ Head(chan[MS]) = ToMs[1]
      /\ ToMs[1].pf /\ 1 \in DOMAIN ToMs
  BY MobTakes DEF ReceiveUA, WellFormed
<1>2. /\ Mob \in Lap /\ ToBts \in Seq(Frame) /\ Typed /\ OneInv
      /\ BTS \in E /\ MS \in E /\ BTS # MS
  BY SituationTyped DEF Situation
<1>3. c \in Lap /\ c.VS = 0 /\ c.VA = 0 /\ c.VR = 0 /\ c.t200 = FALSE
      /\ c.sentFrame = Mob.sentFrame /\ c.recvBuffer = << >>
  BY <1>2, AlikeFields
<1> HIDE DEF c
<1>4. /\ up \in Lap /\ up.state = "LinkEstablished" /\ up.VS = 0 /\ up.VA = 0 /\ up.VR = 0
      /\ up.t200 = FALSE /\ up.sentFrame = Mob.sentFrame /\ up.recvBuffer = << >>
  BY <1>3 DEF Lap, LAPDState
<1> HIDE DEF up
<1>5. CASE /\ Mob.state = "AwaitingEstablish" /\ OnNewLink(MS)
           /\ React(MS, up, << >>, "L3_ESTABLISH_CONFIRM")
  <2>1. /\ Alike(up, Mob') /\ BtsUntouched /\ Shortened(ToMs, ToMs')
        /\ ToBts' = Put(ToBts, << >>) /\ thr' = thr
    BY <1>1, <1>4, <1>5, ReactAtMs
  <2>2. ToBts' = ToBts
    BY <1>2, <2>1, PutExtends, BlankType
  <2>3. /\ Lk' = Lk /\ Sent' = Sent /\ Arrived' = Arrived /\ tx'[MS] = tx[MS]
        /\ reached'[MS] = reached[MS] /\ Kept' = << >>
    <3>1. tx[MS] = 0 /\ reached[MS] = 0
      BY <1>2 DEF OneInv, Calm, Counts
    <3>2. delivered'[MS] = << >> /\ Mob'.recvBuffer = << >>
      BY <1>2, <1>4, <1>5, <2>1 DEF OnNewLink, Situation, TypeOK, Alike
    <3>3. << >> \o << >> = << >>
      OBVIOUS
    <3>4. Kept' = << >>
      BY <3>2, <3>3 DEF Kept
    <3>5. QED
      BY <1>2, <1>5, <3>1, <3>4 DEF OnNewLink, Situation, TypeOK, Lk, Sent, Arrived
  <2>4. /\ Mob'.state = "LinkEstablished" /\ Mob'.VS = 0 /\ Mob'.VA = 0 /\ Mob'.VR = 0
        /\ Mob'.t200 = FALSE /\ WellFormed(Mob'.sentFrame) /\ thr'[MS] = thr[MS]
    BY <1>2, <1>4, <2>1 DEF OneInv, Calm, MobStation, Alike
  <2>5. QED
    BY <1>1, <1>2, <1>5, <2>1, <2>2, <2>3, <2>4, MobIsUp
<1>6. CASE React(MS, ReleaseLink(Mob), << >>, "L3_RELEASE_CONFIRM") /\ OnSameLink
  BY <1>1, <1>6, MobReleases
<1>7. CASE Ignore(MS) /\ OnSameLink
  <2>1. Alike(Mob, Mob) /\ React(MS, Mob, << >>, "none")
    BY <1>7 DEF Alike, Ignore, Mob
  <2>2. QED
    BY <1>1, <1>2, <1>7, <2>1, MobIgnores
<1>8. CASE Unexpected(MS) /\ OnSameLink /\ Mob.state = "LinkReleased"
  <2>1. ~Multi
    BY <1>1, <1>8 DEF Situation, OneInv, Flow, OnAirToMs
  <2>2. \E g \in Frame : DM(MS, TRUE) = <<g>> /\ Answer(g) /\ (g.type = "UA" => g.pf)
    BY <1>2, DMFrame DEF Answer
  <2>3. React(MS, ReleaseLink(Mob), DM(MS, TRUE), "MDL_ERROR_INDICATION")
    BY <1>8 DEF Unexpected, Mob
  <2>4. QED
    BY <1>1, <1>8, <2>1, <2>2, <2>3, MobReleases
<1>9. QED
  BY <1>1, <1>5, <1>6, <1>7, <1>8 DEF ReceiveUA, Mob, State, c, up

LEMMA MobDMOne ==
  ASSUME Situation, ReceiveDM(MS) PROVE OneInv'
<1> DEFINE timed == [Mob EXCEPT !.t200 = TRUE]
<1>1. /\ chan[MS] # << >> /\ ToMs[1].type = "DM" /\ 1 \in DOMAIN ToMs /\ Answer(ToMs[1])
  BY MobTakes DEF ReceiveDM, Answer
<1>2. Mob \in Lap /\ MS \in E
  BY SituationTyped DEF Situation
<1>3. Mob.state \notin {"LinkEstablished", "ContentionResolution"}
  BY <1>1 DEF Situation, OneInv, Calm, Greeting, MobStation
<1>4. CASE React(MS, ReleaseLink(Mob), << >>, "L3_RELEASE_CONFIRM") /\ OnSameLink
  BY <1>1, <1>4, MobReleases
<1>5. CASE Ignore(MS) /\ OnSameLink
  <2>1. Alike(Mob, Mob) /\ React(MS, Mob, << >>, "none")
    BY <1>5 DEF Alike, Ignore, Mob
  <2>2. QED
    BY <1>1, <1>2, <1>5, <2>1, MobIgnores
<1>6. CASE /\ Mob.state = "AwaitingEstablish" /\ OnSameLink
           /\ React(MS, timed, << >>, "L3_RELEASE_INDICATION")
  <2>1. Mob.t200 = TRUE
    BY <1>2, <1>6 DEF Situation, AwaitingIsTimed, State, Mob, Lap, TypeOK
  <2>2. timed \in Lap /\ Alike(Mob, timed)
    BY <1>2, <2>1 DEF Lap, Alike
  <2>3. QED
    BY <1>1, <1>6, <2>2, MobIgnores
<1>7. QED
  BY <1>3, <1>4, <1>5, <1>6 DEF ReceiveDM, Mob, State, InMultiframe

(* A segment more in the buffer is one more that is kept, whether or not   *)
(* the buffer is handed up with it.                                        *)
LEMMA OneMore ==
  ASSUME NEW p \in Seq(Segment), NEW q \in Seq(Segment), NEW x \in Segment
  PROVE  /\ p \o Append(q, x) = Append(p \o q, x)
         /\ (p \o Append(q, x)) \o << >> = Append(p \o q, x)
         /\ Len(Append(p \o q, x)) = Len(p \o q) + 1 /\ Append(p \o q, x) # << >>
         /\ Append(p \o q, x)[1] = IF p \o q = << >> THEN x ELSE (p \o q)[1]
<1>1. /\ p \o Append(q, x) \in Seq(Segment) /\ Append(p \o q, x) \in Seq(Segment)
      /\ p \o q \in Seq(Segment)
  OBVIOUS
<1>2. Len(p \o Append(q, x)) = Len(Append(p \o q, x))
  OBVIOUS
<1>3. ASSUME NEW i \in 1 .. Len(p \o Append(q, x))
      PROVE  (p \o Append(q, x))[i] = Append(p \o q, x)[i]
  OBVIOUS
<1>4. p \o Append(q, x) = Append(p \o q, x)
  BY <1>1, <1>2, <1>3, SeqEqual
<1>5. \A r \in Seq(Segment) : r \o << >> = r
  OBVIOUS
<1>6. ASSUME NEW r \in Seq(Segment)
      PROVE  /\ Len(Append(r, x)) = Len(r) + 1 /\ Append(r, x) # << >>
             /\ Append(r, x)[1] = IF r = << >> THEN x ELSE r[1]
  <2>1. CASE r = << >>
    BY <2>1
  <2>2. CASE r # << >>
    <3>1. Len(r) \in Nat /\ Len(r) # 0
      BY <2>2
    <3>2. 1 \in 1 .. Len(r)
      BY <3>1
    <3>3. Append(r, x)[1] = r[1]
      BY <3>2
    <3>4. Len(Append(r, x)) = Len(r) + 1 /\ Len(<< >>) = 0
      OBVIOUS
    <3>5. QED
      BY <2>2, <3>1, <3>3, <3>4
  <2>3. QED
    BY <2>1, <2>2
<1>7. QED
  BY <1>1, <1>4, <1>5, <1>6

(* What an I-frame hands up, and when it hands up nothing.                 *)
LEMMA IHandsUp ==
  ASSUME NEW e, ReceiveI(e)
  PROVE  LET h == Head(chan[e])
             a == ProcessAck(Confirmed(lap[e]), h.nr)
             q == Append(a.recvBuffer, SegmentOf(h))
         IN  \/ OutOfMultiframe(e)
             \/ delivered' = [delivered EXCEPT ![e] = IF h.more THEN @ ELSE @ \o q]
             \/ ~Expected(a, h)
BY Zenon DEF ReceiveI

LEMMA IKeepsBack ==
  ASSUME NEW e, ReceiveI(e)
  PROVE  LET h == Head(chan[e])
             a == ProcessAck(Confirmed(lap[e]), h.nr)
         IN  OutOfMultiframe(e) \/ delivered' = delivered \/ Expected(a, h)
BY Zenon DEF ReceiveI

(* The handset takes f and answers with g; it keeps f exactly if f is the  *)
(* next segment.                                                           *)
TakesI(r, g, f) ==
  /\ React(MS, r, <<g>>, "none") /\ InMultiframe(Mob)
  /\ UNCHANGED <<link, tx>> /\ delivered'[BTS] = delivered[BTS]
  /\ \/ /\ f.ns = Mob.VR /\ r.VR = NextSeq(Mob.VR)
        /\ reached' = [reached EXCEPT ![BTS] = IF f.link = link[BTS] THEN f.n ELSE @]
        /\ delivered'[MS] \o r.recvBuffer = Append(Kept, SegmentOf(f))
     \/ /\ f.ns # Mob.VR /\ r.VR = Mob.VR /\ UNCHANGED <<reached, delivered>>
        /\ r.recvBuffer = Mob.recvBuffer
  /\ r.state = "LinkEstablished" /\ r.VS = 0 /\ r.VA = 0 /\ r.t200 = FALSE
  /\ r.sentFrame = Mob.sentFrame /\ Ack(g) /\ ~g.pf /\ g.nr = r.VR

LEMMA MobIOutcome ==
  ASSUME Situation, ReceiveI(MS)
  PROVE  \/ OutOfMultiframe(MS) /\ OnSameLink
         \/ \E r \in Lap, g \in Frame : TakesI(r, g, ToMs[1])
<1> DEFINE f == ToMs[1]
           acked == ProcessAck(Confirmed(Mob), f.nr)
           vr == NextSeq(acked.VR)
           part == Append(acked.recvBuffer, SegmentOf(f))
           new == [acked EXCEPT !.VR = vr, !.recvBuffer = IF f.more THEN part ELSE << >>]
           rr == Supervisory(MS, "RR", f.pf, vr)
           rej == Supervisory(MS, "REJ", f.pf, acked.VR)
<1>1. /\ chan[MS] # << >> /\ f \in Frame /\ f.type = "I" /\ Head(chan[MS]) = f
      /\ ~f.pf /\ f.nr = 0 /\ 1 \in DOMAIN ToMs
  BY MobTakes DEF ReceiveI, WellFormed
<1>2. Mob \in Lap /\ OneInv /\ BTS \in E /\ MS \in E /\ BTS # MS /\ Peer(MS) = BTS
  BY SituationTyped DEF Situation
<1>3. /\ f.nr \in 0 .. Modulus - 1 /\ f.pf \in BOOLEAN /\ f.more \in BOOLEAN
      /\ SegmentOf(f) \in Segment
  BY <1>1, SegmentType DEF Frame
<1>4. Mob.VS = 0 /\ (InMultiframe(Mob) => Mob.state = "LinkEstablished" /\ ~Mob.t200)
  BY <1>2 DEF OneInv, Calm, MobStation, InMultiframe
<1>5. /\ acked \in Lap /\ acked.state = "LinkEstablished" /\ acked.VS = 0 /\ acked.VA = 0
      /\ acked.VR = Mob.VR /\ acked.sentFrame = Mob.sentFrame /\ acked.t200 = FALSE
      /\ acked.recvBuffer = Mob.recvBuffer
  BY <1>1, <1>2, <1>3, <1>4, AckFields
<1> HIDE DEF acked, f
<1>6. vr = NextSeq(Mob.VR) /\ vr \in 0 .. Modulus - 1 /\ acked.VR \in 0 .. Modulus - 1
  BY <1>5, BoundsAssumption DEF NextSeq, Lap
<1>7. /\ rr \in Frame /\ rr.type = "RR" /\ rr.pf = f.pf /\ rr.nr = vr
      /\ rej \in Frame /\ rej.type = "REJ" /\ rej.pf = f.pf /\ rej.nr = acked.VR
  BY <1>2, <1>3, <1>6, SupervisoryFrame
<1>8. /\ new \in Lap /\ new.state = "LinkEstablished" /\ new.VS = 0 /\ new.VA = 0
      /\ new.VR = vr /\ new.sentFrame = Mob.sentFrame /\ new.t200 = FALSE
      /\ new.recvBuffer = IF f.more THEN part ELSE << >>
  <2>1. part \in Seq(Segment)
    BY <1>3, <1>5 DEF Lap
  <2>2. (IF f.more THEN part ELSE << >>) \in Seq(Segment)
    BY <2>1
  <2> HIDE DEF part, vr
  <2>3. QED
    BY <1>5, <1>6, <2>2 DEF Lap
<1>9. part = Append(Mob.recvBuffer, SegmentOf(f))
  BY <1>5
<1> HIDE DEF new, rr, rej, vr, part
<1>10. Expected(acked, f) <=> f.ns = Mob.VR
  BY <1>5 DEF Expected
<1>11. /\ UNCHANGED <<link, tx>>
       /\ \/ OutOfMultiframe(MS) /\ UNCHANGED <<reached, delivered>>
          \/ /\ InMultiframe(Mob) /\ Expected(acked, f) /\ React(MS, new, <<rr>>, "none")
             /\ reached' = [reached EXCEPT ![BTS] = IF f.link = link[BTS] THEN f.n ELSE @]
          \/ /\ InMultiframe(Mob) /\ ~Expected(acked, f) /\ React(MS, acked, <<rej>>, "none")
             /\ UNCHANGED reached
  BY <1>1, <1>2 DEF ReceiveI, Mob, acked, new, rr, rej, vr, part
<1>12. \/ OutOfMultiframe(MS)
       \/ delivered' = [delivered EXCEPT ![MS] = IF f.more THEN @ ELSE @ \o part]
       \/ ~Expected(acked, f)
  BY <1>1, IHandsUp DEF acked, part, Mob
<1>13. OutOfMultiframe(MS) \/ delivered' = delivered \/ Expected(acked, f)
  BY <1>1, IKeepsBack DEF acked, Mob
<1>14. OutOfMultiframe(MS) => ~InMultiframe(Mob)
  BY DEF OutOfMultiframe, Mob
<1>15. CASE OutOfMultiframe(MS)
  BY <1>11, <1>14, <1>15 DEF OnSameLink
<1>16. CASE ~OutOfMultiframe(MS) /\ Expected(acked, f)
  <2>1. delivered[MS] \in Seq(Segment) /\ Mob.recvBuffer \in Seq(Segment)
    BY <1>2 DEF Situation, TypeOK, Lap
  <2>2. /\ delivered[MS] \o part = Append(Kept, SegmentOf(f))
        /\ (delivered[MS] \o part) \o << >> = Append(Kept, SegmentOf(f))
    BY <1>3, <1>9, <2>1, OneMore DEF Kept
  <2>3. /\ delivered'[MS] = IF f.more THEN delivered[MS] ELSE delivered[MS] \o part
        /\ delivered'[BTS] = delivered[BTS]
    <3>1. DOMAIN delivered = E
      BY DEF Situation, TypeOK
    <3>2. delivered' = [delivered EXCEPT ![MS] = IF f.more THEN @ ELSE @ \o part]
      BY <1>12, <1>16
    <3>3. QED
      BY <1>2, <1>3, <3>1, <3>2
  <2>4. delivered'[MS] \o new.recvBuffer = Append(Kept, SegmentOf(f))
    BY <1>3, <1>8, <2>2, <2>3
  <2>5. TakesI(new, rr, f)
    BY <1>1, <1>6, <1>7, <1>8, <1>10, <1>11, <1>16, <2>3, <2>4 DEF Ack, TakesI
  <2>6. QED
    BY <1>7, <1>8, <2>5 DEF f
<1>17. CASE ~OutOfMultiframe(MS) /\ ~Expected(acked, f)
  <2>1. TakesI(acked, rej, f)
    BY <1>1, <1>5, <1>7, <1>10, <1>11, <1>13, <1>17 DEF Ack, TakesI
  <2>2. QED
    BY <1>5, <1>7, <2>1 DEF f
<1>18. QED
  BY <1>15, <1>16, <1>17

LEMMA MobIOne ==
  ASSUME Situation, ReceiveI(MS) PROVE OneInv'
<1> DEFINE f == ToMs[1]
<1>1. /\ chan[MS] # << >> /\ f \in Frame /\ f.type = "I" /\ SegmentOf(f) \in Segment
      /\ SegmentOf(f).link = f.link /\ 1 \in DOMAIN ToMs
  BY MobTakes, SegmentType DEF ReceiveI, SegmentOf
<1>2. /\ Mob \in Lap /\ ToBts \in Seq(Frame) /\ Typed /\ OneInv
      /\ BTS \in E /\ MS \in E /\ BTS # MS
  BY SituationTyped DEF Situation
<1>3. CASE OutOfMultiframe(MS) /\ OnSameLink
  <2>1. [Mob EXCEPT !.inProgress = FALSE] \in Lap /\ Alike(Mob, [Mob EXCEPT !.inProgress = FALSE])
    BY <1>2 DEF Lap, Alike
  <2>2. React(MS, [Mob EXCEPT !.inProgress = FALSE], << >>, "none")
    BY <1>3 DEF OutOfMultiframe, Mob
  <2>3. QED
    BY <1>1, <1>3, <2>1, <2>2, MobIgnores
<1> HIDE DEF f
<1>4. ASSUME NEW r \in Lap, NEW g \in Frame, TakesI(r, g, f) PROVE OneInv'
  <2>1. /\ Alike(r, Mob') /\ BtsUntouched /\ Shortened(ToMs, ToMs')
        /\ ToBts' = Put(ToBts, <<g>>) /\ thr' = thr
    BY <1>1, <1>4, ReactAtMs DEF TakesI
  <2>2. ToBts' = ToBts \/ Extended(ToBts, ToBts', g)
    BY <1>2, <2>1, PutExtends
  <2>3. /\ Lk' = Lk /\ Sent' = Sent /\ tx'[MS] = tx[MS] /\ reached'[MS] = reached[MS]
    BY <1>2, <1>4 DEF TakesI, Situation, TypeOK, Lk, Sent
  <2>4. \/ /\ ToMs[1].ns = Mob.VR /\ Mob'.VR = NextSeq(Mob.VR)
           /\ Arrived' = IF ToMs[1].link = Lk THEN ToMs[1].n ELSE Arrived
           /\ Len(Kept') = Len(Kept) + 1 /\ Kept' # << >>
           /\ Kept'[1].link = IF Kept = << >> THEN ToMs[1].link ELSE Kept[1].link
        \/ /\ ToMs[1].ns # Mob.VR /\ Mob'.VR = Mob.VR /\ Arrived' = Arrived
           /\ Kept' = Kept
    <3>1. Kept' = delivered'[MS] \o r.recvBuffer
      BY <2>1 DEF Kept, Alike
    <3>2. Mob'.VR = r.VR
      BY <2>1 DEF Alike
    <3>3. delivered[MS] \in Seq(Segment) /\ Mob.recvBuffer \in Seq(Segment)
      BY <1>2 DEF Situation, TypeOK, Lap
    <3>4. LET k == Append(Kept, SegmentOf(f))
          IN  /\ Len(k) = Len(Kept) + 1 /\ k # << >>
              /\ k[1] = IF Kept = << >> THEN SegmentOf(f) ELSE Kept[1]
      BY <1>1, <3>3, OneMore DEF Kept
    <3>5. CASE f.ns = Mob.VR
      <4>1. Arrived' = IF ToMs[1].link = Lk THEN ToMs[1].n ELSE Arrived
        BY <1>2, <1>4, <3>5 DEF TakesI, Situation, TypeOK, Arrived, Lk, f
      <4>2. Kept' = Append(Kept, SegmentOf(f)) /\ Mob'.VR = NextSeq(Mob.VR)
        BY <1>4, <3>1, <3>2, <3>5 DEF TakesI
      <4>3. Kept'[1].link = IF Kept = << >> THEN f.link ELSE Kept[1].link
        BY <1>1, <3>4, <4>2
      <4>4. QED
        BY <3>4, <3>5, <4>1, <4>2, <4>3 DEF f
    <3>6. CASE f.ns # Mob.VR
      BY <1>4, <3>1, <3>2, <3>6 DEF TakesI, f, Arrived, Kept
    <3>7. QED
      BY <3>5, <3>6
  <2>5. /\ Mob'.state = "LinkEstablished" /\ Mob'.VS = 0 /\ Mob'.VA = 0 /\ Mob'.t200 = FALSE
        /\ WellFormed(Mob'.sentFrame) /\ thr'[MS] = thr[MS] /\ g.nr = Mob'.VR
        /\ Ack(g) /\ ~g.pf
    BY <1>2, <1>4, <2>1 DEF TakesI, OneInv, Calm, MobStation, Alike
  <2>6. Mob.state = "LinkEstablished" /\ ToMs[1].type = "I" /\ NextSeq(Mob.VR) # Mob.VR
    BY <1>1, <1>2, <1>4, NextSeqMoves DEF TakesI, f, Lap, OneInv, Calm, MobStation, InMultiframe
  <2>7. CASE ToBts' = ToBts
    BY <1>2, <2>1, <2>3, <2>4, <2>5, <2>6, <2>7, MobHears
  <2>8. CASE Extended(ToBts, ToBts', g)
    BY <1>2, <2>1, <2>3, <2>4, <2>5, <2>6, <2>8, MobHears
  <2>9. QED
    BY <2>2, <2>7, <2>8
<1>5. QED
  BY <1>3, <1>4, MobIOutcome DEF f

LEMMA MobReceivesOne ==
  ASSUME Situation, Receive(MS) PROVE OneInv'
<1>1. Arrives(MS, "PH_CONNECT") \/ Arrives(MS, "SABM") \/ Arrives(MS, "RR")
      \/ Arrives(MS, "REJ") => FALSE
  BY MobTakes
<1>2. ~ReceivePhConnect(MS) /\ ~ReceiveSABM(MS) /\ ~ReceiveRR(MS) /\ ~ReceiveREJ(MS)
  BY <1>1 DEF ReceivePhConnect, ReceiveSABM, ReceiveRR, ReceiveREJ
<1>3. QED
  BY <1>2, MobDISCOne, MobUAOne, MobDMOne, MobIOne DEF Receive
-----------------------------------------------------------------------------
(* The handset's timer and its L3 downlink thread.                         *)
LEMMA MobTimerOne ==
  ASSUME Situation, OneWay, T200Expiration(MS) PROVE OneInv'
<1> DEFINE r == ReleaseLink(Mob)
           s == RetransmissionProcedure(Mob)
           f == Mob.sentFrame
<1>1. /\ Mob \in Lap /\ ToBts \in Seq(Frame) /\ Typed /\ OneInv
      /\ BTS \in E /\ MS \in E /\ BTS # MS /\ Peer(MS) = BTS
  BY SituationTyped DEF Situation
<1>2. /\ Mob.t200 /\ DOMAIN ToBts = {} /\ DOMAIN ToMs = {} /\ OnSameLink /\ thr' = thr
  BY QuietAir DEF OneWay, T200Expiration, Mob
<1>3. SameCounts
  BY <1>2 DEF OnSameLink, SameCounts, Lk, Sent, Arrived
<1>4. /\ Mob.VS = 0 /\ Mob.VA = 0 /\ WellFormed(f)
      /\ Mob.state = "AwaitingRelease" => f.type = "DISC" /\ thr[MS].pc = "release"
      /\ Mob.state = "AwaitingEstablish" => f.type = "SABM" /\ thr[MS].pc # "release"
      /\ Mob.state \in {"AwaitingEstablish", "AwaitingRelease"}
  <2>1. /\ Mob.VS = 0 /\ Mob.VA = 0 /\ WellFormed(f)
        /\ Mob.state = "AwaitingRelease" => f.type = "DISC" /\ thr[MS].pc = "release"
        /\ Mob.state = "AwaitingEstablish" => f.type = "SABM" /\ thr[MS].pc # "release"
        /\ Mob.state \notin {"ContentionResolution", "LinkEstablished"}
    BY <1>1, <1>2 DEF OneInv, Calm, MobStation
  <2>2. Mob.state # "LinkReleased"
    BY <1>1, <1>2 DEF Situation, AwaitingIsTimed, State, Mob
  <2>3. QED
    BY <1>1, <2>1, <2>2 DEF Lap, LAPDState
<1>5. /\ r \in Lap /\ r.state = "LinkReleased" /\ r.VS = 0 /\ r.VA = 0
      /\ r.sentFrame = Mob.sentFrame
  BY <1>1, AlikeFields
<1> HIDE DEF r
<1>6. CASE lap' = [lap EXCEPT ![MS] = Reread(r)] /\ UNCHANGED chan
  <2>1. Mob' = Reread(r) /\ BtsUntouched /\ ToBts' = ToBts /\ ToMs' = ToMs
    BY <1>1, <1>2, <1>6 DEF Situation, TypeOK, Bts, Mob, ToBts, ToMs, BtsUntouched
  <2>2. Alike(r, Mob')
    BY <1>5, <2>1, AlikeFields
  <2>3. /\ Mob'.state = "LinkReleased" /\ Mob'.VS = 0 /\ Mob'.VA = 0
        /\ WellFormed(Mob'.sentFrame) /\ thr'[MS] = thr[MS]
    BY <1>2, <1>4, <1>5, <2>2 DEF Alike
  <2>4. QED
    BY <1>1, <1>2, <1>3, <2>1, <2>3, MobIsOut
<1>7. CASE /\ Mob.RC <= N200 /\ lap' = [lap EXCEPT ![MS] = Reread(s)]
           /\ chan' = [chan EXCEPT ![BTS] = Put(@, <<f>>)]
  <2>1. Mob' = Reread(s) /\ BtsUntouched /\ ToMs' = ToMs /\ ToBts' = Put(ToBts, <<f>>)
    BY <1>1, <1>2, <1>7 DEF Situation, TypeOK, Bts, Mob, ToBts, ToMs, BtsUntouched
  <2>2. s \in Lap /\ Alike(Mob, s)
    <3>1. s \in Lap
      BY <1>1, <1>7, LapTypes
    <3>2. Mob.t200 = TRUE
      BY <1>1, <1>2 DEF Lap
    <3>3. QED
      BY <1>1, <3>1, <3>2 DEF RetransmissionProcedure, Alike, Lap
  <2> HIDE DEF s
  <2>3. Alike(s, Mob')
    BY <2>1, <2>2, AlikeFields
  <2>4. f \in Frame /\ Mob.sentFrame = f
    BY <1>1 DEF Lap, SapFrame
  <2>5. /\ ToBts' = ToBts \/ Extended(ToBts, ToBts', f)
        /\ ToBts' = ToBts \/ (Extended(ToBts, ToBts', f) /\ \A i \in DOMAIN ToBts' : i = 1)
    BY <1>1, <1>2, <2>1, <2>4, PutExtends
  <2>6. /\ Mob'.state = Mob.state /\ Mob'.VS = 0 /\ Mob'.VA = 0 /\ Mob'.sentFrame = f
        /\ thr'[MS] = thr[MS]
    BY <1>2, <1>4, <2>2, <2>3, <2>4 DEF Alike
  <2> HIDE DEF f
  <2>7. CASE Mob.state = "AwaitingEstablish"
    <3>1. f.type = "SABM" /\ f.pf /\ thr'[MS].pc \in {"idle", "lockSABM"}
      BY <1>1, <1>4, <2>6, <2>7 DEF WellFormed, OneInv, Calm, MobStation
    <3>2. QED
      BY <1>1, <1>2, <1>3, <2>1, <2>5, <2>6, <2>7, <3>1, MobAsks
  <2>8. CASE Mob.state = "AwaitingRelease"
    <3>1. f.type = "DISC" /\ f.pf /\ thr'[MS].pc = "release"
      BY <1>4, <2>6, <2>8 DEF WellFormed
    <3>2. QED
      BY <1>1, <1>2, <1>3, <2>1, <2>5, <2>6, <2>8, <3>1, MobLeaves
  <2>9. QED
    BY <1>4, <2>7, <2>8
<1>8. QED
  BY <1>1, <1>6, <1>7 DEF T200Expiration, Mob, r

LEMMA MobIdleTimeoutOne ==
  ASSUME Situation, IdleTimeout(MS) PROVE OneInv'
<1>1. Mob \in Lap /\ Typed /\ BTS \in E /\ MS \in E /\ BTS # MS /\ OneInv
  BY SituationTyped DEF Situation
<1>2. Mob' = Reread(Mob) /\ BtsUntouched /\ ToBts' = ToBts /\ ToMs' = ToMs /\ thr' = thr
  BY <1>1 DEF Situation, TypeOK, IdleTimeout, Bts, Mob, ToBts, ToMs, BtsUntouched
<1>3. SameCounts
  BY DEF IdleTimeout, OnSameLink, SameCounts, Lk, Sent, Arrived
<1>4. Alike(Mob, Mob')
  BY <1>1, <1>2, AlikeFields
<1>5. thr'[MS].pc \in {"idle", "lockSABM", "release"} /\ thr'[MS] = thr[MS]
  BY <1>1, <1>2 DEF OneInv, Calm, MobStation
<1>6. QED
  BY <1>1, <1>2, <1>3, <1>4, <1>5, MobIsIdle

LEMMA MobThreadIdles ==
  ASSUME Situation, NEW pc \in {"idle", "lockSABM"}, Mob.state # "AwaitingRelease",
         BtsUntouched, SameCounts, Mob' = Mob, ToBts' = ToBts, ToMs' = ToMs,
         thr'[MS] = Goto(pc)
  PROVE  OneInv'
<1>1. Typed /\ OneInv
  BY SituationTyped DEF Situation
<1>2. /\ Alike(Mob, Mob') /\ thr'[MS].pc \in {"idle", "lockSABM", "release"}
      /\ thr'[MS].pc # "release"
  BY DEF Alike, Goto
<1>3. QED
  BY <1>1, <1>2, MobIsIdle

LEMMA MobSendDISCOne ==
  ASSUME Situation, SendDISC(MS), Mob.state # "LinkReleased" PROVE OneInv'
<1> DEFINE c == ClearCounters(Mob)
           r == [c EXCEPT !.inProgress = FALSE, !.state = "AwaitingRelease"]
           f == Command(MS, "DISC")
<1>1. Mob \in Lap /\ ToBts \in Seq(Frame) /\ Typed /\ MS \in E /\ OneInv
  BY SituationTyped DEF Situation
<1>2. c \in Lap /\ c.VS = 0 /\ c.VA = 0
  BY <1>1, AlikeFields
<1> HIDE DEF c
<1>3. r \in Lap /\ r.VS = 0 /\ r.VA = 0 /\ r.state = "AwaitingRelease"
  BY <1>2 DEF Lap, LAPDState
<1>4. f \in Frame /\ f.type = "DISC" /\ f.pf
  BY <1>1, CommandFields DEF FrameType
<1>5. Downlink(MS, WriteL1Ack(r, f), <<f>>, l3[MS], Goto("release")) /\ OnSameLink
  BY DEF SendDISC, Mob, c
<1> HIDE DEF f, r
<1>6. /\ Mob' = WriteL1Ack(r, f) /\ BtsUntouched /\ ToMs' = ToMs /\ ToBts' = Put(ToBts, <<f>>)
      /\ thr'[MS] = Goto("release") /\ SameCounts
  BY <1>5, DownlinkAtMs
<1>7. /\ Mob'.state = "AwaitingRelease" /\ Mob'.VS = 0 /\ Mob'.VA = 0 /\ Mob'.sentFrame = f
  BY <1>3, <1>4, <1>6, WrittenFields
<1>8. thr'[MS].pc = "release"
  BY <1>6 DEF Goto
<1>9. ToBts' = ToBts \/ Extended(ToBts, ToBts', f)
  BY <1>1, <1>4, <1>6, PutExtends
<1>10. QED
  BY <1>1, <1>4, <1>6, <1>7, <1>8, <1>9, MobLeaves

LEMMA MobSendSABMOne ==
  ASSUME Situation, OneWay, SendSABM(MS) PROVE OneInv'
<1> DEFINE c == ClearCounters(Mob)
           r == [c EXCEPT !.state = "AwaitingEstablish"]
           g == Command(MS, "SABM")
<1>1. Mob \in Lap /\ ToBts \in Seq(Frame) /\ Typed /\ MS \in E /\ BTS # MS /\ OneInv
  BY SituationTyped DEF Situation
<1>2. c \in Lap /\ c.VS = 0 /\ c.VA = 0
  BY <1>1, AlikeFields
<1> HIDE DEF c
<1>3. r \in Lap /\ r.VS = 0 /\ r.VA = 0 /\ r.state = "AwaitingEstablish"
  BY <1>2 DEF Lap, LAPDState
<1>4. DOMAIN ToBts = {} /\ DOMAIN ToMs = {} /\ OnSameLink
  BY QuietAir DEF SendSABM, OneWay
<1>5. g \in Frame /\ g.type = "SABM" /\ g.pf
  BY <1>1, CommandFields DEF FrameType
<1> HIDE DEF r, g
<1>6. PICK i \in SabmInfo :
        Downlink(MS, WriteL1Ack(r, [g EXCEPT !.info = i]), <<[g EXCEPT !.info = i]>>,
                 l3[MS], Idle)
  BY DEF SendSABM, Mob, c, r, g
<1> DEFINE f == [g EXCEPT !.info = i]
<1>7. f \in Frame /\ f.type = "SABM" /\ f.pf
  BY <1>5 DEF Frame
<1> HIDE DEF f
<1>8. Downlink(MS, WriteL1Ack(r, f), <<f>>, l3[MS], Idle)
  BY <1>6 DEF f
<1>9. /\ Mob' = WriteL1Ack(r, f) /\ BtsUntouched /\ ToMs' = ToMs /\ ToBts' = Put(ToBts, <<f>>)
      /\ thr'[MS] = Idle /\ SameCounts
  BY <1>4, <1>8, DownlinkAtMs
<1>10. /\ Mob'.state = "AwaitingEstablish" /\ Mob'.VS = 0 /\ Mob'.VA = 0
       /\ Mob'.sentFrame = f
  BY <1>3, <1>7, <1>9, WrittenFields
<1>11. thr'[MS].pc \in {"idle", "lockSABM"}
  BY <1>9 DEF Idle, Goto
<1>12. ToBts' = ToBts \/ (Extended(ToBts, ToBts', f) /\ \A j \in DOMAIN ToBts' : j = 1)
  BY <1>1, <1>4, <1>7, <1>9, PutExtends
<1>13. QED
  BY <1>1, <1>4, <1>7, <1>9, <1>10, <1>11, <1>12, MobAsks

LEMMA MobThreadOne ==
  ASSUME Situation, OneWay, Resume(MS) \/ Call(MS) PROVE OneInv'
<1>1. /\ Mob \in Lap /\ BTS \in E /\ MS \in E /\ BTS # MS /\ ToBts \in Seq(Frame)
      /\ OneInv
  BY SituationTyped DEF Situation
<1>2. /\ Mob.VS = 0 /\ Mob.VA = 0 /\ thr[MS].pc \in {"idle", "lockSABM", "release"}
      /\ thr[MS].pc = "release" => Mob.state \in {"AwaitingRelease", "LinkReleased"}
      /\ Mob.state = "AwaitingRelease" => thr[MS].pc = "release"
  BY <1>1 DEF OneInv, Calm, MobStation
<1>3. ~DataRequest(MS) /\ ~DataAcked(MS) /\ ~Drained(MS) /\ ~HardRelease(MS)
  BY <1>1, <1>2 DEF DataRequest, DataAcked, Drained, HardRelease, OneWay
<1>4. Calls(MS) => Mob.state # "AwaitingRelease"
  BY <1>2 DEF Calls, Idle, Goto
<1>5. ASSUME NEW belief, Downlink(MS, Mob, << >>, belief, Idle), OnSameLink,
             Mob.state # "AwaitingRelease"
      PROVE  OneInv'
  <2>1. /\ Mob' = Mob /\ BtsUntouched /\ ToMs' = ToMs /\ ToBts' = Put(ToBts, << >>)
        /\ thr'[MS] = Goto("idle") /\ SameCounts
    BY <1>5, DownlinkAtMs DEF Idle
  <2>2. ToBts' = ToBts
    BY <1>1, <2>1, PutExtends, BlankType
  <2>3. QED
    BY <1>5, <2>1, <2>2, MobThreadIdles
<1>6. CASE EstablishRequest(MS)
  <2>1. OnSameLink /\ Calls(MS)
    BY <1>6 DEF EstablishRequest
  <2>2. CASE Downlink(MS, Mob, << >>, Told(l3[MS], "L3_ESTABLISH_CONFIRM"), Idle)
    BY <1>4, <1>5, <2>1, <2>2
  <2>3. CASE thr' = [thr EXCEPT ![MS] = Goto("lockSABM")] /\ UNCHANGED <<lap, chan>>
    <3>1. BtsUntouched /\ SameCounts /\ Mob' = Mob /\ ToBts' = ToBts /\ ToMs' = ToMs
          /\ thr'[MS] = Goto("lockSABM")
      BY <1>1, <2>1, <2>3
      DEF Situation, TypeOK, OnSameLink, SameCounts, BtsUntouched, Bts, Mob, ToBts, ToMs, Lk,
          Sent, Arrived
    <3>2. QED
      BY <1>4, <2>1, <3>1, MobThreadIdles
  <2>4. QED
    BY <1>6, <2>2, <2>3 DEF EstablishRequest, Mob
<1>7. CASE SendSABM(MS)
  BY <1>7, MobSendSABMOne
<1>8. CASE ReleaseRequest(MS)
  <2>1. Mob.state # "LinkReleased" /\ (Mob.state = "LinkEstablished" => AckReady(Mob))
    BY <1>2, <1>8 DEF ReleaseRequest, AckReady, InMultiframe, State, Mob
  <2>2. SendDISC(MS)
    BY <1>8, <2>1 DEF ReleaseRequest, State, Mob
  <2>3. QED
    BY <2>1, <2>2, MobSendDISCOne
<1>9. CASE ReleaseDone(MS)
  <2>1. Mob.state # "AwaitingRelease" /\ Downlink(MS, Mob, << >>, l3[MS], Idle) /\ OnSameLink
    BY <1>9 DEF ReleaseDone, AckReady, InMultiframe, Mob
  <2>2. QED
    BY <1>5, <2>1
<1>10. QED
  BY <1>3, <1>6, <1>7, <1>8, <1>9 DEF Resume, Call
-----------------------------------------------------------------------------
(* The radio, and any step.                                                *)
LEMMA LoseOne == ASSUME Situation, NEW e \in E, Lose(e) PROVE OneInv'
<1>1. /\ Bts \in Lap /\ Mob \in Lap /\ ToBts \in Seq(Frame) /\ ToMs \in Seq(Frame) /\ Typed
      /\ OneInv /\ BTS \in E /\ MS \in E /\ BTS # MS
  BY SituationTyped DEF Situation
<1>2. /\ thr' = thr /\ Bts' = Bts /\ Mob' = Mob /\ BtsUntouched /\ MobUntouched
      /\ SameCounts
  BY DEF Lose, OnSameLink, SameCounts, BtsUntouched, MobUntouched, Bts, Mob, Lk, Sent, Arrived
<1>3. /\ Alike(Bts, Bts') /\ Bts'.inProgress = Bts.inProgress /\ Alike(Mob, Mob')
      /\ thr'[BTS].pc # "lockSABM" /\ thr'[BTS] = thr[BTS] /\ thr'[MS] = thr[MS]
      /\ thr'[MS].pc \in {"idle", "lockSABM", "release"}
  BY <1>1, <1>2 DEF Alike, OneInv, Calm, BtsStation, MobStation
<1>4. CASE e = BTS
  <2>1. ToMs' = ToMs /\ ToBts # << >> /\ ToBts' = Tail(ToBts)
    BY <1>1, <1>4 DEF Lose, Situation, TypeOK, ToMs, ToBts
  <2>2. Shortened(ToBts, ToBts')
    BY <1>1, <2>1, TailShortens
  <2>3. QED
    BY <1>1, <1>2, <1>3, <2>1, <2>2, BtsIsIdle
<1>5. CASE e = MS
  <2>1. ToBts' = ToBts /\ ToMs # << >> /\ ToMs' = Tail(ToMs)
    BY <1>1, <1>5 DEF Lose, Situation, TypeOK, ToMs, ToBts
  <2>2. Shortened(ToMs, ToMs')
    BY <1>1, <2>1, TailShortens
  <2>3. QED
    BY <1>1, <1>2, <1>3, <2>1, <2>2, MobIsIdle
<1>6. QED
  BY <1>4, <1>5 DEF E

LEMMA OneInit == Init => OneInv
<1> SUFFICES ASSUME Init PROVE OneInv
  OBVIOUS
<1>1. BTS \in E /\ MS \in E /\ BTS # MS
  BY EntityAssumption DEF E
<1>2. /\ Bts = Opened /\ Mob = Opened /\ thr[BTS] = Idle /\ thr[MS] = Idle /\ ToMs = << >>
      /\ ToBts = <<[Blank EXCEPT !.type = "PH_CONNECT"]>>
      /\ Sent = 0 /\ Arrived = 0 /\ tx[MS] = 0 /\ reached[MS] = 0
  BY <1>1 DEF Init, Bts, Mob, ToMs, ToBts, Sent, Arrived
<1>3. /\ DOMAIN ToMs = {} /\ DOMAIN ToBts = {1} /\ ToBts[1].type = "PH_CONNECT"
  <2>1. [Blank EXCEPT !.type = "PH_CONNECT"].type = "PH_CONNECT"
    BY DEF Blank
  <2>2. \A g : DOMAIN <<g>> = {1} /\ <<g>>[1] = g
    <3>1. TAKE g
    <3>2. <<g>>[1] = g /\ Len(<<g>>) = 1 /\ DOMAIN <<g>> = 1 .. 1
      OBVIOUS
    <3>3. 1 .. 1 = {1}
      OBVIOUS
    <3>4. QED
      BY <3>2, <3>3
  <2>3. DOMAIN << >> = {}
    OBVIOUS
  <2>4. QED
    BY <1>2, <2>1, <2>2, <2>3
<1>4. /\ Opened.state = "LinkReleased" /\ Opened.VS = 0 /\ Opened.VA = 0 /\ Opened.VR = 0
      /\ Opened.sentFrame.type = "idleFill" /\ Idle.pc = "idle"
  BY DEF Opened, Blank, Idle, Goto
<1>5. BtsStation /\ MobStation /\ Counts
  BY <1>2, <1>4 DEF BtsStation, MobStation, Counts, WellFormed
<1>6. AirToMs /\ AirToBts /\ Greeting /\ Asked
  BY <1>2, <1>3, <1>4 DEF AirToMs, AirToBts, Greeting, Asked, WellFormed
<1>7. ~Multi
  BY <1>2, <1>4 DEF Multi
<1>8. Story
  BY <1>2, <1>4, <1>7 DEF Story, Hearing, Starting, Young
<1>9. QED
  BY <1>5, <1>6, <1>7, <1>8 DEF OneInv, Calm

LEMMA OneStep == Situation /\ OneWay /\ [Next]_vars => OneInv'
<1> SUFFICES ASSUME Situation, OneWay, [Next]_vars PROVE OneInv'
  OBVIOUS
<1>1. CASE UNCHANGED vars
  <2>1. /\ Bts' = Bts /\ Mob' = Mob /\ ToBts' = ToBts /\ ToMs' = ToMs /\ thr' = thr
        /\ Lk' = Lk /\ Sent' = Sent /\ Arrived' = Arrived /\ tx' = tx /\ reached' = reached
        /\ Kept' = Kept
    BY <1>1 DEF vars, Bts, Mob, ToBts, ToMs, Lk, Sent, Arrived, Kept
  <2>2. Calm'
    BY <2>1
    DEF Situation, OneInv, Calm, BtsStation, MobStation, Counts, AirToMs, AirToBts, Greeting, Asked
  <2>3. (Multi => Flow)'
    BY <2>1
    DEF Situation, OneInv, Flow, Sender, OnAirToMs, OnAirToBts, Listener, Multi, Out, Begun
  <2>4. Story'
    BY <2>1 DEF Situation, OneInv, Story, Hearing, Starting, Young, Multi, Out
  <2>5. QED
    BY <2>2, <2>3, <2>4 DEF OneInv
<1>2. ~Stray
  BY DEF Stray, OneWay
<1>3. ASSUME NEW e \in E, ServiceThread(e) \/ Resume(e) \/ Call(e) \/ Lose(e)
      PROVE  OneInv'
  <2>1. CASE e = BTS
    BY <1>3, <2>1, BtsReceivesOne, BtsTimerOne, BtsIdleTimeoutOne, BtsThreadOne, LoseOne
    DEF ServiceThread
  <2>2. CASE e = MS
    BY <1>3, <2>2, MobReceivesOne, MobTimerOne, MobIdleTimeoutOne, MobThreadOne, LoseOne
    DEF ServiceThread
  <2>3. QED
    BY <1>3, <2>1, <2>2 DEF E
<1>4. QED
  BY <1>1, <1>2, <1>3 DEF Next

(* What OneInv says of the two properties.                                 *)
LEMMA OneOutstandingHere == Situation => OneOutstanding
<1> SUFFICES ASSUME Situation PROVE OneOutstanding
  OBVIOUS
<1>1. Typed /\ BTS \in E /\ MS \in E /\ Mob \in Lap /\ Bts \in Lap
  BY SituationTyped DEF Situation
<1>2. /\ tx[MS] = 0 /\ reached[MS] = 0 /\ (Sent = Arrived \/ Sent = Arrived + 1)
      /\ Multi => (Sent = Arrived \/ Bts.t200)
  BY DEF Situation, OneInv, Calm, Counts, Flow, Sender
<1>3. Sent - Arrived \in {0, 1} /\ (Multi /\ Sent > Arrived => Bts.t200)
  BY <1>1, <1>2 DEF Typed
<1>4. QED
  BY <1>2, <1>3 DEF OneOutstanding, E, Sent, Arrived, Multi, InMultiframe, Bts

LEMMA BlockedIsTimedHere == Situation => BlockedIsTimed
<1> SUFFICES ASSUME Situation PROVE BlockedIsTimed
  OBVIOUS
<1>1. Bts \in Lap /\ Mob \in Lap /\ BTS \in E /\ MS \in E
  BY SituationTyped DEF Situation
<1>2. Bts.state \in {"AwaitingEstablish", "AwaitingRelease"} => Bts.t200
  BY <1>1 DEF Situation, AwaitingIsTimed, State, Bts
<1>3. Multi /\ Bts.VS # Bts.VA => Bts.t200
  BY DEF Situation, OneInv, Flow, Sender, Out
<1>4. ~AckReady(Bts) => Bts.t200
  BY <1>1, <1>2, <1>3 DEF AckReady, InMultiframe, Multi, Lap, LAPDState
<1>5. ~AckReady(Mob) => Mob.t200
  <2>1. Mob.state \in {"AwaitingEstablish", "AwaitingRelease"} => Mob.t200
    BY <1>1 DEF Situation, AwaitingIsTimed, State, Mob
  <2>2. Mob.VS = 0 /\ Mob.VA = 0
    BY DEF Situation, OneInv, Calm, MobStation
  <2>3. QED
    BY <1>1, <2>1, <2>2 DEF AckReady, InMultiframe, Lap, LAPDState
<1>6. QED
  BY <1>4, <1>5 DEF BlockedIsTimed, E, Bts, Mob

LEMMA OneAlways == ASSUME OneWay PROVE Spec => []Situation
<1>1. Init => OneInv
  BY OneInit
<1>2. TypeOK /\ AwaitingIsTimed /\ OneInv /\ [Next]_vars => OneInv'
  BY OneStep DEF Situation
<1>3. Spec => []TypeOK /\ []AwaitingIsTimed
  BY TypeCorrect, AwaitingTimed
<1>4. QED
  BY <1>1, <1>2, <1>3, PTL DEF Spec, Situation

(* Where one end asks for links and the other sends and releases them, on  *)
(* a radio that is quiet before each SABM, for every window, message       *)
(* length, number of retransmissions and of links: the sender is never two *)
(* segments ahead, and one that has not arrived has T200 running.          *)
THEOREM OneOutstandingAlways == ASSUME OneWay PROVE Spec => []OneOutstanding
<1>1. Spec => []Situation
  BY OneAlways
<1>2. QED
  BY <1>1, OneOutstandingHere, PTL

(* Under the same hypotheses no thread waits in waitForAck without a T200  *)
(* that will end its wait: the code's waitForAck has no timeout of its own.*)
THEOREM BlockedIsTimedAlways == ASSUME OneWay PROVE Spec => []BlockedIsTimed
<1>1. Spec => []Situation
  BY OneAlways
<1>2. QED
  BY <1>1, BlockedIsTimedHere, PTL
-----------------------------------------------------------------------------
(* The service of DataLink.  Its state, read off LAPDm's.                  *)
Up == {e \in E : InMultiframe(lap[e])}
HeardBy == [e \in E |-> Heard(e)]
Served == [Service!Next]_(Service!vars)

ItemOf(s) == [link |-> s.link, n |-> s.n]
Items(q) == [i \in DOMAIN q |-> ItemOf(q[i])]

LEMMA HeardIs == \A e \in E : /\ Heard(e) = Items(Accepted(e))
                              /\ HeardBy[e] = Items(Accepted(e))
BY DEF Heard, HeardBy, Items, ItemOf

Itemised == {ItemOf(s) : s \in Segment}
LEMMA ItemsType ==
  ASSUME NEW q \in Seq(Segment) PROVE Items(q) \in Seq(Itemised) /\ Len(Items(q)) = Len(q)
BY IsASeq DEF Items, Itemised

LEMMA ItemsOfLonger ==
  ASSUME NEW q \in Seq(Segment), NEW s \in Segment
  PROVE  Items(Append(q, s)) = Append(Items(q), ItemOf(s))
<1>1. ItemOf(s) \in Itemised /\ Items(q) \in Seq(Itemised) /\ Len(Items(q)) = Len(q)
  BY ItemsType DEF Itemised
<1>2. Append(q, s) \in Seq(Segment) /\ Len(Append(q, s)) = Len(q) + 1
  OBVIOUS
<1>3. /\ Items(Append(q, s)) \in Seq(Itemised)
      /\ Len(Items(Append(q, s))) = Len(Append(q, s))
  BY <1>2, ItemsType
<1>4. /\ Append(Items(q), ItemOf(s)) \in Seq(Itemised)
      /\ Len(Append(Items(q), ItemOf(s))) = Len(q) + 1
  BY <1>1
<1>5. ASSUME NEW i \in 1 .. Len(q) + 1
      PROVE  Items(Append(q, s))[i] = Append(Items(q), ItemOf(s))[i]
  <2>1. Items(Append(q, s))[i] = ItemOf(Append(q, s)[i])
    BY DEF Items
  <2>2. CASE i = Len(q) + 1
    <3>1. Append(Items(q), ItemOf(s))[i] = ItemOf(s)
      BY <1>1, <2>2
    <3>2. QED
      BY <2>1, <2>2, <3>1
  <2>3. CASE i # Len(q) + 1
    <3>1. i \in 1 .. Len(q)
      BY <2>3
    <3>2. Append(Items(q), ItemOf(s))[i] = Items(q)[i]
      BY <1>1, <3>1
    <3>3. Items(q)[i] = ItemOf(q[i])
      BY <3>1 DEF Items
    <3>4. QED
      BY <2>1, <3>1, <3>2, <3>3
  <2>4. QED
    BY <2>2, <2>3
<1>6. QED
  BY <1>2, <1>3, <1>4, <1>5, SeqEqual

LEMMA ItemsOfFirst ==
  ASSUME NEW q \in Seq(Segment), q # << >>
  PROVE  Items(q) # << >> /\ Items(q)[1].link = q[1].link
<1>1. 1 \in DOMAIN q /\ Len(q) # 0
  OBVIOUS
<1>2. Items(q)[1].link = q[1].link
  BY <1>1 DEF Items, ItemOf
<1>3. QED
  BY <1>1, <1>2, ItemsType

(* What is left of p \o q when q is thrown away is a prefix.               *)
LEMMA ItemsOfPrefix ==
  ASSUME NEW p \in Seq(Segment), NEW q \in Seq(Segment)
  PROVE  /\ Len(p) \in 0 .. Len(Items(p \o q))
         /\ Items(p \o << >>) = SubSeq(Items(p \o q), 1, Len(p))
<1>1. p \o q \in Seq(Segment) /\ Len(p \o q) = Len(p) + Len(q) /\ p \o << >> = p
  OBVIOUS
<1>2. Items(p \o q) \in Seq(Itemised) /\ Len(Items(p \o q)) = Len(p) + Len(q)
  BY <1>1, ItemsType
<1>3. Len(p) \in 0 .. Len(Items(p \o q))
  <2>1. Len(p) \in Nat /\ Len(q) \in Nat
    OBVIOUS
  <2>2. QED
    BY <1>2, <2>1
<1> DEFINE s == SubSeq(Items(p \o q), 1, Len(p))
<1>4. s \in Seq(Itemised) /\ Len(s) = Len(p)
  BY <1>2, <1>3
<1>5. ASSUME NEW i \in 1 .. Len(p) PROVE s[i] = Items(p)[i]
  <2>1. s[i] = Items(p \o q)[i]
    BY <1>2, <1>3
  <2>2. i \in DOMAIN (p \o q) /\ (p \o q)[i] = p[i] /\ i \in DOMAIN p
    BY <1>1
  <2>3. QED
    BY <2>1, <2>2 DEF Items
<1>6. Items(p) \in Seq(Itemised) /\ Len(Items(p)) = Len(p)
  BY ItemsType
<1>7. QED
  BY <1>1, <1>3, <1>4, <1>5, <1>6, SeqEqual
-----------------------------------------------------------------------------
(* The steps of the service.                                               *)
LEMMA StutterServed ==
  ASSUME Up' = Up, OnSameLink, HeardBy' = HeardBy PROVE Served
BY DEF Served, Service!vars, Up, HeardBy, OnSameLink

LEMMA LeaveServed ==
  ASSUME NEW e \in E, Up' = Up \ {e}, NEW k \in 0 .. Len(HeardBy[e]),
         HeardBy' = [HeardBy EXCEPT ![e] = SubSeq(@, 1, k)], UNCHANGED <<link, tx, reached>>
  PROVE  Served
BY DEF Served, Service!Next, Service!Leave, Up, HeardBy

LEMMA EnterServed ==
  ASSUME NEW e \in E, Up' = Up \cup {e}, HeardBy' = [HeardBy EXCEPT ![e] = << >>],
         link' = [link EXCEPT ![e] = @ + 1], tx' = [tx EXCEPT ![e] = 0],
         reached' = [reached EXCEPT ![e] = 0]
  PROVE  Served
BY DEF Served, Service!Next, Service!Enter, Up, HeardBy

LEMMA TransmitServed ==
  ASSUME NEW e \in E, e \in Up, reached[e] = tx[e], tx' = [tx EXCEPT ![e] = @ + 1],
         UNCHANGED <<Up, link, reached, HeardBy>>
  PROVE  Served
BY DEF Served, Service!Next, Service!Transmit, Up, HeardBy

LEMMA HearServed ==
  ASSUME NEW e \in E, Peer(e) \in Up, tx[e] = Len(HeardBy[Peer(e)]) + 1,
         HeardBy[Peer(e)] # << >> =>
           HeardBy[Peer(e)][1].link = link[e] /\ reached[e] = tx[e] - 1,
         reached' = [reached EXCEPT ![e] = tx[e]],
         HeardBy' = [HeardBy EXCEPT ![Peer(e)] =
                       Append(@, [link |-> link[e], n |-> tx[e]])],
         UNCHANGED <<Up, link, tx>>
  PROVE  Served
BY DEF Served, Service!Next, Service!Hear, Up, HeardBy
-----------------------------------------------------------------------------
(* A step of one end that leaves the link alone: it stays in multiframe    *)
(* mode with what it has heard, or is out of it with that or with what it  *)
(* had handed up already.                                                  *)
Staying(r, s) ==
  \/ s.recvBuffer = r.recvBuffer /\ (InMultiframe(s) => InMultiframe(r))
  \/ s.recvBuffer = << >> /\ ~InMultiframe(s)
Entering(s) == s.recvBuffer = << >> /\ InMultiframe(s)

LEMMA StayServed ==
  ASSUME TypeOK, NEW e \in E, NEW s \in Lap, lap' = [lap EXCEPT ![e] = s], OnSameLink,
         Staying(lap[e], s)
  PROVE  Served
<1> DEFINE p == delivered[e]
           q == lap[e].recvBuffer
<1>1. /\ p \in Seq(Segment) /\ q \in Seq(Segment)
      /\ Accepted(e) = p \o q /\ Accepted(e)' = p \o s.recvBuffer
  BY DEF TypeOK, Lap, Accepted, OnSameLink
<1>2. \A d \in E \ {e} : lap'[d] = lap[d] /\ Accepted(d)' = Accepted(d)
  BY DEF TypeOK, Accepted, OnSameLink
<1>3. \A d \in E \ {e} : HeardBy'[d] = HeardBy[d]
  BY <1>2, HeardIs DEF HeardBy, Heard
<1>4. lap'[e] = s
  BY DEF TypeOK
<1>5. HeardBy[e] = Items(p \o q) /\ HeardBy'[e] = Items(p \o s.recvBuffer)
  BY <1>1 DEF HeardBy, Heard, Items, ItemOf
<1>6. DOMAIN HeardBy = E /\ DOMAIN HeardBy' = E
  BY DEF HeardBy
<1>7. UNCHANGED <<link, tx, reached>>
  BY DEF OnSameLink
<1> HIDE DEF p, q
<1>8. CASE InMultiframe(s)
  <2>1. Up' = Up
    BY <1>2, <1>4, <1>8 DEF Up, Staying
  <2>2. HeardBy'[e] = HeardBy[e]
    BY <1>5, <1>8 DEF Staying, q
  <2>3. HeardBy' = HeardBy
    BY <1>3, <1>6, <2>2 DEF HeardBy
  <2>4. QED
    BY <2>1, <2>3, StutterServed
<1>9. CASE ~InMultiframe(s)
  <2>1. Up' = Up \ {e}
    BY <1>2, <1>4, <1>9 DEF Up
  <2>2. PICK k \in 0 .. Len(HeardBy[e]) : HeardBy'[e] = SubSeq(HeardBy[e], 1, k)
    <3>1. CASE s.recvBuffer = << >>
      BY <1>1, <1>5, <3>1, ItemsOfPrefix
    <3>2. CASE s.recvBuffer = q
      <4>1. p \o q \in Seq(Segment)
        BY <1>1
      <4>2. Items(p \o q) \in Seq(Itemised)
        BY <4>1, ItemsType
      <4>3. SubSeq(Items(p \o q), 1, Len(Items(p \o q))) = Items(p \o q)
        BY <4>2, SubSeqFull
      <4>4. Len(Items(p \o q)) \in 0 .. Len(Items(p \o q))
        BY <4>2
      <4>5. QED
        BY <1>5, <3>2, <4>3, <4>4
    <3>3. QED
      BY <3>1, <3>2 DEF Staying, q
  <2>3. HeardBy' = [HeardBy EXCEPT ![e] = SubSeq(@, 1, k)]
    BY <1>3, <1>6, <2>2 DEF HeardBy
  <2>4. QED
    BY <1>7, <2>1, <2>3, LeaveServed
<1>10. QED
  BY <1>8, <1>9

LEMMA NewServed ==
  ASSUME TypeOK, NEW e \in E, NEW s \in Lap, lap' = [lap EXCEPT ![e] = s], OnNewLink(e),
         Entering(s)
  PROVE  Served
<1>1. Accepted(e)' = << >>
  BY DEF TypeOK, Accepted, OnNewLink, Entering
<1>2. \A d \in E \ {e} : lap'[d] = lap[d] /\ Accepted(d)' = Accepted(d)
  BY DEF TypeOK, Accepted, OnNewLink
<1>3. \A d \in E \ {e} : HeardBy'[d] = HeardBy[d]
  BY <1>2 DEF HeardBy, Heard
<1>4. HeardBy'[e] = << >>
  BY <1>1 DEF HeardBy, Heard
<1>5. HeardBy' = [HeardBy EXCEPT ![e] = << >>]
  BY <1>3, <1>4 DEF HeardBy
<1>6. lap'[e] = s
  BY DEF TypeOK
<1>7. Up' = Up \cup {e}
  BY <1>2, <1>6 DEF Up, Entering
<1>8. QED
  BY <1>5, <1>7, EnterServed DEF OnNewLink
-----------------------------------------------------------------------------
(* The handlers and the calls that leave the story alone.                  *)
Settled(e) == \E s \in Lap : /\ lap' = [lap EXCEPT ![e] = s]
                             /\ \/ OnSameLink /\ Staying(lap[e], s)
                                \/ OnNewLink(e) /\ Entering(s)

LEMMA SettledServed == ASSUME TypeOK, NEW e \in E, Settled(e) PROVE Served
BY StayServed, NewServed DEF Settled

LEMMA ReactSettled ==
  ASSUME NEW e \in E, NEW s \in Lap, NEW out, NEW ind, React(e, s, out, ind),
         (OnSameLink /\ Staying(lap[e], s)) \/ (OnNewLink(e) /\ Entering(s))
  PROVE  Settled(e)
<1>1. Reread(s) \in Lap /\ Reread(s).state = s.state /\ Reread(s).recvBuffer = s.recvBuffer
  BY LapTypes, AlikeFields DEF Alike
<1>2. lap' = [lap EXCEPT ![e] = Reread(s)]
  BY DEF React
<1>3. QED
  BY <1>1, <1>2 DEF Settled, Staying, Entering, InMultiframe

LEMMA DownlinkSettled ==
  ASSUME NEW e \in E, NEW s \in Lap, NEW out, NEW belief, NEW next,
         Downlink(e, s, out, belief, next), OnSameLink, Staying(lap[e], s)
  PROVE  Settled(e)
BY DEF Downlink, Settled

LEMMA ReleasedStays ==
  ASSUME NEW r \in Lap PROVE ReleaseLink(r) \in Lap /\ Staying(r, ReleaseLink(r))
BY AlikeFields DEF Staying, InMultiframe

LEMMA UnexpectedSettled ==
  ASSUME TypeOK, NEW e \in E, Unexpected(e), OnSameLink PROVE Settled(e)
<1>1. lap[e] \in Lap
  BY DEF TypeOK
<1>2. QED
  BY <1>1, ReleasedStays, ReactSettled DEF Unexpected

LEMMA IgnoreSettled ==
  ASSUME TypeOK, NEW e \in E, Ignore(e), OnSameLink PROVE Settled(e)
<1>1. lap[e] \in Lap
  BY DEF TypeOK
<1>2. QED
  BY <1>1, ReactSettled DEF Ignore, Staying

LEMMA OutOfMultiframeSettled ==
  ASSUME TypeOK, NEW e \in E, OutOfMultiframe(e), OnSameLink PROVE Settled(e)
<1> DEFINE s == [lap[e] EXCEPT !.inProgress = FALSE]
<1>1. lap[e] \in Lap
  BY DEF TypeOK
<1>2. s \in Lap /\ s.state = lap[e].state /\ s.recvBuffer = lap[e].recvBuffer
  BY <1>1 DEF Lap
<1>3. Staying(lap[e], s)
  BY <1>2 DEF Staying, InMultiframe
<1>4. QED
  BY <1>2, <1>3, ReactSettled DEF OutOfMultiframe

LEMMA PhConnectSettled ==
  ASSUME TypeOK, NEW e \in E, ReceivePhConnect(e) PROVE Settled(e)
<1> DEFINE c == ClearCounters(lap[e])
           s == [c EXCEPT !.state = "LinkReleased"]
<1>1. c \in Lap /\ c.recvBuffer = << >>
  BY AlikeFields DEF TypeOK
<1> HIDE DEF c
<1>2. s \in Lap /\ s.recvBuffer = << >> /\ s.state = "LinkReleased"
  BY <1>1 DEF Lap, LAPDState
<1>3. React(e, s, << >>, "none") /\ OnSameLink
  BY DEF ReceivePhConnect, c
<1> HIDE DEF s
<1>4. QED
  BY <1>2, <1>3, ReactSettled DEF Staying, InMultiframe

LEMMA SABMSettled ==
  ASSUME TypeOK, NEW e \in E, ReceiveSABM(e) PROVE Settled(e)
<1> DEFINE f == Head(chan[e])
           r == lap[e]
           c == ClearCounters(r)
           s1 == [c EXCEPT !.state = "ContentionResolution", !.inProgress = TRUE,
                           !.contentionCheck = f.info]
           s2 == [c EXCEPT !.state = "LinkEstablished", !.inProgress = TRUE]
           s3 == [r EXCEPT !.state = "LinkEstablished"]
<1>1. r \in Lap /\ f \in Frame
  BY HeadType DEF TypeOK, ReceiveSABM
<1>2. c \in Lap /\ c.recvBuffer = << >> /\ c.state = r.state
  BY <1>1, AlikeFields
<1>3. f.info \in SabmInfo \cup {0}
  BY <1>1 DEF Frame
<1> HIDE DEF c, f, r
<1>4. /\ s1 \in Lap /\ s1.state = "ContentionResolution" /\ s1.recvBuffer = << >>
      /\ s2 \in Lap /\ s2.state = "LinkEstablished" /\ s2.recvBuffer = << >>
  BY <1>2, <1>3 DEF Lap, LAPDState
<1>5. s3 \in Lap /\ s3.state = "LinkEstablished" /\ s3.recvBuffer = r.recvBuffer
  BY <1>1 DEF Lap, LAPDState
<1>6. Entering(s1) /\ Entering(s2)
  BY <1>4 DEF Entering, InMultiframe
<1>7. r.state = "ContentionResolution" => Staying(r, s3)
  BY <1>5 DEF Staying, InMultiframe
<1>8. r.state = "LinkEstablished" => Entering(c)
  BY <1>2 DEF Entering, InMultiframe
<1>9. Staying(r, r)
  BY DEF Staying
<1> HIDE DEF s1, s2, s3
<1>10. ASSUME Ignore(e), OnSameLink PROVE Settled(e)
  BY <1>10, IgnoreSettled
<1>11. ASSUME NEW out, NEW ind,
              \/ OnNewLink(e) /\ (React(e, s1, out, ind) \/ React(e, s2, out, ind))
              \/ OnNewLink(e) /\ r.state = "LinkEstablished" /\ React(e, c, out, ind)
              \/ OnSameLink /\ r.state = "ContentionResolution" /\ React(e, s3, out, ind)
              \/ OnSameLink /\ React(e, r, out, ind)
       PROVE  Settled(e)
  BY <1>1, <1>2, <1>4, <1>5, <1>6, <1>7, <1>8, <1>9, <1>11, ReactSettled DEF r
<1>12. QED
  BY <1>10, <1>11, UnexpectedSettled DEF ReceiveSABM, s1, s2, s3, c, f, r, State

LEMMA DISCSettled ==
  ASSUME TypeOK, NEW e \in E, ReceiveDISC(e) PROVE Settled(e)
<1>1. ReleaseLink(lap[e]) \in Lap /\ Staying(lap[e], ReleaseLink(lap[e]))
  BY ReleasedStays DEF TypeOK
<1>2. QED
  BY <1>1, ReactSettled DEF ReceiveDISC

LEMMA UASettled ==
  ASSUME TypeOK, NEW e \in E, ReceiveUA(e) PROVE Settled(e)
<1> DEFINE c == ClearCounters(lap[e])
           s == [c EXCEPT !.state = "LinkEstablished"]
<1>1. ReleaseLink(lap[e]) \in Lap /\ Staying(lap[e], ReleaseLink(lap[e]))
  BY ReleasedStays DEF TypeOK
<1>2. c \in Lap /\ c.recvBuffer = << >>
  BY AlikeFields DEF TypeOK
<1> HIDE DEF c
<1>3. s \in Lap /\ s.state = "LinkEstablished" /\ s.recvBuffer = << >>
  BY <1>2 DEF Lap, LAPDState
<1>4. Entering(s)
  BY <1>3 DEF Entering, InMultiframe
<1> HIDE DEF s
<1>5. \/ OnNewLink(e) /\ React(e, s, << >>, "L3_ESTABLISH_CONFIRM")
      \/ OnSameLink /\ React(e, ReleaseLink(lap[e]), << >>, "L3_RELEASE_CONFIRM")
      \/ OnSameLink /\ Ignore(e)
      \/ OnSameLink /\ Unexpected(e)
  BY DEF ReceiveUA, s, c
<1>6. QED
  BY <1>1, <1>3, <1>4, <1>5, ReactSettled, IgnoreSettled, UnexpectedSettled

LEMMA DMSettled ==
  ASSUME TypeOK, NEW e \in E, ReceiveDM(e) PROVE Settled(e)
<1> DEFINE s == [lap[e] EXCEPT !.t200 = TRUE]
<1>1. lap[e] \in Lap /\ ReleaseLink(lap[e]) \in Lap /\ Staying(lap[e], ReleaseLink(lap[e]))
  BY ReleasedStays DEF TypeOK
<1>2. s \in Lap /\ s.state = lap[e].state /\ s.recvBuffer = lap[e].recvBuffer
  BY <1>1 DEF Lap
<1>3. Staying(lap[e], s)
  BY <1>2 DEF Staying, InMultiframe
<1>4. OnSameLink /\ \/ Ignore(e)
                    \/ React(e, ReleaseLink(lap[e]), << >>, "L3_RELEASE_CONFIRM")
                    \/ React(e, s, << >>, "L3_RELEASE_INDICATION")
  BY DEF ReceiveDM
<1> HIDE DEF s
<1>5. QED
  BY <1>1, <1>2, <1>3, <1>4, ReactSettled, IgnoreSettled

LEMMA AckSettled ==
  ASSUME TypeOK, NEW e \in E, ReceiveRR(e) \/ ReceiveREJ(e) PROVE Settled(e)
<1> DEFINE f == Head(chan[e])
           s == ProcessAck(Confirmed(lap[e]), f.nr)
<1>1. f \in Frame /\ lap[e] \in Lap /\ f.nr \in 0 .. Modulus - 1
  BY HeadType DEF ReceiveRR, ReceiveREJ
<1>2. s \in Lap /\ s.state = "LinkEstablished" /\ s.recvBuffer = lap[e].recvBuffer
  BY <1>1, AckFields
<1>3. InMultiframe(lap[e]) => Staying(lap[e], s)
  BY <1>2 DEF Staying
<1>4. OnSameLink /\ \/ OutOfMultiframe(e)
                    \/ Unexpected(e)
                    \/ \E out, ind : InMultiframe(lap[e]) /\ React(e, s, out, ind)
  BY Zenon DEF ReceiveRR, ReceiveREJ
<1> HIDE DEF s
<1>5. QED
  BY <1>2, <1>3, <1>4, ReactSettled, OutOfMultiframeSettled, UnexpectedSettled

LEMMA TimerSettled ==
  ASSUME TypeOK, NEW e \in E, T200Expiration(e) \/ IdleTimeout(e) PROVE Settled(e)
<1> DEFINE s == RetransmissionProcedure(lap[e])
<1>1. lap[e] \in Lap
  BY DEF TypeOK
<1>2. ReleaseLink(lap[e]) \in Lap /\ Staying(lap[e], ReleaseLink(lap[e]))
  BY <1>1, ReleasedStays
<1>3. lap[e].RC <= N200 => s \in Lap
  BY <1>1, LapTypes
<1>4. s.state = lap[e].state /\ s.recvBuffer = lap[e].recvBuffer
  BY <1>1 DEF RetransmissionProcedure, Lap
<1>5. Staying(lap[e], s) /\ Staying(lap[e], lap[e])
  BY <1>4 DEF Staying, InMultiframe
<1>6. ASSUME NEW r \in Lap, Staying(lap[e], r), lap' = [lap EXCEPT ![e] = Reread(r)], OnSameLink
      PROVE  Settled(e)
  <2>1. Reread(r) \in Lap /\ Reread(r).state = r.state /\ Reread(r).recvBuffer = r.recvBuffer
    BY LapTypes, AlikeFields DEF Alike
  <2>2. QED
    BY <1>6, <2>1 DEF Settled, Staying, InMultiframe
<1>7. OnSameLink /\ \/ lap' = [lap EXCEPT ![e] = Reread(ReleaseLink(lap[e]))]
                    \/ lap[e].RC <= N200 /\ lap' = [lap EXCEPT ![e] = Reread(s)]
                    \/ lap' = [lap EXCEPT ![e] = Reread(lap[e])]
  BY DEF T200Expiration, IdleTimeout
<1> HIDE DEF s
<1>8. QED
  BY <1>1, <1>2, <1>3, <1>5, <1>6, <1>7

LEMMA WaitsSettled ==
  ASSUME TypeOK, NEW e \in E, lap' = lap, OnSameLink PROVE Settled(e)
<1>1. lap[e] \in Lap /\ lap' = [lap EXCEPT ![e] = lap[e]]
  BY DEF TypeOK
<1>2. QED
  BY <1>1 DEF Settled, Staying

LEMMA WriteKeeps ==
  ASSUME NEW r \in Lap, NEW f \in Frame, f.type # "PH_CONNECT"
  PROVE  /\ WriteL1Ack(r, f) \in Lap /\ WriteL1Ack(r, f).state = r.state
         /\ WriteL1Ack(r, f).recvBuffer = r.recvBuffer
BY WriteL1AckFields DEF WriteL1Ack, Lap

LEMMA SABMSentSettled ==
  ASSUME TypeOK, NEW e \in E, SendSABM(e) PROVE Settled(e)
<1>1. PICK i \in SabmInfo \cup {0} :
        Downlink(e, WriteL1Ack([ClearCounters(lap[e]) EXCEPT !.state = "AwaitingEstablish"],
                               [Command(e, "SABM") EXCEPT !.info = i]),
                 <<[Command(e, "SABM") EXCEPT !.info = i]>>, l3[e], Idle)
  BY DEF SendSABM
<1> DEFINE c == ClearCounters(lap[e])
           r == [c EXCEPT !.state = "AwaitingEstablish"]
           sabm == [Command(e, "SABM") EXCEPT !.info = i]
<1>2. c \in Lap /\ c.recvBuffer = << >>
  BY AlikeFields DEF TypeOK
<1>3. sabm \in Frame /\ sabm.type = "SABM"
  <2>1. Command(e, "SABM") \in Frame /\ Command(e, "SABM").type = "SABM"
    BY CommandType DEF FrameType
  <2>2. QED
    BY <2>1 DEF Frame
<1>4. Downlink(e, WriteL1Ack(r, sabm), <<sabm>>, l3[e], Idle) /\ OnSameLink
  BY <1>1 DEF SendSABM
<1> HIDE DEF c, sabm
<1>5. r \in Lap /\ r.state = "AwaitingEstablish" /\ r.recvBuffer = << >>
  BY <1>2 DEF Lap, LAPDState
<1> HIDE DEF r
<1>6. /\ WriteL1Ack(r, sabm) \in Lap /\ WriteL1Ack(r, sabm).state = "AwaitingEstablish"
      /\ WriteL1Ack(r, sabm).recvBuffer = << >>
  BY <1>3, <1>5, WriteKeeps
<1>7. Staying(lap[e], WriteL1Ack(r, sabm))
  BY <1>6 DEF Staying, InMultiframe
<1>8. QED
  BY <1>4, <1>6, <1>7, DownlinkSettled

LEMMA DISCSentSettled ==
  ASSUME TypeOK, NEW e \in E, SendDISC(e) PROVE Settled(e)
<1> DEFINE c == ClearCounters(lap[e])
           r == [c EXCEPT !.inProgress = FALSE, !.state = "AwaitingRelease"]
           disc == Command(e, "DISC")
<1>1. Downlink(e, WriteL1Ack(r, disc), <<disc>>, l3[e], Goto("release")) /\ OnSameLink
  BY DEF SendDISC
<1>2. c \in Lap /\ c.recvBuffer = << >>
  BY AlikeFields DEF TypeOK
<1>3. disc \in Frame /\ disc.type = "DISC"
  BY CommandType DEF FrameType
<1> HIDE DEF c, disc
<1>4. r \in Lap /\ r.state = "AwaitingRelease" /\ r.recvBuffer = << >>
  BY <1>2 DEF Lap, LAPDState
<1> HIDE DEF r
<1>5. /\ WriteL1Ack(r, disc) \in Lap /\ WriteL1Ack(r, disc).state = "AwaitingRelease"
      /\ WriteL1Ack(r, disc).recvBuffer = << >>
  BY <1>3, <1>4, WriteKeeps
<1>6. Staying(lap[e], WriteL1Ack(r, disc))
  BY <1>5 DEF Staying, InMultiframe
<1>7. QED
  BY <1>1, <1>5, <1>6, DownlinkSettled

(* An end in multiframe mode sends the segment it may send.                *)
Sends(e) == \E r \in Lap, left \in Nat, first \in BOOLEAN :
  /\ r.state = lap[e].state /\ r.recvBuffer = lap[e].recvBuffer
  /\ r.VS = lap[e].VS /\ r.VA = lap[e].VA
  /\ AckReady(r) /\ InMultiframe(r) /\ SendIFrame(e, r, left, first)

LEMMA DataRequestSettled ==
  ASSUME TypeOK, NEW e \in E, DataRequest(e) PROVE Settled(e) \/ Sends(e)
<1> DEFINE r == [lap[e] EXCEPT !.discard = FALSE]
<1>1. lap[e] \in Lap
  BY DEF TypeOK
<1>2. /\ r \in Lap /\ r.state = lap[e].state /\ r.recvBuffer = lap[e].recvBuffer
      /\ r.VS = lap[e].VS /\ r.VA = lap[e].VA
  BY <1>1 DEF Lap
<1> HIDE DEF r
<1>3. CASE /\ Downlink(e, ReleaseLink(lap[e]), << >>, Told(l3[e], "MDL_ERROR_INDICATION"), Idle)
           /\ OnSameLink
  BY <1>1, <1>3, ReleasedStays, DownlinkSettled
<1>4. ASSUME NEW k \in 1 .. MaxSegs, State(e) # "LinkReleased", AckReady(r),
             SendIFrame(e, r, k, TRUE)
      PROVE  Sends(e)
  <2>1. InMultiframe(r)
    BY <1>2, <1>4 DEF AckReady, State
  <2>2. k \in Nat
    BY BoundsAssumption
  <2>3. QED
    BY <1>2, <1>4, <2>1, <2>2 DEF Sends
<1>5. ASSUME NEW next, OnSameLink, Downlink(e, r, << >>, l3[e], next) PROVE Settled(e)
  BY <1>2, <1>5, DownlinkSettled DEF Staying, InMultiframe
<1>6. QED
  BY <1>3, <1>4, <1>5 DEF DataRequest, r

LEMMA ThreadSettled ==
  ASSUME TypeOK, NEW e \in E, Resume(e) \/ Call(e)
  PROVE  Settled(e) \/ ((DataRequest(e) \/ DataAcked(e)) /\ Sends(e))
<1>1. lap[e] \in Lap /\ Staying(lap[e], lap[e])
  BY DEF TypeOK, Staying
<1>2. ReleaseLink(lap[e]) \in Lap /\ Staying(lap[e], ReleaseLink(lap[e]))
  BY <1>1, ReleasedStays
<1>3. ASSUME NEW belief, NEW next, OnSameLink,
             \/ Downlink(e, lap[e], << >>, belief, next)
             \/ Downlink(e, ReleaseLink(lap[e]), << >>, belief, next)
      PROVE  Settled(e)
  BY <1>1, <1>2, <1>3, DownlinkSettled
<1>4. CASE EstablishRequest(e)
  BY <1>3, <1>4, WaitsSettled DEF EstablishRequest
<1>5. CASE DataAcked(e)
  <2>1. CASE AckReady(lap[e]) /\ InMultiframe(lap[e])
             /\ SendIFrame(e, lap[e], thr[e].left, thr[e].first)
    <3>1. thr[e].left \in Nat /\ thr[e].first \in BOOLEAN
      <4>1. thr[e] \in Thread /\ thr[e].pc = "data"
        BY <1>5 DEF DataAcked, TypeOK
      <4>2. thr[e].left \in 1 .. MaxSegs /\ thr[e].first \in BOOLEAN
        BY <4>1 DEF Thread
      <4>3. QED
        BY <4>2, BoundsAssumption
    <3>2. QED
      BY <1>1, <1>5, <2>1, <3>1 DEF Sends
  <2>2. CASE Downlink(e, lap[e], << >>, l3[e], Idle) /\ OnSameLink
    BY <1>3, <2>2
  <2>3. QED
    BY <1>5, <2>1, <2>2 DEF DataAcked
<1>6. CASE ReleaseRequest(e) \/ Drained(e) \/ ReleaseDone(e) \/ HardRelease(e)
  BY <1>3, <1>6, DISCSentSettled DEF ReleaseRequest, Drained, ReleaseDone, HardRelease
<1>7. QED
  BY <1>4, <1>5, <1>6, SABMSentSettled, DataRequestSettled DEF Resume, Call

LEMMA LoseSettled == ASSUME TypeOK, NEW e \in E, Lose(e) PROVE Settled(e)
BY WaitsSettled DEF Lose

LEMMA ReceivesSettled ==
  ASSUME TypeOK, NEW e \in E, Receive(e) PROVE Settled(e) \/ ReceiveI(e)
BY PhConnectSettled, SABMSettled, DISCSettled, UASettled, DMSettled, AckSettled DEF Receive
-----------------------------------------------------------------------------
(* The two steps that the story is about.                                  *)
LEMMA SendsServed == ASSUME Situation, Sends(BTS) PROVE Served
<1>1. PICK r \in Lap, left \in Nat, first \in BOOLEAN :
        /\ r.state = Bts.state /\ r.recvBuffer = Bts.recvBuffer
        /\ r.VS = Bts.VS /\ r.VA = Bts.VA
        /\ AckReady(r) /\ InMultiframe(r) /\ SendIFrame(BTS, r, left, first)
  BY DEF Sends, Bts
<1>2. Bts \in Lap /\ BTS \in E /\ Typed /\ TypeOK
  BY SituationTyped DEF Situation
<1>3. Multi /\ ~Out
  BY <1>1 DEF AckReady, InMultiframe, Multi, Out
<1>4. Sent = Arrived
  BY <1>3 DEF Situation, OneInv, Flow, Sender
<1> DEFINE s == [r EXCEPT !.VS = NextSeq(@)]
           f == [Command(BTS, "I") EXCEPT !.pf = FALSE, !.ns = r.VS, !.nr = r.VR,
                   !.more = left > 1, !.link = link[BTS], !.n = tx[BTS] + 1,
                   !.first = first]
<1>5. /\ lap' = [lap EXCEPT ![BTS] = WriteL1Ack(s, f)]
      /\ tx' = [tx EXCEPT ![BTS] = tx[BTS] + 1] /\ UNCHANGED <<link, reached, delivered>>
  BY <1>1 DEF SendIFrame, Downlink
<1> HIDE DEF f
<1>6. s \in Lap /\ s.state = r.state /\ s.recvBuffer = r.recvBuffer
  <2>1. NextSeq(r.VS) \in 0 .. Modulus - 1
    BY BoundsAssumption DEF NextSeq, Lap
  <2>2. QED
    BY <2>1 DEF Lap
<1> HIDE DEF s
<1>7. WriteL1Ack(s, f).state = s.state /\ WriteL1Ack(s, f).recvBuffer = s.recvBuffer
  BY <1>6 DEF WriteL1Ack, Lap
<1>8. /\ Bts' = WriteL1Ack(s, f) /\ Bts'.state = Bts.state
      /\ Bts'.recvBuffer = Bts.recvBuffer
  BY <1>1, <1>2, <1>5, <1>6, <1>7 DEF TypeOK, Bts
<1>9. ASSUME NEW d \in E
      PROVE  /\ InMultiframe(lap'[d]) <=> InMultiframe(lap[d])
             /\ Accepted(d)' = Accepted(d)
  <2>1. CASE d = BTS
    BY <1>5, <1>8, <2>1 DEF InMultiframe, Accepted, Bts
  <2>2. CASE d # BTS
    BY <1>2, <1>5, <2>2 DEF TypeOK, Accepted
  <2>3. QED
    BY <2>1, <2>2
<1>10. Up' = Up /\ HeardBy' = HeardBy
  BY <1>9 DEF Up, HeardBy, Heard
<1>11. BTS \in Up
  BY <1>1, <1>2 DEF Up, InMultiframe, Bts
<1>12. tx' = [tx EXCEPT ![BTS] = @ + 1] /\ reached[BTS] = tx[BTS]
  BY <1>4, <1>5 DEF Sent, Arrived
<1>13. QED
  BY <1>2, <1>5, <1>10, <1>11, <1>12, TransmitServed

LEMMA HearsServed == ASSUME Situation, ReceiveI(MS) PROVE Served
<1> DEFINE f == ToMs[1]
<1>1. f \in Frame /\ f.type = "I" /\ 1 \in DOMAIN ToMs
  BY MobTakes DEF ReceiveI
<1>2. /\ Mob \in Lap /\ OneInv /\ Typed /\ TypeOK
      /\ BTS \in E /\ MS \in E /\ BTS # MS /\ Peer(BTS) = MS
  BY SituationTyped DEF Situation
<1>3. /\ SegmentOf(f) \in Segment
      /\ ItemOf(SegmentOf(f)) = [link |-> f.link, n |-> f.n]
  BY <1>1, SegmentType DEF SegmentOf, ItemOf
<1>4. Kept \in Seq(Segment) /\ HeardBy[MS] = Items(Kept)
  <2>1. delivered[MS] \in Seq(Segment) /\ Mob.recvBuffer \in Seq(Segment)
    BY <1>2 DEF TypeOK, Lap
  <2>2. Kept \in Seq(Segment)
    BY <2>1 DEF Kept
  <2>3. HeardBy[MS] = Items(Accepted(MS))
    BY <1>2, HeardIs
  <2>4. QED
    BY <2>2, <2>3 DEF Accepted, Kept, Mob
<1>5. CASE OutOfMultiframe(MS) /\ OnSameLink
  BY <1>2, <1>5, OutOfMultiframeSettled, SettledServed
<1> HIDE DEF f
<1>6. ASSUME NEW r \in Lap, NEW g \in Frame, TakesI(r, g, f) PROVE Served
  <2>1. React(MS, r, <<g>>, "none") /\ InMultiframe(Mob) /\ UNCHANGED <<link, tx>>
    BY <1>6 DEF TakesI
  <2>2. CASE UNCHANGED <<reached, delivered>> /\ r.recvBuffer = Mob.recvBuffer
    <3>1. OnSameLink /\ Staying(lap[MS], r)
      BY <2>1, <2>2 DEF OnSameLink, Staying, Mob
    <3>2. QED
      BY <1>2, <2>1, <3>1, ReactSettled, SettledServed
  <2>3. CASE f.ns = Mob.VR
    <3>1. /\ reached' = [reached EXCEPT ![BTS] = IF f.link = link[BTS] THEN f.n ELSE @]
          /\ delivered'[MS] \o r.recvBuffer = Append(Kept, SegmentOf(f))
          /\ delivered'[BTS] = delivered[BTS] /\ r.state = "LinkEstablished"
      BY <1>6, <2>3 DEF TakesI
    <3>2. Mob.state = "LinkEstablished"
      BY <1>2, <2>1 DEF OneInv, Calm, MobStation, InMultiframe
    <3>3. /\ f.link = Lk /\ Len(Kept) + 1 = Sent
          /\ Kept # << >> => Kept[1].link = Lk /\ Len(Kept) = Arrived
      BY <1>1, <1>2, <2>3, <3>2 DEF OneInv, Story, Hearing, f
    <3>4. f.n = Sent
      BY <1>1, <1>2, <3>3 DEF OneInv, Calm, AirToMs, Current, f
    <3>5. lap' = [lap EXCEPT ![MS] = Reread(r)] /\ Reread(r).state = "LinkEstablished"
          /\ Reread(r).recvBuffer = r.recvBuffer
      BY <2>1, <3>1, AlikeFields DEF React, Alike
    <3>6. lap'[MS] = Reread(r) /\ lap'[BTS] = lap[BTS]
      BY <1>2, <3>5 DEF TypeOK
    <3>7. Up' = Up
      BY <1>2, <2>1, <3>5, <3>6 DEF Up, InMultiframe, E, Mob
    <3>8. Accepted(MS)' = Append(Kept, SegmentOf(f)) /\ Accepted(BTS)' = Accepted(BTS)
      BY <3>1, <3>5, <3>6 DEF Accepted
    <3>9. HeardBy'[MS] = Append(HeardBy[MS], [link |-> link[BTS], n |-> tx[BTS]])
      <4>1. HeardBy'[MS] = Items(Append(Kept, SegmentOf(f)))
        BY <1>2, <3>8 DEF HeardBy, Heard, Items, ItemOf
      <4>2. QED
        BY <1>3, <1>4, <3>3, <3>4, <4>1, ItemsOfLonger DEF Lk, Sent
    <3>10. HeardBy'[BTS] = HeardBy[BTS]
      BY <1>2, <3>8 DEF HeardBy, Heard
    <3>11. HeardBy' = [HeardBy EXCEPT ![MS] = Append(@, [link |-> link[BTS], n |-> tx[BTS]])]
      BY <3>9, <3>10 DEF HeardBy, E
    <3>12. reached' = [reached EXCEPT ![BTS] = tx[BTS]]
      BY <3>1, <3>3, <3>4 DEF Lk, Sent
    <3>13. MS \in Up
      BY <1>2, <2>1 DEF Up, Mob
    <3>14. tx[BTS] = Len(HeardBy[MS]) + 1
      BY <1>4, <3>3, ItemsType DEF Sent
    <3>15. HeardBy[MS] # << >> =>
             HeardBy[MS][1].link = link[BTS] /\ reached[BTS] = tx[BTS] - 1
      <4>1. Kept = << >> => HeardBy[MS] = << >>
        BY <1>4 DEF Items
      <4>2. Kept # << >> => HeardBy[MS][1].link = Lk
        BY <1>4, <3>3, ItemsOfFirst
      <4>3. Kept # << >> => Arrived = Sent - 1
        BY <1>2, <3>3 DEF Typed
      <4>4. QED
        BY <4>1, <4>2, <4>3 DEF Lk, Sent, Arrived
    <3>16. QED
      BY <1>2, <2>1, <3>7, <3>11, <3>12, <3>13, <3>14, <3>15, HearServed
  <2>4. QED
    BY <1>6, <2>2, <2>3 DEF TakesI
<1>7. QED
  BY <1>5, <1>6, MobIOutcome DEF f

LEMMA ServedStep == Situation /\ OneWay /\ [Next]_vars => Served
<1> SUFFICES ASSUME Situation, OneWay, [Next]_vars PROVE Served
  OBVIOUS
<1>1. /\ TypeOK /\ OneInv /\ BTS \in E /\ MS \in E /\ BTS # MS
  BY SituationTyped DEF Situation
<1>2. CASE UNCHANGED vars
  <2>1. Up' = Up /\ OnSameLink /\ HeardBy' = HeardBy
    BY <1>2 DEF vars, Up, OnSameLink, HeardBy, Heard, Accepted
  <2>2. QED
    BY <2>1, StutterServed
<1>3. ~Stray
  BY DEF Stray, OneWay
<1>4. ASSUME NEW e \in E, Receive(e) PROVE Served
  <2>1. ~ReceiveI(BTS)
    <3>1. Arrives(BTS, "I") => ToBts[1].type = "I" /\ 1 \in DOMAIN ToBts
      BY BtsTakes
    <3>2. QED
      BY <1>1, <3>1 DEF ReceiveI, OneInv, Calm, AirToBts
  <2>2. QED
    BY <1>1, <1>4, <2>1, ReceivesSettled, SettledServed, HearsServed DEF E
<1>5. ASSUME NEW e \in E, Resume(e) \/ Call(e) PROVE Served
  <2>1. ~DataRequest(MS) /\ ~DataAcked(MS)
    <3>1. thr[MS].pc # "data"
      BY <1>1 DEF OneInv, Calm, MobStation
    <3>2. QED
      BY <1>1, <3>1 DEF DataRequest, DataAcked, OneWay
  <2>2. QED
    BY <1>1, <1>5, <2>1, ThreadSettled, SettledServed, SendsServed DEF E
<1>6. ASSUME NEW e \in E, T200Expiration(e) \/ IdleTimeout(e) \/ Lose(e) PROVE Served
  BY <1>1, <1>6, TimerSettled, LoseSettled, SettledServed
<1>7. QED
  BY <1>2, <1>3, <1>4, <1>5, <1>6 DEF Next, ServiceThread

LEMMA ServiceInit == Init => Service!Init
<1> SUFFICES ASSUME Init PROVE Service!Init
  OBVIOUS
<1>1. \A e \in E : ~InMultiframe(lap[e]) /\ Accepted(e) = << >>
  BY DEF Init, Opened, InMultiframe, Accepted
<1>2. \A e \in E : Heard(e) = << >>
  BY <1>1 DEF Heard
<1>3. QED
  BY <1>1, <1>2 DEF Service!Init, Init

(* Under the same hypotheses LAPDm gives layer 3 the service of DataLink:  *)
(* whatever the radio loses and T200 repeats, however establishment and    *)
(* release collide, the receiver hears a gapless prefix of one link of the *)
(* sender, in order and once, and nothing is sent before what was sent     *)
(* last has been heard.                                                    *)
THEOREM ImplementsDataLinkOneWay == ASSUME OneWay PROVE Spec => ImplementsDataLink
<1>1. Spec => []Situation
  BY OneAlways
<1>2. Init => Service!Init
  BY ServiceInit
<1>3. Situation /\ [Next]_vars => [Service!Next]_(Service!vars)
  BY ServedStep DEF Served
<1>4. QED
  BY <1>1, <1>2, <1>3, PTL DEF Spec, ImplementsDataLink, Service!Spec
=============================================================================
