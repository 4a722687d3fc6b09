--------------------------- MODULE Channel_proofs ---------------------------
(* Theorems about Channel, for every pool, every set of mobiles and every  *)
(* bound: type correctness, that a transmitting channel is always watched, *)
(* and that the SACCH is silent while T3109 runs; and, if threads are      *)
(* prompt, that a grant is held until the CCCH sends it and that an SDCCH  *)
(* is not given away under a mobile.                                       *)
EXTENDS Channel, SequenceTheorems, TLAPS

(* T3101 does not count here: the first frame stops it, so that something  *)
(* else must be watching already.  That makes Watched inductive.           *)
Sound(k) ==
    /\ k.l1 => k.sacch \/ k.t3109 # "off" \/ k.t3111 # "off"
    /\ k.t3109 # "off" => ~k.sacch

Good == {k \in Fields : Sound(k)}

Rest == /\ home \in [Contexts -> Chans \cup {None}]
        /\ rachq \in Seq([from: Mobiles, chan: Chans, old: BOOLEAN])
        /\ phone \in [Mobiles -> [at: Chans \cup {None}, heard: BOOLEAN]]

IInv == chan \in [Chans -> Good] /\ Rest

LEMMA Consequences == IInv => TypeOK /\ Watched /\ SilentBeforeReuse
<1> SUFFICES ASSUME IInv PROVE TypeOK /\ Watched /\ SilentBeforeReuse
  OBVIOUS
<1>1. TypeOK
  BY DEF IInv, Rest, Good, TypeOK
<1>2. ASSUME NEW c \in Chans PROVE Sound(chan[c])
  BY DEF IInv, Good
<1>3. QED
  BY <1>1, <1>2 DEF Sound, Watched, SilentBeforeReuse
-----------------------------------------------------------------------------
(* The functions of L2LogicalChannel keep a channel good.                  *)
LEMMA Messages ==
  /\ \A r \in Requests : <<r>> \in Seq(Requests)
  /\ \A s \in Seq(Requests), r \in Requests : Append(s, r) \in Seq(Requests)
  /\ \A s \in Seq(Indications), i \in Indications : Append(s, i) \in Seq(Indications)
  /\ << >> \in Seq(Indications)
OBVIOUS

LEMMA InitGood ==
  ASSUME NEW k \in Fields, NEW m \in Mobiles \cup {None}
  PROVE  LcInit(k, m) \in Fields
BY DEF LcInit, Fields, Timers

LEMMA StartGood ==
  ASSUME NEW k \in Fields
  PROVE  LcStart(k) \in Good
<1>1. LcStart(k) \in Fields
  BY Messages DEF LcStart, Fields, Timers, Links
<1>2. LcStart(k).sacch /\ LcStart(k).t3109 = "off"
  BY DEF LcStart, Fields
<1>3. QED
  BY <1>1, <1>2 DEF Good, Sound

LEMMA OpenGood ==
  ASSUME NEW k \in Fields, NEW m \in Mobiles \cup {None}
  PROVE  LcOpen(k, m) \in Good
BY InitGood, StartGood DEF LcOpen

LEMMA StopSacchType ==
  ASSUME NEW k \in Fields
  PROVE  StopSacch(k) \in Fields /\ ~StopSacch(k).sacch
BY ZenonT(60) DEF StopSacch, Fields

LEMMA ReleaseType ==
  ASSUME NEW z \in Fields, NEW t \in Timers, NEW q \in Seq(Requests), NEW b \in BOOLEAN
  PROVE  /\ [z EXCEPT !.t3109 = t, !.l3in = q] \in Fields
         /\ [z EXCEPT !.t3101 = "off", !.t3109 = "off", !.t3111 = "expired",
                      !.l1 = FALSE, !.filler = b, !.l3in = q] \in Fields
<1>1. [z EXCEPT !.t3109 = t] \in Fields /\ [z EXCEPT !.l3in = q] \in Fields
  BY DEF Fields
<1>2. [z EXCEPT !.t3109 = t, !.l3in = q] \in Fields
  BY DEF Fields
<1>3. [z EXCEPT !.t3101 = "off", !.t3109 = "off", !.t3111 = "expired",
                !.l1 = FALSE, !.filler = b] \in Fields
  BY DEF Fields, Timers
<1>4. [z EXCEPT !.t3101 = "off", !.t3109 = "off", !.t3111 = "expired",
                !.l1 = FALSE, !.filler = b, !.l3in = q] \in Fields
  <2> DEFINE y == [z EXCEPT !.t3101 = "off", !.t3109 = "off", !.t3111 = "expired",
                            !.l1 = FALSE, !.filler = b]
  <2>1. \A x \in Fields : [x EXCEPT !.l3in = q] \in Fields
    BY DEF Fields
  <2>2. [y EXCEPT !.l3in = q] \in Fields
    BY <1>3, <2>1
  <2>3. QED
    BY <2>2
<1>5. QED
  BY <1>2, <1>4

LEMMA NormalReleaseGood ==
  ASSUME NEW k \in Fields
  PROVE  StartNormalRelease(k) \in Good
<1> DEFINE r == StartNormalRelease(k)
<1>1. r \in Fields
  <2>1. PICK z \in Fields : z = StopSacch(k)
    BY StopSacchType
  <2>2. <<"RELEASE">> \in Seq(Requests) /\ "running" \in Timers
    BY DEF Requests, Timers
  <2>3. (IF z.t3109 = "off" THEN "running" ELSE z.t3109) \in Timers
    BY <2>2 DEF Fields
  <2>4. QED
    BY <2>1, <2>2, <2>3, ReleaseType DEF StartNormalRelease
<1>2. r.t3109 # "off" /\ ~r.sacch
  BY StopSacchType DEF StartNormalRelease, Fields
<1>3. QED
  BY <1>1, <1>2 DEF Good, Sound

LEMMA ImmediateReleaseGood ==
  ASSUME NEW k \in Fields
  PROVE  ImmediateRelease(k) \in Good
<1> DEFINE r == ImmediateRelease(k)
<1>1. r \in Fields
  <2>1. PICK z \in Fields : z = StopSacch(k)
    BY StopSacchType
  <2>2. <<"HARDRELEASE">> \in Seq(Requests) /\ {"off", "expired"} \subseteq Timers
    BY DEF Requests, Timers
  <2>3. k.l1 \in BOOLEAN /\ z.filler \in BOOLEAN
    BY DEF Fields
  <2>4. (z.filler \/ k.l1) \in BOOLEAN
    OBVIOUS
  <2>5. QED
    BY <2>1, <2>2, <2>4, ReleaseType DEF ImmediateRelease
<1>2. r.t3109 = "off" /\ ~r.l1
  BY StopSacchType DEF ImmediateRelease, Fields
<1>3. QED
  BY <1>1, <1>2 DEF Good, Sound
LEMMA WriteToL3Good ==
  ASSUME NEW k \in Good, NEW ind \in Indications
  PROVE  WriteToL3(k, ind) \in Good
<1>1. PICK acted \in Good : WriteToL3(k, ind) = [acted EXCEPT !.l3out = Append(@, ind)]
  <2>1. CASE ind = "MDL_ERROR"
    BY <2>1, NormalReleaseGood DEF WriteToL3, Good
  <2>2. CASE ind = "RELEASED"
    <3>1. [k EXCEPT !.t3109 = "off", !.t3111 = "running"] \in Good
      BY DEF Good, Sound, Fields, Timers
    <3>2. QED
      BY <2>2, <3>1 DEF WriteToL3
  <2>3. CASE ind = "ESTABLISH"
    BY <2>3 DEF WriteToL3
  <2>4. QED
    BY <2>1, <2>2, <2>3 DEF Indications
<1>2. Append(acted.l3out, ind) \in Seq(Indications)
  BY Messages DEF Good, Fields
<1>3. QED
  BY <1>1, <1>2 DEF Good, Sound, Fields

(* What the queues, the loop and the call do is of no matter to Sound.     *)
LEMMA FieldsGood ==
  ASSUME NEW k \in Good
  PROVE  /\ \A x \in Timers : [k EXCEPT !.t3101 = x] \in Good
         /\ k.t3109 # "off" => [k EXCEPT !.t3109 = "expired"] \in Good
         /\ [k EXCEPT !.t3111 = "expired"] \in Good
         /\ \A b \in BOOLEAN : /\ [k EXCEPT !.lost = b] \in Good
                               /\ [k EXCEPT !.blocked = b] \in Good
                               /\ [k EXCEPT !.filler = b] \in Good
         /\ \A q \in Seq(Requests) : [k EXCEPT !.l3in = q] \in Good
         /\ \A q \in Seq(Indications) : [k EXCEPT !.l3out = q] \in Good
         /\ \A l \in Links : [k EXCEPT !.link = l] \in Good
         /\ \A l \in Links, b \in BOOLEAN : [k EXCEPT !.link = l, !.blocked = b] \in Good
<1> USE DEF Good, Sound, Fields
<1>1. \A x \in Timers : [k EXCEPT !.t3101 = x] \in Good
  BY DEF Timers
<1>2. k.t3109 # "off" => [k EXCEPT !.t3109 = "expired"] \in Good
  BY DEF Timers
<1>3. [k EXCEPT !.t3111 = "expired"] \in Good
  BY DEF Timers
<1>4. \A b \in BOOLEAN : /\ [k EXCEPT !.lost = b] \in Good
                         /\ [k EXCEPT !.blocked = b] \in Good
                         /\ [k EXCEPT !.filler = b] \in Good
  BY ZenonT(60)
<1>5. \A q \in Seq(Requests) : [k EXCEPT !.l3in = q] \in Good
  OBVIOUS
<1>6. \A q \in Seq(Indications) : [k EXCEPT !.l3out = q] \in Good
  OBVIOUS
<1>7. \A l \in Links, b \in BOOLEAN : [k EXCEPT !.link = l, !.blocked = b] \in Good
  OBVIOUS
<1>8. \A l \in Links : [k EXCEPT !.link = l] \in Good
  OBVIOUS
<1>9. QED
  BY <1>1, <1>2, <1>3, <1>4, <1>5, <1>6, <1>7, <1>8

LEMMA LinkGood ==
  ASSUME NEW k \in Good
  PROVE  /\ LinkDown(k) \in Good
         /\ [FirstFrame(k) EXCEPT !.link = "established"] \in Good
         /\ FirstFrame(k) \in Good
<1> USE DEF Links, Timers
<1>1. LinkDown(k) \in Good
  BY FieldsGood DEF LinkDown
<1>2. FirstFrame(k) \in Good
  <2>1. [k EXCEPT !.t3101 = "off"] \in Good
    BY FieldsGood
  <2>2. [[k EXCEPT !.t3101 = "off"] EXCEPT !.link = "released"] \in Good
    BY <2>1, FieldsGood
  <2>3. QED
    BY <2>2 DEF FirstFrame
<1>3. [FirstFrame(k) EXCEPT !.link = "established"] \in Good
  BY <1>2, FieldsGood
<1>4. QED
  BY <1>1, <1>2, <1>3
-----------------------------------------------------------------------------
LEMMA BecomesGood ==
  ASSUME IInv, NEW c \in Chans, NEW k \in Good, Becomes(c, k)
  PROVE  chan' \in [Chans -> Good]
BY DEF IInv, Becomes

LEMMA LeaveRest ==
  ASSUME IInv, NEW m \in Mobiles, Leave(m), UNCHANGED <<home, rachq>>
  PROVE  Rest'
<1>1. [at |-> None, heard |-> FALSE] \in [at: Chans \cup {None}, heard: BOOLEAN]
  OBVIOUS
<1>2. QED
  BY <1>1 DEF IInv, Rest, Leave

LEMMA SameRest == ASSUME IInv, UNCHANGED <<home, rachq, phone>> PROVE Rest'
BY DEF IInv, Rest

(* The pool starts every channel of C0, and each is good from the start.   *)
LEMMA InitIInv == Init => IInv
<1> SUFFICES ASSUME Init PROVE IInv
  OBVIOUS
<1>1. Blank \in Fields
  <2>1. << >> \in Seq(Requests) /\ << >> \in Seq(Indications)
    OBVIOUS
  <2>2. QED
    BY <2>1 DEF Blank, Fields, Timers, Links, ChannelStates, CallStates
<1>2. LcOpen(Blank, None) \in Good
  BY <1>1, OpenGood
<1>3. chan \in [Chans -> Good]
  BY <1>2 DEF Init
<1>4. Rest
  BY DEF Init, Rest
<1>5. QED
  BY <1>3, <1>4 DEF IInv

(* The RACH queue.                                                         *)
Entry == [from: Mobiles, chan: Chans, old: BOOLEAN]

LEMMA HeadEntry ==
  ASSUME IInv, rachq # << >>
  PROVE  /\ Head(rachq).from \in Mobiles /\ Head(rachq).chan \in Chans
         /\ Tail(rachq) \in Seq([from: Mobiles, chan: Chans, old: BOOLEAN])
<1>1. rachq \in Seq(Entry)
  BY DEF IInv, Rest, Entry
<1>2. Head(rachq) \in Entry /\ Tail(rachq) \in Seq(Entry)
  BY <1>1, HeadTailProperties
<1>3. QED
  BY <1>2 DEF Entry

LEMMA RachStep ==
  ASSUME IInv, NEW m \in Mobiles, NEW c \in RachPool, Rach(m, c)
  PROVE  IInv'
<1>1. c \in Chans
  BY PoolAssumption DEF Chans
<1>2. LcOpen(chan[c], m) \in Good
  BY <1>1, OpenGood DEF IInv, Good
<1>3. chan' \in [Chans -> Good]
  BY <1>1, <1>2, BecomesGood DEF Rach
<1>4. Rest'
  BY <1>1 DEF IInv, Rest, Rach
<1>5. QED
  BY <1>3, <1>4 DEF IInv

LEMMA RachAgesStep ==
  ASSUME IInv, NEW i \in DOMAIN rachq, RachAges(i)
  PROVE  IInv'
<1>1. rachq' \in Seq([from: Mobiles, chan: Chans, old: BOOLEAN])
  <2>1. rachq \in Seq(Entry)
    BY DEF IInv, Rest, Entry
  <2>2. i \in 1 .. Len(rachq) /\ rachq[i] \in Entry
    BY <2>1
  <2>3. [rachq[i] EXCEPT !.old = TRUE] \in Entry
    BY <2>2 DEF Entry
  <2>4. [rachq EXCEPT ![i] = [rachq[i] EXCEPT !.old = TRUE]] \in Seq(Entry)
    BY <2>1, <2>2, <2>3, ExceptSeq
  <2>5. QED
    BY <2>4 DEF RachAges, Entry
<1>2. QED
  BY <1>1 DEF IInv, Rest, RachAges

LEMMA AssignStep == IInv /\ Assign => IInv'
<1> SUFFICES ASSUME IInv, Assign PROVE IInv'
  OBVIOUS
<1> DEFINE m == Head(rachq).from
           c == Head(rachq).chan
<1>1. /\ m \in Mobiles /\ c \in Chans
      /\ Tail(rachq) \in Seq([from: Mobiles, chan: Chans, old: BOOLEAN])
  BY HeadEntry DEF Assign
<1>2. phone' \in [Mobiles -> [at: Chans \cup {None}, heard: BOOLEAN]]
  BY <1>1 DEF IInv, Rest, Assign
<1>3. QED
  BY <1>1, <1>2 DEF IInv, Rest, Assign

LEMMA DropRachStep == IInv /\ DropRach => IInv'
<1> SUFFICES ASSUME IInv, DropRach PROVE IInv'
  OBVIOUS
<1> DEFINE c == Head(rachq).chan
<1>1. /\ c \in Chans
      /\ Tail(rachq) \in Seq([from: Mobiles, chan: Chans, old: BOOLEAN])
  BY HeadEntry DEF DropRach
<1>2. ImmediateRelease(chan[c]) \in Good
  BY <1>1, ImmediateReleaseGood DEF IInv, Good
<1>3. chan' \in [Chans -> Good]
  BY <1>1, <1>2, BecomesGood DEF DropRach
<1>4. QED
  BY <1>1, <1>3 DEF IInv, Rest, DropRach
-----------------------------------------------------------------------------
(* The mobiles and the radio.                                              *)
LEMMA TunedType ==
  ASSUME IInv, NEW m \in Mobiles, NEW c \in Chans \cup {None}, NEW b \in BOOLEAN,
         phone' = [phone EXCEPT ![m] = [at |-> c, heard |-> b]],
         UNCHANGED <<home, rachq>>
  PROVE  Rest'
BY DEF IInv, Rest

LEMMA StrayFrameStep == ASSUME IInv, NEW c \in Chans, StrayFrame(c) PROVE IInv'
<1>1. FirstFrame(chan[c]) \in Good
  BY LinkGood DEF IInv
<1>2. chan' \in [Chans -> Good]
  BY <1>1, BecomesGood DEF StrayFrame
<1>3. QED
  BY <1>2, SameRest DEF StrayFrame, IInv

LEMMA SeizeStep ==
  ASSUME IInv, NEW m \in Mobiles, NEW c \in Chans, Seize(m, c)
  PROVE  IInv'
<1>1. [FirstFrame(chan[c]) EXCEPT !.link = "established"] \in Good
  BY LinkGood DEF IInv
<1>2. WriteToL3([FirstFrame(chan[c]) EXCEPT !.link = "established"], "ESTABLISH") \in Good
  BY <1>1, WriteToL3Good DEF Indications
<1>3. chan' \in [Chans -> Good]
  BY <1>2, BecomesGood DEF Seize
<1>4. Rest'
  BY DEF IInv, Rest, Seize
<1>5. QED
  BY <1>3, <1>4 DEF IInv

LEMMA MsDisconnectsStep ==
  ASSUME IInv, NEW m \in Mobiles, NEW c \in Chans, MsDisconnects(m, c)
  PROVE  IInv'
<1>1. WriteToL3(LinkDown(chan[c]), "RELEASED") \in Good
  BY LinkGood, WriteToL3Good DEF IInv, Indications
<1>2. chan' \in [Chans -> Good]
  BY <1>1, BecomesGood DEF MsDisconnects
<1>3. QED
  BY <1>2, LeaveRest DEF MsDisconnects, IInv

LEMMA MsLeavesStep ==
  ASSUME IInv, NEW m \in Mobiles, MsTimesOut(m) \/ MsVanishes(m)
  PROVE  IInv'
BY LeaveRest DEF IInv, MsTimesOut, MsVanishes

LEMMA MsTunesStep ==
  ASSUME IInv, NEW m \in Mobiles, NEW c \in Chans, MsMoves(m, c) \/ MsReturns(m, c)
  PROVE  IInv'
<1>1. chan[c].next \in Chans \cup {None}
  BY DEF IInv, Good, Fields, Chans
<1>2. QED
  BY <1>1, TunedType DEF MsMoves, MsReturns, IInv

LEMMA RadioStep ==
  ASSUME IInv, NEW c \in Chans, Fade(c) \/ Recover(c) \/ Acknowledged(c)
  PROVE  IInv'
<1>1. \A b \in BOOLEAN : /\ [chan[c] EXCEPT !.lost = b] \in Good
                         /\ [chan[c] EXCEPT !.blocked = b] \in Good
  BY FieldsGood DEF IInv
<1>2. chan' \in [Chans -> Good]
  BY <1>1, BecomesGood DEF Fade, Recover, Acknowledged
<1>3. QED
  BY <1>2, SameRest DEF Fade, Recover, Acknowledged, IInv
-----------------------------------------------------------------------------
(* The threads and the timers of layer 2.                                  *)
LEMMA LinkFailsStep == ASSUME IInv, NEW c \in Chans, LinkFails(c) PROVE IInv'
<1>1. WriteToL3(LinkDown(chan[c]), "MDL_ERROR") \in Good
  BY LinkGood, WriteToL3Good DEF IInv, Indications
<1>2. chan' \in [Chans -> Good]
  BY <1>1, BecomesGood DEF LinkFails
<1>3. QED
  BY <1>2, SameRest DEF LinkFails, IInv

LEMMA DrainStep == ASSUME IInv, NEW c \in Chans, Drain(c) PROVE IInv'
<1> DEFINE k == chan[c]
           rest == [k EXCEPT !.l3in = Tail(@)]
           up == k.link = "established"
<1>1. k \in Good /\ k.l3in \in Seq(Requests) /\ k.l3in # << >>
  BY DEF IInv, Good, Fields, Drain
<1>2. Tail(k.l3in) \in Seq(Requests) /\ Head(k.l3in) \in Requests
  BY <1>1, HeadTailProperties
<1>3. rest \in Good
  BY <1>1, <1>2, FieldsGood
<1> HIDE DEF rest
<1>4. /\ LinkDown(rest) \in Good
      /\ [rest EXCEPT !.blocked = up] \in Good
      /\ [rest EXCEPT !.link = "releasing", !.blocked = TRUE] \in Good
  BY <1>3, LinkGood, FieldsGood DEF Links
<1>5. PICK r \in Good : Becomes(c, r)
  <2>1. CASE Head(k.l3in) = "HARDRELEASE"
    BY <1>4, <2>1 DEF Drain, rest
  <2>2. CASE Head(k.l3in) = "DATA"
    BY <1>4, <2>2 DEF Drain, rest
  <2>3. CASE Head(k.l3in) = "RELEASE"
    BY <1>3, <1>4, <2>3 DEF Drain, rest
  <2>4. QED
    BY <1>2, <2>1, <2>2, <2>3 DEF Requests
<1>6. chan' \in [Chans -> Good]
  BY <1>5, BecomesGood
<1>7. QED
  BY <1>6, SameRest DEF Drain, IInv

LEMMA ControlStep ==
  ASSUME IInv, NEW c \in Chans, ServiceHost(c) \/ CheckSacch(c)
  PROVE  IInv'
<1>1. ImmediateRelease(chan[c]) \in Good /\ StartNormalRelease(chan[c]) \in Good
  BY ImmediateReleaseGood, NormalReleaseGood DEF IInv, Good
<1>2. chan' \in [Chans -> Good]
  BY <1>1, BecomesGood DEF ServiceHost, CheckSacch
<1>3. QED
  BY <1>2, SameRest DEF ServiceHost, CheckSacch, IInv

LEMMA TimeStep == ASSUME IInv, NEW c \in Chans, Time(c) PROVE IInv'
<1>1. /\ [chan[c] EXCEPT !.t3101 = "expired"] \in Good
      /\ [chan[c] EXCEPT !.t3111 = "expired"] \in Good
      /\ [chan[c] EXCEPT !.filler = FALSE] \in Good
      /\ chan[c].t3109 = "running" => [chan[c] EXCEPT !.t3109 = "expired"] \in Good
  BY FieldsGood DEF IInv, Timers
<1>2. chan' \in [Chans -> Good]
  BY <1>1, BecomesGood DEF Time, T3101Expires, T3109Expires, T3111Expires,
     FillerPasses, FillerSent
<1>3. QED
  BY <1>2, SameRest DEF Time, T3101Expires, T3109Expires, T3111Expires,
     FillerPasses, FillerSent, IInv
-----------------------------------------------------------------------------
(* The DCCHDispatcher thread and the call control machines.                *)
LEMMA DispatchStep == ASSUME IInv, NEW c \in Chans, Dispatch(c) PROVE IInv'
<1> DEFINE k == chan[c]
           rest == [k EXCEPT !.l3out = Tail(@)]
           entered == [rest EXCEPT !.loop = TRUE, !.state = "chEstablished"]
<1>1. k \in Good /\ k.l3out \in Seq(Indications) /\ k.l3out # << >>
  BY DEF IInv, Good, Fields, Dispatch
<1>2. rest \in Good
  BY <1>1, FieldsGood, HeadTailProperties
<1> HIDE DEF rest
<1>3. entered \in Good
  BY <1>2 DEF Good, Sound, Fields, ChannelStates
<1> HIDE DEF entered
<1>4. \A x \in Contexts : [entered EXCEPT !.ctx = x] \in Good
  BY <1>3 DEF Good, Sound, Fields
<1>5. /\ \E r \in Good : Becomes(c, r)
      /\ UNCHANGED home \/ \E x \in Contexts : home' = [home EXCEPT ![x] = c]
  BY <1>2, <1>3, <1>4 DEF Dispatch, entered, rest, FreeContexts
<1>6. chan' \in [Chans -> Good]
  BY <1>5, BecomesGood
<1>7. Rest'
  BY <1>5 DEF IInv, Rest, Dispatch
<1>8. QED
  BY <1>6, <1>7 DEF IInv

LEMMA LoopStep ==
  ASSUME IInv, NEW c \in Chans,
         SeesRadioFailure(c) \/ ReadsPrimitive(c) \/ SendsMessage(c) \/ ChanClose(c)
  PROVE  IInv'
<1> DEFINE k == chan[c]
<1>1. /\ k \in Good /\ k.l3out \in Seq(Indications) /\ k.l3in \in Seq(Requests)
      /\ k.state \in ChannelStates
  BY DEF IInv, Good, Fields
<1>2. \A st \in ChannelStates : [k EXCEPT !.state = st] \in Good
  BY <1>1 DEF Good, Sound, Fields
<1>3. \A q \in Seq(Indications), st \in ChannelStates :
        [k EXCEPT !.l3out = q, !.state = st] \in Good
  BY <1>1 DEF Good, Sound, Fields
<1>4. [k EXCEPT !.l3in = <<"DATA">>] \in Good
  BY <1>1, Messages, FieldsGood DEF Requests
<1>5. [k EXCEPT !.l3in = Append(@, "DATA"), !.state = "chRequestRelease"] \in Good
  <2>1. Append(k.l3in, "DATA") \in Seq(Requests)
    BY <1>1, Messages DEF Requests
  <2>2. PICK q \in Seq(Requests) : q = Append(k.l3in, "DATA")
    BY <2>1
  <2>3. [k EXCEPT !.l3in = q, !.state = "chRequestRelease"] \in Good
    BY <1>1 DEF Good, Sound, Fields, ChannelStates
  <2>4. QED
    BY <2>2, <2>3
<1>6. \E r \in Good : Becomes(c, r)
  <2>1. CASE SeesRadioFailure(c)
    BY <1>2, <2>1 DEF SeesRadioFailure, ChannelStates
  <2>2. CASE ReadsPrimitive(c)
    <3>1. Tail(k.l3out) \in Seq(Indications)
      BY <1>1, <2>2, HeadTailProperties DEF ReadsPrimitive
    <3>2. \A st \in ChannelStates : [k EXCEPT !.l3out = Tail(@), !.state = st] \in Good
      BY <1>3, <3>1
    <3>3. (IF Head(k.l3out) = "ESTABLISH" THEN k.state ELSE "chRequestRelease")
            \in ChannelStates
      BY <1>1 DEF ChannelStates
    <3>4. QED
      BY <2>2, <3>2, <3>3 DEF ReadsPrimitive
  <2>3. CASE SendsMessage(c)
    BY <1>4, <2>3 DEF SendsMessage
  <2>4. CASE ChanClose(c)
    BY <1>5, <2>4 DEF ChanClose
  <2>5. QED
    BY <2>1, <2>2, <2>3, <2>4
<1>7. chan' \in [Chans -> Good]
  BY <1>6, BecomesGood
<1>8. QED
  BY <1>7, SameRest DEF SeesRadioFailure, ReadsPrimitive, SendsMessage, ChanClose, IInv

LEMMA AllocNextTCHStep ==
  ASSUME IInv, NEW c \in Chans, NEW t \in Tch, AllocNextTCH(c, t)
  PROVE  IInv'
<1>1. t \in Chans
  BY DEF Chans
<1>2. chan[c] \in Good /\ chan[t] \in Fields /\ chan[c].holder \in Mobiles \cup {None}
  BY <1>1 DEF IInv, Good, Fields
<1>3. LcOpen(chan[t], chan[c].holder) \in Good
  BY <1>2, OpenGood
<1>4. [chan[c] EXCEPT !.next = t, !.call = "allocated"] \in Good
  BY <1>2 DEF Good, Sound, Fields, CallStates
<1>5. c # t
  BY PoolAssumption DEF AllocNextTCH
<1>6. chan' \in [Chans -> Good]
  BY <1>1, <1>3, <1>4, <1>5 DEF AllocNextTCH, IInv
<1>7. QED
  BY <1>6, SameRest DEF AllocNextTCH, IInv
LEMMA ReassignStartStep == ASSUME IInv, NEW c \in Chans, ReassignStart(c) PROVE IInv'
<1> DEFINE t == chan[c].next
           opened == LcOpen(chan[t], chan[c].holder)
           target == [opened EXCEPT !.ctx = chan[c].ctx, !.state = "chReassignTarget"]
           using == [chan EXCEPT ![c].call = "assigning"]
<1>1. /\ chan[c] \in Good /\ chan[c].holder \in Mobiles \cup {None}
      /\ chan[c].ctx \in Contexts \cup {None}
  BY DEF IInv, Good, Fields
<1>2. using \in [Chans -> Good]
  <2>1. [chan[c] EXCEPT !.call = "assigning"] \in Good
    BY <1>1 DEF Good, Sound, Fields, CallStates
  <2>2. QED
    BY <2>1 DEF IInv
<1>3. chan' = [using EXCEPT ![t] = target]
  BY DEF ReassignStart
<1>4. chan' \in [Chans -> Good]
  <2>1. CASE t \in Chans
    <3>1. chan[t] \in Fields
      BY <2>1 DEF IInv, Good
    <3>2. opened \in Good
      BY <1>1, <3>1, OpenGood
    <3>3. ASSUME NEW r \in Good, NEW x \in Contexts \cup {None}
          PROVE  [r EXCEPT !.ctx = x, !.state = "chReassignTarget"] \in Good
      BY ZenonT(60) DEF Good, Sound, Fields, ChannelStates
    <3> HIDE DEF opened
    <3>4. target \in Good
      BY <1>1, <3>2, <3>3
    <3> HIDE DEF target, using
    <3>5. QED
      BY <1>2, <1>3, <2>1, <3>4
  <2>2. CASE t \notin Chans
    <3> HIDE DEF target, using, t
    <3>1. QED
      BY <1>2, <1>3, <2>2
  <2>3. QED
    BY <2>1, <2>2
<1>5. QED
  BY <1>4, SameRest DEF ReassignStart, IInv

LEMMA ReassignCompleteStep ==
  ASSUME IInv, NEW m \in Mobiles, NEW t \in Chans, ReassignComplete(t, m)
  PROVE  IInv'
<1> DEFINE c == home[chan[t].ctx]
           old == chan[c]
           quiet == [old EXCEPT !.next = None, !.call = "none"]
           asleep == [chan[t] EXCEPT !.letsGo = c]
           asked == [old EXCEPT !.state = "chRequestRelease"]
           told == [old EXCEPT !.state = "chRequestRelease", !.l3in = Append(@, "DATA")]
<1>1. c \in Chans /\ c # t /\ old \in Good /\ chan[t] \in Good
  BY DEF IInv, ReassignComplete
<1>2. old.ctx \in Contexts \cup {None} /\ old.next \in Tch \cup {None}
      /\ old.l3in \in Seq(Requests)
  BY <1>1 DEF Good, Fields
<1>3. chan' = [chan EXCEPT ![c] = quiet, ![t] = asleep]
      \/ Becomes(c, asked) \/ Becomes(c, told)
  BY <1>1 DEF ReassignComplete
<1>4. home' \in [Contexts -> Chans \cup {None}]
  BY <1>2 DEF IInv, Rest, ReassignComplete, Chans
<1> HIDE DEF old, c
<1>5. quiet \in Good /\ asked \in Good
  BY <1>1, ZenonT(60) DEF Good, Sound, Fields, ChannelStates, CallStates
<1>6. asleep \in Good
  BY <1>1 DEF Good, Sound, Fields
<1>7. told \in Good
  <2>1. PICK q \in Seq(Requests) : q = Append(old.l3in, "DATA")
    BY <1>2, Messages DEF Requests
  <2>2. [old EXCEPT !.state = "chRequestRelease", !.l3in = q] \in Good
    BY <1>1 DEF Good, Sound, Fields, ChannelStates
  <2>3. QED
    BY <2>1, <2>2
<1> HIDE DEF quiet, asleep, asked, told
<1>8. chan' \in [Chans -> Good]
  <2>1. CASE chan' = [chan EXCEPT ![c] = quiet, ![t] = asleep]
    BY <1>5, <1>6, <2>1 DEF IInv
  <2>2. CASE Becomes(c, asked) \/ Becomes(c, told)
    BY <1>1, <1>5, <1>7, <2>2, BecomesGood
  <2>3. QED
    BY <1>3, <2>1, <2>2
<1>9. QED
  BY <1>4, <1>8 DEF IInv, Rest, ReassignComplete

LEMMA ReassignReleasesStep ==
  ASSUME IInv, NEW t \in Chans, ReassignReleases(t)
  PROVE  IInv'
<1> DEFINE c == chan[t].letsGo
<1>1. c \in Chans
  BY DEF IInv, Good, Fields, ReassignReleases
<1>2. \A k \in Good : /\ [k EXCEPT !.letsGo = None] \in Good
                      /\ [k EXCEPT !.state = "chRequestHardRelease"] \in Good
  <2> TAKE k \in Good
  <2>1. [k EXCEPT !.letsGo = None] \in Good
    BY DEF Good, Sound, Fields
  <2>2. [k EXCEPT !.state = "chRequestHardRelease"] \in Good
    BY DEF Good, Sound, Fields, ChannelStates
  <2>3. QED
    BY <2>1, <2>2
<1>3. [chan EXCEPT ![t].letsGo = None] \in [Chans -> Good]
  BY <1>2 DEF IInv
<1>4. chan' \in [Chans -> Good]
  <2> DEFINE woken == [chan EXCEPT ![t].letsGo = None]
  <2>1. chan' = [woken EXCEPT ![c].state = "chRequestHardRelease"]
    BY DEF ReassignReleases
  <2> HIDE DEF woken, c
  <2>2. QED
    BY <1>1, <1>2, <1>3, <2>1 DEF woken
<1>5. QED
  BY <1>4, SameRest DEF ReassignReleases, IInv

LEMMA ReassignFailureStep == ASSUME IInv, NEW c \in Chans, ReassignFailure(c) PROVE IInv'
<1> DEFINE t == chan[c].next
           freed == [chan[t] EXCEPT !.state = "chRequestRelease", !.ctx = None]
<1>1. t \in Chans /\ chan[t] \in Good /\ chan[c] \in Good
  BY DEF IInv, ReassignFailure
<1>2. \A k \in Good : [k EXCEPT !.state = "chRequestRelease", !.ctx = None] \in Good
  BY ZenonT(60) DEF Good, Sound, Fields, ChannelStates
<1>3. ASSUME NEW k \in Good PROVE Closed(k) \in Good
  <2>1. PICK q \in Seq(Requests) : q = Append(k.l3in, "DATA")
    BY Messages DEF Good, Fields, Requests
  <2>2. [k EXCEPT !.next = None, !.call = "none", !.l3in = q,
                  !.state = "chRequestRelease"] \in Good
    BY DEF Good, Sound, Fields, ChannelStates, CallStates
  <2>3. QED
    BY <2>1, <2>2 DEF Closed
<1>4. freed \in Good /\ Closed(chan[c]) \in Good
  BY <1>1, <1>2, <1>3
<1>5. chan' \in [Chans -> Good]
  BY <1>1, <1>4 DEF ReassignFailure, IInv
<1>6. QED
  BY <1>5, SameRest DEF ReassignFailure, IInv

LEMMA LeaveLoopStep == ASSUME IInv, NEW c \in Chans, LeaveLoop(c) PROVE IInv'
<1> DEFINE k == chan[c]
           reset(n) == [k EXCEPT !.ctx = None, !.loop = FALSE, !.state = "chIdle",
                                 !.call = "none", !.next = n]
<1>1. k \in Good /\ k.next \in Tch \cup {None}
  BY DEF IInv, Good, Fields
<1>2. \A n \in Tch \cup {None} : reset(n) \in Fields
  BY <1>1 DEF Good, Fields, ChannelStates, CallStates
<1>3. \A n \in Tch \cup {None} : /\ ImmediateRelease(reset(n)) \in Good
                                 /\ StartNormalRelease(reset(n)) \in Good
  BY <1>2, ImmediateReleaseGood, NormalReleaseGood
<1>4. \A d \in Chans : [chan[d] EXCEPT !.ctx = None] \in Good
  <2>1. \A r \in Good : [r EXCEPT !.ctx = None] \in Good
    BY DEF Good, Sound, Fields
  <2>2. QED
    BY <2>1 DEF IInv
<1>5. PICK gone \in Good : \A d \in Chans :
        chan'[d] \in {chan[d], [chan[d] EXCEPT !.ctx = None], gone}
  BY <1>1, <1>3 DEF LeaveLoop
<1>6. chan' = [d \in Chans |-> chan'[d]]
  BY DEF LeaveLoop
<1>7. chan' \in [Chans -> Good]
  BY <1>4, <1>5, <1>6 DEF IInv
<1>8. QED
  BY <1>7, SameRest DEF LeaveLoop, IInv
-----------------------------------------------------------------------------
(* Every channel of the pool is good at every moment, whoever acts on it.  *)
LEMMA StepIInv == IInv /\ [Next]_vars => IInv'
<1> SUFFICES ASSUME IInv, [Next]_vars PROVE IInv'
  OBVIOUS
<1>1. CASE UNCHANGED vars
  BY <1>1 DEF vars, IInv, Rest
<1>2. CASE \/ \E m \in Mobiles, c \in RachPool : Rach(m, c)
           \/ \E i \in DOMAIN rachq : RachAges(i)
           \/ Assign \/ DropRach
  BY <1>2, RachStep, RachAgesStep, AssignStep, DropRachStep
<1>3. CASE \/ \E m \in Mobiles : MsTimesOut(m) \/ MsVanishes(m)
           \/ \E m \in Mobiles, c \in Chans :
                Seize(m, c) \/ MsDisconnects(m, c) \/ MsMoves(m, c)
                  \/ MsReturns(m, c) \/ ReassignComplete(c, m)
  BY <1>3, MsLeavesStep, SeizeStep, MsDisconnectsStep, MsTunesStep,
     ReassignCompleteStep
<1>4. ASSUME NEW c \in Chans, StrayFrame(c) \/ Fade(c) \/ Recover(c) \/ Acknowledged(c)
      PROVE  IInv'
  BY <1>4, StrayFrameStep, RadioStep
<1>5. ASSUME NEW c \in Chans, L2Threads(c) \/ Time(c) PROVE IInv'
  BY <1>5, LinkFailsStep, DrainStep, ControlStep, TimeStep DEF L2Threads
<1>6. ASSUME NEW c \in Chans, L3Thread(c) \/ SendsMessage(c) \/ ChanClose(c)
      PROVE  IInv'
  BY <1>6, DispatchStep, LoopStep, ReassignReleasesStep, LeaveLoopStep DEF L3Thread
<1>7. ASSUME NEW c \in Chans, ReassignStart(c) \/ ReassignFailure(c) PROVE IInv'
  BY <1>7, ReassignStartStep, ReassignFailureStep
<1>8. CASE \E c, t \in Chans : t \in Tch /\ AllocNextTCH(c, t)
  BY <1>8, AllocNextTCHStep
<1>9. QED
  BY <1>1, <1>2, <1>3, <1>4, <1>5, <1>6, <1>7, <1>8 DEF Next

LEMMA Invariance == Spec => []IInv
BY InitIInv, StepIInv, PTL DEF Spec

(* The fields of every channel, the RACH queue and the contexts keep their *)
(* types.                                                                  *)
THEOREM TypeCorrect == Spec => []TypeOK
BY Invariance, Consequences, PTL

(* No channel transmits with nothing left that could ever release it.      *)
THEOREM AlwaysWatched == Spec => []Watched
BY Invariance, Consequences, PTL

(* T3109 never runs, nor has it run out, while the SACCH transmits.        *)
THEOREM SilentUnderT3109 == Spec => []SilentBeforeReuse
BY Invariance, Consequences, PTL
-----------------------------------------------------------------------------
(* A channel between its RACH and its first frame: no timer may end it,    *)
(* its link is down, nothing is on its way to layer 3 and no loop is       *)
(* inside it.                                                              *)
Occupied(k) == k.l1 /\ ~RecyclableAtOnce(k) /\ k.t3111 = "off"
Virgin(k) == Occupied(k) /\ k.link = "released" /\ k.l3out = << >> /\ ~k.loop
Fresh(k) == Virgin(k) /\ k.t3109 = "off" /\ k.sacch /\ ~k.lost
Tame(k) == k.call = "none" /\ k.state # "chRequestHardRelease" /\ k.letsGo = None

(* The last loop has left before the filler burst: that is what            *)
(* PromptThreads says, and what lcopen relies on.                          *)
NoneEstablished(q) == \A i \in DOMAIN q : q[i] # "ESTABLISH"
Emptied(k) == ~k.l1 => /\ ~k.sacch
                       /\ k.filler \/ (~k.loop /\ NoneEstablished(k.l3out))

Queued(c) == \E i \in DOMAIN rachq : rachq[i].chan = c
Due(m, c) == At(m, c) /\ ~phone[m].heard

Entries ==
    /\ \A i \in DOMAIN rachq : /\ rachq[i].chan \in Sdcch
                               /\ Fresh(chan[rachq[i].chan])
                               /\ chan[rachq[i].chan].holder = rachq[i].from
    /\ \A i, j \in DOMAIN rachq : rachq[i].chan = rachq[j].chan => i = j

Untouched ==
    \A c \in Sdcch, m \in Mobiles : Due(m, c) =>
        /\ Virgin(chan[c]) /\ ~Queued(c)
        /\ \A n \in Mobiles : Due(n, c) => m = n

(* Without TCHs a channel is only ever let go of by a normal release.      *)
Kept ==
    /\ \A c \in Chans : Tame(chan[c])
    /\ \A c \in Chans, m \in Mobiles : At(m, c) =>
         /\ Occupied(chan[c]) /\ ~Queued(c)
         /\ \A n \in Mobiles : At(n, c) => m = n

Safe ==
    /\ \A c \in Chans : Emptied(chan[c])
    /\ Entries
    /\ Untouched
    /\ Tch = {} => Kept

Keeping(k, r) ==
    /\ r.holder = k.holder
    /\ Emptied(k) => Emptied(r)
    /\ Occupied(k) => Occupied(r)
    /\ Virgin(k) => Virgin(r)
    /\ Fresh(k) => Fresh(r)
    /\ Tch = {} /\ Tame(k) => Tame(r)

LEMMA SafeConsequences ==
  ASSUME IInv, Safe
  PROVE  GrantIsHeld /\ (Tch = {} => NoReuseUnderfoot)
<1>1. GrantIsHeld
  BY DEF Safe, Entries, Fresh, Virgin, Occupied, GrantIsHeld
<1>2. ASSUME Tch = {} PROVE NoReuseUnderfoot
  BY <1>2 DEF Safe, Kept, Occupied, RecyclableAtOnce, Recyclable, HeardOn, NoReuseUnderfoot
<1>3. QED
  BY <1>1, <1>2

LEMMA NoneEstablishedQueue ==
  ASSUME NEW q \in Seq(Indications)
  PROVE  /\ NoneEstablished(<< >>)
         /\ q # << >> /\ NoneEstablished(q) =>
              Head(q) # "ESTABLISH" /\ NoneEstablished(Tail(q))
         /\ \A i \in Indications : i # "ESTABLISH" /\ NoneEstablished(q)
              => NoneEstablished(Append(q, i))
<1>1. NoneEstablished(<< >>)
  BY DEF NoneEstablished
<1>2. ASSUME q # << >>, NoneEstablished(q)
      PROVE  Head(q) # "ESTABLISH" /\ NoneEstablished(Tail(q))
  BY <1>2 DEF NoneEstablished
<1>3. ASSUME NEW i \in Indications, i # "ESTABLISH", NoneEstablished(q)
      PROVE  NoneEstablished(Append(q, i))
  BY <1>3 DEF NoneEstablished
<1>4. QED
  BY <1>1, <1>2, <1>3

(* The operations of layer 2, field by field.                              *)
LEMMA OpenFields ==
  ASSUME NEW k \in Fields, NEW m \in Mobiles \cup {None}
  PROVE  /\ LcOpen(k, m).holder = m
         /\ ~k.loop => Fresh(LcOpen(k, m))
         /\ Emptied(LcOpen(k, m))
         /\ LcOpen(k, m).call = k.call /\ LcOpen(k, m).state = k.state
         /\ LcOpen(k, m).letsGo = k.letsGo
BY DEF LcOpen, LcInit, LcStart, Fields, Fresh, Virgin, Occupied, Emptied, RecyclableAtOnce

LEMMA NormalReleaseFields ==
  ASSUME NEW k \in Fields
  PROVE  LET r == StartNormalRelease(k) IN
         /\ r.t3101 = k.t3101 /\ r.t3111 = k.t3111
         /\ r.t3109 = IF k.t3109 = "off" THEN "running" ELSE k.t3109
         /\ r.l1 = k.l1 /\ r.sacch = FALSE /\ (k.filler => r.filler)
         /\ (k.sacch => r.filler)
         /\ r.lost = k.lost /\ r.l3out = k.l3out /\ r.link = k.link /\ r.loop = k.loop
         /\ r.state = k.state /\ r.call = k.call /\ r.holder = k.holder
         /\ r.letsGo = k.letsGo
BY DEF StartNormalRelease, StopSacch, Fields

LEMMA ImmediateReleaseFields ==
  ASSUME NEW k \in Fields
  PROVE  LET r == ImmediateRelease(k) IN
         /\ r.l1 = FALSE /\ r.sacch = FALSE /\ (k.filler \/ k.l1 \/ k.sacch => r.filler)
         /\ r.l3out = k.l3out /\ r.loop = k.loop
         /\ r.state = k.state /\ r.call = k.call /\ r.holder = k.holder
         /\ r.letsGo = k.letsGo
BY DEF ImmediateRelease, StopSacch, Fields

(* A step that moves no mobile and leaves the queue of the CCCH alone.     *)
Gentle(c) ==
    /\ Emptied(chan'[c])
    /\ Queued(c) => Fresh(chan'[c]) /\ chan'[c].holder = chan[c].holder
    /\ c \in Sdcch /\ (\E m \in Mobiles : Due(m, c)) => Virgin(chan'[c])
    /\ Tch = {} => /\ Tame(chan'[c])
                   /\ (\E m \in Mobiles : At(m, c)) => Occupied(chan'[c])

LEMMA AllGentle ==
  ASSUME IInv, Safe, UNCHANGED <<rachq, phone>>, \A c \in Chans : Gentle(c)
  PROVE  Safe'
<1>1. \A c \in Chans : Emptied(chan'[c])
  BY DEF Gentle
<1>2. Entries'
  <2>1. ASSUME NEW i \in DOMAIN rachq
        PROVE  /\ rachq[i].chan \in Sdcch
               /\ Fresh(chan'[rachq[i].chan])
               /\ chan'[rachq[i].chan].holder = rachq[i].from
    <3>1. rachq[i].chan \in Sdcch /\ chan[rachq[i].chan].holder = rachq[i].from
      BY DEF Safe, Entries
    <3>2. rachq[i].chan \in Chans /\ Queued(rachq[i].chan)
      BY <3>1 DEF Chans, Queued
    <3>3. QED
      BY <3>1, <3>2 DEF Gentle
  <2>2. QED
    BY <2>1 DEF Safe, Entries
<1>3. Untouched'
  BY DEF Gentle, Safe, Untouched, Due, At, Queued, Chans
<1>4. ASSUME Tch = {} PROVE Kept'
  BY <1>4 DEF Gentle, Safe, Kept, At, Queued
<1>5. QED
  BY <1>1, <1>2, <1>3, <1>4 DEF Safe

LEMMA StaysGentle ==
  ASSUME IInv, Safe, NEW c \in Chans, Keeping(chan[c], chan'[c])
  PROVE  Gentle(c)
<1>1. Emptied(chan'[c])
  BY DEF Keeping, Safe
<1>2. Queued(c) => Fresh(chan'[c]) /\ chan'[c].holder = chan[c].holder
  BY DEF Keeping, Safe, Entries, Queued
<1>3. c \in Sdcch /\ (\E m \in Mobiles : Due(m, c)) => Virgin(chan'[c])
  BY DEF Keeping, Safe, Untouched
<1>4. Tch = {} => /\ Tame(chan'[c])
                  /\ (\E m \in Mobiles : At(m, c)) => Occupied(chan'[c])
  BY DEF Keeping, Safe, Kept
<1>5. QED
  BY <1>1, <1>2, <1>3, <1>4 DEF Gentle

LEMMA KeepingItself == ASSUME NEW k PROVE Keeping(k, k)
BY DEF Keeping

LEMMA OneGentle ==
  ASSUME IInv, Safe, NEW c \in Chans, NEW k, Becomes(c, k), UNCHANGED <<rachq, phone>>,
         chan'[c] = k => Gentle(c)
  PROVE  Safe'
<1>1. chan'[c] = k /\ \A d \in Chans : d # c => chan'[d] = chan[d]
  BY DEF Becomes, IInv
<1>2. \A d \in Chans : Gentle(d)
  BY <1>1, StaysGentle, KeepingItself
<1>3. QED
  BY <1>2, AllGentle

LEMMA OneKeeping ==
  ASSUME IInv, Safe, NEW c \in Chans, NEW k, Becomes(c, k), UNCHANGED <<rachq, phone>>,
         Keeping(chan[c], k)
  PROVE  Safe'
BY OneGentle, StaysGentle

(* Steps that only touch what none of this depends on.                     *)
LEMMA MinorKeeps ==
  ASSUME NEW k \in Fields
  PROVE  /\ \A q : Keeping(k, [k EXCEPT !.l3in = q])
         /\ \A b : Keeping(k, [k EXCEPT !.blocked = b])
         /\ Keeping(k, LinkDown(k))
         /\ Keeping(k, FirstFrame(k))
         /\ Keeping(k, [k EXCEPT !.ctx = None])
         /\ \A q : Keeping(k, [k EXCEPT !.l3in = q, !.state = "chRequestRelease"])
<1> USE DEF Keeping, Fields, Emptied, Fresh, Virgin, Occupied, RecyclableAtOnce, Tame
<1>1. \A q : Keeping(k, [k EXCEPT !.l3in = q])
  OBVIOUS
<1>2. \A b : Keeping(k, [k EXCEPT !.blocked = b])
  OBVIOUS
<1>3. Keeping(k, LinkDown(k))
  BY DEF LinkDown
<1>4. Keeping(k, FirstFrame(k))
  BY DEF FirstFrame
<1>5. Keeping(k, [k EXCEPT !.ctx = None])
  OBVIOUS
<1>6. \A q : Keeping(k, [k EXCEPT !.l3in = q, !.state = "chRequestRelease"])
  OBVIOUS
<1>7. QED
  BY <1>1, <1>2, <1>3, <1>4, <1>5, <1>6
-----------------------------------------------------------------------------
(* The radio and the threads of layer 2.                                   *)
LEMMA FrameSafe ==
  ASSUME IInv, Safe, NEW c \in Chans, StrayFrame(c) \/ Recover(c) \/ Acknowledged(c)
  PROVE  Safe'
<1>1. chan[c] \in Fields
  BY DEF IInv, Good
<1>2. Keeping(chan[c], [chan[c] EXCEPT !.lost = FALSE])
  BY <1>1 DEF Keeping, Fields, Emptied, Fresh, Virgin, Occupied, RecyclableAtOnce, Tame
<1>3. QED
  BY <1>1, <1>2, MinorKeeps, OneKeeping DEF StrayFrame, Recover, Acknowledged

LEMMA FadeSafe == ASSUME IInv, Safe, NEW c \in Chans, Fade(c) PROVE Safe'
<1> DEFINE k == [chan[c] EXCEPT !.lost = TRUE]
<1>1. chan[c] \in Fields
  BY DEF IInv, Good
<1>2. ~Queued(c)
  BY DEF Fade, Reserved, Queued
<1>3. /\ Emptied(chan[c]) => Emptied(k)
      /\ Occupied(chan[c]) => Occupied(k)
      /\ Virgin(chan[c]) => Virgin(k)
      /\ Tame(chan[c]) => Tame(k)
  BY <1>1 DEF Fields, Emptied, Virgin, Occupied, RecyclableAtOnce, Tame
<1>4. ASSUME chan'[c] = k PROVE Gentle(c)
  BY <1>2, <1>3, <1>4 DEF Gentle, Safe, Untouched, Kept
<1>5. QED
  BY <1>4, OneGentle DEF Fade

LEMMA DrainSafe == ASSUME IInv, Safe, NEW c \in Chans, Drain(c) PROVE Safe'
<1> DEFINE k == chan[c]
           rest == [k EXCEPT !.l3in = Tail(@)]
           up == k.link = "established"
<1>1. k \in Good /\ k.l3in \in Seq(Requests) /\ k.l3in # << >>
  BY DEF IInv, Good, Fields, Drain
<1>2. rest \in Fields /\ Head(k.l3in) \in Requests
  BY <1>1, FieldsGood, HeadTailProperties DEF Good
<1>3. Keeping(k, rest)
  BY <1>1, MinorKeeps DEF Good
<1> HIDE DEF rest
<1>4. \A r \in Fields : \A z : Keeping(k, r) /\ Keeping(r, z) => Keeping(k, z)
  BY DEF Keeping
<1>5. Keeping(k, LinkDown(rest)) /\ Keeping(k, [rest EXCEPT !.blocked = up])
  BY <1>2, <1>3, <1>4, MinorKeeps
<1>6. ASSUME up PROVE Keeping(k, [rest EXCEPT !.link = "releasing", !.blocked = TRUE])
  <2>1. rest.link = "established"
    BY <1>1, <1>6 DEF rest, Good, Fields
  <2>2. Keeping(rest, [rest EXCEPT !.link = "releasing", !.blocked = TRUE])
    BY <1>2, <2>1 DEF Keeping, Fields, Emptied, Fresh, Virgin, Occupied,
       RecyclableAtOnce, Tame
  <2>3. QED
    BY <1>2, <1>3, <1>4, <2>2
<1>7. \E r : Becomes(c, r) /\ Keeping(k, r)
  <2>1. CASE Head(k.l3in) = "HARDRELEASE"
    BY <1>5, <2>1 DEF Drain, rest
  <2>2. CASE Head(k.l3in) = "DATA"
    BY <1>5, <2>2 DEF Drain, rest
  <2>3. CASE Head(k.l3in) = "RELEASE"
    BY <1>3, <1>6, <2>3 DEF Drain, rest
  <2>4. QED
    BY <1>2, <2>1, <2>2, <2>3 DEF Requests
<1>8. QED
  BY <1>7, OneKeeping DEF Drain

LEMMA LinkFailsSafe == ASSUME IInv, Safe, NEW c \in Chans, LinkFails(c) PROVE Safe'
<1> DEFINE k == chan[c]
           d == LinkDown(k)
           n == StartNormalRelease(d)
           r == WriteToL3(d, "MDL_ERROR")
<1>1. k \in Good /\ k.link # "released"
  BY DEF IInv, LinkFails
<1>2. d \in Fields
  BY <1>1, LinkGood DEF Good
<1>3. Keeping(k, d)
  BY <1>1, MinorKeeps DEF Good
<1>4. n \in Fields /\ n.l3out \in Seq(Indications)
  BY <1>2, NormalReleaseGood DEF Good, Fields
<1> HIDE DEF d
<1>5. r = [n EXCEPT !.l3out = Append(n.l3out, "MDL_ERROR")]
  BY DEF WriteToL3
<1>6. /\ Emptied(d) => Emptied(n)
      /\ Occupied(d) => Occupied(n)
      /\ Tame(d) => Tame(n)
      /\ n.holder = d.holder
  BY <1>2, NormalReleaseFields DEF Emptied, Occupied, RecyclableAtOnce, Tame, Fields
<1> HIDE DEF n
<1>7. /\ Emptied(n) => Emptied(r)
      /\ Occupied(n) => Occupied(r)
      /\ Tame(n) => Tame(r)
      /\ r.holder = n.holder
  <2>1. "MDL_ERROR" \in Indications /\ "MDL_ERROR" # "ESTABLISH"
    BY DEF Indications
  <2>2. NoneEstablished(n.l3out) => NoneEstablished(Append(n.l3out, "MDL_ERROR"))
    BY <1>4, <2>1, NoneEstablishedQueue
  <2>3. QED
    BY <1>4, <1>5, <2>2 DEF Emptied, Occupied, RecyclableAtOnce, Tame, Fields
<1>8. Keeping(k, r)
  BY <1>1, <1>3, <1>6, <1>7 DEF Keeping, Fresh, Virgin
<1>9. QED
  BY <1>8, OneKeeping DEF LinkFails, d

LEMMA ControlSafe ==
  ASSUME IInv, Safe, NEW c \in Chans, ServiceHost(c) \/ CheckSacch(c)
  PROVE  Safe'
<1>1. chan[c] \in Fields
  BY DEF IInv, Good
<1>2. ASSUME ServiceHost(c) PROVE Safe'
  <2>1. Keeping(chan[c], ImmediateRelease(chan[c]))
    BY <1>1, <1>2, ImmediateReleaseFields
    DEF ServiceHost, Keeping, Emptied, Fresh, Virgin, Occupied, RecyclableAtOnce, Tame
  <2>2. QED
    BY <1>2, <2>1, OneKeeping DEF ServiceHost
<1>3. ASSUME CheckSacch(c) PROVE Safe'
  <2>1. Keeping(chan[c], StartNormalRelease(chan[c]))
    BY <1>1, <1>3, NormalReleaseFields
    DEF CheckSacch, Keeping, Emptied, Fresh, Virgin, Occupied, RecyclableAtOnce, Tame
  <2>2. QED
    BY <1>3, <2>1, OneKeeping DEF CheckSacch
<1>4. QED
  BY <1>2, <1>3

(* T3101 runs out on a channel that nobody was told of or is tuned to,     *)
(* T3109 on one whose SACCH is silent.                                     *)
LEMMA TimersSafe ==
  ASSUME IInv, Safe, NEW c \in Chans,
         T3101Expires(c) \/ T3109Expires(c) \/ T3111Expires(c)
  PROVE  Safe'
<1> DEFINE k == chan[c]
<1>1. k \in Fields /\ Sound(k)
  BY DEF IInv, Good
<1>2. ASSUME NEW r, chan'[c] = r, Emptied(k) => Emptied(r), Tame(k) => Tame(r),
             ~Queued(c), \A m \in Mobiles : ~At(m, c)
      PROVE  Gentle(c)
  BY <1>2 DEF Gentle, Safe, Kept, Due
<1>3. CASE T3101Expires(c)
  <2> DEFINE r == [k EXCEPT !.t3101 = "expired"]
  <2>1. (Emptied(k) => Emptied(r)) /\ (Tame(k) => Tame(r))
    BY <1>1 DEF Fields, Emptied, Tame
  <2>2. ~Queued(c) /\ \A m \in Mobiles : ~At(m, c)
    BY <1>3 DEF T3101Expires, Reserved, Queued
  <2>3. QED
    BY <1>2, <1>3, <2>1, <2>2, OneGentle DEF T3101Expires
<1>4. CASE T3109Expires(c)
  <2> DEFINE r == [k EXCEPT !.t3109 = "expired"]
  <2>1. (Emptied(k) => Emptied(r)) /\ (Tame(k) => Tame(r))
    BY <1>1 DEF Fields, Emptied, Tame
  <2>2. k.t3109 = "running" /\ ~k.sacch
    BY <1>1, <1>4 DEF T3109Expires, Sound
  <2>3. \A m \in Mobiles : ~At(m, c)
    BY <1>4, <2>2 DEF T3109Expires
  <2>4. ~Queued(c)
    BY <2>2 DEF Safe, Entries, Queued, Fresh
  <2>5. QED
    BY <1>2, <1>4, <2>1, <2>3, <2>4, OneGentle DEF T3109Expires
<1>5. CASE T3111Expires(c)
  <2>1. Keeping(k, [k EXCEPT !.t3111 = "expired"])
    BY <1>1, <1>5 DEF T3111Expires, Keeping, Fields, Emptied, Fresh, Virgin, Occupied, Tame
  <2>2. QED
    BY <1>5, <2>1, OneKeeping DEF T3111Expires
<1>6. QED
  BY <1>3, <1>4, <1>5

LEMMA FillerSafe ==
  ASSUME IInv, Safe, PromptThreads, NEW c \in Chans, FillerPasses(c)
  PROVE  Safe'
<1> DEFINE k == chan[c]
           r == [k EXCEPT !.filler = FALSE]
<1>1. k \in Fields
  BY DEF IInv, Good
<1>2. ~k.l1 => ~k.loop /\ k.l3out = << >>
  BY DEF FillerPasses, ThreadsDone, RadioFailure
<1>3. Emptied(k) => Emptied(r)
  BY <1>1, <1>2 DEF Fields, Emptied, NoneEstablished
<1>4. Keeping(k, r)
  BY <1>1, <1>3 DEF Keeping, Fields, Fresh, Virgin, Occupied, RecyclableAtOnce, Tame
<1>5. QED
  BY <1>4, OneKeeping DEF FillerPasses, FillerSent
-----------------------------------------------------------------------------
(* The DCCHDispatcher thread.  It finds nothing on an untouched channel.   *)
LEMMA DispatchSafe == ASSUME IInv, Safe, NEW c \in Chans, Dispatch(c) PROVE Safe'
<1> DEFINE k == chan[c]
           rest == [k EXCEPT !.l3out = Tail(@)]
           entered == [rest EXCEPT !.loop = TRUE, !.state = "chEstablished"]
<1>1. k \in Fields /\ k.l3out \in Seq(Indications) /\ k.l3out # << >>
  BY DEF IInv, Good, Fields, Dispatch
<1>2. Emptied(k)
  BY DEF Safe
<1>3. Keeping(k, rest)
  <2>1. NoneEstablished(k.l3out) => NoneEstablished(Tail(k.l3out))
    BY <1>1, NoneEstablishedQueue
  <2>2. QED
    BY <1>1, <2>1 DEF Keeping, Fields, Emptied, Fresh, Virgin, Occupied,
       RecyclableAtOnce, Tame
<1>4. ASSUME Head(k.l3out) = "ESTABLISH", NEW x \in Contexts \cup {None}
      PROVE  /\ Keeping(k, entered)
             /\ Keeping(k, [entered EXCEPT !.ctx = x])
  <2>1. k.l1 \/ k.filler
    BY <1>1, <1>2, <1>4, NoneEstablishedQueue DEF Emptied
  <2>2. QED
    BY <1>1, <2>1 DEF Keeping, Fields, Emptied, Fresh, Virgin, Occupied,
       RecyclableAtOnce, Tame
<1>5. \E r : Becomes(c, r) /\ Keeping(k, r)
  <2>1. CASE Head(k.l3out) # "ESTABLISH"
    BY <1>3, <2>1 DEF Dispatch
  <2>2. CASE Head(k.l3out) = "ESTABLISH" /\ k.ctx # None
    BY <1>4, <2>2 DEF Dispatch
  <2>3. CASE Head(k.l3out) = "ESTABLISH" /\ k.ctx = None
    BY <1>4, <2>3 DEF Dispatch, FreeContexts
  <2>4. QED
    BY <2>1, <2>2, <2>3
<1>6. QED
  BY <1>5, OneKeeping DEF Dispatch

LEMMA SeesRadioFailureSafe ==
  ASSUME IInv, Safe, NEW c \in Chans, SeesRadioFailure(c)
  PROVE  Safe'
<1> DEFINE k == chan[c]
           st == IF c \in Tch THEN "chRequestHardRelease" ELSE "chRequestRelease"
<1>1. k \in Fields
  BY DEF IInv, Good
<1>2. Keeping(k, [k EXCEPT !.state = st])
  BY <1>1 DEF Keeping, Fields, Emptied, Fresh, Virgin, Occupied, RecyclableAtOnce, Tame
<1>3. QED
  BY <1>2, OneKeeping DEF SeesRadioFailure

LEMMA LoopSafe ==
  ASSUME IInv, Safe, NEW c \in Chans, ReadsPrimitive(c) \/ SendsMessage(c) \/ ChanClose(c)
  PROVE  Safe'
<1> DEFINE k == chan[c]
<1>1. k \in Fields /\ k.l3out \in Seq(Indications)
  BY DEF IInv, Good, Fields
<1>2. CASE SendsMessage(c) \/ ChanClose(c)
  BY <1>1, <1>2, MinorKeeps, OneKeeping DEF SendsMessage, ChanClose
<1>3. CASE ReadsPrimitive(c)
  <2> DEFINE st == IF Head(k.l3out) = "ESTABLISH" THEN k.state ELSE "chRequestRelease"
  <2>1. k.l3out # << >>
    BY <1>3 DEF ReadsPrimitive
  <2>2. NoneEstablished(k.l3out) => NoneEstablished(Tail(k.l3out))
    BY <1>1, <2>1, NoneEstablishedQueue
  <2>3. Keeping(k, [k EXCEPT !.l3out = Tail(@), !.state = st])
    BY <1>1, <2>1, <2>2 DEF Keeping, Fields, Emptied, Fresh, Virgin, Occupied,
       RecyclableAtOnce, Tame
  <2>4. QED
    BY <1>3, <2>3, OneKeeping DEF ReadsPrimitive
<1>4. QED
  BY <1>2, <1>3

(* The loop that leaves may be the last use of the channel: unless it      *)
(* transmits, its filler is still to come (Emptied).                       *)
LEMMA LeaveLoopSafe == ASSUME IInv, Safe, NEW c \in Chans, LeaveLoop(c) PROVE Safe'
<1> DEFINE k == chan[c]
           reset(n) == [k EXCEPT !.ctx = None, !.loop = FALSE, !.state = "chIdle",
                                 !.call = "none", !.next = n]
<1>1. k \in Fields /\ k.loop /\ (k.l1 \/ k.filler) /\ k.letsGo = None
  BY DEF IInv, Good, LeaveLoop, Safe, Emptied
<1>2. ASSUME NEW n \in Tch \cup {None}
      PROVE  /\ reset(n) \in Fields
             /\ reset(n).l1 = k.l1 /\ reset(n).filler = k.filler
             /\ reset(n).t3101 = k.t3101 /\ reset(n).t3109 = k.t3109
             /\ reset(n).t3111 = k.t3111
             /\ Tame(reset(n))
  <2>1. reset(n) \in Fields
    BY <1>1, ZenonT(60) DEF Fields, ChannelStates, CallStates
  <2>2. /\ reset(n).l1 = k.l1 /\ reset(n).filler = k.filler
        /\ reset(n).t3101 = k.t3101 /\ reset(n).t3109 = k.t3109
        /\ reset(n).t3111 = k.t3111
    BY <1>1 DEF Fields
  <2>3. reset(n).call = "none" /\ reset(n).state = "chIdle" /\ reset(n).letsGo = None
    BY <1>1 DEF Fields
  <2>4. QED
    BY <2>1, <2>2, <2>3 DEF Tame
<1> HIDE DEF reset
<1>3. ASSUME NEW n \in Tch \cup {None}
      PROVE  /\ Emptied(ImmediateRelease(reset(n))) /\ Emptied(StartNormalRelease(reset(n)))
             /\ Tame(ImmediateRelease(reset(n))) /\ Tame(StartNormalRelease(reset(n)))
             /\ Occupied(k) => Occupied(StartNormalRelease(reset(n)))
  <2>1. /\ Emptied(ImmediateRelease(reset(n)))
        /\ Tame(ImmediateRelease(reset(n)))
    BY <1>1, <1>2, ImmediateReleaseFields DEF Emptied, Tame
  <2>2. /\ Emptied(StartNormalRelease(reset(n)))
        /\ Tame(StartNormalRelease(reset(n)))
    <3>1. Emptied(StartNormalRelease(reset(n)))
      BY <1>1, <1>2, NormalReleaseFields, ZenonT(60) DEF Emptied
    <3>2. ASSUME NEW f \in Fields, Tame(f) PROVE Tame(StartNormalRelease(f))
      BY <3>2, NormalReleaseFields DEF Tame
    <3>3. QED
      BY <1>2, <3>1, <3>2
  <2>3. Occupied(k) => Occupied(StartNormalRelease(reset(n)))
    BY <1>1, <1>2, NormalReleaseFields, ZenonT(60) DEF Occupied, RecyclableAtOnce
  <2>4. QED
    BY <2>1, <2>2, <2>3
<1>4. Gentle(c)
  <2>1. PICK n \in Tch \cup {None} :
          chan'[c] = IF k.state = "chRequestHardRelease"
                     THEN ImmediateRelease(reset(n)) ELSE StartNormalRelease(reset(n))
    BY <1>1 DEF LeaveLoop, Fields, reset
  <2>2. Emptied(chan'[c]) /\ Tame(chan'[c])
    BY <1>3, <2>1
  <2>3. ~Queued(c) /\ (c \in Sdcch => \A m \in Mobiles : ~Due(m, c))
    BY <1>1 DEF Safe, Entries, Queued, Fresh, Virgin, Untouched
  <2>4. Tch = {} /\ (\E m \in Mobiles : At(m, c)) => Occupied(chan'[c])
    BY <1>3, <2>1 DEF Safe, Kept, Tame
  <2>5. QED
    BY <2>2, <2>3, <2>4 DEF Gentle
<1>5. ASSUME NEW d \in Chans, d # c PROVE Gentle(d)
  <2>1. chan'[d] \in {chan[d], [chan[d] EXCEPT !.ctx = None]}
    BY <1>5 DEF LeaveLoop
  <2>2. chan[d] \in Fields
    BY DEF IInv, Good
  <2>3. QED
    BY <2>1, <2>2, KeepingItself, MinorKeeps, StaysGentle
<1>6. QED
  BY <1>4, <1>5, AllGentle DEF LeaveLoop

(* Reassignment opens TCHs, which no RACH is waiting for, and touches the  *)
(* channels it is between no deeper than their states.                     *)
LEMMA CallKeeps ==
  ASSUME NEW k \in Fields, Tch # {}
  PROVE  /\ \A n \in Tch : Keeping(k, [k EXCEPT !.next = n, !.call = "allocated"])
         /\ Keeping(k, [k EXCEPT !.call = "assigning"])
         /\ Keeping(k, [k EXCEPT !.state = "chRequestRelease", !.ctx = None])
         /\ Keeping(k, Closed(k))
         /\ Keeping(k, [k EXCEPT !.state = "chRequestRelease"])
         /\ Keeping(k, [k EXCEPT !.next = None, !.call = "none"])
         /\ Keeping(k, [k EXCEPT !.state = "chRequestHardRelease"])
         /\ \A d : Keeping(k, [k EXCEPT !.letsGo = d])
<1> USE DEF Keeping, Fields, Emptied, Fresh, Virgin, Occupied, RecyclableAtOnce, Tame
<1>1. \A n \in Tch : Keeping(k, [k EXCEPT !.next = n, !.call = "allocated"])
  BY ZenonT(60)
<1>2. Keeping(k, [k EXCEPT !.call = "assigning"])
  OBVIOUS
<1>3. Keeping(k, [k EXCEPT !.state = "chRequestRelease", !.ctx = None])
  OBVIOUS
<1>4. Keeping(k, Closed(k))
  BY DEF Closed
<1>5. Keeping(k, [k EXCEPT !.state = "chRequestRelease"])
  OBVIOUS
<1>6. Keeping(k, [k EXCEPT !.next = None, !.call = "none"])
  OBVIOUS
<1>7. Keeping(k, [k EXCEPT !.state = "chRequestHardRelease"])
  OBVIOUS
<1>8. \A d : Keeping(k, [k EXCEPT !.letsGo = d])
  OBVIOUS
<1>9. QED
  BY <1>1, <1>2, <1>3, <1>4, <1>5, <1>6, <1>7, <1>8

LEMMA OpenedGentle ==
  ASSUME IInv, Safe, NEW t \in Tch, Emptied(chan'[t])
  PROVE  Gentle(t)
<1>1. t \notin Sdcch /\ Tch # {}
  BY PoolAssumption
<1>2. QED
  BY <1>1 DEF Gentle, Safe, Entries, Queued

LEMMA AllocNextTCHSafe ==
  ASSUME IInv, Safe, NEW c \in Chans, NEW t \in Tch, AllocNextTCH(c, t)
  PROVE  Safe'
<1>1. t \in Chans /\ c # t /\ Tch # {}
  BY PoolAssumption DEF AllocNextTCH, Chans
<1>2. chan[c] \in Fields /\ chan[t] \in Fields /\ chan[c].holder \in Mobiles \cup {None}
  BY <1>1 DEF IInv, Good, Fields
<1>3. Gentle(t)
  <2>1. chan'[t] = LcOpen(chan[t], chan[c].holder)
    BY <1>1 DEF AllocNextTCH, IInv
  <2>2. QED
    BY <1>2, <2>1, OpenFields, OpenedGentle
<1>4. Gentle(c)
  <2>1. chan'[c] = [chan[c] EXCEPT !.next = t, !.call = "allocated"]
    BY <1>1 DEF AllocNextTCH, IInv
  <2>2. Keeping(chan[c], [chan[c] EXCEPT !.next = t, !.call = "allocated"])
    BY <1>1, <1>2, CallKeeps
  <2>3. Keeping(chan[c], chan'[c])
    BY <2>1, <2>2, Zenon
  <2>4. QED
    BY <2>3, StaysGentle
<1>5. ASSUME NEW d \in Chans, d # c, d # t PROVE Gentle(d)
  <2>1. chan'[d] = chan[d]
    BY <1>5 DEF AllocNextTCH, IInv
  <2>2. QED
    BY <2>1, KeepingItself, StaysGentle
<1>6. QED
  BY <1>3, <1>4, <1>5, AllGentle DEF AllocNextTCH

LEMMA ReassignStartSafe ==
  ASSUME IInv, Safe, NEW c \in Chans, ReassignStart(c)
  PROVE  Safe'
<1> DEFINE t == chan[c].next
           opened == LcOpen(chan[t], chan[c].holder)
<1>1. /\ chan[c] \in Fields /\ t \in Tch \cup {None}
      /\ chan[c].holder \in Mobiles \cup {None}
  BY DEF IInv, Good, Fields
<1>2. Tch # {}
  BY DEF Safe, Kept, Tame, ReassignStart
<1>3. ASSUME t \in Tch PROVE Gentle(t)
  <2>1. t \in Chans /\ chan[t] \in Fields
    BY <1>3 DEF Chans, IInv, Good
  <2>2. Emptied(opened) /\ opened \in Fields
    BY <1>1, <2>1, OpenFields, OpenGood DEF Good
  <2>3. chan'[t] = [opened EXCEPT !.ctx = chan[c].ctx, !.state = "chReassignTarget"]
    BY <2>1 DEF ReassignStart, IInv
  <2> HIDE DEF opened, t
  <2>4. Emptied(chan'[t])
    BY <2>2, <2>3 DEF Emptied, Fields
  <2>5. QED
    BY <1>3, <2>4, OpenedGentle
<1>4. ASSUME c # t PROVE Gentle(c)
  <2>1. chan'[c] = [chan[c] EXCEPT !.call = "assigning"]
    BY <1>4 DEF ReassignStart, IInv
  <2>2. Keeping(chan[c], chan'[c])
    BY <1>1, <1>2, <2>1, CallKeeps
  <2>3. QED
    BY <2>2, StaysGentle
<1>5. ASSUME NEW d \in Chans, d # c, d # t PROVE Gentle(d)
  <2>1. chan'[d] = chan[d]
    BY <1>5 DEF ReassignStart, IInv
  <2>2. QED
    BY <2>1, KeepingItself, StaysGentle
<1>6. \A d \in Chans : Gentle(d)
  BY <1>1, <1>3, <1>4, <1>5, NoneAssumption
<1>7. QED
  BY <1>6, AllGentle DEF ReassignStart

LEMMA ReassignFailureSafe ==
  ASSUME IInv, Safe, NEW c \in Chans, ReassignFailure(c)
  PROVE  Safe'
<1> DEFINE t == chan[c].next
<1>1. t \in Chans /\ t # c /\ chan[t] \in Fields /\ chan[c] \in Fields
  BY DEF IInv, Good, ReassignFailure
<1>2. Tch # {}
  BY DEF Safe, Kept, Tame, ReassignFailure
<1>3. /\ chan'[t] = [chan[t] EXCEPT !.state = "chRequestRelease", !.ctx = None]
      /\ chan'[c] = Closed(chan[c])
      /\ \A d \in Chans : d # c /\ d # t => chan'[d] = chan[d]
  BY <1>1 DEF ReassignFailure, IInv
<1>4. \A d \in Chans : Keeping(chan[d], chan'[d])
  BY <1>1, <1>2, <1>3, CallKeeps, KeepingItself, ZenonT(60)
<1>5. QED
  BY <1>4, StaysGentle, AllGentle DEF ReassignFailure

LEMMA ReassignCompleteSafe ==
  ASSUME IInv, Safe, NEW m \in Mobiles, NEW t \in Chans, ReassignComplete(t, m)
  PROVE  Safe'
<1> DEFINE c == home[chan[t].ctx]
           old == chan[c]
           quiet == [old EXCEPT !.next = None, !.call = "none"]
           asleep == [chan[t] EXCEPT !.letsGo = c]
           asked(q) == [old EXCEPT !.state = "chRequestRelease", !.l3in = q]
<1>1. c \in Chans /\ c # t /\ old \in Fields /\ chan[t] \in Fields /\ Tch # {}
  BY ZenonT(60) DEF IInv, Good, ReassignComplete
<1>2. chan' = [chan EXCEPT ![c] = quiet, ![t] = asleep] \/ \E q : Becomes(c, asked(q))
  BY DEF ReassignComplete
<1>3. UNCHANGED <<rachq, phone>>
  BY DEF ReassignComplete
<1> HIDE DEF c
<1>4. CASE \E q : Becomes(c, asked(q))
  <2>1. \A q : Keeping(old, asked(q))
    BY <1>1, MinorKeeps, ZenonT(60)
  <2>2. QED
    BY <1>1, <1>3, <1>4, <2>1, OneKeeping, ZenonT(60)
<1>5. CASE chan' = [chan EXCEPT ![c] = quiet, ![t] = asleep]
  <2>1. Keeping(old, quiet) /\ Keeping(chan[t], asleep)
    BY <1>1, CallKeeps
  <2> HIDE DEF quiet, asleep
  <2>2. /\ chan'[c] = quiet /\ chan'[t] = asleep
        /\ \A d \in Chans : d # c /\ d # t => chan'[d] = chan[d]
    BY <1>1, <1>5 DEF IInv
  <2>3. \A d \in Chans : Gentle(d)
    BY <2>1, <2>2, KeepingItself, StaysGentle
  <2>4. QED
    BY <1>3, <2>3, AllGentle
<1>6. QED
  BY <1>2, <1>4, <1>5

(* The late hard release may hit the next use of the old channel: it ends  *)
(* a loop, if there is one, and a channel of the queue has none.           *)
LEMMA ReassignReleasesSafe ==
  ASSUME IInv, Safe, NEW t \in Chans, ReassignReleases(t)
  PROVE  Safe'
<1> DEFINE c == chan[t].letsGo
           woken == [chan EXCEPT ![t].letsGo = None]
<1>1. c \in Chans /\ Tch # {}
  BY DEF IInv, Good, Fields, ReassignReleases, Safe, Kept, Tame
<1>2. chan' = [woken EXCEPT ![c].state = "chRequestHardRelease"]
  BY DEF ReassignReleases
<1>3. UNCHANGED <<rachq, phone>>
  BY DEF ReassignReleases
<1> HIDE DEF c
<1>4. ASSUME NEW d \in Chans PROVE Keeping(chan[d], chan'[d])
  <2>1. PICK k \in Fields : k = chan[d]
    BY DEF IInv, Good
  <2>2. chan'[d] \in {k, [k EXCEPT !.letsGo = None],
                      [k EXCEPT !.state = "chRequestHardRelease"],
                      [[k EXCEPT !.letsGo = None] EXCEPT !.state = "chRequestHardRelease"]}
    BY <1>1, <1>2, <2>1 DEF IInv
  <2>3. [k EXCEPT !.letsGo = None] \in Fields
    BY DEF Fields
  <2>4. /\ Keeping(k, [k EXCEPT !.letsGo = None])
        /\ Keeping(k, [k EXCEPT !.state = "chRequestHardRelease"])
        /\ Keeping([k EXCEPT !.letsGo = None],
                   [[k EXCEPT !.letsGo = None] EXCEPT !.state = "chRequestHardRelease"])
    <3>1. \A f \in Fields : /\ Keeping(f, [f EXCEPT !.letsGo = None])
                            /\ Keeping(f, [f EXCEPT !.state = "chRequestHardRelease"])
      BY <1>1, CallKeeps, ZenonT(60)
    <3>2. QED
      BY <2>3, <3>1, ZenonT(60)
  <2>5. Keeping(k, [[k EXCEPT !.letsGo = None] EXCEPT !.state = "chRequestHardRelease"])
    BY <2>4 DEF Keeping
  <2>6. QED
    BY <2>1, <2>2, <2>4, <2>5, KeepingItself
<1>5. QED
  BY <1>3, <1>4, StaysGentle, AllGentle
-----------------------------------------------------------------------------
(* The mobiles.                                                            *)
LEMMA SeizeSafe ==
  ASSUME IInv, Safe, NEW m \in Mobiles, NEW c \in Chans, Seize(m, c)
  PROVE  Safe'
<1> DEFINE f == [FirstFrame(chan[c]) EXCEPT !.link = "established"]
           r == [f EXCEPT !.l3out = Append(@, "ESTABLISH")]
<1>1. chan[c] \in Good /\ Due(m, c) /\ chan[c].l1
  BY DEF IInv, Seize, Due
<1>2. f \in Fields /\ f.l1 /\ f.t3109 = chan[c].t3109 /\ f.t3111 = chan[c].t3111
      /\ f.t3101 \in {chan[c].t3101, "off"} /\ f.call = chan[c].call
      /\ f.state = chan[c].state /\ f.letsGo = chan[c].letsGo
  <2>1. f \in Fields
    BY <1>1, LinkGood DEF Good
  <2>2. chan[c] \in Fields
    BY <1>1 DEF Good
  <2>3. CASE chan[c].t3101 = "off"
    BY <1>1, <2>1, <2>2, <2>3 DEF FirstFrame, Fields
  <2>4. CASE chan[c].t3101 # "off"
    BY <1>1, <2>1, <2>2, <2>4 DEF FirstFrame, Fields
  <2>5. QED
    BY <2>3, <2>4
<1> HIDE DEF f
<1>3. /\ chan'[c] = r
      /\ \A d \in Chans : d # c => chan'[d] = chan[d]
  BY DEF Seize, Becomes, IInv, WriteToL3, f
<1>4. /\ Emptied(r) /\ (Occupied(chan[c]) => Occupied(r))
      /\ (Tame(chan[c]) => Tame(r))
  BY <1>2 DEF Emptied, Occupied, RecyclableAtOnce, Tame, Fields
<1> HIDE DEF r
<1>5. ~Queued(c)
  BY <1>1 DEF Safe, Untouched, Entries, Queued
<1>6. \A n \in Mobiles, d \in Chans : /\ At(n, d)' <=> At(n, d)
                                      /\ Due(n, d)' <=> Due(n, d) /\ n # m
  BY <1>1 DEF Seize, IInv, Rest, Due, At
<1>7. Entries'
  BY <1>3, <1>5 DEF Safe, Entries, Queued, Seize, Chans
<1>8. Untouched'
  BY <1>1, <1>3, <1>6 DEF Safe, Untouched, Queued, Seize, Chans
<1>9. ASSUME Tch = {} PROVE Kept'
  BY <1>3, <1>4, <1>6, <1>9 DEF Safe, Kept, Queued, Seize
<1>10. QED
  BY <1>3, <1>4, <1>7, <1>8, <1>9 DEF Safe

LEMMA LeaveTunes ==
  ASSUME IInv, NEW m \in Mobiles, Leave(m)
  PROVE  \A n \in Mobiles, d \in Chans : /\ At(n, d)' <=> At(n, d) /\ n # m
                                         /\ Due(n, d)' <=> Due(n, d) /\ n # m
BY NoneAssumption DEF IInv, Rest, Leave, Due, At

LEMMA MsDisconnectsSafe ==
  ASSUME IInv, Safe, NEW m \in Mobiles, NEW c \in Chans, MsDisconnects(m, c)
  PROVE  Safe'
<1> DEFINE r == WriteToL3(LinkDown(chan[c]), "RELEASED")
<1>1. chan[c] \in Good /\ At(m, c) /\ chan[c].l1 /\ chan[c].link # "released"
  BY DEF IInv, MsDisconnects
<1>2. /\ r.l1 /\ r.state = chan[c].state /\ r.call = chan[c].call
      /\ r.letsGo = chan[c].letsGo
  BY <1>1 DEF WriteToL3, LinkDown, Good, Fields
<1>3. /\ chan'[c] = r
      /\ \A d \in Chans : d # c => chan'[d] = chan[d]
  BY DEF MsDisconnects, Becomes, IInv
<1> HIDE DEF r
<1>4. ~Queued(c) /\ (c \in Sdcch => \A n \in Mobiles : ~Due(n, c))
  BY <1>1 DEF Safe, Untouched, Entries, Queued, Fresh, Virgin
<1>5. \A n \in Mobiles, d \in Chans : /\ At(n, d)' <=> At(n, d) /\ n # m
                                      /\ Due(n, d)' <=> Due(n, d) /\ n # m
  BY LeaveTunes DEF MsDisconnects
<1>6. Entries'
  BY <1>3, <1>4 DEF Safe, Entries, Queued, MsDisconnects, Chans
<1>7. Untouched'
  BY <1>3, <1>4, <1>5 DEF Safe, Untouched, Queued, MsDisconnects, Chans
<1>8. ASSUME Tch = {} PROVE Kept'
  BY <1>1, <1>2, <1>3, <1>5, <1>8 DEF Safe, Kept, Queued, MsDisconnects, Tame
<1>9. QED
  BY <1>2, <1>3, <1>6, <1>7, <1>8 DEF Safe, Emptied

LEMMA MsLeavesSafe ==
  ASSUME IInv, Safe, NEW m \in Mobiles, MsTimesOut(m) \/ MsVanishes(m)
  PROVE  Safe'
<1>1. Leave(m) /\ UNCHANGED <<chan, home, rachq>>
  BY DEF MsTimesOut, MsVanishes
<1>2. \A n \in Mobiles, d \in Chans : /\ At(n, d)' <=> At(n, d) /\ n # m
                                      /\ Due(n, d)' <=> Due(n, d) /\ n # m
  BY <1>1, LeaveTunes
<1>3. Entries'
  BY <1>1 DEF Safe, Entries
<1>4. Untouched'
  BY <1>1, <1>2 DEF Safe, Untouched, Queued, Chans
<1>5. Tch = {} => Kept'
  BY <1>1, <1>2 DEF Safe, Kept, Queued
<1>6. QED
  BY <1>1, <1>3, <1>4, <1>5 DEF Safe

(* A reassignment takes a mobile to a TCH and back, never to an SDCCH it   *)
(* has yet to seize.                                                       *)
LEMMA MsTunesSafe ==
  ASSUME IInv, Safe, NEW m \in Mobiles, NEW c \in Chans, MsMoves(m, c) \/ MsReturns(m, c)
  PROVE  Safe'
<1>1. UNCHANGED <<chan, home, rachq>> /\ chan[c].call = "assigning"
      /\ chan[c].next \in Tch \cup {None}
  BY DEF MsMoves, MsReturns, IInv, Good, Fields
<1>2. Tch # {}
  BY <1>1 DEF Safe, Kept, Tame
<1>3. \A n \in Mobiles, d \in Sdcch : Due(n, d)' <=> Due(n, d) /\ n # m
  <2>1. \A d \in Sdcch : d # chan[c].next
    BY <1>1, PoolAssumption, NoneAssumption DEF Chans
  <2>2. CASE MsMoves(m, c)
    BY <2>1, <2>2 DEF MsMoves, IInv, Rest, Due, At
  <2>3. CASE MsReturns(m, c)
    BY <2>1, <2>3 DEF MsReturns, IInv, Rest, Due, At
  <2>4. QED
    BY <2>2, <2>3
<1>4. Entries'
  BY <1>1 DEF Safe, Entries
<1>5. Untouched'
  BY <1>1, <1>3 DEF Safe, Untouched, Queued
<1>6. QED
  BY <1>1, <1>2, <1>4, <1>5 DEF Safe
-----------------------------------------------------------------------------
(* The queue of the CCCH.                                                  *)
LEMMA RachSafe ==
  ASSUME IInv, Safe, RachPool \subseteq Sdcch, NEW m \in Mobiles, NEW c \in RachPool,
         Rach(m, c)
  PROVE  Safe'
<1> DEFINE r == LcOpen(chan[c], m)
           e == [from |-> m, chan |-> c, old |-> FALSE]
<1>1. c \in Sdcch /\ c \in Chans /\ chan[c] \in Fields
  BY DEF Chans, IInv, Good
<1>2. ~Occupied(chan[c]) /\ ~chan[c].loop
  BY <1>1 DEF Rach, Recyclable, RecyclableAtOnce, L1IsIdle, Occupied, Safe, Emptied
<1>3. Fresh(r) /\ Emptied(r) /\ r.holder = m /\ (Tame(chan[c]) => Tame(r))
  BY <1>1, <1>2, OpenFields DEF Tame
<1>4. /\ chan'[c] = r
      /\ \A d \in Chans : d # c => chan'[d] = chan[d]
  BY <1>1 DEF Rach, Becomes, IInv
<1> HIDE DEF r
<1>5. ~Queued(c) /\ \A n \in Mobiles : ~Due(n, c)
  BY <1>1, <1>2 DEF Safe, Entries, Untouched, Queued, Fresh, Virgin
<1>6. /\ DOMAIN rachq' = DOMAIN rachq \cup {Len(rachq) + 1}
      /\ Len(rachq) + 1 \notin DOMAIN rachq
      /\ \A i \in DOMAIN rachq : rachq'[i] = rachq[i]
      /\ rachq'[Len(rachq) + 1] = e
  BY DEF Rach, IInv, Rest
<1>7. Entries'
  <2>1. ASSUME NEW i \in DOMAIN rachq
        PROVE  rachq[i].chan # c /\ chan'[rachq[i].chan] = chan[rachq[i].chan]
    BY <1>4, <1>5 DEF Queued, Safe, Entries, Chans
  <2>2. \A i \in DOMAIN rachq' : /\ rachq'[i].chan \in Sdcch
                                 /\ Fresh(chan'[rachq'[i].chan])
                                 /\ chan'[rachq'[i].chan].holder = rachq'[i].from
    BY <1>1, <1>3, <1>4, <1>6, <2>1 DEF Safe, Entries
  <2>3. \A i, j \in DOMAIN rachq' : rachq'[i].chan = rachq'[j].chan => i = j
    BY <1>6, <2>1 DEF Safe, Entries
  <2>4. QED
    BY <2>2, <2>3 DEF Entries
<1>8. \A d \in Chans : Queued(d)' <=> Queued(d) \/ d = c
  BY <1>6 DEF Queued
<1>9. Untouched'
  BY <1>4, <1>5, <1>8 DEF Safe, Untouched, Due, At, Rach, Chans
<1>10. ASSUME Tch = {} PROVE Kept'
  BY <1>1, <1>2, <1>3, <1>4, <1>8, <1>10 DEF Safe, Kept, At, Rach
<1>11. QED
  BY <1>3, <1>4, <1>7, <1>9, <1>10 DEF Safe

LEMMA RachAgesSafe ==
  ASSUME IInv, Safe, NEW i \in DOMAIN rachq, RachAges(i)
  PROVE  Safe'
<1>1. rachq \in Seq(Entry)
  BY DEF IInv, Rest, Entry
<1>2. /\ DOMAIN rachq' = DOMAIN rachq
      /\ \A j \in DOMAIN rachq : /\ rachq'[j].chan = rachq[j].chan
                                 /\ rachq'[j].from = rachq[j].from
  BY <1>1 DEF RachAges, Entry
<1>3. \A c \in Chans : Queued(c)' <=> Queued(c)
  BY <1>2 DEF Queued
<1>4. Entries'
  BY <1>2 DEF Safe, Entries, RachAges
<1>5. Untouched'
  BY <1>3 DEF Safe, Untouched, Due, At, RachAges, Chans
<1>6. Tch = {} => Kept'
  BY <1>3 DEF Safe, Kept, At, RachAges
<1>7. QED
  BY <1>4, <1>5, <1>6 DEF Safe, RachAges

(* What is left in the queue once its head is taken.                       *)
LEMMA HeadTaken ==
  ASSUME IInv, Safe, rachq # << >>, rachq' = Tail(rachq)
  PROVE  LET c == Head(rachq).chan IN
         /\ c \in Sdcch /\ Head(rachq).from \in Mobiles
         /\ Queued(c) /\ Fresh(chan[c])
         /\ \A d \in Chans : Queued(d)' => Queued(d) /\ d # c
         /\ \A i \in DOMAIN rachq' : i + 1 \in DOMAIN rachq /\ rachq'[i] = rachq[i + 1]
<1>1. rachq \in Seq(Entry)
  BY DEF IInv, Rest, Entry
<1>2. 1 \in DOMAIN rachq /\ Head(rachq) = rachq[1]
  BY <1>1
<1>3. \A i \in DOMAIN rachq' : /\ i + 1 \in DOMAIN rachq /\ i + 1 # 1
                               /\ rachq'[i] = rachq[i + 1]
  BY <1>1
<1>4. Head(rachq).chan \in Sdcch /\ Fresh(chan[Head(rachq).chan])
  BY <1>2 DEF Safe, Entries
<1>5. Queued(Head(rachq).chan)
  BY <1>2 DEF Queued
<1>6. \A d \in Chans : Queued(d)' => Queued(d) /\ d # Head(rachq).chan
  BY <1>2, <1>3 DEF Queued, Safe, Entries
<1>7. QED
  BY <1>3, <1>4, <1>5, <1>6, HeadEntry

LEMMA TailEntries ==
  ASSUME IInv, Safe, rachq # << >>, rachq' = Tail(rachq),
         \A c \in Sdcch : Queued(c)' => chan'[c] = chan[c]
  PROVE  Entries'
<1>1. rachq \in Seq(Entry)
  BY DEF IInv, Rest, Entry
<1>2. \A i \in DOMAIN rachq' : i \in Nat /\ i + 1 \in DOMAIN rachq /\ rachq'[i] = rachq[i + 1]
  BY <1>1
<1>3. ASSUME NEW i \in DOMAIN rachq'
      PROVE  /\ rachq'[i].chan \in Sdcch
             /\ Fresh(chan'[rachq'[i].chan])
             /\ chan'[rachq'[i].chan].holder = rachq'[i].from
  BY <1>2 DEF Safe, Entries, Queued
<1>4. ASSUME NEW i \in DOMAIN rachq', NEW j \in DOMAIN rachq',
             rachq'[i].chan = rachq'[j].chan
      PROVE  i = j
  BY <1>2, <1>4 DEF Safe, Entries
<1>5. QED
  BY <1>3, <1>4 DEF Entries

LEMMA AssignSafe == ASSUME IInv, Safe, Assign PROVE Safe'
<1> DEFINE m == Head(rachq).from
           c == Head(rachq).chan
<1>1. rachq # << >> /\ rachq' = Tail(rachq) /\ chan' = chan
  BY DEF Assign
<1>2. /\ c \in Sdcch /\ m \in Mobiles
      /\ Queued(c) /\ Fresh(chan[c])
      /\ \A d \in Chans : Queued(d)' => Queued(d) /\ d # c
  BY <1>1, HeadTaken
<1>3. Entries'
  BY <1>1, TailEntries
<1>4. \A n \in Mobiles, d \in Chans :
        /\ At(n, d)' => At(n, d) \/ (n = m /\ d = c)
        /\ Due(n, d)' => Due(n, d) \/ (n = m /\ d = c)
  <2>1. \A n \in Mobiles : /\ n # m => phone'[n] = phone[n]
                           /\ phone'[m] \in {phone[m], [phone[m] EXCEPT !.at = c]}
    BY <1>2 DEF Assign, IInv, Rest
  <2>2. \A n \in Mobiles : phone[n] \in [at: Chans \cup {None}, heard: BOOLEAN]
    BY DEF IInv, Rest
  <2>3. QED
    BY <2>1, <2>2, <1>2 DEF Due, At
<1> HIDE DEF c, m
<1>5. Untouched'
  <2> SUFFICES ASSUME NEW d \in Sdcch, NEW n \in Mobiles, Due(n, d)'
               PROVE  /\ Virgin(chan[d]) /\ ~Queued(d)'
                      /\ \A l \in Mobiles : Due(l, d)' => n = l
    BY <1>1 DEF Untouched
  <2>1. CASE d = c
    BY <1>2, <1>4, <2>1 DEF Safe, Untouched, Fresh, Chans
  <2>2. CASE d # c
    BY <1>2, <1>4, <2>2 DEF Safe, Untouched, Chans
  <2>3. QED
    BY <2>1, <2>2
<1>6. ASSUME Tch = {} PROVE Kept'
  <2> SUFFICES ASSUME NEW d \in Chans, NEW n \in Mobiles, At(n, d)'
               PROVE  /\ Occupied(chan[d]) /\ ~Queued(d)'
                      /\ \A l \in Mobiles : At(l, d)' => n = l
    BY <1>1, <1>6 DEF Kept, Safe
  <2>1. CASE d = c
    BY <1>2, <1>4, <1>6, <2>1 DEF Safe, Kept, Fresh, Virgin
  <2>2. CASE d # c
    BY <1>2, <1>4, <1>6, <2>2 DEF Safe, Kept
  <2>3. QED
    BY <2>1, <2>2
<1>7. QED
  BY <1>1, <1>3, <1>5, <1>6 DEF Safe

LEMMA DropRachSafe == ASSUME IInv, Safe, DropRach PROVE Safe'
<1> DEFINE c == Head(rachq).chan
           r == ImmediateRelease(chan[c])
<1>1. rachq # << >> /\ rachq' = Tail(rachq) /\ phone' = phone
  BY DEF DropRach
<1>2. /\ c \in Sdcch /\ c \in Chans /\ Queued(c) /\ Fresh(chan[c])
      /\ \A d \in Chans : Queued(d)' => Queued(d) /\ d # c
  BY <1>1, HeadTaken DEF Chans
<1>3. chan[c] \in Fields
  BY <1>2 DEF IInv, Good
<1>4. Emptied(r) /\ (Tame(chan[c]) => Tame(r))
  BY <1>2, <1>3, ImmediateReleaseFields DEF Emptied, Tame, Fresh, Virgin, Occupied
<1>5. /\ chan'[c] = r
      /\ \A d \in Chans : d # c => chan'[d] = chan[d]
  BY <1>2 DEF DropRach, Becomes, IInv
<1> HIDE DEF c, r
<1>6. Entries'
  BY <1>1, <1>2, <1>5, TailEntries DEF Chans
<1>7. Untouched'
  BY <1>1, <1>2, <1>5 DEF Safe, Untouched, Due, At, Chans
<1>8. ASSUME Tch = {} PROVE Kept'
  BY <1>1, <1>2, <1>4, <1>5, <1>8 DEF Safe, Kept, At
<1>9. QED
  BY <1>4, <1>5, <1>6, <1>7, <1>8 DEF Safe
-----------------------------------------------------------------------------
LEMMA InitSafe == Init => Safe
<1> SUFFICES ASSUME Init PROVE Safe
  OBVIOUS
<1>1. \A c \in Chans : chan[c] = LcOpen(Blank, None)
  BY DEF Init
<1>2. LcOpen(Blank, None).l1 /\ Tame(LcOpen(Blank, None))
  BY DEF LcOpen, LcInit, LcStart, Blank, Tame
<1>3. \A m \in Mobiles, c \in Chans : ~At(m, c)
  BY NoneAssumption DEF Init, At
<1>4. Entries /\ Untouched
  BY <1>3 DEF Init, Entries, Untouched, Due, Chans
<1>5. QED
  BY <1>1, <1>2, <1>3, <1>4 DEF Safe, Emptied, Kept

LEMMA StepSafe ==
  ASSUME PromptThreads, RachPool \subseteq Sdcch
  PROVE  IInv /\ Safe /\ [Next]_vars => Safe'
<1> SUFFICES ASSUME IInv, Safe, [Next]_vars PROVE Safe'
  OBVIOUS
<1>1. CASE UNCHANGED vars
  BY <1>1 DEF vars, Safe, Entries, Untouched, Kept, Due, At, Queued
<1>2. CASE \/ \E m \in Mobiles, c \in RachPool : Rach(m, c)
           \/ \E i \in DOMAIN rachq : RachAges(i)
           \/ Assign \/ DropRach
  BY <1>2, RachSafe, RachAgesSafe, AssignSafe, DropRachSafe
<1>3. CASE \/ \E m \in Mobiles : MsTimesOut(m) \/ MsVanishes(m)
           \/ \E m \in Mobiles, c \in Chans :
                Seize(m, c) \/ MsDisconnects(m, c) \/ MsMoves(m, c)
                  \/ MsReturns(m, c) \/ ReassignComplete(c, m)
  BY <1>3, MsLeavesSafe, SeizeSafe, MsDisconnectsSafe, MsTunesSafe, ReassignCompleteSafe
<1>4. ASSUME NEW c \in Chans, StrayFrame(c) \/ Fade(c) \/ Recover(c) \/ Acknowledged(c)
      PROVE  Safe'
  BY <1>4, FrameSafe, FadeSafe
<1>5. ASSUME NEW c \in Chans, L2Threads(c) \/ Time(c) PROVE Safe'
  BY <1>5, LinkFailsSafe, DrainSafe, ControlSafe, TimersSafe, FillerSafe DEF L2Threads, Time
<1>6. ASSUME NEW c \in Chans, L3Thread(c) \/ SendsMessage(c) \/ ChanClose(c)
      PROVE  Safe'
  BY <1>6, DispatchSafe, SeesRadioFailureSafe, LoopSafe, LeaveLoopSafe,
     ReassignReleasesSafe DEF L3Thread
<1>7. ASSUME NEW c \in Chans, ReassignStart(c) \/ ReassignFailure(c) PROVE Safe'
  BY <1>7, ReassignStartSafe, ReassignFailureSafe
<1>8. CASE \E c, t \in Chans : t \in Tch /\ AllocNextTCH(c, t)
  BY <1>8, AllocNextTCHSafe
<1>9. QED
  BY <1>1, <1>2, <1>3, <1>4, <1>5, <1>6, <1>7, <1>8 DEF Next

(* The CCCH never assigns, or takes back, a channel that has gone to       *)
(* another mobile while the RACH waited: not unless a RACH can be given a  *)
(* TCH, or a thread with work is held up for longer than a filler burst.   *)
THEOREM GrantIsHeldAlways ==
  ASSUME PromptThreads, RachPool \subseteq Sdcch
  PROVE  Spec => []GrantIsHeld
<1>1. IInv /\ Safe => GrantIsHeld
  BY SafeConsequences
<1>2. QED
  BY <1>1, InitSafe, StepSafe, Invariance, PTL DEF Spec

(* With SDCCHs only, none goes back to the pool while a mobile that has    *)
(* been heard on it is still tuned to it, whatever its radio and its       *)
(* timers do.                                                              *)
THEOREM NoReuseUnderfootAlways ==
  ASSUME PromptThreads, Tch = {}
  PROVE  Spec => []NoReuseUnderfoot
<1>1. RachPool \subseteq Sdcch
  BY PoolAssumption
<1>2. IInv /\ Safe => NoReuseUnderfoot
  BY SafeConsequences
<1>3. IInv /\ Safe /\ [Next]_vars => Safe'
  BY <1>1, StepSafe
<1>4. QED
  BY <1>2, <1>3, InitSafe, Invariance, PTL DEF Spec
=============================================================================
