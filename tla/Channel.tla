------------------------------ MODULE Channel ------------------------------
(***************************************************************************)
(* The life of a dedicated channel (SDCCH or TCH/FACCH) from the pool back *)
(* to the pool: allocation for a RACH or for a reassignment, T3101, T3109  *)
(* and T3111, the SACCH, the queue mL3In towards LAPDm, the layer-3 loop   *)
(* of DCCHDispatcher and the pool's test recyclable().                     *)
(* Sources: GSM/GSMLogicalChannel.cpp, GSML1FEC.cpp, GSMConfig.cpp,        *)
(* GSMCCCH.cpp, Control/L3LogicalChannel.cpp, L3StateMachine.cpp.          *)
(*                                                                         *)
(* Each channel is served by threads that share it without a common lock:  *)
(* the one that allocates, the CCCH service loop, MessageServiceLoop,      *)
(* ControlServiceLoop, the LAPDm thread and the DCCHDispatcher thread.     *)
(* An action is one pass of one of them.  LAPDm is reduced to the state of *)
(* SAPI 0; its detail is in module LAPDm.                                  *)
(***************************************************************************)
EXTENDS Naturals, Sequences

CONSTANTS
    Sdcch, Tch,     \* the two pools
    RachPool,       \* what a RACH is given: Sdcch, or Tch under very early assignment
    Mobiles,
    Contexts,       \* MMContext objects; as many as the channels can hold
    Noisy,          \* bound: the channels whose radio may fade or carry noise
    MaxRach,        \* bound: entries in gRachq
    MaxQueue,       \* bound: entries in mL3Out; none is lost, the sender waits
    PromptThreads,  \* timing: a thread that has work runs before the filler burst has left
    PromptCall      \* timing: AssignTCHMachine starts before T3101 of its TCH expires

ASSUME PoolAssumption == Sdcch \cap Tch = {} /\ RachPool \subseteq Sdcch \cup Tch
ASSUME BoundAssumption == MaxRach \in Nat /\ MaxQueue \in Nat \ {0}

VARIABLES
    chan,    \* per channel: the fields of L2LogicalChannel and L3LogicalChannel
    home,    \* mmcChan of each MMContext
    rachq,   \* gRachq, oldest first
    phone    \* per mobile: the channel it is tuned to, and if the BTS has heard it

vars == <<chan, home, rachq, phone>>

Chans == Sdcch \cup Tch
None == "none"
ASSUME NoneAssumption == None \notin Chans

Timers == {"off", "running", "expired"}                 \* Z100Timer
Links == {"released", "established", "releasing"}       \* LAPDm SAPI 0
Requests == {"DATA", "RELEASE", "HARDRELEASE"}          \* what mL3In carries
Indications == {"ESTABLISH", "RELEASED", "MDL_ERROR"}   \* what mL3Out carries
CallStates == {"none", "allocated", "assigning"}  \* mNextChan has been, is being used
ChannelStates == {"chIdle", "chEstablished", "chRequestRelease",
                  "chRequestHardRelease", "chReassignTarget"}

\* what a channel remembers
Fields ==
    [t3101: Timers, t3109: Timers, t3111: Timers,
     l1: BOOLEAN,            \* l1active() of the main channel
     sacch: BOOLEAN,         \* l1active() of its SACCH
     filler: BOOLEAN,        \* mFillerSendTime of either is still to come
     lost: BOOLEAN,          \* sacchRadioFailure()
     l3in: Seq(Requests), l3out: Seq(Indications),
     link: Links,
     blocked: BOOLEAN,       \* MessageServiceLoop waits inside LAPDm
     loop: BOOLEAN,          \* inside L3DCCHLoop
     state: ChannelStates,   \* mChState
     ctx: Contexts \cup {None},      \* mChContext
     next: Tch \cup {None},          \* mNextChan
     call: CallStates,               \* of the call on this channel
     letsGo: Chans \cup {None},      \* in the msleep of reassignComplete: the old channel
     holder: Mobiles \cup {None}]    \* history: whom it was allocated for

TypeOK ==
    /\ chan \in [Chans -> Fields]
    /\ home \in [Contexts -> Chans \cup {None}]
    /\ rachq \in Seq([from: Mobiles, chan: Chans, old: BOOLEAN])
    /\ phone \in [Mobiles -> [at: Chans \cup {None}, heard: BOOLEAN]]

-----------------------------------------------------------------------------
(* What the functions of L2LogicalChannel do to the fields of a channel.   *)

L1IsIdle(k) == ~k.l1 /\ ~k.sacch /\ ~k.filler

RecyclableAtOnce(k) == "expired" \in {k.t3101, k.t3109, k.t3111}

Recyclable(k) ==
    /\ "expired" \in {k.t3101, k.t3109, k.t3111}
    /\ L1IsIdle(k)

LcInit(k, m) ==
    [k EXCEPT !.t3101 = "running", !.t3109 = "off", !.t3111 = "off",
              !.lost = FALSE, !.holder = m]

\* sapStart() of both: l1start, and l2dlOpen, which wakes a blocked writer.
LcStart(k) ==
    [k EXCEPT !.l1 = TRUE, !.sacch = TRUE, !.link = "released",
              !.blocked = FALSE, !.l3out = <<>>,
              !.t3101 = "running", !.t3109 = "off", !.t3111 = "off"]

LcOpenNoReset(k, m) ==
    [LcStart(k) EXCEPT !.t3109 = k.t3109, !.t3111 = k.t3111, !.lost = FALSE, !.holder = m]

LcOpen(k, m) == LcStart(LcInit(k, m))

StopSacch(k) == [k EXCEPT !.sacch = FALSE, !.filler = @ \/ k.sacch]

StartNormalReleaseLoud(k) ==
    [k EXCEPT !.t3109 = IF @ = "off" THEN "running" ELSE @, !.l3in = <<"RELEASE">>]

StartNormalRelease(k) ==
    [StopSacch(k) EXCEPT !.t3109 = IF @ = "off" THEN "running" ELSE @,
                         !.l3in = <<"RELEASE">>]

ImmediateReleaseIndication(k) ==
    [StopSacch(k) EXCEPT !.t3101 = "off", !.t3109 = "off", !.t3111 = "expired",
                         !.l1 = FALSE, !.filler = @ \/ k.l1,
                         !.l3in = <<"RELEASED">>]

ImmediateRelease(k) ==
    [StopSacch(k) EXCEPT !.t3101 = "off", !.t3109 = "off", !.t3111 = "expired",
                         !.l1 = FALSE, !.filler = @ \/ k.l1,
                         !.l3in = <<"HARDRELEASE">>]

WriteToL3NoT3111(k, ind) ==
    LET acted == CASE ind = "MDL_ERROR" -> StartNormalRelease(k)
                   [] ind = "RELEASED" -> [k EXCEPT !.t3109 = "off"]
                   [] OTHER -> k
    IN  [acted EXCEPT !.l3out = Append(@, ind)]

\* writeToL3, called by LAPDm with its lock held
WriteToL3(k, ind) ==
    LET acted == CASE ind = "MDL_ERROR" -> StartNormalRelease(k)
                   [] ind = "RELEASED" ->
                        [k EXCEPT !.t3109 = "off", !.t3111 = "running"]
                   [] OTHER -> k
    IN  [acted EXCEPT !.l3out = Append(@, ind)]

\* releaseLink wakes MessageServiceLoop if it waits for an acknowledgement.
LinkDown(k) == [k EXCEPT !.link = "released", !.blocked = FALSE]

\* radioFailure()
RadioFailure(k) == ~k.l1 \/ k.lost

RoomUp(k) == Len(k.l3out) < MaxQueue

At(m, c) == phone[m].at = c
HeardOn(c) == \E m \in Mobiles : At(m, c) /\ phone[m].heard
Leave(m) == phone' = [phone EXCEPT ![m] = [at |-> None, heard |-> FALSE]]

Becomes(c, k) == chan' = [chan EXCEPT ![c] = k]

-----------------------------------------------------------------------------
(* Allocation: GSMConfig::getChan under mLock, then lcinit and lcstart by  *)
(* the same thread, which takes nowhere near T3101.                        *)

Blank == [t3101 |-> "off", t3109 |-> "off", t3111 |-> "off", l1 |-> FALSE,
          sacch |-> FALSE, filler |-> FALSE, lost |-> FALSE, l3in |-> <<>>,
          l3out |-> <<>>, link |-> "released", blocked |-> FALSE, loop |-> FALSE,
          state |-> "chIdle", ctx |-> None, next |-> None, call |-> "none",
          letsGo |-> None, holder |-> None]

\* createCombinationI/VII start every channel of C0, so that it broadcasts.
Init ==
    /\ chan = [c \in Chans |-> LcOpen(Blank, None)]
    /\ home = [x \in Contexts |-> None]
    /\ rachq = <<>>
    /\ phone = [m \in Mobiles |-> [at |-> None, heard |-> FALSE]]

\* enqueueRach: preallocateChForRach, then the entry waits for the CCCH.
Rach(m, c) ==
    /\ At(m, None)
    /\ Len(rachq) < MaxRach
    /\ Recyclable(chan[c])
    /\ Becomes(c, LcOpen(chan[c], m))
    /\ rachq' = Append(rachq, [from |-> m, chan |-> c, old |-> FALSE])
    /\ UNCHANGED <<home, phone>>

\* The entry passes sMaxAge while the CCCH is busy.
RachAges(i) ==
    /\ ~rachq[i].old
    /\ rachq' = [rachq EXCEPT ![i].old = TRUE]
    /\ UNCHANGED <<chan, home, phone>>

\* processRaches: the ImmediateAssignment reaches a mobile that still waits.
Assign ==
    /\ rachq # <<>> /\ ~Head(rachq).old
    /\ LET m == Head(rachq).from
       IN  phone' = IF At(m, None)
                    THEN [phone EXCEPT ![m].at = Head(rachq).chan] ELSE phone
    /\ rachq' = Tail(rachq)
    /\ UNCHANGED <<chan, home>>

\* processRaches: l2sendp(L3_HARDRELEASE_REQUEST) on rach->mChan
DropRach ==
    /\ rachq # <<>> /\ Head(rachq).old
    /\ LET c == Head(rachq).chan IN Becomes(c, ImmediateRelease(chan[c]))
    /\ rachq' = Tail(rachq)
    /\ UNCHANGED <<home, phone>>

-----------------------------------------------------------------------------
(* The mobiles and the radio.                                              *)

\* A burst decodes while T3101 runs: writeLowSide stops it and PH_CONNECT
\* resets LAPDm.  Noise may do this as well as the mobile.
FirstFrame(k) ==
    IF k.t3101 = "off" THEN k
    ELSE [k EXCEPT !.t3101 = "off", !.link = "released"]

StrayFrame(c) ==
    /\ c \in Noisy /\ chan[c].l1 /\ chan[c].t3101 # "off"
    /\ Becomes(c, FirstFrame(chan[c]))
    /\ UNCHANGED <<home, rachq, phone>>

\* The mobile's SABM: LAPDm tells layer 3 the link is up.
Seize(m, c) ==
    /\ At(m, c) /\ ~phone[m].heard
    /\ chan[c].l1 /\ chan[c].link = "released" /\ RoomUp(chan[c])
    /\ Becomes(c, WriteToL3([FirstFrame(chan[c]) EXCEPT !.link = "established"],
                            "ESTABLISH"))
    /\ phone' = [phone EXCEPT ![m].heard = TRUE]
    /\ UNCHANGED <<home, rachq>>

\* The mobile's DISC, or its UA to the DISC of the BTS.
MsDisconnects(m, c) ==
    /\ At(m, c) /\ phone[m].heard
    /\ chan[c].l1 /\ chan[c].link # "released" /\ RoomUp(chan[c])
    /\ Becomes(c, WriteToL3(LinkDown(chan[c]), "RELEASED"))
    /\ Leave(m)
    /\ UNCHANGED <<home, rachq>>

\* A mobile that hears no SACCH leaves at its own RADIO_LINK_TIMEOUT, and
\* one that gets no answer on the channel gives up.
MsTimesOut(m) ==
    /\ phone[m].at # None
    /\ phone[m].heard => ~chan[phone[m].at].sacch
    /\ Leave(m)
    /\ UNCHANGED <<chan, home, rachq>>

\* It may be switched off.
MsVanishes(m) ==
    /\ phone[m].at # None
    /\ Leave(m)
    /\ UNCHANGED <<chan, home, rachq>>

\* The AssignmentCommand takes it to the TCH; it returns if it cannot seize it.
MsMoves(m, c) ==
    /\ At(m, c) /\ phone[m].heard
    /\ chan[c].call = "assigning" /\ chan[c].link = "established"
    /\ phone' = [phone EXCEPT ![m] = [at |-> chan[c].next, heard |-> FALSE]]
    /\ UNCHANGED <<chan, home, rachq>>

MsReturns(m, c) ==
    /\ chan[c].call = "assigning" /\ At(m, chan[c].next) /\ ~phone[m].heard
    /\ phone' = [phone EXCEPT ![m] = [at |-> c, heard |-> TRUE]]
    /\ UNCHANGED <<chan, home, rachq>>

\* mBadFrameTracker of the SACCH passes RADIO_LINK_TIMEOUT, or comes back.
\* Fifteen SACCH frames take longer than T3101, and T3101 longer than a RACH
\* may wait (past sMaxAge the next CCCH block drops it).
Reserved(c) ==
    \/ \E i \in DOMAIN rachq : rachq[i].chan = c
    \/ PromptCall /\ \E d \in Chans :
          chan[d].call = "allocated" /\ chan[d].next = c

Fade(c) ==
    /\ c \in Noisy /\ chan[c].sacch /\ ~chan[c].lost
    /\ chan[c].t3101 = "off" /\ ~Reserved(c)
    /\ Becomes(c, [chan[c] EXCEPT !.lost = TRUE])
    /\ UNCHANGED <<home, rachq, phone>>

Recover(c) ==
    /\ chan[c].sacch /\ chan[c].lost /\ HeardOn(c)
    /\ Becomes(c, [chan[c] EXCEPT !.lost = FALSE])
    /\ UNCHANGED <<home, rachq, phone>>

-----------------------------------------------------------------------------
(* The LAPDm thread, MessageServiceLoop, ControlServiceLoop and the timers. *)

\* N200 retransmissions went unanswered: abnormalRelease.
LinkFails(c) ==
    /\ \/ chan[c].link = "established" /\ chan[c].blocked
       \/ chan[c].link = "releasing"
    /\ RoomUp(chan[c])
    /\ Becomes(c, WriteToL3(LinkDown(chan[c]), "MDL_ERROR"))
    /\ UNCHANGED <<home, rachq, phone>>

Acknowledged(c) ==
    /\ chan[c].blocked /\ chan[c].link = "established"
    /\ chan[c].l1 /\ HeardOn(c)
    /\ Becomes(c, [chan[c] EXCEPT !.blocked = FALSE])
    /\ UNCHANGED <<home, rachq, phone>>

\* sapWriteFromL3 for the head of mL3In; DATA and DISC block until answered.
Drain(c) ==
    LET k == chan[c]
        rest == [k EXCEPT !.l3in = Tail(@)]
        up == k.link = "established"
    IN  /\ ~k.blocked /\ k.l3in # <<>>
        /\ Becomes(c, CASE Head(k.l3in) = "HARDRELEASE" -> LinkDown(rest)
                        [] Head(k.l3in) = "DATA" -> [rest EXCEPT !.blocked = up]
                        [] Head(k.l3in) = "RELEASE" ->
                             IF up THEN [rest EXCEPT !.link = "releasing",
                                                     !.blocked = TRUE]
                                   ELSE rest)
        /\ UNCHANGED <<home, rachq, phone>>

ServiceHostNotT3109(c) ==
    /\ chan[c].l1
    /\ "expired" \in {chan[c].t3101, chan[c].t3111}
    /\ Becomes(c, ImmediateRelease(chan[c]))
    /\ UNCHANGED <<home, rachq, phone>>

\* serviceHost: a timer ran out on a channel that still transmits.
ServiceHost(c) ==
    /\ chan[c].l1
    /\ "expired" \in {chan[c].t3101, chan[c].t3109, chan[c].t3111}
    /\ Becomes(c, ImmediateRelease(chan[c]))
    /\ UNCHANGED <<home, rachq, phone>>

CheckSacch(c) ==
    /\ chan[c].sacch /\ chan[c].lost
    /\ Becomes(c, StartNormalRelease(chan[c]))
    /\ UNCHANGED <<home, rachq, phone>>

\* T3101 also outlasts what a mobile takes to seize the channel or give up.
T3101Expires(c) ==
    /\ chan[c].t3101 = "running" /\ ~Reserved(c)
    /\ \A m \in Mobiles : ~At(m, c)
    /\ Becomes(c, [chan[c] EXCEPT !.t3101 = "expired"])
    /\ UNCHANGED <<home, rachq, phone>>

\* T3109 outlasts the RADIO_LINK_TIMEOUT of a mobile that hears no SACCH.
T3109Expires(c) ==
    /\ chan[c].t3109 = "running"
    /\ (\E m \in Mobiles : At(m, c)) => chan[c].sacch
    /\ Becomes(c, [chan[c] EXCEPT !.t3109 = "expired"])
    /\ UNCHANGED <<home, rachq, phone>>

T3111Expires(c) ==
    /\ chan[c].t3111 = "running"
    /\ Becomes(c, [chan[c] EXCEPT !.t3111 = "expired"])
    /\ UNCHANGED <<home, rachq, phone>>

Running(k) == k.state \in {"chEstablished", "chReassignTarget"}   \* chanRunning()

\* mFillerSendTime passes.
FillerSent(c) ==
    /\ chan[c].filler
    /\ Becomes(c, [chan[c] EXCEPT !.filler = FALSE])
    /\ UNCHANGED <<home, rachq, phone>>

\* The threads of the channel have no work left: none of them is woken by the
\* pool, and recyclable() asks for none of this.
ThreadsDone(c) ==
    /\ IF chan[c].loop THEN Running(chan[c]) /\ ~RadioFailure(chan[c])
                       ELSE chan[c].l3out = <<>>
    /\ chan[c].l3in # <<>> => chan[c].blocked

\* Timing: the poll periods (26 frames and 100 ms) are short against the
\* filler, which a SACCH sends within 480 ms.
FillerPasses(c) ==
    /\ PromptThreads /\ ~chan[c].l1 => ThreadsDone(c)
    /\ FillerSent(c)

-----------------------------------------------------------------------------
(* The DCCHDispatcher thread of a channel, and what the call control state *)
(* machines do to it and to the TCH they reassign the call to.             *)

Users(x) == {c \in Chans : chan[c].ctx = x}
FreeContexts == {x \in Contexts : Users(x) = {}}

\* waitForEstablishOrHandover ignores all but an ESTABLISH, with which
\* L3DCCHLoop begins.  A TCH of a reassignment already has its context.
Dispatch(c) ==
    LET k == chan[c]
        rest == [k EXCEPT !.l3out = Tail(@)]
        entered == [rest EXCEPT !.loop = TRUE, !.state = "chEstablished"]
    IN  /\ ~k.loop /\ k.l3out # <<>>
        /\ CASE Head(k.l3out) # "ESTABLISH" -> Becomes(c, rest) /\ UNCHANGED home
             [] Head(k.l3out) = "ESTABLISH" /\ k.ctx # None ->
                  Becomes(c, entered) /\ UNCHANGED home
             [] OTHER -> \E x \in FreeContexts :
                            /\ Becomes(c, [entered EXCEPT !.ctx = x])
                            /\ home' = [home EXCEPT ![x] = c]
        /\ UNCHANGED <<rachq, phone>>

Inside(c) == chan[c].loop /\ Running(chan[c])
InLoop(c) == Inside(c) /\ chan[c].letsGo = None

SeesRadioFailureHard(c) ==
    /\ InLoop(c) /\ RadioFailure(chan[c])
    /\ Becomes(c, [chan[c] EXCEPT !.state = "chRequestHardRelease"])
    /\ UNCHANGED <<home, rachq, phone>>

\* The loops differ in how they let go of a channel the radio has failed on.
SeesRadioFailure(c) ==
    /\ InLoop(c) /\ RadioFailure(chan[c])
    /\ Becomes(c, [chan[c] EXCEPT !.state = IF c \in Tch THEN "chRequestHardRelease"
                                                         ELSE "chRequestRelease"])
    /\ UNCHANGED <<home, rachq, phone>>

\* checkPrimitive
ReadsPrimitive(c) ==
    /\ InLoop(c) /\ chan[c].l3out # <<>>
    /\ Becomes(c, [chan[c] EXCEPT !.l3out = Tail(@),
                     !.state = IF Head(chan[c].l3out) = "ESTABLISH" THEN @
                               ELSE "chRequestRelease"])
    /\ UNCHANGED <<home, rachq, phone>>

SendsMessage(c) ==
    /\ InLoop(c) /\ chan[c].l3in = <<>>
    /\ Becomes(c, [chan[c] EXCEPT !.l3in = <<"DATA">>])
    /\ UNCHANGED <<home, rachq, phone>>

\* chanClose: the L3ChannelRelease, and the loop is to end.
ChanClose(c) ==
    /\ InLoop(c)
    /\ Becomes(c, [chan[c] EXCEPT !.l3in = Append(@, "DATA"),
                                  !.state = "chRequestRelease"])
    /\ UNCHANGED <<home, rachq, phone>>

\* reassignAllocNextTCH, on the channel of the context if that is an SDCCH:
\* mNextChan is opened a first time.
AllocNextTCH(c, t) ==
    /\ c \in Sdcch /\ InLoop(c) /\ chan[c].call = "none"
    /\ chan[c].ctx # None /\ home[chan[c].ctx] = c
    /\ Recyclable(chan[t])
    /\ chan' = [chan EXCEPT ![c].next = t, ![c].call = "allocated",
                             ![t] = LcOpen(@, chan[c].holder)]
    /\ UNCHANGED <<home, rachq, phone>>

\* reassignStart: mNextChan takes the context and is opened a second time.
ReassignStart(c) ==
    LET t == chan[c].next
        target == [LcOpen(chan[t], chan[c].holder) EXCEPT
                     !.ctx = chan[c].ctx, !.state = "chReassignTarget"]
    IN  /\ InLoop(c) /\ chan[c].call = "allocated"
        /\ chan' = [chan EXCEPT ![c].call = "assigning", ![t] = target]
        /\ UNCHANGED <<home, rachq, phone>>

\* The AssignmentComplete is read on the TCH; reassignComplete runs on the
\* channel the context still points to, its old one.  When all is well the
\* context moves, gMMLock is released and the thread of the TCH sleeps.
ReassignComplete(t, m) ==
    LET c == home[chan[t].ctx]
        old == chan[c]
        moves == old.ctx # None /\ old.next # None
                   /\ chan[old.next].state = "chEstablished"
    IN  /\ t \in Tch /\ InLoop(t) /\ At(m, t) /\ phone[m].heard
        /\ chan[t].ctx # None /\ c \in Chans \ {t}
        /\ IF moves
           THEN /\ home' = [home EXCEPT ![old.ctx] = old.next]
                /\ chan' = [chan EXCEPT ![c].next = None, ![c].call = "none",
                                         ![t].letsGo = c]
           ELSE /\ Len(old.l3in) < 2
                /\ Becomes(c, [old EXCEPT !.state = "chRequestRelease",
                      !.l3in = IF old.ctx = None \/ old.next = None
                               THEN Append(@, "DATA") ELSE @])
                /\ UNCHANGED home
        /\ UNCHANGED <<rachq, phone>>

\* It wakes and has the old channel released, whatever became of it since.
ReassignReleases(t) ==
    LET c == chan[t].letsGo
    IN  /\ c # None
        /\ chan' = [chan EXCEPT ![t].letsGo = None, ![c].state = "chRequestHardRelease"]
        /\ UNCHANGED <<home, rachq, phone>>

Closed(k) ==
    [k EXCEPT !.next = None, !.call = "none",
              !.l3in = Append(@, "DATA"), !.state = "chRequestRelease"]

\* stateAssignTimeout: reassignFailure and closeChannel, on the SDCCH.
ReassignFailure(c) ==
    LET t == chan[c].next
        freed == [chan[t] EXCEPT !.state = "chRequestRelease", !.ctx = None]
    IN  /\ InLoop(c) /\ chan[c].call = "assigning" /\ t \in Chans \ {c}
        /\ chan' = [chan EXCEPT ![t] = freed, ![c] = Closed(chan[c])]
        /\ UNCHANGED <<home, rachq, phone>>

LeaveLoopForgetsNext(c) ==
    /\ chan[c].loop /\ ~Running(chan[c]) /\ chan[c].letsGo = None
    /\ Becomes(c, LET reset == [chan[c] EXCEPT !.ctx = None, !.loop = FALSE,
                                   !.state = "chIdle", !.call = "none"]
                  IN  IF chan[c].state = "chRequestHardRelease"
                      THEN ImmediateRelease(reset) ELSE StartNormalRelease(reset))
    /\ UNCHANGED <<home, rachq, phone>>

\* The end of L3DCCHLoop: L3LogicalChannelReset, and then l3sendp.
LeaveLoop(c) ==
    LET k == chan[c]
        orphan == k.next # None /\ chan[k.next].state = "chReassignTarget"
        reset == [k EXCEPT !.ctx = None, !.loop = FALSE, !.state = "chIdle",
                           !.call = "none",
                           !.next = IF orphan THEN None ELSE @]
        gone == IF k.state = "chRequestHardRelease"
                THEN ImmediateRelease(reset) ELSE StartNormalRelease(reset)
    IN  /\ k.loop /\ ~Running(k) /\ k.letsGo = None
        /\ chan' = [d \in Chans |->
                      IF d = c THEN gone
                      ELSE IF orphan /\ d = k.next THEN [chan[d] EXCEPT !.ctx = None]
                      ELSE chan[d]]
        /\ UNCHANGED <<home, rachq, phone>>

-----------------------------------------------------------------------------
L2Threads(c) == LinkFails(c) \/ Drain(c) \/ ServiceHost(c) \/ CheckSacch(c)
L3Thread(c) ==
    \/ Dispatch(c) \/ SeesRadioFailure(c) \/ ReadsPrimitive(c)
    \/ ReassignReleases(c) \/ LeaveLoop(c)
Time(c) == T3101Expires(c) \/ T3109Expires(c) \/ T3111Expires(c) \/ FillerPasses(c)

Next ==
    \/ \E m \in Mobiles, c \in RachPool : Rach(m, c)
    \/ \E i \in DOMAIN rachq : RachAges(i)
    \/ Assign \/ DropRach
    \/ \E m \in Mobiles, c \in Chans :
         Seize(m, c) \/ MsDisconnects(m, c) \/ MsMoves(m, c) \/ MsReturns(m, c)
           \/ ReassignComplete(c, m)
    \/ \E m \in Mobiles : MsTimesOut(m) \/ MsVanishes(m)
    \/ \E c \in Chans :
         \/ StrayFrame(c) \/ Fade(c) \/ Recover(c) \/ Acknowledged(c)
         \/ L2Threads(c) \/ L3Thread(c) \/ Time(c)
         \/ SendsMessage(c) \/ ChanClose(c)
         \/ ReassignStart(c) \/ ReassignFailure(c)
    \/ \E c, t \in Chans : t \in Tch /\ AllocNextTCH(c, t)

\* Threads are scheduled, timers run out, and a mobile left alone leaves.
Fairness ==
    /\ \A c \in Chans :
         /\ WF_vars(LinkFails(c)) /\ WF_vars(Drain(c))
         /\ WF_vars(ServiceHost(c)) /\ WF_vars(CheckSacch(c))
         /\ WF_vars(L3Thread(c))
         /\ WF_vars(T3101Expires(c)) /\ WF_vars(T3109Expires(c))
         /\ WF_vars(T3111Expires(c)) /\ WF_vars(FillerPasses(c))
    /\ \A m \in Mobiles : WF_vars(MsTimesOut(m))
    /\ WF_vars(Assign \/ DropRach)

Spec == Init /\ [][Next]_vars /\ Fairness

-----------------------------------------------------------------------------
(* Properties.                                                             *)

(* An active channel is always watched: one of its release timers is       *)
(* armed, or its SACCH still runs and its bad frames will start a release. *)
(* Otherwise the channel would transmit for ever (ControlServiceLoop).     *)
Watched ==
    \A c \in Chans : chan[c].l1 =>
        \/ chan[c].sacch
        \/ "off" # chan[c].t3101 \/ "off" # chan[c].t3109 \/ "off" # chan[c].t3111

(* While T3109 runs the SACCH is silent: that is what makes the mobile let *)
(* go of the channel before T3109 hands it to another (startNormalRelease). *)
SilentBeforeReuse ==
    \A c \in Chans : chan[c].t3109 # "off" => ~chan[c].sacch

(* A channel goes back to the pool only when no mobile that was heard on   *)
(* it can still be listening: "Just because we cannot hear the MS on SACCH *)
(* does not mean that it cannot hear it" (ControlServiceLoop).             *)
NoReuseUnderfoot ==
    \A c \in Chans : Recyclable(chan[c]) => ~HeardOn(c)

(* The channel a RACH was given is still its own when the CCCH sends the   *)
(* ImmediateAssignment, or takes the channel back (processRaches).         *)
GrantIsHeld ==
    \A i \in DOMAIN rachq : /\ chan[rachq[i].chan].holder = rachq[i].from
                            /\ chan[rachq[i].chan].l1

(* An MMContext is never forgotten: a loop is inside the channel that has  *)
(* it, or the channel is the target of one that has it too.  Two loops run *)
(* with one context only while one assigns to the other, and then until    *)
(* the hard release that reassignComplete sets after its sleep.            *)
ContextIsServed ==
    /\ \A c \in Chans : chan[c].ctx # None =>
        \/ chan[c].loop
        \/ \E d \in Chans : /\ chan[d].loop /\ chan[d].next = c
                            /\ chan[d].ctx = chan[c].ctx
    /\ \A c, d \in Chans : c # d /\ Inside(c) /\ Inside(d) /\ chan[c].ctx = chan[d].ctx =>
        \/ d \in {chan[c].next, chan[c].letsGo}
        \/ c \in {chan[d].next, chan[d].letsGo}

(* A channel that nobody ever seizes, or whose radio has failed, goes back *)
(* to the pool, unless the mobile is heard.                                *)
LostIsRecycled ==
    \A c \in Chans :
        /\ chan[c].lost ~> (~chan[c].lost \/ Recyclable(chan[c]))
        /\ chan[c].t3101 = "running" ~>
               (Recyclable(chan[c]) \/ HeardOn(c) \/ chan[c].t3101 = "off")
=============================================================================
