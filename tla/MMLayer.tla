------------------------------ MODULE MMLayer ------------------------------
(***************************************************************************)
(* The mobility management layer: MMUser, which queues what the network    *)
(* wants of a subscriber; MMContext, which holds what runs on a channel;   *)
(* the transactions that move from the one to the other; and the paging    *)
(* list.  Sources: Control/L3MMLayer.cpp and .h, L3TranEntry.cpp,          *)
(* L3StateMachine.cpp, L3LogicalChannel.cpp, SIP/SIP2Interface.cpp.        *)
(*                                                                         *)
(* gMMLock makes each function of the layer atomic, so an action is one    *)
(* holding of that lock by one thread: the SIP interface, the paging loop, *)
(* the CLI, or the service loop of a channel.  A service loop that starts  *)
(* an MT-SMS lets go of the lock in between, and then has the transaction  *)
(* in its hand.  The radio side of a channel is in module Channel.         *)
(***************************************************************************)
EXTENDS Naturals, Sequences, FiniteSets

CONSTANTS
    Imsis, Sdcch, Tch, Contexts,
    Mtcs, MtSmss, Mocs, MoSmss, Lurs,   \* the transactions, by service type
    MaxAnswers,     \* bound: channels on which a handset answers one page
    MaxRepages      \* bound: INVITEs and MESSAGEs that the SIP side repeats

Chans == Sdcch \cup Tch

MtTrans == Mtcs \cup MtSmss                \* what the network wants of a subscriber
MoTrans == Mocs \cup MoSmss \cup Lurs     \* what the handset asks for
Trans == MtTrans \cup MoTrans

ASSUME ServiceAssumption ==
    /\ Mtcs \cap (MtSmss \cup Mocs \cup MoSmss \cup Lurs) = {}
    /\ MtSmss \cap (Mocs \cup MoSmss \cup Lurs) = {}
    /\ Mocs \cap (MoSmss \cup Lurs) = {} /\ MoSmss \cap Lurs = {}
ASSUME ChannelAssumption == Sdcch \cap Tch = {}
ASSUME NoneAssumption ==
    /\ "none" \notin Imsis \cup Chans \cup Contexts \cup Trans
    /\ "PagingResponse" \notin Trans
ASSUME BoundAssumption == MaxRepages \in Nat /\ MaxAnswers \in Nat

VARIABLES
    user,     \* per IMSI: its MMUser, if it has one
    ctx,      \* the MMContext objects
    tran,     \* the TranEntry objects
    chan,     \* per channel: its L3LogicalChannel and its service loop
    phone,    \* per IMSI: the channel the handset is tuned to, answers it has left
    repages   \* how often the SIP side has repeated itself

vars == <<user, ctx, tran, chan, phone, repages>>

None == "none"

Slots == {"TE_MM", "TE_CS1", "TE_MOSMS1", "TE_MOSMS2", "TE_MTSMS"}
Messages == {"PagingResponse"} \cup MoTrans   \* or a request, named for what it starts

Users == [known: BOOLEAN,
          mtcq: Seq(Mtcs), smsq: Seq(MtSmss),   \* mmuMTCq, mmuMTSMSq
          ctx: Contexts \cup {None},            \* mmuContext
          late: BOOLEAN]                        \* mmuPageTimer.passed()
MMContexts == [mmu: Imsis \cup {None},                  \* mmcMMU
               slot: [Slots -> Trans \cup {None}],      \* mmcTE
               asked: Seq(Mocs \cup MoSmss),            \* mmcServiceRequests
               settled: BOOLEAN,                        \* mmcDuration() > 5
               terminate: BOOLEAN]                      \* mmcTerminationRequested
TranEntries == [state: {"unborn", "asked", "queued", "hand", "running", "dead"},
                ctx: Contexts \cup {None},              \* mContext
                imsi: Imsis \cup {None}]
L3Channels == [loop: {"idle", "target", "open", "closing"},   \* of mChState
               ctx: Contexts \cup {None},               \* mChContext
               next: Tch \cup {None},                   \* mNextChan
               call: {"none", "allocated", "assigning"}, \* what a call did with it
               who: Imsis \cup {None},                  \* whose handset seized it
               inbox: Seq(Messages),                    \* what the loop has yet to read
               hand: MtSmss \cup {None}]                \* popped, not yet connected
Phones == [at: Chans \cup {None}, answers: 0 .. MaxAnswers]

\* What each object of the layer, and each channel, holds.
TypeOK ==
    /\ user \in [Imsis -> Users]
    /\ ctx \in [Contexts -> MMContexts]
    /\ tran \in [Trans -> TranEntries]
    /\ chan \in [Chans -> L3Channels]
    /\ phone \in [Imsis -> Phones]
    /\ repages \in 0 .. MaxRepages

-----------------------------------------------------------------------------
NoUser == [known |-> FALSE, mtcq |-> <<>>, smsq |-> <<>>, ctx |-> None, late |-> FALSE]
Empty == [s \in Slots |-> None]
NoContext == [mmu |-> None, slot |-> Empty, asked |-> <<>>,
              settled |-> FALSE, terminate |-> FALSE]
NoChannel == [loop |-> "idle", ctx |-> None, next |-> None, call |-> "none",
              who |-> None, inbox |-> <<>>, hand |-> None]

Init ==
    /\ user = [i \in Imsis |-> NoUser]
    /\ ctx = [x \in Contexts |-> NoContext]
    /\ tran = [t \in Trans |-> [state |-> "unborn", ctx |-> None, imsi |-> None]]
    /\ chan = [c \in Chans |-> NoChannel]
    /\ phone = [i \in Imsis |-> [at |-> None, answers |-> 0]]
    /\ repages = 0

mmuIsEmpty(u) == u.mtcq = <<>> /\ u.smsq = <<>>

Places(q, t) == {n \in DOMAIN q : q[n] = t}
Queued(u) == {u.mtcq[n] : n \in DOMAIN u.mtcq} \cup {u.smsq[n] : n \in DOMAIN u.smsq}

SlotsUsed(x) == {s \in Slots : ctx[x].slot[s] # None}
OnContext(x) == {ctx[x].slot[s] : s \in SlotsUsed(x)}

mmIsEmpty(x) ==
    /\ SlotsUsed(x) = {}
    /\ ctx[x].mmu # None => mmuIsEmpty(user[ctx[x].mmu])

ChannelsOf(x) == {c \in Chans : chan[c].ctx = x}      \* mmcChannelUseCnt of them

\* teRemove for each transaction of a set: the dialog gets its answer.
Cancelled(dead) ==
    [t \in Trans |-> IF t \in dead THEN [tran[t] EXCEPT !.state = "dead", !.ctx = None]
                                   ELSE tran[t]]

\* mmDisconnectTran, which promotes the second MO-SMS.
Disconnected(slot, t) ==
    IF slot["TE_MOSMS1"] = t
    THEN [slot EXCEPT !["TE_MOSMS1"] = slot["TE_MOSMS2"], !["TE_MOSMS2"] = None]
    ELSE [s \in Slots |-> IF slot[s] = t THEN None ELSE slot[s]]

\* mmConnectTran: what was in the slot is cancelled.
Connect(x, s, t) ==
    /\ ctx' = [ctx EXCEPT ![x].slot[s] = t]
    /\ tran' = [Cancelled({ctx[x].slot[s]}) EXCEPT
                   ![t].state = "running", ![t].ctx = x]

\* mmcMoveTransactions: a slot that is taken keeps what it has.
Moving(old, x) ==
    IF old \in Contexts \ {x} THEN {s \in SlotsUsed(old) : ctx[x].slot[s] = None} ELSE {}

MovedTranLate(ts, x) == tran
MovedTran(ts, x) == [t \in Trans |-> IF t \in ts THEN [tran[t] EXCEPT !.ctx = x] ELSE tran[t]]

\* mmcUnlink of the context that the handset was attached to
UnlinkedAttached(k, moving) ==
    [k EXCEPT !.slot = [s \in Slots |-> IF s \in moving THEN None ELSE k.slot[s]]]
Unlinked(k, moving) ==
    [k EXCEPT !.mmu = None,
              !.slot = [s \in Slots |-> IF s \in moving THEN None ELSE k.slot[s]]]

\* mmcLink.  Whoever was attached to x is so no more.
mmcLink(x, i) ==
    LET old == user[i].ctx
        moving == Moving(old, x)
        slot == [s \in Slots |-> IF s \in moving THEN ctx[old].slot[s] ELSE ctx[x].slot[s]]
    IN  IF ctx[x].mmu = i THEN UNCHANGED <<user, ctx, tran>>
        ELSE /\ user' = [j \in Imsis |->
                  IF j = i THEN [user[i] EXCEPT !.known = TRUE, !.ctx = x]
                  ELSE IF user[j].ctx = x THEN [user[j] EXCEPT !.ctx = None]
                  ELSE user[j]]
             /\ ctx' = [y \in Contexts |->
                  IF y = x THEN [ctx[x] EXCEPT !.mmu = i, !.slot = slot]
                  ELSE IF y = old THEN Unlinked(ctx[y], moving)
                  ELSE ctx[y]]
             /\ tran' = MovedTran({ctx[old].slot[s] : s \in moving}, x)

\* mmuFree
mmuFree(i) ==
    /\ user' = [user EXCEPT ![i] = NoUser]
    /\ tran' = Cancelled(Queued(user[i]))

\* mmcFree: who waits for more is to be paged again.
Detached(u) == IF mmuIsEmpty(u) THEN NoUser ELSE [u EXCEPT !.ctx = None]

\* mmFreeContext counts the channels that have let go: mmcChannelUseCnt.
FreedAtOnce(leaving) == {x \in Contexts : ChannelsOf(x) \cap leaving # {}}
Freed(leaving) == {x \in Contexts : ChannelsOf(x) # {} /\ ChannelsOf(x) \subseteq leaving}

\* chanFreeContext of each channel in leaving
chanFreeContext(leaving) ==
    LET freed == Freed(leaving)
    IN  /\ ctx' = [x \in Contexts |-> IF x \in freed THEN NoContext ELSE ctx[x]]
        /\ tran' = Cancelled(UNION {OnContext(x) : x \in freed})
        /\ user' = [i \in Imsis |-> IF \E x \in freed : ctx[x].mmu = i
                                    THEN Detached(user[i]) ELSE user[i]]

-----------------------------------------------------------------------------
(* The SIP interface, the paging loop and the CLI.                         *)

mmIsBusy(i) ==
    \/ user[i].mtcq # <<>>
    \/ user[i].ctx # None /\ ctx[user[i].ctx].slot["TE_CS1"] # None

NewMT(t, i) ==
    /\ tran[t].state = "unborn"
    /\ tran' = [tran EXCEPT ![t].state = "queued", ![t].imsi = i]
    /\ UNCHANGED <<ctx, chan, phone, repages>>

\* handleInvite, newMTC or newMTSMS, mmAddMT
Invite(t, i) ==
    /\ t \in Mtcs /\ ~mmIsBusy(i)
    /\ user' = [user EXCEPT ![i].known = TRUE, ![i].mtcq = Append(@, t), ![i].late = FALSE]
    /\ NewMT(t, i)

Message(t, i) ==
    /\ t \in MtSmss
    /\ user' = [user EXCEPT ![i].known = TRUE, ![i].smsq = Append(@, t), ![i].late = FALSE]
    /\ NewMT(t, i)

mmMTRepage(i) ==
    /\ user[i].known /\ repages < MaxRepages
    /\ user' = [user EXCEPT ![i].late = FALSE]
    /\ repages' = repages + 1
    /\ UNCHANGED <<ctx, tran, chan, phone>>

\* mmuPageTimer runs from the last mmuAddMT or mmMTRepage, attached or not.
PageTimerPasses(i) ==
    /\ user[i].known
    /\ user' = [user EXCEPT ![i].late = TRUE]
    /\ UNCHANGED <<ctx, tran, chan, phone, repages>>

\* mmGetPages, for one user of the map: T3113 has passed, or it is paged.
mmGetPagesForEver(i) ==
    /\ user[i].known /\ user[i].ctx = None
    /\ phone' = [phone EXCEPT ![i].answers = MaxAnswers]
    /\ UNCHANGED <<user, ctx, tran, chan, repages>>
mmGetPages(i) ==
    /\ user[i].known /\ user[i].ctx = None
    /\ IF user[i].late
       THEN mmuFree(i) /\ UNCHANGED phone
       ELSE phone' = [phone EXCEPT ![i].answers = MaxAnswers] /\ UNCHANGED <<user, tran>>
    /\ UNCHANGED <<ctx, chan, repages>>

mmTerminateByImsi(i) ==
    /\ user[i].known
    /\ IF user[i].ctx = None
       THEN mmuFree(i) /\ UNCHANGED ctx
       ELSE /\ \E c \in ChannelsOf(user[i].ctx) : chan[c].loop = "open"
            /\ ctx' = [ctx EXCEPT ![user[i].ctx].terminate = TRUE]
            /\ UNCHANGED <<user, tran>>
    /\ UNCHANGED <<chan, phone, repages>>

-----------------------------------------------------------------------------
(* The handsets.                                                           *)

\* What getTCH and getSDCCH give: no call still waits for it (module Channel).
Free(c) ==
    /\ chan[c].loop \in {"idle", "target"} /\ chan[c].ctx = None
    /\ \A e \in Chans : chan[e].call # "none" => chan[e].next # c

\* L3DCCHLoop begins with an ESTABLISH, and the first message follows it.
Establish(c, i, msg) ==
    /\ Free(c)
    /\ IF msg = "PagingResponse"
       THEN /\ phone[i].answers > 0
            /\ phone' = [phone EXCEPT ![i].at = c, ![i].answers = @ - 1]
            /\ UNCHANGED tran
       ELSE /\ tran[msg].state = "unborn"
            /\ phone' = [phone EXCEPT ![i].at = c]
            /\ tran' = [tran EXCEPT ![msg].state = "asked"]
    /\ \E x \in Contexts :
          /\ ChannelsOf(x) = {}
          /\ chan' = [chan EXCEPT ![c] = [chan[c] EXCEPT
                 !.loop = "open", !.ctx = x, !.who = i, !.inbox = <<msg>>]]
    /\ UNCHANGED <<user, ctx, repages>>

\* A further CM Service Request on the same channel.
Request(c, t) ==
    /\ t \in Mocs \cup MoSmss /\ tran[t].state = "unborn"
    /\ chan[c].loop = "open" /\ phone[chan[c].who].at = c
    /\ chan' = [chan EXCEPT ![c].inbox = Append(@, t)]
    /\ tran' = [tran EXCEPT ![t].state = "asked"]
    /\ UNCHANGED <<user, ctx, phone, repages>>

-----------------------------------------------------------------------------
(* The service loop of a channel: checkemMessages, one thing at a time.    *)

Serving(c) == chan[c].loop = "open" /\ chan[c].hand = None

\* NewPagingResponseHandler.  A user that is gone gets a Channel Release.
ReadPagingResponse(c) ==
    /\ Serving(c) /\ chan[c].inbox # <<>> /\ Head(chan[c].inbox) = "PagingResponse"
    /\ chan' = [chan EXCEPT ![c].inbox = Tail(@)]
    /\ IF user[chan[c].who].known THEN mmcLink(chan[c].ctx, chan[c].who)
                                  ELSE UNCHANGED <<user, ctx, tran>>
    /\ UNCHANGED <<phone, repages>>

\* LURInit at once; a CM Service Request waits in mmcServiceRequests.
ReadRequest(c) ==
    /\ Serving(c) /\ chan[c].inbox # <<>> /\ Head(chan[c].inbox) \in MoTrans
    /\ chan' = [chan EXCEPT ![c].inbox = Tail(@)]
    /\ LET t == Head(chan[c].inbox)
       IN  IF t \in Lurs
           THEN Connect(chan[c].ctx, "TE_MM", t)
           ELSE ctx' = [ctx EXCEPT ![chan[c].ctx].asked = Append(@, t)] /\ UNCHANGED tran
    /\ UNCHANGED <<user, phone, repages>>

\* mmCheckNewActivity starts nothing during a mobility management procedure.
Idle(c) == Serving(c) /\ ctx[chan[c].ctx].slot["TE_MM"] = None

\* startMOSMS: a second one must find the first nearly finished (else it is
\* ignored), and a third kills the first.
StartMoSms(x, t, k) ==
    LET oldest == k.slot["TE_MOSMS1"]
        both == oldest # None /\ k.slot["TE_MOSMS2"] # None
        slots == IF both THEN Disconnected(k.slot, oldest) ELSE k.slot
        s == IF slots["TE_MOSMS1"] = None THEN "TE_MOSMS1" ELSE "TE_MOSMS2"
    IN  \/ /\ ctx' = [ctx EXCEPT ![x] = [k EXCEPT !.slot = [slots EXCEPT ![s] = t]]]
           /\ tran' = [Cancelled(IF both THEN {oldest} ELSE {}) EXCEPT
                          ![t].state = "running", ![t].ctx = x]
        \/ /\ oldest # None
           /\ ctx' = [ctx EXCEPT ![x] = k]
           /\ tran' = [tran EXCEPT ![t].state = "dead"]

NewCMServiceResponder(c) ==
    LET x == chan[c].ctx
        t == Head(ctx[x].asked)
        k == [ctx[x] EXCEPT !.asked = Tail(@)]
    IN  /\ Idle(c) /\ ctx[x].asked # <<>>
        /\ \/ /\ t \in Mocs
              /\ ctx' = [ctx EXCEPT ![x] = [k EXCEPT !.slot["TE_CS1"] = t]]
              /\ tran' = [Cancelled({k.slot["TE_CS1"]}) EXCEPT
                             ![t].state = "running", ![t].ctx = x]
           \/ t \in MoSmss /\ StartMoSms(x, t, k)
        /\ UNCHANGED <<user, chan, phone, repages>>

\* mmuServiceMTQueues: a call first
ServiceMTC(c) ==
    LET x == chan[c].ctx
        i == ctx[x].mmu
    IN  /\ Idle(c) /\ ctx[x].asked = <<>> /\ i # None
        /\ ctx[x].slot["TE_CS1"] = None /\ user[i].mtcq # <<>>
        /\ Connect(x, "TE_CS1", Head(user[i].mtcq))
        /\ user' = [user EXCEPT ![i].mtcq = Tail(@)]
        /\ UNCHANGED <<chan, phone, repages>>

\* An MT-SMS is popped, and gMMLock released ...
ServiceMTSMSFirst(c) ==
    LET x == chan[c].ctx
        i == ctx[x].mmu
        q == user[i].mtcq \o user[i].smsq
    IN  /\ Idle(c) /\ ctx[x].asked = <<>> /\ i # None /\ q # <<>>
        /\ chan' = [chan EXCEPT ![c].hand = Head(q)]
        /\ tran' = [tran EXCEPT ![Head(q)].state = "hand"]
        /\ user' = [user EXCEPT ![i].smsq = <<>>, ![i].mtcq = <<>>]
        /\ UNCHANGED <<ctx, phone, repages>>
ServiceMTSMS(c) ==
    LET x == chan[c].ctx
        i == ctx[x].mmu
    IN  /\ Idle(c) /\ ctx[x].asked = <<>> /\ i # None
        /\ ctx[x].slot["TE_CS1"] # None \/ user[i].mtcq = <<>>
        /\ ctx[x].slot["TE_MTSMS"] = None /\ user[i].smsq # <<>>
        /\ chan' = [chan EXCEPT ![c].hand = Head(user[i].smsq)]
        /\ tran' = [tran EXCEPT ![Head(user[i].smsq)].state = "hand"]
        /\ user' = [user EXCEPT ![i].smsq = Tail(@)]
        /\ UNCHANGED <<ctx, phone, repages>>

\* ... before it is connected to what mmuContext is by then.  If it is attached
\* no more, the code has a null or a deleted object in its hand: no step.
StartSMSTran(c) ==
    LET t == chan[c].hand
    IN  /\ t # None /\ user[tran[t].imsi].ctx # None
        /\ Connect(user[tran[t].imsi].ctx, "TE_MTSMS", t)
        /\ chan' = [chan EXCEPT ![c].hand = None]
        /\ UNCHANGED <<user, phone, repages>>

\* A state machine learns who the handset is: mmAttachByImsi.
Identify(c) ==
    /\ Serving(c)
    /\ OnContext(chan[c].ctx) \cap (Mocs \cup MoSmss) # {}
    /\ mmcLink(chan[c].ctx, chan[c].who)
    /\ UNCHANGED <<chan, phone, repages>>

\* A state machine is done with its transaction: teRemove.
EndTran(c, t) ==
    LET x == chan[c].ctx
    IN  /\ Serving(c) /\ t \in OnContext(x)
        /\ ctx' = [ctx EXCEPT ![x].slot = Disconnected(@, t)]
        /\ tran' = Cancelled({t})
        /\ chan' = [e \in Chans |-> IF chan[e].ctx = x /\ t \in Mtcs \cup Mocs
                                   THEN [chan[e] EXCEPT !.call = "none"] ELSE chan[e]]
        /\ UNCHANGED <<user, phone, repages>>

Leaves(c) ==
    phone' = [i \in Imsis |-> IF phone[i].at = c THEN [phone[i] EXCEPT !.at = None]
                                                 ELSE phone[i]]

\* chanClose for want of anything to do, on a termination request, or because
\* the handset or the radio let go of the channel.
CloseIdle(c) ==
    /\ Serving(c) /\ ctx[chan[c].ctx].asked = <<>>
    /\ mmIsEmpty(chan[c].ctx) /\ ctx[chan[c].ctx].settled
    /\ chan' = [chan EXCEPT ![c].loop = "closing"]
    /\ UNCHANGED <<user, ctx, tran, phone, repages>>

CloseTerminated(c) ==
    /\ Serving(c) /\ ctx[chan[c].ctx].terminate
    /\ ctx' = [ctx EXCEPT ![chan[c].ctx].terminate = FALSE]
    /\ chan' = [chan EXCEPT ![c].loop = "closing"]
    /\ UNCHANGED <<user, tran, phone, repages>>

CloseLost(c) ==
    /\ Serving(c)
    /\ Leaves(c)
    /\ chan' = [chan EXCEPT ![c].loop = "closing"]
    /\ UNCHANGED <<user, ctx, tran, repages>>

\* L3LogicalChannelReset: mNextChan too, while no handset has seized it.
LeavingAlone(c) == {c}
Leaving(c) ==
    {c} \cup (IF chan[c].next # None /\ chan[chan[c].next].loop = "target"
              THEN {chan[c].next} ELSE {})

\* The loop exits.  Else mNextChan stays what it was.
CloseLoop(c) ==
    LET gone == Leaving(c)
    IN  /\ chan[c].loop = "closing" /\ chan[c].hand = None
        /\ chanFreeContext(gone)
        /\ chan' = [e \in Chans |->
              IF e = c THEN [NoChannel EXCEPT !.next = IF gone = {c} THEN chan[c].next ELSE None]
              ELSE IF e \in gone THEN [chan[e] EXCEPT !.ctx = None]
              ELSE chan[e]]
        /\ Leaves(c)
        /\ UNCHANGED repages

\* Five seconds pass.
Settle(x) ==
    /\ ChannelsOf(x) # {}
    /\ ctx' = [ctx EXCEPT ![x].settled = TRUE]
    /\ UNCHANGED <<user, tran, chan, phone, repages>>

-----------------------------------------------------------------------------
(* The reassignment of a call: for a while two loops share its context.    *)

\* reassignAllocNextTCH, when the call begins
AllocNextTCH(c, d) ==
    /\ c \in Sdcch /\ d \in Tch
    /\ Serving(c) /\ ctx[chan[c].ctx].slot["TE_CS1"] # None
    /\ chan[c].call = "none" /\ ChannelsOf(chan[c].ctx) = {c}
    /\ Free(d)
    /\ chan' = [chan EXCEPT ![c].next = d, ![c].call = "allocated"]
    /\ UNCHANGED <<user, ctx, tran, phone, repages>>

ReassignStart(c) ==
    LET d == chan[c].next
    IN  /\ Serving(c) /\ chan[c].call = "allocated"
        /\ chan' = [chan EXCEPT ![c].call = "assigning",
                       ![d].loop = "target", ![d].ctx = chan[c].ctx]
        /\ UNCHANGED <<user, ctx, tran, phone, repages>>

\* The handset obeys the AssignmentCommand.  A target that has lost its
\* context gets a new one.
EstablishTarget(c) ==
    LET d == chan[c].next
        i == chan[c].who
    IN  /\ chan[c].call = "assigning" /\ phone[i].at = c /\ chan[d].loop = "target"
        /\ \E x \in Contexts :
              /\ IF chan[d].ctx = None THEN ChannelsOf(x) = {} ELSE x = chan[d].ctx
              /\ chan' = [chan EXCEPT ![d].loop = "open", ![d].who = i, ![d].ctx = x]
        /\ phone' = [phone EXCEPT ![i].at = d]
        /\ UNCHANGED <<user, ctx, tran, repages>>

\* The AssignmentComplete comes by the new channel; the call's timer may run
\* out in either loop.
ReassignComplete(c) ==
    LET d == chan[c].next
    IN  /\ chan[c].call = "assigning" /\ Serving(d) /\ chan[d].ctx = chan[c].ctx
        /\ chan' = [chan EXCEPT ![c].next = None, ![c].call = "none", ![c].loop = "closing"]
        /\ UNCHANGED <<user, ctx, tran, phone, repages>>

ReassignFailure(c) ==
    LET d == chan[c].next
    IN  /\ chan[c].call = "assigning"
        /\ Serving(c) \/ Serving(d)
        /\ chanFreeContext({d})
        /\ chan' = [chan EXCEPT ![c].next = None, ![c].call = "none", ![c].loop = "closing",
                       ![d].ctx = None, ![d].loop = IF @ = "open" THEN "closing" ELSE @]
        /\ UNCHANGED <<phone, repages>>

-----------------------------------------------------------------------------
SipThread ==
    \E i \in Imsis : \/ mmMTRepage(i)
                     \/ \E t \in MtTrans : Invite(t, i) \/ Message(t, i)

Handset ==
    \E c \in Chans :
        \/ \E i \in Imsis, msg \in Messages : Establish(c, i, msg)
        \/ \E t \in MoTrans : Request(c, t)
        \/ EstablishTarget(c)

ServiceLoop(c) ==
    \/ ReadPagingResponse(c) \/ ReadRequest(c) \/ NewCMServiceResponder(c)
    \/ ServiceMTC(c) \/ ServiceMTSMS(c) \/ StartSMSTran(c)
    \/ CloseIdle(c) \/ CloseTerminated(c) \/ CloseLoop(c)

Next ==
    \/ SipThread
    \/ Handset
    \/ \E i \in Imsis : mmGetPages(i) \/ PageTimerPasses(i) \/ mmTerminateByImsi(i)
    \/ \E x \in Contexts : Settle(x)
    \/ \E c \in Chans :
          \/ ServiceLoop(c) \/ CloseLost(c) \/ Identify(c)
          \/ \E t \in Trans : EndTran(c, t)
          \/ ReassignStart(c) \/ ReassignComplete(c) \/ ReassignFailure(c)
    \/ \E c, d \in Chans : AllocNextTCH(c, d)

Spec == Init /\ [][Next]_vars

\* The loops poll, the timers run out, a procedure ends by its own timers, and
\* a channel that its handset has left is released (module Channel).
Fairness ==
    /\ \A i \in Imsis : WF_vars(mmGetPages(i)) /\ WF_vars(PageTimerPasses(i))
    /\ \A x \in Contexts : WF_vars(Settle(x))
    /\ \A c \in Chans :
          /\ WF_vars(ServiceLoop(c))
          /\ WF_vars(\E t \in Trans : EndTran(c, t))
          /\ WF_vars(CloseLost(c) /\ \A i \in Imsis : phone[i].at # c)

FairSpec == Spec /\ Fairness

-----------------------------------------------------------------------------
(* Properties.                                                             *)

\* mmuContext and mmcMMU point at each other, whichever of the threads links,
\* unlinks, frees or replaces one of the two (mmcLink, mmcUnlink, mmcFree); and
\* an MMUser without a context has something queued, as mmuGetInitialChanType
\* asserts when it is paged: none that has nothing to do is left behind.
PointersAgree ==
    \A i \in Imsis :
        /\ \A x \in Contexts : (user[i].ctx = x) <=> (ctx[x].mmu = i)
        /\ user[i].known /\ user[i].ctx = None => ~mmuIsEmpty(user[i])

\* What runs fills one slot of one context, and that is its mContext; what
\* waits stands in one place of one queue; what mmuServiceMTQueues has popped
\* is in the hand of one loop: nothing is lost or doubled on its way.
OneHome ==
    \A t \in Trans :
        LET homes == {h \in Contexts \X Slots : ctx[h[1]].slot[h[2]] = t}
            hands == {c \in Chans : chan[c].hand = t}
            places == UNION {{i} \X (Places(user[i].mtcq, t) \cup Places(user[i].smsq, t))
                               : i \in Imsis}
        IN  /\ Cardinality(homes) + Cardinality(hands) + Cardinality(places) =
                  IF tran[t].state \in {"queued", "hand", "running"} THEN 1 ELSE 0
            /\ tran[t].state = "running" => \E h \in homes : h[1] = tran[t].ctx

\* Whoever is attached, and whatever runs, has a service loop to serve it: an
\* attached MMUser is not paged, and nobody else looks at its queues.
AttachedIsServed ==
    \A x \in Contexts :
        ctx[x].mmu # None \/ SlotsUsed(x) # {} =>
            \E c \in ChannelsOf(x) : chan[c].loop \in {"open", "closing"}

\* The target of a reassignment keeps its context until the handset has come,
\* or the channel it is to leave gives up: no other channel takes it away.
TargetKeepsContext ==
    [][\A c, d \in Chans :
          /\ chan[c].call = "assigning" /\ chan[c].next = d /\ chan[d].loop = "target"
          /\ chan'[c] = chan[c]
          => chan'[d].ctx = chan[d].ctx]_vars

\* A channel that closes ends nothing that runs on a context another channel
\* has: "we now have a refcnt in the MMContext so this is bullet proof".
SharedContextSurvives ==
    [][\A c \in Chans : chan[c].loop = "closing" /\ chan'[c].loop = "idle" =>
          \A t \in Trans : tran[t].state = "running" /\ tran'[t].state = "dead" =>
              \A d \in Chans : chan'[d].ctx # tran[t].ctx]_vars

\* What the network wants of a subscriber is started, or refused.
EveryMTIsTaken ==
    \A t \in MtTrans : tran[t].state = "queued" ~> tran[t].state # "queued"
=============================================================================
