------------------------------ MODULE Handover ------------------------------
(***************************************************************************)
(* Handover of calls from one base station, BS1, to its neighbour, BS2:    *)
(* the outbound procedure of BS1, the inbound one of BS2, the datagrams    *)
(* between them, the handset, and who holds the SIP dialog.  Sources:      *)
(* Control/L3Handover.cpp, Peering/Peering.cpp, InboundHandoverMachine of  *)
(* Control/L3CallControl.cpp, l3CallTrafficLoop of L3StateMachine.cpp.     *)
(*                                                                         *)
(* Two threads per station take part: the peering thread, which handles    *)
(* datagrams, and the service loop of each channel.  An action is one      *)
(* pass of either, up to its next blocking read.  The channels of BS2 here *)
(* are those its pool gives to handovers; the pool itself is in Channel.   *)
(***************************************************************************)
EXTENDS Naturals, Sequences, FiniteSets

CONSTANTS
    Calls,          \* calls that are up at BS1
    Tch,            \* traffic channels of BS2
    RefSpace,       \* handover references; 256 in the code
    Resends,        \* Peering.ResendCount, GSM.Handover.Ny1
    Restless,       \* bound: calls that also talk, vanish and end
    MaxRequests,    \* bound: requests that BS1 makes
    None,           \* no reference, no entry, no command
    PromptNet       \* timers of seconds outlive datagrams and a handset's move

Targets == [ch: Tch, ref: 0..RefSpace - 1]      \* what a L3HandoverCommand says

ASSUME CountAssumption ==
    /\ RefSpace \in Nat \ {0} /\ Resends \in Nat \ {0} /\ MaxRequests \in Nat /\ Restless \subseteq Calls
    /\ PromptNet \in BOOLEAN
ASSUME NoneAssumption ==
    None \notin Targets \cup (0..RefSpace - 1) \cup
        [id: 1..MaxRequests, call: Calls, ref: 0..RefSpace - 1, stuck: BOOLEAN]

VARIABLES
    bs1,      \* per call: its transaction and the service loop of its channel at BS1
    holdoff,  \* BS1 refrains from handovers to BS2 (NeighborTable)
    bs2,      \* per channel: the channel at BS2, its service loop, the transaction in it
    made,     \* transactions made by BS2, which also gives mReferenceCounter
    asked,    \* requests made by BS1, for the bound only
    net,      \* datagrams in flight
    phone,    \* per call: the handset
    sip       \* per call: who has the dialog with the remote party

vars == <<bs1, holdoff, bs2, made, asked, net, phone, sip>>

Ids == 1..MaxRequests
Prims == {"ACCESS", "ESTABLISH", "COMPLETE", "OTHER"}
Entries == [id: Ids, call: Calls, ref: 0..RefSpace - 1, stuck: BOOLEAN]

REQ(k) == [kind |-> "REQ", call |-> k]
RSP(k, cmd) == [kind |-> "RSP", call |-> k, cmd |-> cmd]     \* None: refused, cause 101
IND(kind, id) == [kind |-> kind, id |-> id]
ACK(id) == [kind |-> "ACK", id |-> id]

BS1Calls ==
    [state: {"Active", "HandoverOutbound", "Clearing", "Deleted"},
     loop: {"traffic", "transfer", "over"},
     old: BOOLEAN,                      \* stateAge() has reached the holdoff
     cmd: Targets \cup {None},          \* mHexEncodedL3HandoverCommand
     up: BOOLEAN,                       \* a frame waits in mL3Out
     bye: BOOLEAN]                      \* a dialogBye waits for the loop
BS2Channels ==
    [active: BOOLEAN,                   \* decActive
     t3101: BOOLEAN,
     t3103: BOOLEAN,                    \* runs: L1's own T3103
     ref: (0..RefSpace - 1) \cup {None},    \* mHandoverRef, while pending
     up: Seq(Prims),                    \* mL3Out
     loop: {"idle", "access", "failing", "machine", "sip",
            "completing", "call", "closing"},
     n: 0..Resends,                     \* sendCount, or count of sendUntilAck
     entry: Entries \cup {None}]        \* the voice transaction of its context
Handsets ==
    [at: {"BS1", "moving", "heard", "BS2", "lost"}, to: Targets \cup {None}, came: BOOLEAN]

TypeOK ==
    /\ bs1 \in [Calls -> BS1Calls]
    /\ holdoff \in BOOLEAN
    /\ bs2 \in [Tch -> BS2Channels]
    /\ made \in Ids \cup {0}
    /\ asked \in 0..MaxRequests
    /\ phone \in [Calls -> Handsets]
    /\ sip \in [Calls -> {"BS1", "BS2", "over"}]

NewChan == [active |-> FALSE, t3101 |-> FALSE, t3103 |-> FALSE, ref |-> None,
            up |-> <<>>, loop |-> "idle", n |-> 0, entry |-> None]

Init ==
    /\ bs1 = [k \in Calls |-> [state |-> "Active", loop |-> "traffic", old |-> TRUE,
                               cmd |-> None, up |-> FALSE, bye |-> FALSE]]
    /\ holdoff = FALSE
    /\ bs2 = [t \in Tch |-> NewChan]
    /\ made = 0
    /\ asked = 0
    /\ net = {}
    /\ phone = [k \in Calls |-> [at |-> "BS1", to |-> None, came |-> FALSE]]
    /\ sip = [k \in Calls |-> "BS1"]

-----------------------------------------------------------------------------
(* Time.  Timers of 4 s and more (T3101 6 s, T3103 12 s, one second more   *)
(* at BS1, the holdoffs, the timers of the machine) outlive a datagram of  *)
(* a local network and a handset's move, which T3124 ends within a second. *)
Moving(k) == phone[k].at \in {"moving", "heard"}

Prompt == PromptNet =>
    /\ net = {}
    /\ \A k \in Calls : ~Moving(k) /\ ~(bs1[k].state = "HandoverOutbound" /\ bs1[k].loop = "traffic")

Free(t) == bs2[t].loop = "idle" /\ ~bs2[t].t3101 /\ bs2[t].up = <<>>

-----------------------------------------------------------------------------
(* BS1.                                                                    *)

Deleted == [state |-> "Deleted", loop |-> "over", old |-> FALSE,
            cmd |-> None, up |-> FALSE, bye |-> FALSE]

\* A handset that no channel serves any longer.
Lost(p) == [p EXCEPT !.at = "lost", !.to = None]

\* HandoverDetermination on a measurement report: a request goes out with every
\* report until the answer has changed the state.
Measure(k) ==
    /\ phone[k].at = "BS1"
    /\ ~holdoff
    /\ bs1[k].state = "Active" /\ bs1[k].old
    /\ REQ(k) \notin net
    /\ asked < MaxRequests /\ asked' = asked + 1
    /\ net' = net \cup {REQ(k)}
    /\ UNCHANGED <<bs1, holdoff, bs2, made, phone, sip>>

Ages(k) ==
    /\ bs1[k].state = "Active" /\ ~bs1[k].old
    /\ Prompt
    /\ bs1' = [bs1 EXCEPT ![k].old = TRUE]
    /\ UNCHANGED <<holdoff, bs2, made, asked, net, phone, sip>>

\* processHandoverResponse.  A refusal has no hex string and is dropped as invalid;
\* an acceptance is obeyed in whatever state the transaction is.
Response(k) == \E m \in net :
    /\ m.kind = "RSP" /\ m.call = k
    /\ bs1' = IF m.cmd = None \/ bs1[k].state = "Deleted" THEN bs1
              ELSE [bs1 EXCEPT ![k].cmd = m.cmd, ![k].state = "HandoverOutbound", ![k].old = FALSE]
    /\ net' = net \ {m}
    /\ UNCHANGED <<holdoff, bs2, made, asked, phone, sip>>

\* outboundHandoverTransfer up to its read: the handset gets the command, or does not.
TransferStart(k) ==
    /\ bs1[k].loop = "traffic" /\ bs1[k].state = "HandoverOutbound"
    /\ bs1' = [bs1 EXCEPT ![k].loop = "transfer"]
    /\ \/ phone' = phone
       \/ /\ phone[k].at = "BS1"
          /\ phone' = [phone EXCEPT ![k] = [at |-> "moving", to |-> bs1[k].cmd, came |-> FALSE]]
    /\ UNCHANGED <<holdoff, bs2, made, asked, net, sip>>

\* The read returns a frame, any frame: the call goes on here.
TransferRead(k) ==
    /\ bs1[k].loop = "transfer" /\ bs1[k].up
    /\ bs1' = [bs1 EXCEPT ![k].up = FALSE, ![k].loop = "traffic", ![k].state = "Active", ![k].old = FALSE]
    /\ UNCHANGED <<holdoff, bs2, made, asked, net, phone, sip>>

\* The read times out: teCancel(Handover_Outbound) drops the dialog without a BYE, and
\* the loop hard-releases the channel.
TransferTimeout(k) ==
    /\ bs1[k].loop = "transfer" /\ ~bs1[k].up
    /\ Prompt
    /\ bs1' = [bs1 EXCEPT ![k] = Deleted]
    /\ phone' = IF phone[k].at = "BS1" THEN [phone EXCEPT ![k] = Lost(phone[k])] ELSE phone
    /\ UNCHANGED <<holdoff, bs2, made, asked, net, sip>>

\* l3CallTrafficLoop without a handset to hear: all transactions of the channel are
\* cancelled, with a BYE unless the state is HandoverOutbound.
RadioFailure(k) ==
    /\ bs1[k].loop = "traffic" /\ phone[k].at # "BS1"
    /\ Prompt
    /\ sip' = [sip EXCEPT ![k] = IF bs1[k].state = "Active" THEN "over" ELSE @]
    /\ bs1' = [bs1 EXCEPT ![k] = Deleted]
    /\ UNCHANGED <<holdoff, bs2, made, asked, net, phone>>

\* checkemMessages: a frame of the handset that is not about handover.
ReadFrame(k) ==
    /\ bs1[k].loop = "traffic" /\ bs1[k].state # "HandoverOutbound" /\ bs1[k].up
    /\ bs1' = [bs1 EXCEPT ![k].up = FALSE]
    /\ UNCHANGED <<holdoff, bs2, made, asked, net, phone, sip>>

\* checkemMessages: dialogBye.  closeCall sends a Disconnect to an active call.
ReadBye(k) ==
    /\ bs1[k].loop = "traffic" /\ bs1[k].state = "Active" /\ bs1[k].bye
    /\ bs1' = [bs1 EXCEPT ![k].bye = FALSE, ![k].state = "Clearing"]
    /\ UNCHANGED <<holdoff, bs2, made, asked, net, phone, sip>>

\* The Release of the handset, or T308: the transaction goes, then the channel.
ClearingEnds(k) ==
    /\ bs1[k].loop = "traffic" /\ bs1[k].state = "Clearing"
    /\ bs1' = [bs1 EXCEPT ![k] = Deleted]
    /\ phone' = IF phone[k].at = "BS1" THEN [phone EXCEPT ![k] = Lost(phone[k])] ELSE phone
    /\ UNCHANGED <<holdoff, bs2, made, asked, net, sip>>

\* processHandoverComplete, processHandoverFailure: acknowledged, the latter with a holdoff.
Indication == \E m \in net :
    /\ m.kind \in {"COMPLETE", "FAILURE"}
    /\ holdoff' = (holdoff \/ m.kind = "FAILURE")
    /\ net' = (net \ {m}) \cup {ACK(m.id)}
    /\ UNCHANGED <<bs1, bs2, made, asked, phone, sip>>

HoldoffPasses ==
    /\ holdoff /\ Prompt
    /\ holdoff' = FALSE
    /\ UNCHANGED <<bs1, bs2, made, asked, net, phone, sip>>

-----------------------------------------------------------------------------
(* BS2, the peering thread.                                                *)

\* ttFindHandoverOther: the transaction of an earlier request for the same call.
Found(k) == {t \in Tch : bs2[t].entry # None /\ bs2[t].entry.call = k /\ ~bs2[t].entry.stuck}

\* lcstart: T3101 runs, the queue to L3 is emptied; a pending reference is not armed again.
LcStart(c) == [c EXCEPT !.active = TRUE, !.t3101 = TRUE, !.up = <<>>]

\* getTCH, newHandover, handoverPending.  The context of the channel may still have the
\* transaction of a handset that never came, which mmConnectTran cancels.
Inbound(c, k) ==
    LET ref == (made + 1) % RefSpace
    IN [c EXCEPT !.t3103 = TRUE, !.ref = ref,
                 !.entry = [id |-> made + 1, call |-> k, ref |-> ref, stuck |-> FALSE]]

\* processHandoverRequest.
Request(k) ==
    /\ REQ(k) \in net
    /\ \/ \E t \in Found(k) :
             /\ bs2' = [bs2 EXCEPT ![t] = LcStart(bs2[t])]
             /\ net' = (net \ {REQ(k)}) \cup {RSP(k, [ch |-> t, ref |-> bs2[t].entry.ref])}
             /\ made' = made
       \/ \E t \in {u \in Tch : Free(u)} :
             /\ Found(k) = {}
             /\ bs2' = [bs2 EXCEPT ![t] = LcStart(Inbound(bs2[t], k))]
             /\ net' = (net \ {REQ(k)}) \cup {RSP(k, [ch |-> t, ref |-> (made + 1) % RefSpace])}
             /\ made' = made + 1
       \/ /\ Found(k) = {} /\ \A t \in Tch : ~Free(t)
          /\ net' = (net \ {REQ(k)}) \cup {RSP(k, None)}
          /\ UNCHANGED <<bs2, made>>
    /\ UNCHANGED <<bs1, holdoff, asked, phone, sip>>

-----------------------------------------------------------------------------
(* BS2, the channel.                                                       *)

\* ControlServiceLoop: T3101 has expired and nobody came.
T3101Expires(t) ==
    /\ bs2[t].t3101 /\ Prompt
    /\ bs2' = [bs2 EXCEPT ![t].t3101 = FALSE, ![t].active = FALSE]
    /\ UNCHANGED <<bs1, holdoff, made, asked, net, phone, sip>>

\* T3103 (12 s) outlives T3101 (6 s).  L1 listens for access bursts no longer.
T3103Expires(t) ==
    /\ bs2[t].t3103 /\ ~bs2[t].t3101 /\ Prompt
    /\ bs2' = [bs2 EXCEPT ![t].t3103 = FALSE, ![t].ref = None]
    /\ UNCHANGED <<bs1, holdoff, made, asked, net, phone, sip>>

\* isStuckOrRemoved: three minutes in a state other than Active.
Stuck(t) ==
    /\ bs2[t].entry # None /\ ~bs2[t].entry.stuck
    /\ bs2[t].loop = "idle" /\ bs2[t].ref = None /\ Prompt
    /\ bs2' = [bs2 EXCEPT ![t].entry.stuck = TRUE]
    /\ UNCHANGED <<bs1, holdoff, made, asked, net, phone, sip>>

\* ProcessHandoverAccess up to its loop, whose PHYSICAL INFORMATION answers the handset.
\* The timing advance may be out of range, and the handset hears nothing.
StartAccess(t) ==
    /\ bs2[t].loop = "idle" /\ bs2[t].up # <<>>
    /\ LET c == [bs2[t] EXCEPT !.up = Tail(@), !.ref = None, !.t3103 = FALSE]
       IN \/ /\ bs2' = [bs2 EXCEPT ![t] = [c EXCEPT !.loop = "access", !.n = Resends]]
             /\ UNCHANGED <<net, phone>>
          \/ /\ bs2' = [bs2 EXCEPT ![t] = [c EXCEPT !.loop = "failing", !.n = Resends - 1]]
             /\ net' = net \cup {IND("FAILURE", c.entry.id)}
             /\ phone' = [k \in Calls |-> IF phone[k].at = "heard" /\ phone[k].to.ch = t
                                         THEN [phone[k] EXCEPT !.at = "moving"] ELSE phone[k]]
    /\ UNCHANGED <<bs1, holdoff, made, asked, sip>>

\* The loop of ProcessHandoverAccess reads a primitive.
ReadAccess(t) ==
    /\ bs2[t].loop = "access" /\ bs2[t].up # <<>>
    /\ LET p == Head(bs2[t].up)  c == [bs2[t] EXCEPT !.up = Tail(@)]
       IN CASE p = "ACCESS"    -> bs2' = [bs2 EXCEPT ![t] = c] /\ UNCHANGED net
            [] p = "ESTABLISH" -> bs2' = [bs2 EXCEPT ![t] = [c EXCEPT !.loop = "machine", !.n = 0]] /\ UNCHANGED net
            [] OTHER           -> /\ bs2' = [bs2 EXCEPT ![t] = [c EXCEPT !.loop = "failing", !.n = Resends - 1]]
                                  /\ net' = net \cup {IND("FAILURE", c.entry.id)}
    /\ UNCHANGED <<bs1, holdoff, made, asked, phone, sip>>

AsMany(c) == c

OneLess(c) == [c EXCEPT !.n = @ - 1]

\* T3105: PHYSICAL INFORMATION again, Ny1 times in all, which takes longer than T3124.
T3105Expires(t) ==
    /\ bs2[t].loop = "access" /\ bs2[t].up = <<>>
    /\ PromptNet /\ bs2[t].n = 1 => \A k \in Calls : ~(Moving(k) /\ phone[k].to.ch = t)
    /\ IF bs2[t].n > 1
       THEN bs2' = [bs2 EXCEPT ![t] = OneLess(bs2[t])] /\ UNCHANGED net
       ELSE /\ bs2' = [bs2 EXCEPT ![t].loop = "failing", ![t].n = Resends - 1]
            /\ net' = net \cup {IND("FAILURE", bs2[t].entry.id)}
    /\ UNCHANGED <<bs1, holdoff, made, asked, phone, sip>>

\* InboundHandoverMachine before HandoverComplete: the re-INVITE, or the end.
AnswerAny(p) == "sip"

Answer(p) == IF p = "COMPLETE" THEN "sip" ELSE "closing"

ReadComplete(t) ==
    /\ bs2[t].loop = "machine" /\ bs2[t].up # <<>>
    /\ bs2' = [bs2 EXCEPT ![t].up = Tail(@), ![t].loop = Answer(Head(bs2[t].up))]
    /\ UNCHANGED <<bs1, holdoff, made, asked, net, phone, sip>>

\* THandoverComplete (5 s), TSipHandover (4 s).
MachineTimeout(t) ==
    /\ bs2[t].loop \in {"machine", "sip"} /\ bs2[t].up = <<>> /\ Prompt
    /\ bs2' = [bs2 EXCEPT ![t].loop = "closing"]
    /\ UNCHANGED <<bs1, holdoff, made, asked, net, phone, sip>>

\* The remote party takes the re-INVITE: dialogActive, MOCSendACK, sendHandoverComplete.
DialogActive(t) ==
    /\ bs2[t].loop = "sip" /\ sip[bs2[t].entry.call] # "over"
    /\ sip' = [sip EXCEPT ![bs2[t].entry.call] = "BS2"]
    /\ bs2' = [bs2 EXCEPT ![t].loop = "completing", ![t].n = Resends - 1]
    /\ net' = net \cup {IND("COMPLETE", bs2[t].entry.id)}
    /\ UNCHANGED <<bs1, holdoff, made, asked, phone>>

\* dialogFail, or in a call dialogBye: closeCall.
DialogEnds(t) ==
    /\ \/ bs2[t].loop = "sip"
       \/ bs2[t].loop = "call" /\ sip[bs2[t].entry.call] = "over"
    /\ bs2' = [bs2 EXCEPT ![t].loop = "closing"]
    /\ UNCHANGED <<bs1, holdoff, made, asked, net, phone, sip>>

\* sendUntilAck: any ACK for the transaction ends it, and so does the last expiry.
AfterAck(loop) == IF loop = "completing" THEN "call" ELSE "closing"

Acknowledged(t) ==
    /\ bs2[t].loop \in {"completing", "failing"} /\ ACK(bs2[t].entry.id) \in net
    /\ bs2' = [bs2 EXCEPT ![t].loop = AfterAck(@), ![t].n = 0]
    /\ net' = net \ {ACK(bs2[t].entry.id)}
    /\ UNCHANGED <<bs1, holdoff, made, asked, phone, sip>>

LastTryMissed(c) == c.n < 0

LastTry(c) == c.n = 0

ResendTimeout(t) ==
    /\ bs2[t].loop \in {"completing", "failing"} /\ ACK(bs2[t].entry.id) \notin net
    /\ LET ind == IF bs2[t].loop = "completing" THEN "COMPLETE" ELSE "FAILURE"
       IN IF ~LastTry(bs2[t])
          THEN /\ bs2' = [bs2 EXCEPT ![t] = OneLess(bs2[t])]
               /\ net' = net \cup {IND(ind, bs2[t].entry.id)}
          ELSE /\ bs2' = [bs2 EXCEPT ![t].loop = AfterAck(@)]
               /\ UNCHANGED net
    /\ UNCHANGED <<bs1, holdoff, made, asked, phone, sip>>

\* radioFailure in the call, whose dialog gets a BYE when the context goes.
LosesRadio(t) ==
    /\ bs2[t].loop = "call" /\ phone[bs2[t].entry.call].at # "BS2"
    /\ bs2' = [bs2 EXCEPT ![t].loop = "closing"]
    /\ UNCHANGED <<bs1, holdoff, made, asked, net, phone, sip>>

\* The service loop ends: the context and its transaction go, with a BYE or a CANCEL if
\* there is a dialog, and the channel is released.
Close(t) ==
    /\ bs2[t].loop = "closing"
    /\ sip' = [k \in Calls |->
                 IF bs2[t].entry # None /\ bs2[t].entry.call = k /\ sip[k] = "BS2" THEN "over" ELSE sip[k]]
    /\ phone' = [k \in Calls |->
                   IF phone[k].at = "BS2" /\ phone[k].to.ch = t THEN Lost(phone[k]) ELSE phone[k]]
    /\ bs2' = [bs2 EXCEPT ![t] = NewChan]
    /\ UNCHANGED <<bs1, holdoff, made, asked, net>>

-----------------------------------------------------------------------------
(* The handset, the remote party and the network.                          *)

\* The first good burst stops T3101.
Heard(c, p) == [c EXCEPT !.up = Append(@, p), !.t3101 = FALSE]

\* L1 takes access bursts with the reference it waits for.
AwaitsAny(t, ref) == bs2[t].active /\ bs2[t].ref # None

Awaits(t, ref) == bs2[t].active /\ bs2[t].ref = ref

SendAccess(k) ==
    /\ Moving(k)
    /\ LET t == phone[k].to.ch
       IN /\ Awaits(t, phone[k].to.ref) /\ Len(bs2[t].up) < 2
          /\ bs2' = [bs2 EXCEPT ![t] = [Heard(bs2[t], "ACCESS") EXCEPT !.t3103 = FALSE]]
    /\ phone' = [phone EXCEPT ![k].at = "heard"]
    /\ UNCHANGED <<bs1, holdoff, made, asked, net, sip>>

\* Told the timing advance it sends SABM, and HandoverComplete, or something else.
SendSabm(k) ==
    /\ phone[k].at = "heard"
    /\ LET t == phone[k].to.ch
       IN /\ bs2[t].loop = "access" /\ Len(bs2[t].up) < 2
          /\ bs2' = [bs2 EXCEPT ![t] = Heard(bs2[t], "ESTABLISH")]
    /\ phone' = [phone EXCEPT ![k].at = "BS2"]
    /\ UNCHANGED <<bs1, holdoff, made, asked, net, sip>>

SendComplete(k) ==
    /\ phone[k].at = "BS2" /\ ~phone[k].came
    /\ LET t == phone[k].to.ch
       IN \E p \in {"COMPLETE", "OTHER"} :
            /\ bs2[t].loop \in {"access", "machine"} /\ Len(bs2[t].up) < 2
            /\ bs2' = [bs2 EXCEPT ![t] = Heard(bs2[t], p)]
            /\ phone' = [phone EXCEPT ![k].came = (p = "COMPLETE")]
    /\ UNCHANGED <<bs1, holdoff, made, asked, net, sip>>

\* T3124, or lost contact: back to BS1 with HandoverFailure if that is still there.
TurnsBack(k) ==
    /\ Moving(k)
    /\ IF bs1[k].loop = "over"
       THEN phone' = [phone EXCEPT ![k] = Lost(phone[k])] /\ bs1' = bs1
       ELSE /\ phone' = [phone EXCEPT ![k].at = "BS1", ![k].to = None]
            /\ bs1' = [bs1 EXCEPT ![k].up = TRUE]
    /\ UNCHANGED <<holdoff, bs2, made, asked, net, sip>>

\* The handset is lost on its way or on its new channel.
Vanishes(k) ==
    /\ k \in Restless
    /\ Moving(k) \/ phone[k].at = "BS2"
    /\ phone' = [phone EXCEPT ![k] = Lost(phone[k])]
    /\ UNCHANGED <<bs1, holdoff, bs2, made, asked, net, sip>>

\* A frame of call control, of an SMS, of DTMF: a call has them at any time.  One that
\* l3CallTrafficLoop still reads as such changes nothing here.
Talks(k) ==
    /\ k \in Restless
    /\ phone[k].at = "BS1" /\ bs1[k].state = "HandoverOutbound" /\ ~bs1[k].up
    /\ bs1' = [bs1 EXCEPT ![k].up = TRUE]
    /\ UNCHANGED <<holdoff, bs2, made, asked, net, phone, sip>>

\* The remote party hangs up: its BYE goes to the station whose contact it last heard.
HangsUp(k) ==
    /\ k \in Restless
    /\ sip[k] # "over"
    /\ sip' = [sip EXCEPT ![k] = "over"]
    /\ bs1' = IF sip[k] = "BS1" /\ bs1[k].state # "Deleted" THEN [bs1 EXCEPT ![k].bye = TRUE] ELSE bs1
    /\ UNCHANGED <<holdoff, bs2, made, asked, net, phone>>

Lose == \E m \in net :
    /\ net' = net \ {m}
    /\ UNCHANGED <<bs1, holdoff, bs2, made, asked, phone, sip>>

-----------------------------------------------------------------------------
Loop1(k) ==
    \/ TransferStart(k) \/ TransferRead(k) \/ TransferTimeout(k)
    \/ RadioFailure(k) \/ ReadFrame(k) \/ ReadBye(k) \/ ClearingEnds(k)

Loop2(t) ==
    \/ StartAccess(t) \/ ReadAccess(t) \/ T3105Expires(t)
    \/ ReadComplete(t) \/ MachineTimeout(t)
    \/ Acknowledged(t) \/ ResendTimeout(t) \/ LosesRadio(t) \/ Close(t)

Next ==
    \/ \E k \in Calls :
          \/ Measure(k) \/ Ages(k) \/ Response(k) \/ Request(k) \/ Loop1(k)
          \/ SendAccess(k) \/ SendSabm(k) \/ SendComplete(k)
          \/ TurnsBack(k) \/ Vanishes(k) \/ Talks(k) \/ HangsUp(k)
    \/ \E t \in Tch :
          \/ Loop2(t) \/ DialogActive(t) \/ DialogEnds(t)
          \/ T3101Expires(t) \/ T3103Expires(t) \/ Stuck(t)
    \/ Indication \/ HoldoffPasses \/ Lose

Spec == Init /\ [][Next]_vars

\* Loops run and timers run out; a datagram arrives or is lost; a handset arrives, turns
\* back or is lost; who has a re-INVITE answers it or lets TSipHandover pass.
Fairness ==
    /\ \A k \in Calls : WF_vars(Loop1(k)) /\ WF_vars(TurnsBack(k))
    /\ \A t \in Tch : WF_vars(Loop2(t)) /\ WF_vars(T3101Expires(t)) /\ WF_vars(T3103Expires(t))
    /\ WF_vars(Lose)

FairSpec == Spec /\ Fairness

-----------------------------------------------------------------------------
(* Properties.                                                             *)

\* The handset that InboundHandoverMachine serves on a channel is that of the
\* transaction in it, however late, doubled or misdirected the requests, the
\* responses and the access bursts were: no call goes on with another's handset.
RightCall ==
    \A k \in Calls :
        phone[k].at = "BS2" /\ bs2[phone[k].to.ch].loop \in {"machine", "sip", "completing", "call"}
            => bs2[phone[k].to.ch].entry.call = k

\* BS2 asks the remote party for the dialog, and has it, only for a handset that has
\* sent its HandoverComplete: up to then the call may still return to BS1.
DialogFollows ==
    \A k \in Calls :
        sip[k] = "BS2" \/ (\E t \in Tch : bs2[t].loop = "sip" /\ bs2[t].entry.call = k)
            => phone[k].came

\* A channel taken for a handover that no handset completes returns to the pool:
\* T3101, T3105 and Ny1, THandoverComplete, TSipHandover or the resend count end it.
HeldIsReleased ==
    \A t \in Tch : ~Free(t) ~> Free(t) \/ bs2[t].loop = "call"
=============================================================================
