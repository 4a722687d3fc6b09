-------------------------------- MODULE Call --------------------------------
(* One call: the transaction that the call control machines run for it        *)
(* (MOCMachine, MTCMachine, AssignTCHMachine, InCallMachine), its SIP dialog  *)
(* (module SipDialog), the handset on the other end of LAPDm.                 *)
EXTENDS SipDialog

VARIABLES
    tran,       \* the TranEntry, see NoTran
    phone,      \* the handset: its call, and whether it is on the TCH
    up, down    \* L3 frames on their way to and from OpenBTS, in order

vars == <<dir, sip, toBts, peer, faults, tran, phone, up, down>>

Machines == {"none", "Paging", "MOC", "MTC", "Assign", "InCall"}
CallStates ==
    {"NullState", "MOCInitiated", "MOCProceeding", "MOCDelivered", "CallPresent",
     "MTCConfirmed", "CallReceived", "ConnectIndication", "Active",
     "DisconnectIndication", "ReleaseRequest"}
L3Timers == {"T303", "T310", "T301", "T308", "T3101"}
PhoneStates ==
    {"idle", "asking", "calling", "paged", "confirmed", "alerting", "connecting",
     "talking", "leaving", "releasing"}
UpFrames ==
    {"CMServiceRequest", "Setup", "AssignmentComplete", "AssignmentFailure",
     "ConnectAcknowledge", "PagingResponse", "CallConfirmed", "Alerting", "Connect",
     "Disconnect", "Release", "ReleaseComplete", "CMServiceAbort"}
DownFrames ==
    {"CMServiceAccept", "AssignmentCommand", "Setup", "Connect", "ConnectAcknowledge",
     "Disconnect", "Release"}

\* mach is the current machine (Paging: in MMUser's queue, none: deleted), gsm
\* is mGSMState, ti says whether mL3TI is valid.  Under Assign on the stack is
\* the machine that dir tells.
NoTran == [mach |-> "none", gsm |-> "NullState", ti |-> FALSE, timers |-> {}]
Idle == [call |-> "idle", tch |-> FALSE]

Init ==
    /\ dir \in {"MO", "MT"}
    /\ sip = NoDialog /\ toBts = {} /\ peer = "none" /\ faults = 0
    /\ tran = NoTran /\ phone = Idle /\ up = <<>> /\ down = <<>>

TranEntries == [mach : Machines, gsm : CallStates, ti : BOOLEAN, timers : SUBSET L3Timers]
Handsets == [call : PhoneStates, tch : BOOLEAN]

\* The variables have their types, and a transaction that is removed leaves
\* nothing behind, no timer either.
TypeOK ==
    /\ SipTypeOK
    /\ tran \in TranEntries
    /\ phone \in Handsets
    /\ up \in Seq(UpFrames) /\ down \in Seq(DownFrames)
    /\ tran.mach = "none" => tran = NoTran

-----------------------------------------------------------------------------
(* What the machines do, as functions of a leg: the transaction, its dialog   *)
(* and the frames on their way down.                                          *)

\* A handset that has no call any more is not listening.
Heeded(call, frames) == IF call = "idle" THEN <<>> ELSE frames

Here == [t |-> tran, d |-> sip, f |-> down]

\* The channel has no other transaction: with this one mmCheckNewActivity
\* releases it, and what is still under way on it is lost or has no addressee.
\* This stands for the L3ReleaseComplete that is then sent, too.
Becomes(g, frames) ==
    LET over == g.t.mach = "none"
    IN  /\ tran' = g.t /\ sip' = g.d
        /\ down' = IF over THEN <<>> ELSE Heeded(phone.call, g.f)
        /\ up' = IF over THEN <<>> ELSE frames
        /\ phone' = IF over THEN Idle ELSE phone
        /\ UNCHANGED <<dir, toBts, peer, faults>>

l3sendm(g, frame) == [g EXCEPT !.f = Append(@, frame)]
setGSMState(g, s) == [g EXCEPT !.t.gsm = s]
timerStart(g, x) == [g EXCEPT !.t.timers = @ \cup {x}]
timerStop(g, x) == [g EXCEPT !.t.timers = @ \ {x}]
timerStopAll(g) == [g EXCEPT !.t.timers = {}]
Run(g, m) == [g EXCEPT !.t.mach = m]

teCloseDialog(g, cause) == IF g.d.tran THEN [g EXCEPT !.d = dialogCancel(@, cause)] ELSE g

\* MachineStatus::QuitTran, and what handleMachineStatus does with it: teRemove.
QuitTranTimed(g, cause) ==
    [t |-> [NoTran EXCEPT !.timers = g.t.timers], f |-> g.f,
     d |-> [teCloseDialog(g, cause).d EXCEPT !.tran = FALSE, !.inbox = <<>>]]
QuitTran(g, cause) ==
    [t |-> NoTran, f |-> g.f,
     d |-> [teCloseDialog(g, cause).d EXCEPT !.tran = FALSE, !.inbox = <<>>]]

\* teCloseCallNow, always with QuitTran.
sendReleaseComplete(g, cause) == QuitTran(g, cause)

clearingGSM(g) == g.t.gsm \in {"ReleaseRequest", "DisconnectIndication"}

sendRelease(g, cause) ==
    LET c == teCloseDialog(g, cause)
    IN  IF c.t.ti /\ ~clearingGSM(c)
        THEN timerStart(setGSMState(l3sendm(c, "Release"), "ReleaseRequest"), "T308")
        ELSE QuitTran(c, cause)

closeCall(g, cause) ==
    LET c == teCloseDialog(g, cause)
    IN  IF c.t.ti /\ c.t.gsm = "Active"
        THEN timerStart(setGSMState(l3sendm(c, "Disconnect"), "DisconnectIndication"), "T308")
        ELSE QuitTran(c, cause)

StartAssign(g) == timerStart(l3sendm(Run(g, "Assign"), "AssignmentCommand"), "T3101")

\* MOCMachine and MTCMachine with L3CASE_DIALOG_STATE, when a message says so
\* or the assignment is over.  L3Progress and L3Alerting only reach the ear of
\* the user, and are not sent here.
MOCDialogState(g, s) ==
    CASE s \in {"Undefined", "Started", "Proceeding"} -> g
      [] s = "Ringing" -> setGSMState(g, "MOCDelivered")
      [] s = "Active" ->
            [setGSMState(l3sendm(g, "Connect"), "ConnectIndication") EXCEPT !.d = sipWrite(@, "ACK")]
      [] s \in {"Bye", "Fail"} -> closeCall(g, "other")
MTCDialogState(g, s) ==
    CASE s = "Active" -> Run(l3sendm(setGSMState(g, "Active"), "ConnectAcknowledge"), "InCall")
      [] s \in {"Bye", "Fail"} -> closeCall(g, "other")
      [] s \notin {"Active", "Bye", "Fail"} -> g
InCallDialogState(g, s) == IF s \in {"Bye", "Fail"} THEN closeCall(g, "other") ELSE g

-----------------------------------------------------------------------------
(* The service loop of the channel: one L3 frame, one dialog message or one   *)
(* timer at a time.                                                           *)

Answers(g) == Becomes(g, Tail(up))

\* startMOC, the identification and serviceAccept, or either of its refusals.
CMServiceRequest ==
    /\ tran.mach = "none" /\ Head(up) = "CMServiceRequest"
    /\ \/ Answers(l3sendm(timerStart(setGSMState(Run(Here, "MOC"), "MOCInitiated"), "T303"),
                          "CMServiceAccept"))
       \/ Answers(Here)

\* handleSetupMsg, and the push of AssignTCHMachine.
MOCSetup ==
    /\ tran.mach = "MOC" /\ Head(up) = "Setup"
    /\ LET g == timerStop(Here, "T303")
           d == [MOCSendINVITE(g.d) EXCEPT !.mapped = TRUE, !.tran = TRUE]
       IN  Answers(StartAssign(setGSMState([g EXCEPT !.d = d, !.t.ti = TRUE], "MOCProceeding")))

ConnectAcknowledge ==
    /\ tran.mach = "MOC" /\ Head(up) = "ConnectAcknowledge"
    /\ Answers(CASE sip.state = "Active" -> Run(setGSMState(Here, "Active"), "InCall")
                 [] isFinished(sip) -> closeCall(Here, "other")
                 [] sip.state # "Active" /\ ~isFinished(sip) -> Run(Here, "InCall"))

\* stateStart of MTCMachine: the handset has answered the page.
MTCStart ==
    /\ tran.mach = "Paging" /\ Head(up) = "PagingResponse"
    /\ \/ /\ isFinished(sip) /\ Answers(closeCall(Run(Here, "MTC"), "other"))
       \/ /\ ~isFinished(sip)
          /\ LET g == timerStart(setGSMState(l3sendm(Run(Here, "MTC"), "Setup"), "CallPresent"), "T303")
             IN  Answers([g EXCEPT !.t.ti = TRUE, !.d = MTCSendTrying(@)])
       \/ /\ ~isFinished(sip)     \* no TCH: Congestion
          /\ Answers(QuitTran(Here, "other"))

CallConfirmed ==
    /\ tran.mach = "MTC" /\ Head(up) = "CallConfirmed"
    /\ LET g == timerStop(Here, "T303")
       IN  Answers(IF g.t.gsm = "MTCConfirmed" THEN g
                   ELSE StartAssign(timerStart(setGSMState(g, "MTCConfirmed"), "T310")))

AlertingAnswers ==
    /\ tran.mach = "MTC" /\ Head(up) = "Alerting"
    /\ LET g == setGSMState(timerStart(Here, "T301"), "CallReceived")
       IN  Answers([g EXCEPT !.d = MTCSendOK(@)])
Alerting ==
    /\ tran.mach = "MTC" /\ Head(up) = "Alerting"
    /\ LET g == setGSMState(timerStart(Here, "T301"), "CallReceived")
       IN  Answers([g EXCEPT !.d = MTCSendRinging(@)])

Connect ==
    /\ tran.mach = "MTC" /\ Head(up) = "Connect"
    /\ LET g == timerStopAll(Here)
       IN  Answers(IF g.t.gsm = "ConnectIndication" THEN g
                   ELSE [setGSMState(g, "ConnectIndication") EXCEPT !.d = MTCSendOK(@)])

\* AssignmentComplete pops AssignTCHMachine: the dialog messages of meanwhile
\* are gone, the dialog state as it is now counts.
AssignmentComplete ==
    /\ tran.mach = "Assign" /\ Head(up) = "AssignmentComplete"
    /\ LET g == timerStop(Here, "T3101")
           s == getDialogState(sip.state)
       IN  Answers(IF dir = "MO" THEN MOCDialogState(Run(g, "MOC"), s)
                   ELSE MTCDialogState(Run(g, "MTC"), s))

AssignmentFailure ==
    /\ tran.mach = "Assign" /\ Head(up) = "AssignmentFailure"
    /\ \/ Answers(l3sendm(Here, "AssignmentCommand"))
       \/ Answers(QuitTran(Here, "other"))

\* defaultMessages, which every machine falls back to.
DefaultMessages ==
    /\ tran.mach \in {"MOC", "MTC", "Assign", "InCall"}
    /\ LET g == timerStopAll(Here)
       IN  \/ Head(up) = "CMServiceAbort" /\ Answers(closeCall(g, "other"))
           \/ Head(up) = "Disconnect" /\ Answers(sendRelease(g, "normal"))
           \/ Head(up) = "Release" /\ Answers(sendReleaseComplete(g, "normal"))
           \/ Head(up) = "ReleaseComplete" /\ Answers(QuitTran(g, "normal"))

\* A frame that the current machine does not know, or that nobody is there for.
Unexpected ==
    /\ Head(up) \notin
          CASE tran.mach = "none" -> {"CMServiceRequest"}
            [] tran.mach = "Paging" -> {"PagingResponse"}
            [] OTHER -> {"CMServiceAbort", "Disconnect", "Release", "ReleaseComplete"}
                        \cup (CASE tran.mach = "MOC" -> {"Setup", "ConnectAcknowledge"}
                                [] tran.mach = "MTC" -> {"CallConfirmed", "Alerting", "Connect"}
                                [] tran.mach = "Assign" -> {"AssignmentComplete", "AssignmentFailure"}
                                [] OTHER -> {})
    /\ Answers(Here)

ReadFrame ==
    /\ up # <<>>
    /\ \/ CMServiceRequest \/ MOCSetup \/ ConnectAcknowledge
       \/ MTCStart \/ CallConfirmed \/ Alerting \/ Connect
       \/ AssignmentComplete \/ AssignmentFailure \/ DefaultMessages \/ Unexpected

\* mmCheckSipMsgs: AssignTCHMachine ignores them, a queued transaction of
\* MMUser has no loop to read them.
ReadDialogMessage ==
    /\ sip.inbox # <<>> /\ tran.mach \in {"MOC", "MTC", "Assign", "InCall"}
    /\ LET g == [Here EXCEPT !.d.inbox = Tail(@)]
           s == Head(sip.inbox)
       IN  Becomes(CASE tran.mach = "MOC" -> MOCDialogState(g, s)
                     [] tran.mach = "MTC" -> MTCDialogState(g, s)
                     [] tran.mach = "InCall" -> InCallDialogState(g, s)
                     [] tran.mach = "Assign" -> g, up)

\* The half minute of an L3 timer, and the six seconds of T3101, are long
\* enough for what is in the queues; the handset's user may take longer.
Still == up = <<>> /\ down = <<>> /\ sip.inbox = <<>>

\* dispatchTimeout: TimerAbortTran, or stateAssignTimeout.
Timeout == Still /\ tran.timers # {} /\ Becomes(QuitTran(Here, "other"), up)

\* The page timer of MMUser: mmuFree.
PageExpires == tran.mach = "Paging" /\ up = <<>> /\ Becomes(QuitTran(Here, "other"), up)

\* L3TCHLoop: deadOrRemoved finds the transaction or the dialog stuck.
Defunct ==
    /\ phone.tch /\ tran.mach # "none" /\ Still /\ Quiet
    /\ tran.gsm # "Active" \/ sip.state # "Active"
    /\ Becomes(QuitTran(Here, "other"), up)

\* The radio is lost: mmFreeContext ends the transaction, the handset gives up.
ChannelLost ==
    /\ tran.mach \notin {"none", "Paging"}
    /\ Becomes(QuitTran(Here, "other"), up)

\* handleInvite for the first INVITE: a new dialog, refused if the subscriber
\* has a call, else with a transaction in MMUser's queue.
handleInvite ==
    /\ "INVITE" \in toBts /\ ~sip.mapped /\ sip.last = "none"
    /\ toBts' = toBts \ {"INVITE"}
    /\ LET d == [sip EXCEPT !.mapped = TRUE]
       IN  \/ sip' = NewMT(d) /\ tran' = [NoTran EXCEPT !.mach = "Paging"]
           \/ sip' = Refused(d) /\ UNCHANGED tran
    /\ UNCHANGED <<dir, peer, faults, phone, up, down>>

-----------------------------------------------------------------------------
(* The handset, which is external: GSM 04.08 section 5, seen from the MS.     *)

Moves(s, frames, rest) ==
    /\ phone' = [phone EXCEPT !.call = s] /\ up' = up \o frames /\ down' = Heeded(s, rest)
    /\ UNCHANGED <<dir, sip, toBts, peer, faults, tran>>
Acts(s, t, frames) == phone.call = s /\ Moves(t, frames, down)
Reads(frame, S, t, frames) ==
    /\ down # <<>> /\ Head(down) = frame
    /\ IF phone.call \in S THEN Moves(t, frames, Tail(down)) ELSE Moves(phone.call, <<>>, Tail(down))

InCallStates == {"calling", "confirmed", "alerting", "connecting", "talking"}

PhoneCalls ==
    /\ dir = "MO" /\ sip = NoDialog /\ tran = NoTran /\ up = <<>> /\ down = <<>>
    /\ Acts("idle", "asking", <<"CMServiceRequest">>)
PhoneHangsUp ==
    \/ Acts("asking", "idle", <<"CMServiceAbort">>)
    \/ \E s \in InCallStates : Acts(s, "leaving", <<"Disconnect">>)
PhoneAnswers ==
    \/ tran.mach = "Paging" /\ Acts("idle", "paged", <<"PagingResponse">>)
    \/ phone.tch /\ Acts("confirmed", "alerting", <<"Alerting">>)
    \/ phone.tch /\ Acts("alerting", "connecting", <<"Connect">>)

PhoneReads ==
    \/ Reads("CMServiceAccept", {"asking"}, "calling", <<"Setup">>)
    \/ Reads("Setup", {"paged"}, "confirmed", <<"CallConfirmed">>)
    \/ Reads("Setup", {"paged"}, "idle", <<"ReleaseComplete">>)
    \/ Reads("Connect", {"calling"}, "talking", <<"ConnectAcknowledge">>)
    \/ Reads("ConnectAcknowledge", {"connecting"}, "talking", <<>>)
    \/ Reads("Disconnect", InCallStates \cup {"leaving"}, "releasing", <<"Release">>)
    \/ Reads("Release", PhoneStates \ {"idle"}, "idle", <<"ReleaseComplete">>)

PhoneAssigned ==
    /\ down # <<>> /\ Head(down) = "AssignmentCommand" /\ down' = Tail(down)
    /\ \/ phone' = [phone EXCEPT !.tch = TRUE] /\ up' = Append(up, "AssignmentComplete")
          /\ UNCHANGED faults
       \/ faults < MaxFaults /\ faults' = faults + 1
          /\ up' = Append(up, "AssignmentFailure") /\ UNCHANGED phone
    /\ UNCHANGED <<dir, sip, toBts, peer, tran>>

Phone == PhoneCalls \/ PhoneHangsUp \/ PhoneAnswers \/ PhoneReads \/ PhoneAssigned

-----------------------------------------------------------------------------
gsmVars == <<tran, phone, up, down>>

ServiceLoop == ReadFrame \/ ReadDialogMessage \/ Timeout \/ PageExpires \/ Defunct
SipThread == handleInvite \/ (PeriodicService /\ UNCHANGED gsmVars)
                \/ \E m \in Messages : newDriveIncoming(m) /\ UNCHANGED gsmVars
Network == (Peer \/ Lose) /\ UNCHANGED gsmVars

Next == ServiceLoop \/ SipThread \/ Phone \/ ChannelLost \/ Network

\* Nothing but the two users can move this call any more.
Settled == Still /\ Quiet /\ tran.timers = {} /\ Running = {} /\ TUsDone

\* A call that L3 takes for Active has been answered, unless it is being
\* released already; and one that neither a message nor a timer nor the watch of
\* L3TCHLoop will end has somebody at both ends, but for the caller whose BYE came
\* before its ACK, found no dialog and was answered 404.
BothPartiesAreThere ==
    /\ tran.gsm = "Active" /\ "T308" \notin tran.timers =>
          IF dir = "MO" THEN peer \in {"answered", "talking", "bye", "refused", "over"}
          ELSE phone.call \notin {"idle", "paged", "confirmed", "alerting"}
    /\ tran.gsm = "Active" /\ sip.state = "Active" /\ Settled =>
          /\ phone.call = "talking"
          /\ peer \in {"answered", "talking", "bye"} \/ (dir = "MT" /\ peer = "refused")

\* dialogCancel does not leave the other user in a call that is over here: but
\* for a CANCEL that crosses the answer, an error response after the 200, and a
\* dialog that ran into its timeout.
PeerIsHungUp ==
    /\ tran.mach = "none" /\ ~sip.mapped /\ Quiet /\ TUsDone
    /\ sip.state # "SSFail" /\ sip.tu["CANCEL"] = "none" /\ sip.last # "Error"
    => peer # "talking"

\* permittedTransition loses no end of a dialog, in whatever order its messages
\* came: a transaction whose dialog is finished has yet to read so, or is being
\* released under T308.  (AssignTCHMachine asks for the state when it is done.)
L3IsTold ==
    sip.tran /\ isFinished(sip) /\ tran.mach \in {"MOC", "MTC", "InCall"}
    => \/ \E i \in DOMAIN sip.inbox : sip.inbox[i] \in {"Bye", "Fail"}
       \/ "T308" \in tran.timers

\* Whichever user hangs up, the transaction ends and the handset is released,
\* unless the other user's BYE is answered 404 while the call has its dialog.
Ended == tran.mach = "none" /\ phone.call # "leaving"
HangingUpEndsIt ==
    /\ phone.call = "leaving" ~> Ended
    /\ peer = "bye" ~> Ended \/ (peer = "refused" /\ sip.mapped)

\* The threads run, and the handset and the other user agent answer: what is
\* under way on either side of OpenBTS arrives and is read.  A timer runs out
\* whatever goes on meanwhile; no deadline comes twice in a call.
RadioSide == ReadFrame \/ ReadDialogMessage \/ PhoneReads \/ PhoneAssigned
SipSide == SipThread \/ ((PeerHears \/ PeerRepeats) /\ UNCHANGED gsmVars)
Deadlines == Timeout \/ PageExpires \/ Defunct \/ (Deadline /\ UNCHANGED gsmVars)

Fairness == WF_vars(RadioSide) /\ WF_vars(SipSide) /\ SF_vars(Deadlines)

Spec == Init /\ [][Next]_vars /\ Fairness
=============================================================================
