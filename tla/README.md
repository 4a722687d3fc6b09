# A verification project for OpenBTS

OpenBTS runs a GSM base station on a software radio and presents its handsets
to the rest of the network as SIP users.  This directory holds TLA+ modules of
the parts of it where several threads, two peers or a lossy medium share state,
the TLC configurations that check them, and proofs for TLAPS.  `PROJECT.json`
is the index: it lists the components, the runs, the source lines that each
definition stands for, the hazards and the theorems.

    tlc -config lapdm_oneway.cfg MCLAPDm      # any run: its cfg and its module
    tlapm Channel_proofs.tla                  # any module of proofs

Contents: 1 Inventory, 2 Plan, 3 Modules, 4 Runs, 5 Fairness and time,
6 Proofs, 7 Findings, 8 What is not modelled.

## 1. Inventory

The layers from the radio up.  "Hard" names what makes a part worth modelling,
"correct" the properties that would make it so.

**Transceivers** (`Transceiver52M`, `TransceiverRAD1`, `Scanning`) and
**TRXManager**.  A separate process turns bursts into samples; TRXManager talks
to it by UDP, one socket per ARFCN for bursts, one for commands, one for the
clock.  State: power, slots, the clock.  Taken here as a radio that delivers a
burst or does not.

**Layer 1** (`GSM/GSML1FEC`, `GSMTDMA`, `GSMTransfer`).  An encoder and a
decoder per logical channel; state: active flag, filler time, bad frame count,
physical parameters, the handover-pending flag.  Operations: l1start, l1close,
writeHighSide, writeLowSide.  Hard: the encoder's service thread, the radio
thread and the thread that allocates the channel share the flags.  Correct: a
channel is idle only when its last filler burst has left.

**LAPDm** (`GSM/GSML2LAPDm`).  One entity per SAP (0 and 3) of each channel and
of its SACCH.  State: link state, VS, VA, VR, RC, T200, the reassembly buffer,
the last frame sent.  Operations: l2dlWriteHighSide (primitives from L3),
receiveFrame (I, S, U frames), T200 expiry.  Interactions: queues from L1 and to
L3; L3's thread blocks inside it.  Hard: loss, retransmission, collisions,
stale frames of an earlier link, threads blocked under a timer.  Correct: in
order, no gaps or doubles, window 1, every call returns, L3 learns of the end.

**Dedicated channels** (`GSM/GSMLogicalChannel`, `GSMConfig`,
`Control/L3LogicalChannel`).  State: T3101, T3109, T3111, the queues mL3In and
mL3Out, the L3 state, mNextChan and the MMContext in use.  Operations: lcinit,
lcstart, startNormalRelease, immediateRelease, the control service loop, the
reassignment family, recyclable and the pools.  Hard: up to six threads touch a
channel without a common lock; reuse under a listening mobile; a lost radio.
Correct: an active channel is watched by something that ends it; none is reused
while a mobile listens or a thread is inside it; all of them come back.

**CCCH** (`GSM/GSMCCCH`, `GSMRadioResource`).  State: the RACH queue, the paging
queue, the clock of the next CCCH block.  Operations: AccessGrantResponder,
processRaches, processPages.  Hard: a request ages while its channel's timer
runs; GPRS and GSM compete for blocks.  Correct: a grant refers to a channel
that is still its own; each page leaves twice.

**MM layer** (`Control/L3MMLayer`).  State: MMUsers with their queues of mobile
terminated transactions, MMContexts with slots for running ones, both linked by
pointers, the page timers.  Operations: mmAddMT, mmGetPages, mmAttachByImsi,
mmcLink, mmcUnlink, mmcFree, mmuServiceMTQueues, reassignment's sharing.  Hard:
the SIP thread, the paging loop and each channel's service loop change them;
handsets answer twice, on two channels.  Correct: pointers agree, a transaction
has exactly one home, nobody is forgotten.

**State machines** (`Control/L3StateMachine`, `DCCHDispatch`), **call control**
(`L3CallControl`), **mobility management** (`L3MobilityManagement`), **SMS**
(`L3SMSControl`, `SMS/`), **supplementary services** (`L3SupServ`), **RRLP**.
One loop per channel dispatches L3 messages, SIP results and timers to the
machines of the running transactions (**TranEntry**).  Hard: a SIP cancel
against a handset's connect, timers against late answers, secondary calls.
Correct: a call leg is never left up alone, an SMS is acknowledged only when the
other side has taken it.

**TMSI table, cell broadcast, power manager** (`TMSITable`, `CBS`,
`PowerManager`).  SQLite tables with caches and one control loop.

**Handover** (`Control/L3Handover`) and **Peering** (`Peering/`).  BS1 asks BS2
by UDP for a channel, commands the handset over, and learns by timeout that it
went.  State: T3103 on both sides, the handover reference, the acknowledgement
FIFOs, the neighbor table's holdoffs.  Hard: lost, repeated and late datagrams,
the handset that comes back, two stations that both believe in the call.
Correct: at most one station serves the call in the end, both give up otherwise.

**SIP** (`SIP/`).  Client and server transactions with timers A to K, dialogs
known by two keys, the dialog state pushed to the L3 loop, RTP.  Hard: timers
against late answers, forked and repeated messages.  Correct: every final answer
is acknowledged, every transaction and dialog ends.

**GPRS** (`GPRS/`) and **SGSN/GGSN** (`SGSNGGSN/`).  RLC engines (window 64 of
128) cut PDUs into numbered blocks; a TBF is one transfer of one handset in one
direction, with a number (TFI) that its blocks carry and, uplink, a USF that
gives the handset its turn.  The MAC loop visits every handset and TBF 50 times a
second and is nearly the only thread; an MSInfo keeps what belongs to a handset:
its channels, its queue of PDUs, its timers.  Above it GMM and PDP contexts.
Hard: window arithmetic, acknowledgements that cross, requests by three ways at
once, TBFs that die while the handset still uses them, resources that are found
again only by way of the channels a handset has at the moment.  Correct: PDUs
arrive whole and in order, a TFI in use means one handset, TBFs, TFIs and USFs
are all returned.

**CLI, configuration, main program** (`CLI/`, `apps/`, `Globals/`), message
codecs (`GSML3*`), `GSMShare`: no concurrent state of their own.  **CommonLibs**
and **NodeManager** are submodules absent from the tree: threads, mutexes,
signals and queues are modelled from their use.

## 2. Plan

In order of weight.  Those marked done are in this directory.

| | module | what | with |
|-|-|-|-|
| A | `LAPDm` on `DataLink` (done) | the link of one SAP and the service it implements | proofs done: every invariant of the passing runs, and the service for one-way data |
| B | `Channel` (done) | a channel from the pool to the pool, reassignment | takes LAPDm as its three states; proofs done: all invariants but ContextIsServed |
| C | `MMLayer` (done) | users, contexts, transactions, paging | takes Channel as open/target/closing loops; proofs done: all five invariants |
| D | `Handover` (done) | BS1, BS2 and a handset over UDP; Peering | proofs done: all three invariants |
| E | `RLCDown`, `RLCUp` on `RLCWindow` (done) | sequence arithmetic and the two engines | proofs done: all three invariants |
| F | `CCCH` | RACH queue, paging groups, GPRS blocks | extends the RACH part of Channel |
| G | `SipDialog` (done) | INVITE dialogs with the transactions of BYE and CANCEL, the other user agent, UDP | |
| H | `Call` (done) | the machines of a call between a handset and G | extends G; takes Channel and MMLayer as a transaction that is paged, served or lost; proofs done: all four invariants |
| L | `Sms`, `LocationUpdate` | CP and RP machines of SMS, location updating and registration | MMLayer's transactions |
| I | `TBF` (done) | the life of TBFs: assignment, TFIs, USFs, release, retry | takes E as a transfer that ends well or fails; proofs done: all four invariants |
| K | `Gmm` | GPRS attach, PDP contexts | |
| J | tables | TMSI table, neighbor table, CBS | |

Proofs to add: DataLink by LAPDm where both ends send; ContextIsServed of Channel.
Each later module gets one or two runs; where they would grow too many, runs of one
module are merged.

## 3. Modules

### LAPDm, LAPDmService, DataLink, MCLAPDm (LAPDm_proofs, DataLink_proofs)

`LAPDm` is two `L2LAPDm` objects of one SAP, the BTS's and the handset's (the
class can play both: mC and mR tell command from response), over two lossy FIFO
directions.  `lap[e]` has the fields of the class.  Two threads per entity share
them under mLock, and an action is one stretch of code that does not let mLock
go.

| actions | code |
|-|-|
| `Receive` (`ReceiveSABM`, `ReceiveDISC`, `ReceiveI`, ...) | one pass of lapServiceLoop with a frame: receiveFrame and the handler it reaches, with all the frames and indications it writes |
| `T200Expiration`, `IdleTimeout` | a pass whose read has timed out, with T200 expired or not |
| `EstablishRequest`, `DataRequest`, `ReleaseRequest`, `HardRelease` | l2dlWriteHighSide up to its return or to waitForAck |
| `Resume` (`DataAcked`, `Drained`, `ReleaseDone`, ...) | the L3 thread after waitForAck, down to the next wait: the next I-frame of sendMultiframeData, or the DISC |
| `Lose`, `Stray` | the radio loses; a handset sends what nobody asked for |

`link`, `tx`, `reached`, `delivered` and the fields `link`, `n`, `first` of a
frame are history: they let properties tell segments apart.  A payload of a
SABM is a number, 0 for none.  `poll` is how long the service thread's current
read of mL1In blocks, which matters (see Findings).

`DataLink` is the promise in five variables: an end that takes part hears a
gapless prefix of one link of the other end, and a sender sends nothing before
its last segment has been heard.  `LAPDmService` maps `up` to the entities in
multiframe mode, `heard` to what receiveIFrame has accepted.  One thing in it is
not what one would write first: an end that has entered a link anew may hear the
first segment of a link once more, because a second SABM, while the first is in
progress, does not reset the sender.

### Channel, MCChannel (Channel_proofs)

A pool of SDCCHs and one of TCHs, mobiles, MMContexts, `gRachq`.  `chan[c]` has
the three timers, the active flags of the channel and its SACCH, whether filler
is still to leave, the two queues (primitives only), the L3 state and mNextChan.
`holder` is history.  LAPDm is reduced to released, established, releasing.

| actions | code |
|-|-|
| `Rach`, `RachAges`, `Assign`, `DropRach` | AccessGrantResponder's getChan and lcinit/lcstart; processRaches |
| `Seize`, `MsDisconnects`, `LinkFails`, `Acknowledged` | a primitive of LAPDm passing writeToL3, with the timers it sets |
| `Drain`, `ServiceHost`, `CheckSacch` | MessageServiceLoop; ControlServiceLoop on the host and on the SACCH |
| `L3Thread` (`Dispatch`, loop passes, `LeaveLoop`) | DCCHDispatcher, L3DCCHLoop and what follows it |
| `ChanClose`, `SendsMessage` | chanClose by a state machine; a message that makes the thread wait |
| `AllocNextTCH`, `ReassignStart`, `ReassignFailure` | the functions of those names |
| `ReassignComplete`, `ReassignReleases` | reassignComplete up to its msleep, when gMMLock has been let go, and the hard release after it (`letsGo` is the channel it will be asked of) |
| `T3101Expires` ..., `FillerSent` | time; `FillerPasses` is FillerSent under the assumption PromptThreads |
| `MsMoves`, `MsReturns`, `MsTimesOut`, `MsVanishes`, `Fade`, `Recover`, `StrayFrame` | the mobile and the radio |

### MMLayer, MCMMLayer (MMLayer_proofs)

`user`, `ctx`, `tran`, `chan` are MMUser, MMContext, TranEntry and the channel
as the layer sees it.  gMMLock makes the functions atomic, so an action is one
holding of the lock.  A service loop that starts an MT-SMS lets go of the lock
with the transaction in its hand: `ServiceMTSMS`, then `StartSMSTran`.  If the
user is not attached by then the code has a null or deleted object, and the
model takes no step.  The context of a channel is made when the channel is
established; the code makes it at first use.  `inbox` is what the loop has yet
to read; what the handset wants is named by the transaction it would start.
The INVITE's mmIsBusy test and its mmAddMT hold the lock twice, but the SIP
interface is one thread.

### Handover, MCHandover (Handover_proofs)

Two stations, their channels, the handsets and the datagrams between them.  A
datagram is a member of the set `net`: it may be taken in any order or be lost,
and sending one again that is still on its way changes nothing; the model is
made so that a late copy of an old message is among the cases.

| actions | code |
|-|-|
| `Measure`, `Response`, `Indication`, `Ages`, `HoldoffPasses` | BS1: HandoverDetermination; processHandoverResponse, ...Complete, ...Failure; stateAge and the holdoff of the neighbor table |
| `TransferStart`, `TransferRead`, `TransferTimeout` | outboundHandoverTransfer, cut at its read |
| `RadioFailure`, `ReadFrame`, `ReadBye`, `ClearingEnds` | l3CallTrafficLoop and the end of a call at BS1 |
| `Request` | BS2: processHandoverRequest with newHandover, lcstart and handoverPending |
| `StartAccess`, `ReadAccess`, `T3105Expires` | ProcessHandoverAccess up to and in its loop |
| `ReadComplete`, `MachineTimeout`, `DialogActive`, `DialogEnds` | InboundHandoverMachine |
| `Acknowledged`, `ResendTimeout` | sendUntilAck of the peering interface |
| `LosesRadio`, `Close`, `T3101Expires`, `T3103Expires`, `Stuck` | the end of the loop at BS2; timers; isStuckOrRemoved |
| `SendAccess` ... `HangsUp`, `Lose` | the handset, the remote party, the network |

`sip` says which station has the dialog with the remote party.

### RLCWindow, RLCDown, RLCUp, MCRLC (RLC_proofs)

`RLCWindow` is the arithmetic (addSN, deltaSN, deltaSNS, and the search that
advances a window).  `RLCDown` is RLCDownEngine with the receiver of a handset,
`RLCUp` is RLCUpEngine with its transmitter.  Blocks carry numbers that the code
does not have, so that a block can be told from the one that had its BSN a round
earlier.  The two engines share nothing; `MCRLC` explores one or the other.

| actions | code |
|-|-|
| `RLCDown!Service` (`SendFinal`, `SendStalled`, `SendNext`) | mtServiceDownlink in DataTransmit, engineService, getBlock, engineFillBlock, send1DataFrame, advanceVS |
| `RLCDown!Answer` | engineRecvAckNack, advanceVA |
| `RLCUp!Arrive` | engineRecvDataBlock, engineUpAdvanceWindow |
| `RLCUp!SendAck`, `PersistExpires`, `PersistEnds` | engineService of the uplink, sendNonFinalAckNack |
| `RLCUp!SendFinalAck`, `FinalAcked`, `Finish`, `Detach` | the DataFinal state |
| `Grant`, `N3101Expires`, `NonResponsive` | findNeedyUSF and the USF of a block; msService |
| `PollPasses`, `FinalPasses` | an RRBP reservation passes |

Of the handset it is assumed what GSM 04.60 section 9.1 asks; it may answer a USF
with any block of its window.

### TBF, MCTBF (TBF_proofs)

`mac` is what the MAC thread owns: the TBFs, the list of TFIs, the USF lists of
the channels and, per handset, its channels, T3168 and the queue.  `phone` is
what the handsets believe: on which channel they are, with which TFI in either
direction.  Messages that await an answer in a reserved block are the field `msg`
(mtMsgPending); one that waits in the queue of the CCCH is "Queued".

| actions | code |
|-|-|
| `Arrive`, `StartDown` | the SGSN's PDU; msService makes a downlink TBF |
| `Attach` | mtAttach: channels, TFI, USF |
| `SendAssignment`, `CcchSends`, `Begin` | mtServiceDownlink in DataWaiting1, sendAssignment by PACCH or CCCH, the acknowledgement |
| `Poll`, `DownFails`, `UpEnds`, `UpFails`, `SendFinal` | a transfer and its end; what happens inside is RLCDown and RLCUp |
| `SendRelease`, `FinishedDetaches`, `DeadExpires`, `Forget` | TbfRelease, mtDetach, T3169 and T3195, deletion |
| `NonResponsive`, `UsfExpires` | msService, the dead time of a USF |
| `Rach`, `AckNack`, `AsksAgain`, `Acknowledges`, `PollPasses` | processUplinkResourceRequest, the messages of the handset, a reservation that passes |
| `Leaves`, `GivesUp` | the handset's T3180, T3190, T3168 |

`Cancel`, `CancelAndRelease` and `Retry` are mtCancel with its three ways to go
on, `NewUpTBF` is newUpTBF; TbfCancelMode "RetryAfterWait" makes the new TBF at
once, as the code does.

### SipDialog, Call, MCCall (Call_proofs)

`SipDialog` is one INVITE dialog of OpenBTS, the caller's or the called side's
(`dir`), the other user agent and the datagrams between them.  `sip` has mState
and mPrevDialogState, the timers, the two ways a dialog is found (`mapped`, and
`tagged` once dmAddLocalTag has moved it), the last response, the transaction
users of its BYE and CANCEL, and the inbox of the transaction it belongs to.
Datagrams are sets: they come in any order, and one that is sent again while it is
under way is the same one.  `Found` is findDialogByMsg: an MT dialog that has no
local tag yet is found for an INVITE, a CANCEL or an ACK; its BYE, which bears the
tag, gets the "NotFound" of `NoSuchDialog`, and a peer who has heard that is
"refused".  `Call` adds the TranEntry with its machine, its call state and its
timers, the handset, and the L3 frames between them, which LAPDm keeps in order.
The functions of the code are functions of a record, a *leg* (transaction, dialog,
frames), so that an action is the composition the handler is.

| actions | code |
|-|-|
| `newDriveIncoming` | a datagram: the transaction user it belongs to, or MOWriteHighSide, MTWriteHighSide, SipMTBye, SipMTCancel of the dialog it finds, or the answer of who finds none |
| `PeriodicService` (`TimerA`, `KillTimer`, `RemoveFinished`, `TUResend`, `TUTimeout`) | periodicServiceLoop: timers of dialogs and transaction users |
| `handleInvite` | the first INVITE: createMTTransaction and mmAddMT, or User_Busy |
| `CMServiceRequest`, `MOCSetup`, `ConnectAcknowledge` | MOCMachine, with serviceAccept and handleSetupMsg |
| `MTCStart`, `CallConfirmed`, `Alerting`, `Connect` | MTCMachine |
| `AssignmentComplete`, `AssignmentFailure` | AssignTCHMachine, pushed by `StartAssign` |
| `DefaultMessages`, `Unexpected` | defaultMessages: CMServiceAbort, Disconnect, Release, ReleaseComplete; frames of other states |
| `ReadDialogMessage` | mmCheckSipMsgs: what the dialog has pushed, as the current machine takes it |
| `Timeout`, `PageExpires`, `Defunct`, `ChannelLost` | TimerAbortTran and stateAssignTimeout; mmGetPages; deadOrRemoved; mmFreeContext |
| `Peer`, `Phone`, `Lose` | the other user agent as RFC 3261 has it; the handset; the network |

`QuitTran` is what every end of a machine comes to: teRemove with dialogCancel.
When the transaction is gone the channel, which here has no other, is released at
once and the handset is idle.  L3Alerting and L3Progress, which only reach the
user's ear, are not sent; L3ReleaseComplete and the release of the channel are one
message.  Timer G, which the code stops at its first expiry, and timers D and K,
which only delay the removal of a dialog, are left out.

## 4. Runs

| run | instance | question |
|-|-|-|
| `lapdm_oneway` | N200 0, modulus 2, messages of 2 segments, 2 segments per link, 3 establishments, contention resolution, releases by either end | window, types and timers as the BTS uses SAPI 0; every call of the BTS, which never asks for the link here, returns |
| `lapdm_service` | N200 0, modulus 4, both send, 3 establishments | implements DataLink: gapless, in order, of one link |
| `lapdm_stray` | N200 1, the BTS asks twice for the link and releases it, normally or hard, a message of one segment, two stray frames of ten kinds | no wait for the answer to a SABM or DISC without timer, L3 informed |
| `channel_sdcch` | one SDCCH, two mobiles, noise | watched, silent before reuse, grants held, recycled |
| `channel_reassign` | one SDCCH, one TCH, two contexts, `PromptCall = FALSE` | what a reassignment shares and when; grants held |
| `mm_layer` | two subscribers, SDCCH, TCH, two contexts; six mixes of an INVITE, a MESSAGE, an MO call, two MO-SMS, a location update and a repetition by SIP | pointers, homes, shared contexts; every MT transaction is taken or refused |
| `call` | one call in either direction, one lost datagram or failed assignment | both parties are there, nobody stays in a call that is over, L3 is told, hanging up ends it |
| `handover` | two calls, one TCH at BS2, references modulo 4, two requests, two resends, one call that also talks, vanishes and hangs up | nobody goes on with another's call; the dialog follows the handset; held channels come back |
| `rlc` | window 4 of 8, 10 blocks in either direction, both ends of the radio lossy, extended uplink TBF of two transfers | order, exact bitmaps, nothing acknowledged that has not come, the downlink ends |
| `tbf` | two handsets, one of which sends, one channel, two TFIs, one USF, three TBFs; two mixes of PDUs, requests and retries | one TBF per direction, TFIs that mean one handset, all returned |
| `lapdm_v_blocked`, `mm_v_next` | minimal | section 7 |

Why the bounds are enough for the questions asked.  LAPDm's window is 1, so
modulus 2 already lets old and new segments collide and 2 segments wrap it; N200 =
0 has first transmission, retransmission and the expiry that gives up (RC > N200,
so N200 + 1 of them); a third establishment has frames of two links behind it,
which is where the model without `QuietStart` goes wrong (section 7) and two do
not show it; ChanCap 2 has room for a frame and a stale one behind it. Two mobiles
on one SDCCH show reuse, and a RACH queue of 2 shows one grant overtaken by
another's.  A reassignment needs one of each pool and two contexts. For MMLayer
two subscribers show confusion of users, two contexts a handset that answers
twice; a second repetition by SIP finds what the first did. For Call one fault
loses any one of the messages that begin or end a call; what timers repeat,
reorder and what the two users do is not bounded.  For Handover one channel is
shared by two calls, so that each finds the other's leftovers on it; two requests
are a repetition or a second call; a reference space of 4 is not exhausted by
them, so that what happens when the 256 of the code come round is not in the run
(with `RefSpace = 1` RightCall fails).  The RLC window is 4 of 8 instead of 64 of
128: the arithmetic depends on the ratio only, and 10 blocks go through all
numbers once and begin again.  TBF has a TFI less than TBFs and a USF less than
handsets, so both run out; a limit of 1 for each counter has a first try and one
again.  Larger budgets (two PDUs and two requests and a retry, 2.2 million states)
were checked for safety with the same result.

Symmetry is used in safety runs only, for mobiles, channels or contexts that no
definition tells apart.  CHECK_DEADLOCK is off throughout: with the bounds used
up, handsets and callers need not do anything more.

## 5. Fairness and time

`LAPDm!Fairness`: the service thread takes its frames and sees an expired T200;
a thread whose wait is over returns.  Nothing of the radio or of what L3 asks.
`Channel!Fairness`: the threads of a channel are scheduled, its timers run out,
filler leaves, a mobile left alone gives up.  `MMLayer!FairSpec`: loops poll,
timers run out, a procedure ends by its own timers, and a channel that its
handset has left is released (which `channel_sdcch` checks).

Order between timers is a guard where the code relies on it.

- A radio round trip is shorter than T200 (`PromptRadio`).  Without it a UA or I
  frame of an earlier link passes for one of the present link and a segment is
  lost in silence; GSM's N200 and T200 assume the same.
- A thread that asks for a link sends its SABM when what was sent before has
  arrived or is lost (`QuietStart`).  Nothing in the code waits for that; between
  a release and a new request of L3 there are usually seconds.
- T3101 (6 s) outlives the maximum age of a RACH (4.94 s), is shorter than the
  radio link timeout (15 times 480 ms) and longer than a mobile's attempts to
  seize the channel.
- T3109 (30 s) outlives the handset's radio link timeout, as the description of
  the key asks (apps/GetConfigurationKeys.cpp: "must be longer than").
- `PromptThreads`: a thread that has work has done it before the last filler
  burst has left (polls of 26 frames or 100 ms against 480 ms of SACCH).  It is a
  conjunct of `FillerPasses`, not of the code: recyclable() asks for nothing of the
  kind, and that no loop is inside a channel when it goes back to the pool is
  assumed by it, not shown.
- `PromptCall`: AssignTCHMachine starts before T3101 of its TCH runs out.  Only
  `channel_sdcch` sets it, where there is no TCH; `channel_reassign` does without.

`Handover!FairSpec`: loops run and their timers run out, a datagram arrives or is
lost, a handset on its way arrives, turns back or is lost.  `PromptNet` is the
order of its timers: those of 4 s and more (T3101, T3103, THandoverComplete,
TSipHandover, the holdoffs) outlive a datagram of a local network and a handset's
move, which T3124 ends within a second; Ny1 times T3105 outlives T3124 too.

`RLCDown!Fairness`: the MAC serves the primary channel and now and then finds a
block to reserve, and a reserved block passes.  The radio may lose everything.

`TBF!Fairness` is one weak fairness of `Progress`, all that the loop, the CCCH
and time do in the end; sending assignments and polls is not part of it.  The
order of timers is in the guards: T3169 and T3195 (5 s) outlive the handset's
T3180 and T3190 (`DeadExpires` waits for the handset to have left) and the queue
of the CCCH; a handset that has a block to answer in uses it or not before its
own timers end (`Owes`).  `Gaps = FALSE` excludes two coincidences in which the
code goes wrong (section 7): a RACH while an uplink TBF of the same handset is
being assigned, and a dead time that ends in the pass of the loop in which the
handset has lost its channels to a new request.

The other user agent is assumed to match our CANCEL with its INVITE although the
code builds it with a new branch and CSeq (SIPTransaction.cpp:627-634), for which
a strict one may answer 481.

`Call!Fairness`: what is under way on either side of OpenBTS arrives and is read,
the SIP threads run, the other user agent repeats what has not been answered.  The
deadlines get strong fairness as one action, because a user who goes on sending can
keep `Still` false again and again but a timer does not care; each comes once.  A
deadline of OpenBTS (T303, T308 and T310 of 10 s and more, BF, H and J of 32 s) waits
until nothing is under way (`Still`, `Quiet`): queues and datagrams take less.

The constants name the assumptions that the code does not enforce: `PromptRadio`,
`QuietStart`, `PromptThreads`, `PromptNet`, `Gaps`; `MayBeLost` in RLCUp is the last.

## 6. Proofs

Every theorem is about every value of the constants that the named ASSUMEs
admit (distinct entities, modulus at least 2, disjoint pools, None not among the
channels, bounds in Nat), and of the hypotheses that a theorem names itself.

**LAPDm_proofs.**  `TypeCorrect`: the delicate parts are RC <= N200 + 1, which
holds because the expiry that finds RC > N200 releases the link, and the fields
of a frame that a SABM or a stray builds.  `AwaitingTimed`: AwaitingIsTimed is
inductive given TypeOK; the proof has a lemma for what each shared part of a
handler does to state and T200.  `L3Informed`: L3KnowsOfRelease is not inductive
by itself, since a release on a new channel tells L3 nothing; `InformedInv` adds
that the queue of a new channel starts with PH_CONNECT while L3 still thinks it
down (`PhConnectFirst`).

`OneOutstandingAlways`, `BlockedIsTimedAlways` and `ImplementsDataLinkOneWay` are
about the use that `lapdm_oneway` checks, named by `OneWay`: the handset asks for
links, the BTS sends, either releases, the BTS may also drop the link; the radio
keeps to T200 and is quiet before a SABM.  What an acknowledgement means depends
on every frame in flight both ways, and that is what `OneInv` says.  `Calm` holds
in all states: what each end can be doing, that Sent is Heard or one more, what
kinds of frames can be on the air, that a handset waiting in AwaitingEstablish has
its SABM or the one answer to it on the air, not both (`Greeting`), and that a
SABM the BTS will take finds nothing but old I-frames coming the other way
(`Asked`).  `Flow` holds while the BTS is in multiframe mode: T200 runs exactly
while a segment is out, and that segment is mSentFrame, numbered VA (`Sender`); at
most one frame of the present link comes to the handset, and one UA before it
(`OnAirToMs`); at most one acknowledgement comes back, then nothing comes to the
handset, and it acknowledges VS (`OnAirToBts`); the handset has heard all, or
waits for number VA (`Listener`). The proof has one lemma for each of thirteen
kinds of step (`BtsSends`, `BtsIsAcked`, `MobHears`, ...), stated of channels that
are `Shortened` or `Extended` by a frame, and then one for each handler of each
end, which says of which kind its branches are.

The refinement needs to know what has been heard and not only that it has come.
`Story` adds that an established handset has kept all that the BTS has sent or all but
the last segment, and then takes an I-frame exactly if it is that one (`Hearing`), and
what it may still hear of the first segment when it enters anew (`Starting`, `Young`).
Each kind of step is then a step of DataLink or a stutter: `LeaveServed`,
`EnterServed`, `TransmitServed` and `HearServed` say so of the service's variables as
they are read off LAPDm's, and each handler is shown to be one of them.

**DataLink_proofs.**  The abstract service itself: the sender is one ahead at
most, and who listens hears in order.  So what `lapdm_service` shows of one
instance rests on a service whose promise is proved.

**Channel_proofs.**  The invariant is `IInv`: every channel is `Good`, that is
typed and `Sound`: a channel that transmits has a timer armed or its SACCH
running, and T3109 only with a silent SACCH.  It is a predicate on the fields of
one channel, so each function of L2LogicalChannel gets one lemma (LcOpen,
StartNormalRelease, ImmediateRelease, WriteToL3 keep a channel good) and each
action a step that cites them; reassignment, which writes two channels, is the
longest.  `AlwaysWatched` and `SilentUnderT3109` follow.

What is said of the pool and of grants needs a second invariant, `Safe`, of
several channels, the RACH queue and the mobiles. A channel that waits for its
mobile is `Virgin`: it transmits, none of its timers can end it, its link is down,
nothing is on its way to layer 3, no loop is inside it and none sleeps that will
have it released; so no thread has anything to do on it. While its RACH waits it
is `Fresh` too: its SACCH runs and is not lost. `Entries` says that the queue
holds Fresh channels, each once and for its own mobile, `Untouched` that at most
one mobile is due on an SDCCH and that it is Virgin, and `Emptied` why lcopen
finds a channel so: one that does not transmit has its filler still to come or has
no loop and no ESTABLISH left. That is the use of PromptThreads. An action that
moves no mobile only has to be `Gentle` to each channel; most are because they are
`Keeping`, a relation on the fields of one channel. T3109 is where the two
invariants meet: it runs out under a tuned mobile only while the SACCH transmits,
and Sound says that it then does not run. `GrantIsHeldAlways` follows for pools in
which a RACH is given SDCCHs, reassignment and the sleep within it included.
Without TCHs every channel is also `Kept`: a mobile tuned to it keeps it
`Occupied`, and `NoReuseUnderfootAlways` follows. With TCHs that is false (section
7), so the theorem says Tch = {}.

**TBF_proofs.**  A value of `mac` is `Good` when it is typed, no two TBFs keep the
same direction of a handset busy, none of the uplink is in TbfRelease and, without
Gaps, every TBF that waits for its handset or transfers finds channels in its
MSInfo.  Each function of the MAC gets a lemma that keeps a `Good` value good
(mtDetach, mtCancel, mtRetry, newUpTBF, createDownlinkTbf), all resting on
`StaysGood`: it is enough that no TBF becomes busy that was not and that no channel
is taken.  What remains for the actions is who makes a TBF, whose guards are the
argument for `OneActiveAlways`, and the RACH, which alone takes channels.

`NoCrossTalkAlways` is about two sides that learn of each other by messages only, and
NoCrossTalk says nothing of what is on its way.  The inductive invariant `LInv` adds
`Linked` to IInv, which relates them.  Of the network alone: what may await an answer
in which state of a TBF (`Sound`), the TFI of a TBF leads back to it (`Held`), an
answer is awaited on channels that the handset has (`Reached`), and an old downlink
TBF awaits no acknack beside an active one of its handset (`Polling`).  Of both: a
handset that is polled believes in the TFI of the poll, and one whose transfer is
`Over` for the network, or that has been told so, believes in it no more (`Ties`);
and whatever TFI a handset believes in is held by an attached TBF of its own in that
direction (`Claimed`).  Claimed is the point of it: a TFI is given back by mtDetach
alone, so each call of mtDetach must be shown to come when the handset has left, which
is Ties, or to come with a handset that has turned away.  It needs neither
~Gaps nor a bound on USFs.  `OneEachAlways` is what Held says of two TBFs.

`TfisAgreeAlways` needs the other direction as well, that what the list names is
alive and has that TFI: `Tidy` (`Listed`, `Sparse`, `Whole`) is a second
invariant, on top of LInv.  It has two hypotheses.  `EnoughUsfs`: no more handsets
send than a channel has USFs.  An uplink TBF that gets a TFI and finds no USF is
not attached, so that mtDetach later does not give the TFI back (section 7); with
enough of them there is one, by the pigeonhole principle (`AlwaysUsf`, from
FS_PigeonHole), since a handset has one at most.  ~Gaps: mtDetach finds the TFI by
way of the channels of the handset, and a RACH in a gap takes them first (section
7).  The proofs use that None is none of the other values (NoneAssumption), and
WellFoundedInduction for the least number that Min chooses.

**MMLayer_proofs.**  All invariants of the layer, from one
inductive invariant `IInv` = TypeOK /\ ChanInv /\ CtxInv /\ TranInv and the
assumptions that the module names: SDCCHs and TCHs are different channels, None is
nobody, each transaction has a service.  Even the
types need more than themselves: who holds a transaction (`Hands`) and what a
channel with a loop has (`LoopsOK`).
`ChanInv` says how a reassignment shares a context: a channel that a call waits for
is waited for by one call, has no context until the assignment starts and then only
the caller's (`ReservedOK`, `TargetsOK`), and loops that share a context belong to
one handset (`OneHandset`); without that mmcUnlink could take the context from
under a stranger, which is what `SharedContextSurvives` excludes.  `CtxInv` ties a
context without channels to a deleted one and its MMUser to the handset of the
channels (`ContextsOK`); with PointersAgree it gives `AttachedIsServed`.  `TranInv`
says for each of the places a transaction can be in (slot, queue, hand, inbox,
request) who is there and that it is there once; `OneHome` is its summary.
First comes that the steps keep the types, the channels and the contexts, then the
transactions, with a lemma for the steps that move none.

**Handover_proofs.**  `TInv` has the types, what a datagram may say, and that
references made plus requests on their way never exceed the requests asked
(`NetOK`), which bounds the reference counter.  On it rests `OwnRefs`: no reference
that is still anywhere, in a response on its way, a command, a handset or a
transaction, was given to two calls.  Then `Served`: a handset that a channel has
heard or serves is that of its transaction (`OnChannel`), and no dialog moves
before that handset's HandoverComplete (`Dialogs`).  `ServesTheRightCall` and
`DialogComesLast` have two hypotheses, and both are needed.  MaxRequests <=
RefSpace: the reference is 8 bits of a counter, and after 256 requests a handset
could come with one that has been given anew.  PromptNet: a response older than
T3103 of BS2 could send a handset to a channel that serves somebody else by then.
`TypeCorrect` needs neither.

**Call_proofs.**  The four invariants of a call, for any number of lost datagrams
and failed assignments.  First come lemmas on sequences of frames (`HasAny`,
`Closes`) and one for every function of the dialog and of a leg: what
dialogPushState, dialogCancel, the writes of either side, closeCall, sendRelease
and QuitTran make of it.  The invariant `IInv` has three parts.  `TInv` is the
types.  `L3Inv` relates the machine, the call state, the handset and the frames
both ways: before the call has a valid TI there are only a few pairs of queues
(`NoCall`, `Opening`, `Paged`, `Offered`); afterwards (`Calling`) a handset that
has left has said so or T308 runs (`Clearing`), and the frames a caller's and a
called handset can have under way are listed (`MOCalling`, `MTCalling`), where an
Alerting or Connect never comes behind the Disconnect of the same handset.
`SipInv` relates the dialog, the datagrams and the other user agent: `DialogTold`,
which says that an end that was pushed is still to be read unless
AssignTCHMachine, which will ask, is on top; what may be on its way in which state
(`MOWire`, `MTWire`); what cannot have happened while the transaction has not ended
(`MOUnended`, `MTUnended`, `MTEarly`); and that a finished dialog has hung up
(`MOHungUp`, `MTHungUp`).  The proof has a lemma for each handler of the service
loop, of the SIP threads and of the handset, and one for each datagram.
`NoEndIsMissed` is DialogTold; `ActiveCallsHaveTwoParties` and
`NobodyIsLeftBehind` each need both L3Inv and SipInv.

**RLC_proofs.**  Both engines, for every window of at least 4 (the code has 64),
any number of blocks and every limit and period.  A BSN is the block's number
modulo SNS, so the invariants speak of numbers, whose order is that of the
integers, and a first group of lemmas says what the code's arithmetic makes of
them: addSN adds, deltaSN is the difference of two numbers less than WS apart,
numbers less than SNS apart with one BSN are the same, and the search that
advances a window stops at the first number it looks for (`WrapAdd`, `WrapDelta`,
`WrapSame`, `FirstFound`; the last needs WellFoundedInduction for the least number
of a set). The invariant of the downlink names four numbers that the program has
only modulo SNS: blocks filled, acknowledged, next to send, heard by the handset.
`Window` and `Queue` place V(A), V(S) and the queue among them, `Holds` the
handset's V(Q), V(R) and buffer, and `Truthful` says that a block marked
acknowledged has been delivered or waits in the buffer.  Joined to the handset,
V(A) is never beyond what is delivered, which is the point (`AfterAnswer`): had
the handset acknowledged the block after the last one delivered, it would have
delivered that one too.  `AckedIsReceived` and order are Truthful and Holds. The
invariant of the uplink, `Linked`, has three parts.  `Engine`: the bits and the
buffer are those of the numbers heard up to V(R), no older bit is left behind
(`MoveVRKeeps`: what V(R) clears as it moves is more than WS old, and it clears
all of that), and the block next to deliver is not among them.  `Transmitter`: the
handset's V(A) and V(S) are in reach of V(Q).  `Coming` and `Sends`: every block
on the air will be in reach when it comes, and less than WS - 1 beyond the newest
heard by then. The last part is where MayBeLost is needed (the radio does not lose
WS - 2 new blocks in a row): when V(R) jumps further, it clears the place of the
block just stored. Each invariant is about one engine; `EnginesAlways` joins them.

**Only model-checked.** Of LAPDm, the refinement of DataLink where both ends send
(`lapdm_service`), and `CallsReturn`. OneOutstanding and BlockedIsTimed are checked
and proved for one-way data; with data both ways `lapdm_v_blocked` refutes the
second. Of Channel, ContextIsServed: it is about a reassignment between two channels
and a mobile that may come late to either, and holds in the instance of
`channel_reassign` but not for two mobiles, where the model's time lets a mobile
seize a channel long after its assignment; and GrantIsHeld when a RACH may be given
a TCH. Liveness (of RLC, DownEnds), and what rests on ENABLED, is out of the
prover's reach, as are induction over data and modules with RECURSIVE operators
(there are none here).

## 7. Findings

- `lapdm_v_blocked` (GSML2LAPDm.cpp:224): retransmissionProcedure sends
  mSentFrame as it was, old NR and all.  processAck takes any NR, so VA goes
  back, and a thread in sendMultiframeData waits although T200 has been stopped.
- `mm_v_next` (L3LogicalChannel.cpp:35): mNextChan outlives its call; a later
  user of the SDCCH frees the context of someone else's target.

Met on the way, without a line that promises otherwise or outside a run.

LAPDm: a released entity's service thread reads mL1In for an hour
(GSML2LAPDm.cpp:466).  If the BTS asks for the link of SAPI 3 and gives it up, and
SABM and DISC are lost, T200 runs out unseen and the L3 thread stays blocked in
waitForAck until a frame comes, instead of the N200 times T200 of
GSML2LAPDm.h:112-114.  `CallsReturn` is about entities that do not ask for links,
the BTS on SAPI 0.  An unsolicited DM restarts T200 where the comment says reset
(:783); the command/response test of an RR poll is inverted (:844); data written
in AwaitingEstablish is dropped.  And a UA does not say which SABM it answers
(:707, receiveUFrameUA takes any with F in AwaitingEstablish): when a handset
gives a link up before its SABM is answered and asks again at once, twice, the
late UA confirms the new SABM, the handset takes an I-frame of the old link for
one of the new and its RR acknowledges a segment that has not arrived.
`lapdm_oneway` and `lapdm_service` both fail so with `QuietStart = FALSE` and
three establishments.

Channel: with very early assignment the call traffic loop releases a TCH at once
when the SACCH is not heard; the mobile, which may still hear, has not been told and
T3109 has not run (L3StateMachine.cpp:847), so NoReuseUnderfoot fails when TCHs are
in the pool.  T3101 of the TCH that reassignAllocNextTCH has taken runs 6 s, the
CallConfirmed may take 30; meanwhile recyclable() gives the TCH back although
mNextChan holds it (GSMLogicalChannel.cpp:464).

Handover: when the read of outboundHandoverTransfer times out the dialog is
dropped without a BYE even if the handset never reached the other station
(L3Handover.cpp:345); a frame queued before the command counts as a failed
handover (:333); the refusal RSP with cause 101 has no hex string and is dropped
as invalid; a request of a version 1 neighbor builds an answer that is not sent.

SIP and call control: dialogPushState takes a 100 or 180 that arrives behind the
200 for the new state (SIPDialog.cpp:1236), so a call that ends now sends a CANCEL
to somebody who has answered; the same goes for a CANCEL that crosses the 200,
because nothing sends a BYE for a 200 that comes to a cancelled dialog; on the
called side an error response is sent after the 200 when the channel is lost
before the ACK.  These are the exceptions `PeerIsHungUp` makes: the other side
must notice by itself.  Timer G is started for the 200 and stopped at its first
expiry, since the state is then Connecting and the test asks for Active or SSFail
(:542).  dialogActive read after a Disconnect has been answered makes the call
Active again (L3CallControl.cpp:1025); T308 ends it.  A BYE that overtakes the
caller's ACK is looked up with a tag that the dialog gets only with the ACK
(SIP2Interface.cpp:108) and is answered 404; the ACK then makes the call Active,
and nothing but its handset ends it.  That caller (`refused`) is excepted in
BothPartiesAreThere and HangingUpEndsIt, and nobody else.  T310 is not stopped by
Alerting, so a call rings no longer than what T310 leaves.

RLC: after WS - 2 new blocks lost in a row, with older ones heard between them,
engineRecvDataBlock clears the place of the block it has just stored
(RLCEngine.cpp:705; `MayBeLost` excludes it).  USFs do not stop while a persistent
uplink TBF closes, against the comment at :618, so a transfer that begins then is
cut off; a one-block transfer heard in DataFinal takes mtUpState back to quiescent,
and only the NonResponsive timer ends the TBF.  After a final block with the stall
bit set mUpStalled stays set, and the persist timer is looked at only while a
reservation is pending.

TBF and MAC: allocateUSF takes a USF in its dead time for free (MAC.cpp:235):
another handset gets it, is never granted a block with it and loses it after 5 s.
mtCancel of an uplink TBF in DataFinal reserves the USF that a newer TBF of the
handset already uses, because the N3103 test precedes the test for the answer
(TBF.cpp:1438).  A RACH while an uplink TBF of the handset is assigned takes its
channels and leaves it attached, against the comment at MSInfo.cpp:662; the new
request is ignored as a duplicate and the old TBF waits unserved.  A dead TBF
whose handset has lost its channels to a RACH frees its TFI in no channel
(TBF.cpp:1201); the list leads to a TBF that is deleted.  With `Gaps = TRUE` TLC
finds TfisAgree violated so.  mtDetach frees nothing of a TBF that was not
attached in full but had got a TFI.  RetryAfterWait does not wait (MAC.cpp:1612).
Assignments by CCCH do not count, and after four by PACCH the choice never
alternates as the comment says (TBF.cpp:600), so only NonResponsive ends such a
TBF.  An uplink TBF that has finished leaves its USF with the handset for ever if
the handset meanwhile asked on another channel.

PROJECT.json lists further hazards with the reason why no property covers them.

## 8. What is not modelled

Within modelled parts: UI frames, idle filling and the SACCH variant's queue
contents; SAPI 3, handover access and GPRS use of a channel; data frames in the
queues of a channel (so the flush in startNormalRelease that can drop a
ChannelRelease is listed as a hazard and not checked); call hold and
supplementary services in MMLayer, TMSI lookup, welcome messages.  Handover: the
neighbor parameter exchange and the table behind it; the pool BS2 takes its
channels from is that of Channel.  RLC: unacknowledged mode, segments and PDUs
inside blocks, coding schemes and their change.  TBF: several time slots and the
reassignment they need, changes of TLLI, deletion of MSInfo, T3193 (it may run or
not at any time); which free TFI is taken is left open, the code goes round.
Call: DTMF, hold, ciphering, emergency
calls, a second transaction on the channel of the call, inbound handover (which is
in Handover), REGISTER and MESSAGE dialogs, re-INVITEs.  A pass of a
service loop is one step, so races inside a pass (a context freed in the middle
of it) are not seen.  Of the other components, signal processing, codecs,
drivers, the CLI and the configuration stay outside; the rest is in the plan.
