-------------------------------- MODULE TBF --------------------------------
(***************************************************************************)
(* The life of temporary block flows (TBFs): how the MAC makes, assigns,   *)
(* releases, retries and deletes them, the TFIs and USFs that they hold,   *)
(* and what the handsets at the other end believe meanwhile.  Sources:     *)
(* GPRS/TBF.cpp, and what it calls in GPRS/MAC.cpp and GPRS/MSInfo.cpp.    *)
(*                                                                         *)
(* One thread, macServiceLoop, does all this but for the CCCH, which sends *)
(* the assignments queued there.  An action is one visit of the loop to a  *)
(* TBF, a handset or a received block.  How a transfer goes is in RLCDown  *)
(* and RLCUp: here it may end well or fail, and does one or the other.     *)
(* Handsets have one time slot, and no MSInfo is deleted.                  *)
(***************************************************************************)
EXTENDS Naturals, FiniteSetsExt

CONSTANTS
    Handsets,
    Uplinkers,      \* the handsets that also send
    Pdchs,          \* packet channels
    Tfis,           \* one list for both directions (gFixTFIBug); 32 in the code
    Usfs,           \* numbers USFMIN..USFMAX of a channel
    Tbfs,           \* bound: TBFs that exist at a time
    AssignMax,      \* GPRS.Counters.Assign
    CcchAfter,      \* assignments on PACCH before those of the downlink go to the CCCH
    N3103Max,       \* GPRS.Counters.N3103
    ReleaseMax,     \* GPRS.Counters.TbfRelease
    Budgets,        \* bounds: PDUs that come for the handsets, uplink TBFs that handsets ask
                    \* for, and (for GPRS.TBF.Expire) how often PDUs are retried
    Gaps,           \* see Rach and DeadExpires
    None            \* no TBF, no handset, no channel, no TFI, no message

ASSUME TbfAssumption ==
    /\ Uplinkers \subseteq Handsets
    /\ Usfs \subseteq Nat /\ Tbfs \subseteq Nat /\ IsFiniteSet(Usfs) /\ IsFiniteSet(Tbfs)
    /\ AssignMax \in Nat /\ CcchAfter \in 0..AssignMax /\ N3103Max \in Nat /\ ReleaseMax \in Nat
    /\ Budgets \subseteq [pdus: Nat, asks: Nat, retries: Nat] /\ IsFiniteSet(Budgets) /\ Gaps \in BOOLEAN

VARIABLES
    mac,     \* the MAC: its TBFs, TFI list, USF lists and what an MSInfo holds
    phone,   \* the handsets
    left     \* what the bounds leave: PDUs, requests and retries

vars == <<mac, phone, left>>

Active == {"Ready", "Waiting1", "Transmit", "Final", "Release"}     \* isActive
Transmitting == {"Transmit", "Final"}                               \* isTransmitting
Messages == {"Assign", "Data", "Final", "Release"}                  \* MsgTransactionType
Counts == 0..Max({AssignMax, N3103Max, ReleaseMax}) + 1

TbfFields ==
    [ms: Handsets, dir: {"Up", "Down"}, state: Active \cup {"Finished", "Dead", "Deleting"},
     attached: BOOLEAN, tfi: Tfis \cup {None},
     msg: Messages \cup {"Queued", None},    \* what awaits an answer; in the queue of the CCCH
     acked: BOOLEAN,
     n: Counts]                              \* mtAssignCounter, mtN3103, mtTbfReleaseCounter

ASSUME NoneAssumption ==
    /\ None \notin TbfFields /\ None \notin Pdchs /\ None \notin Tfis /\ None \notin Handsets
    /\ None \notin Tbfs /\ None \notin Messages \cup {"Queued"}

MsFields ==
    [ch: Pdchs \cup {None},       \* msPCHDowns and msPCHUps
     pacch: Pdchs \cup {None},
     t3168: BOOLEAN,
     queue: Nat]                  \* PDUs in msDownlinkQueue

MacFields ==
    [tbf: [Tbfs -> TbfFields \cup {None}],
     tfi: [Tfis -> Tbfs \cup {None}],
     usf: [Pdchs -> [Usfs -> [ms: Handsets \cup {None}, dead: BOOLEAN]]],
     ms: [Handsets -> MsFields]]

PhoneFields == [ch: Pdchs \cup {None}, asks: BOOLEAN, Up: Tfis \cup {None}, Down: Tfis \cup {None}]

TypeOK ==
    /\ mac \in MacFields
    /\ phone \in [Handsets -> PhoneFields]
    /\ left \in [pdus: Nat, asks: Nat, retries: Nat]

Idle == [ch |-> None, asks |-> FALSE, Up |-> None, Down |-> None]

Init ==
    /\ mac = [tbf |-> [t \in Tbfs |-> None],
              tfi |-> [f \in Tfis |-> None],
              usf |-> [p \in Pdchs |-> [u \in Usfs |-> [ms |-> None, dead |-> FALSE]]],
              ms  |-> [m \in Handsets |-> [ch |-> None, pacch |-> None, t3168 |-> FALSE, queue |-> 0]]]
    /\ phone = [m \in Handsets |-> Idle]
    /\ left \in Budgets

-----------------------------------------------------------------------------
(* The MAC's helpers: s is a value of mac.                                 *)

Those(s, m, dir, states) ==
    {t \in Tbfs : s.tbf[t] # None /\ s.tbf[t].ms = m /\ s.tbf[t].dir = dir /\ s.tbf[t].state \in states}

Ch(s, t) == s.ms[s.tbf[t].ms].ch

Pending(s, t) == s.tbf[t].msg # None        \* mtMsgPending

\* Mutant: one time too many.
ExhaustedLate(t) ==
    mac.tbf[t].n > CASE mac.tbf[t].state = "Waiting1" -> AssignMax + 1
                     [] mac.tbf[t].state = "Final" -> N3103Max + 1
                     [] mac.tbf[t].state = "Release" -> ReleaseMax + 1

\* Has the counter of assignments, final acknacks or releases passed its limit?
Exhausted(t) ==
    mac.tbf[t].n > CASE mac.tbf[t].state = "Waiting1" -> AssignMax
                     [] mac.tbf[t].state = "Final" -> N3103Max
                     [] mac.tbf[t].state = "Release" -> ReleaseMax

NewTbf(m, dir) == [ms |-> m, dir |-> dir, state |-> "Ready", attached |-> FALSE, tfi |-> None,
                   msg |-> None, acked |-> FALSE, n |-> 0]

Room(s) == \E t \in Tbfs : s.tbf[t] = None

Create(s, m, dir) == [s EXCEPT !.tbf[Min({t \in Tbfs : s.tbf[t] = None})] = NewTbf(m, dir)]

\* Mutant: whatever else is active.
NewUpTBFAnyway(s, m) == Create(s, m, "Up")

\* newUpTBF: refused while another is active, unless that has come to its end.
NewUpTBF(s, m) ==
    IF Those(s, m, "Up", Active \ {"Final"}) = {} THEN Create(s, m, "Up") ELSE s

\* USFList, of one channel: allocateUSF gives a handset its own again, or the first that
\* getUSFMS gives nobody for.
Mine(l, m) == {u \in Usfs : l[u].ms = m}

Available(l) == {u \in Usfs : l[u].ms = None \/ l[u].dead}

HasUSF(l, m) == Mine(l, m) \cup Available(l) # {}

AllocateUSF(l, m) ==
    IF Mine(l, m) # {} THEN [u \in Usfs |-> IF l[u].ms = m THEN [ms |-> m, dead |-> FALSE] ELSE l[u]]
    ELSE [l EXCEPT ![Min(Available(l))].ms = m]

FreeUSF(l, m, reserve) ==
    [u \in Usfs |-> IF l[u].ms # m THEN l[u]
                    ELSE IF reserve THEN [ms |-> m, dead |-> TRUE] ELSE [ms |-> None, dead |-> FALSE]]

\* On the channels that a handset has now: msFailUSFs, msCleanUSFs.
FreeUSFs(s, m, reserve) ==
    [p \in Pdchs |-> IF p = s.ms[m].ch THEN FreeUSF(s.usf[p], m, reserve) ELSE s.usf[p]]

\* Mutant: t still counts.
NeedsUSFItself(s, t) ==
    \E u \in Those(s, s.tbf[t].ms, "Up", Active \cup {"Finished", "Deleting"}) : s.tbf[u].attached

\* msCleanUSFs, as t lets go: is the USF still in use?
NeedsUSF(s, t) ==
    \E u \in Those(s, s.tbf[t].ms, "Up", Active \cup {"Finished", "Deleting"}) \ {t} : s.tbf[u].attached

\* Mutant: the entry of an uplink TBF stays.
FreeTFIDownOnly(s, t) ==
    IF Ch(s, t) = None \/ s.tbf[t].dir = "Up" THEN s.tfi ELSE [s.tfi EXCEPT ![s.tbf[t].tfi] = None]

\* mtFreeTFI, by way of the channels that the handset has now.
FreeTFI(s, t) == IF Ch(s, t) = None THEN s.tfi ELSE [s.tfi EXCEPT ![s.tbf[t].tfi] = None]

Detach(s, t) ==
    IF ~s.tbf[t].attached THEN s
    ELSE [s EXCEPT !.tbf[t].attached = FALSE, !.tbf[t].state = "Deleting", !.tbf[t].tfi = None,
                   !.tfi = FreeTFI(s, t),
                   !.usf = IF s.tbf[t].dir = "Up" /\ ~NeedsUSF(s, t)
                           THEN FreeUSFs(s, s.tbf[t].ms, FALSE) ELSE @]

Delete(s, t) == [s EXCEPT !.tbf[t] = None]

\* mtCancel, up to mtRetry, of some TBFs of a handset; msStop is that for all that are active.
CancelAll(s, m, T, state) ==
    [s EXCEPT !.usf = IF \E t \in T : s.tbf[t].dir = "Up" THEN FreeUSFs(s, m, TRUE) ELSE @,
              !.tbf = [t \in Tbfs |->
                  IF t \in T THEN [s.tbf[t] EXCEPT !.state = state, !.n = 0, !.acked = FALSE]
                  ELSE s.tbf[t]]]

\* Mutant: without the time to let the handset forget it.
CancelAtOnce(s, t) == Detach(CancelAll(s, s.tbf[t].ms, {t}, "Dead"), t)

Cancel(s, t) == CancelAll(s, s.tbf[t].ms, {t}, "Dead")

\* RetryAfterRelease
CancelAndRelease(s, t) ==
    CancelAll(s, s.tbf[t].ms, {t}, IF s.tbf[t].state \in Transmitting THEN "Release" ELSE "Dead")

\* mtRetry: of a downlink TBF, at once, unless its PDU is too old.
Retry(s, t, rest) ==
    LET d == [s EXCEPT !.tbf[t].state = "Dead"]
    IN \/ mac' = d /\ left' = rest
       \/ /\ rest.retries > 0 /\ Room(s)
          /\ mac' = Create(d, s.tbf[t].ms, "Down")
          /\ left' = [rest EXCEPT !.retries = @ - 1]

Is(t, states) == mac.tbf[t] # None /\ mac.tbf[t].state \in states

Served(t, states) == Is(t, states) /\ Ch(mac, t) # None      \* dlService, canUseDownlink

\* send1MsgFrame: the handset hears it, and acts upon it; or it does not, and the block that
\* is reserved for its answer, which the TBF waits for, passes unused.
Send(s, t, kind, hears, heard) ==
    \/ /\ mac' = [s EXCEPT !.tbf[t].msg = kind]
       /\ hears /\ phone' = [phone EXCEPT ![s.tbf[t].ms] = heard]
    \/ /\ mac' = [s EXCEPT !.tbf[t].msg = None]
       /\ UNCHANGED phone

-----------------------------------------------------------------------------
(* Assignment.                                                             *)

\* A PDU comes from the SGSN.
Arrive(m) ==
    /\ left.pdus > 0
    /\ left' = [left EXCEPT !.pdus = @ - 1]
    /\ mac' = [mac EXCEPT !.ms[m].queue = @ + 1]
    /\ UNCHANGED phone

\* msService: a new downlink TBF, if there is none, not even a dead one.
StartDown(m) ==
    /\ mac.ms[m].queue > 0
    /\ Those(mac, m, "Down", Active \cup {"Finished", "Dead"}) = {}
    /\ Room(mac)
    /\ mac' = Create([mac EXCEPT !.ms[m].queue = @ - 1], m, "Down")
    /\ UNCHANGED <<phone, left>>

\* mtAttach: what it got before it failed it keeps.
Attach(t) ==
    /\ Is(t, {"Ready"})
    /\ \E p \in Pdchs, f \in Tfis \cup {None} :
        LET m == mac.tbf[t].ms
            free == {e \in Tfis : mac.tfi[e] = None}
            up == mac.tbf[t].dir = "Up"
            done == f # None /\ (up => HasUSF(mac.usf[p], m))
        IN /\ IF mac.ms[m].ch # None THEN p = mac.ms[m].ch ELSE mac.ms[m].pacch \in {p, None}
           /\ IF mac.tbf[t].tfi # None THEN f = mac.tbf[t].tfi
              ELSE f \in (IF free = {} THEN {None} ELSE free)
           /\ mac' = [mac EXCEPT
                        !.ms[m] = [mac.ms[m] EXCEPT !.ch = p, !.pacch = p],
                        !.tfi = [e \in Tfis |-> IF e = f THEN t ELSE mac.tfi[e]],
                        !.usf[p] = IF up /\ done THEN AllocateUSF(mac.usf[p], m) ELSE @,
                        !.tbf[t] = [mac.tbf[t] EXCEPT !.tfi = f, !.attached = done,
                                                      !.state = IF done THEN "Waiting1" ELSE "Ready"]]
    /\ UNCHANGED <<phone, left>>

\* On PACCH or CCCH?  T3193, which keeps a handset on PACCH, may run or not.
OnCcch(t, t3193) ==
    /\ mac.tbf[t].dir = "Down"
    /\ mac.tbf[t].n < CcchAfter =>
        /\ ~t3193
        /\ \A d \in {"Up", "Down"} : Those(mac, mac.tbf[t].ms, d, Transmitting) = {}

HearsAssignment(t) ==
    LET ph == phone[mac.tbf[t].ms]
    IN /\ ph.ch = Ch(mac, t)
       /\ mac.tbf[t].dir = "Up" => ph.asks \/ ph.Up # None
       /\ mac.tbf[t].dir = "Down" => ~ph.asks

Assigned(ph, t) ==
    IF mac.tbf[t].dir = "Up" THEN [ph EXCEPT !.ch = Ch(mac, t), !.Up = mac.tbf[t].tfi, !.asks = FALSE]
    ELSE [ph EXCEPT !.ch = Ch(mac, t), !.Down = mac.tbf[t].tfi]

\* mtServiceDownlink in DataWaiting1 without an answer, and sendAssignment.
SendAssignment(t) ==
    LET x == mac.tbf[t]
    IN /\ Served(t, {"Waiting1"}) /\ ~Pending(mac, t) /\ ~x.acked
       /\ IF Exhausted(t)
          THEN mac' = Cancel(mac, t) /\ UNCHANGED phone
          ELSE \E expired, t3193 \in BOOLEAN :
             LET s == [mac EXCEPT !.ms[x.ms].t3168 = @ /\ ~expired]
             IN /\ expired => mac.ms[x.ms].t3168
                /\ IF x.dir = "Up" /\ expired THEN mac' = Cancel(s, t) /\ UNCHANGED phone
                   ELSE /\ x.dir = "Down" => ~s.ms[x.ms].t3168
                        /\ IF OnCcch(t, t3193)
                           THEN /\ mac' = [s EXCEPT !.tbf[t].msg = "Queued"]
                                /\ UNCHANGED phone
                           ELSE Send([s EXCEPT !.tbf[t].n = @ + 1], t, "Assign",
                                     HearsAssignment(t), Assigned(phone[x.ms], t))
       /\ UNCHANGED left

\* gprsPageCcchSetTime and the CCCH: a handset that is idle may hear it.
CcchSends(t) ==
    LET m == mac.tbf[t].ms
    IN /\ mac.tbf[t] # None /\ mac.tbf[t].msg = "Queued"
       /\ Send(mac, t, "Assign", phone[m].ch = None /\ Ch(mac, t) # None, Assigned(phone[m], t))
       /\ UNCHANGED left

\* The assignment is acknowledged: DataWaiting1 and DataWaiting2 to DataTransmit.
Begin(t) ==
    /\ Served(t, {"Waiting1"}) /\ mac.tbf[t].acked
    /\ mac' = [mac EXCEPT !.tbf[t].state = "Transmit", !.tbf[t].acked = FALSE, !.tbf[t].n = 0,
                          !.ms[mac.tbf[t].ms].t3168 = @ /\ mac.tbf[t].dir = "Down"]
    /\ UNCHANGED <<phone, left>>

-----------------------------------------------------------------------------
(* Transfer: see RLCDown and RLCUp for what it takes to end well or not.   *)

Poll(t) ==
    /\ Served(t, {"Transmit"}) /\ mac.tbf[t].dir = "Down" /\ ~Pending(mac, t)
    /\ LET ph == phone[mac.tbf[t].ms]
       IN Send(mac, t, "Data", ph.ch = Ch(mac, t) /\ ph.Down = mac.tbf[t].tfi, ph)
    /\ UNCHANGED left

\* N3105, or NStuck.
DownFails(t) ==
    /\ Served(t, {"Transmit"}) /\ mac.tbf[t].dir = "Down"
    /\ mac' = CancelAndRelease(mac, t)
    /\ UNCHANGED <<phone, left>>

Granted(t) ==
    \E u \in Usfs : mac.usf[Ch(mac, t)][u] = [ms |-> mac.tbf[t].ms, dead |-> FALSE]

\* The final block comes.
UpEnds(t) ==
    LET ph == phone[mac.tbf[t].ms]
    IN /\ Served(t, {"Transmit"}) /\ mac.tbf[t].dir = "Up" /\ Granted(t)
       /\ ph.ch = Ch(mac, t) /\ ph.Up = mac.tbf[t].tfi
       /\ mac' = [mac EXCEPT !.tbf[t].state = "Final"]
       /\ UNCHANGED <<phone, left>>

\* N3101: USFs that bring nothing.
UpFails(t) ==
    /\ Served(t, {"Transmit"}) /\ mac.tbf[t].dir = "Up" /\ Granted(t)
    /\ \E m \in {mac.tbf[t].ms} : mac' = CancelAll(mac, m, Those(mac, m, "Up", Active), "Dead")
    /\ UNCHANGED <<phone, left>>

Out(ph, dir) ==
    LET o == [ph EXCEPT ![dir] = None]
    IN IF o.Up = None /\ o.Down = None /\ ~o.asks THEN Idle ELSE o

\* DataFinal: the final acknack until it is acknowledged; to hear it ends the transfer for
\* the handset, which may ask for another in its answer.
SendFinal(t) ==
    LET x == mac.tbf[t]  ph == phone[x.ms]
    IN /\ Served(t, {"Final"})
       /\ IF Exhausted(t) THEN mac' = Cancel(mac, t) /\ UNCHANGED phone
          ELSE IF x.acked THEN mac' = [mac EXCEPT !.tbf[t].state = "Finished", !.tbf[t].n = 0, !.tbf[t].acked = FALSE]
                               /\ UNCHANGED phone
          ELSE ~Pending(mac, t) /\ Send([mac EXCEPT !.tbf[t].n = @ + 1], t, "Final",
                                        ph.ch = Ch(mac, t) /\ ph.Up = x.tfi, Out(ph, "Up"))
       /\ UNCHANGED left

\* TbfRelease: mtSendTbfRelease.
SendRelease(t) ==
    LET x == mac.tbf[t]  ph == phone[x.ms]
    IN /\ Served(t, {"Release"}) /\ ~Pending(mac, t)
       /\ IF x.acked THEN Retry([Detach(mac, t) EXCEPT !.tbf[t].acked = FALSE], t, left) /\ UNCHANGED phone
          ELSE IF Exhausted(t) THEN Retry(Cancel(mac, t), t, left) /\ UNCHANGED phone
          ELSE /\ Send([mac EXCEPT !.tbf[t].n = @ + 1], t, "Release",
                       ph.ch = Ch(mac, t) /\ ph.Down = x.tfi, Out(ph, "Down"))
               /\ UNCHANGED left

\* NonResponsive: 6 s without a word from the handset, time for the loop to visit its TBFs.
NonResponsive(m) ==
    /\ mac.ms[m].ch # None
    /\ \E T \in {Those(mac, m, "Up", Active) \cup Those(mac, m, "Down", Active)} :
         T # {} /\ mac' = CancelAll(mac, m, T, "Dead")
    /\ UNCHANGED <<phone, left>>

-----------------------------------------------------------------------------
(* The end.                                                                *)

FinishedDetaches(t) ==
    /\ Served(t, {"Finished"}) /\ ~Pending(mac, t)
    /\ mac' = Detach(mac, t)
    /\ UNCHANGED <<phone, left>>

\* T3169 and T3195, which outlive the handset's T3180 and T3190 and the queue of the CCCH.
\* Without Gaps they do not end in the very pass of the loop in which the handset has lost
\* its channels to a new request.
DeadExpires(t) ==
    /\ Is(t, {"Dead"})
    /\ mac.tbf[t].tfi = None \/ phone[mac.tbf[t].ms][mac.tbf[t].dir] # mac.tbf[t].tfi
    /\ mac.tbf[t].msg # "Queued"
    /\ ~Gaps /\ mac.tbf[t].attached => Ch(mac, t) # None
    /\ IF mac.tbf[t].attached THEN mac' = Detach(mac, t)
       ELSE ~Pending(mac, t) /\ mac' = Delete(mac, t)
    /\ UNCHANGED <<phone, left>>

Forget(t) ==
    /\ Is(t, {"Deleting"}) /\ ~Pending(mac, t)
    /\ mac' = Delete(mac, t)
    /\ UNCHANGED <<phone, left>>

\* After 5 s a reserved USF is nobody's.
UsfExpires(p, u) ==
    /\ mac.usf[p][u].dead
    /\ mac' = [mac EXCEPT !.usf[p][u] = [ms |-> None, dead |-> FALSE]]
    /\ UNCHANGED <<phone, left>>

-----------------------------------------------------------------------------
(* What comes from the handsets.                                           *)

Answered(s, t) == [s EXCEPT !.tbf[t].msg = None]

\* A control acknowledgement, in the reserved block.
Acknowledges(t) ==
    /\ mac.tbf[t] # None /\ mac.tbf[t].msg \in Messages \ {"Data"}
    /\ mac' = [Answered(mac, t) EXCEPT !.tbf[t].acked =
                  <<mac.tbf[t].msg, mac.tbf[t].state>> \in
                      {<<"Assign", "Waiting1">>, <<"Final", "Final">>, <<"Release", "Release">>}]
    /\ UNCHANGED <<phone, left>>

Asking(ph, p) == [ph EXCEPT !.asks = TRUE, !.ch = p]

MayAsk(m) == m \in Uplinkers /\ left.asks > 0 /\ ~phone[m].asks /\ phone[m].Up = None

\* The final acknack is answered with a request for a new TBF.
AsksAgain(t) ==
    LET m == mac.tbf[t].ms
    IN /\ mac.tbf[t] # None /\ mac.tbf[t].msg = "Final" /\ MayAsk(m) /\ Room(mac)
       /\ mac' = NewUpTBF([Answered(mac, t) EXCEPT !.tbf[t].acked = mac.tbf[t].state = "Final"], m)
       /\ phone' = [phone EXCEPT ![m] = Asking(@, Ch(mac, t))]
       /\ left' = [left EXCEPT !.asks = @ - 1]

\* A downlink acknack, the last or not, with a request for an uplink TBF or without: it is
\* for whatever TBF has the TFI.
AckNack(t) ==
    LET m == mac.tbf[t].ms
        s == Answered(mac, t)
        r == mac.tfi[phone[m].Down]
        known == r # None /\ s.tbf[r] # None
    IN /\ mac.tbf[t] # None /\ mac.tbf[t].msg = "Data" /\ phone[m].Down # None
       /\ \E last, asks \in BOOLEAN :
            LET g == IF known /\ last THEN [s EXCEPT !.tbf[r].state = "Finished"] ELSE s
                ph == IF asks THEN Asking(phone[m], phone[m].ch) ELSE phone[m]
            IN /\ asks => MayAsk(m) /\ Room(mac)
               /\ mac' = IF known /\ asks THEN NewUpTBF(g, s.tbf[r].ms) ELSE g
               /\ phone' = [phone EXCEPT ![m] = IF last THEN Out(ph, "Down") ELSE ph]
               /\ left' = [left EXCEPT !.asks = IF asks THEN @ - 1 ELSE @]

\* The reserved block has passed without an answer.
PollPasses(t) ==
    /\ mac.tbf[t] # None /\ mac.tbf[t].msg \in Messages
    /\ mac' = Answered(mac, t)
    /\ UNCHANGED <<phone, left>>

\* The handset has a block to answer in, which comes before any of its timers ends.
Owes(m) ==
    \E t \in Tbfs : mac.tbf[t] # None /\ mac.tbf[t].ms = m /\ mac.tbf[t].msg \in Messages

\* The handset leaves a TBF (T3180, T3190), or gives up its request (T3168).
Leaves(m, dir) ==
    /\ phone[m][dir] # None /\ ~Owes(m)
    /\ phone' = [phone EXCEPT ![m] = Out(@, dir)]
    /\ UNCHANGED <<mac, left>>

GivesUp(m) ==
    /\ phone[m].asks /\ ~Owes(m)
    /\ phone' = [phone EXCEPT ![m] = Out([@ EXCEPT !.asks = FALSE], "Up")]
    /\ UNCHANGED <<mac, left>>

\* processUplinkResourceRequest for a handset in idle mode that came by way of the RACH.
\* Without Gaps it does not do so while its last request is still being answered.
Rach(m, p) ==
    /\ MayAsk(m) /\ phone[m].Down = None /\ ~Owes(m) /\ Room(mac)
    /\ Gaps \/ Those(mac, m, "Up", {"Ready", "Waiting1"}) = {}
    /\ phone' = [phone EXCEPT ![m] = Asking(@, p)]
    /\ LET s == [mac EXCEPT !.ms[m].t3168 = TRUE]
           downs == Those(s, m, "Down", Active)
           ups == Those(s, m, "Up", Transmitting)
           rest == [left EXCEPT !.asks = @ - 1]
       IN IF downs = {} /\ ups = {}
          THEN /\ mac' = NewUpTBF([s EXCEPT !.ms[m].ch = None, !.ms[m].pacch = p], m)
               /\ left' = rest
          ELSE \E u \in IF ups = {} THEN {None} ELSE ups :
                 LET c == IF u = None THEN s ELSE Cancel(s, u)
                 IN IF downs \cap Those(s, m, "Down", Transmitting) = {} THEN mac' = c /\ left' = rest
                    ELSE \E d \in downs : Retry(Cancel(c, d), d, rest)

-----------------------------------------------------------------------------
Next ==
    \/ \E m \in Handsets :
         \/ Arrive(m) \/ StartDown(m) \/ NonResponsive(m) \/ GivesUp(m)
         \/ \E dir \in {"Up", "Down"} : Leaves(m, dir)
         \/ \E p \in Pdchs : Rach(m, p)
    \/ \E t \in Tbfs :
         \/ Attach(t) \/ SendAssignment(t) \/ CcchSends(t) \/ Begin(t)
         \/ Poll(t) \/ DownFails(t) \/ UpEnds(t) \/ UpFails(t) \/ SendFinal(t) \/ SendRelease(t)
         \/ FinishedDetaches(t) \/ DeadExpires(t) \/ Forget(t)
         \/ Acknowledges(t) \/ AsksAgain(t) \/ AckNack(t) \/ PollPasses(t)
    \/ \E p \in Pdchs, u \in Usfs : UsfExpires(p, u)

Spec == Init /\ [][Next]_vars

\* What the loop, the CCCH and time do in the end: a transfer ends in one way or the other
\* (RLCDown), and a handset leaves a TBF in which nothing more comes.  Assignments and polls
\* may repeat; nothing depends on their being sent.
Progress ==
    \/ \E t \in Tbfs :
         \/ Attach(t) \/ Begin(t) \/ DownFails(t) \/ SendFinal(t) \/ SendRelease(t)
         \/ FinishedDetaches(t) \/ DeadExpires(t) \/ Forget(t)
         \/ ~Is(t, {"Waiting1", "Transmit"}) /\ (CcchSends(t) \/ PollPasses(t))
    \/ \E m \in Handsets :
         \/ NonResponsive(m)
         \/ \E dir \in {"Up", "Down"} : Those(mac, m, dir, Active) = {} /\ Leaves(m, dir)
    \/ \E p \in Pdchs, u \in Usfs : UsfExpires(p, u)

Fairness == WF_vars(Progress)

FairSpec == Spec /\ Fairness

-----------------------------------------------------------------------------
(* Properties.                                                             *)

\* A handset has at most one active TBF in each direction, but for an uplink one that is
\* about to end, however requests, retries and PDUs come together.
OneActive ==
    \A m \in Handsets : \A dir \in {"Up", "Down"} :
        LET T == Those(mac, m, dir, Active \ (IF dir = "Up" THEN {"Final"} ELSE {}))
        IN \A t, u \in T : t = u

\* The TFI of an attached TBF, be it dead, leads to it, and the list of TFIs leads to
\* nothing but TBFs that exist and hold them, whatever became of the channels by way of
\* which they are set and freed (propagateTFI).
TfisAgree ==
    \A f \in Tfis, t \in Tbfs :
        /\ mac.tfi[f] = t => mac.tbf[t] # None /\ mac.tbf[t].tfi = f
        /\ mac.tbf[t] # None /\ mac.tbf[t].attached /\ mac.tbf[t].tfi = f => mac.tfi[f] = t

\* While a handset takes a TFI for its own no other handset has it.
NoCrossTalk ==
    \A m \in Handsets : \A dir \in {"Up", "Down"} :
        LET f == phone[m][dir]
        IN f # None /\ mac.tfi[f] # None =>
              mac.tbf[mac.tfi[f]] # None /\ mac.tbf[mac.tfi[f]].ms = m

\* Every TBF ends and is deleted, and with the last of them every TFI and USF is free again.
AllIsReturned ==
    <>[] /\ \A t \in Tbfs : mac.tbf[t] = None
         /\ \A f \in Tfis : mac.tfi[f] = None
         /\ \A p \in Pdchs, u \in Usfs : mac.usf[p][u].ms = None
=============================================================================
