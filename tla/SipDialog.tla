----------------------------- MODULE SipDialog -----------------------------
(* The SIP side of one call: an INVITE dialog of OpenBTS, the transaction     *)
(* users that carry its BYE and its CANCEL, and the other user agent.         *)
(* Between them is UDP, which loses, reorders and (by resending) repeats.     *)
EXTENDS Integers, Sequences, FiniteSets

CONSTANT MaxFaults  \* bound: lost datagrams and failed assignments in one behaviour

ASSUME MaxFaultsAssumption == MaxFaults \in Nat

VARIABLES
    dir,        \* "MO": the handset calls (SIPDTMOC); "MT": it is called (SIPDTMTC)
    sip,        \* the dialog, see NoDialog
    toBts,      \* the datagrams on their way to OpenBTS
    peer,       \* the other user agent
    faults      \* the number of these so far

SipStates ==
    {"SSNullState", "Starting", "Proceeding", "Ringing", "Connecting", "Active",
     "MODClearing", "MODCanceling", "MTDClearing", "MTDCanceling", "Canceled",
     "Cleared", "MOCBusy", "MODError", "SSFail"}
DialogStates == {"Undefined", "Started", "Proceeding", "Ringing", "Active", "Bye", "Fail"}
Requests == {"INVITE", "ACK", "CANCEL", "BYE"}
Replies == {"Trying", "Ringing", "OK", "Busy", "Error", "CancelOk", "ByeOk"}
Messages == Requests \cup Replies
Outgoing == Messages \cup {"NotFound"}
KillTimers == {"BF", "H", "J"}
Methods == {"CANCEL", "BYE"}
CalleeStates == {"none", "invited", "ringing", "answered", "Busy", "Error", "talking", "bye", "refused", "over"}
CallerStates == {"none", "calling", "proceeding", "canceling", "canceled", "talking", "bye", "refused", "over"}

\* state, prev: mState and mPrevDialogState; mapped: the dialog is in
\* mDialogMap, tagged: under the key with its local tag; last: mtLastResponse;
\* tu: the SipMOCancelTU and the SipMOByeTU; tran: a transaction is found by
\* mTranId; inbox: its mTranInbox; out: the datagrams on their way to the peer.
NoDialog ==
    [state |-> "SSNullState", prev |-> "Undefined", timers |-> {}, mapped |-> FALSE,
     tagged |-> FALSE, last |-> "none", tu |-> [m \in Methods |-> "none"],
     tran |-> FALSE, inbox |-> <<>>, out |-> {}]

Dialogs ==
    [state : SipStates, prev : DialogStates, timers : SUBSET KillTimers,
     mapped : BOOLEAN, tagged : BOOLEAN, last : Replies \cup {"none"},
     tu : [Methods -> {"none", "calling", "done"}],
     tran : BOOLEAN, inbox : Seq(DialogStates), out : SUBSET Outgoing]

SipTypeOK ==
    /\ dir \in {"MO", "MT"}
    /\ sip \in Dialogs
    /\ toBts \subseteq Messages
    /\ peer \in IF dir = "MO" THEN CalleeStates ELSE CallerStates
    /\ faults \in 0 .. MaxFaults

-----------------------------------------------------------------------------
(* What the dialog does, as functions of the dialog.                         *)

getDialogState(s) ==
    CASE s = "SSNullState" -> "Undefined"
      [] s = "Starting" -> "Started"
      [] s \in {"Proceeding", "Connecting"} -> "Proceeding"
      [] s \in {"Ringing", "Active"} -> s
      [] s \in {"MODClearing", "MODCanceling", "MTDClearing", "MTDCanceling", "Canceled", "Cleared"} -> "Bye"
      [] s \in {"MOCBusy", "MODError", "SSFail"} -> "Fail"

sipIsFinished(d) ==
    d.state \in {"Cleared", "MODClearing", "MTDClearing", "Canceled", "MODCanceling",
                 "MTDCanceling", "SSFail", "MODError"}

\* The answer to isFinished of SipDialog, which counts MOCBusy in.
isFinished(d) == getDialogState(d.state) \in {"Bye", "Fail"}

permittedTransitionButNext(old, new) ==
    LET Rank == [Undefined |-> 0, Started |-> 1, Proceeding |-> 2, Ringing |-> 3,
                 Active |-> 4, Bye |-> 5, Fail |-> 6]
    IN  Rank[new] > Rank[old] + 1
permittedTransition(old, new) ==
    LET Rank == [Undefined |-> 0, Started |-> 1, Proceeding |-> 2, Ringing |-> 3,
                 Active |-> 4, Bye |-> 5, Fail |-> 6]
    IN  Rank[new] > Rank[old] \/ (new = old /\ new \in {"Proceeding", "Ringing"})

dialogPushState(d, s) ==
    LET new == getDialogState(s)
        told == d.tran /\ permittedTransition(d.prev, new)
    IN  IF new = "Started" THEN [d EXCEPT !.state = s]
        ELSE [d EXCEPT !.state = s, !.prev = new,
                       !.inbox = IF told THEN Append(@, new) ELSE @]

sipWrite(d, m) == [d EXCEPT !.out = @ \cup {m}]
mtWriteLowSide(d, m) == [sipWrite(d, m) EXCEPT !.last = m]

MOCSendINVITE(d) ==
    [sipWrite(d, "INVITE") EXCEPT !.state = "Starting", !.timers = @ \cup {"BF"}]

SendInDialogOnce(d, m, s) == [sipWrite(d, m) EXCEPT !.state = s]
SendInDialog(d, m, s) == [sipWrite(d, m) EXCEPT !.state = s, !.tu[m] = "calling"]
MODSendBYE(d) == SendInDialog(d, "BYE", "MODClearing")
MODSendCANCEL(d) == SendInDialog(d, "CANCEL", "MODCanceling")

MTCSendTrying(d) ==
    IF d.state = "SSFail" THEN d
    ELSE [mtWriteLowSide(d, "Trying") EXCEPT !.state = "Proceeding"]
MTCSendRinging(d) ==
    IF d.state = "SSFail" THEN d
    ELSE [mtWriteLowSide(d, "Ringing") EXCEPT !.state = "Proceeding"]
MTCSendOK(d) ==
    [mtWriteLowSide(d, "OK") EXCEPT !.state = "Connecting", !.timers = @ \cup {"H"}]
MTCEarlyError(d) ==
    [mtWriteLowSide(d, "Error") EXCEPT !.state = "MODError", !.timers = @ \cup {"H"}]

\* cause is "normal" for Normal_Call_Clearing and "other" for the others.
dialogCancel(d, cause) ==
    CASE sipIsFinished(d) -> d
      [] ~sipIsFinished(d) /\ d.state = "Active" -> MODSendBYE(d)
      [] ~sipIsFinished(d) /\ d.state # "Active" /\ dir = "MO" -> MODSendCANCEL(d)
      [] ~sipIsFinished(d) /\ d.state # "Active" /\ dir = "MT" ->
            IF cause = "normal" THEN MODSendBYE(MTCSendOK(d)) ELSE MTCEarlyError(d)

SipMTEndDeaf(d, m) == sipWrite(d, IF m = "BYE" THEN "ByeOk" ELSE "CancelOk")
SipMTEnd(d, m) ==
    LET s == IF m = "BYE" THEN "MTDClearing" ELSE "MTDCanceling"
        ok == IF m = "BYE" THEN "ByeOk" ELSE "CancelOk"
    IN  [dialogPushState(sipWrite(d, ok), s) EXCEPT !.timers = @ \cup {"J"}]

handleInviteResponse(d, m) ==
    CASE m = "Trying" -> dialogPushState(d, "Proceeding")
      [] m = "Ringing" -> dialogPushState(d, "Ringing")
      [] m = "OK" -> dialogPushState(d, "Active")
      [] m = "Busy" -> sipWrite(dialogPushState(d, "MOCBusy"), "ACK")
      [] m = "Error" -> sipWrite(dialogPushState(d, "SSFail"), "ACK")

stopTimers(d) == [d EXCEPT !.timers = @ \ {"BF", "H"}]

\* A reply to the INVITE of an MO dialog.
MOWriteHighSide(d, m) == handleInviteResponse(stopTimers(d), m)

\* A repeated INVITE, or the ACK, of an MT dialog.
MTWriteHighSide(d, m) ==
    CASE m = "INVITE" -> IF d.last = "none" THEN MTCSendTrying(d) ELSE sipWrite(d, d.last)
      [] m = "ACK" /\ d.state \in {"SSNullState", "Proceeding", "Connecting"} ->
            stopTimers([dialogPushState(d, "Active") EXCEPT !.tagged = TRUE])
      [] m = "ACK" /\ d.state \notin {"SSNullState", "Proceeding", "Connecting"} -> stopTimers(d)

\* The final answer to a BYE or a CANCEL reaches its transaction user.
TUWriteHighSide(d, m) ==
    IF d.tu[m] # "calling" THEN d
    ELSE LET s == IF m = "BYE" THEN "Cleared" ELSE "Canceled"
         IN  [dialogPushState(d, s) EXCEPT !.tu[m] = "done"]

-----------------------------------------------------------------------------
(* OpenBTS's SIP threads.                                                    *)

\* Nothing is under way: the half second after which a datagram is repeated, and
\* the half minute that BF, H, J and the patience of the other side last, are
\* longer than what is under way takes.
Quiet == sip.out = {} /\ toBts = {}

\* createMTTransaction, or the refusal by one who is busy.
NewMT(d) == [MTCSendTrying(d) EXCEPT !.tran = TRUE]
Refused(d) == dialogCancel(d, "other")

\* A datagram of this call that finds no dialog: a request is answered 404 (an
\* INVITE is another call, and not followed here), a reply is dropped.  It is
\* all the same to a CANCEL how it is answered.
NoSuchDialog(d, m) ==
    CASE m = "BYE" -> sipWrite(d, "NotFound")
      [] m = "CANCEL" -> sipWrite(d, "CancelOk")
      [] m \notin Methods -> d

\* The dialog that findDialogByMsg returns.  A CANCEL or an INVITE bears no local
\* tag, the other messages do; a dialog that OpenBTS did not start has none in
\* its key until the ACK, which alone is looked up without it as well.
Found(d, m) ==
    /\ d.mapped
    /\ m \in {"INVITE", "CANCEL"} => ~d.tagged
    /\ m = "BYE" /\ dir = "MT" => d.tagged

newDriveIncoming(m) ==
    /\ m \in toBts
    /\ m # "INVITE" \/ sip.mapped \/ sip.last # "none"  \* the first INVITE: handleInvite
    /\ toBts' = toBts \ {m}
    /\ sip' = CASE m = "CancelOk" -> TUWriteHighSide(sip, "CANCEL")
                [] m = "ByeOk" -> TUWriteHighSide(sip, "BYE")
                [] m \in Methods /\ Found(sip, m) -> SipMTEnd(sip, m)
                [] m \in Messages \ (Methods \cup {"CancelOk", "ByeOk"}) /\ Found(sip, m) ->
                      IF dir = "MO" THEN MOWriteHighSide(sip, m) ELSE MTWriteHighSide(sip, m)
                [] m \notin {"CancelOk", "ByeOk"} /\ ~Found(sip, m) -> NoSuchDialog(sip, m)
    /\ UNCHANGED <<dir, peer, faults>>

\* moPeriodicService and mtPeriodicService, a disjunct for each branch.  Timer
\* G does not survive its first expiry, which finds the dialog neither Active
\* nor SSFail: the last response is not repeated.  Timer K only puts off the
\* removal of a finished dialog; timer J of an MO dialog is not looked at.
TimerA ==
    /\ sip.mapped /\ sip.state = "Starting"
    /\ sip' = sipWrite(sip, "INVITE")
Running == sip.timers \cap (IF dir = "MO" THEN {"BF"} ELSE {"H", "J"})
KillTimer ==
    /\ sip.mapped /\ Running # {} /\ Quiet
    /\ sip' = [dialogPushState(stopTimers(sip), "SSFail") EXCEPT !.mapped = FALSE]
RemoveFinished ==
    /\ sip.mapped /\ sipIsFinished(sip) /\ Running = {}
    /\ sip' = [sip EXCEPT !.mapped = FALSE]

\* TLPeriodicServiceV of the transaction user of a BYE or CANCEL.
TUsDone == \A m \in Methods : sip.tu[m] # "calling"
TUResend(m) == sip.tu[m] = "calling" /\ sip' = sipWrite(sip, m)
TUTimeout(m) ==
    /\ sip.tu[m] = "calling" /\ Quiet
    /\ sip' = [dialogPushState(sip, "SSFail") EXCEPT !.tu[m] = "done"]

Repetition ==
    /\ Quiet /\ (TimerA \/ \E m \in Methods : TUResend(m))
    /\ UNCHANGED <<dir, toBts, peer, faults>>
Deadline ==
    /\ KillTimer \/ \E m \in Methods : TUTimeout(m)
    /\ UNCHANGED <<dir, toBts, peer, faults>>
Removal == RemoveFinished /\ UNCHANGED <<dir, toBts, peer, faults>>

PeriodicService == Repetition \/ Deadline \/ Removal

-----------------------------------------------------------------------------
(* The other user agent and the network: external, as RFC 3261 has them.     *)

Says(s, ms) ==
    /\ peer' = s /\ toBts' = toBts \cup ms
    /\ UNCHANGED <<dir, sip, faults>>
Hears(m, s, ms) ==
    /\ m \in sip.out
    /\ sip' = [sip EXCEPT !.out = @ \ {m}]
    /\ peer' = s /\ toBts' = toBts \cup ms
    /\ UNCHANGED <<dir, faults>>

\* The answer a callee repeats to a repeated INVITE, and by itself if final.
Answer == CASE peer = "ringing" -> {"Ringing"} [] peer = "answered" -> {"OK"}
            [] peer = "invited" -> {"Trying"} [] peer \in {"Busy", "Error"} -> {peer}
            [] OTHER -> {}

\* Reception of a datagram, with what follows by itself.
CalleeHears ==
    /\ dir = "MO"
    /\ \/ Hears("INVITE", IF peer = "none" THEN "invited" ELSE peer,
                IF peer = "none" THEN {"Trying"} ELSE Answer)
       \/ Hears("ACK", CASE peer = "answered" -> "talking" [] peer \in {"Busy", "Error"} -> "over"
                         [] OTHER -> peer, {})
       \/ IF peer \in {"invited", "ringing"} THEN Hears("CANCEL", "Error", {"CancelOk", "Error"})
          ELSE Hears("CANCEL", peer, {"CancelOk"})
CallerHears ==
    /\ dir = "MT"
    /\ \/ \E m \in {"Trying", "Ringing"} :
              Hears(m, IF peer = "calling" THEN "proceeding" ELSE peer, {})
       \/ peer \in {"calling", "proceeding"} /\ Hears("OK", "talking", {"ACK"})
       \/ peer \in {"talking", "bye", "refused", "over"} /\ Hears("OK", peer, {"ACK"})
       \/ peer \in {"canceling", "canceled"} /\ Hears("OK", "bye", {"ACK", "BYE"})
       \/ Hears("Error", IF peer \in {"talking", "bye"} THEN peer ELSE "over", {"ACK"})
       \/ Hears("CancelOk", IF peer = "canceling" THEN "canceled" ELSE peer, {})
EitherHears ==
    \/ Hears("BYE", "over", {"ByeOk"})
    \/ Hears("ByeOk", IF peer = "bye" THEN "over" ELSE peer, {})
    \/ Hears("NotFound", IF peer = "bye" THEN "refused" ELSE peer, {})

\* Its timers: it repeats what has not been answered, and gives up in the end.
Unanswered ==
    CASE peer = "calling" -> {"INVITE"} [] peer = "canceling" -> {"CANCEL"}
      [] peer = "bye" -> {"BYE"} [] peer \in {"answered", "Busy", "Error"} -> Answer
      [] OTHER -> {}
PeerRepeats ==
    /\ Quiet /\ Unanswered # {} /\ toBts' = Unanswered
    /\ UNCHANGED <<dir, sip, peer, faults>>
PeerGivesUp ==
    /\ Quiet
    /\ \/ peer = "answered" /\ Says("bye", {"BYE"})
       \/ peer \in {"Busy", "Error"} /\ Says("over", {})
       \/ peer \in {"calling", "canceling"} /\ Says("canceled", {})

\* Its user.
PeerUser ==
    \/ dir = "MT" /\ peer = "none" /\ Says("calling", {"INVITE"})
    \/ peer = "proceeding" /\ Says("canceling", {"CANCEL"})
    \/ peer = "invited" /\ Says("ringing", {"Ringing"})
    \/ peer \in {"invited", "ringing"} /\ Says("answered", {"OK"})
    \/ peer \in {"invited", "ringing"} /\ \E e \in {"Busy", "Error"} : Says(e, {e})
    \/ peer = "talking" /\ Says("bye", {"BYE"})

PeerHears == CalleeHears \/ CallerHears \/ EitherHears
PeerTimers == PeerRepeats \/ PeerGivesUp
Peer == PeerHears \/ PeerTimers \/ PeerUser

Lose ==
    /\ faults < MaxFaults /\ faults' = faults + 1
    /\ \/ \E m \in toBts : toBts' = toBts \ {m} /\ UNCHANGED sip
       \/ \E m \in sip.out : sip' = [sip EXCEPT !.out = @ \ {m}] /\ UNCHANGED toBts
    /\ UNCHANGED <<dir, peer>>
=============================================================================
