------------------------------ MODULE Call_proofs ------------------------------
(* Theorems about Call, for any number of faults.                           *)
EXTENDS Call, TLAPS

-----------------------------------------------------------------------------
(* Sequences of frames and of messages.                                      *)

HasAny(s, X) == \E i \in 1..Len(s) : s[i] \in X

(* Nothing of Y comes behind something of X.                                *)
Closes(s, X, Y) == \A i, j \in 1..Len(s) : i < j /\ s[i] \in X => s[j] \notin Y

LEMMA HasAppend ==
  ASSUME NEW S, NEW q \in Seq(S), NEW x \in S, NEW X
  PROVE  HasAny(Append(q, x), X) <=> HasAny(q, X) \/ x \in X
<1> /\ Len(q) \in Nat /\ Len(Append(q, x)) = Len(q) + 1
    /\ Append(q, x)[Len(q) + 1] = x /\ \A i \in 1..Len(q) : Append(q, x)[i] = q[i]
  OBVIOUS
<1> QED
  BY DEF HasAny

LEMMA HasTail ==
  ASSUME NEW S, NEW q \in Seq(S), q # <<>>, NEW X
  PROVE  HasAny(q, X) <=> HasAny(Tail(q), X) \/ Head(q) \in X
<1> /\ Len(q) \in Nat \ {0} /\ Len(Tail(q)) = Len(q) - 1 /\ Head(q) = q[1]
    /\ \A i \in 1..Len(q) - 1 : Tail(q)[i] = q[i + 1]
  OBVIOUS
<1>1. ASSUME HasAny(q, X) PROVE HasAny(Tail(q), X) \/ Head(q) \in X
  <2>1. PICK i \in 1..Len(q) : q[i] \in X
    BY <1>1 DEF HasAny
  <2>2. i # 1 => i - 1 \in 1..Len(Tail(q)) /\ Tail(q)[i - 1] = q[i]
    OBVIOUS
  <2>3. QED
    BY <2>1, <2>2 DEF HasAny
<1>2. ASSUME HasAny(Tail(q), X) PROVE HasAny(q, X)
  <2>1. PICK i \in 1..Len(Tail(q)) : Tail(q)[i] \in X
    BY <1>2 DEF HasAny
  <2>2. i + 1 \in 1..Len(q) /\ q[i + 1] \in X
    BY <2>1
  <2>3. QED
    BY <2>2 DEF HasAny
<1>3. Head(q) \in X => HasAny(q, X)
  BY DEF HasAny
<1>4. QED
  BY <1>1, <1>2, <1>3

LEMMA HasNone ==
  ASSUME NEW X
  PROVE  ~HasAny(<<>>, X)
BY DEF HasAny

LEMMA ClosesAppend ==
  ASSUME NEW S, NEW q \in Seq(S), NEW x \in S, NEW X, NEW Y,
         Closes(q, X, Y), x \in Y => ~HasAny(q, X)
  PROVE  Closes(Append(q, x), X, Y)
<1> DEFINE r == Append(q, x)
<1>1. /\ Len(q) \in Nat /\ Len(r) = Len(q) + 1
      /\ r[Len(q) + 1] = x /\ \A i \in 1..Len(q) : r[i] = q[i]
  OBVIOUS
<1> HIDE DEF r
<1>2. ASSUME NEW i \in 1..Len(r), NEW j \in 1..Len(r), i < j, r[i] \in X PROVE r[j] \notin Y
  <2>1. i \in 1..Len(q) /\ q[i] \in X
    BY <1>1, <1>2
  <2>2. CASE j = Len(q) + 1
    BY <1>1, <2>1, <2>2 DEF HasAny
  <2>3. CASE j # Len(q) + 1
    <3>1. j \in 1..Len(q) /\ r[j] = q[j]
      BY <1>1, <2>3
    <3>2. QED
      BY <1>2, <2>1, <3>1 DEF Closes
  <2>4. QED
    BY <2>2, <2>3
<1>3. QED
  BY <1>2 DEF Closes, r

LEMMA ClosesTail ==
  ASSUME NEW S, NEW q \in Seq(S), q # <<>>, NEW X, NEW Y, Closes(q, X, Y)
  PROVE  /\ Closes(Tail(q), X, Y)
         /\ Head(q) \in X => ~HasAny(Tail(q), Y)
<1> DEFINE r == Tail(q)
<1>1. /\ Len(q) \in Nat \ {0} /\ Len(r) = Len(q) - 1 /\ Head(q) = q[1]
      /\ \A i \in 1..Len(q) - 1 : r[i] = q[i + 1]
  OBVIOUS
<1> HIDE DEF r
<1>2. ASSUME NEW i \in 1..Len(r), NEW j \in 1..Len(r), i < j, r[i] \in X PROVE r[j] \notin Y
  <2>1. i + 1 \in 1..Len(q) /\ j + 1 \in 1..Len(q) /\ i + 1 < j + 1 /\ r[i] = q[i + 1] /\ r[j] = q[j + 1]
    BY <1>1, <1>2
  <2>2. QED
    BY <1>2, <2>1 DEF Closes
<1>3. ASSUME Head(q) \in X, HasAny(r, Y) PROVE FALSE
  <2>1. PICK j \in 1..Len(r) : r[j] \in Y
    BY <1>3 DEF HasAny
  <2>2. 1 \in 1..Len(q) /\ j + 1 \in 1..Len(q) /\ 1 < j + 1 /\ q[j + 1] = r[j]
    BY <1>1
  <2>3. QED
    BY <1>1, <1>3, <2>1, <2>2 DEF Closes
<1>4. QED
  BY <1>2, <1>3 DEF Closes, r

LEMMA ClosesNone ==
  ASSUME NEW X, NEW Y
  PROVE  Closes(<<>>, X, Y)
BY DEF Closes

-----------------------------------------------------------------------------
(* The functions of the dialog.                                              *)

Finished == {"MODClearing", "MODCanceling", "MTDClearing", "MTDCanceling", "Canceled",
             "Cleared", "MOCBusy", "MODError", "SSFail"}
Final == {"Bye", "Fail"}

LEMMA StateTable ==
  /\ getDialogState("SSNullState") = "Undefined"
  /\ getDialogState("Starting") = "Started"
  /\ getDialogState("Proceeding") = "Proceeding" /\ getDialogState("Connecting") = "Proceeding"
  /\ getDialogState("Ringing") = "Ringing" /\ getDialogState("Active") = "Active"
  /\ \A s \in SipStates : getDialogState(s) \in DialogStates
  /\ \A s \in SipStates : s # "Starting" => getDialogState(s) # "Started"
  /\ \A s \in SipStates : s # "Active" => getDialogState(s) # "Active"
  /\ \A s \in SipStates : getDialogState(s) \in Final <=> s \in Finished
BY DEF SipStates, getDialogState, DialogStates, Finished, Final

LEMMA Ends ==
  ASSUME NEW d \in Dialogs
  PROVE  /\ isFinished(d) <=> d.state \in Finished
         /\ sipIsFinished(d) <=> d.state \in Finished \ {"MOCBusy"}
<1>1. d.state \in SipStates
  BY DEF Dialogs
<1>2. QED
  BY <1>1, StateTable DEF isFinished, sipIsFinished, Finished, Final

(* What dialogPushState does to a dialog.                                   *)
Pushed(d, e, s) ==
    /\ e.state = s /\ e.prev = getDialogState(s)
    /\ e.last = d.last /\ e.tran = d.tran
    /\ ~d.tran => e.inbox = d.inbox
    /\ HasAny(d.inbox, Final) => HasAny(e.inbox, Final)
    /\ d.tran /\ s \in Finished /\ (d.prev \in Final => HasAny(d.inbox, Final)) => HasAny(e.inbox, Final)
    /\ s # "Active" /\ ~HasAny(d.inbox, {"Active"}) => ~HasAny(e.inbox, {"Active"})

LEMMA Pushes ==
  ASSUME NEW d \in Dialogs, NEW s \in SipStates \ {"Starting"}
  PROVE  LET e == dialogPushState(d, s) IN
         /\ e \in Dialogs /\ Pushed(d, e, s)
         /\ e.mapped = d.mapped /\ e.tagged = d.tagged /\ e.tu = d.tu /\ e.out = d.out
         /\ e.timers = d.timers
<1> DEFINE n == getDialogState(s)
           q == IF d.tran /\ permittedTransition(d.prev, n) THEN Append(d.inbox, n) ELSE d.inbox
<1>1. n \in DialogStates /\ n # "Started" /\ (n \in Final <=> s \in Finished) /\ (s # "Active" => n # "Active")
  BY StateTable
<1>2. d.inbox \in Seq(DialogStates) /\ d.prev \in DialogStates /\ d.tran \in BOOLEAN
  BY DEF Dialogs
<1>3. dialogPushState(d, s) = [d EXCEPT !.state = s, !.prev = n, !.inbox = q]
  BY <1>1 DEF dialogPushState, Dialogs
<1>4. q \in Seq(DialogStates)
  BY <1>1, <1>2
<1>5. n \in Final => permittedTransition(d.prev, n) \/ d.prev \in Final
  BY <1>2 DEF permittedTransition, Final, DialogStates
<1>6. /\ ~d.tran => q = d.inbox
      /\ HasAny(d.inbox, Final) => HasAny(q, Final)
      /\ d.tran /\ n \in Final /\ (d.prev \in Final => HasAny(d.inbox, Final)) => HasAny(q, Final)
      /\ n # "Active" /\ ~HasAny(d.inbox, {"Active"}) => ~HasAny(q, {"Active"})
  BY <1>1, <1>2, <1>5, HasAppend
<1> HIDE DEF n, q
<1>7. dialogPushState(d, s) \in Dialogs
  BY <1>1, <1>3, <1>4 DEF Dialogs
<1>8. Pushed(d, dialogPushState(d, s), s)
  BY <1>1, <1>3, <1>6 DEF Dialogs, Pushed, n
<1>9. /\ dialogPushState(d, s).mapped = d.mapped /\ dialogPushState(d, s).tagged = d.tagged
      /\ dialogPushState(d, s).tu = d.tu /\ dialogPushState(d, s).out = d.out
      /\ dialogPushState(d, s).timers = d.timers
  BY <1>3 DEF Dialogs
<1>10. QED
  BY <1>7, <1>8, <1>9


LEMMA WriteTyped ==
  ASSUME NEW d \in Dialogs, NEW m \in Messages
  PROVE  /\ sipWrite(d, m) \in Dialogs
         /\ m \in Replies => mtWriteLowSide(d, m) \in Dialogs
         /\ stopTimers(d) \in Dialogs /\ sipWrite(d, "NotFound") \in Dialogs
BY DEF sipWrite, mtWriteLowSide, stopTimers, Dialogs, Outgoing

LEMMA Words ==
  /\ Replies \subseteq Messages /\ Methods \subseteq Messages /\ Messages \subseteq Outgoing
  /\ {"INVITE", "ACK", "CANCEL", "BYE"} = Requests /\ Requests \subseteq Messages
  /\ "CANCEL" \in Methods /\ "BYE" \in Methods
  /\ \A r \in {"Trying", "Ringing", "OK", "Busy", "Error", "CancelOk", "ByeOk"} : r \in Replies
BY DEF Messages, Methods, Requests, Replies, Outgoing

LEMMA SendTyped ==
  ASSUME NEW d \in Dialogs
  PROVE  /\ MODSendBYE(d) \in Dialogs /\ MODSendCANCEL(d) \in Dialogs
         /\ MTCSendTrying(d) \in Dialogs /\ MTCSendRinging(d) \in Dialogs
         /\ MTCSendOK(d) \in Dialogs /\ MTCEarlyError(d) \in Dialogs /\ MOCSendINVITE(d) \in Dialogs
<1>1. /\ sipWrite(d, "BYE") \in Dialogs /\ sipWrite(d, "CANCEL") \in Dialogs /\ sipWrite(d, "INVITE") \in Dialogs
      /\ \A m \in {"Trying", "Ringing", "OK", "Error"} : mtWriteLowSide(d, m) \in Dialogs
  BY WriteTyped, Words
<1>2. MODSendBYE(d) \in Dialogs
  BY <1>1, Words DEF MODSendBYE, SendInDialog, Dialogs, SipStates
<1>3. MODSendCANCEL(d) \in Dialogs
  BY <1>1, Words DEF MODSendCANCEL, SendInDialog, Dialogs, SipStates
<1>4. MTCSendTrying(d) \in Dialogs /\ MTCSendRinging(d) \in Dialogs
  <2>1. CASE d.state = "SSFail"
    BY <2>1 DEF MTCSendTrying, MTCSendRinging
  <2>2. CASE d.state # "SSFail"
    <3>1. \A e \in Dialogs : [e EXCEPT !.state = "Proceeding"] \in Dialogs
      BY DEF Dialogs, SipStates
    <3>2. QED
      BY <1>1, <2>2, <3>1 DEF MTCSendTrying, MTCSendRinging
  <2>3. QED
    BY <2>1, <2>2
<1>5. MTCSendOK(d) \in Dialogs
  BY <1>1 DEF MTCSendOK, Dialogs, SipStates, KillTimers
<1>6. MTCEarlyError(d) \in Dialogs
  BY <1>1 DEF MTCEarlyError, Dialogs, SipStates, KillTimers
<1>7. MOCSendINVITE(d) \in Dialogs
  BY <1>1 DEF MOCSendINVITE, Dialogs, SipStates, KillTimers
<1>8. QED
  BY <1>2, <1>3, <1>4, <1>5, <1>6, <1>7

(* What dialogCancel leaves: a finished dialog, and what it has sent.       *)
Cancelled(d, e, cause) ==
    /\ e.prev = d.prev /\ e.mapped = d.mapped /\ e.tagged = d.tagged /\ e.tran = d.tran /\ e.inbox = d.inbox
    /\ \/ sipIsFinished(d) /\ e = d
       \/ /\ d.state = "Active" /\ e.state = "MODClearing" /\ e.tu = [d.tu EXCEPT !["BYE"] = "calling"]
          /\ e.out = d.out \cup {"BYE"} /\ e.last = d.last /\ e.timers = d.timers
       \/ /\ dir = "MO" /\ ~sipIsFinished(d) /\ d.state # "Active"
          /\ e.state = "MODCanceling" /\ e.tu = [d.tu EXCEPT !["CANCEL"] = "calling"]
          /\ e.out = d.out \cup {"CANCEL"} /\ e.last = d.last /\ e.timers = d.timers
       \/ /\ dir = "MT" /\ ~sipIsFinished(d) /\ d.state # "Active" /\ cause = "normal"
          /\ e.state = "MODClearing" /\ e.tu = [d.tu EXCEPT !["BYE"] = "calling"]
          /\ e.out = d.out \cup {"OK", "BYE"} /\ e.last = "OK" /\ e.timers = d.timers \cup {"H"}
       \/ /\ dir = "MT" /\ ~sipIsFinished(d) /\ d.state # "Active" /\ cause # "normal"
          /\ e.state = "MODError" /\ e.tu = d.tu
          /\ e.out = d.out \cup {"Error"} /\ e.last = "Error" /\ e.timers = d.timers \cup {"H"}

LEMMA Cancels ==
  ASSUME NEW d \in Dialogs, dir \in {"MO", "MT"}, NEW cause
  PROVE  dialogCancel(d, cause) \in Dialogs /\ Cancelled(d, dialogCancel(d, cause), cause)
<1> DEFINE e == dialogCancel(d, cause)
<1>1. CASE sipIsFinished(d)
  BY <1>1 DEF dialogCancel, Cancelled
<1>2. CASE ~sipIsFinished(d) /\ d.state = "Active"
  <2>1. e = MODSendBYE(d)
    BY <1>2 DEF dialogCancel
  <2>2. e \in Dialogs
    BY <2>1, SendTyped
  <2>3. Cancelled(d, e, cause)
    BY <1>2, <2>1 DEF Cancelled, MODSendBYE, SendInDialog, sipWrite, Dialogs
  <2>4. QED
    BY <2>2, <2>3
<1>3. CASE ~sipIsFinished(d) /\ d.state # "Active" /\ dir = "MO"
  <2>1. e = MODSendCANCEL(d)
    BY <1>3 DEF dialogCancel
  <2>2. e \in Dialogs
    BY <2>1, SendTyped
  <2>3. Cancelled(d, e, cause)
    BY <1>3, <2>1 DEF Cancelled, MODSendCANCEL, SendInDialog, sipWrite, Dialogs
  <2>4. QED
    BY <2>2, <2>3
<1>4. CASE ~sipIsFinished(d) /\ d.state # "Active" /\ dir = "MT" /\ cause = "normal"
  <2>1. e = MODSendBYE(MTCSendOK(d))
    BY <1>4 DEF dialogCancel
  <2>2. MTCSendOK(d) \in Dialogs /\ e \in Dialogs
    BY <2>1, SendTyped
  <2>3. Cancelled(d, e, cause)
    BY <1>4, <2>1 DEF Cancelled, MODSendBYE, SendInDialog, sipWrite, Dialogs, MTCSendOK, mtWriteLowSide
  <2>4. QED
    BY <2>2, <2>3
<1>5. CASE ~sipIsFinished(d) /\ d.state # "Active" /\ dir = "MT" /\ cause # "normal"
  <2>1. e = MTCEarlyError(d)
    BY <1>5 DEF dialogCancel
  <2>2. e \in Dialogs
    BY <2>1, SendTyped
  <2>3. Cancelled(d, e, cause)
    BY <1>5, <2>1 DEF Cancelled, sipWrite, Dialogs, MTCEarlyError, mtWriteLowSide
  <2>4. QED
    BY <2>2, <2>3
<1>6. QED
  BY <1>1, <1>2, <1>3, <1>4, <1>5

LEMMA MTEnds ==
  ASSUME NEW d \in Dialogs, NEW m \in Methods
  PROVE  LET e == SipMTEnd(d, m) IN
         /\ e \in Dialogs
         /\ Pushed(d, e, IF m = "BYE" THEN "MTDClearing" ELSE "MTDCanceling")
         /\ e.mapped = d.mapped /\ e.tagged = d.tagged /\ e.tu = d.tu
         /\ e.out = d.out \cup {IF m = "BYE" THEN "ByeOk" ELSE "CancelOk"}
<1> DEFINE ok == IF m = "BYE" THEN "ByeOk" ELSE "CancelOk"
           s == IF m = "BYE" THEN "MTDClearing" ELSE "MTDCanceling"
           w == sipWrite(d, ok)
           p == dialogPushState(w, s)
<1>1. w \in Dialogs
  BY WriteTyped, Words
<1>2. w = [d EXCEPT !.out = d.out \cup {ok}]
  BY DEF sipWrite, Dialogs
<1>3. s \in SipStates \ {"Starting"}
  BY DEF SipStates
<1>4. /\ p \in Dialogs /\ Pushed(w, p, s) /\ p.mapped = w.mapped /\ p.tagged = w.tagged
      /\ p.tu = w.tu /\ p.out = w.out
  BY <1>1, <1>3, Pushes
<1>5. SipMTEnd(d, m) = [p EXCEPT !.timers = p.timers \cup {"J"}]
  BY <1>4 DEF SipMTEnd, Dialogs
<1> HIDE DEF p, s, w, ok
<1>6. SipMTEnd(d, m) \in Dialogs
  <2>1. p.timers \cup {"J"} \in SUBSET KillTimers
    BY <1>4 DEF Dialogs, KillTimers
  <2>2. QED
    BY <1>4, <1>5, <2>1 DEF Dialogs
<1>7. Pushed(d, SipMTEnd(d, m), s)
  BY <1>2, <1>4, <1>5 DEF Pushed, Dialogs
<1>8. QED
  BY <1>2, <1>4, <1>5, <1>6, <1>7 DEF Dialogs, s, ok

LEMMA StopsTimers ==
  ASSUME NEW d \in Dialogs
  PROVE  /\ stopTimers(d) \in Dialogs
         /\ stopTimers(d) = [d EXCEPT !.timers = d.timers \ {"BF", "H"}]
BY WriteTyped DEF stopTimers, Dialogs

(* The state that a reply to the INVITE of a caller stands for.             *)
StateOf(m) ==
    CASE m = "Trying" -> "Proceeding" [] m = "Ringing" -> "Ringing" [] m = "OK" -> "Active"
      [] m = "Busy" -> "MOCBusy" [] m = "Error" -> "SSFail"

LEMMA MOReplies ==
  ASSUME NEW d \in Dialogs, NEW m \in {"Trying", "Ringing", "OK", "Busy", "Error"}
  PROVE  LET e == MOWriteHighSide(d, m) IN
         /\ e \in Dialogs /\ Pushed(d, e, StateOf(m))
         /\ e.mapped = d.mapped /\ e.tagged = d.tagged /\ e.tu = d.tu
         /\ e.out = d.out \cup (IF m \in {"Busy", "Error"} THEN {"ACK"} ELSE {})
<1> DEFINE w == stopTimers(d)
           p == dialogPushState(w, StateOf(m))
           r == IF m \in {"Busy", "Error"} THEN sipWrite(p, "ACK") ELSE p
<1>1. w \in Dialogs /\ w = [d EXCEPT !.timers = d.timers \ {"BF", "H"}]
  BY StopsTimers
<1>2. StateOf(m) \in SipStates \ {"Starting"}
  BY DEF SipStates, StateOf
<1>3. /\ p \in Dialogs /\ Pushed(w, p, StateOf(m)) /\ p.mapped = w.mapped /\ p.tagged = w.tagged
      /\ p.tu = w.tu /\ p.out = w.out
  BY <1>1, <1>2, Pushes
<1>4. MOWriteHighSide(d, m) = r
  BY DEF MOWriteHighSide, handleInviteResponse, StateOf
<1>5. Pushed(d, p, StateOf(m))
  BY <1>1, <1>3 DEF Pushed, Dialogs
<1>6. p.mapped = d.mapped /\ p.tagged = d.tagged /\ p.tu = d.tu /\ p.out = d.out
  BY <1>1, <1>3 DEF Dialogs
<1> HIDE DEF p, w
<1>7. CASE m \in {"Busy", "Error"}
  <2>1. r = [p EXCEPT !.out = p.out \cup {"ACK"}]
    BY <1>3, <1>7 DEF sipWrite, Dialogs
  <2>2. r \in Dialogs
    BY <1>3, <1>7, WriteTyped, Words
  <2>3. Pushed(d, r, StateOf(m))
    BY <1>3, <1>5, <2>1 DEF Pushed, Dialogs
  <2>4. QED
    BY <1>3, <1>4, <1>6, <1>7, <2>1, <2>2, <2>3 DEF Dialogs
<1>8. CASE m \notin {"Busy", "Error"}
  BY <1>3, <1>4, <1>5, <1>6, <1>8
<1>9. QED
  BY <1>7, <1>8

LEMMA TUReplies ==
  ASSUME NEW d \in Dialogs, NEW m \in Methods
  PROVE  LET e == TUWriteHighSide(d, m) IN
         /\ e \in Dialogs
         /\ d.tu[m] # "calling" => e = d
         /\ d.tu[m] = "calling" =>
               /\ Pushed(d, e, IF m = "BYE" THEN "Cleared" ELSE "Canceled")
               /\ e.mapped = d.mapped /\ e.tagged = d.tagged
               /\ e.tu = [d.tu EXCEPT ![m] = "done"] /\ e.out = d.out
<1> DEFINE s == IF m = "BYE" THEN "Cleared" ELSE "Canceled"
           p == dialogPushState(d, s)
<1>1. CASE d.tu[m] # "calling"
  BY <1>1 DEF TUWriteHighSide
<1>2. CASE d.tu[m] = "calling"
  <2>1. s \in SipStates \ {"Starting"}
    BY DEF SipStates
  <2>2. /\ p \in Dialogs /\ Pushed(d, p, s) /\ p.mapped = d.mapped /\ p.tagged = d.tagged
        /\ p.tu = d.tu /\ p.out = d.out
    BY <2>1, Pushes
  <2>3. TUWriteHighSide(d, m) = [p EXCEPT !.tu = [p.tu EXCEPT ![m] = "done"]]
    BY <1>2, <2>2 DEF TUWriteHighSide, Dialogs
  <2> HIDE DEF p
  <2>4. [p.tu EXCEPT ![m] = "done"] \in [Methods -> {"none", "calling", "done"}]
    BY <2>2 DEF Dialogs
  <2>5. TUWriteHighSide(d, m) \in Dialogs
    BY <2>2, <2>3, <2>4 DEF Dialogs
  <2>6. Pushed(d, TUWriteHighSide(d, m), s)
    BY <2>2, <2>3 DEF Dialogs, Pushed
  <2>7. QED
    BY <1>2, <2>2, <2>3, <2>5, <2>6 DEF Dialogs
<1>3. QED
  BY <1>1, <1>2

LEMMA MTHears ==
  ASSUME NEW d \in Dialogs
  PROVE  /\ d.last = "none" => MTWriteHighSide(d, "INVITE") = MTCSendTrying(d)
         /\ d.last # "none" => MTWriteHighSide(d, "INVITE") = [d EXCEPT !.out = d.out \cup {d.last}]
         /\ MTWriteHighSide(d, "INVITE") \in Dialogs
         /\ LET e == MTWriteHighSide(d, "ACK") IN
            /\ e \in Dialogs /\ e.mapped = d.mapped /\ e.tu = d.tu /\ e.out = d.out
            /\ d.state \in {"SSNullState", "Proceeding", "Connecting"} => Pushed(d, e, "Active") /\ e.tagged
            /\ d.state \notin {"SSNullState", "Proceeding", "Connecting"} =>
                  e = [d EXCEPT !.timers = d.timers \ {"BF", "H"}]
<1>1. d.last = "none" => MTWriteHighSide(d, "INVITE") = MTCSendTrying(d)
  BY DEF MTWriteHighSide
<1>2. d.last # "none" => MTWriteHighSide(d, "INVITE") = [d EXCEPT !.out = d.out \cup {d.last}]
  BY DEF MTWriteHighSide, sipWrite, Dialogs
<1>3. MTWriteHighSide(d, "INVITE") \in Dialogs
  <2>1. CASE d.last = "none"
    BY <1>1, <2>1, SendTyped
  <2>2. CASE d.last # "none"
    BY <1>2, <2>2, Words DEF Dialogs
  <2>3. QED
    BY <2>1, <2>2
<1> DEFINE e == MTWriteHighSide(d, "ACK")
<1>4. CASE d.state \in {"SSNullState", "Proceeding", "Connecting"}
  <2> DEFINE p == dialogPushState(d, "Active")
             q == [p EXCEPT !.tagged = TRUE]
  <2>1. "Active" \in SipStates \ {"Starting"}
    BY DEF SipStates
  <2>2. p \in Dialogs /\ Pushed(d, p, "Active") /\ p.mapped = d.mapped /\ p.tu = d.tu /\ p.out = d.out
    BY <2>1, Pushes
  <2>3. e = stopTimers(q)
    BY <1>4 DEF MTWriteHighSide
  <2> HIDE DEF p
  <2>4. q \in Dialogs
    BY <2>2 DEF Dialogs
  <2>5. e \in Dialogs /\ e = [q EXCEPT !.timers = q.timers \ {"BF", "H"}]
    BY <2>3, <2>4, StopsTimers
  <2> HIDE DEF e
  <2>6. e.mapped = d.mapped /\ e.tu = d.tu /\ e.out = d.out /\ e.tagged
    BY <2>2, <2>5 DEF Dialogs
  <2>7. Pushed(d, e, "Active")
    BY <2>2, <2>5 DEF Dialogs, Pushed
  <2>8. QED
    BY <1>1, <1>2, <1>3, <1>4, <2>5, <2>6, <2>7 DEF e
<1>5. CASE d.state \notin {"SSNullState", "Proceeding", "Connecting"}
  <2>1. e = stopTimers(d)
    BY <1>5 DEF MTWriteHighSide
  <2>2. e \in Dialogs /\ e = [d EXCEPT !.timers = d.timers \ {"BF", "H"}]
    BY <2>1, StopsTimers
  <2>3. e.mapped = d.mapped /\ e.tu = d.tu /\ e.out = d.out
    BY <2>2 DEF Dialogs
  <2>4. QED
    BY <1>1, <1>2, <1>3, <1>5, <2>2, <2>3
<1>6. QED
  BY <1>4, <1>5

-----------------------------------------------------------------------------
(* Types.                                                                    *)

Legs == [t : TranEntries, d : Dialogs, f : Seq(DownFrames)]

LEMMA NoTranTyped == NoTran \in TranEntries
BY DEF NoTran, TranEntries, Machines, CallStates

LEMMA LegTyped ==
  ASSUME NEW g \in Legs
  PROVE  /\ g.t \in TranEntries /\ g.d \in Dialogs /\ g.f \in Seq(DownFrames)
         /\ \A x \in DownFrames : l3sendm(g, x) \in Legs
         /\ \A s \in CallStates : setGSMState(g, s) \in Legs
         /\ \A x \in L3Timers : timerStart(g, x) \in Legs
         /\ \A x : timerStop(g, x) \in Legs
         /\ timerStopAll(g) \in Legs
         /\ \A m \in Machines : Run(g, m) \in Legs
         /\ \A d \in Dialogs : [g EXCEPT !.d = d] \in Legs
         /\ [g EXCEPT !.t.ti = TRUE] \in Legs
<1>1. g.t \in TranEntries /\ g.d \in Dialogs /\ g.f \in Seq(DownFrames)
  BY DEF Legs
<1>2. ASSUME NEW x \in DownFrames PROVE l3sendm(g, x) \in Legs
  BY DEF Legs, l3sendm
<1>3. ASSUME NEW s \in CallStates PROVE setGSMState(g, s) \in Legs
  BY DEF Legs, setGSMState, TranEntries
<1>4. ASSUME NEW x \in L3Timers PROVE timerStart(g, x) \in Legs
  BY DEF Legs, timerStart, TranEntries
<1>5. ASSUME NEW x PROVE timerStop(g, x) \in Legs
  BY DEF Legs, timerStop, TranEntries
<1>6. timerStopAll(g) \in Legs
  BY DEF Legs, timerStopAll, TranEntries
<1>7. ASSUME NEW m \in Machines PROVE Run(g, m) \in Legs
  BY DEF Legs, Run, TranEntries
<1>8. ASSUME NEW d \in Dialogs PROVE [g EXCEPT !.d = d] \in Legs
  BY DEF Legs
<1>9. [g EXCEPT !.t.ti = TRUE] \in Legs
  BY DEF Legs, TranEntries
<1>10. QED
  BY <1>1, <1>2, <1>3, <1>4, <1>5, <1>6, <1>7, <1>8, <1>9

LEMMA HereTyped ==
  ASSUME TypeOK
  PROVE  Here \in Legs /\ Here.t = tran /\ Here.d = sip /\ Here.f = down
BY DEF TypeOK, SipTypeOK, Here, Legs

LEMMA Closing ==
  ASSUME NEW g \in Legs, dir \in {"MO", "MT"}, NEW cause
  PROVE  LET c == teCloseDialog(g, cause) IN
         /\ c \in Legs /\ c.t = g.t /\ c.f = g.f
         /\ ~g.d.tran => c.d = g.d
         /\ g.d.tran => c.d = dialogCancel(g.d, cause)
<1>1. dialogCancel(g.d, cause) \in Dialogs
  BY Cancels, LegTyped
<1>2. [g EXCEPT !.d = dialogCancel(g.d, cause)] \in Legs
  BY <1>1, LegTyped
<1>3. QED
  BY <1>2 DEF teCloseDialog, Legs

(* The end of a transaction, and the release of a call under T308.          *)
Quitted(g, h, cause) ==
    /\ h.t = NoTran
    /\ h.d = [(IF g.d.tran THEN dialogCancel(g.d, cause) ELSE g.d) EXCEPT !.tran = FALSE, !.inbox = <<>>]
Released(g, h, cause) ==
    /\ \E s \in {"ReleaseRequest", "DisconnectIndication"} :
          h.t = [g.t EXCEPT !.gsm = s, !.timers = g.t.timers \cup {"T308"}]
    /\ g.t.ti
    /\ h.d = IF g.d.tran THEN dialogCancel(g.d, cause) ELSE g.d
    /\ \E x \in {"Release", "Disconnect"} : h.f = Append(g.f, x)

LEMMA Quits ==
  ASSUME NEW g \in Legs, dir \in {"MO", "MT"}, NEW cause
  PROVE  QuitTran(g, cause) \in Legs /\ Quitted(g, QuitTran(g, cause), cause)
<1> DEFINE c == teCloseDialog(g, cause)
           d == [c.d EXCEPT !.tran = FALSE, !.inbox = <<>>]
<1>1. c \in Legs /\ c.d = IF g.d.tran THEN dialogCancel(g.d, cause) ELSE g.d
  BY Closing
<1>2. QuitTran(g, cause) = [t |-> NoTran, f |-> g.f, d |-> d]
  BY DEF QuitTran
<1>3. d \in Dialogs
  <2>1. <<>> \in Seq(DialogStates)
    OBVIOUS
  <2>2. PICK e \in Dialogs : e = c.d
    BY <1>1 DEF Legs
  <2>3. [e EXCEPT !.tran = FALSE, !.inbox = <<>>] \in Dialogs
    BY <2>1 DEF Dialogs
  <2>4. QED
    BY <2>2, <2>3
<1>4. QuitTran(g, cause) \in Legs
  BY <1>2, <1>3, NoTranTyped DEF Legs
<1>5. QED
  BY <1>1, <1>2, <1>4 DEF Quitted

LEMMA Releases ==
  ASSUME NEW g \in Legs, dir \in {"MO", "MT"}, NEW cause
  PROVE  /\ LET h == closeCall(g, cause) IN
            /\ h \in Legs
            /\ \/ Quitted(g, h, cause) /\ (~g.t.ti \/ g.t.gsm # "Active")
               \/ Released(g, h, cause) /\ g.t.gsm = "Active"
         /\ LET h == sendRelease(g, cause) IN
            h \in Legs /\ (Quitted(g, h, cause) \/ Released(g, h, cause))
<1> DEFINE c == teCloseDialog(g, cause)
           dd == IF g.d.tran THEN dialogCancel(g.d, cause) ELSE g.d
<1>1. c \in Legs /\ c.t = g.t /\ c.f = g.f /\ c.d = dd
  BY Closing
<1>2. QuitTran(c, cause) \in Legs /\ Quitted(g, QuitTran(c, cause), cause)
  <2>1. QuitTran(c, cause) \in Legs /\ Quitted(c, QuitTran(c, cause), cause)
    BY <1>1, Quits
  <2>2. g.d \in Dialogs
    BY DEF Legs
  <2>3. (IF c.d.tran THEN dialogCancel(c.d, cause) ELSE c.d) = dd
    <3>1. CASE ~g.d.tran
      BY <1>1, <3>1
    <3>2. CASE g.d.tran
      <4>1. dd \in Dialogs /\ Cancelled(g.d, dd, cause)
        BY <2>2, <3>2, Cancels
      <4>2. sipIsFinished(dd)
        BY <4>1 DEF Cancelled, sipIsFinished
      <4>3. dialogCancel(dd, cause) = dd
        BY <4>2 DEF dialogCancel
      <4>4. QED
        BY <1>1, <4>3
    <3>3. QED
      BY <3>1, <3>2
  <2>4. QED
    BY <2>1, <2>3 DEF Quitted
<1> HIDE DEF c, dd
<1>3. ASSUME NEW x \in {"Release", "Disconnect"}, NEW s \in {"ReleaseRequest", "DisconnectIndication"}, c.t.ti
      PROVE  LET h == timerStart(setGSMState(l3sendm(c, x), s), "T308") IN
             h \in Legs /\ Released(g, h, cause)
  <2> DEFINE a == l3sendm(c, x)
             b == setGSMState(a, s)
             h == timerStart(b, "T308")
  <2>1. x \in DownFrames /\ s \in CallStates /\ "T308" \in L3Timers
    BY DEF DownFrames, CallStates, L3Timers
  <2>2. a \in Legs /\ a.t = c.t /\ a.d = c.d /\ a.f = Append(c.f, x)
    BY <1>1, <2>1, LegTyped DEF l3sendm, Legs
  <2> HIDE DEF a
  <2>3. b \in Legs /\ b.t = [a.t EXCEPT !.gsm = s] /\ b.d = a.d /\ b.f = a.f
    BY <2>1, <2>2, LegTyped DEF setGSMState, Legs
  <2> HIDE DEF b
  <2>4. h \in Legs /\ h.t = [b.t EXCEPT !.timers = b.t.timers \cup {"T308"}] /\ h.d = b.d /\ h.f = b.f
    BY <2>1, <2>3, LegTyped DEF timerStart, Legs, TranEntries
  <2> HIDE DEF h
  <2>5. h.t = [c.t EXCEPT !.gsm = s, !.timers = c.t.timers \cup {"T308"}]
    BY <1>1, <2>2, <2>3, <2>4 DEF Legs, TranEntries
  <2>6. Released(g, h, cause)
    BY <1>1, <1>3, <2>2, <2>3, <2>4, <2>5 DEF Released, dd
  <2>7. QED
    BY <2>4, <2>6 DEF a, b, h
<1>4. closeCall(g, cause) =
        IF c.t.ti /\ c.t.gsm = "Active"
        THEN timerStart(setGSMState(l3sendm(c, "Disconnect"), "DisconnectIndication"), "T308")
        ELSE QuitTran(c, cause)
  BY DEF closeCall, c
<1>5. sendRelease(g, cause) =
        IF c.t.ti /\ ~clearingGSM(c)
        THEN timerStart(setGSMState(l3sendm(c, "Release"), "ReleaseRequest"), "T308")
        ELSE QuitTran(c, cause)
  BY DEF sendRelease, c
<1>6. /\ closeCall(g, cause) \in Legs
      /\ \/ Quitted(g, closeCall(g, cause), cause) /\ (~g.t.ti \/ g.t.gsm # "Active")
         \/ Released(g, closeCall(g, cause), cause) /\ g.t.gsm = "Active"
  BY <1>1, <1>2, <1>3, <1>4
<1>7. sendRelease(g, cause) \in Legs /\ (Quitted(g, sendRelease(g, cause), cause) \/ Released(g, sendRelease(g, cause), cause))
  BY <1>1, <1>2, <1>3, <1>5
<1>8. QED
  BY <1>6, <1>7

(* Legs whose transaction goes on, and those that are well-formed.          *)
Lasting == {g \in Legs : g.t.mach # "none"}
Tidy == {g \in Legs : g.t.mach = "none" => g.t = NoTran}

LEMMA Lasts ==
  ASSUME NEW g \in Lasting
  PROVE  /\ g \in Legs /\ g \in Tidy
         /\ \A x \in DownFrames : l3sendm(g, x) \in Lasting
         /\ \A s \in CallStates : setGSMState(g, s) \in Lasting
         /\ \A x \in L3Timers : timerStart(g, x) \in Lasting
         /\ \A x : timerStop(g, x) \in Lasting
         /\ timerStopAll(g) \in Lasting
         /\ \A d \in Dialogs : [g EXCEPT !.d = d] \in Lasting
         /\ [g EXCEPT !.t.ti = TRUE] \in Lasting
<1>1. g \in Legs /\ g \in Tidy /\ g.t.mach # "none"
  BY DEF Lasting, Tidy
<1>2. \A x \in DownFrames : l3sendm(g, x).t.mach = g.t.mach
  BY <1>1 DEF l3sendm, Legs
<1>3. \A s \in CallStates : setGSMState(g, s).t.mach = g.t.mach
  BY <1>1 DEF setGSMState, Legs, TranEntries
<1>4. \A x \in L3Timers : timerStart(g, x).t.mach = g.t.mach
  BY <1>1 DEF timerStart, Legs, TranEntries
<1>5. \A x : timerStop(g, x).t.mach = g.t.mach
  BY <1>1 DEF timerStop, Legs, TranEntries
<1>6. timerStopAll(g).t.mach = g.t.mach
  BY <1>1 DEF timerStopAll, Legs, TranEntries
<1>7. \A d \in Dialogs : [g EXCEPT !.d = d].t.mach = g.t.mach
  BY <1>1 DEF Legs
<1>8. [g EXCEPT !.t.ti = TRUE].t.mach = g.t.mach
  BY <1>1 DEF Legs, TranEntries
<1>9. QED
  BY <1>1, <1>2, <1>3, <1>4, <1>5, <1>6, <1>7, <1>8, LegTyped DEF Lasting

LEMMA Runs ==
  ASSUME NEW g \in Legs, NEW m \in Machines \ {"none"}
  PROVE  Run(g, m) \in Lasting
<1>1. Run(g, m) \in Legs
  BY LegTyped
<1>2. Run(g, m).t.mach = m
  BY DEF Run, Legs, TranEntries
<1>3. QED
  BY <1>1, <1>2 DEF Lasting

LEMMA Closes1 ==
  ASSUME NEW g \in Legs, g \in Lasting \/ g.t = NoTran, dir \in {"MO", "MT"}, NEW cause
  PROVE  /\ QuitTran(g, cause) \in Tidy /\ closeCall(g, cause) \in Tidy
         /\ sendRelease(g, cause) \in Tidy /\ sendReleaseComplete(g, cause) \in Tidy
<1>1. \A h \in Legs : Quitted(g, h, cause) => h \in Tidy
  BY DEF Quitted, Tidy
<1>2. \A h \in Legs : Released(g, h, cause) => h \in Tidy
  <2>1. SUFFICES ASSUME NEW h \in Legs, Released(g, h, cause) PROVE h \in Tidy
    OBVIOUS
  <2>2. g.t.ti
    BY <2>1 DEF Released
  <2>3. g.t \in TranEntries /\ g.t.mach # "none"
    BY <2>2 DEF NoTran, Lasting, Legs
  <2>4. h.t.mach = g.t.mach
    BY <2>1, <2>3 DEF Released, TranEntries
  <2>5. QED
    BY <2>3, <2>4 DEF Tidy
<1>3. QED
  BY <1>1, <1>2, Quits, Releases DEF sendReleaseComplete

(* What a transaction becomes when it is told the state of its dialog.      *)
LEMMA DialogStatesTidy ==
  ASSUME NEW g \in Lasting, dir \in {"MO", "MT"}, NEW s \in DialogStates
  PROVE  /\ MOCDialogState(g, s) \in Tidy
         /\ MTCDialogState(g, s) \in Tidy
         /\ InCallDialogState(g, s) \in Tidy
<1>1. g \in Legs /\ g \in Tidy /\ closeCall(g, "other") \in Tidy
  BY Closes1, Lasts
<1>2. {"Connect", "ConnectAcknowledge"} \subseteq DownFrames
      /\ {"ConnectIndication", "Active", "MOCDelivered"} \subseteq CallStates
      /\ "InCall" \in Machines \ {"none"}
  BY DEF DownFrames, CallStates, Machines
<1>3. MOCDialogState(g, s) \in Tidy
  <2>1. CASE s = "Active"
    <3> DEFINE b == setGSMState(l3sendm(g, "Connect"), "ConnectIndication")
    <3>1. b \in Lasting
      BY <1>2, Lasts
    <3>2. b.d \in Dialogs
      BY <3>1, Lasts, LegTyped
    <3>3. sipWrite(b.d, "ACK") \in Dialogs
      BY <3>2, WriteTyped, Words
    <3>4. MOCDialogState(g, s) = [b EXCEPT !.d = sipWrite(b.d, "ACK")]
      BY <2>1, <3>1 DEF MOCDialogState, Lasting, Legs
    <3> HIDE DEF b
    <3>5. [b EXCEPT !.d = sipWrite(b.d, "ACK")] \in Lasting
      BY <3>1, <3>3, Lasts
    <3>6. QED
      BY <3>4, <3>5, Lasts
  <2>2. CASE s \in {"Bye", "Fail"}
    BY <1>1, <2>2 DEF MOCDialogState
  <2>3. CASE s = "Ringing"
    <3>1. MOCDialogState(g, s) = setGSMState(g, "MOCDelivered")
      BY <2>3 DEF MOCDialogState
    <3>2. QED
      BY <1>2, <3>1, Lasts
  <2>4. CASE s \in {"Undefined", "Started", "Proceeding"}
    BY <1>1, <2>4 DEF MOCDialogState
  <2>5. QED
    BY <2>1, <2>2, <2>3, <2>4 DEF DialogStates
<1>4. MTCDialogState(g, s) \in Tidy
  <2>1. CASE s = "Active"
    <3> DEFINE b == l3sendm(setGSMState(g, "Active"), "ConnectAcknowledge")
    <3>1. b \in Lasting
      BY <1>2, Lasts
    <3>2. MTCDialogState(g, s) = Run(b, "InCall")
      BY <2>1 DEF MTCDialogState
    <3> HIDE DEF b
    <3>3. QED
      BY <1>2, <3>1, <3>2, Lasts, Runs
  <2>2. CASE s \in {"Bye", "Fail"}
    BY <1>1, <2>2 DEF MTCDialogState
  <2>3. CASE s \notin {"Active", "Bye", "Fail"}
    BY <1>1, <2>3 DEF MTCDialogState
  <2>4. QED
    BY <2>1, <2>2, <2>3
<1>5. InCallDialogState(g, s) \in Tidy
  BY <1>1 DEF InCallDialogState
<1>6. QED
  BY <1>3, <1>4, <1>5

LEMMA Results ==
  ASSUME TypeOK, NEW g \in Tidy, NEW frames \in Seq(UpFrames), Becomes(g, frames)
  PROVE  TypeOK'
<1>1. tran' \in TranEntries /\ sip' \in Dialogs /\ (tran'.mach = "none" => tran' = NoTran)
  BY DEF Becomes, Legs, Tidy
<1>2. down' \in Seq(DownFrames) /\ up' \in Seq(UpFrames) /\ phone' \in Handsets
  BY DEF Becomes, Legs, Heeded, TypeOK, Idle, Handsets, PhoneStates, Tidy
<1>3. QED
  BY <1>1, <1>2 DEF Becomes, TypeOK, SipTypeOK

LEMMA HereIs ==
  ASSUME TypeOK
  PROVE  /\ Here \in Legs /\ Here.t = tran /\ Here.d = sip /\ Here.f = down
         /\ Here \in Tidy
         /\ Here \in Lasting \/ Here.t = NoTran
         /\ tran.mach # "none" => Here \in Lasting
         /\ dir \in {"MO", "MT"} /\ sip \in Dialogs /\ tran \in TranEntries /\ up \in Seq(UpFrames)
         /\ sip.state \in SipStates /\ getDialogState(sip.state) \in DialogStates
         /\ Tail(up) \in Seq(UpFrames) \/ up = <<>>
BY HereTyped, StateTable DEF TypeOK, SipTypeOK, Tidy, Lasting, Dialogs

LEMMA CallerFramesTyped ==
  ASSUME TypeOK, up # <<>>, CMServiceRequest \/ MOCSetup \/ ConnectAcknowledge
  PROVE  TypeOK'
<1>1. Tail(up) \in Seq(UpFrames)
  BY HereIs
<1>2. ASSUME NEW g \in Tidy, Answers(g) PROVE TypeOK'
  BY <1>1, <1>2, Results DEF Answers
<1>3. /\ {"CMServiceAccept", "AssignmentCommand"} \subseteq DownFrames
      /\ {"MOCInitiated", "MOCProceeding", "Active"} \subseteq CallStates
      /\ {"MOC", "InCall", "Assign"} \subseteq Machines \ {"none"}
      /\ {"T303", "T3101"} \subseteq L3Timers
  BY DEF DownFrames, CallStates, Machines, L3Timers
<1>4. CASE CMServiceRequest
  <2> DEFINE g == l3sendm(timerStart(setGSMState(Run(Here, "MOC"), "MOCInitiated"), "T303"), "CMServiceAccept")
  <2>1. g \in Lasting
    BY <1>3, HereIs, Runs, Lasts
  <2>2. g \in Tidy /\ Here \in Tidy
    BY <2>1, HereIs, Lasts
  <2>3. Answers(g) \/ Answers(Here)
    BY <1>4 DEF CMServiceRequest
  <2> HIDE DEF g
  <2>4. QED
    BY <1>2, <2>2, <2>3
<1>5. CASE MOCSetup
  <2> DEFINE g == timerStop(Here, "T303")
             d == [MOCSendINVITE(g.d) EXCEPT !.mapped = TRUE, !.tran = TRUE]
             h == [g EXCEPT !.d = d, !.t.ti = TRUE]
             k == StartAssign(setGSMState(h, "MOCProceeding"))
  <2>1. Here \in Lasting
    BY <1>5, HereIs DEF MOCSetup
  <2>2. g \in Lasting
    BY <2>1, Lasts
  <2>3. d \in Dialogs
    <3>1. MOCSendINVITE(g.d) \in Dialogs
      BY <2>2, Lasts, LegTyped, SendTyped
    <3>2. QED
      BY <3>1 DEF Dialogs
  <2> HIDE DEF g, d
  <2>4. [g EXCEPT !.d = d] \in Lasting
    BY <2>2, <2>3, Lasts
  <2>5. h = [[g EXCEPT !.d = d] EXCEPT !.t.ti = TRUE]
    BY <2>2 DEF Lasting, Legs
  <2>6. h \in Lasting
    BY <2>4, <2>5, Lasts
  <2> HIDE DEF h
  <2>7. k \in Lasting
    BY <1>3, <2>6, Lasts, Runs DEF StartAssign
  <2>8. Answers(k)
    BY <1>5 DEF MOCSetup, g, d, h
  <2> HIDE DEF k
  <2>9. QED
    BY <1>2, <2>7, <2>8, Lasts
<1>6. CASE ConnectAcknowledge
  <2>1. Here \in Lasting
    BY <1>6, HereIs DEF ConnectAcknowledge
  <2>2. /\ Run(setGSMState(Here, "Active"), "InCall") \in Tidy
        /\ Run(Here, "InCall") \in Tidy /\ closeCall(Here, "other") \in Tidy
    BY <1>3, <2>1, HereIs, Lasts, Runs, Closes1
  <2>3. \/ Answers(Run(setGSMState(Here, "Active"), "InCall"))
        \/ Answers(closeCall(Here, "other"))
        \/ Answers(Run(Here, "InCall"))
    BY <1>6 DEF ConnectAcknowledge
  <2>4. QED
    BY <1>2, <2>2, <2>3
<1>7. QED
  BY <1>4, <1>5, <1>6

LEMMA CalleeFramesTyped ==
  ASSUME TypeOK, up # <<>>, MTCStart \/ CallConfirmed \/ Alerting \/ Connect
  PROVE  TypeOK'
<1>1. Tail(up) \in Seq(UpFrames)
  BY HereIs
<1>2. ASSUME NEW g \in Tidy, Answers(g) PROVE TypeOK'
  BY <1>1, <1>2, Results DEF Answers
<1>3. /\ {"Setup", "AssignmentCommand"} \subseteq DownFrames
      /\ {"CallPresent", "MTCConfirmed", "CallReceived", "ConnectIndication"} \subseteq CallStates
      /\ {"MTC", "Assign"} \subseteq Machines \ {"none"}
      /\ {"T303", "T310", "T301", "T3101"} \subseteq L3Timers
  BY DEF DownFrames, CallStates, Machines, L3Timers
<1>4. Here \in Lasting
  BY HereIs DEF MTCStart, CallConfirmed, Alerting, Connect
<1>5. CASE MTCStart
  <2> DEFINE g == timerStart(setGSMState(l3sendm(Run(Here, "MTC"), "Setup"), "CallPresent"), "T303")
             d == MTCSendTrying(g.d)
             h == [g EXCEPT !.t.ti = TRUE, !.d = d]
  <2>1. g \in Lasting
    BY <1>3, <1>4, Lasts, Runs
  <2>2. d \in Dialogs
    BY <2>1, Lasts, LegTyped, SendTyped
  <2>3. closeCall(Run(Here, "MTC"), "other") \in Tidy /\ QuitTran(Here, "other") \in Tidy
    BY <1>3, <1>4, HereIs, Lasts, Runs, Closes1
  <2>4. Answers(closeCall(Run(Here, "MTC"), "other")) \/ Answers(QuitTran(Here, "other"))
          \/ Answers([g EXCEPT !.t.ti = TRUE, !.d = MTCSendTrying(@)])
    BY <1>5 DEF MTCStart
  <2> HIDE DEF g
  <2>5. [g EXCEPT !.t.ti = TRUE, !.d = MTCSendTrying(@)] = h
    BY <2>1 DEF Lasting, Legs
  <2> HIDE DEF d
  <2>6. h = [[g EXCEPT !.d = d] EXCEPT !.t.ti = TRUE]
    BY <2>1 DEF Lasting, Legs
  <2>7. [g EXCEPT !.d = d] \in Lasting
    BY <2>1, <2>2, Lasts
  <2>8. h \in Lasting
    BY <2>6, <2>7, Lasts
  <2> HIDE DEF h
  <2>9. QED
    BY <1>2, <2>3, <2>4, <2>5, <2>8, Lasts
<1>6. CASE CallConfirmed
  <2> DEFINE g == timerStop(Here, "T303")
  <2>1. g \in Lasting /\ StartAssign(timerStart(setGSMState(g, "MTCConfirmed"), "T310")) \in Lasting
    BY <1>3, <1>4, Lasts, Runs DEF StartAssign
  <2>2. Answers(g) \/ Answers(StartAssign(timerStart(setGSMState(g, "MTCConfirmed"), "T310")))
    BY <1>6 DEF CallConfirmed
  <2> HIDE DEF g
  <2>3. QED
    BY <1>2, <2>1, <2>2, Lasts
<1>7. CASE Alerting
  <2> DEFINE g == setGSMState(timerStart(Here, "T301"), "CallReceived")
  <2>1. g \in Lasting
    BY <1>3, <1>4, Lasts
  <2>2. MTCSendRinging(g.d) \in Dialogs
    BY <2>1, Lasts, LegTyped, SendTyped
  <2>3. Answers([g EXCEPT !.d = MTCSendRinging(@)])
    BY <1>7 DEF Alerting
  <2> HIDE DEF g
  <2>4. [g EXCEPT !.d = MTCSendRinging(@)] = [g EXCEPT !.d = MTCSendRinging(g.d)]
    BY <2>1 DEF Lasting, Legs
  <2>5. QED
    BY <1>2, <2>1, <2>2, <2>3, <2>4, Lasts
<1>8. CASE Connect
  <2> DEFINE g == timerStopAll(Here)
             h == setGSMState(g, "ConnectIndication")
  <2>1. g \in Lasting /\ h \in Lasting
    BY <1>3, <1>4, Lasts
  <2>2. MTCSendOK(h.d) \in Dialogs
    BY <2>1, Lasts, LegTyped, SendTyped
  <2>3. Answers(g) \/ Answers([h EXCEPT !.d = MTCSendOK(@)])
    BY <1>8 DEF Connect
  <2> HIDE DEF g, h
  <2>4. [h EXCEPT !.d = MTCSendOK(@)] = [h EXCEPT !.d = MTCSendOK(h.d)]
    BY <2>1 DEF Lasting, Legs
  <2>5. QED
    BY <1>2, <2>1, <2>2, <2>3, <2>4, Lasts
<1>9. QED
  BY <1>5, <1>6, <1>7, <1>8

LEMMA OtherFramesTyped ==
  ASSUME TypeOK, up # <<>>, AssignmentComplete \/ AssignmentFailure \/ DefaultMessages \/ Unexpected
  PROVE  TypeOK'
<1>1. Tail(up) \in Seq(UpFrames)
  BY HereIs
<1>2. ASSUME NEW g \in Tidy, Answers(g) PROVE TypeOK'
  BY <1>1, <1>2, Results DEF Answers
<1>3. "AssignmentCommand" \in DownFrames /\ {"MOC", "MTC"} \subseteq Machines \ {"none"}
  BY DEF DownFrames, Machines
<1>4. CASE AssignmentComplete
  <2> DEFINE g == timerStop(Here, "T3101")
             s == getDialogState(sip.state)
  <2>1. g \in Lasting /\ Run(g, "MOC") \in Lasting /\ Run(g, "MTC") \in Lasting
    BY <1>3, <1>4, HereIs, Lasts, Runs DEF AssignmentComplete
  <2>2. MOCDialogState(Run(g, "MOC"), s) \in Tidy /\ MTCDialogState(Run(g, "MTC"), s) \in Tidy
    BY <2>1, HereIs, DialogStatesTidy
  <2>3. Answers(MOCDialogState(Run(g, "MOC"), s)) \/ Answers(MTCDialogState(Run(g, "MTC"), s))
    BY <1>4 DEF AssignmentComplete
  <2> HIDE DEF g, s
  <2>4. QED
    BY <1>2, <2>2, <2>3
<1>5. CASE AssignmentFailure
  <2>1. Here \in Lasting
    BY <1>5, HereIs DEF AssignmentFailure
  <2>2. l3sendm(Here, "AssignmentCommand") \in Tidy /\ QuitTran(Here, "other") \in Tidy
    BY <1>3, <2>1, HereIs, Lasts, Closes1
  <2>3. QED
    BY <1>2, <1>5, <2>2 DEF AssignmentFailure
<1>6. CASE DefaultMessages
  <2> DEFINE g == timerStopAll(Here)
  <2>1. g \in Lasting
    BY <1>6, HereIs, Lasts DEF DefaultMessages
  <2>2. /\ closeCall(g, "other") \in Tidy /\ sendRelease(g, "normal") \in Tidy
        /\ sendReleaseComplete(g, "normal") \in Tidy /\ QuitTran(g, "normal") \in Tidy
    BY <2>1, HereIs, Lasts, Closes1
  <2>3. \/ Answers(closeCall(g, "other")) \/ Answers(sendRelease(g, "normal"))
        \/ Answers(sendReleaseComplete(g, "normal")) \/ Answers(QuitTran(g, "normal"))
    BY <1>6 DEF DefaultMessages
  <2> HIDE DEF g
  <2>4. QED
    BY <1>2, <2>2, <2>3
<1>7. CASE Unexpected
  BY <1>2, <1>7, HereIs DEF Unexpected
<1>8. QED
  BY <1>4, <1>5, <1>6, <1>7

LEMMA LoopTyped ==
  ASSUME TypeOK, ServiceLoop \/ ChannelLost
  PROVE  TypeOK'
<1>1. up \in Seq(UpFrames)
  BY HereIs
<1>2. ASSUME NEW g \in Tidy, Becomes(g, up) PROVE TypeOK'
  BY <1>1, <1>2, Results
<1>3. CASE ReadFrame
  BY <1>3, CallerFramesTyped, CalleeFramesTyped, OtherFramesTyped DEF ReadFrame
<1>4. CASE ReadDialogMessage
  <2> DEFINE g == [Here EXCEPT !.d.inbox = Tail(@)]
             s == Head(sip.inbox)
  <2>1. Here \in Lasting /\ sip \in Dialogs /\ sip.inbox # <<>>
    BY <1>4, HereIs DEF ReadDialogMessage
  <2>2. sip.inbox \in Seq(DialogStates) /\ s \in DialogStates /\ Tail(sip.inbox) \in Seq(DialogStates)
    BY <2>1 DEF Dialogs
  <2>3. [sip EXCEPT !.inbox = Tail(sip.inbox)] \in Dialogs
    BY <2>1, <2>2 DEF Dialogs
  <2>4. g = [Here EXCEPT !.d = [sip EXCEPT !.inbox = Tail(sip.inbox)]]
    BY <2>1, HereIs DEF Legs, Dialogs
  <2>5. g \in Lasting
    BY <2>1, <2>3, <2>4, Lasts
  <2>6. \/ Becomes(MOCDialogState(g, s), up) \/ Becomes(MTCDialogState(g, s), up)
        \/ Becomes(InCallDialogState(g, s), up) \/ Becomes(g, up)
    BY <1>4 DEF ReadDialogMessage
  <2> HIDE DEF g, s
  <2>7. /\ MOCDialogState(g, s) \in Tidy /\ MTCDialogState(g, s) \in Tidy
        /\ InCallDialogState(g, s) \in Tidy /\ g \in Tidy
    BY <2>2, <2>5, HereIs, Lasts, DialogStatesTidy
  <2>8. QED
    BY <1>2, <2>6, <2>7
<1>5. CASE Timeout \/ PageExpires \/ Defunct \/ ChannelLost
  <2>1. QuitTran(Here, "other") \in Tidy
    BY HereIs, Closes1
  <2>2. Becomes(QuitTran(Here, "other"), up)
    BY <1>5 DEF Timeout, PageExpires, Defunct, ChannelLost
  <2>3. QED
    BY <1>2, <2>1, <2>2
<1>6. QED
  BY <1>3, <1>4, <1>5 DEF ServiceLoop

LEMMA InviteTyped ==
  ASSUME TypeOK, handleInvite
  PROVE  TypeOK'
<1> DEFINE d == [sip EXCEPT !.mapped = TRUE]
<1>1. d \in Dialogs
  BY DEF TypeOK, SipTypeOK, Dialogs
<1>2. MTCSendTrying(d) \in Dialogs /\ dialogCancel(d, "other") \in Dialogs
  BY <1>1, HereIs, SendTyped, Cancels
<1>3. sip' \in Dialogs
  <2>1. [MTCSendTrying(d) EXCEPT !.tran = TRUE] \in Dialogs
    BY <1>2 DEF Dialogs
  <2>2. sip' = [MTCSendTrying(d) EXCEPT !.tran = TRUE] \/ sip' = dialogCancel(d, "other")
    BY DEF handleInvite, NewMT, Refused
  <2> HIDE DEF d
  <2>3. QED
    BY <1>2, <2>1, <2>2
<1> HIDE DEF d
<1>4. tran' \in TranEntries /\ (tran'.mach = "none" => tran' = NoTran)
  BY DEF handleInvite, NoTran, TranEntries, Machines, CallStates, TypeOK
<1>5. toBts' \subseteq Messages /\ UNCHANGED <<dir, peer, faults, phone, up, down>>
  BY DEF handleInvite, TypeOK, SipTypeOK
<1>6. QED
  BY <1>3, <1>4, <1>5 DEF TypeOK, SipTypeOK

(* What may come from the other user agent, which either is called or calls. *)
Heard == IF dir = "MO" THEN Replies \cup {"BYE"} ELSE Requests \cup {"ByeOk"}
TInv == TypeOK /\ toBts \subseteq Heard

LEMMA IncomingTyped ==
  ASSUME TInv, NEW m \in Messages, newDriveIncoming(m), UNCHANGED gsmVars
  PROVE  TypeOK'
<1>1. TypeOK /\ sip \in Dialogs /\ dir \in {"MO", "MT"} /\ m \in Heard
  BY HereIs DEF TInv, newDriveIncoming
<1>2. sip' \in Dialogs
  <2>1. CASE m = "CancelOk"
    <3>1. sip' = TUWriteHighSide(sip, "CANCEL")
      BY <2>1 DEF newDriveIncoming, Methods
    <3>2. QED
      BY <1>1, <3>1, TUReplies, Words
  <2>2. CASE m = "ByeOk"
    <3>1. sip' = TUWriteHighSide(sip, "BYE")
      BY <2>2 DEF newDriveIncoming, Methods
    <3>2. QED
      BY <1>1, <3>1, TUReplies, Words
  <2>3. CASE m \in Methods /\ Found(sip, m)
    <3>1. sip' = SipMTEnd(sip, m)
      BY <2>3 DEF newDriveIncoming, Methods
    <3>2. QED
      BY <1>1, <2>3, <3>1, MTEnds
  <2>4. CASE m \notin Methods \cup {"CancelOk", "ByeOk"} /\ Found(sip, m)
    <3>1. sip' = IF dir = "MO" THEN MOWriteHighSide(sip, m) ELSE MTWriteHighSide(sip, m)
      BY <2>4 DEF newDriveIncoming
    <3>2. ASSUME m \in {"Trying", "Ringing", "OK", "Busy", "Error"} PROVE MOWriteHighSide(sip, m) \in Dialogs
      BY <1>1, <3>2, MOReplies
    <3>3. ASSUME m \in {"INVITE", "ACK"} PROVE MTWriteHighSide(sip, m) \in Dialogs
      BY <1>1, <3>3, MTHears
    <3>4. m \in IF dir = "MO" THEN {"Trying", "Ringing", "OK", "Busy", "Error"} ELSE {"INVITE", "ACK"}
      BY <1>1, <2>4 DEF Heard, Replies, Requests, Methods
    <3>5. QED
      BY <3>1, <3>2, <3>3, <3>4
  <2>5. CASE m \notin {"CancelOk", "ByeOk"} /\ ~Found(sip, m)
    <3>1. sip' = NoSuchDialog(sip, m)
      BY <2>5 DEF newDriveIncoming, Messages
    <3>2. QED
      BY <1>1, <3>1, WriteTyped, Words DEF NoSuchDialog, Methods
  <2>6. QED
    BY <2>1, <2>2, <2>3, <2>4, <2>5
<1>3. QED
  BY <1>1, <1>2 DEF newDriveIncoming, TypeOK, SipTypeOK, gsmVars

LEMMA PeriodicTyped ==
  ASSUME TypeOK, PeriodicService, UNCHANGED gsmVars
  PROVE  TypeOK' /\ UNCHANGED <<dir, toBts, peer>>
<1>1. sip \in Dialogs /\ stopTimers(sip) \in Dialogs /\ {"INVITE"} \cup Methods \subseteq Messages
  BY HereIs, StopsTimers, Words DEF Requests
<1>2. "SSFail" \in SipStates \ {"Starting"}
  BY DEF SipStates
<1>3. CASE Repetition
  <2>1. \E m \in {"INVITE"} \cup Methods : sip' = sipWrite(sip, m)
    BY <1>3 DEF Repetition, TimerA, TUResend
  <2>2. sip' \in Dialogs
    BY <1>1, <2>1, WriteTyped
  <2>3. QED
    BY <1>3, <2>2 DEF Repetition, TypeOK, SipTypeOK, gsmVars
<1>4. CASE Deadline
  <2>1. CASE KillTimer
    <3>1. dialogPushState(stopTimers(sip), "SSFail") \in Dialogs
      BY <1>1, <1>2, Pushes
    <3>2. [dialogPushState(stopTimers(sip), "SSFail") EXCEPT !.mapped = FALSE] \in Dialogs
      BY <3>1 DEF Dialogs
    <3>3. sip' \in Dialogs
      BY <2>1, <3>2 DEF KillTimer
    <3>4. QED
      BY <1>4, <3>3 DEF Deadline, TypeOK, SipTypeOK, gsmVars
  <2>2. ASSUME NEW m \in Methods, TUTimeout(m) PROVE TypeOK' /\ UNCHANGED <<dir, toBts, peer>>
    <3> DEFINE p == dialogPushState(sip, "SSFail")
    <3>1. p \in Dialogs
      BY <1>1, <1>2, Pushes
    <3>2. sip' = [p EXCEPT !.tu[m] = "done"]
      BY <2>2 DEF TUTimeout
    <3> HIDE DEF p
    <3>3. sip' \in Dialogs
      BY <3>1, <3>2 DEF Dialogs
    <3>4. QED
      BY <1>4, <3>3 DEF Deadline, TypeOK, SipTypeOK, gsmVars
  <2>3. QED
    BY <1>4, <2>1, <2>2 DEF Deadline
<1>5. CASE Removal
  <2>1. sip' \in Dialogs
    BY <1>1, <1>5 DEF Removal, RemoveFinished, Dialogs
  <2>2. QED
    BY <1>5, <2>1 DEF Removal, TypeOK, SipTypeOK, gsmVars
<1>6. QED
  BY <1>3, <1>4, <1>5 DEF PeriodicService

LEMMA NetworkTyped ==
  ASSUME TInv, Network
  PROVE  TInv'
<1>1. /\ TypeOK /\ sip \in Dialogs /\ dir \in {"MO", "MT"} /\ toBts \subseteq Heard
      /\ toBts \subseteq Messages /\ UNCHANGED gsmVars
      /\ peer \in IF dir = "MO" THEN CalleeStates ELSE CallerStates
  BY HereIs DEF TInv, TypeOK, SipTypeOK, Network
<1>2. \A m : [sip EXCEPT !.out = sip.out \ {m}] \in Dialogs
  BY <1>1 DEF Dialogs
<1>3. ASSUME sip' \in Dialogs, toBts' \subseteq Messages, toBts' \subseteq Heard, UNCHANGED dir,
             peer' \in IF dir = "MO" THEN CalleeStates ELSE CallerStates, faults' \in 0..MaxFaults
      PROVE  TInv'
  BY <1>1, <1>3 DEF TInv, TypeOK, SipTypeOK, gsmVars, Heard
<1>4. ASSUME NEW s \in IF dir = "MO" THEN CalleeStates ELSE CallerStates,
             NEW ms \in SUBSET Heard, Says(s, ms)
      PROVE  TInv'
  BY <1>1, <1>3, <1>4, Words DEF Says, TypeOK, SipTypeOK, Heard
<1>5. ASSUME NEW s \in IF dir = "MO" THEN CalleeStates ELSE CallerStates,
             NEW ms \in SUBSET Heard, NEW m, Hears(m, s, ms)
      PROVE  TInv'
  BY <1>1, <1>2, <1>3, <1>5, Words DEF Hears, TypeOK, SipTypeOK, Heard
<1>6. dir = "MO" => Answer \subseteq Heard
  BY DEF Answer, Heard, Replies
<1>7. CASE CalleeHears
  <2>1. dir = "MO" /\ {"Trying", "CancelOk", "Error"} \subseteq Heard
    BY <1>7 DEF CalleeHears, Heard, Replies
  <2>2. \E s \in CalleeStates, ms \in SUBSET Heard, m \in {"INVITE", "ACK", "CANCEL"} : Hears(m, s, ms)
    <3>1. CASE Hears("INVITE", IF peer = "none" THEN "invited" ELSE peer,
                     IF peer = "none" THEN {"Trying"} ELSE Answer)
      <4>1. (IF peer = "none" THEN "invited" ELSE peer) \in CalleeStates
        BY <1>1, <2>1 DEF CalleeStates
      <4>2. (IF peer = "none" THEN {"Trying"} ELSE Answer) \in SUBSET Heard
        BY <1>6, <2>1
      <4>3. QED
        BY <3>1, <4>1, <4>2
    <3>2. CASE Hears("ACK", CASE peer = "answered" -> "talking" [] peer \in {"Busy", "Error"} -> "over"
                         [] OTHER -> peer, {})
      <4>1. (CASE peer = "answered" -> "talking" [] peer \in {"Busy", "Error"} -> "over"
                [] OTHER -> peer) \in CalleeStates
        BY <1>1, <2>1 DEF CalleeStates
      <4>2. QED
        BY <3>2, <4>1
    <3>3. CASE Hears("CANCEL", "Error", {"CancelOk", "Error"})
      BY <2>1, <3>3 DEF CalleeStates
    <3>4. CASE Hears("CANCEL", peer, {"CancelOk"})
      BY <1>1, <2>1, <3>4
    <3>5. QED
      BY <1>7, <3>1, <3>2, <3>3, <3>4 DEF CalleeHears
  <2>3. QED
    BY <1>5, <2>1, <2>2
<1>8. CASE CallerHears
  <2>1. dir = "MT" /\ {"ACK", "BYE"} \subseteq Heard
    BY <1>8 DEF CallerHears, Heard, Requests
  <2>2. {"proceeding", "talking", "bye", "over", "canceled", peer} \subseteq CallerStates
    BY <1>1, <2>1 DEF CallerStates
  <2>3. CASE \E m \in {"Trying", "Ringing"} : Hears(m, IF peer = "calling" THEN "proceeding" ELSE peer, {})
    <3>1. (IF peer = "calling" THEN "proceeding" ELSE peer) \in CallerStates
      BY <2>2
    <3>2. QED
      BY <1>5, <2>1, <2>3, <3>1
  <2>4. CASE Hears("OK", "talking", {"ACK"}) \/ Hears("OK", peer, {"ACK"}) \/ Hears("OK", "bye", {"ACK", "BYE"})
    BY <1>5, <2>1, <2>2, <2>4
  <2>5. CASE Hears("Error", IF peer \in {"talking", "bye"} THEN peer ELSE "over", {"ACK"})
    <3>1. (IF peer \in {"talking", "bye"} THEN peer ELSE "over") \in CallerStates
      BY <2>2
    <3>2. QED
      BY <1>5, <2>1, <2>5, <3>1
  <2>6. CASE Hears("CancelOk", IF peer = "canceling" THEN "canceled" ELSE peer, {})
    <3>1. (IF peer = "canceling" THEN "canceled" ELSE peer) \in CallerStates
      BY <2>2
    <3>2. QED
      BY <1>5, <2>1, <2>6, <3>1
  <2>7. QED
    BY <1>8, <2>3, <2>4, <2>5, <2>6 DEF CallerHears
<1>9. CASE EitherHears
  <2>1. "ByeOk" \in Heard /\ \A s \in {"over", "refused", peer} : s \in IF dir = "MO" THEN CalleeStates ELSE CallerStates
    BY <1>1 DEF Heard, Replies, Requests, CalleeStates, CallerStates
  <2>2. CASE Hears("BYE", "over", {"ByeOk"})
    BY <1>5, <2>1, <2>2
  <2>3. CASE Hears("ByeOk", IF peer = "bye" THEN "over" ELSE peer, {})
    <3>1. (IF peer = "bye" THEN "over" ELSE peer) \in {"over", peer}
      OBVIOUS
    <3>2. QED
      BY <1>5, <2>1, <2>3, <3>1
  <2>4. CASE Hears("NotFound", IF peer = "bye" THEN "refused" ELSE peer, {})
    <3>1. (IF peer = "bye" THEN "refused" ELSE peer) \in {"refused", peer}
      OBVIOUS
    <3>2. QED
      BY <1>5, <2>1, <2>4, <3>1
  <2>5. QED
    BY <1>9, <2>2, <2>3, <2>4 DEF EitherHears
<1>10. CASE PeerRepeats
  <2>1. Unanswered \subseteq Heard
    <3>1. CASE dir = "MO"
      <4>1. peer \notin {"calling", "canceling"}
        BY <1>1, <3>1 DEF CalleeStates
      <4>2. QED
        BY <1>6, <3>1, <4>1 DEF Unanswered, Heard
    <3>2. CASE dir = "MT"
      <4>1. peer \notin {"answered", "Busy", "Error"}
        BY <1>1, <3>2 DEF CallerStates
      <4>2. QED
        BY <3>2, <4>1 DEF Unanswered, Heard, Requests
    <3>3. QED
      BY <1>1, <3>1, <3>2
  <2>2. toBts' = Unanswered /\ UNCHANGED <<dir, sip, peer, faults>>
    BY <1>10 DEF PeerRepeats
  <2>3. toBts' \subseteq Heard /\ toBts' \subseteq Messages
    BY <2>1, <2>2, Words DEF Heard
  <2>4. QED
    BY <1>1, <1>3, <2>2, <2>3 DEF TypeOK, SipTypeOK
<1>11. CASE PeerGivesUp
  <2>1. CASE peer = "answered" /\ Says("bye", {"BYE"})
    <3>1. dir = "MO"
      BY <1>1, <2>1 DEF CallerStates
    <3>2. "bye" \in CalleeStates /\ "BYE" \in Heard
      BY <3>1 DEF CalleeStates, Heard
    <3>3. QED
      BY <1>4, <2>1, <3>1, <3>2
  <2>2. CASE peer \in {"Busy", "Error"} /\ Says("over", {})
    <3>1. dir = "MO"
      BY <1>1, <2>2 DEF CallerStates
    <3>2. "over" \in CalleeStates
      BY DEF CalleeStates
    <3>3. QED
      BY <1>4, <2>2, <3>1, <3>2
  <2>3. CASE peer \in {"calling", "canceling"} /\ Says("canceled", {})
    <3>1. dir = "MT"
      BY <1>1, <2>3 DEF CalleeStates
    <3>2. "canceled" \in CallerStates
      BY DEF CallerStates
    <3>3. QED
      BY <1>4, <2>3, <3>1, <3>2
  <2>4. QED
    BY <1>11, <2>1, <2>2, <2>3 DEF PeerGivesUp
<1>12. CASE PeerUser
  <2>1. CASE dir = "MT" /\ peer = "none" /\ Says("calling", {"INVITE"})
    <3>1. "calling" \in CallerStates /\ "INVITE" \in Heard
      BY <2>1 DEF CallerStates, Heard, Requests
    <3>2. QED
      BY <1>4, <2>1, <3>1
  <2>2. CASE peer = "proceeding" /\ Says("canceling", {"CANCEL"})
    <3>1. dir = "MT"
      BY <1>1, <2>2 DEF CalleeStates
    <3>2. "canceling" \in CallerStates /\ "CANCEL" \in Heard
      BY <3>1 DEF CallerStates, Heard, Requests
    <3>3. QED
      BY <1>4, <2>2, <3>1, <3>2
  <2>3. CASE peer \in {"invited", "ringing"}
    <3>1. dir = "MO"
      BY <1>1, <2>3 DEF CallerStates
    <3>2. {"ringing", "answered", "Busy", "Error"} \subseteq CalleeStates
          /\ {"Ringing", "OK", "Busy", "Error"} \subseteq Heard
      BY <3>1 DEF CalleeStates, Heard, Replies
    <3>3. \/ Says("ringing", {"Ringing"}) \/ Says("answered", {"OK"})
          \/ \E e \in {"Busy", "Error"} : Says(e, {e})
      BY <1>12, <2>3 DEF PeerUser
    <3>4. QED
      BY <1>4, <3>1, <3>2, <3>3
  <2>4. CASE peer = "talking" /\ Says("bye", {"BYE"})
    <3>1. \A s \in {"bye"} : s \in IF dir = "MO" THEN CalleeStates ELSE CallerStates
      BY <1>1 DEF CalleeStates, CallerStates
    <3>2. "BYE" \in Heard
      BY <1>1 DEF Heard, Requests
    <3>3. QED
      BY <1>4, <2>4, <3>1, <3>2
  <2>5. QED
    BY <1>12, <2>1, <2>2, <2>3, <2>4 DEF PeerUser
<1>13. CASE Lose
  <2>1. faults' \in 0..MaxFaults
    BY <1>1, <1>13, MaxFaultsAssumption DEF Lose, TypeOK, SipTypeOK
  <2>2. sip' \in Dialogs /\ toBts' \subseteq toBts
    BY <1>1, <1>2, <1>13 DEF Lose
  <2>3. QED
    BY <1>1, <1>3, <1>13, <2>1, <2>2 DEF Lose
<1>14. QED
  BY <1>7, <1>8, <1>9, <1>10, <1>11, <1>12, <1>13 DEF Network, Peer, PeerHears, PeerTimers

LEMMA PhoneTyped ==
  ASSUME TypeOK, Phone
  PROVE  TypeOK' /\ UNCHANGED <<dir, toBts>>
<1>1. /\ up \in Seq(UpFrames) /\ down \in Seq(DownFrames) /\ phone \in Handsets
      /\ faults \in 0..MaxFaults
  BY DEF TypeOK, SipTypeOK
<1>2. \A x \in UpFrames : <<x>> \in Seq(UpFrames)
  OBVIOUS
<1>3. <<>> \in Seq(UpFrames)
  OBVIOUS
<1>4. ASSUME NEW s \in PhoneStates, NEW frames \in Seq(UpFrames), NEW rest \in Seq(DownFrames),
             Moves(s, frames, rest)
      PROVE  TypeOK' /\ UNCHANGED <<dir, toBts>>
  <2>1. phone' \in Handsets /\ up' \in Seq(UpFrames) /\ down' \in Seq(DownFrames)
    <3>1. phone' \in Handsets
      BY <1>1, <1>4 DEF Moves, Handsets
    <3>2. <<>> \in Seq(DownFrames)
      OBVIOUS
    <3>3. down' = rest \/ down' = <<>>
      BY <1>4 DEF Moves, Heeded
    <3>4. up' = up \o frames
      BY <1>4 DEF Moves
    <3>5. up \o frames \in Seq(UpFrames)
      BY <1>1
    <3>6. down' \in Seq(DownFrames)
      BY <3>2, <3>3
    <3>7. QED
      BY <3>1, <3>4, <3>5, <3>6
  <2>2. QED
    BY <1>4, <2>1 DEF Moves, TypeOK, SipTypeOK
<1>5. ASSUME NEW s, NEW t \in PhoneStates, NEW x \in UpFrames, Acts(s, t, <<x>>)
      PROVE  TypeOK' /\ UNCHANGED <<dir, toBts>>
  BY <1>1, <1>2, <1>4, <1>5 DEF Acts
<1>6. ASSUME NEW x, NEW S, NEW t \in PhoneStates, NEW frames \in Seq(UpFrames), Reads(x, S, t, frames)
      PROVE  TypeOK' /\ UNCHANGED <<dir, toBts>>
  <2>1. Tail(down) \in Seq(DownFrames) /\ phone.call \in PhoneStates
    BY <1>1, <1>6 DEF Reads, Handsets
  <2>2. Moves(t, frames, Tail(down)) \/ Moves(phone.call, <<>>, Tail(down))
    BY <1>6 DEF Reads
  <2>3. QED
    BY <1>3, <1>4, <2>1, <2>2
<1>7. CASE PhoneCalls
  <2>1. "asking" \in PhoneStates /\ "CMServiceRequest" \in UpFrames
    BY DEF PhoneStates, UpFrames
  <2>2. QED
    BY <1>5, <1>7, <2>1 DEF PhoneCalls
<1>8. CASE PhoneHangsUp
  <2>1. {"idle", "leaving"} \subseteq PhoneStates /\ {"CMServiceAbort", "Disconnect"} \subseteq UpFrames
    BY DEF PhoneStates, UpFrames
  <2>2. QED
    BY <1>5, <1>8, <2>1 DEF PhoneHangsUp
<1>9. CASE PhoneAnswers
  <2>1. {"paged", "alerting", "connecting"} \subseteq PhoneStates
        /\ {"PagingResponse", "Alerting", "Connect"} \subseteq UpFrames
    BY DEF PhoneStates, UpFrames
  <2>2. QED
    BY <1>5, <1>9, <2>1 DEF PhoneAnswers
<1>10. CASE PhoneReads
  <2>1. {"calling", "confirmed", "idle", "talking", "releasing"} \subseteq PhoneStates
    BY DEF PhoneStates
  <2>2. {"Setup", "CallConfirmed", "ReleaseComplete", "ConnectAcknowledge", "Release"} \subseteq UpFrames
    BY DEF UpFrames
  <2>3. \A x \in {"Setup", "CallConfirmed", "ReleaseComplete", "ConnectAcknowledge", "Release"} :
           <<x>> \in Seq(UpFrames)
    BY <1>2, <2>2
  <2>4. QED
    BY <1>3, <1>6, <1>10, <2>1, <2>3 DEF PhoneReads
<1>11. CASE PhoneAssigned
  <2>1. down' \in Seq(DownFrames)
    BY <1>1, <1>11 DEF PhoneAssigned
  <2>2. up' \in Seq(UpFrames)
    <3>1. {"AssignmentComplete", "AssignmentFailure"} \subseteq UpFrames
      BY DEF UpFrames
    <3>2. \E x \in UpFrames : up' = Append(up, x)
      BY <1>11, <3>1 DEF PhoneAssigned
    <3>3. QED
      BY <1>1, <3>2
  <2>3. phone' \in Handsets
    BY <1>1, <1>11 DEF PhoneAssigned, Handsets
  <2>4. faults' \in 0..MaxFaults
    BY <1>1, <1>11, MaxFaultsAssumption DEF PhoneAssigned
  <2>5. UNCHANGED <<dir, sip, toBts, peer, tran>>
    BY <1>11 DEF PhoneAssigned
  <2>6. QED
    BY <2>1, <2>2, <2>3, <2>4, <2>5 DEF TypeOK, SipTypeOK
<1>12. QED
  BY <1>7, <1>8, <1>9, <1>10, <1>11 DEF Phone

LEMMA InitTyped == Init => TInv
<1> SUFFICES ASSUME Init PROVE TInv
  OBVIOUS
<1>1. NoDialog \in Dialogs
  BY DEF NoDialog, Dialogs, SipStates, DialogStates
<1>2. sip \in Dialogs /\ tran \in TranEntries /\ phone \in Handsets
  BY <1>1, NoTranTyped DEF Init, Idle, Handsets, PhoneStates
<1>3. peer \in IF dir = "MO" THEN CalleeStates ELSE CallerStates
  BY DEF Init, CalleeStates, CallerStates
<1>4. QED
  BY <1>2, <1>3, MaxFaultsAssumption DEF Init, TInv, TypeOK, SipTypeOK

LEMMA NextTyped == TInv /\ [Next]_vars => TInv'
<1> SUFFICES ASSUME TInv, [Next]_vars PROVE TInv'
  OBVIOUS
<1>1. TypeOK /\ toBts \subseteq Heard
  BY DEF TInv
<1>2. ASSUME TypeOK', dir' = dir, toBts' \subseteq toBts PROVE TInv'
  BY <1>1, <1>2 DEF TInv, Heard
<1>3. CASE ServiceLoop \/ ChannelLost
  <2>1. TypeOK'
    BY <1>1, <1>3, LoopTyped
  <2>2. UNCHANGED <<dir, toBts>>
    BY <1>3 DEF ServiceLoop, ChannelLost, ReadFrame, ReadDialogMessage, Timeout, PageExpires, Defunct,
          CMServiceRequest, MOCSetup, ConnectAcknowledge, MTCStart, CallConfirmed, Alerting, Connect,
          AssignmentComplete, AssignmentFailure, DefaultMessages, Unexpected, Answers, Becomes
  <2>3. QED
    BY <1>2, <2>1, <2>2
<1>4. CASE handleInvite
  <2>1. dir' = dir /\ toBts' \subseteq toBts
    BY <1>4 DEF handleInvite
  <2>2. QED
    BY <1>1, <1>2, <1>4, <2>1, InviteTyped
<1>5. CASE PeriodicService /\ UNCHANGED gsmVars
  BY <1>1, <1>2, <1>5, PeriodicTyped
<1>6. CASE \E m \in Messages : newDriveIncoming(m) /\ UNCHANGED gsmVars
  <2>1. PICK m \in Messages : newDriveIncoming(m) /\ UNCHANGED gsmVars
    BY <1>6
  <2>2. dir' = dir /\ toBts' \subseteq toBts
    BY <2>1 DEF newDriveIncoming
  <2>3. QED
    BY <1>2, <2>1, <2>2, IncomingTyped
<1>7. CASE Phone
  BY <1>1, <1>2, <1>7, PhoneTyped
<1>8. CASE Network
  BY <1>8, NetworkTyped
<1>9. CASE UNCHANGED vars
  BY <1>9 DEF TInv, TypeOK, SipTypeOK, vars, Heard
<1>10. QED
  BY <1>3, <1>4, <1>5, <1>6, <1>7, <1>8, <1>9 DEF Next, SipThread

(* The transaction, its dialog, the handset and the other user agent keep   *)
(* their types, and a transaction that is removed leaves no timer behind.   *)
THEOREM TypeCorrect == Spec => []TypeOK
<1>1. TInv => TypeOK
  BY DEF TInv
<1>2. QED
  BY <1>1, InitTyped, NextTyped, PTL DEF Spec

-----------------------------------------------------------------------------
(* What more is true of every reachable state: first, what L3 and the        *)
(* handset have come to, and which frames may be between them.               *)

Told == HasAny(sip.inbox, Final)
Ending == "T308" \in tran.timers
Unended == sip.tran /\ ~Ending
Leavers == {"Disconnect", "Release", "ReleaseComplete"}
Answered == {"Alerting", "Connect"}

Roles ==
    /\ tran.mach = "MOC" => dir = "MO"
    /\ tran.mach \in {"Paging", "MTC"} => dir = "MT"
    /\ tran.ti <=> tran.mach \in {"MTC", "Assign", "InCall"} \/ (tran.mach = "MOC" /\ sip.tran)
    /\ sip.tran <=> tran.mach = "Paging" \/ tran.ti
    /\ ~sip.tran => sip.inbox = <<>>
    /\ tran.gsm = "CallPresent" => tran.mach = "MTC"

NoCall ==
    tran.mach = "none" =>
        /\ down = <<>> /\ ~phone.tch
        /\ \/ up = <<>> /\ phone.call = "idle"
           \/ /\ dir = "MO" /\ sip = NoDialog
              /\ \/ phone.call = "asking" /\ up = <<"CMServiceRequest">>
                 \/ phone.call = "idle" /\ up = <<"CMServiceRequest", "CMServiceAbort">>

Opening ==
    tran.mach = "MOC" /\ ~tran.ti =>
        /\ sip = NoDialog /\ ~phone.tch /\ ~Ending /\ tran.gsm = "MOCInitiated"
        /\ \/ phone.call = "asking" /\ up = <<>> /\ down = <<"CMServiceAccept">>
           \/ phone.call = "idle" /\ up = <<"CMServiceAbort">> /\ down = <<>>
           \/ phone.call = "calling" /\ up = <<"Setup">> /\ down = <<>>
           \/ phone.call = "leaving" /\ up = <<"Setup", "Disconnect">> /\ down = <<>>

Paged ==
    tran.mach = "Paging" =>
        /\ down = <<>> /\ ~phone.tch /\ ~Ending /\ tran.gsm = "NullState"
        /\ \/ phone.call = "idle" /\ up = <<>>
           \/ phone.call = "paged" /\ up = <<"PagingResponse">>

Offered ==
    tran.gsm = "CallPresent" =>
        /\ ~phone.tch /\ ~Ending
        /\ \/ phone.call = "paged" /\ up = <<>> /\ down = <<"Setup">>
           \/ phone.call = "idle" /\ up = <<"ReleaseComplete">> /\ down = <<>>
           \/ phone.call = "confirmed" /\ up = <<"CallConfirmed">> /\ down = <<>>
           \/ phone.call = "leaving" /\ up = <<"CallConfirmed", "Disconnect">> /\ down = <<>>

(* A call that is under way: its frames, the handset, the call state.       *)
Assignments == {"AssignmentComplete", "AssignmentFailure"}
MOCalling ==
    /\ up \in Seq(Assignments \cup {"ConnectAcknowledge"} \cup Leavers)
    /\ down \in Seq({"AssignmentCommand", "Connect", "Disconnect", "Release"})
    /\ phone.call \in {"calling", "talking", "leaving", "releasing", "idle"}
    /\ tran.gsm \in {"MOCProceeding", "MOCDelivered", "ConnectIndication", "Active",
                     "DisconnectIndication", "ReleaseRequest"}
    /\ HasAny(up, {"ConnectAcknowledge"}) \/ tran.gsm = "Active" => phone.call # "calling"

MTCalling ==
    /\ up \in Seq(Assignments \cup Answered \cup Leavers)
    /\ down \in Seq({"AssignmentCommand", "ConnectAcknowledge", "Disconnect", "Release"})
    /\ phone.call \in {"confirmed", "alerting", "connecting", "talking", "leaving", "releasing", "idle"}
    /\ tran.gsm \in {"MTCConfirmed", "CallReceived", "ConnectIndication", "Active",
                     "DisconnectIndication", "ReleaseRequest"}
    /\ Closes(up, Leavers \cup {"Connect"}, Answered)
    /\ phone.call = "confirmed" => ~HasAny(up, Answered) /\ tran.gsm = "MTCConfirmed" /\ ~Ending
    /\ phone.call = "alerting" =>
          ~HasAny(up, {"Connect"}) /\ tran.gsm \in {"MTCConfirmed", "CallReceived"} /\ ~Ending
    /\ tran.gsm \in {"ConnectIndication", "Active"} \/ Ending => ~HasAny(up, Answered)
    /\ tran.mach = "Assign" => tran.gsm \in {"MTCConfirmed", "DisconnectIndication", "ReleaseRequest"}
    /\ tran.mach = "InCall" /\ ~Ending => tran.gsm = "Active"
    /\ phone.call = "connecting" /\ tran.gsm = "Active" /\ ~Ending => HasAny(down, {"ConnectAcknowledge"})

(* Who leaves has said so, and L3 notices.                                  *)
Clearing ==
    /\ HasAny(down, {"Disconnect", "Release"}) => Ending
    /\ phone.call \in {"releasing", "idle"} => Ending
    /\ tran.gsm \in {"DisconnectIndication", "ReleaseRequest"} => Ending
    /\ phone.call = "leaving" => Ending \/ HasAny(up, {"Disconnect"})
    /\ phone.call \in InCallStates => ~HasAny(up, Leavers)

Calling ==
    tran.ti /\ tran.gsm # "CallPresent" =>
        Clearing /\ (dir = "MO" => MOCalling) /\ (dir = "MT" => MTCalling)

L3Inv == Roles /\ NoCall /\ Opening /\ Paged /\ Offered /\ Calling

(* Then, what the dialog has told, what it has sent and how far the other   *)
(* user agent is.                                                            *)
DialogTold ==
    Unended =>
        /\ sip.state \in Finished => sip.prev \in Final
        /\ sip.prev \in Final /\ tran.mach \in {"MOC", "MTC", "InCall"} => Told
        /\ sip.prev \in Final /\ (tran.mach \in {"Paging", "Assign"} \/ tran.gsm = "CallPresent")
              => sip.state \in Finished

WasAnswered == {"answered", "talking", "bye", "refused", "over"}
SipFinished == Finished \ {"MOCBusy"}

MOFresh == sip.state = "SSNullState" => sip = NoDialog /\ toBts = {} /\ peer = "none"
MOUnmapped == ~sip.mapped /\ sip.state # "SSNullState" => sip.state \in Finished
MOWire ==
    /\ sip.out \subseteq {"INVITE", "ACK", "CANCEL", "BYE", "ByeOk", "NotFound"}
    /\ "OK" \in toBts \/ sip.state = "Active" \/ tran.gsm = "Active" => peer \in WasAnswered
    /\ "Busy" \in toBts => peer \in {"Busy", "over"}
    /\ "Error" \in toBts => peer \in {"Error", "over"}
    /\ "BYE" \in toBts \/ "ByeOk" \in sip.out => peer \in {"bye", "refused", "over"}
    /\ "NotFound" \in sip.out \/ peer = "refused" => ~sip.mapped
    /\ "ByeOk" \in toBts => peer = "over"
    /\ ~sip.tagged
MOUnended ==
    Unended =>
        /\ "CANCEL" \notin sip.out /\ "BYE" \notin sip.out
        /\ "CancelOk" \notin toBts /\ "ByeOk" \notin toBts
        /\ sip.tu["BYE"] = "none" /\ sip.tu["CANCEL"] = "none"
        /\ tran.mach = "Assign" =>
              /\ peer # "talking" /\ ("ACK" \in sip.out => peer \in {"Busy", "Error", "over"})
              /\ peer = "bye" => "OK" \notin toBts
        /\ "ByeOk" \in sip.out \/ peer = "over" =>
              (tran.mach # "Assign" /\ Told) \/ ("OK" \notin toBts /\ sip.state # "Active")
MOHungUp ==
    sip.state # "SSNullState" /\ sip.tu["CANCEL"] = "none"
       /\ peer \in {"none", "invited", "ringing", "answered", "talking"} =>
         \/ sip.tu["BYE"] = "calling" \/ sip.state = "SSFail"
         \/ sip.mapped /\ sip.state \notin SipFinished
MOSip == MOFresh /\ MOUnmapped /\ MOWire /\ MOUnended /\ MOHungUp

MTFresh ==
    sip.last = "none" =>
        /\ sip = [NoDialog EXCEPT !.out = sip.out] /\ tran.mach = "none" /\ sip.out \subseteq {"CancelOk"}
        /\ toBts \subseteq {"INVITE", "CANCEL"} /\ peer \in {"none", "calling", "canceling", "canceled"}
MTUnmapped == ~sip.mapped => sip.state # "Active"
MTOver == sip.last # "none" /\ tran.mach = "none" => sip.state \in SipFinished
MTWire ==
    /\ sip.out \subseteq {"Trying", "Ringing", "OK", "Error", "CancelOk", "ByeOk", "NotFound", "BYE"}
    /\ sip.last \in {"none", "Trying", "Ringing", "OK", "Error"}
    /\ sip.state \notin {"Starting", "Ringing", "MOCBusy", "MODCanceling", "Canceled"}
    /\ "BYE" \in toBts \/ "ByeOk" \in sip.out => peer \in {"bye", "refused", "over"}
    /\ "CANCEL" \in toBts => peer \in {"canceling", "canceled", "bye", "refused", "over"}
    /\ "ByeOk" \in toBts => peer = "over"
    /\ sip.tu["CANCEL"] = "none"
    /\ sip.state = "MODError" => sip.last = "Error"
    /\ peer = "none" => sip.last = "none" /\ toBts = {}
Early == {"NullState", "CallPresent", "MTCConfirmed", "CallReceived"}
MTEarly ==
    Unended /\ tran.gsm \in Early =>
        /\ sip.out \subseteq {"Trying", "Ringing", "CancelOk"} /\ toBts \subseteq {"INVITE", "CANCEL"}
        /\ peer \in {"calling", "proceeding", "canceling", "canceled"}
        /\ sip.state \in {"Proceeding", "MTDCanceling", "SSFail"} /\ sip.last \in {"Trying", "Ringing"}
        /\ ~HasAny(sip.inbox, {"Active"}) /\ ~sip.tagged
MTUnended ==
    Unended =>
        /\ "Error" \notin sip.out /\ "BYE" \notin sip.out /\ "ByeOk" \notin toBts /\ sip.tu["BYE"] = "none"
        /\ sip.last # "Error"
        /\ "ACK" \in toBts \/ sip.state = "Active" => peer \in {"talking", "bye", "refused", "over"}
        /\ "ByeOk" \in sip.out \/ peer = "over" =>
              sip.state # "Active" /\ (~sip.mapped \/ sip.state \in Finished)
MTHungUp ==
    sip.state \in SipFinished /\ sip.last # "Error" /\ peer \in {"calling", "proceeding", "talking"} =>
        sip.tu["BYE"] = "calling" \/ sip.state = "SSFail"
MTSip == MTFresh /\ MTUnmapped /\ MTOver /\ MTWire /\ MTEarly /\ MTUnended /\ MTHungUp

SipInv == DialogTold /\ (dir = "MO" => MOSip) /\ (dir = "MT" => MTSip)

IInv == TInv /\ L3Inv /\ SipInv

-----------------------------------------------------------------------------
(* The SIP threads and the other user agent, which leave L3 alone.           *)

LEMMA FreshDialog ==
  /\ NoDialog.state = "SSNullState" /\ NoDialog.prev = "Undefined" /\ NoDialog.timers = {}
  /\ ~NoDialog.mapped /\ ~NoDialog.tagged /\ NoDialog.last = "none"
  /\ NoDialog.tu["BYE"] = "none" /\ NoDialog.tu["CANCEL"] = "none"
  /\ ~NoDialog.tran /\ NoDialog.inbox = <<>> /\ NoDialog.out = {}
BY DEF NoDialog, Methods

LEMMA L3Kept ==
  ASSUME L3Inv, UNCHANGED gsmVars, UNCHANGED dir, sip'.tran = sip.tran, ~sip.tran => sip'.inbox = sip.inbox,
         dir = "MO" /\ sip = NoDialog => sip' = NoDialog
  PROVE  L3Inv'
<1>1. UNCHANGED <<tran, phone, up, down>>
  BY DEF gsmVars
<1>2. Roles'
  BY <1>1 DEF L3Inv, Roles
<1>3. NoCall'
  BY <1>1 DEF L3Inv, NoCall
<1>4. Opening'
  BY <1>1 DEF L3Inv, Roles, Opening, Ending
<1>5. Paged' /\ Offered'
  BY <1>1 DEF L3Inv, Paged, Offered, Ending
<1>6. Calling'
  BY <1>1 DEF L3Inv, Calling, Clearing, MOCalling, MTCalling, Ending
<1>7. QED
  BY <1>2, <1>3, <1>4, <1>5, <1>6 DEF L3Inv

(* A caller's dialog that has not begun has nobody to deal with.            *)
LEMMA CallerBegan ==
  ASSUME TypeOK, MOFresh, dir = "MO",
         (\E m \in Messages : newDriveIncoming(m)) \/ PeriodicService \/ Peer \/ Lose
  PROVE  sip.state # "SSNullState" /\ sip # NoDialog
<1> SUFFICES ASSUME sip = NoDialog, toBts = {}, peer = "none" PROVE FALSE
  BY FreshDialog DEF MOFresh
<1>1. /\ sip.out = {} /\ ~sip.mapped /\ sip.state = "SSNullState"
      /\ sip.tu["BYE"] = "none" /\ sip.tu["CANCEL"] = "none"
  BY FreshDialog
<1>2. ~\E m \in Messages : newDriveIncoming(m)
  BY DEF newDriveIncoming
<1>3. ~PeriodicService
  BY <1>1 DEF PeriodicService, Repetition, Deadline, Removal, TimerA, TUResend, KillTimer, TUTimeout,
        RemoveFinished, Methods
<1>4. ~PeerHears
  BY <1>1 DEF PeerHears, CalleeHears, CallerHears, EitherHears, Hears
<1>5. ~PeerTimers
  BY DEF PeerTimers, PeerRepeats, PeerGivesUp, Unanswered
<1>6. ~PeerUser
  BY DEF PeerUser
<1>7. ~Lose
  BY <1>1 DEF Lose
<1>8. QED
  BY <1>2, <1>3, <1>4, <1>5, <1>6, <1>7 DEF Peer

(* What is pushed, is told.                                                 *)
LEMMA PushTold ==
  ASSUME DialogTold, UNCHANGED tran, NEW s \in SipStates, Pushed(sip, sip', s)
  PROVE  DialogTold'
<1>1. sip'.state = s /\ sip'.prev = getDialogState(s) /\ sip'.tran = sip.tran
      /\ (getDialogState(s) \in Final <=> s \in Finished)
  BY StateTable DEF Pushed
<1>2. ASSUME Unended, s \in Finished, tran.mach \in {"MOC", "MTC", "InCall"}, tran.gsm # "CallPresent" \/ TRUE
      PROVE  HasAny(sip'.inbox, Final)
  BY <1>2 DEF Pushed, DialogTold, Told, Unended
<1>3. QED
  BY <1>1, <1>2 DEF DialogTold, Unended, Ending, Told

LEMMA QuietTold ==
  ASSUME DialogTold, UNCHANGED tran, sip'.state \in Finished => sip.state \in Finished,
         sip.prev \in Final /\ sip.state \in Finished => sip'.state \in Finished,
         sip'.prev = sip.prev, sip'.tran = sip.tran, sip'.inbox = sip.inbox
  PROVE  DialogTold'
BY DEF DialogTold, Unended, Ending, Told

LEMMA CallerReplies ==
  ASSUME IInv, TypeOK', dir = "MO", UNCHANGED gsmVars, UNCHANGED <<dir, peer>>,
         NEW m \in {"Trying", "Ringing", "OK", "Busy", "Error"}, m \in toBts, toBts' = toBts \ {m},
         sip.mapped, sip' = MOWriteHighSide(sip, m), sip.state # "SSNullState"
  PROVE  DialogTold' /\ MOSip'
<1>1. sip \in Dialogs /\ StateOf(m) \in SipStates
  BY HereIs DEF IInv, TInv, StateOf, SipStates
<1>2. /\ Pushed(sip, sip', StateOf(m))
      /\ sip'.mapped /\ sip'.tagged = sip.tagged /\ sip'.tu = sip.tu
      /\ sip'.out = sip.out \cup (IF m \in {"Busy", "Error"} THEN {"ACK"} ELSE {})
  BY <1>1, MOReplies
<1>3. UNCHANGED <<tran, peer>>
  BY DEF gsmVars
<1>4. DialogTold'
  BY <1>1, <1>2, <1>3, PushTold DEF IInv, SipInv
<1>5. sip'.state = StateOf(m) /\ sip'.tran = sip.tran /\ (Told => Told')
  BY <1>2 DEF Pushed, Told
<1>6. StateOf(m) \notin {"SSNullState"}
  BY DEF StateOf
<1>7. MOFresh' /\ MOUnmapped'
  BY <1>2, <1>5, <1>6 DEF MOFresh, MOUnmapped
<1>8. MOWire'
  BY <1>2, <1>3, <1>5 DEF IInv, SipInv, MOSip, MOWire, StateOf, WasAnswered
<1>9. MOUnended'
  BY <1>2, <1>3, <1>5 DEF IInv, SipInv, MOSip, MOWire, MOUnended, Unended, Ending, StateOf, WasAnswered
<1>10. MOHungUp'
  BY <1>2, <1>3, <1>5 DEF IInv, SipInv, MOSip, MOWire, MOHungUp, StateOf, SipFinished, Finished
<1>11. QED
  BY <1>4, <1>7, <1>8, <1>9, <1>10 DEF MOSip

LEMMA CallerIsEnded ==
  ASSUME IInv, TypeOK', dir = "MO", UNCHANGED gsmVars, UNCHANGED <<dir, peer>>,
         NEW m \in Methods, m \in toBts, toBts' = toBts \ {m},
         sip' = IF Found(sip, m) THEN SipMTEnd(sip, m) ELSE NoSuchDialog(sip, m), sip.state # "SSNullState"
  PROVE  DialogTold' /\ MOSip'
<1>1. sip \in Dialogs /\ "MTDClearing" \in SipStates /\ m = "BYE" /\ ~sip.tagged
  BY HereIs DEF IInv, TInv, SipStates, Heard, Methods, Replies, SipInv, MOSip, MOWire
<1>2. UNCHANGED <<tran, peer>> /\ peer \in {"bye", "refused", "over"}
  BY <1>1 DEF gsmVars, IInv, SipInv, MOSip, MOWire
<1>3. CASE sip.mapped
  <2>1. Pushed(sip, sip', "MTDClearing") /\ sip'.mapped /\ ~sip'.tagged /\ sip'.tu = sip.tu
        /\ sip'.out = sip.out \cup {"ByeOk"}
    BY <1>1, <1>3, MTEnds DEF Found
  <2>2. DialogTold'
    BY <1>1, <1>2, <2>1, PushTold DEF IInv, SipInv
  <2>3. sip'.state = "MTDClearing" /\ sip'.tran = sip.tran /\ sip'.prev \in Final /\ (Told => Told')
    BY <2>1, StateTable DEF Pushed, Told, Finished, SipStates
  <2>4. MOFresh' /\ MOUnmapped'
    BY <2>1, <2>3 DEF MOFresh, MOUnmapped
  <2>5. MOWire'
    BY <1>2, <1>3, <2>1, <2>3 DEF IInv, SipInv, MOSip, MOWire, WasAnswered
  <2>6. Unended /\ tran.mach # "Assign" => Told'
    <3>1. Unended => tran.mach \in {"MOC", "Assign", "InCall"}
      BY DEF IInv, L3Inv, Roles, Paged, Unended, TInv, TypeOK, TranEntries, Machines
    <3>2. QED
      BY <1>2, <2>2, <2>3, <3>1 DEF DialogTold, Unended, Ending
  <2>7. MOUnended'
    BY <1>2, <1>3, <2>1, <2>3, <2>6 DEF IInv, SipInv, MOSip, MOWire, MOUnended, Unended, Ending
  <2>8. MOHungUp'
    BY <1>2 DEF MOHungUp
  <2>9. QED
    BY <2>2, <2>4, <2>5, <2>7, <2>8 DEF MOSip
<1>4. CASE ~sip.mapped
  <2>1. sip' = [sip EXCEPT !.out = sip.out \cup {"NotFound"}]
    BY <1>1, <1>4 DEF Found, NoSuchDialog, sipWrite, Dialogs
  <2>2. /\ sip'.state = sip.state /\ sip'.prev = sip.prev /\ sip'.tran = sip.tran /\ sip'.inbox = sip.inbox
        /\ sip'.mapped = sip.mapped /\ sip'.tagged = sip.tagged /\ sip'.tu = sip.tu /\ sip'.out = sip.out \cup {"NotFound"}
        /\ sip.state \in Finished
    BY <1>1, <1>4, <2>1 DEF Dialogs, IInv, SipInv, MOSip, MOUnmapped
  <2>3. DialogTold'
    BY <1>2, <2>2, QuietTold DEF IInv, SipInv
  <2>4. MOFresh' /\ MOUnmapped'
    BY <2>2 DEF MOFresh, MOUnmapped, IInv, SipInv, MOSip
  <2>5. MOWire'
    BY <1>2, <1>4, <2>2 DEF IInv, SipInv, MOSip, MOWire, WasAnswered
  <2>6. Unended /\ tran.mach # "Assign" => Told
    <3>1. Unended => tran.mach \in {"MOC", "Assign", "InCall"}
      BY DEF IInv, L3Inv, Roles, Paged, Unended, TInv, TypeOK, TranEntries, Machines
    <3>2. QED
      BY <2>2, <3>1 DEF DialogTold, IInv, SipInv
  <2>7. sip.state # "Active"
    BY <2>2 DEF Finished
  <2>8. MOUnended'
    BY <1>2, <2>2, <2>6, <2>7 DEF IInv, SipInv, MOSip, MOWire, MOUnended, Unended, Ending, Told
  <2>9. MOHungUp'
    BY <1>2 DEF MOHungUp
  <2>10. QED
    BY <2>3, <2>4, <2>5, <2>8, <2>9 DEF MOSip
<1>5. QED
  BY <1>3, <1>4

LEMMA CallerIsAnswered ==
  ASSUME IInv, TypeOK', dir = "MO", UNCHANGED gsmVars, UNCHANGED <<dir, peer>>,
         NEW m \in Methods, NEW ok \in {"CancelOk", "ByeOk"}, ok = (IF m = "BYE" THEN "ByeOk" ELSE "CancelOk"),
         ok \in toBts, toBts' = toBts \ {ok}, sip' = TUWriteHighSide(sip, m), sip.state # "SSNullState"
  PROVE  DialogTold' /\ MOSip'
<1>1. sip \in Dialogs /\ UNCHANGED <<tran, peer>> /\ m \in {"BYE", "CANCEL"}
  BY HereIs DEF IInv, TInv, gsmVars, Methods
<1>2. ~Unended /\ ~Unended'
  <2>1. ~Unended
    BY DEF IInv, SipInv, MOSip, MOUnended
  <2>2. sip'.tran = sip.tran
    BY <1>1, TUReplies DEF Pushed
  <2>3. QED
    BY <1>1, <2>1, <2>2 DEF Unended, Ending
<1>3. m = "BYE" => peer = "over"
  BY DEF IInv, SipInv, MOSip, MOWire
<1>4. CASE sip.tu[m] = "calling"
  <2> DEFINE s == IF m = "BYE" THEN "Cleared" ELSE "Canceled"
  <2>1. /\ sip'.state \in {"Cleared", "Canceled"} /\ sip'.mapped = sip.mapped /\ sip'.tagged = sip.tagged
        /\ sip'.tu = [sip.tu EXCEPT ![m] = "done"] /\ sip'.out = sip.out
    BY <1>1, <1>4, TUReplies DEF Pushed
  <2>2. m = "CANCEL" => sip'.tu["CANCEL"] = "done"
    BY <1>1, <2>1 DEF Dialogs, Methods
  <2>3. MOFresh' /\ MOUnmapped'
    BY <2>1 DEF MOFresh, MOUnmapped, Finished
  <2>4. MOWire'
    BY <1>1, <2>1 DEF IInv, SipInv, MOSip, MOWire, WasAnswered
  <2>5. MOHungUp'
    BY <1>1, <1>3, <2>2 DEF MOHungUp
  <2>6. QED
    BY <1>2, <2>3, <2>4, <2>5 DEF MOSip, MOUnended, DialogTold
<1>5. CASE sip.tu[m] # "calling"
  <2>1. sip' = sip
    BY <1>1, <1>5, TUReplies
  <2>2. MOFresh' /\ MOUnmapped' /\ MOWire' /\ MOHungUp'
    BY <1>1, <2>1 DEF IInv, SipInv, MOSip, MOFresh, MOUnmapped, MOWire, MOHungUp
  <2>3. QED
    BY <1>2, <2>2 DEF MOSip, MOUnended, DialogTold
<1>6. QED
  BY <1>4, <1>5

(* A datagram more or less on its way to the other user agent.              *)
LEMMA CallerSends ==
  ASSUME IInv, dir = "MO", UNCHANGED <<tran, dir, toBts, peer>>, sip.state # "SSNullState",
         NEW O, sip' = [sip EXCEPT !.out = O], O \subseteq sip.out \cup {"INVITE", "CANCEL", "BYE"},
         Unended => O \subseteq sip.out \cup {"INVITE"}
  PROVE  DialogTold' /\ MOSip'
<1>1. sip \in Dialogs
  BY HereIs DEF IInv, TInv
<1>2. /\ sip'.state = sip.state /\ sip'.prev = sip.prev /\ sip'.tran = sip.tran /\ sip'.inbox = sip.inbox
      /\ sip'.mapped = sip.mapped /\ sip'.tagged = sip.tagged /\ sip'.tu = sip.tu /\ sip'.out = O
  BY <1>1 DEF Dialogs
<1>3. DialogTold'
  BY <1>2, QuietTold DEF IInv, SipInv
<1>4. MOFresh' /\ MOUnmapped'
  BY <1>2 DEF MOFresh, MOUnmapped, IInv, SipInv, MOSip
<1>5. MOWire'
  BY <1>2 DEF IInv, SipInv, MOSip, MOWire, WasAnswered
<1>6. MOUnended'
  BY <1>2 DEF IInv, SipInv, MOSip, MOUnended, Unended, Ending, Told
<1>7. MOHungUp'
  BY <1>2 DEF IInv, SipInv, MOSip, MOHungUp
<1>8. QED
  BY <1>3, <1>4, <1>5, <1>6, <1>7 DEF MOSip

LEMMA CallerPeriodic ==
  ASSUME IInv, TypeOK', dir = "MO", UNCHANGED gsmVars, PeriodicService, sip.state # "SSNullState"
  PROVE  DialogTold' /\ MOSip'
<1>1. sip \in Dialogs /\ UNCHANGED <<tran, dir, toBts, peer>>
  BY HereIs, PeriodicTyped DEF IInv, TInv, gsmVars
<1>2. CASE Repetition
  <2>1. PICK m \in {"INVITE", "CANCEL", "BYE"} : sip' = sipWrite(sip, m) /\ (m = "INVITE" \/ sip.tu[m] = "calling")
    BY <1>2 DEF Repetition, TimerA, TUResend, Methods
  <2>2. sip' = [sip EXCEPT !.out = sip.out \cup {m}]
    BY <1>1, <2>1 DEF sipWrite, Dialogs
  <2>3. Unended => m = "INVITE"
    BY <2>1 DEF IInv, SipInv, MOSip, MOUnended
  <2>4. QED
    BY <1>1, <2>2, <2>3, CallerSends
<1>3. CASE KillTimer \/ \E m \in Methods : TUTimeout(m)
  <2>1. /\ Pushed(sip, sip', "SSFail") /\ ~sip'.tagged /\ sip'.out = sip.out
        /\ sip'.tu = sip.tu \/ ~Unended
        /\ ~sip.mapped => ~sip'.mapped
    <3>1. "SSFail" \in SipStates \ {"Starting"} /\ ~sip.tagged
      BY DEF SipStates, IInv, SipInv, MOSip, MOWire
    <3>2. CASE KillTimer
      <4> DEFINE w == stopTimers(sip)
                 p == dialogPushState(w, "SSFail")
      <4>1. w \in Dialogs /\ w = [sip EXCEPT !.timers = sip.timers \ {"BF", "H"}]
        BY <1>1, StopsTimers
      <4>2. p \in Dialogs /\ Pushed(w, p, "SSFail") /\ p.tagged = w.tagged /\ p.out = w.out /\ p.tu = w.tu /\ p.mapped = w.mapped
        BY <3>1, <4>1, Pushes
      <4>3. sip' = [p EXCEPT !.mapped = FALSE]
        BY <3>2 DEF KillTimer
      <4> HIDE DEF p, w
      <4>4. QED
        BY <1>1, <3>1, <4>1, <4>2, <4>3 DEF Pushed, Dialogs
    <3>3. ASSUME NEW m \in Methods, TUTimeout(m)
          PROVE  /\ Pushed(sip, sip', "SSFail") /\ ~sip'.tagged /\ sip'.out = sip.out /\ ~Unended
                 /\ ~sip.mapped => ~sip'.mapped
      <4> DEFINE p == dialogPushState(sip, "SSFail")
      <4>1. p \in Dialogs /\ Pushed(sip, p, "SSFail") /\ p.tagged = sip.tagged /\ p.out = sip.out /\ p.mapped = sip.mapped
        BY <1>1, <3>1, Pushes
      <4>2. sip' = [p EXCEPT !.tu[m] = "done"] /\ sip.tu[m] = "calling"
        BY <3>3 DEF TUTimeout
      <4>3. ~Unended
        BY <4>2 DEF IInv, SipInv, MOSip, MOUnended, Methods
      <4> HIDE DEF p
      <4>4. QED
        BY <1>1, <3>1, <4>1, <4>2, <4>3 DEF Pushed, Dialogs
    <3>4. QED
      BY <1>3, <3>2, <3>3
  <2>2. DialogTold'
    BY <1>1, <2>1, PushTold DEF IInv, SipInv, SipStates
  <2>3. sip'.state = "SSFail" /\ sip'.tran = sip.tran /\ (Told => Told')
    BY <2>1 DEF Pushed, Told
  <2>4. MOFresh' /\ MOUnmapped' /\ MOHungUp'
    BY <2>3 DEF MOFresh, MOUnmapped, MOHungUp, Finished
  <2>5. MOWire'
    BY <1>1, <2>1, <2>3 DEF IInv, SipInv, MOSip, MOWire, WasAnswered
  <2>6. MOUnended'
    BY <1>1, <2>1, <2>3 DEF IInv, SipInv, MOSip, MOUnended, Unended, Ending
  <2>7. QED
    BY <2>2, <2>4, <2>5, <2>6 DEF MOSip
<1>4. CASE RemoveFinished
  <2>1. sip' = [sip EXCEPT !.mapped = FALSE] /\ sip.state \in SipFinished
    BY <1>1, <1>4, Ends DEF RemoveFinished, SipFinished
  <2>2. /\ sip'.state = sip.state /\ sip'.prev = sip.prev /\ sip'.tran = sip.tran /\ sip'.inbox = sip.inbox
        /\ sip'.tagged = sip.tagged /\ sip'.tu = sip.tu /\ sip'.out = sip.out /\ ~sip'.mapped
    BY <1>1, <2>1 DEF Dialogs
  <2>3. DialogTold'
    BY <1>1, <2>2, QuietTold DEF IInv, SipInv
  <2>4. MOFresh' /\ MOUnmapped'
    BY <2>1, <2>2 DEF MOFresh, MOUnmapped, IInv, SipInv, MOSip, SipFinished
  <2>5. MOWire'
    BY <1>1, <2>2 DEF IInv, SipInv, MOSip, MOWire, WasAnswered
  <2>6. MOUnended'
    BY <1>1, <2>2 DEF IInv, SipInv, MOSip, MOUnended, Unended, Ending, Told
  <2>7. MOHungUp'
    BY <1>1, <2>1, <2>2 DEF IInv, SipInv, MOSip, MOHungUp
  <2>8. QED
    BY <2>3, <2>4, <2>5, <2>6, <2>7 DEF MOSip
<1>5. QED
  BY <1>2, <1>3, <1>4 DEF PeriodicService, Deadline, Removal

(* How the other user agent may move, which hears what O has no more.       *)
CalleeStep(O) ==
    /\ UNCHANGED <<tran, dir>> /\ sip' = [sip EXCEPT !.out = O] /\ O \subseteq sip.out
    /\ "OK" \in toBts' \/ peer \in WasAnswered => peer' \in WasAnswered
    /\ "Busy" \in toBts' => peer' \in {"Busy", "over"}
    /\ "Error" \in toBts' => peer' \in {"Error", "over"}
    /\ "BYE" \in toBts' \/ "ByeOk" \in O => peer' \in {"bye", "refused", "over"}
    /\ peer' = "refused" => peer = "refused" \/ "NotFound" \in sip.out
    /\ "ByeOk" \in toBts' => peer' = "over"
    /\ peer' \in {"none", "invited", "ringing", "answered", "talking"} =>
          peer \in {"none", "invited", "ringing", "answered", "talking"}
    /\ Unended =>
          /\ "CancelOk" \notin toBts' /\ "ByeOk" \notin toBts'
          /\ peer' = "talking" => tran.mach # "Assign" \/ peer = "talking"
          /\ peer \in {"Busy", "Error", "over"} => peer' \in {"Busy", "Error", "over"}
          /\ peer' = "bye" /\ "OK" \in toBts' => tran.mach # "Assign" \/ (peer = "bye" /\ "OK" \in toBts)
          /\ peer' = "over" =>
                peer = "over" \/ "ByeOk" \in sip.out \/ ("OK" \notin toBts /\ sip.state # "Active")
          /\ "ByeOk" \in sip.out \/ peer' = "over" => ("OK" \in toBts' => "OK" \in toBts)

LEMMA CalleeMoves ==
  ASSUME IInv, dir = "MO", sip.state # "SSNullState", NEW O, CalleeStep(O)
  PROVE  DialogTold' /\ MOSip'
<1>1. sip \in Dialogs /\ UNCHANGED <<tran, dir>> /\ sip' = [sip EXCEPT !.out = O] /\ O \subseteq sip.out
  BY HereIs DEF IInv, TInv, CalleeStep
<1>2. /\ sip'.state = sip.state /\ sip'.prev = sip.prev /\ sip'.tran = sip.tran /\ sip'.inbox = sip.inbox
      /\ sip'.mapped = sip.mapped /\ sip'.tagged = sip.tagged /\ sip'.tu = sip.tu /\ sip'.out = O
  BY <1>1 DEF Dialogs
<1>3. DialogTold'
  BY <1>1, <1>2, QuietTold DEF IInv, SipInv
<1>4. MOFresh' /\ MOUnmapped'
  BY <1>2 DEF MOFresh, MOUnmapped, IInv, SipInv, MOSip
<1>5. MOWire'
  BY <1>1, <1>2 DEF IInv, SipInv, MOSip, MOWire, CalleeStep
<1>6. MOUnended'
  BY <1>1, <1>2 DEF IInv, SipInv, MOSip, MOUnended, CalleeStep, Unended, Ending, Told
<1>7. MOHungUp'
  BY <1>1, <1>2 DEF IInv, SipInv, MOSip, MOHungUp, CalleeStep
<1>8. QED
  BY <1>3, <1>4, <1>5, <1>6, <1>7 DEF MOSip

LEMMA CalleeHeard ==
  ASSUME IInv, dir = "MO", UNCHANGED gsmVars, PeerHears, sip.state # "SSNullState"
  PROVE  DialogTold' /\ MOSip'
<1>1. UNCHANGED tran /\ sip \in Dialogs /\ peer \in CalleeStates
  BY HereIs DEF gsmVars, IInv, TInv, TypeOK, SipTypeOK
<1>2. MOWire /\ MOUnended
  BY DEF IInv, SipInv, MOSip
<1>3. ASSUME NEW m, NEW s, NEW ms, Hears(m, s, ms), CalleeStep(sip.out \ {m}) PROVE DialogTold' /\ MOSip'
  BY <1>3, CalleeMoves
<1>4. CASE Hears("INVITE", IF peer = "none" THEN "invited" ELSE peer, IF peer = "none" THEN {"Trying"} ELSE Answer)
  <2> DEFINE ms == IF peer = "none" THEN {"Trying"} ELSE Answer
  <2>1. /\ sip' = [sip EXCEPT !.out = sip.out \ {"INVITE"}] /\ UNCHANGED dir
        /\ peer' = IF peer = "none" THEN "invited" ELSE peer
        /\ toBts' = toBts \cup ms
    BY <1>1, <1>4 DEF Hears, Dialogs
  <2>2. /\ ms \subseteq {"Trying", "Ringing", "OK", "Busy", "Error"}
        /\ "OK" \in ms => peer = "answered"
        /\ "Busy" \in ms => peer = "Busy" /\ ("Error" \in ms => peer = "Error")
        /\ "Error" \in ms => peer = "Error"
    BY DEF Answer
  <2> HIDE DEF ms
  <2>3. CalleeStep(sip.out \ {"INVITE"})
    BY <1>1, <1>2, <2>1, <2>2 DEF CalleeStep, MOWire, MOUnended, WasAnswered
  <2>4. QED
    BY <1>3, <1>4, <2>3
<1>5. CASE Hears("ACK", CASE peer = "answered" -> "talking" [] peer \in {"Busy", "Error"} -> "over"
                         [] OTHER -> peer, {})
  <2>1. /\ sip' = [sip EXCEPT !.out = sip.out \ {"ACK"}] /\ UNCHANGED <<dir, toBts>> /\ "ACK" \in sip.out
        /\ \/ peer = "answered" /\ peer' = "talking"
           \/ peer \in {"Busy", "Error"} /\ peer' = "over"
           \/ peer \notin {"answered", "Busy", "Error"} /\ peer' = peer
    BY <1>1, <1>5 DEF Hears, Dialogs
  <2>2. CalleeStep(sip.out \ {"ACK"})
    BY <1>1, <1>2, <2>1 DEF CalleeStep, MOWire, MOUnended, WasAnswered
  <2>3. QED
    BY <1>3, <1>5, <2>2
<1>6. CASE Hears("CANCEL", peer, {"CancelOk"}) \/ (peer \in {"invited", "ringing"} /\ Hears("CANCEL", "Error", {"CancelOk", "Error"}))
  <2>1. /\ sip' = [sip EXCEPT !.out = sip.out \ {"CANCEL"}] /\ UNCHANGED dir /\ "CANCEL" \in sip.out
        /\ \/ peer' = peer /\ toBts' = toBts \cup {"CancelOk"}
           \/ peer \in {"invited", "ringing"} /\ peer' = "Error" /\ toBts' = toBts \cup {"CancelOk", "Error"}
    BY <1>1, <1>6 DEF Hears, Dialogs
  <2>2. ~Unended
    BY <1>2, <2>1 DEF MOUnended
  <2>3. CalleeStep(sip.out \ {"CANCEL"})
    BY <1>1, <1>2, <2>1, <2>2 DEF CalleeStep, MOWire, WasAnswered
  <2>4. QED
    BY <1>3, <1>6, <2>3
<1>7. CASE Hears("BYE", "over", {"ByeOk"})
  <2>1. /\ sip' = [sip EXCEPT !.out = sip.out \ {"BYE"}] /\ UNCHANGED dir /\ "BYE" \in sip.out
        /\ peer' = "over" /\ toBts' = toBts \cup {"ByeOk"}
    BY <1>1, <1>7 DEF Hears, Dialogs
  <2>2. ~Unended
    BY <1>2, <2>1 DEF MOUnended
  <2>3. CalleeStep(sip.out \ {"BYE"})
    BY <1>1, <1>2, <2>1, <2>2 DEF CalleeStep, MOWire, WasAnswered
  <2>4. QED
    BY <1>3, <1>7, <2>3
<1>8. CASE Hears("ByeOk", IF peer = "bye" THEN "over" ELSE peer, {})
  <2>1. /\ sip' = [sip EXCEPT !.out = sip.out \ {"ByeOk"}] /\ UNCHANGED <<dir, toBts>> /\ "ByeOk" \in sip.out
        /\ peer' = IF peer = "bye" THEN "over" ELSE peer
    BY <1>1, <1>8 DEF Hears, Dialogs
  <2>2. CalleeStep(sip.out \ {"ByeOk"})
    BY <1>1, <1>2, <2>1 DEF CalleeStep, MOWire, MOUnended, WasAnswered
  <2>3. QED
    BY <1>3, <1>8, <2>2
<1>9. CASE Hears("NotFound", IF peer = "bye" THEN "refused" ELSE peer, {})
  <2>1. /\ sip' = [sip EXCEPT !.out = sip.out \ {"NotFound"}] /\ UNCHANGED <<dir, toBts>>
        /\ "NotFound" \in sip.out /\ peer' = IF peer = "bye" THEN "refused" ELSE peer
    BY <1>1, <1>9 DEF Hears, Dialogs
  <2>2. CalleeStep(sip.out \ {"NotFound"})
    BY <1>1, <1>2, <2>1 DEF CalleeStep, MOWire, MOUnended, WasAnswered
  <2>3. QED
    BY <1>3, <1>9, <2>2
<1>10. QED
  BY <1>4, <1>5, <1>6, <1>7, <1>8, <1>9 DEF PeerHears, CalleeHears, CallerHears, EitherHears

LEMMA CalleeActs ==
  ASSUME IInv, dir = "MO", UNCHANGED gsmVars, PeerTimers \/ PeerUser \/ Lose, sip.state # "SSNullState"
  PROVE  DialogTold' /\ MOSip'
<1>1. UNCHANGED tran /\ sip \in Dialogs /\ peer \in CalleeStates
  BY HereIs DEF gsmVars, IInv, TInv, TypeOK, SipTypeOK
<1>2. MOWire /\ MOUnended /\ sip = [sip EXCEPT !.out = sip.out]
  BY <1>1 DEF IInv, SipInv, MOSip, Dialogs
<1>3. CASE PeerRepeats
  <2>1. /\ sip.out = {} /\ toBts = {} /\ UNCHANGED <<dir, sip, peer>>
        /\ "OK" \in toBts' => peer = "answered" /\ ("Busy" \in toBts' => peer = "Busy")
        /\ "Busy" \in toBts' => peer = "Busy" /\ ("Error" \in toBts' => peer = "Error")
        /\ "Error" \in toBts' => peer = "Error"
        /\ "BYE" \in toBts' => peer = "bye"
        /\ "ByeOk" \notin toBts' /\ "CancelOk" \notin toBts'
    BY <1>3 DEF PeerRepeats, Quiet, Unanswered, Answer
  <2>2. CalleeStep(sip.out)
    BY <1>1, <1>2, <2>1 DEF CalleeStep, MOWire, MOUnended, WasAnswered
  <2>3. QED
    BY <2>2, CalleeMoves
<1>4. CASE PeerGivesUp
  <2>1. /\ sip.out = {} /\ toBts = {} /\ UNCHANGED <<dir, sip>>
        /\ \/ peer = "answered" /\ peer' = "bye" /\ toBts' = {"BYE"}
           \/ peer \in {"Busy", "Error"} /\ peer' = "over" /\ toBts' = {}
    BY <1>1, <1>4 DEF PeerGivesUp, Quiet, Says, CalleeStates
  <2>2. CalleeStep(sip.out)
    BY <1>1, <1>2, <2>1 DEF CalleeStep, MOWire, MOUnended, WasAnswered
  <2>3. QED
    BY <2>2, CalleeMoves
<1>5. CASE PeerUser
  <2>1. /\ UNCHANGED <<dir, sip>>
        /\ \/ peer = "invited" /\ peer' = "ringing" /\ toBts' = toBts \cup {"Ringing"}
           \/ peer \in {"invited", "ringing"} /\ peer' = "answered" /\ toBts' = toBts \cup {"OK"}
           \/ peer \in {"invited", "ringing"} /\ peer' = "Busy" /\ toBts' = toBts \cup {"Busy"}
           \/ peer \in {"invited", "ringing"} /\ peer' = "Error" /\ toBts' = toBts \cup {"Error"}
           \/ peer = "talking" /\ peer' = "bye" /\ toBts' = toBts \cup {"BYE"}
    BY <1>1, <1>5 DEF PeerUser, Says, CalleeStates
  <2>2. peer = "talking" => tran.mach # "Assign" \/ ~Unended
    BY <1>2 DEF MOUnended
  <2>3. CalleeStep(sip.out)
    BY <1>1, <1>2, <2>1, <2>2 DEF CalleeStep, MOWire, MOUnended, WasAnswered
  <2>4. QED
    BY <2>3, CalleeMoves
<1>6. CASE Lose
  <2>1. /\ UNCHANGED <<dir, peer>> /\ toBts' \subseteq toBts
        /\ \/ UNCHANGED sip
           \/ \E m \in sip.out : sip' = [sip EXCEPT !.out = sip.out \ {m}]
    BY <1>1, <1>6 DEF Lose, Dialogs
  <2>2. PICK O \in SUBSET sip.out : sip' = [sip EXCEPT !.out = O]
    BY <1>2, <2>1
  <2>3. CalleeStep(O)
    BY <1>1, <1>2, <2>1, <2>2 DEF CalleeStep, MOWire, MOUnended, WasAnswered
  <2>4. QED
    BY <2>3, CalleeMoves
<1>7. QED
  BY <1>3, <1>4, <1>5, <1>6 DEF PeerTimers

(* Timers push, and the other user agent does not reach into the dialog.    *)
LEMMA PeriodicTells ==
  ASSUME TypeOK, PeriodicService
  PROVE  sip'.tran = sip.tran /\ (~sip.tran => sip'.inbox = sip.inbox)
<1>1. sip \in Dialogs /\ "SSFail" \in SipStates \ {"Starting"}
  BY HereIs DEF SipStates
<1>2. CASE KillTimer
  <2> DEFINE w == stopTimers(sip)
             p == dialogPushState(w, "SSFail")
  <2>1. w \in Dialogs /\ w = [sip EXCEPT !.timers = sip.timers \ {"BF", "H"}]
    BY <1>1, StopsTimers
  <2>2. p \in Dialogs /\ Pushed(w, p, "SSFail")
    BY <1>1, <2>1, Pushes
  <2>3. sip' = [p EXCEPT !.mapped = FALSE]
    BY <1>2 DEF KillTimer
  <2> HIDE DEF p, w
  <2>4. QED
    BY <1>1, <2>1, <2>2, <2>3 DEF Pushed, Dialogs
<1>3. ASSUME NEW m \in Methods, TUTimeout(m) PROVE sip'.tran = sip.tran /\ (~sip.tran => sip'.inbox = sip.inbox)
  <2> DEFINE p == dialogPushState(sip, "SSFail")
  <2>1. p \in Dialogs /\ Pushed(sip, p, "SSFail")
    BY <1>1, Pushes
  <2>2. sip' = [p EXCEPT !.tu[m] = "done"]
    BY <1>3 DEF TUTimeout
  <2> HIDE DEF p
  <2>3. QED
    BY <2>1, <2>2 DEF Pushed, Dialogs
<1>4. CASE Repetition \/ Removal
  BY <1>1, <1>4 DEF Repetition, TimerA, TUResend, sipWrite, Removal, RemoveFinished, Dialogs
<1>5. QED
  BY <1>2, <1>3, <1>4 DEF PeriodicService, Deadline

LEMMA PeerTells ==
  ASSUME TypeOK, Peer \/ Lose
  PROVE  /\ UNCHANGED dir
         /\ \E O \in SUBSET sip.out : sip' = [sip EXCEPT !.out = O]
         /\ sip'.tran = sip.tran /\ sip'.inbox = sip.inbox
<1>1. sip \in Dialogs
  BY HereIs
<1>2. UNCHANGED dir /\ \E O \in SUBSET sip.out : sip' = [sip EXCEPT !.out = O]
  <2>1. sip = [sip EXCEPT !.out = sip.out]
    BY <1>1 DEF Dialogs
  <2>2. ASSUME NEW m, NEW s, NEW ms, Hears(m, s, ms)
        PROVE  UNCHANGED dir /\ \E O \in SUBSET sip.out : sip' = [sip EXCEPT !.out = O]
    BY <1>1, <2>2 DEF Hears, Dialogs
  <2>3. ASSUME UNCHANGED <<dir, sip>>
        PROVE  UNCHANGED dir /\ \E O \in SUBSET sip.out : sip' = [sip EXCEPT !.out = O]
    BY <2>1, <2>3
  <2>4. CASE PeerHears
    BY <2>2, <2>4 DEF PeerHears, CalleeHears, CallerHears, EitherHears
  <2>5. CASE PeerTimers \/ PeerUser
    BY <2>3, <2>5 DEF PeerTimers, PeerRepeats, PeerGivesUp, PeerUser, Says
  <2>6. CASE Lose
    <3>1. UNCHANGED dir /\ (UNCHANGED sip \/ \E m \in sip.out : sip' = [sip EXCEPT !.out = sip.out \ {m}])
      BY <1>1, <2>6 DEF Lose, Dialogs
    <3>2. QED
      BY <2>1, <3>1
  <2>7. QED
    BY <2>4, <2>5, <2>6 DEF Peer
<1>3. QED
  BY <1>1, <1>2 DEF Dialogs

(* Whatever happens to the dialog of a caller outside L3.                   *)
LEMMA CallerSide ==
  ASSUME IInv, TypeOK', dir = "MO", UNCHANGED gsmVars,
         (\E m \in Messages : newDriveIncoming(m)) \/ PeriodicService \/ Peer \/ Lose
  PROVE  DialogTold' /\ MOSip' /\ L3Inv'
<1>1. /\ sip.state # "SSNullState" /\ sip # NoDialog /\ sip \in Dialogs /\ toBts \subseteq Heard
      /\ TypeOK /\ MOFresh /\ L3Inv /\ Roles /\ ~sip.tagged
  BY CallerBegan, HereIs DEF IInv, TInv, SipInv, MOSip, MOWire, L3Inv
<1>2. ASSUME DialogTold', MOSip', UNCHANGED dir, sip'.tran = sip.tran, ~sip.tran => sip'.inbox = sip.inbox
      PROVE  DialogTold' /\ MOSip' /\ L3Inv'
  BY <1>1, <1>2, L3Kept
<1>3. ASSUME NEW m \in Messages, newDriveIncoming(m) PROVE DialogTold' /\ MOSip' /\ L3Inv'
  <2>1. /\ m \in toBts /\ toBts' = toBts \ {m} /\ UNCHANGED <<dir, peer, faults>>
        /\ m \in {"Trying", "Ringing", "OK", "Busy", "Error", "CancelOk", "ByeOk", "BYE"}
    BY <1>1, <1>3 DEF newDriveIncoming, Heard, Replies
  <2>2. CASE m \in {"CancelOk", "ByeOk"}
    <3>1. PICK k \in Methods : m = (IF k = "BYE" THEN "ByeOk" ELSE "CancelOk") /\ sip' = TUWriteHighSide(sip, k)
      BY <1>3, <2>2 DEF newDriveIncoming, Methods
    <3>2. DialogTold' /\ MOSip'
      BY <1>1, <2>1, <2>2, <3>1, CallerIsAnswered
    <3>3. sip'.tran = sip.tran /\ (~sip.tran => sip'.inbox = sip.inbox)
      BY <1>1, <3>1, TUReplies DEF Pushed
    <3>4. QED
      BY <1>2, <2>1, <3>2, <3>3
  <2>3. CASE m = "BYE"
    <3>1. sip' = IF Found(sip, m) THEN SipMTEnd(sip, m) ELSE NoSuchDialog(sip, m)
      BY <1>3, <2>3 DEF newDriveIncoming, Methods
    <3>2. m \in Methods
      BY <2>3 DEF Methods
    <3>3. DialogTold' /\ MOSip'
      BY <1>1, <2>1, <3>1, <3>2, CallerIsEnded
    <3>4. Pushed(sip, SipMTEnd(sip, m), "MTDClearing")
      BY <1>1, <2>3, <3>2, MTEnds
    <3>5. NoSuchDialog(sip, m) = sipWrite(sip, "NotFound")
      BY <2>3 DEF NoSuchDialog, Methods
    <3>6. sip'.tran = sip.tran /\ (~sip.tran => sip'.inbox = sip.inbox)
      BY <1>1, <3>1, <3>4, <3>5 DEF Pushed, sipWrite, Dialogs
    <3>7. QED
      BY <1>2, <2>1, <3>3, <3>6
  <2>4. CASE m \in {"Trying", "Ringing", "OK", "Busy", "Error"}
    <3>1. m \in Messages \ (Methods \cup {"CancelOk", "ByeOk"})
      BY <2>4, Words DEF Methods
    <3>2. CASE sip.mapped
      <4>1. sip' = MOWriteHighSide(sip, m)
        BY <1>1, <1>3, <3>1, <3>2 DEF newDriveIncoming, Found
      <4>2. DialogTold' /\ MOSip'
        BY <1>1, <2>1, <2>4, <3>2, <4>1, CallerReplies
      <4>3. sip'.tran = sip.tran /\ (~sip.tran => sip'.inbox = sip.inbox)
        BY <1>1, <2>4, <4>1, MOReplies DEF Pushed
      <4>4. QED
        BY <1>2, <2>1, <4>2, <4>3
    <3>3. CASE ~sip.mapped
      <4>1. sip' = sip
        BY <1>1, <1>3, <3>1, <3>3 DEF newDriveIncoming, Found, NoSuchDialog
      <4>2. UNCHANGED <<tran, sip, peer>>
        BY <2>1, <4>1 DEF gsmVars
      <4>3. DialogTold'
        BY <4>2, QuietTold DEF IInv, SipInv
      <4>4. MOSip'
        BY <1>1, <2>1, <4>2 DEF IInv, SipInv, MOSip, MOFresh, MOUnmapped, MOWire, MOUnended, MOHungUp,
              Unended, Ending, Told
      <4>5. QED
        BY <1>2, <2>1, <4>1, <4>3, <4>4
    <3>4. QED
      BY <3>2, <3>3
  <2>5. QED
    BY <2>1, <2>2, <2>3, <2>4
<1>4. CASE PeriodicService
  <2>1. DialogTold' /\ MOSip' /\ UNCHANGED dir
    BY <1>1, <1>4, CallerPeriodic, PeriodicTyped
  <2>2. sip'.tran = sip.tran /\ (~sip.tran => sip'.inbox = sip.inbox)
    BY <1>1, <1>4, PeriodicTells
  <2>3. QED
    BY <1>2, <2>1, <2>2
<1>5. CASE Peer \/ Lose
  <2>1. DialogTold' /\ MOSip'
    BY <1>1, <1>5, CalleeHeard, CalleeActs DEF Peer
  <2>2. UNCHANGED dir /\ sip'.tran = sip.tran /\ sip'.inbox = sip.inbox
    BY <1>1, <1>5, PeerTells
  <2>3. QED
    BY <1>2, <2>1, <2>2
<1>6. QED
  BY <1>3, <1>4, <1>5

(* The same for a handset that is called.                                   *)
LEMMA CalledSends ==
  ASSUME IInv, dir = "MT", UNCHANGED <<tran, dir, peer>>, toBts' \subseteq toBts,
         NEW O, sip' = [sip EXCEPT !.out = O], NEW X, O \subseteq sip.out \cup X,
         \/ X = {sip.last} /\ sip.last # "none"
         \/ X = {"CancelOk"}
         \/ X = {"NotFound"} /\ "BYE" \in toBts
         \/ X = {"BYE"} /\ sip.tu["BYE"] = "calling"
  PROVE  DialogTold' /\ MTSip'
<1>1. sip \in Dialogs
  BY HereIs DEF IInv, TInv
<1>2. /\ sip'.state = sip.state /\ sip'.prev = sip.prev /\ sip'.tran = sip.tran /\ sip'.inbox = sip.inbox
      /\ sip'.mapped = sip.mapped /\ sip'.tagged = sip.tagged /\ sip'.tu = sip.tu /\ sip'.out = O
      /\ sip'.last = sip.last
  BY <1>1 DEF Dialogs
<1>3. DialogTold'
  BY <1>2, QuietTold DEF IInv, SipInv
<1>4. MTFresh /\ MTUnmapped /\ MTOver /\ MTWire /\ MTEarly /\ MTUnended /\ MTHungUp
  BY DEF IInv, SipInv, MTSip
<1>5. MTFresh'
  <2>1. SUFFICES ASSUME sip.last = "none" PROVE MTFresh'
    BY <1>2 DEF MTFresh
  <2>2. /\ sip = [NoDialog EXCEPT !.out = sip.out] /\ tran.mach = "none" /\ sip.out \subseteq {"CancelOk"}
        /\ toBts \subseteq {"INVITE", "CANCEL"} /\ peer \in {"none", "calling", "canceling", "canceled"}
    BY <1>4, <2>1 DEF MTFresh
  <2>3. X = {"CancelOk"}
    <3>1. sip.tu["BYE"] = "none"
      BY <2>2 DEF NoDialog, Methods
    <3>2. QED
      BY <2>1, <2>2, <3>1
  <2>4. sip' = [NoDialog EXCEPT !.out = sip'.out]
    BY <1>2, <2>2 DEF NoDialog
  <2>5. QED
    BY <1>2, <2>2, <2>3, <2>4 DEF MTFresh
<1>6. MTUnmapped' /\ MTOver'
  BY <1>2, <1>4 DEF MTUnmapped, MTOver
<1>7. MTWire'
  BY <1>2, <1>4 DEF MTWire
<1>8. MTEarly'
  BY <1>2, <1>4 DEF MTEarly, MTUnended, Unended, Ending
<1>9. MTUnended'
  BY <1>2, <1>4 DEF MTUnended, MTUnmapped, MTWire, Unended, Ending
<1>10. MTHungUp'
  BY <1>2, <1>4 DEF MTHungUp
<1>11. QED
  BY <1>3, <1>5, <1>6, <1>7, <1>8, <1>9, <1>10 DEF MTSip

LEMMA CalledIsAcked ==
  ASSUME IInv, dir = "MT", UNCHANGED gsmVars, UNCHANGED <<dir, peer>>, "ACK" \in toBts,
         toBts' = toBts \ {"ACK"}, sip.mapped, sip' = MTWriteHighSide(sip, "ACK")
  PROVE  DialogTold' /\ MTSip'
<1>1. sip \in Dialogs /\ UNCHANGED tran
  BY HereIs DEF IInv, TInv, gsmVars
<1>2. MTFresh /\ MTUnmapped /\ MTOver /\ MTWire /\ MTEarly /\ MTUnended /\ MTHungUp /\ DialogTold
  BY DEF IInv, SipInv, MTSip
<1>3. sip.last # "none" /\ sip'.mapped /\ sip'.tu = sip.tu /\ sip'.out = sip.out
  BY <1>1, <1>2, MTHears DEF MTFresh
<1>4. ~(Unended /\ tran.gsm \in Early)
  BY <1>2 DEF MTEarly
<1>5. CASE sip.state \in {"SSNullState", "Proceeding", "Connecting"}
  <2>1. Pushed(sip, sip', "Active") /\ "Active" \in SipStates
    BY <1>1, <1>5, MTHears DEF SipStates
  <2>2. DialogTold'
    BY <1>1, <1>2, <2>1, PushTold
  <2>3. sip'.state = "Active" /\ sip'.last = sip.last /\ sip'.tran = sip.tran
    BY <2>1 DEF Pushed
  <2>4. MTFresh' /\ MTUnmapped' /\ MTHungUp'
    BY <1>3, <2>3 DEF MTFresh, MTUnmapped, MTHungUp, SipFinished, Finished
  <2>5. tran.mach # "none"
    BY <1>2, <1>3, <1>5 DEF MTOver, SipFinished, Finished
  <2>6. MTOver' /\ MTEarly'
    BY <1>1, <1>4, <2>3, <2>5 DEF MTOver, MTEarly, Unended, Ending
  <2>7. MTWire'
    BY <1>1, <1>2, <1>3, <2>3 DEF MTWire
  <2>8. MTUnended'
    BY <1>1, <1>2, <1>3, <1>5, <2>3 DEF MTUnended, Unended, Ending, Finished
  <2>9. QED
    BY <2>2, <2>4, <2>6, <2>7, <2>8 DEF MTSip
<1>6. CASE sip.state \notin {"SSNullState", "Proceeding", "Connecting"}
  <2>1. sip' = [sip EXCEPT !.timers = sip.timers \ {"BF", "H"}]
    BY <1>1, <1>6, MTHears
  <2>2. /\ sip'.state = sip.state /\ sip'.prev = sip.prev /\ sip'.tran = sip.tran /\ sip'.inbox = sip.inbox
        /\ sip'.last = sip.last
    BY <1>1, <2>1 DEF Dialogs
  <2>3. DialogTold'
    BY <1>1, <1>2, <2>2, QuietTold
  <2>4. MTFresh' /\ MTUnmapped' /\ MTOver' /\ MTHungUp'
    BY <1>1, <1>2, <1>3, <2>2 DEF MTFresh, MTUnmapped, MTOver, MTHungUp
  <2>5. MTWire'
    BY <1>1, <1>2, <1>3, <2>2 DEF MTWire
  <2>6. MTEarly' /\ MTUnended'
    BY <1>1, <1>2, <1>3, <1>4, <2>2 DEF MTEarly, MTUnended, Unended, Ending
  <2>7. QED
    BY <2>3, <2>4, <2>5, <2>6 DEF MTSip
<1>7. QED
  BY <1>5, <1>6

LEMMA CalledIsEnded ==
  ASSUME IInv, dir = "MT", UNCHANGED gsmVars, UNCHANGED <<dir, peer>>, NEW m \in Methods, m \in toBts,
         toBts' = toBts \ {m}, sip.mapped, m = "CANCEL" => ~sip.tagged, sip' = SipMTEnd(sip, m)
  PROVE  DialogTold' /\ MTSip'
<1>1. sip \in Dialogs /\ UNCHANGED tran /\ m \in {"CANCEL", "BYE"} /\ {"MTDClearing", "MTDCanceling"} \subseteq SipStates
  BY HereIs DEF IInv, TInv, gsmVars, Methods, SipStates
<1>2. MTFresh /\ MTUnmapped /\ MTOver /\ MTWire /\ MTEarly /\ MTUnended /\ MTHungUp /\ DialogTold
  BY DEF IInv, SipInv, MTSip
<1> DEFINE s == IF m = "BYE" THEN "MTDClearing" ELSE "MTDCanceling"
<1>3. /\ Pushed(sip, sip', s) /\ sip'.mapped = sip.mapped /\ sip'.tagged = sip.tagged /\ sip'.tu = sip.tu
      /\ sip'.out = sip.out \cup {IF m = "BYE" THEN "ByeOk" ELSE "CancelOk"}
  BY MTEnds, <1>1
<1>4. DialogTold'
  BY <1>1, <1>2, <1>3, PushTold
<1>5. /\ sip'.state = s /\ sip'.last = sip.last /\ sip'.tran = sip.tran
      /\ ~HasAny(sip.inbox, {"Active"}) => ~HasAny(sip'.inbox, {"Active"})
  BY <1>1, <1>3 DEF Pushed
<1>6. sip.last # "none"
  <2>1. SUFFICES ASSUME sip.last = "none" PROVE FALSE
    OBVIOUS
  <2>2. ~sip.mapped
    BY <1>2, <2>1, FreshDialog DEF MTFresh, NoDialog
  <2>3. QED
    BY <2>2
<1>7. /\ peer \in {"canceling", "canceled", "bye", "refused", "over"}
      /\ m = "BYE" => peer \in {"bye", "refused", "over"}
  BY <1>1, <1>2 DEF MTWire
<1>8. MTFresh' /\ MTUnmapped' /\ MTOver' /\ MTHungUp'
  BY <1>5, <1>6, <1>7 DEF MTFresh, MTUnmapped, MTOver, MTHungUp, SipFinished, Finished
<1>9. MTWire'
  BY <1>1, <1>2, <1>3, <1>5, <1>7 DEF MTWire
<1>10. MTEarly'
  BY <1>1, <1>2, <1>3, <1>5, <1>7 DEF MTEarly, Unended, Ending
<1>11. MTUnended'
  BY <1>1, <1>2, <1>3, <1>5, <1>7 DEF MTUnended, Unended, Ending, Finished
<1>12. QED
  BY <1>4, <1>8, <1>9, <1>10, <1>11 DEF MTSip

LEMMA CalledIsAnswered ==
  ASSUME IInv, dir = "MT", UNCHANGED gsmVars, UNCHANGED <<dir, peer>>, "ByeOk" \in toBts,
         toBts' = toBts \ {"ByeOk"}, sip' = TUWriteHighSide(sip, "BYE")
  PROVE  DialogTold' /\ MTSip'
<1>1. sip \in Dialogs /\ UNCHANGED tran /\ "BYE" \in Methods
  BY HereIs DEF IInv, TInv, gsmVars, Methods
<1>2. MTFresh /\ MTUnmapped /\ MTOver /\ MTWire /\ MTEarly /\ MTUnended /\ MTHungUp
  BY DEF IInv, SipInv, MTSip
<1>3. peer = "over" /\ sip.last # "none" /\ ~Unended
  BY <1>2 DEF MTWire, MTFresh, MTUnended
<1>4. sip'.tran = sip.tran /\ sip'.mapped = sip.mapped /\ sip'.last = sip.last /\ sip'.out = sip.out
      /\ sip'.state \in {sip.state, "Cleared"} /\ sip'.tu["CANCEL"] = sip.tu["CANCEL"]
  <2>1. CASE sip.tu["BYE"] = "calling"
    <3>1. /\ Pushed(sip, sip', "Cleared") /\ sip'.mapped = sip.mapped /\ sip'.out = sip.out
          /\ sip'.tu = [sip.tu EXCEPT !["BYE"] = "done"]
      BY <1>1, <2>1, TUReplies
    <3>2. QED
      BY <1>1, <3>1 DEF Pushed, Dialogs, Methods
  <2>2. CASE sip.tu["BYE"] # "calling"
    BY <1>1, <2>2, TUReplies
  <2>3. QED
    BY <2>1, <2>2
<1>5. MTFresh' /\ MTUnmapped' /\ MTOver' /\ MTHungUp'
  BY <1>1, <1>2, <1>3, <1>4 DEF MTFresh, MTUnmapped, MTOver, MTHungUp, SipFinished, Finished
<1>6. MTWire'
  BY <1>1, <1>2, <1>3, <1>4 DEF MTWire
<1>7. DialogTold' /\ MTEarly' /\ MTUnended'
  BY <1>1, <1>3, <1>4 DEF DialogTold, MTEarly, MTUnended, Unended, Ending
<1>8. QED
  BY <1>5, <1>6, <1>7 DEF MTSip

LEMMA CalledPeriodic ==
  ASSUME IInv, TypeOK', dir = "MT", UNCHANGED gsmVars, PeriodicService
  PROVE  DialogTold' /\ MTSip'
<1>1. sip \in Dialogs /\ UNCHANGED <<tran, dir, toBts, peer>>
  BY HereIs, PeriodicTyped DEF IInv, TInv, gsmVars
<1>2. MTFresh /\ MTUnmapped /\ MTOver /\ MTWire /\ MTEarly /\ MTUnended /\ MTHungUp /\ DialogTold
  BY DEF IInv, SipInv, MTSip
<1>3. sip.last = "none" => ~sip.mapped /\ sip.tu["BYE"] = "none"
  BY <1>2 DEF MTFresh, NoDialog, Methods
<1>4. CASE Repetition
  <2>1. sip' = sipWrite(sip, "BYE") /\ sip.tu["BYE"] = "calling"
    BY <1>2, <1>4 DEF Repetition, TimerA, TUResend, Methods, MTWire
  <2>2. sip' = [sip EXCEPT !.out = sip.out \cup {"BYE"}]
    BY <1>1, <2>1 DEF sipWrite, Dialogs
  <2>3. QED
    BY <1>1, <2>1, <2>2, CalledSends
<1>5. CASE KillTimer \/ \E m \in Methods : TUTimeout(m)
  <2>1. /\ Pushed(sip, sip', "SSFail") /\ sip'.tagged = sip.tagged /\ sip'.out = sip.out
        /\ sip'.tu["CANCEL"] = "none" /\ (sip'.tu = sip.tu \/ ~Unended) /\ sip.last # "none"
    <3>1. "SSFail" \in SipStates \ {"Starting"}
      BY DEF SipStates
    <3>2. CASE KillTimer
      <4> DEFINE w == stopTimers(sip)
                 p == dialogPushState(w, "SSFail")
      <4>1. w \in Dialogs /\ w = [sip EXCEPT !.timers = sip.timers \ {"BF", "H"}]
        BY <1>1, StopsTimers
      <4>2. p \in Dialogs /\ Pushed(w, p, "SSFail") /\ p.tagged = w.tagged /\ p.out = w.out /\ p.tu = w.tu
        BY <3>1, <4>1, Pushes
      <4>3. sip' = [p EXCEPT !.mapped = FALSE] /\ sip.mapped
        BY <3>2 DEF KillTimer
      <4> HIDE DEF p, w
      <4>4. Pushed(sip, sip', "SSFail") /\ sip'.tagged = sip.tagged /\ sip'.out = sip.out /\ sip'.tu = sip.tu
        BY <1>1, <4>1, <4>2, <4>3 DEF Pushed, Dialogs
      <4>5. QED
        BY <1>2, <1>3, <4>3, <4>4 DEF MTWire
    <3>3. ASSUME NEW m \in Methods, TUTimeout(m)
          PROVE  /\ Pushed(sip, sip', "SSFail") /\ sip'.tagged = sip.tagged /\ sip'.out = sip.out
                 /\ sip'.tu["CANCEL"] = "none" /\ ~Unended /\ sip.last # "none"
      <4> DEFINE p == dialogPushState(sip, "SSFail")
      <4>1. p \in Dialogs /\ Pushed(sip, p, "SSFail") /\ p.tagged = sip.tagged /\ p.out = sip.out /\ p.tu = sip.tu
        BY <1>1, <3>1, Pushes
      <4>2. sip' = [p EXCEPT !.tu[m] = "done"] /\ sip.tu[m] = "calling"
        BY <3>3 DEF TUTimeout
      <4>3. m = "BYE" /\ ~Unended /\ sip.last # "none"
        BY <1>2, <1>3, <4>2 DEF MTUnended, MTWire, Methods
      <4> HIDE DEF p
      <4>4. sip'.tu["CANCEL"] = sip.tu["CANCEL"]
        BY <4>1, <4>2, <4>3 DEF Dialogs, Methods
      <4>5. Pushed(sip, sip', "SSFail") /\ sip'.tagged = sip.tagged /\ sip'.out = sip.out
        BY <4>1, <4>2 DEF Pushed, Dialogs
      <4>6. QED
        BY <1>2, <4>3, <4>4, <4>5 DEF MTWire
    <3>4. QED
      BY <1>5, <3>2, <3>3
  <2>2. DialogTold'
    BY <1>1, <1>2, <2>1, PushTold DEF SipStates
  <2>3. /\ sip'.state = "SSFail" /\ sip'.tran = sip.tran /\ sip'.last = sip.last
        /\ ~HasAny(sip.inbox, {"Active"}) => ~HasAny(sip'.inbox, {"Active"})
    BY <2>1 DEF Pushed
  <2>4. MTFresh' /\ MTUnmapped' /\ MTOver' /\ MTHungUp'
    BY <2>1, <2>3 DEF MTFresh, MTUnmapped, MTOver, MTHungUp, SipFinished, Finished
  <2>5. MTWire'
    BY <1>1, <1>2, <2>1, <2>3 DEF MTWire
  <2>6. MTEarly'
    BY <1>1, <1>2, <2>1, <2>3 DEF MTEarly, Unended, Ending
  <2>7. MTUnended'
    BY <1>1, <1>2, <2>1, <2>3 DEF MTUnended, Unended, Ending, Finished
  <2>8. QED
    BY <2>2, <2>4, <2>5, <2>6, <2>7 DEF MTSip
<1>6. CASE RemoveFinished
  <2>1. sip' = [sip EXCEPT !.mapped = FALSE] /\ sip.state \in SipFinished /\ sip.mapped
    BY <1>1, <1>6, Ends DEF RemoveFinished, SipFinished
  <2>2. /\ sip'.state = sip.state /\ sip'.prev = sip.prev /\ sip'.tran = sip.tran /\ sip'.inbox = sip.inbox
        /\ sip'.tagged = sip.tagged /\ sip'.tu = sip.tu /\ sip'.out = sip.out /\ sip'.last = sip.last /\ ~sip'.mapped
    BY <1>1, <2>1 DEF Dialogs
  <2>3. DialogTold'
    BY <1>1, <1>2, <2>2, QuietTold
  <2>4. MTFresh' /\ MTUnmapped' /\ MTOver' /\ MTHungUp'
    BY <1>1, <1>2, <1>3, <2>1, <2>2 DEF MTFresh, MTUnmapped, MTOver, MTHungUp, SipFinished, Finished
  <2>5. MTWire'
    BY <1>1, <1>2, <2>2 DEF MTWire
  <2>6. MTEarly'
    BY <1>1, <1>2, <2>2 DEF MTEarly, Unended, Ending
  <2>7. MTUnended'
    BY <1>1, <1>2, <2>2 DEF MTUnended, Unended, Ending
  <2>8. QED
    BY <2>3, <2>4, <2>5, <2>6, <2>7 DEF MTSip
<1>7. QED
  BY <1>4, <1>5, <1>6 DEF PeriodicService, Deadline, Removal

CallerStep(O) ==
    /\ UNCHANGED <<tran, dir>> /\ sip' = [sip EXCEPT !.out = O] /\ O \subseteq sip.out
    /\ peer' = "none" => peer = "none" /\ toBts' \subseteq toBts
    /\ "BYE" \in toBts' \/ "ByeOk" \in O => peer' \in {"bye", "refused", "over"}
    /\ "CANCEL" \in toBts' => peer' \in {"canceling", "canceled", "bye", "refused", "over"}
    /\ "ByeOk" \in toBts' => peer' = "over"
    /\ peer' \in {"calling", "proceeding", "talking"} =>
          peer \in {"calling", "proceeding", "talking"} \/ (peer = "none" /\ sip.last = "none")
    /\ sip.last = "none" \/ (Unended /\ tran.gsm \in Early) =>
          /\ peer' \in {"calling", "canceling", "canceled"} \/ peer' = peer
             \/ (peer' = "proceeding" /\ sip.last # "none")
          /\ toBts' \subseteq toBts \cup {"INVITE", "CANCEL"}
    /\ Unended =>
          /\ "ByeOk" \notin toBts'
          /\ "ACK" \in toBts' \/ peer \in {"talking", "bye", "refused", "over"}
                => peer' \in {"talking", "bye", "refused", "over"}
          /\ peer' = "over" => peer = "over" \/ "ByeOk" \in sip.out

LEMMA CallerMoves ==
  ASSUME IInv, dir = "MT", NEW O, CallerStep(O)
  PROVE  DialogTold' /\ MTSip'
<1>1. sip \in Dialogs /\ UNCHANGED <<tran, dir>> /\ sip' = [sip EXCEPT !.out = O] /\ O \subseteq sip.out
  BY HereIs DEF IInv, TInv, CallerStep
<1>2. /\ sip'.state = sip.state /\ sip'.prev = sip.prev /\ sip'.tran = sip.tran /\ sip'.inbox = sip.inbox
      /\ sip'.mapped = sip.mapped /\ sip'.tagged = sip.tagged /\ sip'.tu = sip.tu /\ sip'.out = O
      /\ sip'.last = sip.last
  BY <1>1 DEF Dialogs
<1>3. MTFresh /\ MTUnmapped /\ MTOver /\ MTWire /\ MTEarly /\ MTUnended /\ MTHungUp /\ DialogTold
  BY DEF IInv, SipInv, MTSip
<1>4. DialogTold'
  BY <1>1, <1>2, <1>3, QuietTold
<1>5. MTFresh'
  <2>1. SUFFICES ASSUME sip.last = "none" PROVE MTFresh'
    BY <1>2 DEF MTFresh
  <2>2. sip = [NoDialog EXCEPT !.out = sip.out] /\ tran.mach = "none" /\ sip.out \subseteq {"CancelOk"}
    BY <1>3, <2>1 DEF MTFresh
  <2>3. sip' = [NoDialog EXCEPT !.out = sip'.out]
    BY <1>1, <2>2 DEF NoDialog
  <2>4. toBts' \subseteq {"INVITE", "CANCEL"} /\ peer' \in {"none", "calling", "canceling", "canceled"}
    BY <1>3, <2>1 DEF CallerStep, MTFresh
  <2>5. QED
    BY <1>1, <1>2, <2>2, <2>3, <2>4 DEF MTFresh
<1>6. MTUnmapped' /\ MTOver'
  BY <1>1, <1>2, <1>3 DEF MTUnmapped, MTOver
<1>7. MTWire'
  BY <1>1, <1>2, <1>3 DEF MTWire, CallerStep
<1>8. MTEarly'
  BY <1>1, <1>2, <1>3 DEF MTEarly, Unended, Ending, CallerStep
<1>9. MTUnended'
  BY <1>1, <1>2, <1>3 DEF MTUnended, Unended, Ending, CallerStep
<1>10. MTHungUp'
  <2>1. sip.last = "none" => sip.state \notin SipFinished
    BY <1>3 DEF MTFresh, NoDialog, SipFinished, Finished
  <2>2. QED
    BY <1>2, <1>3, <2>1 DEF MTHungUp, CallerStep
<1>11. QED
  BY <1>4, <1>5, <1>6, <1>7, <1>8, <1>9, <1>10 DEF MTSip

LEMMA CallerHeard ==
  ASSUME IInv, dir = "MT", UNCHANGED gsmVars, PeerHears
  PROVE  DialogTold' /\ MTSip'
<1>1. UNCHANGED tran /\ sip \in Dialogs /\ peer \in CallerStates
  BY HereIs DEF gsmVars, IInv, TInv, TypeOK, SipTypeOK
<1>2. MTWire /\ MTUnended /\ MTFresh /\ MTEarly
  BY DEF IInv, SipInv, MTSip
<1>3. ASSUME NEW m \in sip.out, CallerStep(sip.out \ {m}) PROVE DialogTold' /\ MTSip'
  BY <1>3, CallerMoves
<1>4. CASE \E m \in {"Trying", "Ringing"} : Hears(m, IF peer = "calling" THEN "proceeding" ELSE peer, {})
  <2>1. PICK m \in {"Trying", "Ringing"} : Hears(m, IF peer = "calling" THEN "proceeding" ELSE peer, {})
    BY <1>4
  <2>2. /\ sip' = [sip EXCEPT !.out = sip.out \ {m}] /\ UNCHANGED <<dir, toBts>> /\ m \in sip.out
        /\ peer' = IF peer = "calling" THEN "proceeding" ELSE peer
    BY <1>1, <2>1 DEF Hears, Dialogs
  <2>3. sip.last # "none"
    BY <1>2, <2>2 DEF MTFresh
  <2>4. CallerStep(sip.out \ {m})
    BY <1>1, <1>2, <2>2, <2>3 DEF CallerStep, MTWire, MTUnended
  <2>5. QED
    BY <1>3, <2>2, <2>4
<1>5. CASE \/ peer \in {"calling", "proceeding"} /\ Hears("OK", "talking", {"ACK"})
           \/ peer \in {"talking", "bye", "refused", "over"} /\ Hears("OK", peer, {"ACK"})
           \/ peer \in {"canceling", "canceled"} /\ Hears("OK", "bye", {"ACK", "BYE"})
  <2>1. /\ sip' = [sip EXCEPT !.out = sip.out \ {"OK"}] /\ UNCHANGED dir /\ "OK" \in sip.out
        /\ \/ peer \in {"calling", "proceeding"} /\ peer' = "talking" /\ toBts' = toBts \cup {"ACK"}
           \/ peer \in {"talking", "bye", "refused", "over"} /\ peer' = peer /\ toBts' = toBts \cup {"ACK"}
           \/ peer \in {"canceling", "canceled"} /\ peer' = "bye" /\ toBts' = toBts \cup {"ACK", "BYE"}
    BY <1>1, <1>5 DEF Hears, Dialogs
  <2>2. sip.last # "none" /\ ~(Unended /\ tran.gsm \in Early)
    BY <1>2, <2>1 DEF MTFresh, MTEarly
  <2>3. CallerStep(sip.out \ {"OK"})
    BY <1>1, <1>2, <2>1, <2>2 DEF CallerStep, MTWire, MTUnended
  <2>4. QED
    BY <1>3, <2>1, <2>3
<1>6. CASE Hears("Error", IF peer \in {"talking", "bye"} THEN peer ELSE "over", {"ACK"})
  <2>1. /\ sip' = [sip EXCEPT !.out = sip.out \ {"Error"}] /\ UNCHANGED dir /\ "Error" \in sip.out
        /\ peer' = (IF peer \in {"talking", "bye"} THEN peer ELSE "over") /\ toBts' = toBts \cup {"ACK"}
    BY <1>1, <1>6 DEF Hears, Dialogs
  <2>2. sip.last # "none" /\ ~Unended
    BY <1>2, <2>1 DEF MTFresh, MTUnended
  <2>3. CallerStep(sip.out \ {"Error"})
    BY <1>1, <1>2, <2>1, <2>2 DEF CallerStep, MTWire
  <2>4. QED
    BY <1>3, <2>1, <2>3
<1>7. CASE Hears("CancelOk", IF peer = "canceling" THEN "canceled" ELSE peer, {})
  <2>1. /\ sip' = [sip EXCEPT !.out = sip.out \ {"CancelOk"}] /\ UNCHANGED <<dir, toBts>> /\ "CancelOk" \in sip.out
        /\ peer' = IF peer = "canceling" THEN "canceled" ELSE peer
    BY <1>1, <1>7 DEF Hears, Dialogs
  <2>2. CallerStep(sip.out \ {"CancelOk"})
    BY <1>1, <1>2, <2>1 DEF CallerStep, MTWire, MTUnended
  <2>3. QED
    BY <1>3, <2>1, <2>2
<1>8. CASE Hears("BYE", "over", {"ByeOk"})
  <2>1. /\ sip' = [sip EXCEPT !.out = sip.out \ {"BYE"}] /\ UNCHANGED dir /\ "BYE" \in sip.out
        /\ peer' = "over" /\ toBts' = toBts \cup {"ByeOk"}
    BY <1>1, <1>8 DEF Hears, Dialogs
  <2>2. sip.last # "none" /\ ~Unended
    BY <1>2, <2>1 DEF MTFresh, MTUnended
  <2>3. CallerStep(sip.out \ {"BYE"})
    BY <1>1, <1>2, <2>1, <2>2 DEF CallerStep, MTWire
  <2>4. QED
    BY <1>3, <2>1, <2>3
<1>9. CASE Hears("ByeOk", IF peer = "bye" THEN "over" ELSE peer, {})
  <2>1. /\ sip' = [sip EXCEPT !.out = sip.out \ {"ByeOk"}] /\ UNCHANGED <<dir, toBts>> /\ "ByeOk" \in sip.out
        /\ peer' = IF peer = "bye" THEN "over" ELSE peer
    BY <1>1, <1>9 DEF Hears, Dialogs
  <2>2. sip.last # "none" /\ ~(Unended /\ tran.gsm \in Early)
    BY <1>2, <2>1 DEF MTFresh, MTEarly
  <2>3. CallerStep(sip.out \ {"ByeOk"})
    BY <1>1, <1>2, <2>1, <2>2 DEF CallerStep, MTWire, MTUnended
  <2>4. QED
    BY <1>3, <2>1, <2>3
<1>10. CASE Hears("NotFound", IF peer = "bye" THEN "refused" ELSE peer, {})
  <2>1. /\ sip' = [sip EXCEPT !.out = sip.out \ {"NotFound"}] /\ UNCHANGED <<dir, toBts>>
        /\ "NotFound" \in sip.out /\ peer' = IF peer = "bye" THEN "refused" ELSE peer
    BY <1>1, <1>10 DEF Hears, Dialogs
  <2>2. sip.last # "none" /\ ~(Unended /\ tran.gsm \in Early)
    BY <1>2, <2>1 DEF MTFresh, MTEarly
  <2>3. CallerStep(sip.out \ {"NotFound"})
    BY <1>1, <1>2, <2>1, <2>2 DEF CallerStep, MTWire, MTUnended
  <2>4. QED
    BY <1>3, <2>1, <2>3
<1>11. QED
  BY <1>4, <1>5, <1>6, <1>7, <1>8, <1>9, <1>10 DEF PeerHears, CalleeHears, CallerHears, EitherHears

LEMMA CallerActs ==
  ASSUME IInv, dir = "MT", UNCHANGED gsmVars, PeerTimers \/ PeerUser \/ Lose
  PROVE  DialogTold' /\ MTSip'
<1>1. UNCHANGED tran /\ sip \in Dialogs /\ peer \in CallerStates
  BY HereIs DEF gsmVars, IInv, TInv, TypeOK, SipTypeOK
<1>2. MTWire /\ MTUnended /\ MTFresh /\ MTEarly /\ sip = [sip EXCEPT !.out = sip.out]
  BY <1>1 DEF IInv, SipInv, MTSip, Dialogs
<1>3. CASE PeerRepeats
  <2>1. /\ sip.out = {} /\ toBts = {} /\ UNCHANGED <<dir, sip, peer>>
        /\ \/ peer = "calling" /\ toBts' = {"INVITE"}
           \/ peer = "canceling" /\ toBts' = {"CANCEL"}
           \/ peer = "bye" /\ toBts' = {"BYE"}
    BY <1>1, <1>3 DEF PeerRepeats, Quiet, Unanswered, Answer, CallerStates
  <2>2. CallerStep(sip.out)
    BY <1>1, <1>2, <2>1 DEF CallerStep, MTWire, MTUnended, MTFresh, MTEarly
  <2>3. QED
    BY <2>2, CallerMoves
<1>4. CASE PeerGivesUp
  <2>1. /\ sip.out = {} /\ toBts = {} /\ UNCHANGED <<dir, sip>>
        /\ peer \in {"calling", "canceling"} /\ peer' = "canceled" /\ toBts' = {}
    BY <1>1, <1>4 DEF PeerGivesUp, Quiet, Says, CallerStates
  <2>2. CallerStep(sip.out)
    BY <1>1, <1>2, <2>1 DEF CallerStep, MTWire, MTUnended
  <2>3. QED
    BY <2>2, CallerMoves
<1>5. CASE PeerUser
  <2>1. /\ UNCHANGED <<dir, sip>>
        /\ \/ peer = "none" /\ peer' = "calling" /\ toBts' = toBts \cup {"INVITE"}
           \/ peer = "proceeding" /\ peer' = "canceling" /\ toBts' = toBts \cup {"CANCEL"}
           \/ peer = "talking" /\ peer' = "bye" /\ toBts' = toBts \cup {"BYE"}
    BY <1>1, <1>5 DEF PeerUser, Says, CallerStates
  <2>2. CallerStep(sip.out)
    BY <1>1, <1>2, <2>1 DEF CallerStep, MTWire, MTUnended, MTFresh, MTEarly
  <2>3. QED
    BY <2>2, CallerMoves
<1>6. CASE Lose
  <2>1. /\ UNCHANGED <<dir, peer>> /\ toBts' \subseteq toBts
        /\ \E O \in SUBSET sip.out : sip' = [sip EXCEPT !.out = O]
    BY <1>6, PeerTells DEF Lose, IInv, TInv
  <2>2. PICK O \in SUBSET sip.out : sip' = [sip EXCEPT !.out = O]
    BY <2>1
  <2>3. CallerStep(O)
    BY <1>1, <1>2, <2>1, <2>2 DEF CallerStep, MTWire, MTUnended, MTFresh, MTEarly
  <2>4. QED
    BY <2>3, CallerMoves
<1>7. QED
  BY <1>3, <1>4, <1>5, <1>6 DEF PeerTimers

(* Whatever happens to the dialog of a called handset outside L3.           *)
LEMMA CalledSide ==
  ASSUME IInv, TypeOK', dir = "MT", UNCHANGED gsmVars,
         (\E m \in Messages : newDriveIncoming(m)) \/ PeriodicService \/ Peer \/ Lose
  PROVE  DialogTold' /\ MTSip' /\ L3Inv'
<1>1. /\ sip \in Dialogs /\ toBts \subseteq Heard /\ TypeOK /\ L3Inv /\ UNCHANGED tran
      /\ MTFresh /\ MTUnmapped /\ MTWire /\ sip = [sip EXCEPT !.out = sip.out]
  BY HereIs DEF IInv, TInv, SipInv, MTSip, Dialogs, gsmVars
<1>2. ASSUME DialogTold', MTSip', UNCHANGED dir, sip'.tran = sip.tran, ~sip.tran => sip'.inbox = sip.inbox
      PROVE  DialogTold' /\ MTSip' /\ L3Inv'
  BY <1>1, <1>2, L3Kept
<1>3. ASSUME NEW m \in Messages, newDriveIncoming(m) PROVE DialogTold' /\ MTSip' /\ L3Inv'
  <2>1. /\ m \in toBts /\ toBts' = toBts \ {m} /\ UNCHANGED <<dir, peer>>
        /\ m \in {"INVITE", "ACK", "CANCEL", "BYE", "ByeOk"}
    BY <1>1, <1>3 DEF newDriveIncoming, Heard, Requests
  <2>2. CASE m = "ByeOk"
    <3>1. sip' = TUWriteHighSide(sip, "BYE") /\ "BYE" \in Methods
      BY <1>3, <2>2 DEF newDriveIncoming, Methods
    <3>2. DialogTold' /\ MTSip'
      BY <2>1, <2>2, <3>1, CalledIsAnswered
    <3>3. sip'.tran = sip.tran /\ (~sip.tran => sip'.inbox = sip.inbox)
      BY <1>1, <3>1, TUReplies DEF Pushed
    <3>4. QED
      BY <1>2, <2>1, <3>2, <3>3
  <2>3. CASE m \in {"CANCEL", "BYE"} /\ Found(sip, m)
    <3>1. sip' = SipMTEnd(sip, m) /\ m \in Methods /\ sip.mapped /\ (m = "CANCEL" => ~sip.tagged)
      BY <1>3, <2>3 DEF newDriveIncoming, Methods, Found
    <3>2. DialogTold' /\ MTSip'
      BY <2>1, <3>1, CalledIsEnded
    <3>3. sip'.tran = sip.tran /\ (~sip.tran => sip'.inbox = sip.inbox)
      BY <1>1, <3>1, MTEnds DEF Pushed
    <3>4. QED
      BY <1>2, <2>1, <3>2, <3>3
  <2>4. CASE m = "ACK" /\ Found(sip, m)
    <3>1. m \in Messages \ (Methods \cup {"CancelOk", "ByeOk"})
      BY <2>4 DEF Methods
    <3>2. sip' = MTWriteHighSide(sip, "ACK") /\ sip.mapped
      BY <1>3, <2>4, <3>1 DEF newDriveIncoming, Found
    <3>3. DialogTold' /\ MTSip'
      BY <2>1, <2>4, <3>2, CalledIsAcked
    <3>4. sip'.tran = sip.tran /\ (~sip.tran => sip'.inbox = sip.inbox)
      <4>1. CASE sip.state \in {"SSNullState", "Proceeding", "Connecting"}
        BY <1>1, <3>2, <4>1, MTHears DEF Pushed
      <4>2. CASE sip.state \notin {"SSNullState", "Proceeding", "Connecting"}
        <5>1. sip' = [sip EXCEPT !.timers = sip.timers \ {"BF", "H"}]
          BY <1>1, <3>2, <4>2, MTHears
        <5>2. QED
          BY <1>1, <5>1 DEF Dialogs
      <4>3. QED
        BY <4>1, <4>2
    <3>5. QED
      BY <1>2, <2>1, <3>3, <3>4
  <2>5. CASE \/ m \in {"INVITE", "ACK"} /\ ~(m = "ACK" /\ Found(sip, m))
             \/ m \in {"CANCEL", "BYE"} /\ ~Found(sip, m)
    <3>1. \E X : /\ sip' = [sip EXCEPT !.out = sip.out \cup X]
                 /\ \/ X = {}
                    \/ X = {sip.last} /\ sip.last # "none"
                    \/ X = {"CancelOk"}
                    \/ X = {"NotFound"} /\ "BYE" \in toBts
      <4>1. CASE m = "INVITE" /\ Found(sip, m)
        <5>1. sip.mapped /\ sip.last # "none"
          BY <1>1, <4>1, FreshDialog DEF Found, MTFresh, NoDialog
        <5>2. m \in Messages \ (Methods \cup {"CancelOk", "ByeOk"})
          BY <4>1 DEF Methods
        <5>3. sip' = MTWriteHighSide(sip, "INVITE")
          BY <1>3, <4>1, <5>2 DEF newDriveIncoming
        <5>4. sip' = [sip EXCEPT !.out = sip.out \cup {sip.last}]
          BY <1>1, <5>1, <5>3, MTHears
        <5>5. QED
          BY <5>1, <5>4
      <4>2. CASE m \in {"INVITE", "ACK"} /\ ~Found(sip, m)
        <5>1. sip' = sip
          BY <1>3, <4>2 DEF newDriveIncoming, NoSuchDialog, Methods
        <5>2. sip' = [sip EXCEPT !.out = sip.out \cup {}]
          BY <1>1, <5>1 DEF Dialogs
        <5>3. QED
          BY <5>2
      <4>3. CASE m = "CANCEL" /\ ~Found(sip, m)
        <5>1. sip' = sipWrite(sip, "CancelOk")
          BY <1>3, <4>3 DEF newDriveIncoming, NoSuchDialog, Methods
        <5>2. sip' = [sip EXCEPT !.out = sip.out \cup {"CancelOk"}]
          BY <1>1, <5>1 DEF sipWrite, Dialogs
        <5>3. QED
          BY <5>2
      <4>4. CASE m = "BYE" /\ ~Found(sip, m)
        <5>1. sip' = sipWrite(sip, "NotFound")
          BY <1>3, <4>4 DEF newDriveIncoming, NoSuchDialog, Methods
        <5>2. sip' = [sip EXCEPT !.out = sip.out \cup {"NotFound"}]
          BY <1>1, <5>1 DEF sipWrite, Dialogs
        <5>3. QED
          BY <2>1, <4>4, <5>2
      <4>5. QED
        BY <2>1, <2>5, <4>1, <4>2, <4>3, <4>4
    <3>2. PICK X : /\ sip' = [sip EXCEPT !.out = sip.out \cup X]
                   /\ \/ X = {}
                      \/ X = {sip.last} /\ sip.last # "none"
                      \/ X = {"CancelOk"}
                      \/ X = {"NotFound"} /\ "BYE" \in toBts
      BY <3>1
    <3>3. /\ UNCHANGED <<tran, dir, peer>> /\ toBts' \subseteq toBts
          /\ sip'.tran = sip.tran /\ sip'.inbox = sip.inbox
      BY <1>1, <2>1, <3>2 DEF Dialogs
    <3>4. PICK Y : /\ sip.out \cup X \subseteq sip.out \cup Y
                   /\ \/ Y = {sip.last} /\ sip.last # "none"
                      \/ Y = {"CancelOk"}
                      \/ Y = {"NotFound"} /\ "BYE" \in toBts
      BY <3>2
    <3>5. DialogTold' /\ MTSip'
      BY <3>2, <3>3, <3>4, CalledSends
    <3>6. QED
      BY <1>2, <3>3, <3>5
  <2>6. QED
    BY <2>1, <2>2, <2>3, <2>4, <2>5
<1>4. CASE PeriodicService
  <2>1. DialogTold' /\ MTSip' /\ UNCHANGED dir
    BY <1>1, <1>4, CalledPeriodic, PeriodicTyped
  <2>2. sip'.tran = sip.tran /\ (~sip.tran => sip'.inbox = sip.inbox)
    BY <1>1, <1>4, PeriodicTells
  <2>3. QED
    BY <1>2, <2>1, <2>2
<1>5. CASE Peer \/ Lose
  <2>1. DialogTold' /\ MTSip'
    BY <1>5, CallerHeard, CallerActs DEF Peer
  <2>2. UNCHANGED dir /\ sip'.tran = sip.tran /\ sip'.inbox = sip.inbox
    BY <1>1, <1>5, PeerTells
  <2>3. QED
    BY <1>2, <2>1, <2>2
<1>6. QED
  BY <1>3, <1>4, <1>5

-----------------------------------------------------------------------------
(* The service loop: first the ends of a call.                              *)

(* The dialogs agree in all but what L3 has still to read.                  *)
AlikeBut(d, e) ==
    /\ e.state = d.state /\ e.mapped = d.mapped /\ e.tagged = d.tagged
    /\ e.last = d.last /\ e.tu = d.tu /\ e.out = d.out

LEMMA CancelKeeps ==
  ASSUME IInv, sip.tran, NEW d \in Dialogs, AlikeBut(sip, d), NEW e, NEW cause,
         Cancelled(d, e, cause), AlikeBut(e, sip'), ~sip'.tran \/ "T308" \in tran'.timers,
         tran'.gsm # "Active", UNCHANGED <<dir, toBts, peer>>
  PROVE  SipInv'
<1>1. /\ sip \in Dialogs /\ dir \in {"MO", "MT"} /\ ~Unended'
      /\ d.state = sip.state /\ d.mapped = sip.mapped /\ d.tagged = sip.tagged
      /\ d.last = sip.last /\ d.tu = sip.tu /\ d.out = sip.out
      /\ sip'.state = e.state /\ sip'.mapped = e.mapped /\ sip'.tagged = e.tagged
      /\ sip'.last = e.last /\ sip'.tu = e.tu /\ sip'.out = e.out
      /\ e.mapped = d.mapped /\ e.tagged = d.tagged
  BY HereIs DEF IInv, TInv, AlikeBut, Cancelled, Unended, Ending
<1>2. DialogTold'
  BY <1>1 DEF DialogTold
<1>3. sipIsFinished(d) <=> sip.state \in SipFinished
  BY <1>1, Ends DEF SipFinished
<1>4. d.tu \in [Methods -> {"none", "calling", "done"}] /\ "BYE" \in Methods /\ "CANCEL" \in Methods
  BY <1>1, Words DEF Dialogs
<1>5. /\ [d.tu EXCEPT !["BYE"] = "calling"]["BYE"] = "calling"
      /\ [d.tu EXCEPT !["BYE"] = "calling"]["CANCEL"] = d.tu["CANCEL"]
      /\ [d.tu EXCEPT !["CANCEL"] = "calling"]["CANCEL"] = "calling"
  BY <1>4
<1>6. ASSUME dir = "MO" PROVE MOSip'
  <2>1. MOFresh /\ MOUnmapped /\ MOWire /\ MOHungUp /\ sip.state # "SSNullState"
    BY <1>6, FreshDialog DEF IInv, SipInv, MOSip, MOFresh
  <2>2. \/ sip.state \in SipFinished /\ sip'.state = sip.state /\ sip'.tu = sip.tu /\ sip'.out = sip.out
        \/ sip'.state = "MODClearing" /\ sip'.tu["BYE"] = "calling" /\ sip'.out = sip.out \cup {"BYE"}
        \/ sip'.state = "MODCanceling" /\ sip'.tu["CANCEL"] = "calling" /\ sip'.out = sip.out \cup {"CANCEL"}
    <3>1. CASE sipIsFinished(d) /\ e = d
      BY <1>1, <1>3, <3>1
    <3>2. CASE e.state = "MODClearing" /\ e.tu = [d.tu EXCEPT !["BYE"] = "calling"] /\ e.out = d.out \cup {"BYE"}
      BY <1>1, <1>5, <3>2
    <3>3. CASE e.state = "MODCanceling" /\ e.tu = [d.tu EXCEPT !["CANCEL"] = "calling"] /\ e.out = d.out \cup {"CANCEL"}
      BY <1>1, <1>5, <3>3
    <3>4. QED
      BY <1>6, <3>1, <3>2, <3>3 DEF Cancelled
  <2>3. sip'.state \in Finished /\ sip'.state \notin {"SSNullState", "Active"}
    BY <2>2 DEF SipFinished, Finished
  <2>4. MOFresh' /\ MOUnmapped'
    BY <2>3 DEF MOFresh, MOUnmapped
  <2>5. MOWire'
    BY <1>1, <2>1, <2>2, <2>3 DEF MOWire
  <2>6. MOUnended'
    BY <1>1 DEF MOUnended
  <2>7. MOHungUp'
    BY <1>1, <2>1, <2>2 DEF MOHungUp
  <2>8. QED
    BY <2>4, <2>5, <2>6, <2>7 DEF MOSip
<1>7. ASSUME dir = "MT" PROVE MTSip'
  <2>1. MTFresh /\ MTWire /\ MTHungUp /\ sip.last # "none"
    BY <1>7, FreshDialog DEF IInv, SipInv, MTSip, MTFresh, NoDialog
  <2>2. \/ /\ sip.state \in SipFinished /\ sip'.state = sip.state /\ sip'.tu = sip.tu /\ sip'.out = sip.out
           /\ sip'.last = sip.last
        \/ /\ sip'.state = "MODClearing" /\ sip'.tu["BYE"] = "calling" /\ sip'.tu["CANCEL"] = sip.tu["CANCEL"]
           /\ sip'.out \subseteq sip.out \cup {"OK", "BYE"} /\ sip'.last \in {sip.last, "OK"}
        \/ /\ sip'.state = "MODError" /\ sip'.tu = sip.tu /\ sip'.out = sip.out \cup {"Error"} /\ sip'.last = "Error"
    BY <1>1, <1>3, <1>5, <1>7 DEF Cancelled
  <2>3. sip'.state \in SipFinished /\ sip'.state # "Active" /\ sip'.last # "none"
    BY <2>1, <2>2 DEF SipFinished, Finished
  <2>4. MTFresh' /\ MTUnmapped' /\ MTOver'
    BY <2>3 DEF MTFresh, MTUnmapped, MTOver
  <2>5. MTWire'
    <3>1. sip'.state \notin {"Starting", "Ringing", "MOCBusy", "MODCanceling", "Canceled"}
      BY <2>1, <2>2 DEF MTWire
    <3>2. sip'.state = "MODError" => sip'.last = "Error"
      BY <2>1, <2>2 DEF MTWire
    <3>3. QED
      BY <1>1, <2>1, <2>2, <3>1, <3>2 DEF MTWire
  <2>6. MTEarly' /\ MTUnended'
    BY <1>1 DEF MTEarly, MTUnended
  <2>7. MTHungUp'
    BY <1>1, <2>1, <2>2 DEF MTHungUp
  <2>8. QED
    BY <2>4, <2>5, <2>6, <2>7 DEF MTSip
<1>8. QED
  BY <1>1, <1>2, <1>6, <1>7 DEF SipInv

LEMMA QuitKeeps ==
  ASSUME IInv, NEW g \in Legs, AlikeBut(sip, g.d), g.d.tran = sip.tran, ~sip.tran => g.d = sip,
         NEW cause, NEW h, Quitted(g, h, cause), NEW frames, Becomes(h, frames)
  PROVE  L3Inv' /\ SipInv'
<1> DEFINE e == IF g.d.tran THEN dialogCancel(g.d, cause) ELSE g.d
<1>1. /\ TypeOK /\ sip \in Dialogs /\ dir \in {"MO", "MT"} /\ Roles /\ NoCall /\ Opening /\ Paged
      /\ g.d \in Dialogs /\ UNCHANGED <<dir, toBts, peer>>
  BY HereIs DEF IInv, TInv, L3Inv, Legs, Becomes
<1>2. /\ tran' = NoTran /\ up' = <<>> /\ down' = <<>> /\ phone' = Idle
      /\ sip' = [e EXCEPT !.tran = FALSE, !.inbox = <<>>]
  BY DEF Becomes, Quitted, NoTran
<1>3. e \in Dialogs
  BY <1>1, Cancels
<1>4. NoTran.mach = "none" /\ NoTran.gsm = "NullState" /\ ~NoTran.ti /\ Idle.call = "idle" /\ ~Idle.tch
  BY DEF NoTran, Idle
<1>5. AlikeBut(e, sip') /\ ~sip'.tran /\ sip'.inbox = <<>>
  <2> HIDE DEF e
  <2>1. QED
    BY <1>2, <1>3 DEF AlikeBut, Dialogs
<1>6. L3Inv'
  BY <1>2, <1>4, <1>5 DEF L3Inv, Roles, NoCall, Opening, Paged, Offered, Calling
<1>7. CASE sip.tran
  <2>1. Cancelled(g.d, e, cause)
    BY <1>1, <1>7, Cancels
  <2>2. tran'.gsm # "Active" /\ ~sip'.tran
    BY <1>2, <1>4, <1>5
  <2> HIDE DEF e
  <2>3. SipInv'
    BY <1>1, <1>5, <1>7, <2>1, <2>2, CancelKeeps
  <2>4. QED
    BY <1>6, <2>3
<1>8. CASE ~sip.tran
  <2>1. sip' = sip
    BY <1>1, <1>2, <1>8 DEF Dialogs, Roles
  <2>2. ~Unended' /\ ~Unended /\ tran'.gsm # "Active" /\ tran'.mach = "none"
    BY <1>2, <1>4, <1>8, <2>1 DEF Unended
  <2>3. DialogTold' /\ MOUnended' /\ MTUnended' /\ MTEarly'
    BY <2>2 DEF DialogTold, MOUnended, MTUnended, MTEarly
  <2>4. ASSUME dir = "MO" PROVE MOSip'
    <3>1. MOFresh /\ MOUnmapped /\ MOWire /\ MOHungUp
      BY <2>4 DEF IInv, SipInv, MOSip
    <3>2. QED
      BY <1>1, <2>1, <2>2, <2>3, <3>1 DEF MOSip, MOFresh, MOUnmapped, MOWire, MOHungUp
  <2>5. ASSUME dir = "MT" PROVE MTSip'
    <3>1. MTFresh /\ MTUnmapped /\ MTOver /\ MTWire /\ MTHungUp
      BY <2>5 DEF IInv, SipInv, MTSip
    <3>2. tran \in TranEntries /\ tran.mach = "none"
      BY <1>1, <1>8, <2>5, HereIs DEF Roles, TranEntries, Machines
    <3>3. MTOver' /\ MTFresh'
      BY <1>1, <2>1, <2>2, <3>1, <3>2 DEF MTOver, MTFresh
    <3>4. QED
      BY <1>1, <2>1, <2>3, <3>1, <3>3 DEF MTSip, MTUnmapped, MTWire, MTHungUp
  <2>6. QED
    BY <1>1, <1>6, <2>3, <2>4, <2>5 DEF SipInv
<1>9. QED
  BY <1>7, <1>8

LEMMA Shortens ==
  ASSUME NEW S, NEW q \in Seq(S), q # <<>>
  PROVE  Tail(q) \in Seq(S) /\ Head(q) \in S
OBVIOUS

LEMMA Listening ==
  ASSUME NEW S, NEW q \in Seq(S), NEW c
  PROVE  /\ Heeded(c, q) \in Seq(S)
         /\ c # "idle" => Heeded(c, q) = q
         /\ \A X : HasAny(Heeded(c, q), X) => HasAny(q, X)
<1>1. <<>> \in Seq(S)
  OBVIOUS
<1>2. QED
  BY <1>1, HasNone DEF Heeded

(* The frames that are left: all, or all but the one that has been read.    *)
Left(frames) == frames = up \/ (up # <<>> /\ frames = Tail(up))

LEMMA LeftOver ==
  ASSUME NEW S, up \in Seq(S), NEW frames, Left(frames)
  PROVE  /\ frames \in Seq(S)
         /\ \A X : HasAny(frames, X) => HasAny(up, X)
         /\ \A X, Y : Closes(up, X, Y) => Closes(frames, X, Y)
<1>1. CASE frames = up
  BY <1>1
<1>2. CASE up # <<>> /\ frames = Tail(up)
  BY <1>2, HasTail, ClosesTail, Shortens
<1>3. QED
  BY <1>1, <1>2 DEF Left

LEMMA ReleaseKeeps ==
  ASSUME IInv, tran.ti, tran.gsm # "CallPresent", NEW g \in Legs, AlikeBut(sip, g.d), g.d.tran, g.t.ti, g.f = down,
         g.t.mach \in {"MOC", "MTC", "Assign", "InCall"}, g.t.mach = "MOC" => dir = "MO", g.t.mach = "MTC" => dir = "MT",
         phone.call \notin {"confirmed", "alerting"}, NEW frames, Left(frames), ~HasAny(frames, Answered),
         NEW cause, NEW h, Released(g, h, cause), Becomes(h, frames)
  PROVE  L3Inv' /\ SipInv'
<1>1. /\ TypeOK /\ sip \in Dialogs /\ dir \in {"MO", "MT"} /\ Roles /\ Calling
      /\ g.d \in Dialogs /\ g.t \in TranEntries /\ sip.tran
  BY HereIs DEF IInv, TInv, L3Inv, Legs, Roles
<1>2. PICK s \in {"ReleaseRequest", "DisconnectIndication"} :
          h.t = [g.t EXCEPT !.gsm = s, !.timers = g.t.timers \cup {"T308"}]
  BY DEF Released
<1>3. PICK x \in {"Release", "Disconnect"} : h.f = Append(down, x)
  BY DEF Released
<1>4. h.t.mach = g.t.mach /\ h.t.gsm = s /\ h.t.ti /\ "T308" \in h.t.timers
  BY <1>1, <1>2 DEF TranEntries
<1>5. /\ tran'.mach = g.t.mach /\ tran'.gsm = s /\ tran'.ti /\ "T308" \in tran'.timers
      /\ sip' = dialogCancel(g.d, cause) /\ down' = Heeded(phone.call, Append(down, x)) /\ up' = frames
      /\ UNCHANGED <<phone, dir, toBts, peer>>
  BY <1>3, <1>4 DEF Becomes, Released
<1>6. PICK e \in Dialogs : e = dialogCancel(g.d, cause)
  BY <1>1, Cancels
<1>7. Cancelled(g.d, e, cause)
  BY <1>1, <1>6, Cancels
<1>8. AlikeBut(e, sip') /\ sip'.tran
  BY <1>5, <1>6, <1>7 DEF AlikeBut, Cancelled
<1>9. SipInv'
  BY <1>1, <1>5, <1>7, <1>8, CancelKeeps
<1>10. Roles'
  BY <1>5, <1>8 DEF Roles
<1>11. NoCall' /\ Opening' /\ Paged' /\ Offered'
  BY <1>5 DEF NoCall, Opening, Paged, Offered
<1>12. Clearing /\ (dir = "MO" => MOCalling) /\ (dir = "MT" => MTCalling) /\ up \in Seq(UpFrames)
  BY <1>1 DEF Calling, TypeOK
<1>13. \A X : HasAny(frames, X) => HasAny(up, X)
  BY <1>12, LeftOver
<1>14. Clearing'
  BY <1>5, <1>12, <1>13 DEF Clearing, Ending
<1>15. ASSUME dir = "MO" PROVE MOCalling'
  <2> DEFINE D == {"AssignmentCommand", "Connect", "Disconnect", "Release"}
             U == Assignments \cup {"ConnectAcknowledge"} \cup Leavers
  <2>1. down \in Seq(D) /\ up \in Seq(U) /\ x \in D
    BY <1>12, <1>15 DEF MOCalling
  <2>2. Append(down, x) \in Seq(D)
    BY <2>1
  <2>3. up' \in Seq(U) /\ down' \in Seq(D)
    BY <1>5, <2>1, <2>2, LeftOver, Listening
  <2> HIDE DEF D, U
  <2>4. QED
    BY <1>5, <1>12, <1>13, <1>15, <2>3 DEF MOCalling, D, U
<1>16. ASSUME dir = "MT" PROVE MTCalling'
  <2> DEFINE D == {"AssignmentCommand", "ConnectAcknowledge", "Disconnect", "Release"}
             U == Assignments \cup Answered \cup Leavers
  <2>1. down \in Seq(D) /\ up \in Seq(U) /\ x \in D /\ Closes(up, Leavers \cup {"Connect"}, Answered)
    BY <1>12, <1>16 DEF MTCalling
  <2>2. Append(down, x) \in Seq(D)
    BY <2>1
  <2>3. up' \in Seq(U) /\ down' \in Seq(D) /\ Closes(up', Leavers \cup {"Connect"}, Answered)
    BY <1>5, <2>1, <2>2, LeftOver, Listening
  <2> HIDE DEF D, U
  <2>4. QED
    BY <1>5, <1>12, <1>16, <2>3 DEF MTCalling, D, U, Ending
<1>17. Calling'
  BY <1>1, <1>5, <1>14, <1>15, <1>16 DEF Calling
<1>18. QED
  BY <1>9, <1>10, <1>11, <1>17 DEF L3Inv

(* closeCall: with what it needs to know when the call is Active.           *)
LEMMA CloseKeeps ==
  ASSUME IInv, tran.mach # "none", NEW g \in Legs, AlikeBut(sip, g.d), g.d.tran = sip.tran, ~sip.tran => g.d = sip,
         g.t.ti => tran.ti, g.t.gsm = tran.gsm, g.f = down, g.t.mach \in {"MOC", "MTC", "Assign", "InCall"},
         g.t.mach = "MOC" => dir = "MO", g.t.mach = "MTC" => dir = "MT",
         NEW frames, Left(frames), NEW cause, Becomes(closeCall(g, cause), frames)
  PROVE  L3Inv' /\ SipInv'
<1>1. /\ TypeOK /\ dir \in {"MO", "MT"} /\ Roles /\ Calling
  BY HereIs DEF IInv, TInv, L3Inv
<1>2. PICK h : h = closeCall(g, cause)
  OBVIOUS
<1>3. CASE Quitted(g, h, cause)
  BY <1>2, <1>3, QuitKeeps
<1>4. CASE Released(g, h, cause) /\ g.t.gsm = "Active"
  <2>1. g.t.ti /\ tran.ti /\ tran.gsm # "CallPresent" /\ tran.gsm = "Active" /\ g.d.tran
    BY <1>1, <1>4 DEF Released, Roles
  <2>2. phone.call \notin {"confirmed", "alerting"} /\ ~HasAny(up, Answered)
    <3>1. ASSUME dir = "MO" PROVE phone.call \notin {"confirmed", "alerting"} /\ ~HasAny(up, Answered)
      <4>1. MOCalling
        BY <1>1, <2>1, <3>1 DEF Calling
      <4>2. up \in Seq(Assignments \cup {"ConnectAcknowledge"} \cup Leavers)
        BY <4>1 DEF MOCalling
      <4>3. \A i \in 1..Len(up) : up[i] \in Assignments \cup {"ConnectAcknowledge"} \cup Leavers
        BY <4>2
      <4>4. ~HasAny(up, Answered)
        BY <4>3 DEF HasAny, Answered, Assignments, Leavers
      <4>5. QED
        BY <4>1, <4>4 DEF MOCalling
    <3>2. ASSUME dir = "MT" PROVE phone.call \notin {"confirmed", "alerting"} /\ ~HasAny(up, Answered)
      BY <1>1, <2>1, <3>2 DEF Calling, MTCalling
    <3>3. QED
      BY <1>1, <3>1, <3>2
  <2>3. ~HasAny(frames, Answered)
    BY <1>1, <2>2, LeftOver DEF TypeOK
  <2>4. QED
    BY <1>2, <1>4, <2>1, <2>2, <2>3, ReleaseKeeps
<1>5. QED
  BY <1>1, <1>2, <1>3, <1>4, Releases

(* A step of L3 that leaves the dialog as it is, but for what it has read   *)
(* and an ACK.                                                               *)
LEMMA SipKept ==
  ASSUME IInv, UNCHANGED <<dir, toBts, peer>>, sip' = sip \/ sip.tran,
         sip'.state = sip.state, sip'.prev = sip.prev, sip'.mapped = sip.mapped, sip'.tagged = sip.tagged,
         sip'.last = sip.last, sip'.tu = sip.tu, sip'.tran = sip.tran,
         \/ sip'.out = sip.out
         \/ dir = "MO" /\ sip'.out = sip.out \cup {"ACK"} /\ tran'.mach # "Assign",
         Ending => "T308" \in tran'.timers,
         Unended /\ Told => tran'.mach = "Assign" \/ HasAny(sip'.inbox, Final),
         Unended /\ sip.prev \in Final /\ tran.mach \in {"Paging", "Assign"} => tran'.mach \in {"Paging", "Assign"},
         Unended /\ sip.prev \in Final /\ (tran'.mach \in {"Paging", "Assign"} \/ tran'.gsm = "CallPresent")
            => sip.state \in Finished,
         HasAny(sip'.inbox, {"Active"}) => HasAny(sip.inbox, {"Active"}),
         dir = "MO" /\ tran'.gsm = "Active" => "Active" \in {tran.gsm, sip.state},
         dir = "MO" /\ tran'.mach = "Assign" => tran.mach = "Assign",
         dir = "MT" /\ Unended /\ tran'.gsm \in Early => tran.gsm \in Early,
         dir = "MT" => (tran'.mach = "none" <=> tran.mach = "none")
  PROVE  SipInv'
<1>1. /\ dir \in {"MO", "MT"} /\ sip \in Dialogs /\ tran \in TranEntries /\ Roles /\ DialogTold
      /\ (Unended' => Unended) /\ (Unended /\ Told /\ tran'.mach # "Assign" => Told')
  BY HereIs DEF IInv, TInv, L3Inv, SipInv, Unended, Ending, Told
<1>2. DialogTold'
  <2>1. ASSUME Unended', sip.prev \in Final, tran'.mach \in {"MOC", "MTC", "InCall"} PROVE Told'
    <3>1. tran.mach \in {"MOC", "MTC", "InCall"}
      BY <1>1, <2>1 DEF Roles, Unended
    <3>2. QED
      BY <1>1, <2>1, <3>1 DEF DialogTold
  <2>2. QED
    BY <1>1, <2>1 DEF DialogTold
<1>3. ASSUME dir = "MO" PROVE MOSip'
  <2>1. MOFresh /\ MOUnmapped /\ MOWire /\ MOUnended /\ MOHungUp
    BY <1>3 DEF IInv, SipInv, MOSip
  <2>2. MOFresh' /\ MOUnmapped' /\ MOHungUp'
    BY <2>1, FreshDialog DEF MOFresh, MOUnmapped, MOHungUp
  <2>3. MOWire'
    BY <1>3, <2>1 DEF MOWire
  <2>4. MOUnended'
    BY <1>1, <1>3, <2>1 DEF MOUnended, Roles
  <2>5. QED
    BY <2>2, <2>3, <2>4 DEF MOSip
<1>4. ASSUME dir = "MT" PROVE MTSip'
  <2>1. MTFresh /\ MTUnmapped /\ MTOver /\ MTWire /\ MTEarly /\ MTUnended /\ MTHungUp
    BY <1>4 DEF IInv, SipInv, MTSip
  <2>2. sip'.out = sip.out
    BY <1>4
  <2>3. MTFresh' /\ MTUnmapped' /\ MTOver' /\ MTHungUp'
    BY <1>4, <2>1, <2>2, FreshDialog DEF MTFresh, MTUnmapped, MTOver, MTHungUp, NoDialog
  <2>4. MTWire'
    BY <2>1, <2>2 DEF MTWire
  <2>5. MTEarly' /\ MTUnended'
    BY <1>1, <1>4, <2>1, <2>2 DEF MTEarly, MTUnended
  <2>6. QED
    BY <2>3, <2>4, <2>5 DEF MTSip
<1>5. QED
  BY <1>1, <1>2, <1>3, <1>4 DEF SipInv

(* A step of L3 in a call that goes on.                                      *)
LEMMA CallGoesOn ==
  ASSUME IInv, tran.ti, tran.gsm # "CallPresent", UNCHANGED <<dir, phone>>, sip'.tran,
         tran'.ti, tran'.mach \in {"MOC", "MTC", "Assign", "InCall"},
         tran'.mach = "MOC" => dir = "MO", tran'.mach = "MTC" => dir = "MT",
         Ending <=> "T308" \in tran'.timers,
         NEW x, x \in {"AssignmentCommand"} \cup (IF dir = "MO" THEN {"Connect"} ELSE {"ConnectAcknowledge"}),
         NEW q \in {down, Append(down, x)}, down' = Heeded(phone.call, q),
         Left(up'), HasAny(up, {"Disconnect"}) /\ ~Ending => HasAny(up', {"Disconnect"}),
         tran'.gsm \in {"DisconnectIndication", "ReleaseRequest"} => Ending,
         dir = "MO" =>
            /\ tran'.gsm \in {"MOCProceeding", "MOCDelivered", "ConnectIndication", "Active",
                              "DisconnectIndication", "ReleaseRequest"}
            /\ tran'.gsm = "Active" => phone.call # "calling",
         dir = "MT" =>
            /\ tran'.gsm \in {"MTCConfirmed", "CallReceived", "ConnectIndication", "Active",
                              "DisconnectIndication", "ReleaseRequest"}
            /\ phone.call = "confirmed" => tran'.gsm = "MTCConfirmed"
            /\ phone.call = "alerting" => tran'.gsm \in {"MTCConfirmed", "CallReceived"}
            /\ tran'.gsm \in {"ConnectIndication", "Active"} => ~HasAny(up', Answered)
            /\ tran'.mach = "Assign" => tran'.gsm \in {"MTCConfirmed", "DisconnectIndication", "ReleaseRequest"}
            /\ tran'.mach = "InCall" /\ ~Ending => tran'.gsm = "Active"
            /\ phone.call = "connecting" /\ tran'.gsm = "Active" /\ ~Ending => HasAny(down', {"ConnectAcknowledge"})
  PROVE  L3Inv'
<1>1. /\ dir \in {"MO", "MT"} /\ up \in Seq(UpFrames) /\ Clearing
      /\ (dir = "MO" => MOCalling) /\ (dir = "MT" => MTCalling)
  BY HereIs DEF IInv, TInv, L3Inv, Calling
<1>2. \A X : HasAny(up', X) => HasAny(up, X)
  BY <1>1, LeftOver
<1>3. ASSUME NEW D, down \in Seq(D), x \in D PROVE down' \in Seq(D) /\ \A X : HasAny(down', X) => HasAny(down, X) \/ x \in X
  <2>1. q \in Seq(D) /\ \A X : HasAny(q, X) => HasAny(down, X) \/ x \in X
    <3>1. Append(down, x) \in Seq(D)
      BY <1>3
    <3>2. QED
      BY <1>3, <3>1, HasAppend
  <2>2. QED
    BY <2>1, Listening
<1>4. Roles' /\ NoCall' /\ Opening' /\ Paged' /\ Offered'
  <2>1. tran'.gsm # "CallPresent"
    BY <1>1
  <2>2. QED
    BY <2>1 DEF Roles, NoCall, Opening, Paged, Offered
<1>5. ~HasAny(down, {"Disconnect", "Release"}) => ~HasAny(down', {"Disconnect", "Release"})
  <2>1. down \in Seq(DownFrames) /\ x \in DownFrames
    BY <1>1 DEF IInv, TInv, TypeOK, DownFrames
  <2>2. QED
    BY <1>1, <1>3, <2>1
<1>6. Clearing'
  BY <1>1, <1>2, <1>5 DEF Clearing, Ending
<1>7. ASSUME dir = "MO" PROVE MOCalling'
  <2> DEFINE D == {"AssignmentCommand", "Connect", "Disconnect", "Release"}
             U == Assignments \cup {"ConnectAcknowledge"} \cup Leavers
  <2>1. down \in Seq(D) /\ up \in Seq(U) /\ x \in D
    BY <1>1, <1>7 DEF MOCalling
  <2>2. up' \in Seq(U) /\ down' \in Seq(D)
    BY <1>3, <2>1, LeftOver
  <2> HIDE DEF D, U
  <2>3. QED
    BY <1>1, <1>2, <1>7, <2>2 DEF MOCalling, D, U
<1>8. ASSUME dir = "MT" PROVE MTCalling'
  <2> DEFINE D == {"AssignmentCommand", "ConnectAcknowledge", "Disconnect", "Release"}
             U == Assignments \cup Answered \cup Leavers
  <2>1. down \in Seq(D) /\ up \in Seq(U) /\ x \in D /\ Closes(up, Leavers \cup {"Connect"}, Answered)
    BY <1>1, <1>8 DEF MTCalling
  <2>2. up' \in Seq(U) /\ down' \in Seq(D) /\ Closes(up', Leavers \cup {"Connect"}, Answered)
    BY <1>3, <2>1, LeftOver
  <2> HIDE DEF D, U
  <2>3. QED
    BY <1>1, <1>2, <1>8, <2>2 DEF MTCalling, D, U, Ending
<1>9. QED
  BY <1>4, <1>6, <1>7, <1>8 DEF L3Inv, Calling

-----------------------------------------------------------------------------
(* Legs, field by field.                                                     *)
Leg(g, m, s, b, T, d, f) ==
    /\ g \in Legs /\ g.d = d /\ g.f = f
    /\ g.t.mach = m /\ g.t.gsm = s /\ g.t.ti = b /\ g.t.timers = T

LEMMA LegSteps ==
  ASSUME NEW g, NEW m, NEW s, NEW b, NEW T, NEW d, NEW f, Leg(g, m, s, b, T, d, f)
  PROVE  /\ \A x \in DownFrames : Leg(l3sendm(g, x), m, s, b, T, d, Append(f, x))
         /\ \A u \in CallStates : Leg(setGSMState(g, u), m, u, b, T, d, f)
         /\ \A x \in L3Timers : Leg(timerStart(g, x), m, s, b, T \cup {x}, d, f)
         /\ \A x : Leg(timerStop(g, x), m, s, b, T \ {x}, d, f)
         /\ Leg(timerStopAll(g), m, s, b, {}, d, f)
         /\ \A n \in Machines : Leg(Run(g, n), n, s, b, T, d, f)
         /\ \A e \in Dialogs : Leg([g EXCEPT !.d = e], m, s, b, T, e, f)
         /\ Leg([g EXCEPT !.t.ti = TRUE], m, s, TRUE, T, d, f)
<1>1. g \in Legs /\ g.t \in TranEntries /\ g.t = [mach |-> m, gsm |-> s, ti |-> b, timers |-> T]
  BY LegTyped DEF Leg, TranEntries
<1>2. ASSUME NEW x \in DownFrames PROVE Leg(l3sendm(g, x), m, s, b, T, d, Append(f, x))
  <2>1. l3sendm(g, x) \in Legs
    BY <1>1, LegTyped
  <2>2. QED
    BY <1>1, <2>1 DEF l3sendm, Leg, Legs
<1>3. ASSUME NEW u \in CallStates PROVE Leg(setGSMState(g, u), m, u, b, T, d, f)
  <2>1. setGSMState(g, u) \in Legs
    BY <1>1, LegTyped
  <2>2. QED
    BY <1>1, <2>1 DEF setGSMState, Leg, Legs, TranEntries
<1>4. ASSUME NEW x \in L3Timers PROVE Leg(timerStart(g, x), m, s, b, T \cup {x}, d, f)
  <2>1. timerStart(g, x) \in Legs
    BY <1>1, LegTyped
  <2>2. QED
    BY <1>1, <2>1 DEF timerStart, Leg, Legs, TranEntries
<1>5. ASSUME NEW x PROVE Leg(timerStop(g, x), m, s, b, T \ {x}, d, f)
  <2>1. timerStop(g, x) \in Legs
    BY <1>1, LegTyped
  <2>2. QED
    BY <1>1, <2>1 DEF timerStop, Leg, Legs, TranEntries
<1>6. Leg(timerStopAll(g), m, s, b, {}, d, f)
  <2>1. timerStopAll(g) \in Legs
    BY <1>1, LegTyped
  <2>2. QED
    BY <1>1, <2>1 DEF timerStopAll, Leg, Legs, TranEntries
<1>7. ASSUME NEW n \in Machines PROVE Leg(Run(g, n), n, s, b, T, d, f)
  <2>1. Run(g, n) \in Legs
    BY <1>1, LegTyped
  <2>2. QED
    BY <1>1, <2>1 DEF Run, Leg, Legs, TranEntries
<1>8. ASSUME NEW e \in Dialogs PROVE Leg([g EXCEPT !.d = e], m, s, b, T, e, f)
  BY <1>1 DEF Leg, Legs
<1>9. Leg([g EXCEPT !.t.ti = TRUE], m, s, TRUE, T, d, f)
  BY <1>1 DEF Leg, Legs, TranEntries
<1>10. QED
  BY <1>2, <1>3, <1>4, <1>5, <1>6, <1>7, <1>8, <1>9

LEMMA LegHere ==
  ASSUME TypeOK
  PROVE  Leg(Here, tran.mach, tran.gsm, tran.ti, tran.timers, sip, down)
BY HereIs DEF Leg

LEMMA CallWords ==
  /\ {"CMServiceAccept", "AssignmentCommand", "Setup", "Connect", "ConnectAcknowledge"} \subseteq DownFrames
  /\ {"MOCInitiated", "MOCProceeding", "MOCDelivered", "CallPresent", "MTCConfirmed", "CallReceived",
      "ConnectIndication", "Active"} \subseteq CallStates
  /\ {"T303", "T310", "T301", "T308", "T3101"} = L3Timers
  /\ {"Paging", "MOC", "MTC", "Assign", "InCall"} \subseteq Machines
BY DEF DownFrames, CallStates, L3Timers, Machines

-----------------------------------------------------------------------------
(* The frames of a caller.                                                   *)

LEMMA CallerBegins ==
  ASSUME IInv, up # <<>>, CMServiceRequest
  PROVE  L3Inv' /\ SipInv'
<1>1. /\ TypeOK /\ sip \in Dialogs /\ tran = NoTran /\ Roles /\ NoCall /\ tran.mach = "none" /\ tran.timers = {}
      /\ tran.gsm = "NullState" /\ ~tran.ti /\ tran.ti = FALSE
  BY HereIs DEF IInv, TInv, L3Inv, CMServiceRequest, TypeOK, NoTran
<1>2. /\ dir = "MO" /\ sip = NoDialog /\ ~phone.tch /\ down = <<>>
      /\ \/ phone.call = "asking" /\ up = <<"CMServiceRequest">>
         \/ phone.call = "idle" /\ up = <<"CMServiceRequest", "CMServiceAbort">>
  BY <1>1 DEF NoCall
<1>3. \/ phone.call = "asking" /\ Tail(up) = <<>>
      \/ phone.call = "idle" /\ Tail(up) = <<"CMServiceAbort">>
  <2>1. Tail(<<"CMServiceRequest">>) = <<>> /\ Tail(<<"CMServiceRequest", "CMServiceAbort">>) = <<"CMServiceAbort">>
    OBVIOUS
  <2>2. QED
    BY <1>2, <2>1
<1>4. CASE Answers(Here)
  <2>1. tran' = tran /\ sip' = sip /\ up' = <<>> /\ down' = <<>> /\ phone' = Idle /\ UNCHANGED <<dir, toBts, peer>>
    BY <1>1, <1>4, HereIs DEF Answers, Becomes
  <2>2. L3Inv'
    BY <1>1, <2>1 DEF L3Inv, Roles, NoCall, Opening, Paged, Offered, Calling, NoTran, Idle
  <2>3. SipInv'
    BY <1>1, <1>2, <2>1, SipKept, FreshDialog DEF NoTran, Ending, Unended
  <2>4. QED
    BY <2>2, <2>3
<1>5. CASE Answers(l3sendm(timerStart(setGSMState(Run(Here, "MOC"), "MOCInitiated"), "T303"), "CMServiceAccept"))
  <2> DEFINE g1 == Run(Here, "MOC")
             g2 == setGSMState(g1, "MOCInitiated")
             g3 == timerStart(g2, "T303")
             g4 == l3sendm(g3, "CMServiceAccept")
             T == tran.timers \cup {"T303"}
             f == Append(down, "CMServiceAccept")
  <2>1. Leg(g1, "MOC", tran.gsm, tran.ti, tran.timers, sip, down)
    BY <1>1, LegHere, LegSteps, CallWords
  <2>2. Leg(g2, "MOC", "MOCInitiated", tran.ti, tran.timers, sip, down)
    BY <2>1, LegSteps, CallWords
  <2>3. Leg(g3, "MOC", "MOCInitiated", tran.ti, T, sip, down)
    BY <2>2, LegSteps, CallWords
  <2>4. Leg(g4, "MOC", "MOCInitiated", tran.ti, T, sip, f)
    BY <2>3, LegSteps, CallWords
  <2>5. /\ tran'.mach = "MOC" /\ tran'.gsm = "MOCInitiated" /\ tran'.timers = {"T303"} /\ ~tran'.ti
        /\ sip' = sip /\ down' = Heeded(phone.call, Append(down, "CMServiceAccept")) /\ up' = Tail(up)
        /\ UNCHANGED <<phone, dir, toBts, peer>>
    <3>1. Becomes(g4, Tail(up)) /\ T = {"T303"}
      BY <1>1, <1>5 DEF Answers
    <3> HIDE DEF g4, T, f
    <3>2. QED
      BY <1>1, <2>4, <3>1 DEF Becomes, Leg, f
  <2>6. Append(down, "CMServiceAccept") = <<"CMServiceAccept">>
    BY <1>2
  <2>7. Opening'
    BY <1>2, <1>3, <2>5, <2>6 DEF Opening, Heeded, Ending
  <2>8. L3Inv'
    BY <1>1, <1>2, <2>5, <2>7, FreshDialog DEF L3Inv, Roles, NoCall, Paged, Offered, Calling
  <2>9. SipInv'
    BY <1>1, <1>2, <2>5, SipKept, FreshDialog DEF Ending, Unended
  <2>10. QED
    BY <2>8, <2>9
<1>6. QED
  BY <1>4, <1>5 DEF CMServiceRequest

LEMMA CallerSetsUp ==
  ASSUME IInv, up # <<>>, MOCSetup
  PROVE  L3Inv' /\ SipInv'
<1>1. /\ TypeOK /\ sip \in Dialogs /\ tran \in TranEntries /\ Roles /\ Calling /\ Opening /\ tran.mach = "MOC"
      /\ Head(up) = "Setup" /\ dir = "MO"
  BY HereIs DEF IInv, TInv, L3Inv, MOCSetup, Roles
<1>2. ~tran.ti
  <2>1. SUFFICES ASSUME tran.ti PROVE FALSE
    OBVIOUS
  <2>2. up \in Seq(Assignments \cup {"ConnectAcknowledge"} \cup Leavers)
    BY <1>1, <2>1 DEF Calling, Roles, MOCalling
  <2>3. Head(up) \in Assignments \cup {"ConnectAcknowledge"} \cup Leavers
    BY <2>2
  <2>4. QED
    BY <1>1, <2>3 DEF Assignments, Leavers
<1>3. /\ sip = NoDialog /\ ~phone.tch /\ ~Ending /\ tran.gsm = "MOCInitiated" /\ down = <<>>
      /\ \/ phone.call = "calling" /\ Tail(up) = <<>>
         \/ phone.call = "leaving" /\ Tail(up) = <<"Disconnect">>
  <2>1. /\ Head(<<"CMServiceAbort">>) = "CMServiceAbort" /\ Tail(<<"Setup">>) = <<>>
        /\ Tail(<<"Setup", "Disconnect">>) = <<"Disconnect">>
    OBVIOUS
  <2>2. QED
    BY <1>1, <1>2, <2>1 DEF Opening
<1>4. toBts = {} /\ peer = "none"
  BY <1>1, <1>3, FreshDialog DEF IInv, SipInv, MOSip, MOFresh
<1>5. PICK d : d = [MOCSendINVITE(sip) EXCEPT !.mapped = TRUE, !.tran = TRUE]
  OBVIOUS
<1>6. /\ d.state = "Starting" /\ d.prev = "Undefined" /\ d.mapped /\ d.tran /\ d.out = {"INVITE"} /\ ~d.tagged
      /\ d.tu = sip.tu /\ d.inbox = <<>> /\ d.last = "none"
  BY <1>1, <1>3, <1>5, FreshDialog DEF MOCSendINVITE, sipWrite, Dialogs
<1>7. d \in Dialogs
  <2>1. PICK e \in Dialogs : e = MOCSendINVITE(sip)
    BY <1>1, SendTyped
  <2>2. QED
    BY <1>5, <2>1 DEF Dialogs
<1> DEFINE g1 == timerStop(Here, "T303")
           g2 == [g1 EXCEPT !.d = d, !.t.ti = TRUE]
           g3 == setGSMState(g2, "MOCProceeding")
           g4 == Run(g3, "Assign")
           g5 == l3sendm(g4, "AssignmentCommand")
           g6 == timerStart(g5, "T3101")
           T1 == tran.timers \ {"T303"}
           T2 == T1 \cup {"T3101"}
           f == Append(down, "AssignmentCommand")
<1>8. Leg(g6, "Assign", "MOCProceeding", TRUE, T2, d, f)
  <2>1. Leg(g1, "MOC", tran.gsm, tran.ti, T1, sip, down)
    BY <1>1, LegHere, LegSteps
  <2>2. Leg(g2, "MOC", tran.gsm, TRUE, T1, d, down)
    BY <1>7, <2>1 DEF Leg, Legs, TranEntries
  <2>3. Leg(g3, "MOC", "MOCProceeding", TRUE, T1, d, down)
    BY <2>2, LegSteps, CallWords
  <2>4. Leg(g4, "Assign", "MOCProceeding", TRUE, T1, d, down)
    BY <2>3, LegSteps, CallWords
  <2>5. Leg(g5, "Assign", "MOCProceeding", TRUE, T1, d, f)
    BY <2>4, LegSteps, CallWords
  <2>6. QED
    BY <2>5, LegSteps, CallWords
<1>9. Becomes(g6, Tail(up)) /\ f = <<"AssignmentCommand">> /\ "T308" \notin T2
  <2>1. g1.d = sip
    BY <1>1, HereIs DEF timerStop, Legs
  <2>2. "T308" \notin T2 /\ f = <<"AssignmentCommand">>
    BY <1>3 DEF Ending
  <2>3. QED
    BY <1>5, <2>1, <2>2 DEF MOCSetup, Answers, StartAssign
<1> HIDE DEF g6, T2, f
<1>10. /\ tran'.mach = "Assign" /\ tran'.gsm = "MOCProceeding" /\ tran'.ti /\ "T308" \notin tran'.timers
       /\ sip' = d /\ down' = <<"AssignmentCommand">> /\ up' = Tail(up)
       /\ UNCHANGED <<phone, dir, toBts, peer>>
  BY <1>3, <1>8, <1>9 DEF Becomes, Leg, Heeded
<1>11. L3Inv'
  <2>1. Roles' /\ NoCall' /\ Opening' /\ Paged' /\ Offered'
    BY <1>1, <1>6, <1>10 DEF Roles, NoCall, Opening, Paged, Offered
  <2>2. /\ ~HasAny(<<"AssignmentCommand">>, {"Disconnect", "Release"}) /\ HasAny(<<"Disconnect">>, {"Disconnect"})
        /\ ~HasAny(<<"Disconnect">>, {"ConnectAcknowledge"})
    BY DEF HasAny
  <2>3. Clearing'
    BY <1>3, <1>10, <2>2, HasNone DEF Clearing, Ending, InCallStates
  <2>4. MOCalling'
    <3>1. up' \in Seq(Assignments \cup {"ConnectAcknowledge"} \cup Leavers)
      <4>1. <<>> \in Seq(Assignments \cup {"ConnectAcknowledge"} \cup Leavers)
        OBVIOUS
      <4>2. <<"Disconnect">> \in Seq(Assignments \cup {"ConnectAcknowledge"} \cup Leavers)
        BY DEF Leavers
      <4>3. QED
        BY <1>3, <1>10, <4>1, <4>2
    <3>2. down' \in Seq({"AssignmentCommand", "Connect", "Disconnect", "Release"})
      BY <1>10
    <3>3. ~HasAny(up', {"ConnectAcknowledge"})
      BY <1>3, <1>10, <2>2, HasNone
    <3>4. QED
      BY <1>3, <1>10, <3>1, <3>2, <3>3 DEF MOCalling
  <2>5. QED
    BY <1>1, <1>10, <2>1, <2>3, <2>4 DEF L3Inv, Calling
<1>12. SipInv'
  <2>1. DialogTold'
    BY <1>6, <1>10 DEF DialogTold, Finished, Final
  <2>2. MOFresh' /\ MOUnmapped' /\ MOHungUp'
    BY <1>6, <1>10 DEF MOFresh, MOUnmapped, MOHungUp, SipFinished, Finished
  <2>3. MOWire' /\ MOUnended'
    BY <1>3, <1>4, <1>6, <1>10, FreshDialog DEF MOWire, MOUnended
  <2>4. QED
    BY <1>1, <1>10, <2>1, <2>2, <2>3 DEF SipInv, MOSip
<1>13. QED
  BY <1>11, <1>12

LEMMA HeadHas ==
  ASSUME NEW S, NEW q \in Seq(S), q # <<>>
  PROVE  /\ \A X : Head(q) \in X => HasAny(q, X)
         /\ \A X : Head(q) \notin X /\ HasAny(q, X) => HasAny(Tail(q), X)
BY HasTail

(* A frame that belongs to a call that is under way finds one.              *)
LEMMA CallerIsCalling ==
  ASSUME IInv, dir = "MO", tran.mach # "none", up # <<>>, Head(up) \notin {"CMServiceAbort", "Setup"}
  PROVE  /\ tran.ti /\ sip.tran /\ tran.gsm # "CallPresent" /\ MOCalling /\ Clearing
         /\ tran.mach \in {"MOC", "Assign", "InCall"}
<1>1. /\ TypeOK /\ tran \in TranEntries /\ Roles /\ Calling /\ Opening
  BY HereIs DEF IInv, TInv, L3Inv
<1>2. Head(<<"CMServiceAbort">>) = "CMServiceAbort" /\ Head(<<"Setup">>) = "Setup" /\ Head(<<"Setup", "Disconnect">>) = "Setup"
  OBVIOUS
<1>3. tran.mach \in {"MOC", "Assign", "InCall"}
  BY <1>1 DEF Roles, TranEntries, Machines
<1>4. tran.ti
  BY <1>1, <1>2, <1>3 DEF Opening, Roles
<1>5. QED
  BY <1>1, <1>3, <1>4 DEF Roles, Calling

LEMMA CallerAcks ==
  ASSUME IInv, up # <<>>, ConnectAcknowledge
  PROVE  L3Inv' /\ SipInv'
<1>1. /\ TypeOK /\ sip \in Dialogs /\ tran \in TranEntries /\ tran.mach = "MOC" /\ Head(up) = "ConnectAcknowledge"
      /\ dir = "MO" /\ up \in Seq(UpFrames) /\ DialogTold
  BY HereIs DEF IInv, TInv, L3Inv, SipInv, ConnectAcknowledge, Roles
<1>2. tran.ti /\ sip.tran /\ tran.gsm # "CallPresent" /\ MOCalling /\ Clearing
  BY <1>1, CallerIsCalling
<1>3. phone.call # "calling"
  BY <1>1, <1>2, HeadHas DEF MOCalling
<1>4. /\ Left(Tail(up))
      /\ HasAny(up, {"Disconnect"}) => HasAny(Tail(up), {"Disconnect"})
  BY <1>1, HeadHas DEF Left
<1>5. ASSUME tran'.mach = "InCall", tran'.gsm = tran.gsm \/ (tran'.gsm = "Active" /\ sip.state = "Active"),
             tran'.ti, tran'.timers = tran.timers, sip' = sip, down' = Heeded(phone.call, down), up' = Tail(up),
             UNCHANGED <<phone, dir, toBts, peer>>
      PROVE  L3Inv' /\ SipInv'
  <2>1. Ending <=> "T308" \in tran'.timers
    BY <1>5 DEF Ending
  <2>2. /\ tran'.gsm \in {"MOCProceeding", "MOCDelivered", "ConnectIndication", "Active",
                          "DisconnectIndication", "ReleaseRequest"}
        /\ tran'.gsm \in {"DisconnectIndication", "ReleaseRequest"} => Ending
    BY <1>2, <1>5 DEF MOCalling, Clearing
  <2>3. L3Inv'
    BY <1>1, <1>2, <1>3, <1>4, <1>5, <2>1, <2>2, CallGoesOn
  <2>4. SipInv'
    BY <1>1, <1>2, <1>5, <2>1, SipKept DEF Told
  <2>5. QED
    BY <2>3, <2>4
<1>6. CASE sip.state = "Active"
  <2> DEFINE g1 == setGSMState(Here, "Active")
             g2 == Run(g1, "InCall")
  <2>1. Leg(g1, "MOC", "Active", tran.ti, tran.timers, sip, down)
    BY <1>1, LegHere, LegSteps, CallWords
  <2>2. Leg(g2, "InCall", "Active", tran.ti, tran.timers, sip, down)
    BY <2>1, LegSteps, CallWords
  <2>3. Becomes(g2, Tail(up))
    BY <1>1, <1>6, Ends DEF ConnectAcknowledge, Answers, Finished
  <2> HIDE DEF g2
  <2>4. /\ tran'.mach = "InCall" /\ tran'.gsm = "Active" /\ tran'.ti /\ tran'.timers = tran.timers
        /\ sip' = sip /\ down' = Heeded(phone.call, down) /\ up' = Tail(up) /\ UNCHANGED <<phone, dir, toBts, peer>>
    BY <1>2, <2>2, <2>3 DEF Becomes, Leg
  <2>5. QED
    BY <1>5, <1>6, <2>4
<1>7. CASE sip.state # "Active" /\ ~isFinished(sip)
  <2> DEFINE g == Run(Here, "InCall")
  <2>1. Leg(g, "InCall", tran.gsm, tran.ti, tran.timers, sip, down)
    BY <1>1, LegHere, LegSteps, CallWords
  <2>2. Becomes(g, Tail(up))
    BY <1>7 DEF ConnectAcknowledge, Answers
  <2> HIDE DEF g
  <2>3. /\ tran'.mach = "InCall" /\ tran'.gsm = tran.gsm /\ tran'.ti /\ tran'.timers = tran.timers
        /\ sip' = sip /\ down' = Heeded(phone.call, down) /\ up' = Tail(up) /\ UNCHANGED <<phone, dir, toBts, peer>>
    BY <1>2, <2>1, <2>2 DEF Becomes, Leg
  <2>4. QED
    BY <1>5, <2>3
<1>8. CASE sip.state # "Active" /\ isFinished(sip)
  <2>1. Becomes(closeCall(Here, "other"), Tail(up))
    BY <1>8 DEF ConnectAcknowledge, Answers
  <2>2. AlikeBut(sip, Here.d)
    BY <1>1, HereIs DEF AlikeBut
  <2>3. QED
    BY <1>1, <1>2, <1>4, <2>1, <2>2, HereIs, CloseKeeps
<1>9. QED
  BY <1>6, <1>7, <1>8

-----------------------------------------------------------------------------
(* The frames of the called handset.                                         *)

LEMMA CalledBegins ==
  ASSUME IInv, up # <<>>, MTCStart
  PROVE  L3Inv' /\ SipInv'
<1>1. /\ TypeOK /\ sip \in Dialogs /\ tran \in TranEntries /\ tran.mach = "Paging" /\ Head(up) = "PagingResponse"
      /\ Roles /\ Paged /\ dir = "MT" /\ sip.tran /\ ~tran.ti /\ DialogTold /\ MTFresh /\ MTEarly /\ MTUnended /\ MTWire
  BY HereIs DEF IInv, TInv, L3Inv, SipInv, MTSip, MTCStart, Roles
<1>2. /\ down = <<>> /\ ~phone.tch /\ ~Ending /\ tran.gsm = "NullState" /\ phone.call = "paged" /\ Tail(up) = <<>>
      /\ Left(Tail(up))
  <2>1. Tail(<<"PagingResponse">>) = <<>>
    OBVIOUS
  <2>2. QED
    BY <1>1, <2>1 DEF Paged, Left
<1>3. AlikeBut(sip, Here.d) /\ Here.d.tran = sip.tran /\ Here \in Legs
  BY <1>1, HereIs DEF AlikeBut
<1>4. CASE isFinished(sip) /\ Answers(closeCall(Run(Here, "MTC"), "other"))
  <2> DEFINE g == Run(Here, "MTC")
  <2>1. Leg(g, "MTC", tran.gsm, tran.ti, tran.timers, sip, down)
    BY <1>1, LegHere, LegSteps, CallWords
  <2>2. Becomes(closeCall(g, "other"), Tail(up))
    BY <1>4 DEF Answers
  <2> HIDE DEF g
  <2>3. AlikeBut(sip, g.d)
    BY <2>1 DEF Leg, AlikeBut
  <2>4. QED
    BY <1>1, <1>2, <2>1, <2>2, <2>3, CloseKeeps DEF Leg
<1>5. CASE Answers(QuitTran(Here, "other"))
  <2>1. Quitted(Here, QuitTran(Here, "other"), "other") /\ Becomes(QuitTran(Here, "other"), Tail(up))
    BY <1>1, <1>3, <1>5, HereIs, Quits DEF Answers
  <2>2. QED
    BY <1>1, <1>3, <2>1, QuitKeeps
<1>6. ASSUME ~isFinished(sip),
             LET g == timerStart(setGSMState(l3sendm(Run(Here, "MTC"), "Setup"), "CallPresent"), "T303")
             IN  Answers([g EXCEPT !.t.ti = TRUE, !.d = MTCSendTrying(@)])
      PROVE  L3Inv' /\ SipInv'
  <2>1. /\ sip.state = "Proceeding" /\ sip.prev \notin Final /\ Unended
        /\ sip.out \subseteq {"Trying", "Ringing", "CancelOk"} /\ toBts \subseteq {"INVITE", "CANCEL"}
        /\ peer \in {"calling", "proceeding", "canceling", "canceled"}
        /\ ~HasAny(sip.inbox, {"Active"}) /\ ~sip.tagged
    <3>1. sip.state \notin Finished
      BY <1>1, <1>6, Ends
    <3>2. Unended /\ tran.gsm \in Early
      BY <1>1, <1>2 DEF Unended, Early
    <3>3. sip.state \in {"Proceeding", "MTDCanceling", "SSFail"} /\ sip.prev \notin Final
      BY <1>1, <3>1, <3>2 DEF DialogTold, MTEarly
    <3>4. QED
      BY <1>1, <3>1, <3>2, <3>3 DEF MTEarly, Finished
  <2>2. PICK d \in Dialogs : d = MTCSendTrying(sip)
    BY <1>1, SendTyped
  <2>3. /\ d.state = "Proceeding" /\ d.prev = sip.prev /\ d.mapped = sip.mapped /\ d.tagged = sip.tagged
        /\ d.out = sip.out \cup {"Trying"} /\ d.last = "Trying" /\ d.tu = sip.tu /\ d.tran /\ d.inbox = sip.inbox
    BY <1>1, <2>1, <2>2 DEF MTCSendTrying, mtWriteLowSide, sipWrite, Dialogs
  <2> DEFINE g1 == Run(Here, "MTC")
             g2 == l3sendm(g1, "Setup")
             g3 == setGSMState(g2, "CallPresent")
             g4 == timerStart(g3, "T303")
             g5 == [g4 EXCEPT !.t.ti = TRUE, !.d = MTCSendTrying(@)]
             T == tran.timers \cup {"T303"}
             f == Append(down, "Setup")
  <2>4. Leg(g1, "MTC", tran.gsm, tran.ti, tran.timers, sip, down)
    BY <1>1, LegHere, LegSteps, CallWords
  <2>5. Leg(g2, "MTC", tran.gsm, tran.ti, tran.timers, sip, f)
    BY <2>4, LegSteps, CallWords
  <2>6. Leg(g3, "MTC", "CallPresent", tran.ti, tran.timers, sip, f)
    BY <2>5, LegSteps, CallWords
  <2>7. Leg(g4, "MTC", "CallPresent", tran.ti, T, sip, f)
    BY <2>6, LegSteps, CallWords
  <2>8. Becomes(g5, Tail(up)) /\ f = <<"Setup">> /\ "T308" \notin T
    BY <1>2, <1>6 DEF Answers, Ending
  <2>9. Leg(g5, "MTC", "CallPresent", TRUE, T, d, f)
    <3> HIDE DEF g4, T, f
    <3>1. QED
      BY <2>2, <2>7 DEF Leg, Legs, TranEntries
  <2> HIDE DEF g5, T, f
  <2>10. /\ tran'.mach = "MTC" /\ tran'.gsm = "CallPresent" /\ tran'.ti /\ "T308" \notin tran'.timers
         /\ sip' = d /\ down' = <<"Setup">> /\ up' = <<>>
         /\ UNCHANGED <<phone, dir, toBts, peer>>
    BY <1>2, <2>8, <2>9 DEF Becomes, Leg, Heeded
  <2>11. L3Inv'
    BY <1>1, <1>2, <2>3, <2>10 DEF L3Inv, Roles, NoCall, Opening, Paged, Offered, Calling, Ending
  <2>12. DialogTold'
    BY <2>1, <2>3, <2>10 DEF DialogTold, Finished
  <2>13. MTFresh' /\ MTUnmapped' /\ MTOver' /\ MTHungUp'
    BY <2>3, <2>10 DEF MTFresh, MTUnmapped, MTOver, MTHungUp, SipFinished, Finished
  <2>14. MTWire' /\ MTEarly'
    BY <1>1, <2>1, <2>3, <2>10 DEF MTWire, MTEarly
  <2>15. MTUnended'
    BY <1>1, <2>1, <2>3, <2>10 DEF MTUnended
  <2>16. QED
    BY <1>1, <2>10, <2>11, <2>12, <2>13, <2>14, <2>15 DEF SipInv, MTSip
<1>7. QED
  BY <1>4, <1>5, <1>6 DEF MTCStart

LEMMA CalledConfirms ==
  ASSUME IInv, up # <<>>, CallConfirmed
  PROVE  L3Inv' /\ SipInv'
<1>1. /\ TypeOK /\ sip \in Dialogs /\ tran \in TranEntries /\ tran.mach = "MTC" /\ Head(up) = "CallConfirmed"
      /\ Roles /\ Calling /\ Offered /\ dir = "MT" /\ sip.tran /\ tran.ti /\ DialogTold
  BY HereIs DEF IInv, TInv, L3Inv, SipInv, CallConfirmed, Roles
<1>2. tran.gsm = "CallPresent"
  <2>1. SUFFICES ASSUME tran.gsm # "CallPresent" PROVE FALSE
    OBVIOUS
  <2>2. up \in Seq(Assignments \cup Answered \cup Leavers)
    BY <1>1, <2>1 DEF Calling, MTCalling
  <2>3. Head(up) \in Assignments \cup Answered \cup Leavers
    BY <2>2
  <2>4. QED
    BY <1>1, <2>3 DEF Assignments, Answered, Leavers
<1>3. /\ ~phone.tch /\ ~Ending /\ down = <<>>
      /\ \/ phone.call = "confirmed" /\ Tail(up) = <<>>
         \/ phone.call = "leaving" /\ Tail(up) = <<"Disconnect">>
  <2>1. /\ Head(<<"ReleaseComplete">>) = "ReleaseComplete" /\ Tail(<<"CallConfirmed">>) = <<>>
        /\ Tail(<<"CallConfirmed", "Disconnect">>) = <<"Disconnect">>
    OBVIOUS
  <2>2. QED
    BY <1>1, <1>2, <2>1 DEF Offered
<1> DEFINE g1 == timerStop(Here, "T303")
           g2 == setGSMState(g1, "MTCConfirmed")
           g3 == timerStart(g2, "T310")
           g4 == Run(g3, "Assign")
           g5 == l3sendm(g4, "AssignmentCommand")
           g6 == timerStart(g5, "T3101")
           T1 == tran.timers \ {"T303"}
           T2 == T1 \cup {"T310"}
           T3 == T2 \cup {"T3101"}
           f == Append(down, "AssignmentCommand")
<1>4. Leg(g1, "MTC", "CallPresent", tran.ti, T1, sip, down)
  BY <1>1, <1>2, LegHere, LegSteps
<1>5. Leg(g6, "Assign", "MTCConfirmed", tran.ti, T3, sip, f)
  <2>1. Leg(g2, "MTC", "MTCConfirmed", tran.ti, T1, sip, down)
    BY <1>4, LegSteps, CallWords
  <2>2. Leg(g3, "MTC", "MTCConfirmed", tran.ti, T2, sip, down)
    BY <2>1, LegSteps, CallWords
  <2>3. Leg(g4, "Assign", "MTCConfirmed", tran.ti, T2, sip, down)
    BY <2>2, LegSteps, CallWords
  <2>4. Leg(g5, "Assign", "MTCConfirmed", tran.ti, T2, sip, f)
    BY <2>3, LegSteps, CallWords
  <2>5. QED
    BY <2>4, LegSteps, CallWords
<1>6. Becomes(g6, Tail(up)) /\ f = <<"AssignmentCommand">> /\ "T308" \notin T3
  <2>1. g1.t.gsm # "MTCConfirmed"
    BY <1>4 DEF Leg
  <2>2. "T308" \notin T3 /\ f = <<"AssignmentCommand">>
    BY <1>3 DEF Ending
  <2>3. QED
    BY <2>1, <2>2 DEF CallConfirmed, Answers, StartAssign
<1> HIDE DEF g6, T3, f
<1>7. /\ tran'.mach = "Assign" /\ tran'.gsm = "MTCConfirmed" /\ tran'.ti /\ "T308" \notin tran'.timers
      /\ sip' = sip /\ down' = <<"AssignmentCommand">> /\ up' = Tail(up)
      /\ UNCHANGED <<phone, dir, toBts, peer>>
  BY <1>1, <1>3, <1>5, <1>6 DEF Becomes, Leg, Heeded
<1>8. L3Inv'
  <2>1. Roles' /\ NoCall' /\ Opening' /\ Paged' /\ Offered'
    BY <1>1, <1>7 DEF Roles, NoCall, Opening, Paged, Offered
  <2>2. /\ ~HasAny(<<"AssignmentCommand">>, {"Disconnect", "Release"}) /\ HasAny(<<"Disconnect">>, {"Disconnect"})
        /\ ~HasAny(<<"Disconnect">>, Answered) /\ Closes(<<"Disconnect">>, Leavers \cup {"Connect"}, Answered)
    BY DEF HasAny, Answered, Closes
  <2>3. Clearing'
    BY <1>3, <1>7, <2>2, HasNone DEF Clearing, Ending, InCallStates
  <2>4. MTCalling'
    <3>1. up' \in Seq(Assignments \cup Answered \cup Leavers)
      <4>1. <<>> \in Seq(Assignments \cup Answered \cup Leavers)
        OBVIOUS
      <4>2. <<"Disconnect">> \in Seq(Assignments \cup Answered \cup Leavers)
        BY DEF Leavers
      <4>3. QED
        BY <1>3, <1>7, <4>1, <4>2
    <3>2. down' \in Seq({"AssignmentCommand", "ConnectAcknowledge", "Disconnect", "Release"})
      BY <1>7
    <3>3. ~HasAny(up', Answered) /\ Closes(up', Leavers \cup {"Connect"}, Answered)
      BY <1>3, <1>7, <2>2, HasNone, ClosesNone
    <3>4. QED
      BY <1>3, <1>7, <3>1, <3>2, <3>3 DEF MTCalling, Ending
  <2>5. QED
    BY <1>1, <1>7, <2>1, <2>3, <2>4 DEF L3Inv, Calling
<1>9. SipInv'
  <2>1. Unended /\ sip.prev \in Final => sip.state \in Finished
    BY <1>1, <1>2 DEF DialogTold
  <2>2. QED
    BY <1>1, <1>2, <1>3, <1>7, <2>1, SipKept DEF Early
<1>10. QED
  BY <1>8, <1>9

LEMMA CalledIsCalling ==
  ASSUME IInv, dir = "MT", tran.mach \notin {"none", "Paging"}, up # <<>>, Head(up) \notin {"ReleaseComplete", "CallConfirmed"}
         \/ tran.gsm # "CallPresent"
  PROVE  /\ tran.ti /\ sip.tran /\ tran.gsm # "CallPresent" /\ MTCalling /\ Clearing
         /\ tran.mach \in {"MTC", "Assign", "InCall"}
<1>1. /\ TypeOK /\ tran \in TranEntries /\ Roles /\ Calling /\ Offered
  BY HereIs DEF IInv, TInv, L3Inv
<1>2. /\ Head(<<"ReleaseComplete">>) = "ReleaseComplete" /\ Head(<<"CallConfirmed">>) = "CallConfirmed"
      /\ Head(<<"CallConfirmed", "Disconnect">>) = "CallConfirmed"
  OBVIOUS
<1>3. tran.mach \in {"MTC", "Assign", "InCall"} /\ tran.gsm # "CallPresent"
  BY <1>1, <1>2 DEF Roles, TranEntries, Machines, Offered
<1>4. QED
  BY <1>1, <1>3 DEF Roles, Calling

(* While the handset has an answer on its way, the caller has none yet.     *)
LEMMA CalledAnswers ==
  ASSUME IInv, tran.mach = "MTC", up # <<>>, Head(up) \in Answered
  PROVE  /\ TypeOK /\ sip \in Dialogs /\ up \in Seq(UpFrames) /\ dir = "MT" /\ DialogTold
         /\ tran.ti /\ sip.tran /\ tran.gsm \in {"MTCConfirmed", "CallReceived"} /\ ~Ending /\ Unended
         /\ MTCalling /\ Clearing /\ MTEarly /\ MTUnended /\ MTWire /\ tran.gsm \in Early
         /\ phone.call # "confirmed" /\ (Head(up) = "Connect" => phone.call # "alerting")
         /\ Head(up) = "Connect" => ~HasAny(Tail(up), Answered)
         /\ Left(Tail(up)) /\ (HasAny(up, {"Disconnect"}) => HasAny(Tail(up), {"Disconnect"}))
<1>1. /\ TypeOK /\ sip \in Dialogs /\ up \in Seq(UpFrames) /\ dir = "MT" /\ DialogTold
      /\ MTEarly /\ MTUnended /\ MTWire
  BY HereIs DEF IInv, TInv, L3Inv, SipInv, MTSip, Roles
<1>2. tran.ti /\ sip.tran /\ tran.gsm # "CallPresent" /\ MTCalling /\ Clearing
  BY <1>1, CalledIsCalling DEF Answered
<1>3. HasAny(up, Answered) /\ (Head(up) = "Connect" => HasAny(up, {"Connect"}))
  BY <1>1, HeadHas
<1>4. tran.gsm \in {"MTCConfirmed", "CallReceived"} /\ ~Ending
  BY <1>2, <1>3 DEF MTCalling, Clearing
<1>5. phone.call # "confirmed" /\ (Head(up) = "Connect" => phone.call # "alerting")
  BY <1>2, <1>3 DEF MTCalling
<1>6. Head(up) = "Connect" => ~HasAny(Tail(up), Answered)
  <2>1. Closes(up, Leavers \cup {"Connect"}, Answered)
    BY <1>2 DEF MTCalling
  <2>2. QED
    BY <1>1, <2>1, ClosesTail
<1>7. Left(Tail(up)) /\ (HasAny(up, {"Disconnect"}) => HasAny(Tail(up), {"Disconnect"}))
  BY <1>1, HeadHas DEF Left, Answered
<1>8. QED
  BY <1>1, <1>2, <1>4, <1>5, <1>6, <1>7 DEF Unended, Early

LEMMA CalledAlerts ==
  ASSUME IInv, up # <<>>, Alerting
  PROVE  L3Inv' /\ SipInv'
<1>1. /\ tran.mach = "MTC" /\ Head(up) = "Alerting" /\ "Alerting" \in Answered
  BY DEF Alerting, Answered
<1>2. /\ TypeOK /\ sip \in Dialogs /\ up \in Seq(UpFrames) /\ dir = "MT" /\ DialogTold
      /\ tran.ti /\ sip.tran /\ tran.gsm \in {"MTCConfirmed", "CallReceived"} /\ ~Ending /\ Unended
      /\ MTCalling /\ Clearing /\ MTEarly /\ MTUnended /\ MTWire /\ tran.gsm \in Early
      /\ phone.call # "confirmed"
      /\ Left(Tail(up)) /\ (HasAny(up, {"Disconnect"}) => HasAny(Tail(up), {"Disconnect"}))
  BY <1>1, CalledAnswers
<1>3. PICK d \in Dialogs : d = MTCSendRinging(sip)
  BY <1>2, SendTyped
<1>4. /\ d.prev = sip.prev /\ d.mapped = sip.mapped /\ d.tagged = sip.tagged
      /\ d.tu = sip.tu /\ d.tran /\ d.inbox = sip.inbox
      /\ \/ sip.state = "SSFail" /\ d = sip
         \/ d.state = "Proceeding" /\ d.out = sip.out \cup {"Ringing"} /\ d.last = "Ringing"
  BY <1>2, <1>3 DEF MTCSendRinging, mtWriteLowSide, sipWrite, Dialogs
<1> DEFINE g1 == timerStart(Here, "T301")
           g2 == setGSMState(g1, "CallReceived")
           g3 == [g2 EXCEPT !.d = MTCSendRinging(@)]
           T == tran.timers \cup {"T301"}
<1>5. Leg(g1, "MTC", tran.gsm, tran.ti, T, sip, down)
  BY <1>1, <1>2, LegHere, LegSteps, CallWords
<1>6. Leg(g2, "MTC", "CallReceived", tran.ti, T, sip, down)
  BY <1>5, LegSteps, CallWords
<1>7. Leg(g3, "MTC", "CallReceived", tran.ti, T, d, down)
  <2> HIDE DEF g2, T
  <2>1. QED
    BY <1>3, <1>6 DEF Leg, Legs
<1>8. Becomes(g3, Tail(up)) /\ "T308" \notin T
  BY <1>2 DEF Alerting, Answers, Ending
<1> HIDE DEF g3, T
<1>9. /\ tran'.mach = "MTC" /\ tran'.gsm = "CallReceived" /\ tran'.ti /\ "T308" \notin tran'.timers
      /\ sip' = d /\ down' = Heeded(phone.call, down) /\ up' = Tail(up) /\ UNCHANGED <<phone, dir, toBts, peer>>
  BY <1>2, <1>7, <1>8 DEF Becomes, Leg
<1>10. L3Inv'
  BY <1>2, <1>4, <1>9, CallGoesOn
<1>11. DialogTold'
  BY <1>1, <1>2, <1>4, <1>9 DEF DialogTold, Told, Finished
<1>12. /\ sip.state \in {"Proceeding", "MTDCanceling", "SSFail"} /\ sip.last \in {"Trying", "Ringing"}
       /\ sip.out \subseteq {"Trying", "Ringing", "CancelOk"} /\ toBts \subseteq {"INVITE", "CANCEL"}
       /\ peer \in {"calling", "proceeding", "canceling", "canceled"}
       /\ ~HasAny(sip.inbox, {"Active"}) /\ ~sip.tagged
  BY <1>2 DEF MTEarly
<1>13. /\ d.state \in {"Proceeding", "SSFail"} /\ d.last \in {"Trying", "Ringing"}
       /\ d.out \subseteq {"Trying", "Ringing", "CancelOk"}
  BY <1>4, <1>12
<1>14. MTFresh' /\ MTUnmapped' /\ MTOver' /\ MTHungUp'
  BY <1>9, <1>13 DEF MTFresh, MTUnmapped, MTOver, MTHungUp, SipFinished, Finished
<1>15. MTWire' /\ MTEarly' /\ MTUnended'
  BY <1>2, <1>4, <1>9, <1>12, <1>13 DEF MTWire, MTEarly, MTUnended
<1>16. QED
  BY <1>2, <1>9, <1>10, <1>11, <1>14, <1>15 DEF SipInv, MTSip

LEMMA CalledConnects ==
  ASSUME IInv, up # <<>>, Connect
  PROVE  L3Inv' /\ SipInv'
<1>1. /\ tran.mach = "MTC" /\ Head(up) = "Connect" /\ "Connect" \in Answered
  BY DEF Connect, Answered
<1>2. /\ TypeOK /\ sip \in Dialogs /\ up \in Seq(UpFrames) /\ dir = "MT" /\ DialogTold
      /\ tran.ti /\ sip.tran /\ tran.gsm \in {"MTCConfirmed", "CallReceived"} /\ ~Ending /\ Unended
      /\ MTCalling /\ Clearing /\ MTEarly /\ MTUnended /\ MTWire /\ tran.gsm \in Early
      /\ phone.call \notin {"confirmed", "alerting"} /\ ~HasAny(Tail(up), Answered)
      /\ Left(Tail(up)) /\ (HasAny(up, {"Disconnect"}) => HasAny(Tail(up), {"Disconnect"}))
  BY <1>1, CalledAnswers
<1>3. PICK d \in Dialogs : d = MTCSendOK(sip)
  BY <1>2, SendTyped
<1>4. /\ d.prev = sip.prev /\ d.mapped = sip.mapped /\ d.tagged = sip.tagged
      /\ d.tu = sip.tu /\ d.tran /\ d.inbox = sip.inbox
      /\ d.state = "Connecting" /\ d.out = sip.out \cup {"OK"} /\ d.last = "OK"
  BY <1>2, <1>3 DEF MTCSendOK, mtWriteLowSide, sipWrite, Dialogs
<1> DEFINE g1 == timerStopAll(Here)
           g2 == setGSMState(g1, "ConnectIndication")
           g3 == [g2 EXCEPT !.d = MTCSendOK(@)]
<1>5. Leg(g1, "MTC", tran.gsm, tran.ti, {}, sip, down)
  BY <1>1, <1>2, LegHere, LegSteps
<1>6. Leg(g2, "MTC", "ConnectIndication", tran.ti, {}, sip, down)
  BY <1>5, LegSteps, CallWords
<1>7. Leg(g3, "MTC", "ConnectIndication", tran.ti, {}, d, down)
  <2> HIDE DEF g2
  <2>1. QED
    BY <1>3, <1>6 DEF Leg, Legs
<1>8. Becomes(g3, Tail(up))
  <2>1. g1.t.gsm # "ConnectIndication"
    BY <1>2, <1>5 DEF Leg
  <2>2. QED
    BY <2>1 DEF Connect, Answers
<1> HIDE DEF g3
<1>9. /\ tran'.mach = "MTC" /\ tran'.gsm = "ConnectIndication" /\ tran'.ti /\ "T308" \notin tran'.timers
      /\ sip' = d /\ down' = Heeded(phone.call, down) /\ up' = Tail(up) /\ UNCHANGED <<phone, dir, toBts, peer>>
  BY <1>2, <1>7, <1>8 DEF Becomes, Leg
<1>10. L3Inv'
  BY <1>2, <1>4, <1>9, CallGoesOn
<1>11. DialogTold'
  BY <1>1, <1>2, <1>4, <1>9 DEF DialogTold, Told, Finished
<1>12. MTFresh' /\ MTUnmapped' /\ MTOver' /\ MTHungUp'
  BY <1>4, <1>9 DEF MTFresh, MTUnmapped, MTOver, MTHungUp, SipFinished, Finished
<1>13. MTWire' /\ MTEarly' /\ MTUnended'
  BY <1>2, <1>4, <1>9 DEF MTWire, MTEarly, MTUnended, Early
<1>14. QED
  BY <1>2, <1>9, <1>10, <1>11, <1>12, <1>13 DEF SipInv, MTSip

-----------------------------------------------------------------------------
(* The frames of either, and the messages of the dialog.                     *)

LEMMA IsCalling ==
  ASSUME IInv, tran.ti, tran.gsm # "CallPresent"
  PROVE  /\ TypeOK /\ sip \in Dialogs /\ tran \in TranEntries /\ up \in Seq(UpFrames) /\ dir \in {"MO", "MT"}
         /\ DialogTold /\ Roles /\ sip.tran /\ Clearing /\ (dir = "MO" => MOCalling) /\ (dir = "MT" => MTCalling)
         /\ Here \in Legs /\ Here.d = sip /\ Here.t = tran /\ Here.f = down /\ AlikeBut(sip, Here.d)
BY HereIs DEF IInv, TInv, L3Inv, SipInv, Calling, Roles, AlikeBut

LEMMA CallerIsAssigned ==
  ASSUME IInv, up # <<>>, AssignmentComplete, dir = "MO"
  PROVE  L3Inv' /\ SipInv'
<1>1. tran.mach = "Assign" /\ Head(up) = "AssignmentComplete" /\ tran.ti /\ tran.gsm # "CallPresent"
  BY DEF AssignmentComplete, IInv, L3Inv, Roles
<1>2. /\ TypeOK /\ sip \in Dialogs /\ tran \in TranEntries /\ up \in Seq(UpFrames) /\ DialogTold /\ sip.tran
      /\ Clearing /\ MOCalling /\ Here.d = sip
  BY <1>1, IsCalling
<1>3. /\ Left(Tail(up))
      /\ HasAny(up, {"Disconnect"}) => HasAny(Tail(up), {"Disconnect"})
  BY <1>1, <1>2, HeadHas DEF Left
<1> DEFINE g1 == timerStop(Here, "T3101")
           g2 == Run(g1, "MOC")
           T == tran.timers \ {"T3101"}
           s == getDialogState(sip.state)
<1>4. Leg(g2, "MOC", tran.gsm, tran.ti, T, sip, down) /\ ("T308" \in T <=> Ending)
  <2>1. Leg(g1, "Assign", tran.gsm, tran.ti, T, sip, down)
    BY <1>1, <1>2, LegHere, LegSteps
  <2>2. Leg(g2, "MOC", tran.gsm, tran.ti, T, sip, down)
    BY <2>1, LegSteps, CallWords
  <2>3. QED
    BY <2>2 DEF Ending
<1>5. Becomes(MOCDialogState(g2, s), Tail(up))
  BY DEF AssignmentComplete, Answers
<1>6. s \in DialogStates /\ (s \in Final <=> sip.state \in Finished) /\ (s = "Active" => sip.state = "Active")
  <2>1. sip.state \in SipStates
    BY <1>2 DEF Dialogs
  <2>2. QED
    BY <2>1, StateTable
<1> HIDE DEF g2, T, s
<1>7. /\ tran.gsm \in {"MOCProceeding", "MOCDelivered", "ConnectIndication", "Active",
                       "DisconnectIndication", "ReleaseRequest"}
      /\ tran.gsm \in {"DisconnectIndication", "ReleaseRequest"} => Ending
      /\ tran.gsm = "Active" => phone.call # "calling"
  BY <1>2 DEF MOCalling, Clearing
<1>8. ASSUME tran'.mach = "MOC", tran'.gsm = tran.gsm \/ tran'.gsm \in {"MOCDelivered", "ConnectIndication"},
             tran'.ti, "T308" \in tran'.timers <=> Ending,
             NEW f \in {down, Append(down, "Connect")}, down' = Heeded(phone.call, f), up' = Tail(up),
             UNCHANGED <<phone, dir, toBts, peer>>, s \notin Final,
             sip' = sip \/ sip' = [sip EXCEPT !.out = sip.out \cup {"ACK"}]
      PROVE  L3Inv' /\ SipInv'
  <2>1. /\ sip'.state = sip.state /\ sip'.prev = sip.prev /\ sip'.mapped = sip.mapped /\ sip'.tagged = sip.tagged
        /\ sip'.last = sip.last /\ sip'.tu = sip.tu /\ sip'.tran = sip.tran /\ sip'.inbox = sip.inbox
        /\ sip'.out \in {sip.out, sip.out \cup {"ACK"}}
    BY <1>2, <1>8 DEF Dialogs
  <2>2. L3Inv'
    BY <1>1, <1>2, <1>3, <1>7, <1>8, <2>1, CallGoesOn
  <2>3. Unended /\ sip.prev \in Final => FALSE
    BY <1>1, <1>2, <1>6, <1>8 DEF DialogTold
  <2>4. SipInv'
    BY <1>1, <1>2, <1>8, <2>1, <2>3, SipKept DEF Told
  <2>5. QED
    BY <2>2, <2>4
<1>9. CASE s \in {"Undefined", "Started", "Proceeding"}
  <2>1. MOCDialogState(g2, s) = g2
    BY <1>9 DEF MOCDialogState
  <2>2. /\ tran'.mach = "MOC" /\ tran'.gsm = tran.gsm /\ tran'.ti /\ tran'.timers = T
        /\ sip' = sip /\ down' = Heeded(phone.call, down) /\ up' = Tail(up) /\ UNCHANGED <<phone, dir, toBts, peer>>
    BY <1>1, <1>4, <1>5, <2>1 DEF Becomes, Leg
  <2>3. QED
    BY <1>4, <1>8, <1>9, <2>2 DEF Final
<1>10. CASE s = "Ringing"
  <2>1. MOCDialogState(g2, s) = setGSMState(g2, "MOCDelivered")
    BY <1>10 DEF MOCDialogState
  <2>2. Leg(setGSMState(g2, "MOCDelivered"), "MOC", "MOCDelivered", tran.ti, T, sip, down)
    BY <1>4, LegSteps, CallWords
  <2>3. /\ tran'.mach = "MOC" /\ tran'.gsm = "MOCDelivered" /\ tran'.ti /\ tran'.timers = T
        /\ sip' = sip /\ down' = Heeded(phone.call, down) /\ up' = Tail(up) /\ UNCHANGED <<phone, dir, toBts, peer>>
    BY <1>1, <1>5, <2>1, <2>2 DEF Becomes, Leg
  <2>4. QED
    BY <1>4, <1>8, <1>10, <2>3 DEF Final
<1>11. CASE s = "Active"
  <2> DEFINE g3 == l3sendm(g2, "Connect")
             g4 == setGSMState(g3, "ConnectIndication")
             g5 == [g4 EXCEPT !.d = sipWrite(@, "ACK")]
             d == [sip EXCEPT !.out = sip.out \cup {"ACK"}]
             f == Append(down, "Connect")
  <2>1. MOCDialogState(g2, s) = g5
    BY <1>11 DEF MOCDialogState
  <2>2. Leg(g3, "MOC", tran.gsm, tran.ti, T, sip, f)
    BY <1>4, LegSteps, CallWords
  <2>3. Leg(g4, "MOC", "ConnectIndication", tran.ti, T, sip, f)
    BY <2>2, LegSteps, CallWords
  <2>4. d = sipWrite(sip, "ACK") /\ d \in Dialogs
    BY <1>2, WriteTyped, Words DEF sipWrite
  <2>5. Leg(g5, "MOC", "ConnectIndication", tran.ti, T, d, f)
    <3> HIDE DEF g4, f, d
    <3>1. QED
      BY <2>3, <2>4 DEF Leg, Legs
  <2> HIDE DEF g5, f
  <2>6. /\ tran'.mach = "MOC" /\ tran'.gsm = "ConnectIndication" /\ tran'.ti /\ tran'.timers = T
        /\ sip' = d /\ down' = Heeded(phone.call, f) /\ up' = Tail(up) /\ UNCHANGED <<phone, dir, toBts, peer>>
    BY <1>1, <1>5, <2>1, <2>5 DEF Becomes, Leg
  <2>7. QED
    BY <1>4, <1>8, <1>11, <2>6 DEF Final, f
<1>12. CASE s \in {"Bye", "Fail"}
  <2>1. Becomes(closeCall(g2, "other"), Tail(up))
    BY <1>5, <1>12 DEF MOCDialogState
  <2>2. AlikeBut(sip, g2.d)
    BY <1>4 DEF Leg, AlikeBut
  <2>3. QED
    BY <1>1, <1>3, <1>4, <2>1, <2>2, CloseKeeps DEF Leg
<1>13. QED
  BY <1>6, <1>9, <1>10, <1>11, <1>12 DEF DialogStates

LEMMA CalledIsAssigned ==
  ASSUME IInv, up # <<>>, AssignmentComplete, dir = "MT"
  PROVE  L3Inv' /\ SipInv'
<1>1. tran.mach = "Assign" /\ Head(up) = "AssignmentComplete" /\ tran.ti /\ tran.gsm # "CallPresent"
  BY DEF AssignmentComplete, IInv, L3Inv, Roles
<1>2. /\ TypeOK /\ sip \in Dialogs /\ tran \in TranEntries /\ up \in Seq(UpFrames) /\ DialogTold /\ sip.tran
      /\ Clearing /\ MTCalling /\ Here.d = sip /\ MTEarly
  BY <1>1, IsCalling DEF IInv, SipInv, MTSip
<1>3. /\ Left(Tail(up))
      /\ HasAny(up, {"Disconnect"}) => HasAny(Tail(up), {"Disconnect"})
      /\ \A X : HasAny(Tail(up), X) => HasAny(up, X)
  BY <1>1, <1>2, HeadHas, HasTail DEF Left
<1> DEFINE g1 == timerStop(Here, "T3101")
           g2 == Run(g1, "MTC")
           T == tran.timers \ {"T3101"}
           s == getDialogState(sip.state)
<1>4. Leg(g2, "MTC", tran.gsm, tran.ti, T, sip, down) /\ ("T308" \in T <=> Ending)
  <2>1. Leg(g1, "Assign", tran.gsm, tran.ti, T, sip, down)
    BY <1>1, <1>2, LegHere, LegSteps
  <2>2. Leg(g2, "MTC", tran.gsm, tran.ti, T, sip, down)
    BY <2>1, LegSteps, CallWords
  <2>3. QED
    BY <2>2 DEF Ending
<1>5. Becomes(MTCDialogState(g2, s), Tail(up))
  BY DEF AssignmentComplete, Answers
<1>6. s \in DialogStates /\ (s \in Final <=> sip.state \in Finished) /\ (s = "Active" => sip.state = "Active")
  <2>1. sip.state \in SipStates
    BY <1>2 DEF Dialogs
  <2>2. QED
    BY <2>1, StateTable
<1> HIDE DEF g2, T, s
<1>7. /\ tran.gsm \in {"MTCConfirmed", "DisconnectIndication", "ReleaseRequest"}
      /\ tran.gsm \in {"DisconnectIndication", "ReleaseRequest"} => Ending
      /\ phone.call = "confirmed" => tran.gsm = "MTCConfirmed" /\ ~Ending
      /\ phone.call = "alerting" => tran.gsm \in {"MTCConfirmed", "CallReceived"} /\ ~Ending
      /\ Ending => ~HasAny(up, Answered)
  BY <1>1, <1>2 DEF MTCalling, Clearing
<1>8. CASE s \notin {"Active", "Bye", "Fail"}
  <2>1. MTCDialogState(g2, s) = g2
    BY <1>8 DEF MTCDialogState
  <2>2. /\ tran'.mach = "MTC" /\ tran'.gsm = tran.gsm /\ tran'.ti /\ tran'.timers = T
        /\ sip' = sip /\ down' = Heeded(phone.call, down) /\ up' = Tail(up) /\ UNCHANGED <<phone, dir, toBts, peer>>
    BY <1>1, <1>4, <1>5, <2>1 DEF Becomes, Leg
  <2>3. L3Inv'
    BY <1>1, <1>2, <1>3, <1>4, <1>7, <2>2, CallGoesOn
  <2>4. Unended /\ sip.prev \in Final => FALSE
    BY <1>1, <1>2, <1>6, <1>8 DEF DialogTold, Final
  <2>5. SipInv'
    BY <1>1, <1>2, <1>4, <2>2, <2>4, SipKept DEF Told
  <2>6. QED
    BY <2>3, <2>5
<1>9. CASE s = "Active"
  <2>1. Ending
    <3>1. SUFFICES ASSUME ~Ending PROVE FALSE
      OBVIOUS
    <3>2. Unended /\ tran.gsm \in Early
      BY <1>2, <1>7, <3>1 DEF Unended, Early
    <3>3. QED
      BY <1>2, <1>6, <1>9, <3>2 DEF MTEarly
  <2> DEFINE g3 == setGSMState(g2, "Active")
             g4 == l3sendm(g3, "ConnectAcknowledge")
             g5 == Run(g4, "InCall")
             f == Append(down, "ConnectAcknowledge")
  <2>2. MTCDialogState(g2, s) = g5
    BY <1>9 DEF MTCDialogState
  <2>3. Leg(g3, "MTC", "Active", tran.ti, T, sip, down)
    BY <1>4, LegSteps, CallWords
  <2>4. Leg(g4, "MTC", "Active", tran.ti, T, sip, f)
    BY <2>3, LegSteps, CallWords
  <2>5. Leg(g5, "InCall", "Active", tran.ti, T, sip, f)
    BY <2>4, LegSteps, CallWords
  <2> HIDE DEF g5, f
  <2>6. /\ tran'.mach = "InCall" /\ tran'.gsm = "Active" /\ tran'.ti /\ tran'.timers = T
        /\ sip' = sip /\ down' = Heeded(phone.call, f) /\ up' = Tail(up) /\ UNCHANGED <<phone, dir, toBts, peer>>
    BY <1>1, <1>5, <2>2, <2>5 DEF Becomes, Leg
  <2>7. f \in {down, Append(down, "ConnectAcknowledge")} /\ ~HasAny(up', Answered)
    BY <1>3, <1>7, <2>1, <2>6 DEF f
  <2>8. L3Inv'
    BY <1>1, <1>2, <1>3, <1>4, <1>7, <2>1, <2>6, <2>7, CallGoesOn
  <2>9. SipInv'
    BY <1>1, <1>2, <1>4, <2>1, <2>6, SipKept DEF Unended, Early
  <2>10. QED
    BY <2>8, <2>9
<1>10. CASE s \in {"Bye", "Fail"}
  <2>1. Becomes(closeCall(g2, "other"), Tail(up))
    BY <1>5, <1>10 DEF MTCDialogState
  <2>2. AlikeBut(sip, g2.d)
    BY <1>4 DEF Leg, AlikeBut
  <2>3. QED
    BY <1>1, <1>3, <1>4, <2>1, <2>2, CloseKeeps DEF Leg
<1>11. QED
  BY <1>8, <1>9, <1>10

LEMMA CallLetBe ==
  ASSUME IInv, tran.ti, tran.gsm # "CallPresent", UNCHANGED <<tran, dir, phone>>, sip'.tran,
         Left(up'), HasAny(up, {"Disconnect"}) => HasAny(up', {"Disconnect"}),
         NEW q \in {down, Append(down, "AssignmentCommand")}, down' = Heeded(phone.call, q)
  PROVE  L3Inv'
<1>1. /\ TypeOK /\ tran \in TranEntries /\ up \in Seq(UpFrames) /\ dir \in {"MO", "MT"}
      /\ Roles /\ Clearing /\ (dir = "MO" => MOCalling) /\ (dir = "MT" => MTCalling)
  BY IsCalling
<1>2. /\ tran.mach \in {"MOC", "MTC", "Assign", "InCall"} /\ (tran.mach = "MOC" => dir = "MO")
      /\ (tran.mach = "MTC" => dir = "MT")
  BY <1>1 DEF Roles
<1>3. \A X : HasAny(up', X) => HasAny(up, X)
  BY <1>1, LeftOver
<1>4. phone.call # "idle" /\ HasAny(down, {"ConnectAcknowledge"}) => HasAny(down', {"ConnectAcknowledge"})
  <2>1. down \in Seq(DownFrames) /\ "AssignmentCommand" \in DownFrames
    BY <1>1 DEF TypeOK, DownFrames
  <2>2. HasAny(down, {"ConnectAcknowledge"}) => HasAny(q, {"ConnectAcknowledge"})
    <3>1. HasAny(down, {"ConnectAcknowledge"}) => HasAny(Append(down, "AssignmentCommand"), {"ConnectAcknowledge"})
      BY <2>1, HasAppend
    <3>2. QED
      BY <3>1
  <2>3. QED
    BY <2>2 DEF Heeded
<1>5. Ending <=> "T308" \in tran'.timers
  BY DEF Ending
<1>6. /\ dir = "MO" =>
            /\ tran'.gsm \in {"MOCProceeding", "MOCDelivered", "ConnectIndication", "Active",
                              "DisconnectIndication", "ReleaseRequest"}
            /\ tran'.gsm = "Active" => phone.call # "calling"
      /\ tran'.gsm \in {"DisconnectIndication", "ReleaseRequest"} => Ending
  BY <1>1 DEF MOCalling, Clearing
<1>7. dir = "MT" =>
            /\ tran'.gsm \in {"MTCConfirmed", "CallReceived", "ConnectIndication", "Active",
                              "DisconnectIndication", "ReleaseRequest"}
            /\ phone.call = "confirmed" => tran'.gsm = "MTCConfirmed"
            /\ phone.call = "alerting" => tran'.gsm \in {"MTCConfirmed", "CallReceived"}
            /\ tran'.gsm \in {"ConnectIndication", "Active"} => ~HasAny(up', Answered)
            /\ tran'.mach = "Assign" => tran'.gsm \in {"MTCConfirmed", "DisconnectIndication", "ReleaseRequest"}
            /\ tran'.mach = "InCall" /\ ~Ending => tran'.gsm = "Active"
            /\ phone.call = "connecting" /\ tran'.gsm = "Active" /\ ~Ending => HasAny(down', {"ConnectAcknowledge"})
  BY <1>1, <1>3, <1>4 DEF MTCalling
<1>8. QED
  BY <1>2, <1>5, <1>6, <1>7, CallGoesOn

LEMMA AssignmentFails ==
  ASSUME IInv, up # <<>>, AssignmentFailure
  PROVE  L3Inv' /\ SipInv'
<1>1. tran.mach = "Assign" /\ Head(up) = "AssignmentFailure" /\ tran.ti /\ tran.gsm # "CallPresent"
  BY DEF AssignmentFailure, IInv, L3Inv, Roles
<1>2. /\ TypeOK /\ sip.tran /\ up \in Seq(UpFrames) /\ Here \in Legs /\ Here.d = sip /\ AlikeBut(sip, Here.d)
      /\ DialogTold
  BY <1>1, IsCalling
<1>3. CASE Answers(QuitTran(Here, "other"))
  <2>1. Quitted(Here, QuitTran(Here, "other"), "other") /\ Becomes(QuitTran(Here, "other"), Tail(up))
    BY <1>2, <1>3, HereIs, Quits DEF Answers
  <2>2. QED
    BY <1>2, <2>1, QuitKeeps
<1>4. CASE Answers(l3sendm(Here, "AssignmentCommand"))
  <2> DEFINE g == l3sendm(Here, "AssignmentCommand")
             f == Append(down, "AssignmentCommand")
  <2>1. Leg(g, tran.mach, tran.gsm, tran.ti, tran.timers, sip, f)
    BY <1>2, LegHere, LegSteps, CallWords
  <2>2. g.t = tran
    BY <1>2, HereIs DEF l3sendm, Legs
  <2>3. Becomes(g, Tail(up))
    BY <1>4 DEF Answers
  <2> HIDE DEF g, f
  <2>4. tran' = tran /\ sip' = sip /\ down' = Heeded(phone.call, f) /\ up' = Tail(up) /\ UNCHANGED <<phone, dir, toBts, peer>>
    BY <1>1, <2>1, <2>2, <2>3 DEF Becomes, Leg
  <2>5. /\ Left(up') /\ (HasAny(up, {"Disconnect"}) => HasAny(up', {"Disconnect"}))
        /\ f \in {down, Append(down, "AssignmentCommand")}
    BY <1>1, <1>2, <2>4, HeadHas DEF Left, f
  <2>6. L3Inv'
    BY <1>1, <1>2, <2>4, <2>5, CallLetBe
  <2>7. SipInv'
    BY <1>1, <1>2, <2>4, SipKept DEF Told, Ending, DialogTold
  <2>8. QED
    BY <2>6, <2>7
<1>5. QED
  BY <1>3, <1>4 DEF AssignmentFailure

LEMMA ChannelEnds ==
  ASSUME IInv, up # <<>>, DefaultMessages
  PROVE  L3Inv' /\ SipInv'
<1> DEFINE g == timerStopAll(Here)
<1>1. /\ TypeOK /\ tran \in TranEntries /\ up \in Seq(UpFrames) /\ dir \in {"MO", "MT"} /\ Roles /\ Calling /\ Opening
      /\ tran.mach \in {"MOC", "MTC", "Assign", "InCall"}
  BY HereIs DEF IInv, TInv, L3Inv, DefaultMessages
<1>2. Leg(g, tran.mach, tran.gsm, tran.ti, {}, sip, down) /\ AlikeBut(sip, g.d)
  <2>1. Leg(g, tran.mach, tran.gsm, tran.ti, {}, sip, down)
    BY <1>1, LegHere, LegSteps
  <2>2. QED
    BY <2>1 DEF Leg, AlikeBut
<1>3. \/ Head(up) = "CMServiceAbort" /\ Becomes(closeCall(g, "other"), Tail(up))
      \/ Head(up) = "Disconnect" /\ Becomes(sendRelease(g, "normal"), Tail(up))
      \/ Becomes(QuitTran(g, "normal"), Tail(up))
  BY DEF DefaultMessages, Answers, sendReleaseComplete
<1>4. Left(Tail(up))
  BY DEF Left
<1> HIDE DEF g
<1>5. ASSUME Becomes(QuitTran(g, "normal"), Tail(up)) PROVE L3Inv' /\ SipInv'
  <2>1. Quitted(g, QuitTran(g, "normal"), "normal")
    BY <1>1, <1>2, Quits DEF Leg
  <2>2. QED
    BY <1>2, <1>5, <2>1, QuitKeeps DEF Leg
<1>6. ASSUME Becomes(closeCall(g, "other"), Tail(up)) PROVE L3Inv' /\ SipInv'
  BY <1>1, <1>2, <1>4, <1>6, CloseKeeps DEF Leg, Roles
<1>7. ASSUME Head(up) = "Disconnect", Becomes(sendRelease(g, "normal"), Tail(up)) PROVE L3Inv' /\ SipInv'
  <2>1. PICK h : h = sendRelease(g, "normal")
    OBVIOUS
  <2>2. CASE Quitted(g, h, "normal")
    BY <1>2, <1>7, <2>1, <2>2, QuitKeeps DEF Leg
  <2>3. CASE Released(g, h, "normal")
    <3>1. tran.ti /\ sip.tran /\ tran.gsm # "CallPresent" /\ Clearing
          /\ (dir = "MO" => MOCalling) /\ (dir = "MT" => MTCalling)
      BY <1>1, <1>7, CallerIsCalling, CalledIsCalling DEF Roles
    <3>2. phone.call \notin InCallStates
      BY <1>1, <1>7, <3>1, HeadHas DEF Clearing, Leavers
    <3>3. ~HasAny(Tail(up), Answered)
      <4>1. CASE dir = "MT"
        <5>1. Closes(up, Leavers \cup {"Connect"}, Answered) /\ Head(up) \in Leavers \cup {"Connect"}
          BY <1>7, <3>1, <4>1 DEF MTCalling, Leavers
        <5>2. QED
          BY <1>1, <5>1, ClosesTail
      <4>2. CASE dir = "MO"
        <5>1. up \in Seq(Assignments \cup {"ConnectAcknowledge"} \cup Leavers)
          BY <3>1, <4>2 DEF MOCalling
        <5>2. \A i \in 1..Len(up) : up[i] \in Assignments \cup {"ConnectAcknowledge"} \cup Leavers
          BY <5>1
        <5>3. ~HasAny(up, Answered)
          BY <5>2 DEF HasAny, Answered, Assignments, Leavers
        <5>4. QED
          BY <1>1, <5>3, HasTail
      <4>3. QED
        BY <1>1, <4>1, <4>2
    <3>4. QED
      BY <1>1, <1>2, <1>4, <1>7, <2>1, <2>3, <3>1, <3>2, <3>3, ReleaseKeeps DEF Leg, Roles, InCallStates
  <2>4. QED
    BY <1>1, <1>2, <2>1, <2>2, <2>3, Releases DEF Leg
<1>8. QED
  BY <1>3, <1>5, <1>6, <1>7

LEMMA FrameIsDropped ==
  ASSUME IInv, up # <<>>, Unexpected
  PROVE  L3Inv' /\ SipInv'
<1>1. /\ TypeOK /\ tran \in TranEntries /\ up \in Seq(UpFrames) /\ Roles /\ NoCall /\ Opening /\ Paged /\ Offered
      /\ Here \in Legs /\ Here.t = tran /\ Here.d = sip /\ Here.f = down /\ Becomes(Here, Tail(up)) /\ DialogTold
  BY HereIs DEF IInv, TInv, L3Inv, SipInv, Unexpected, Answers
<1>2. /\ Head(<<"CMServiceRequest">>) = "CMServiceRequest" /\ Head(<<"CMServiceAbort">>) = "CMServiceAbort"
      /\ Head(<<"CMServiceRequest", "CMServiceAbort">>) = "CMServiceRequest" /\ Head(<<"Setup">>) = "Setup"
      /\ Head(<<"Setup", "Disconnect">>) = "Setup" /\ Head(<<"PagingResponse">>) = "PagingResponse"
      /\ Head(<<"ReleaseComplete">>) = "ReleaseComplete" /\ Head(<<"CallConfirmed">>) = "CallConfirmed"
      /\ Head(<<"CallConfirmed", "Disconnect">>) = "CallConfirmed"
  OBVIOUS
<1>3. tran.mach # "none"
  BY <1>1, <1>2 DEF NoCall, Unexpected
<1>4. tran.mach # "Paging"
  BY <1>1, <1>2 DEF Paged, Unexpected
<1>5. Head(up) \notin {"CMServiceAbort", "Disconnect", "Release", "ReleaseComplete"}
  BY <1>3, <1>4 DEF Unexpected
<1>6. tran.mach = "MOC" => Head(up) # "Setup"
  BY DEF Unexpected
<1>7. tran.mach = "MTC" => Head(up) # "CallConfirmed"
  BY DEF Unexpected
<1>8. tran.ti
  BY <1>1, <1>2, <1>3, <1>4, <1>5, <1>6 DEF Roles, Opening, TranEntries, Machines
<1>9. tran.gsm # "CallPresent"
  BY <1>1, <1>2, <1>5, <1>7 DEF Offered, Roles
<1>10. tran' = tran /\ sip' = sip /\ down' = Heeded(phone.call, down) /\ up' = Tail(up) /\ UNCHANGED <<phone, dir, toBts, peer>>
  BY <1>1, <1>3 DEF Becomes
<1>11. Left(up') /\ (HasAny(up, {"Disconnect"}) => HasAny(up', {"Disconnect"})) /\ sip.tran
  BY <1>1, <1>5, <1>8, <1>10, HeadHas DEF Left, Roles
<1>12. L3Inv'
  BY <1>8, <1>9, <1>10, <1>11, CallLetBe
<1>13. SipInv'
  BY <1>1, <1>3, <1>8, <1>9, <1>10, <1>11, SipKept DEF Told, Ending, DialogTold
<1>14. QED
  BY <1>12, <1>13

LEMMA FrameIsRead ==
  ASSUME IInv, ReadFrame
  PROVE  L3Inv' /\ SipInv'
<1>1. up # <<>> /\ dir \in {"MO", "MT"}
  BY HereIs DEF ReadFrame, IInv, TInv
<1>2. QED
  BY <1>1, CallerBegins, CallerSetsUp, CallerAcks, CalledBegins, CalledConfirms, CalledAlerts, CalledConnects,
     CallerIsAssigned, CalledIsAssigned, AssignmentFails, ChannelEnds, FrameIsDropped DEF ReadFrame

LEMMA MessageIsRead ==
  ASSUME IInv, ReadDialogMessage
  PROVE  L3Inv' /\ SipInv'
<1> DEFINE g == [Here EXCEPT !.d.inbox = Tail(@)]
           d == [sip EXCEPT !.inbox = Tail(sip.inbox)]
           s == Head(sip.inbox)
<1>1. /\ TypeOK /\ sip \in Dialogs /\ tran \in TranEntries /\ up \in Seq(UpFrames) /\ dir \in {"MO", "MT"}
      /\ Roles /\ Offered /\ Calling /\ DialogTold /\ (dir = "MT" => MTEarly)
      /\ sip.inbox # <<>> /\ sip.inbox \in Seq(DialogStates) /\ tran.mach \in {"MOC", "MTC", "Assign", "InCall"}
  BY HereIs DEF IInv, TInv, L3Inv, SipInv, MTSip, ReadDialogMessage, Dialogs
<1>2. sip.tran /\ tran.ti /\ (tran.mach = "MOC" => dir = "MO") /\ (tran.mach = "MTC" => dir = "MT")
  BY <1>1 DEF Roles
<1>3. /\ s \in DialogStates /\ Tail(sip.inbox) \in Seq(DialogStates)
      /\ \A X : HasAny(sip.inbox, X) <=> HasAny(Tail(sip.inbox), X) \/ s \in X
  BY <1>1, HasTail
<1>4. /\ d \in Dialogs /\ d.state = sip.state /\ d.prev = sip.prev /\ d.mapped = sip.mapped /\ d.tagged = sip.tagged
      /\ d.last = sip.last /\ d.tu = sip.tu /\ d.out = sip.out /\ d.tran = sip.tran /\ d.inbox = Tail(sip.inbox)
  BY <1>1, <1>3 DEF Dialogs
<1>5. Leg(g, tran.mach, tran.gsm, tran.ti, tran.timers, d, down) /\ g.t = tran
  <2>1. Here \in Legs /\ Here.t = tran /\ Here.d = sip /\ Here.f = down
    BY <1>1, HereIs
  <2>2. g.d = d /\ g.t = tran /\ g.f = down /\ g = [Here EXCEPT !.d = d]
    BY <2>1 DEF Legs
  <2> HIDE DEF g, d
  <2>3. g \in Legs
    BY <1>4, <2>1, <2>2 DEF Legs
  <2>4. QED
    BY <2>2, <2>3 DEF Leg
<1>6. /\ tran.mach = "MOC" => Becomes(MOCDialogState(g, s), up)
      /\ tran.mach = "MTC" => Becomes(MTCDialogState(g, s), up)
      /\ tran.mach = "InCall" => Becomes(InCallDialogState(g, s), up)
      /\ tran.mach = "Assign" => Becomes(g, up)
  BY DEF ReadDialogMessage
<1>7. AlikeBut(sip, d) /\ Left(up)
  BY <1>4 DEF AlikeBut, Left
<1> HIDE DEF g, d, s
<1>8. tran.gsm # "CallPresent" => /\ Clearing /\ (dir = "MO" => MOCalling) /\ (dir = "MT" => MTCalling)
  BY <1>1, <1>2, IsCalling DEF IInv
<1>9. ASSUME Becomes(g, up), s \notin Final \/ tran.mach = "Assign" PROVE L3Inv' /\ SipInv'
  <2>1. tran' = tran /\ sip' = d /\ down' = Heeded(phone.call, down) /\ up' = up /\ UNCHANGED <<phone, dir, toBts, peer>>
    BY <1>1, <1>5, <1>9 DEF Becomes, Leg
  <2>2. L3Inv'
    <3>1. CASE tran.gsm = "CallPresent"
      BY <1>1, <1>2, <1>4, <2>1, <3>1 DEF L3Inv, Roles, NoCall, Opening, Paged, Offered, Calling, Heeded, Ending
    <3>2. CASE tran.gsm # "CallPresent"
      BY <1>2, <1>4, <1>7, <2>1, <3>2, CallLetBe
    <3>3. QED
      BY <3>1, <3>2
  <2>3. SipInv'
    <3>1. Told => tran'.mach = "Assign" \/ HasAny(sip'.inbox, Final)
      BY <1>3, <1>4, <1>9, <2>1 DEF Told
    <3>2. HasAny(sip'.inbox, {"Active"}) => HasAny(sip.inbox, {"Active"})
      BY <1>3, <1>4, <2>1
    <3>3. QED
      BY <1>1, <1>2, <1>4, <2>1, <3>1, <3>2, SipKept DEF Ending, DialogTold
  <2>4. QED
    BY <2>2, <2>3
<1>10. ASSUME Becomes(closeCall(g, "other"), up) PROVE L3Inv' /\ SipInv'
  BY <1>1, <1>2, <1>4, <1>5, <1>7, <1>10, CloseKeeps DEF Leg
<1>11. CASE tran.mach = "MOC" /\ s \in {"Ringing", "Active"}
  <2>1. /\ dir = "MO" /\ tran.gsm # "CallPresent" /\ MOCalling /\ Clearing
    BY <1>1, <1>2, <1>8, <1>11 DEF Roles
  <2>2. ASSUME tran'.mach = "MOC", tran'.gsm \in {"MOCDelivered", "ConnectIndication"},
               tran'.ti, tran'.timers = tran.timers,
               NEW f \in {down, Append(down, "Connect")}, down' = Heeded(phone.call, f), up' = up,
               UNCHANGED <<phone, dir, toBts, peer>>,
               sip' = d \/ sip' = [d EXCEPT !.out = d.out \cup {"ACK"}]
        PROVE  L3Inv' /\ SipInv'
    <3>1. /\ sip'.state = sip.state /\ sip'.prev = sip.prev /\ sip'.mapped = sip.mapped /\ sip'.tagged = sip.tagged
          /\ sip'.last = sip.last /\ sip'.tu = sip.tu /\ sip'.tran = sip.tran /\ sip'.inbox = Tail(sip.inbox)
          /\ sip'.out \in {sip.out, sip.out \cup {"ACK"}}
      BY <1>4, <2>2 DEF Dialogs
    <3>2. Ending <=> "T308" \in tran'.timers
      BY <2>2 DEF Ending
    <3>3. L3Inv'
      BY <1>2, <1>7, <2>1, <2>2, <3>1, <3>2, CallGoesOn
    <3>4. /\ Told => HasAny(sip'.inbox, Final)
          /\ HasAny(sip'.inbox, {"Active"}) => HasAny(sip.inbox, {"Active"})
      BY <1>3, <1>11, <3>1 DEF Told, Final
    <3>5. SipInv'
      BY <1>2, <1>11, <2>1, <2>2, <3>1, <3>2, <3>4, SipKept
    <3>6. QED
      BY <3>3, <3>5
  <2>3. CASE s = "Ringing"
    <3> DEFINE h == setGSMState(g, "MOCDelivered")
    <3>1. Leg(h, "MOC", "MOCDelivered", tran.ti, tran.timers, d, down)
      BY <1>5, <1>11, LegSteps, CallWords
    <3>2. Becomes(h, up)
      BY <1>6, <1>11, <2>3 DEF MOCDialogState
    <3> HIDE DEF h
    <3>3. /\ tran'.mach = "MOC" /\ tran'.gsm = "MOCDelivered" /\ tran'.ti /\ tran'.timers = tran.timers
          /\ sip' = d /\ down' = Heeded(phone.call, down) /\ up' = up /\ UNCHANGED <<phone, dir, toBts, peer>>
      BY <1>2, <3>1, <3>2 DEF Becomes, Leg
    <3>4. QED
      BY <2>2, <3>3
  <2>4. CASE s = "Active"
    <3> DEFINE g3 == l3sendm(g, "Connect")
               g4 == setGSMState(g3, "ConnectIndication")
               g5 == [g4 EXCEPT !.d = sipWrite(@, "ACK")]
               e == [d EXCEPT !.out = d.out \cup {"ACK"}]
               f == Append(down, "Connect")
    <3>1. Becomes(g5, up)
      BY <1>6, <1>11, <2>4 DEF MOCDialogState
    <3>2. Leg(g3, "MOC", tran.gsm, tran.ti, tran.timers, d, f)
      BY <1>5, <1>11, LegSteps, CallWords
    <3>3. Leg(g4, "MOC", "ConnectIndication", tran.ti, tran.timers, d, f)
      BY <3>2, LegSteps, CallWords
    <3>4. e = sipWrite(d, "ACK") /\ e \in Dialogs
      BY <1>4, WriteTyped, Words DEF sipWrite
    <3>5. Leg(g5, "MOC", "ConnectIndication", tran.ti, tran.timers, e, f)
      <4> HIDE DEF g4, f, e
      <4>1. QED
        BY <3>3, <3>4 DEF Leg, Legs
    <3> HIDE DEF g5, f
    <3>6. /\ tran'.mach = "MOC" /\ tran'.gsm = "ConnectIndication" /\ tran'.ti /\ tran'.timers = tran.timers
          /\ sip' = e /\ down' = Heeded(phone.call, f) /\ up' = up /\ UNCHANGED <<phone, dir, toBts, peer>>
      BY <1>2, <3>1, <3>5 DEF Becomes, Leg
    <3>7. QED
      BY <2>2, <3>6 DEF f
  <2>5. QED
    BY <1>11, <2>3, <2>4
<1>12. CASE tran.mach = "MTC" /\ s = "Active"
  <2>1. dir = "MT" /\ HasAny(sip.inbox, {"Active"})
    BY <1>2, <1>3, <1>12
  <2>2. ~Ending => tran.gsm \notin Early
    BY <1>1, <1>2, <2>1 DEF MTEarly, Unended
  <2>3. tran.gsm # "CallPresent" /\ MTCalling /\ Clearing
    BY <1>1, <1>8, <2>1, <2>2 DEF Offered, Early
  <2>4. ~HasAny(up, Answered) /\ phone.call \notin {"confirmed", "alerting"}
    BY <2>2, <2>3 DEF MTCalling, Clearing, Early
  <2> DEFINE g3 == setGSMState(g, "Active")
             g4 == l3sendm(g3, "ConnectAcknowledge")
             g5 == Run(g4, "InCall")
             f == Append(down, "ConnectAcknowledge")
  <2>5. Leg(g3, "MTC", "Active", tran.ti, tran.timers, d, down)
    BY <1>5, <1>12, LegSteps, CallWords
  <2>6. Leg(g4, "MTC", "Active", tran.ti, tran.timers, d, f)
    BY <2>5, LegSteps, CallWords
  <2>7. Leg(g5, "InCall", "Active", tran.ti, tran.timers, d, f)
    BY <2>6, LegSteps, CallWords
  <2>8. Becomes(g5, up)
    BY <1>6, <1>12 DEF MTCDialogState
  <2>9. f \in {down, Append(down, "ConnectAcknowledge")} /\ HasAny(f, {"ConnectAcknowledge"})
    <3>1. down \in Seq(DownFrames) /\ "ConnectAcknowledge" \in DownFrames
      BY <1>1 DEF TypeOK, DownFrames
    <3>2. QED
      BY <3>1, HasAppend
  <2> HIDE DEF g5, f
  <2>10. /\ tran'.mach = "InCall" /\ tran'.gsm = "Active" /\ tran'.ti /\ tran'.timers = tran.timers
         /\ sip' = d /\ down' = Heeded(phone.call, f) /\ up' = up /\ UNCHANGED <<phone, dir, toBts, peer>>
    BY <1>2, <2>7, <2>8 DEF Becomes, Leg
  <2>11. Ending <=> "T308" \in tran'.timers
    BY <2>10 DEF Ending
  <2>12. phone.call = "connecting" => HasAny(down', {"ConnectAcknowledge"})
    BY <2>9, <2>10 DEF Heeded
  <2>13. L3Inv'
    BY <1>2, <1>4, <1>7, <2>1, <2>3, <2>4, <2>9, <2>10, <2>11, <2>12, CallGoesOn
  <2>14. /\ Told => HasAny(sip'.inbox, Final)
         /\ HasAny(sip'.inbox, {"Active"}) => HasAny(sip.inbox, {"Active"})
    BY <1>3, <1>4, <1>12, <2>10 DEF Told, Final
  <2>15. SipInv'
    BY <1>2, <1>4, <1>12, <2>1, <2>3, <2>10, <2>11, <2>14, SipKept DEF Early
  <2>16. QED
    BY <2>13, <2>15
<1>13. CASE tran.mach # "Assign" /\ s \in {"Bye", "Fail"}
  BY <1>1, <1>6, <1>10, <1>13 DEF MOCDialogState, MTCDialogState, InCallDialogState
<1>14. CASE \/ tran.mach = "Assign"
            \/ tran.mach = "MOC" /\ s \in {"Undefined", "Started", "Proceeding"}
            \/ tran.mach = "MTC" /\ s \notin {"Active", "Bye", "Fail"}
            \/ tran.mach = "InCall" /\ s \notin {"Bye", "Fail"}
  BY <1>6, <1>9, <1>14 DEF MOCDialogState, MTCDialogState, InCallDialogState, Final
<1>15. QED
  BY <1>1, <1>3, <1>11, <1>12, <1>13, <1>14 DEF DialogStates

LEMMA CallIsGivenUp ==
  ASSUME IInv, Timeout \/ PageExpires \/ Defunct \/ ChannelLost
  PROVE  L3Inv' /\ SipInv'
<1>1. /\ TypeOK /\ dir \in {"MO", "MT"} /\ Here \in Legs /\ Here.d = sip /\ AlikeBut(sip, Here.d)
  BY HereIs DEF IInv, TInv, AlikeBut
<1>2. Becomes(QuitTran(Here, "other"), up)
  BY DEF Timeout, PageExpires, Defunct, ChannelLost
<1>3. Quitted(Here, QuitTran(Here, "other"), "other")
  BY <1>1, Quits
<1>4. QED
  BY <1>1, <1>2, <1>3, QuitKeeps

-----------------------------------------------------------------------------
(* The first INVITE.                                                         *)

LEMMA CallIsOffered ==
  ASSUME IInv, handleInvite
  PROVE  L3Inv' /\ SipInv'
<1>1. /\ TypeOK /\ sip \in Dialogs /\ tran \in TranEntries /\ Roles /\ NoCall /\ toBts \subseteq Heard
      /\ UNCHANGED <<dir, peer, phone, up, down>> /\ "INVITE" \in toBts /\ toBts' = toBts \ {"INVITE"}
      /\ sip.last = "none"
  BY HereIs DEF IInv, TInv, L3Inv, handleInvite
<1>2. dir = "MT"
  BY <1>1, HereIs, Words DEF Heard, Replies
<1>3. MTFresh /\ MTWire
  BY <1>2 DEF IInv, SipInv, MTSip
<1>4. /\ sip = [NoDialog EXCEPT !.out = sip.out] /\ tran.mach = "none" /\ sip.out \subseteq {"CancelOk"}
      /\ toBts \subseteq {"INVITE", "CANCEL"} /\ peer \in {"calling", "canceling", "canceled"}
  BY <1>1, <1>3 DEF MTFresh, MTWire
<1>5. /\ sip.state = "SSNullState" /\ sip.prev = "Undefined" /\ ~sip.tagged /\ sip.inbox = <<>> /\ ~sip.tran
      /\ sip.tu["BYE"] = "none" /\ sip.tu["CANCEL"] = "none"
  BY <1>4 DEF NoDialog, Methods
<1>6. tran = NoTran /\ down = <<>> /\ ~phone.tch /\ up = <<>> /\ phone.call = "idle"
  BY <1>1, <1>2, <1>4 DEF NoCall, TypeOK
<1>7. PICK d \in Dialogs : d = [sip EXCEPT !.mapped = TRUE]
  BY <1>1 DEF Dialogs
<1>8. /\ d.mapped /\ d.state = "SSNullState" /\ d.prev = "Undefined" /\ ~d.tagged /\ d.inbox = <<>> /\ ~d.tran
      /\ d.tu = sip.tu /\ d.out = sip.out
  BY <1>1, <1>5, <1>7 DEF Dialogs
<1>9. CASE sip' = NewMT(d) /\ tran' = [NoTran EXCEPT !.mach = "Paging"]
  <2>1. /\ tran'.mach = "Paging" /\ tran'.gsm = "NullState" /\ ~tran'.ti /\ tran'.timers = {}
    BY <1>9 DEF NoTran
  <2>2. /\ sip'.state = "Proceeding" /\ sip'.prev = "Undefined" /\ sip'.mapped /\ ~sip'.tagged /\ sip'.tran
        /\ sip'.inbox = <<>> /\ sip'.tu = sip.tu /\ sip'.out = sip.out \cup {"Trying"} /\ sip'.last = "Trying"
    BY <1>8, <1>9 DEF NewMT, MTCSendTrying, mtWriteLowSide, sipWrite, Dialogs
  <2>3. L3Inv'
    BY <1>1, <1>2, <1>6, <2>1, <2>2 DEF L3Inv, Roles, NoCall, Opening, Paged, Offered, Calling, Ending
  <2>4. DialogTold' /\ MTFresh' /\ MTUnmapped' /\ MTOver' /\ MTHungUp'
    BY <2>1, <2>2 DEF DialogTold, MTFresh, MTUnmapped, MTOver, MTHungUp, SipFinished, Finished, Final
  <2>5. MTWire' /\ MTEarly' /\ MTUnended'
    BY <1>1, <1>3, <1>4, <1>5, <2>1, <2>2, HasNone DEF MTWire, MTEarly, MTUnended
  <2>6. QED
    BY <1>1, <1>2, <2>3, <2>4, <2>5 DEF SipInv, MTSip
<1>10. CASE sip' = Refused(d) /\ UNCHANGED tran
  <2>1. PICK e : e = dialogCancel(d, "other")
    OBVIOUS
  <2>2. Cancelled(d, e, "other") /\ ~sipIsFinished(d)
    BY <1>2, <1>8, <2>1, Cancels, Ends DEF Finished
  <2>3. /\ e.state = "MODError" /\ e.tu = d.tu /\ e.out = d.out \cup {"Error"} /\ e.last = "Error"
        /\ e.mapped /\ ~e.tagged /\ ~e.tran /\ e.inbox = <<>>
    BY <1>2, <1>8, <2>2 DEF Cancelled
  <2>4. /\ sip'.state = "MODError" /\ sip'.tu = sip.tu /\ sip'.out = sip.out \cup {"Error"} /\ sip'.last = "Error"
        /\ sip'.mapped /\ ~sip'.tran /\ sip'.inbox = <<>>
    BY <1>8, <1>10, <2>1, <2>3 DEF Refused
  <2>5. L3Inv'
    BY <1>1, <1>2, <1>6, <1>10, <2>4 DEF L3Inv, Roles, NoCall, Opening, Paged, Offered, Calling, NoTran
  <2>6. DialogTold' /\ MTFresh' /\ MTUnmapped' /\ MTOver' /\ MTHungUp' /\ MTEarly' /\ MTUnended'
    BY <2>4 DEF DialogTold, MTFresh, MTUnmapped, MTOver, MTHungUp, MTEarly, MTUnended, Unended, SipFinished, Finished
  <2>7. MTWire'
    BY <1>1, <1>3, <1>4, <1>5, <2>4 DEF MTWire
  <2>8. QED
    BY <1>1, <1>2, <2>5, <2>6, <2>7 DEF SipInv, MTSip
<1>11. QED
  BY <1>7, <1>9, <1>10 DEF handleInvite

-----------------------------------------------------------------------------
(* The handset.                                                              *)

LEMMA SipUntouched ==
  ASSUME SipInv, UNCHANGED <<dir, sip, toBts, peer, tran>>
  PROVE  SipInv'
<1>1. DialogTold'
  BY DEF SipInv, DialogTold, Unended, Ending, Told
<1>2. dir = "MO" => MOSip'
  BY DEF SipInv, MOSip, MOFresh, MOUnmapped, MOWire, MOUnended, MOHungUp, Unended, Ending, Told
<1>3. dir = "MT" => MTSip'
  BY DEF SipInv, MTSip, MTFresh, MTUnmapped, MTOver, MTWire, MTEarly, MTUnended, MTHungUp, Unended, Ending
<1>4. QED
  BY <1>1, <1>2, <1>3 DEF SipInv

LEMMA HandsetOnly ==
  ASSUME Phone
  PROVE  UNCHANGED <<dir, sip, toBts, peer, tran>>
BY DEF Phone, PhoneCalls, PhoneHangsUp, PhoneAnswers, PhoneReads, PhoneAssigned, Acts, Reads, Moves

(* What Phone may do, by the state of the handset and what it has to read.  *)
HandsetSays(s, x, rest) == phone' = [phone EXCEPT !.call = s] /\ up' = Append(up, x) /\ down' = Heeded(s, rest)
Keeps(s, rest) == phone' = [phone EXCEPT !.call = s] /\ up' = up /\ down' = Heeded(s, rest)
Talks ==
    \/ phone.call = "asking" /\ HandsetSays("idle", "CMServiceAbort", down)
    \/ phone.call \in InCallStates /\ HandsetSays("leaving", "Disconnect", down)
    \/ phone.call = "idle" /\ tran.mach = "Paging" /\ HandsetSays("paged", "PagingResponse", down)
    \/ phone.call = "confirmed" /\ phone.tch /\ HandsetSays("alerting", "Alerting", down)
    \/ phone.call = "alerting" /\ phone.tch /\ HandsetSays("connecting", "Connect", down)
Hearkens ==
    down # <<>> /\
      \/ phone.call = "asking" /\ Head(down) = "CMServiceAccept" /\ HandsetSays("calling", "Setup", Tail(down))
      \/ /\ phone.call = "paged" /\ Head(down) = "Setup"
         /\ \/ HandsetSays("confirmed", "CallConfirmed", Tail(down))
            \/ HandsetSays("idle", "ReleaseComplete", Tail(down))
      \/ phone.call = "calling" /\ Head(down) = "Connect" /\ HandsetSays("talking", "ConnectAcknowledge", Tail(down))
      \/ phone.call = "connecting" /\ Head(down) = "ConnectAcknowledge" /\ Keeps("talking", Tail(down))
      \/ Head(down) = "Disconnect" /\ HandsetSays("releasing", "Release", Tail(down))
      \/ Head(down) = "Release" /\ HandsetSays("idle", "ReleaseComplete", Tail(down))
Overhears ==
    /\ down # <<>> /\ Keeps(phone.call, Tail(down))
    /\ Head(down) # "AssignmentCommand"
    /\ Head(down) = "CMServiceAccept" => phone.call # "asking"
    /\ Head(down) = "Setup" => phone.call # "paged"
    /\ Head(down) = "ConnectAcknowledge" => phone.call # "connecting"
Assigned ==
    /\ down # <<>> /\ Head(down) = "AssignmentCommand" /\ down' = Tail(down)
    /\ phone'.call = phone.call
    /\ \E x \in Assignments : up' = Append(up, x)

LEMMA HandsetDoes ==
  ASSUME TypeOK, Phone, ~PhoneCalls
  PROVE  Talks \/ Hearkens \/ Overhears \/ Assigned
<1>1. /\ phone \in Handsets /\ up \o <<>> = up
      /\ \A x \in UpFrames : up \o <<x>> = Append(up, x)
  BY DEF TypeOK
<1>6. {"CMServiceAbort", "Disconnect", "PagingResponse", "Alerting", "Connect", "Setup", "CallConfirmed",
       "ReleaseComplete", "ConnectAcknowledge", "Release"} \subseteq UpFrames
  BY DEF UpFrames
<1>2. CASE PhoneHangsUp \/ PhoneAnswers
  BY <1>1, <1>6, <1>2 DEF PhoneHangsUp, PhoneAnswers, Acts, Moves, Talks, HandsetSays
<1>3. CASE PhoneReads
  BY <1>1, <1>6, <1>3 DEF PhoneReads, Reads, Moves, Hearkens, Overhears, HandsetSays, Keeps
<1>4. CASE PhoneAssigned
  BY <1>1, <1>4 DEF PhoneAssigned, Assigned, Assignments, Handsets
<1>5. QED
  BY <1>2, <1>3, <1>4 DEF Phone

LEMMA TwoFrames ==
  ASSUME NEW a, NEW b
  PROVE  Append(<<a>>, b) = <<a, b>>
<1> DEFINE p == Append(<<a>>, b)
           q == <<a, b>>
<1>1. p \in Seq({a, b}) /\ q \in Seq({a, b}) /\ Len(p) = 2 /\ Len(q) = 2
  OBVIOUS
<1>2. p[1] = a /\ p[2] = b /\ q[1] = a /\ q[2] = b
  OBVIOUS
<1> HIDE DEF p, q
<1>3. p = [i \in 1..2 |-> p[i]] /\ q = [i \in 1..2 |-> q[i]]
  BY <1>1
<1>4. \A i \in 1..2 : i = 1 \/ i = 2
  OBVIOUS
<1>5. p = q
  BY <1>2, <1>3, <1>4
<1>6. QED
  BY <1>5 DEF p, q

LEMMA HandsetWaits ==
  ASSUME IInv, Phone, ~(tran.ti /\ tran.gsm # "CallPresent")
  PROVE  L3Inv'
<1>1. /\ TypeOK /\ tran \in TranEntries /\ Roles /\ NoCall /\ Opening /\ Paged /\ Offered /\ phone \in Handsets
      /\ UNCHANGED <<dir, sip, toBts, peer, tran>> /\ up \in Seq(UpFrames)
  BY HereIs, HandsetOnly DEF IInv, TInv, L3Inv, TypeOK
<1>2. \A s, x, rest : HandsetSays(s, x, rest) => phone'.call = s /\ phone'.tch = phone.tch
  BY <1>1 DEF HandsetSays, Handsets
<1>3. Roles' /\ Calling'
  BY <1>1 DEF Roles, Calling
<1>4. /\ up = <<>> => \A x \in UpFrames : Append(up, x) = <<x>>
      /\ Append(<<"CMServiceRequest">>, "CMServiceAbort") = <<"CMServiceRequest", "CMServiceAbort">>
      /\ Append(<<"Setup">>, "Disconnect") = <<"Setup", "Disconnect">>
      /\ Append(<<"CallConfirmed">>, "Disconnect") = <<"CallConfirmed", "Disconnect">>
  <2>1. ASSUME NEW x \in UpFrames PROVE Append(<<>>, x) = <<x>>
    OBVIOUS
  <2>2. QED
    BY <2>1, TwoFrames
<1>5. /\ Head(<<"CMServiceAccept">>) = "CMServiceAccept" /\ Tail(<<"CMServiceAccept">>) = <<>>
      /\ Head(<<"Setup">>) = "Setup" /\ Tail(<<"Setup">>) = <<>>
      /\ {"CMServiceRequest", "CMServiceAbort", "Setup", "Disconnect", "PagingResponse", "CallConfirmed",
          "ReleaseComplete"} \subseteq UpFrames
  BY DEF UpFrames
<1>6. CASE PhoneCalls
  <2>1. /\ phone'.call = "asking" /\ phone'.tch = phone.tch /\ up' = <<"CMServiceRequest">> /\ down' = <<>>
        /\ dir = "MO" /\ sip = NoDialog /\ tran = NoTran
    <3>1. up \o <<"CMServiceRequest">> = <<"CMServiceRequest">>
      BY <1>6 DEF PhoneCalls
    <3>2. QED
      BY <1>1, <1>6, <3>1 DEF PhoneCalls, Acts, Moves, Heeded, Handsets
  <2>2. QED
    BY <1>1, <1>3, <2>1 DEF L3Inv, NoCall, Opening, Paged, Offered, NoTran
<1>7. ASSUME ~PhoneCalls, tran.mach = "none" PROVE NoCall'
  <2>1. down = <<>> /\ ~phone.tch /\ phone.call \in {"idle", "asking"}
    BY <1>1, <1>7 DEF NoCall
  <2>2. Talks
    BY <1>1, <1>7, <2>1, HandsetDoes DEF Hearkens, Overhears, Assigned
  <2>3. phone.call = "asking" /\ HandsetSays("idle", "CMServiceAbort", down)
    BY <1>7, <2>1, <2>2 DEF Talks, InCallStates
  <2>4. QED
    BY <1>1, <1>2, <1>4, <1>5, <1>7, <2>1, <2>3 DEF NoCall, HandsetSays, Heeded
<1>8. ASSUME ~PhoneCalls, tran.mach = "MOC" PROVE Opening'
  <2>1. ~tran.ti /\ sip = NoDialog /\ ~phone.tch /\ ~Ending /\ tran.gsm = "MOCInitiated"
    BY <1>1, <1>8 DEF Roles, Opening
  <2>2. \/ phone.call = "asking" /\ up = <<>> /\ down = <<"CMServiceAccept">>
        \/ phone.call = "idle" /\ up = <<"CMServiceAbort">> /\ down = <<>>
        \/ phone.call = "calling" /\ up = <<"Setup">> /\ down = <<>>
        \/ phone.call = "leaving" /\ up = <<"Setup", "Disconnect">> /\ down = <<>>
    BY <1>1, <1>8, <2>1 DEF Opening
  <2>3. \/ phone.call = "asking" /\ HandsetSays("idle", "CMServiceAbort", down)
        \/ phone.call = "calling" /\ HandsetSays("leaving", "Disconnect", down)
        \/ phone.call = "asking" /\ HandsetSays("calling", "Setup", Tail(down))
    <3>1. CASE Talks
      BY <1>8, <2>1, <2>2, <3>1 DEF Talks, InCallStates
    <3>2. CASE Hearkens
      BY <1>5, <2>2, <3>2 DEF Hearkens
    <3>3. CASE Overhears \/ Assigned
      BY <1>5, <2>2, <3>3 DEF Overhears, Assigned
    <3>4. QED
      BY <1>1, <1>8, <3>1, <3>2, <3>3, HandsetDoes
  <2>4. QED
    BY <1>1, <1>2, <1>4, <1>5, <2>1, <2>2, <2>3 DEF Opening, HandsetSays, Heeded, Ending
<1>9. ASSUME ~PhoneCalls, tran.mach = "Paging" PROVE Paged'
  <2>1. /\ down = <<>> /\ ~phone.tch /\ ~Ending /\ tran.gsm = "NullState"
        /\ (phone.call = "idle" /\ up = <<>>) \/ phone.call = "paged"
    BY <1>1, <1>9 DEF Paged
  <2>2. Talks
    BY <1>1, <1>9, <2>1, HandsetDoes DEF Hearkens, Overhears, Assigned
  <2>3. phone.call = "idle" /\ HandsetSays("paged", "PagingResponse", down)
    BY <2>1, <2>2 DEF Talks, InCallStates
  <2>4. QED
    BY <1>1, <1>2, <1>4, <1>5, <2>1, <2>3 DEF Paged, HandsetSays, Heeded, Ending
<1>10. ASSUME ~PhoneCalls, tran.gsm = "CallPresent" PROVE Offered'
  <2>1. ~phone.tch /\ ~Ending /\ tran.mach = "MTC"
    BY <1>1, <1>10 DEF Roles, Offered
  <2>2. \/ phone.call = "paged" /\ up = <<>> /\ down = <<"Setup">>
        \/ phone.call = "idle" /\ up = <<"ReleaseComplete">> /\ down = <<>>
        \/ phone.call = "confirmed" /\ up = <<"CallConfirmed">> /\ down = <<>>
        \/ phone.call = "leaving" /\ up = <<"CallConfirmed", "Disconnect">> /\ down = <<>>
    BY <1>1, <1>10 DEF Offered
  <2>3. \/ phone.call = "confirmed" /\ HandsetSays("leaving", "Disconnect", down)
        \/ phone.call = "paged" /\ HandsetSays("confirmed", "CallConfirmed", Tail(down))
        \/ phone.call = "paged" /\ HandsetSays("idle", "ReleaseComplete", Tail(down))
    <3>1. CASE Talks
      BY <2>1, <2>2, <3>1 DEF Talks, InCallStates
    <3>2. CASE Hearkens
      BY <1>5, <2>2, <3>2 DEF Hearkens
    <3>3. CASE Overhears \/ Assigned
      BY <1>5, <2>2, <3>3 DEF Overhears, Assigned
    <3>4. QED
      BY <1>1, <1>10, <3>1, <3>2, <3>3, HandsetDoes
  <2>4. QED
    BY <1>1, <1>2, <1>4, <1>5, <2>1, <2>2, <2>3 DEF Offered, HandsetSays, Heeded, Ending
<1>11. CASE ~PhoneCalls
  <2>1. NoCall' /\ Paged' /\ Offered'
    BY <1>1, <1>7, <1>9, <1>10, <1>11 DEF NoCall, Paged, Offered
  <2>2. Opening'
    BY <1>1, <1>8, <1>11 DEF Opening
  <2>3. QED
    BY <1>3, <2>1, <2>2 DEF L3Inv
<1>12. QED
  BY <1>6, <1>11

LEMMA HandsetTalks ==
  ASSUME IInv, Phone, tran.ti, tran.gsm # "CallPresent"
  PROVE  L3Inv'
<1> DEFINE C == IF dir = "MO" THEN "Connect" ELSE "ConnectAcknowledge"
           D == {"AssignmentCommand", "Disconnect", "Release", C}
<1>1. /\ TypeOK /\ dir \in {"MO", "MT"} /\ Roles /\ Clearing /\ (dir = "MO" => MOCalling) /\ (dir = "MT" => MTCalling)
      /\ UNCHANGED <<dir, sip, toBts, peer, tran>> /\ up \in Seq(UpFrames) /\ phone \in Handsets
  BY HereIs, HandsetOnly DEF IInv, TInv, L3Inv, TypeOK, Calling
<1>2. down \in Seq(D)
  <2>1. CASE dir = "MO"
    <3>1. D = {"AssignmentCommand", "Connect", "Disconnect", "Release"}
      BY <2>1
    <3>2. QED
      BY <1>1, <2>1, <3>1 DEF MOCalling
  <2>2. CASE dir = "MT"
    <3>1. D = {"AssignmentCommand", "ConnectAcknowledge", "Disconnect", "Release"}
      BY <2>2
    <3>2. QED
      BY <1>1, <2>2, <3>1 DEF MTCalling
  <2>3. QED
    BY <1>1, <2>1, <2>2
<1>3. tran.mach \notin {"none", "Paging"} /\ tran # NoTran
  BY <1>1 DEF Roles, NoTran
<1>4. down # <<>> => /\ Head(down) \in D /\ Tail(down) \in Seq(D)
                     /\ \A X : Head(down) \in X => HasAny(down, X)
                     /\ \A X : HasAny(Tail(down), X) => HasAny(down, X)
                     /\ \A X : Head(down) \notin X /\ HasAny(down, X) => HasAny(Tail(down), X)
  <2> HIDE DEF D
  <2>1. QED
    BY <1>2, Shortens, HasTail
<1>5. \A s, x, rest :
        /\ HandsetSays(s, x, rest) => phone'.call = s /\ up' = Append(up, x) /\ down' = Heeded(s, rest)
        /\ Keeps(s, rest) => phone'.call = s /\ up' = up /\ down' = Heeded(s, rest)
  BY <1>1 DEF HandsetSays, Keeps, Handsets
<1>6. PICK rest \in {down, Tail(down)} :
        /\ rest = Tail(down) => rest = down \/ down # <<>>
        /\ down' \in {rest, <<>>} /\ (phone'.call # "idle" => down' = rest)
        /\ \/ phone.call \in InCallStates /\ phone'.call = "leaving" /\ up' = Append(up, "Disconnect")
           \/ phone.call = "confirmed" /\ phone'.call = "alerting" /\ up' = Append(up, "Alerting")
           \/ phone.call = "alerting" /\ phone'.call = "connecting" /\ up' = Append(up, "Connect")
           \/ /\ phone.call = "calling" /\ phone'.call = "talking" /\ up' = Append(up, "ConnectAcknowledge")
              /\ dir = "MO"
           \/ phone.call = "connecting" /\ phone'.call = "talking" /\ up' = up
           \/ Ending /\ phone'.call = "releasing" /\ up' = Append(up, "Release")
           \/ Ending /\ phone'.call = "idle" /\ up' = Append(up, "ReleaseComplete")
           \/ /\ phone'.call = phone.call /\ (up' = up \/ \E x \in Assignments : up' = Append(up, x))
              /\ (phone.call = "connecting" /\ HasAny(down, {"ConnectAcknowledge"})
                    => HasAny(rest, {"ConnectAcknowledge"}))
  <2>1. Talks \/ Hearkens \/ Overhears \/ Assigned
    BY <1>1, <1>3, HandsetDoes DEF PhoneCalls
  <2>2. CASE Talks
    BY <1>1, <1>3, <1>5, <2>2 DEF Talks, MOCalling, MTCalling, Heeded
  <2>3. CASE Hearkens
    <3>1. Head(down) \in {"Disconnect", "Release"} => Ending
      BY <1>1, <1>4, <2>3 DEF Clearing, Hearkens
    <3>2. down # <<>> /\ Head(down) \in D
      BY <1>4, <2>3 DEF Hearkens
    <3>3. QED
      BY <1>1, <1>5, <2>3, <3>1, <3>2 DEF Hearkens, MOCalling, MTCalling, Heeded
  <2>4. CASE Overhears
    <3>1. /\ down # <<>> /\ phone'.call = phone.call /\ up' = up /\ down' = Heeded(phone.call, Tail(down))
          /\ (Head(down) = "ConnectAcknowledge" => phone.call # "connecting")
      BY <1>5, <2>4 DEF Overhears
    <3>2. phone.call = "connecting" /\ HasAny(down, {"ConnectAcknowledge"}) => HasAny(Tail(down), {"ConnectAcknowledge"})
      BY <1>4, <3>1
    <3>3. QED
      BY <3>1, <3>2 DEF Heeded
  <2>5. CASE Assigned
    <3>1. /\ down # <<>> /\ phone'.call = phone.call /\ down' = Tail(down)
          /\ \E x \in Assignments : up' = Append(up, x)
          /\ Head(down) = "AssignmentCommand"
      BY <2>5 DEF Assigned
    <3>2. HasAny(down, {"ConnectAcknowledge"}) => HasAny(Tail(down), {"ConnectAcknowledge"})
      BY <1>4, <3>1
    <3>3. QED
      BY <3>1, <3>2
  <2>6. QED
    BY <2>1, <2>2, <2>3, <2>4, <2>5
<1>7. /\ down' \in Seq(D) /\ \A X : HasAny(down', X) => HasAny(down, X)
  <2>1. <<>> \in Seq(D) /\ \A X : ~HasAny(<<>>, X)
    BY HasNone
  <2>2. QED
    BY <1>2, <1>4, <1>6, <2>1
<1> HIDE DEF D
<1>8. ASSUME NEW x \in UpFrames, up' = Append(up, x)
      PROVE  /\ HasAny(up', Leavers) <=> HasAny(up, Leavers) \/ x \in Leavers
             /\ HasAny(up', Answered) <=> HasAny(up, Answered) \/ x \in Answered
             /\ HasAny(up', {"Disconnect"}) <=> HasAny(up, {"Disconnect"}) \/ x = "Disconnect"
             /\ HasAny(up', {"Connect"}) <=> HasAny(up, {"Connect"}) \/ x = "Connect"
             /\ HasAny(up', {"ConnectAcknowledge"}) <=> HasAny(up, {"ConnectAcknowledge"}) \/ x = "ConnectAcknowledge"
  BY <1>1, <1>8, HasAppend
<1>9. {"Disconnect", "Alerting", "Connect", "ConnectAcknowledge", "Release", "ReleaseComplete"} \subseteq UpFrames
      /\ Assignments \subseteq UpFrames
  BY DEF UpFrames, Assignments
<1>10. Roles' /\ NoCall' /\ Opening' /\ Paged' /\ Offered'
  BY <1>1, <1>3 DEF Roles, NoCall, Opening, Paged, Offered
<1>11. Clearing'
  <2>1. (HasAny(down', {"Disconnect", "Release"}) => Ending) /\ Ending' = Ending
    BY <1>1, <1>7 DEF Clearing, Ending
  <2>2. phone'.call \in {"releasing", "idle"} => Ending
    BY <1>1, <1>6 DEF Clearing
  <2>3. phone'.call = "leaving" => Ending \/ HasAny(up', {"Disconnect"})
    BY <1>1, <1>6, <1>8, <1>9 DEF Clearing
  <2>4. phone'.call \in InCallStates => ~HasAny(up', Leavers)
    BY <1>1, <1>6, <1>8, <1>9 DEF Clearing, InCallStates, Leavers, Assignments
  <2>5. QED
    BY <1>1, <2>1, <2>2, <2>3, <2>4 DEF Clearing
<1>12. ASSUME dir = "MO" PROVE MOCalling'
  <2> DEFINE U == Assignments \cup {"ConnectAcknowledge"} \cup Leavers
  <2>1. /\ up \in Seq(U) /\ phone.call \in {"calling", "talking", "leaving", "releasing", "idle"}
        /\ D = {"AssignmentCommand", "Connect", "Disconnect", "Release"}
    BY <1>1, <1>12 DEF MOCalling, D
  <2>2. PICK x \in U : up' = up \/ up' = Append(up, x)
    BY <1>6, <2>1 DEF Leavers
  <2>3. Append(up, x) \in Seq(U)
    BY <2>1
  <2>4. up' \in Seq(U)
    BY <2>1, <2>2, <2>3
  <2>5. phone'.call \in {"calling", "talking", "leaving", "releasing", "idle"}
    BY <1>6, <2>1
  <2>6. phone'.call = "calling" => phone.call = "calling" /\ ~HasAny(up', {"ConnectAcknowledge"})
    BY <1>1, <1>6, <1>8, <1>9, <1>12, <2>1 DEF MOCalling, Assignments
  <2> HIDE DEF U
  <2>7. QED
    BY <1>1, <1>7, <1>12, <2>1, <2>4, <2>5, <2>6 DEF MOCalling, U
<1>13. ASSUME dir = "MT" PROVE MTCalling'
  <2> DEFINE U == Assignments \cup Answered \cup Leavers
             S == {"confirmed", "alerting", "connecting", "talking", "leaving", "releasing", "idle"}
             X == Leavers \cup {"Connect"}
  <2>1. /\ up \in Seq(U) /\ phone.call \in S /\ Closes(up, X, Answered)
        /\ D = {"AssignmentCommand", "ConnectAcknowledge", "Disconnect", "Release"}
    BY <1>1, <1>13 DEF MTCalling, D
  <2>2. PICK x \in U : up' = up \/ (up' = Append(up, x) /\ (x \in Answered => ~HasAny(up, X)))
    <3>1. phone.call \in {"confirmed", "alerting"} => ~HasAny(up, X)
      BY <1>1, <1>13 DEF Clearing, MTCalling, HasAny, InCallStates, Answered
    <3>2. QED
      BY <1>6, <1>13, <2>1, <3>1 DEF Leavers, Answered, Assignments
  <2>3. up' \in Seq(U) /\ Closes(up', X, Answered)
    <3>1. Append(up, x) \in Seq(U)
      BY <2>1
    <3> HIDE DEF U, X
    <3>2. QED
      BY <2>1, <2>2, <3>1, ClosesAppend
  <2>4. phone'.call \in S
    BY <1>6, <2>1
  <2>5. phone'.call = "confirmed" => phone.call = "confirmed" /\ ~HasAny(up', Answered)
    BY <1>1, <1>6, <1>8, <1>9, <1>13, <2>1 DEF MTCalling, Assignments, Answered
  <2>6. phone'.call = "alerting" => phone.call \in {"confirmed", "alerting"} /\ ~HasAny(up', {"Connect"})
    BY <1>1, <1>6, <1>8, <1>9, <1>13, <2>1 DEF MTCalling, Assignments, Answered, HasAny
  <2>7. tran.gsm \in {"ConnectIndication", "Active"} \/ Ending => ~HasAny(up', Answered)
    BY <1>1, <1>6, <1>8, <1>9, <1>13, <2>1 DEF MTCalling, Assignments, Answered
  <2>8. phone'.call = "connecting" /\ tran.gsm = "Active" /\ ~Ending => HasAny(down', {"ConnectAcknowledge"})
    BY <1>1, <1>6, <1>13, <2>1 DEF MTCalling
  <2> HIDE DEF U, X, S
  <2>9. QED
    BY <1>1, <1>7, <1>13, <2>1, <2>3, <2>4, <2>5, <2>6, <2>7, <2>8 DEF MTCalling, U, X, S, Ending
<1>14. QED
  BY <1>1, <1>10, <1>11, <1>12, <1>13 DEF L3Inv, Calling

-----------------------------------------------------------------------------
(* The invariant.                                                            *)

LEMMA InitInv == Init => IInv
<1> SUFFICES ASSUME Init PROVE IInv
  OBVIOUS
<1>1. /\ tran.mach = "none" /\ tran.gsm = "NullState" /\ ~tran.ti /\ phone.call = "idle" /\ ~phone.tch
      /\ sip = NoDialog /\ up = <<>> /\ down = <<>> /\ toBts = {} /\ peer = "none" /\ dir \in {"MO", "MT"}
  BY DEF Init, NoTran, Idle
<1>2. L3Inv
  BY <1>1, FreshDialog DEF L3Inv, Roles, NoCall, Opening, Paged, Offered, Calling
<1>3. ~Unended /\ sip.state = "SSNullState" /\ NoDialog = [NoDialog EXCEPT !.out = {}]
  BY <1>1, FreshDialog DEF Unended, NoDialog
<1>4. dir = "MO" => MOSip
  BY <1>1, <1>3, FreshDialog DEF MOSip, MOFresh, MOUnmapped, MOWire, MOUnended, MOHungUp
<1>5. dir = "MT" => MTSip
  BY <1>1, <1>3, FreshDialog
     DEF MTSip, MTFresh, MTUnmapped, MTOver, MTWire, MTEarly, MTUnended, MTHungUp, SipFinished, Finished
<1>6. QED
  BY <1>2, <1>3, <1>4, <1>5, InitTyped DEF IInv, SipInv, DialogTold

LEMMA NextInv == IInv /\ [Next]_vars => IInv'
<1> SUFFICES ASSUME IInv, [Next]_vars PROVE L3Inv' /\ SipInv'
  BY NextTyped DEF IInv
<1>1. TypeOK' /\ dir \in {"MO", "MT"}
  BY NextTyped, HereIs DEF IInv, TInv
<1>2. CASE ServiceLoop \/ ChannelLost
  BY <1>2, FrameIsRead, MessageIsRead, CallIsGivenUp DEF ServiceLoop
<1>3. CASE handleInvite
  BY <1>3, CallIsOffered
<1>4. ASSUME (\E m \in Messages : newDriveIncoming(m)) \/ PeriodicService \/ Peer \/ Lose, UNCHANGED gsmVars
      PROVE  L3Inv' /\ SipInv'
  <2>1. UNCHANGED dir
    BY <1>4 DEF newDriveIncoming, PeriodicService, Repetition, Deadline, Removal, Lose, Peer, PeerHears, CalleeHears,
          CallerHears, EitherHears, Hears, PeerTimers, PeerRepeats, PeerGivesUp, PeerUser, Says
  <2>2. CASE dir = "MO"
    BY <1>1, <1>4, <2>1, <2>2, CallerSide DEF SipInv
  <2>3. CASE dir = "MT"
    BY <1>1, <1>4, <2>1, <2>3, CalledSide DEF SipInv
  <2>4. QED
    BY <1>1, <2>2, <2>3
<1>5. CASE Phone
  <2>1. SipInv'
    BY <1>5, SipUntouched, HandsetOnly DEF IInv
  <2>2. QED
    BY <1>5, <2>1, HandsetWaits, HandsetTalks
<1>6. CASE UNCHANGED vars
  <2>1. UNCHANGED <<dir, sip, toBts, peer, tran, phone, up, down>>
    BY <1>6 DEF vars
  <2>2. QED
    BY <2>1, SipUntouched, L3Kept DEF IInv, gsmVars
<1>7. QED
  BY <1>2, <1>3, <1>4, <1>5, <1>6 DEF Next, SipThread, Network

LEMMA Invariant == Spec => []IInv
BY InitInv, NextInv, PTL DEF Spec

(* Every call that L3 takes for Active is under way, with a valid TI.       *)
LEMMA ActiveIsCalling ==
  ASSUME IInv, tran.gsm = "Active"
  PROVE  /\ Clearing /\ (dir = "MO" => MOCalling) /\ (dir = "MT" => MTCalling)
         /\ dir \in {"MO", "MT"} /\ sip.tran
<1>1. /\ TypeOK /\ Roles /\ Opening /\ Paged /\ Calling /\ tran \in TranEntries /\ dir \in {"MO", "MT"}
  BY HereIs DEF IInv, TInv, L3Inv
<1>2. tran.mach # "none"
  BY <1>1 DEF TypeOK, NoTran
<1>3. tran.ti
  BY <1>1, <1>2 DEF Roles, Opening, Paged, TranEntries, Machines
<1>4. QED
  BY <1>1, <1>3 DEF Calling, Roles

(* permittedTransition and newDialogMessages together lose no end of a      *)
(* dialog: L3IsTold.                                                         *)
THEOREM NoEndIsMissed == Spec => []L3IsTold
<1>1. ASSUME IInv PROVE L3IsTold
  <2> SUFFICES ASSUME sip.tran, isFinished(sip), tran.mach \in {"MOC", "MTC", "InCall"}, "T308" \notin tran.timers
               PROVE  \E i \in DOMAIN sip.inbox : sip.inbox[i] \in {"Bye", "Fail"}
    BY DEF L3IsTold
  <2>1. sip \in Dialogs /\ DialogTold
    BY <1>1, HereIs DEF IInv, TInv, SipInv
  <2>2. Unended /\ sip.state \in Finished
    BY <2>1, Ends DEF Unended, Ending
  <2>3. HasAny(sip.inbox, Final)
    BY <2>1, <2>2 DEF DialogTold, Told
  <2>4. DOMAIN sip.inbox = 1..Len(sip.inbox)
    BY <2>1 DEF Dialogs
  <2>5. QED
    BY <2>3, <2>4 DEF HasAny, Final
<1>2. QED
  BY <1>1, Invariant, PTL

(* A call that L3 takes for Active has somebody at both ends, or a caller    *)
(* whose BYE came before its ACK and was answered 404: BothPartiesAreThere.  *)
THEOREM ActiveCallsHaveTwoParties == Spec => []BothPartiesAreThere
<1>1. ASSUME IInv PROVE BothPartiesAreThere
  <2> SUFFICES ASSUME tran.gsm = "Active", "T308" \notin tran.timers
               PROVE  /\ dir = "MO" => peer \in WasAnswered
                      /\ dir # "MO" => phone.call \notin {"idle", "paged", "confirmed", "alerting"}
                      /\ sip.state = "Active" /\ Settled =>
                            /\ phone.call = "talking"
                            /\ peer \in {"answered", "talking", "bye"} \/ (dir = "MT" /\ peer = "refused")
    BY DEF BothPartiesAreThere, WasAnswered, Settled
  <2>1. /\ Clearing /\ (dir = "MO" => MOCalling) /\ (dir = "MT" => MTCalling)
        /\ dir \in {"MO", "MT"} /\ Unended /\ ~Ending
    BY <1>1, ActiveIsCalling DEF Unended, Ending
  <2>2. dir = "MO" => MOWire /\ MOUnended /\ MOUnmapped
    BY <1>1 DEF IInv, SipInv, MOSip
  <2>3. dir = "MT" => MTUnended
    BY <1>1 DEF IInv, SipInv, MTSip
  <2>4. dir = "MO" => peer \in WasAnswered
    BY <2>2 DEF MOWire
  <2>5. dir # "MO" => phone.call \notin {"idle", "paged", "confirmed", "alerting"}
    BY <2>1 DEF Clearing, MTCalling
  <2>6. ASSUME sip.state = "Active", Settled
        PROVE  peer \in {"answered", "talking", "bye"} \/ (dir = "MT" /\ peer = "refused")
    <3>1. ~Told
      BY <2>6, HasNone DEF Settled, Still, Told
    <3>2. dir = "MO" => peer # "refused"
      BY <2>2, <2>6 DEF MOWire, MOUnmapped, Finished
    <3>3. QED
      BY <2>1, <2>2, <2>3, <2>4, <2>6, <3>1, <3>2 DEF MOUnended, MTUnended, WasAnswered
  <2>7. ASSUME Settled PROVE phone.call = "talking"
    <3>1. ~HasAny(up, {"Disconnect"}) /\ ~HasAny(down, {"ConnectAcknowledge"})
      BY <2>7, HasNone DEF Settled, Still
    <3>2. QED
      BY <2>1, <2>5, <3>1 DEF Clearing, MOCalling, MTCalling
  <2>8. QED
    BY <2>4, <2>5, <2>6, <2>7
<1>2. QED
  BY <1>1, Invariant, PTL

(* dialogCancel does not leave the other user in a call that is over here:  *)
(* PeerIsHungUp.                                                             *)
THEOREM NobodyIsLeftBehind == Spec => []PeerIsHungUp
<1>1. ASSUME IInv PROVE PeerIsHungUp
  <2> SUFFICES ASSUME tran.mach = "none", ~sip.mapped, TUsDone, sip.state # "SSFail",
                      sip.tu["CANCEL"] = "none", sip.last # "Error", peer = "talking"
               PROVE  FALSE
    BY DEF PeerIsHungUp
  <2>1. dir \in {"MO", "MT"} /\ sip.tu["BYE"] # "calling"
    BY <1>1, HereIs, Words DEF IInv, TInv, TUsDone
  <2>2. CASE dir = "MO"
    BY <1>1, <2>1, <2>2 DEF IInv, SipInv, MOSip, MOFresh, MOHungUp
  <2>3. CASE dir = "MT"
    BY <1>1, <2>1, <2>3 DEF IInv, SipInv, MTSip, MTFresh, MTOver, MTHungUp
  <2>4. QED
    BY <2>1, <2>2, <2>3
<1>2. QED
  BY <1>1, Invariant, PTL
=============================================================================
