---------------------------- MODULE MMLayer_proofs ----------------------------
(* Theorems about MMLayer, for any sets of subscribers, channels, contexts  *)
(* and transactions: the inductive invariant, that every step preserves     *)
(* what it says of the types, of the channels and of the contexts, then     *)
(* what it says of the transactions, and what follows: type correctness,    *)
(* PointersAgree, OneHome, AttachedIsServed and SharedContextSurvives.      *)
EXTENDS MMLayer, FiniteSetTheorems, TLAPS

(* A service loop runs on the channel.                                      *)
Busy(c) == chan[c].loop \in {"open", "closing"}

(* What goes with the state of a loop: a channel without one holds nothing  *)
(* but perhaps a context, as the target of a reassignment, which is a TCH.  *)
LoopsOK ==
    \A c \in Chans :
        /\ ~Busy(c) => /\ chan[c].call = "none" /\ chan[c].who = None
                       /\ chan[c].inbox = <<>> /\ chan[c].hand = None
        /\ Busy(c) => chan[c].who # None
        /\ chan[c].loop = "idle" => chan[c].ctx = None
        /\ chan[c].loop = "open" => chan[c].ctx # None
        /\ chan[c].call # "none" => c \in Sdcch /\ chan[c].next # None
        /\ c \in Sdcch => chan[c].loop # "target" /\ (Busy(c) => chan[c].ctx # None)
        /\ c \in Tch => chan[c].next = None

(* A channel that a call waits for is waited for by no other, is free until *)
(* the assignment starts, and then has no other context than the call's.    *)
ReservedOK ==
    \A c, d \in Chans : chan[c].call # "none" /\ chan[c].next = d =>
        /\ \A e \in Chans \ {c} : chan[e].call # "none" => chan[e].next # d
        /\ chan[c].call = "allocated" => ~Busy(d) /\ chan[d].ctx = None
        /\ chan[d].loop = "target" => chan[d].ctx \in {None, chan[c].ctx}

(* A target with a context has it from a channel whose loop runs.           *)
TargetsOK ==
    \A d \in Chans : chan[d].loop = "target" /\ chan[d].ctx # None =>
        \E c \in Sdcch : chan[c].next = d /\ chan[c].ctx = chan[d].ctx /\ Busy(c)

(* The channels that share a context were seized by the same handset.       *)
OneHandset ==
    \A c, e \in Chans : Busy(c) /\ Busy(e) /\ chan[c].ctx = chan[e].ctx /\ chan[c].ctx # None
                        => chan[c].who = chan[e].who

ChanInv == LoopsOK /\ ReservedOK /\ TargetsOK /\ OneHandset

(* A context without a channel is a deleted one, and one that an MMUser is  *)
(* attached to serves the handset of that subscriber.                       *)
ContextsOK ==
    \A x \in Contexts :
        /\ ChannelsOf(x) = {} => ctx[x] = NoContext
        /\ ctx[x].mmu # None => \A c \in ChannelsOf(x) : Busy(c) => chan[c].who = ctx[x].mmu

CtxInv == ContextsOK /\ PointersAgree

(* What runs is in one slot of one context, which is its own.               *)
Running ==
    /\ \A x \in Contexts, s \in Slots : ctx[x].slot[s] # None =>
          /\ tran[ctx[x].slot[s]].state = "running"
          /\ tran[ctx[x].slot[s]].ctx = x
          /\ \A r \in Slots : ctx[x].slot[r] = ctx[x].slot[s] => r = s
    /\ \A t \in Trans : tran[t].state = "running" =>
          tran[t].ctx \in Contexts /\ \E s \in Slots : ctx[tran[t].ctx].slot[s] = t

(* What waits is once in the queue of its subscriber, and in no other.      *)
Queues ==
    /\ \A i \in Imsis :
          /\ IsInjective(user[i].mtcq) /\ IsInjective(user[i].smsq)
          /\ \A t \in Queued(user[i]) : tran[t].state = "queued" /\ tran[t].imsi = i
    /\ \A t \in Trans : tran[t].state = "queued" =>
          tran[t].imsi \in Imsis /\ t \in Queued(user[tran[t].imsi])

(* What has been popped is in the hand of one loop.                         *)
Hands ==
    /\ \A c \in Chans : chan[c].hand # None =>
          /\ tran[chan[c].hand].state = "hand" /\ tran[chan[c].hand].imsi # None
          /\ \A e \in Chans : chan[e].hand = chan[c].hand => e = c
    /\ \A t \in Trans : tran[t].state = "hand" => \E c \in Chans : chan[c].hand = t

(* The requests a loop has yet to read, and those its context has yet to    *)
(* start: no request is in two places, and none has begun.                  *)
Inbox(c) == Range(chan[c].inbox) \ {"PagingResponse"}
Asked(x) == Range(ctx[x].asked)

Requests ==
    /\ \A c \in Chans : /\ IsInjective(chan[c].inbox)
                        /\ \A t \in Inbox(c) : tran[t].state = "asked"
                        /\ \A e \in Chans \ {c} : Inbox(c) \cap Inbox(e) = {}
                        /\ \A x \in Contexts : Inbox(c) \cap Asked(x) = {}
    /\ \A x \in Contexts : /\ IsInjective(ctx[x].asked)
                           /\ \A t \in Asked(x) : tran[t].state = "asked"
                           /\ \A y \in Contexts \ {x} : Asked(x) \cap Asked(y) = {}

TranInv == Running /\ Queues /\ Hands /\ Requests

IInv == TypeOK /\ ChanInv /\ CtxInv /\ TranInv
-----------------------------------------------------------------------------
(* The first state is of the type.                                          *)
LEMMA InitType == Init => TypeOK
BY BoundAssumption DEF Init, TypeOK, NoUser, Users, NoContext, Empty, MMContexts, TranEntries, NoChannel,
       L3Channels, Phones

(* Assigning to the fields of a record leaves a record of its type.        *)
LEMMA UserFields ==
  ASSUME NEW u \in Users
  PROVE  /\ \A x \in Contexts \cup {None} : [u EXCEPT !.ctx = x] \in Users
         /\ \A x \in Contexts \cup {None} : [u EXCEPT !.known = TRUE, !.ctx = x] \in Users
         /\ \A b \in BOOLEAN : [u EXCEPT !.late = b] \in Users
         /\ \A q \in Seq(Mtcs) : [u EXCEPT !.mtcq = q] \in Users
         /\ \A q \in Seq(MtSmss) : [u EXCEPT !.smsq = q] \in Users
         /\ NoUser \in Users
<1> USE DEF Users
<1>1. \A x \in Contexts \cup {None} : [u EXCEPT !.ctx = x] \in Users
  OBVIOUS
<1>2. \A x \in Contexts \cup {None} : [u EXCEPT !.known = TRUE, !.ctx = x] \in Users
  OBVIOUS
<1>3. \A b \in BOOLEAN : [u EXCEPT !.late = b] \in Users
  BY Zenon
<1>4. NoUser \in Users
  BY DEF NoUser
<1>5. \A q \in Seq(Mtcs) : [u EXCEPT !.mtcq = q] \in Users
  OBVIOUS
<1>6. \A q \in Seq(MtSmss) : [u EXCEPT !.smsq = q] \in Users
  OBVIOUS
<1>7. QED
  BY <1>1, <1>2, <1>3, <1>4, <1>5, <1>6

LEMMA ContextFields ==
  ASSUME NEW k \in MMContexts
  PROVE  /\ \A f \in [Slots -> Trans \cup {None}] : /\ [k EXCEPT !.slot = f] \in MMContexts
                                                  /\ [k EXCEPT !.mmu = None, !.slot = f] \in MMContexts
                                                  /\ \A i \in Imsis : [k EXCEPT !.mmu = i, !.slot = f] \in MMContexts
         /\ \A q \in Seq(Mocs \cup MoSmss) : [k EXCEPT !.asked = q] \in MMContexts
         /\ \A s \in Slots, t \in Trans \cup {None} : [k EXCEPT !.slot[s] = t] \in MMContexts
         /\ \A b \in BOOLEAN : [k EXCEPT !.settled = b] \in MMContexts /\ [k EXCEPT !.terminate = b] \in MMContexts
         /\ NoContext \in MMContexts
<1> USE DEF MMContexts
<1>1. \A f \in [Slots -> Trans \cup {None}] : /\ [k EXCEPT !.slot = f] \in MMContexts
                                           /\ [k EXCEPT !.mmu = None, !.slot = f] \in MMContexts
                                           /\ \A i \in Imsis : [k EXCEPT !.mmu = i, !.slot = f] \in MMContexts
  OBVIOUS
<1>2. \A q \in Seq(Mocs \cup MoSmss) : [k EXCEPT !.asked = q] \in MMContexts
  OBVIOUS
<1>3. \A s \in Slots, t \in Trans \cup {None} : [k EXCEPT !.slot[s] = t] \in MMContexts
  OBVIOUS
<1>4. \A b \in BOOLEAN : [k EXCEPT !.settled = b] \in MMContexts /\ [k EXCEPT !.terminate = b] \in MMContexts
  BY ZenonT(60)
<1>5. NoContext \in MMContexts
  BY DEF NoContext, Empty
<1>6. QED
  BY <1>1, <1>2, <1>3, <1>4, <1>5

LEMMA TranFields ==
  ASSUME NEW r \in TranEntries
  PROVE  /\ [r EXCEPT !.state = "dead", !.ctx = None] \in TranEntries
         /\ \A x \in Contexts : /\ [r EXCEPT !.ctx = x] \in TranEntries
                               /\ [r EXCEPT !.state = "running", !.ctx = x] \in TranEntries
         /\ \A i \in Imsis : [r EXCEPT !.state = "queued", !.imsi = i] \in TranEntries
         /\ \A v \in {"asked", "hand", "dead"} : [r EXCEPT !.state = v] \in TranEntries
<1> USE DEF TranEntries
<1>1. [r EXCEPT !.state = "dead", !.ctx = None] \in TranEntries
  OBVIOUS
<1>2. \A x \in Contexts : /\ [r EXCEPT !.ctx = x] \in TranEntries
                        /\ [r EXCEPT !.state = "running", !.ctx = x] \in TranEntries
  OBVIOUS
<1>3. \A i \in Imsis : [r EXCEPT !.state = "queued", !.imsi = i] \in TranEntries
  OBVIOUS
<1>4. \A v \in {"asked", "hand", "dead"} : [r EXCEPT !.state = v] \in TranEntries
  OBVIOUS
<1>5. QED
  BY <1>1, <1>2, <1>3, <1>4

(* What each helper of the module gives is of its type.                     *)
LEMMA CancelledType ==
  ASSUME TypeOK, NEW dead PROVE Cancelled(dead) \in [Trans -> TranEntries]
BY TranFields DEF TypeOK, Cancelled

LEMMA SlotTypes ==
  ASSUME NEW slot \in [Slots -> Trans \cup {None}], NEW t
  PROVE  Disconnected(slot, t) \in [Slots -> Trans \cup {None}]
BY DEF Disconnected, Slots

LEMMA ConnectType ==
  ASSUME TypeOK, NEW x \in Contexts, NEW s \in Slots, NEW t \in Trans, Connect(x, s, t)
  PROVE  ctx' \in [Contexts -> MMContexts] /\ tran' \in [Trans -> TranEntries]
<1>1. ctx' \in [Contexts -> MMContexts]
  <2>1. ctx' = [ctx EXCEPT ![x] = [ctx[x] EXCEPT !.slot[s] = t]]
    BY DEF Connect, TypeOK
  <2>2. QED
    BY <2>1, ContextFields DEF TypeOK
<1>2. tran' \in [Trans -> TranEntries]
  <2> DEFINE r == Cancelled({ctx[x].slot[s]})
  <2>1. r \in [Trans -> TranEntries]
    BY CancelledType
  <2>2. tran' = [r EXCEPT ![t] = [r[t] EXCEPT !.state = "running", !.ctx = x]]
    BY <2>1 DEF Connect
  <2> HIDE DEF r
  <2>3. QED
    BY <2>1, <2>2, TranFields
<1>3. QED
  BY <1>1, <1>2

LEMMA LinkType ==
  ASSUME TypeOK, NEW x \in Contexts, NEW i \in Imsis, mmcLink(x, i)
  PROVE  /\ user' \in [Imsis -> Users] /\ ctx' \in [Contexts -> MMContexts]
         /\ tran' \in [Trans -> TranEntries]
<1>1. user' \in [Imsis -> Users]
  <2>1. CASE ctx[x].mmu = i
    BY <2>1 DEF mmcLink, TypeOK
  <2>2. CASE ctx[x].mmu # i
    <3>1. [user[i] EXCEPT !.known = TRUE, !.ctx = x] \in Users
      BY UserFields DEF TypeOK
    <3>2. \A j \in Imsis : user[j] \in Users /\ [user[j] EXCEPT !.ctx = None] \in Users
      BY UserFields DEF TypeOK
    <3>3. user' = [j \in Imsis |-> IF j = i THEN [user[i] EXCEPT !.known = TRUE, !.ctx = x]
                                   ELSE IF user[j].ctx = x THEN [user[j] EXCEPT !.ctx = None]
                                   ELSE user[j]]
      BY <2>2 DEF mmcLink
    <3>4. QED
      BY <3>1, <3>2, <3>3
  <2>3. QED
    BY <2>1, <2>2
<1>2. ctx' \in [Contexts -> MMContexts]
  <2> DEFINE old == user[i].ctx
             moving == Moving(old, x)
             slot == [s \in Slots |-> IF s \in moving THEN ctx[old].slot[s] ELSE ctx[x].slot[s]]
  <2>1. moving \subseteq Slots /\ (moving # {} => old \in Contexts)
    BY DEF Moving, SlotsUsed
  <2>2. slot \in [Slots -> Trans \cup {None}]
    BY <2>1 DEF TypeOK, MMContexts
  <2>3. \A y \in Contexts : Unlinked(ctx[y], moving) \in MMContexts
    <3> SUFFICES ASSUME NEW y \in Contexts PROVE Unlinked(ctx[y], moving) \in MMContexts
      OBVIOUS
    <3>1. ctx[y] \in MMContexts /\ ctx[y].slot \in [Slots -> Trans \cup {None}]
      BY DEF TypeOK, MMContexts
    <3>2. [s \in Slots |-> IF s \in moving THEN None ELSE ctx[y].slot[s]] \in [Slots -> Trans \cup {None}]
      BY <3>1
    <3>3. QED
      BY <3>1, <3>2, ContextFields DEF Unlinked
  <2>4. [ctx[x] EXCEPT !.mmu = i, !.slot = slot] \in MMContexts
    BY <2>2, ContextFields DEF TypeOK
  <2>5. QED
    BY <2>3, <2>4 DEF mmcLink, TypeOK
<1>3. tran' \in [Trans -> TranEntries]
  <2>1. CASE ctx[x].mmu = i
    BY <2>1 DEF mmcLink, TypeOK
  <2>2. CASE ctx[x].mmu # i
    <3>1. \A t \in Trans : tran[t] \in TranEntries /\ [tran[t] EXCEPT !.ctx = x] \in TranEntries
      BY TranFields DEF TypeOK
    <3>2. \A ts : MovedTran(ts, x) \in [Trans -> TranEntries]
      BY <3>1 DEF MovedTran
    <3>3. QED
      BY <2>2, <3>2 DEF mmcLink
  <2>3. QED
    BY <2>1, <2>2
<1>4. QED
  BY <1>1, <1>2, <1>3

LEMMA FreeUserType ==
  ASSUME TypeOK, NEW i \in Imsis, mmuFree(i)
  PROVE  user' \in [Imsis -> Users] /\ tran' \in [Trans -> TranEntries]
BY CancelledType, UserFields DEF mmuFree, TypeOK

LEMMA FreeContextType ==
  ASSUME TypeOK, NEW leaving, chanFreeContext(leaving)
  PROVE  /\ user' \in [Imsis -> Users] /\ ctx' \in [Contexts -> MMContexts]
         /\ tran' \in [Trans -> TranEntries]
<1>1. user' \in [Imsis -> Users]
  BY UserFields DEF chanFreeContext, TypeOK, Detached
<1>2. ctx' \in [Contexts -> MMContexts]
  BY ContextFields DEF chanFreeContext, TypeOK
<1>3. QED
  BY <1>1, <1>2, CancelledType DEF chanFreeContext

LEMMA ChanFields ==
  ASSUME NEW k \in L3Channels
  PROVE  /\ \A l \in {"idle", "target", "open", "closing"} :
               /\ [k EXCEPT !.loop = l] \in L3Channels
               /\ \A x \in Contexts \cup {None} : /\ [k EXCEPT !.loop = l, !.ctx = x] \in L3Channels
                                                 /\ [k EXCEPT !.ctx = x, !.loop = l] \in L3Channels
                                                 /\ [k EXCEPT !.ctx = x] \in L3Channels
                                                 /\ \A i \in Imsis : [k EXCEPT !.loop = l, !.who = i, !.ctx = x] \in L3Channels
               /\ [k EXCEPT !.next = None, !.call = "none", !.loop = l] \in L3Channels
         /\ \A x \in Contexts, i \in Imsis, q \in Seq(Messages) :
               [k EXCEPT !.loop = "open", !.ctx = x, !.who = i, !.inbox = q] \in L3Channels
         /\ \A q \in Seq(Messages) : [k EXCEPT !.inbox = q] \in L3Channels
         /\ \A t \in MtSmss \cup {None} : [k EXCEPT !.hand = t] \in L3Channels
         /\ [k EXCEPT !.call = "none"] \in L3Channels
         /\ [k EXCEPT !.call = "assigning"] \in L3Channels
         /\ \A d \in Tch : [k EXCEPT !.next = d, !.call = "allocated"] \in L3Channels
         /\ \A d \in Tch \cup {None} : [NoChannel EXCEPT !.next = d] \in L3Channels
<1> USE DEF L3Channels
<1>1. \A l \in {"idle", "target", "open", "closing"} :
               /\ [k EXCEPT !.loop = l] \in L3Channels
               /\ \A x \in Contexts \cup {None} : /\ [k EXCEPT !.loop = l, !.ctx = x] \in L3Channels
                                                 /\ [k EXCEPT !.ctx = x, !.loop = l] \in L3Channels
                                                 /\ [k EXCEPT !.ctx = x] \in L3Channels
                                                 /\ \A i \in Imsis : [k EXCEPT !.loop = l, !.who = i, !.ctx = x] \in L3Channels
               /\ [k EXCEPT !.next = None, !.call = "none", !.loop = l] \in L3Channels
  BY ZenonT(40)
<1>2. \A x \in Contexts, i \in Imsis, q \in Seq(Messages) :
               [k EXCEPT !.loop = "open", !.ctx = x, !.who = i, !.inbox = q] \in L3Channels
  OBVIOUS
<1>3. \A q \in Seq(Messages) : [k EXCEPT !.inbox = q] \in L3Channels
  OBVIOUS
<1>4. \A t \in MtSmss \cup {None} : [k EXCEPT !.hand = t] \in L3Channels
  OBVIOUS
<1>5. /\ [k EXCEPT !.call = "none"] \in L3Channels
      /\ [k EXCEPT !.call = "assigning"] \in L3Channels
      /\ \A d \in Tch : [k EXCEPT !.next = d, !.call = "allocated"] \in L3Channels
  OBVIOUS
<1>6. \A d \in Tch \cup {None} : [NoChannel EXCEPT !.next = d] \in L3Channels
  <2>1. NoChannel \in L3Channels
    BY DEF NoChannel
  <2>2. QED
    BY <2>1
<1>7. QED
  BY Zenon, <1>1, <1>2, <1>3, <1>4, <1>5, <1>6

(* Every object is of its type.                                             *)
LEMMA ObjectTypes ==
  ASSUME TypeOK
  PROVE  /\ \A i \in Imsis : user[i] \in Users
         /\ \A x \in Contexts : ctx[x] \in MMContexts
         /\ \A t \in Trans : tran[t] \in TranEntries
         /\ \A c \in Chans : chan[c] \in L3Channels
         /\ \A i \in Imsis : phone[i] \in Phones
BY DEF TypeOK

LEMMA PhoneType ==
  ASSUME TypeOK, NEW i \in Imsis, NEW c \in Chans \cup {None}
  PROVE  /\ [phone EXCEPT ![i].answers = MaxAnswers] \in [Imsis -> Phones]
         /\ [phone EXCEPT ![i].at = c] \in [Imsis -> Phones]
         /\ phone[i].answers > 0 /\ phone' = [phone EXCEPT ![i].at = c, ![i].answers = @ - 1]
               => phone' \in [Imsis -> Phones]
         /\ Leaves(c) => phone' \in [Imsis -> Phones]
<1> USE BoundAssumption DEF TypeOK, Phones
<1>1. [phone EXCEPT ![i].answers = MaxAnswers] \in [Imsis -> Phones]
  OBVIOUS
<1>2. [phone EXCEPT ![i].at = c] \in [Imsis -> Phones]
  OBVIOUS
<1>3. phone[i].answers > 0 /\ phone' = [phone EXCEPT ![i].at = c, ![i].answers = @ - 1]
        => phone' \in [Imsis -> Phones]
  <2> SUFFICES ASSUME phone[i].answers > 0,
                      phone' = [phone EXCEPT ![i].at = c, ![i].answers = @ - 1]
               PROVE  phone' \in [Imsis -> Phones]
    OBVIOUS
  <2> DEFINE n == phone[i].answers - 1
  <2>1. n \in 0 .. MaxAnswers /\ phone[i] \in Phones
    OBVIOUS
  <2>2. phone' = [phone EXCEPT ![i] = [phone[i] EXCEPT !.at = c, !.answers = n]]
    OBVIOUS
  <2> HIDE DEF n
  <2>3. QED
    BY <2>1, <2>2
<1>4. Leaves(c) => phone' \in [Imsis -> Phones]
  BY DEF Leaves
<1>5. QED
  BY <1>1, <1>2, <1>3, <1>4

(* What an open loop holds.                                                 *)
LEMMA OpenLoop ==
  ASSUME TypeOK, LoopsOK, NEW c \in Chans
  PROVE  /\ chan[c].loop = "open" => chan[c].ctx \in Contexts
         /\ Busy(c) => chan[c].who \in Imsis
         /\ chan[c].call # "none" => c \in Sdcch /\ chan[c].next \in Tch /\ Busy(c)
BY ObjectTypes DEF LoopsOK, Busy, L3Channels

(* Each action keeps the types.                                             *)
LEMMA RepageType ==
  ASSUME TypeOK, NEW i \in Imsis, mmMTRepage(i)
  PROVE  TypeOK'
<1>1. repages' \in 0 .. MaxRepages
  BY BoundAssumption DEF mmMTRepage, TypeOK
<1>2. user' \in [Imsis -> Users]
  BY UserFields, ObjectTypes DEF mmMTRepage, TypeOK
<1>3. QED
  BY <1>1, <1>2 DEF mmMTRepage, TypeOK

LEMMA SipType ==
  ASSUME TypeOK, NEW i \in Imsis, NEW t \in MtTrans,
         Invite(t, i) \/ Message(t, i)
  PROVE  TypeOK'
<1>1. user[i] \in Users /\ tran[t] \in TranEntries
  BY ObjectTypes DEF Trans
<1>3. CASE NewMT(t, i) /\ user' \in [Imsis -> Users]
  <2>1. tran' = [tran EXCEPT ![t] = [tran[t] EXCEPT !.state = "queued", !.imsi = i]]
    BY <1>3 DEF NewMT, TypeOK, Trans
  <2>2. tran' \in [Trans -> TranEntries]
    BY <1>1, <2>1, TranFields DEF TypeOK
  <2>3. QED
    BY <1>3, <2>2 DEF NewMT, TypeOK
<1>4. CASE Invite(t, i)
  <2>1. t \in Mtcs
    BY <1>4 DEF Invite
  <2>2. Append(user[i].mtcq, t) \in Seq(Mtcs)
    BY <1>1, <2>1 DEF Users
  <2>3. [user[i] EXCEPT !.known = TRUE, !.mtcq = Append(@, t), !.late = FALSE] \in Users
    BY <1>1, <2>2 DEF Users
  <2>4. QED
    BY <1>3, <1>4, <2>3 DEF Invite, TypeOK
<1>5. CASE Message(t, i)
  <2>1. t \in MtSmss
    BY <1>5 DEF Message
  <2>2. Append(user[i].smsq, t) \in Seq(MtSmss)
    BY <1>1, <2>1 DEF Users
  <2>3. [user[i] EXCEPT !.known = TRUE, !.smsq = Append(@, t), !.late = FALSE] \in Users
    BY <1>1, <2>2 DEF Users
  <2>4. QED
    BY <1>3, <1>5, <2>3 DEF Message, TypeOK
<1>6. QED
  BY <1>4, <1>5

LEMMA PagingType ==
  ASSUME TypeOK, NEW i \in Imsis,
         mmGetPages(i) \/ PageTimerPasses(i) \/ mmTerminateByImsi(i)
  PROVE  TypeOK'
<1>1. CASE mmGetPages(i)
  BY <1>1, FreeUserType, PhoneType DEF mmGetPages, TypeOK
<1>2. CASE PageTimerPasses(i)
  BY <1>2, UserFields, ObjectTypes DEF PageTimerPasses, TypeOK
<1>3. CASE mmTerminateByImsi(i)
  <2>1. CASE user[i].ctx = None
    BY <1>3, <2>1, FreeUserType DEF mmTerminateByImsi, TypeOK
  <2>2. CASE user[i].ctx # None
    <3>1. user[i].ctx \in Contexts
      BY <2>2, ObjectTypes DEF Users
    <3>2. QED
      BY <1>3, <2>2, <3>1, ContextFields, ObjectTypes DEF mmTerminateByImsi, TypeOK
  <2>3. QED
    BY <2>1, <2>2
<1>4. QED
  BY <1>1, <1>2, <1>3

LEMMA HandsetType ==
  ASSUME TypeOK, LoopsOK, NEW c \in Chans,
         \/ \E i \in Imsis, msg \in Messages : Establish(c, i, msg)
         \/ \E t \in MoTrans : Request(c, t)
         \/ EstablishTarget(c)
  PROVE  TypeOK'
<1>1. ASSUME NEW i \in Imsis, NEW msg \in Messages, Establish(c, i, msg) PROVE TypeOK'
  <2>1. phone' \in [Imsis -> Phones]
    <3>1. \/ phone' = [phone EXCEPT ![i].at = c]
          \/ phone[i].answers > 0 /\ phone' = [phone EXCEPT ![i].at = c, ![i].answers = @ - 1]
      BY <1>1 DEF Establish
    <3>2. c \in Chans \cup {None}
      OBVIOUS
    <3>3. CASE phone' = [phone EXCEPT ![i].at = c]
      BY <3>2, <3>3, PhoneType
    <3>4. CASE phone[i].answers > 0 /\ phone' = [phone EXCEPT ![i].at = c, ![i].answers = @ - 1]
      BY <3>2, <3>4, PhoneType
    <3>5. QED
      BY <3>1, <3>3, <3>4
  <2>2. tran' \in [Trans -> TranEntries]
    <3>1. CASE msg = "PagingResponse"
      BY <1>1, <3>1 DEF Establish, TypeOK
    <3>2. CASE msg # "PagingResponse"
      <4>1. msg \in Trans
        BY <3>2 DEF Messages, Trans
      <4>2. tran' = [tran EXCEPT ![msg] = [tran[msg] EXCEPT !.state = "asked"]]
        BY <1>1, <3>2, <4>1 DEF Establish, TypeOK
      <4>3. QED
        BY <4>1, <4>2, TranFields DEF TypeOK
    <3>3. QED
      BY <3>1, <3>2
  <2>3. chan' \in [Chans -> L3Channels]
    <3>1. <<msg>> \in Seq(Messages)
      OBVIOUS
    <3>2. QED
      <4>1. PICK x \in Contexts : chan' = [chan EXCEPT ![c] = [chan[c] EXCEPT
                 !.loop = "open", !.ctx = x, !.who = i, !.inbox = <<msg>>]]
        BY <1>1 DEF Establish
      <4>2. QED
        BY Zenon, <3>1, <4>1, ChanFields DEF TypeOK
  <2>4. QED
    BY <1>1, <2>1, <2>2, <2>3 DEF Establish, TypeOK
<1>2. ASSUME NEW t \in MoTrans, Request(c, t) PROVE TypeOK'
  <2>1. Append(chan[c].inbox, t) \in Seq(Messages)
    BY ObjectTypes DEF L3Channels, Messages
  <2>2. chan' \in [Chans -> L3Channels]
    BY Zenon, <1>2, <2>1, ChanFields, ObjectTypes DEF Request, TypeOK
  <2>3. tran' \in [Trans -> TranEntries]
    BY <1>2, TranFields, ObjectTypes DEF Request, TypeOK, Trans
  <2>4. QED
    BY <1>2, <2>2, <2>3 DEF Request, TypeOK
<1>3. CASE EstablishTarget(c)
  <2>1. chan[c].who \in Imsis /\ chan[c].next \in Tch
    BY <1>3, OpenLoop DEF EstablishTarget
  <2>2. phone' \in [Imsis -> Phones]
    BY Zenon, <1>3, <2>1, PhoneType DEF EstablishTarget, Chans
  <2>3. chan' \in [Chans -> L3Channels]
    <3> DEFINE d == chan[c].next
    <3>1. PICK x \in Contexts : chan' = [chan EXCEPT ![d].loop = "open", ![d].who = chan[c].who, ![d].ctx = x]
      BY Zenon, <1>3 DEF EstablishTarget
    <3>2. d \in Chans
      BY <2>1 DEF Chans
    <3> HIDE DEF d
    <3>3. chan' = [chan EXCEPT ![d] = [chan[d] EXCEPT !.loop = "open", !.who = chan[c].who, !.ctx = x]]
      BY <3>1, <3>2 DEF TypeOK
    <3>4. QED
      BY Zenon, <2>1, <3>2, <3>3, ChanFields DEF TypeOK
  <2>4. QED
    BY <1>3, <2>2, <2>3 DEF EstablishTarget, TypeOK
<1>4. QED
  BY <1>1, <1>2, <1>3

(* A service loop that is served has a context.                             *)
LEMMA Serves ==
  ASSUME TypeOK, LoopsOK, NEW c \in Chans, Serving(c)
  PROVE  /\ chan[c].ctx \in Contexts /\ chan[c].who \in Imsis
         /\ ctx[chan[c].ctx] \in MMContexts
BY OpenLoop, ObjectTypes DEF Serving, Busy

LEMMA HeadTail ==
  ASSUME NEW S, NEW q \in Seq(S), q # <<>>
  PROVE  Head(q) \in S /\ Tail(q) \in Seq(S)
OBVIOUS

LEMMA ReadType ==
  ASSUME TypeOK, LoopsOK, NEW c \in Chans, ReadPagingResponse(c) \/ ReadRequest(c)
  PROVE  TypeOK'
<1> DEFINE x == chan[c].ctx
<1>1. x \in Contexts /\ chan[c].who \in Imsis /\ ctx[x] \in MMContexts
  BY Serves DEF ReadPagingResponse, ReadRequest
<1>2. chan' \in [Chans -> L3Channels]
  <2>1. chan[c].inbox \in Seq(Messages) /\ chan[c].inbox # <<>>
    BY ObjectTypes DEF L3Channels, ReadPagingResponse, ReadRequest
  <2>2. Tail(chan[c].inbox) \in Seq(Messages)
    BY <2>1, HeadTail
  <2>3. chan' = [chan EXCEPT ![c] = [chan[c] EXCEPT !.inbox = Tail(chan[c].inbox)]]
    BY DEF ReadPagingResponse, ReadRequest, TypeOK
  <2>4. QED
    BY Zenon, <2>2, <2>3, ChanFields DEF TypeOK
<1>3. CASE ReadPagingResponse(c)
  BY <1>1, <1>2, <1>3, LinkType DEF ReadPagingResponse, TypeOK
<1>4. CASE ReadRequest(c)
  <2> DEFINE t == Head(chan[c].inbox)
  <2>1. t \in MoTrans
    BY <1>4 DEF ReadRequest
  <2>2. CASE t \in Lurs
    <3>1. Connect(x, "TE_MM", t)
      BY <1>4, <2>2 DEF ReadRequest
    <3>2. t \in Trans /\ "TE_MM" \in Slots
      BY <2>1 DEF Trans, Slots
    <3>3. QED
      BY <1>1, <1>2, <1>4, <3>1, <3>2, ConnectType DEF ReadRequest, TypeOK
  <2>3. CASE t \notin Lurs
    <3>1. Append(ctx[x].asked, t) \in Seq(Mocs \cup MoSmss)
      BY <1>1, <2>1, <2>3 DEF MMContexts, MoTrans
    <3>2. ctx' = [ctx EXCEPT ![x] = [ctx[x] EXCEPT !.asked = Append(ctx[x].asked, t)]]
      BY <1>1, <1>4, <2>3 DEF ReadRequest, TypeOK
    <3>3. ctx' \in [Contexts -> MMContexts]
      BY <1>1, <3>1, <3>2, ContextFields DEF TypeOK
    <3>4. QED
      BY <1>2, <1>4, <2>3, <3>3 DEF ReadRequest, TypeOK
  <2>4. QED
    BY <2>2, <2>3
<1>5. QED
  BY <1>3, <1>4

LEMMA RunsOnType ==
  ASSUME TypeOK, NEW dead, NEW t \in Trans, NEW x \in Contexts,
         tran' = [Cancelled(dead) EXCEPT ![t].state = "running", ![t].ctx = x]
  PROVE  tran' \in [Trans -> TranEntries]
<1> DEFINE r == Cancelled(dead)
<1>1. r \in [Trans -> TranEntries]
  BY CancelledType
<1>2. tran' = [r EXCEPT ![t] = [r[t] EXCEPT !.state = "running", !.ctx = x]]
  BY <1>1
<1> HIDE DEF r
<1>3. r[t] \in TranEntries
  BY <1>1
<1>4. [r[t] EXCEPT !.state = "running", !.ctx = x] \in TranEntries
  BY <1>3, TranFields
<1>5. QED
  BY <1>1, <1>2, <1>4

LEMMA ResponderType ==
  ASSUME TypeOK, LoopsOK, NEW c \in Chans, NewCMServiceResponder(c)
  PROVE  TypeOK'
<1> DEFINE x == chan[c].ctx
           t == Head(ctx[x].asked)
           k == [ctx[x] EXCEPT !.asked = Tail(@)]
<1>1. x \in Contexts /\ ctx[x] \in MMContexts
  BY Zenon, Serves DEF NewCMServiceResponder, Idle
<1>2. ctx[x].asked \in Seq(Mocs \cup MoSmss) /\ ctx[x].asked # <<>>
  BY Zenon, <1>1 DEF MMContexts, NewCMServiceResponder
<1>3. t \in Trans /\ k \in MMContexts
  BY <1>1, <1>2, HeadTail, ContextFields DEF Trans, MoTrans
<1> HIDE DEF k, t, x
<1>4. ctx' \in [Contexts -> MMContexts] /\ tran' \in [Trans -> TranEntries]
  <2>1. CASE /\ ctx' = [ctx EXCEPT ![x] = [k EXCEPT !.slot["TE_CS1"] = t]]
             /\ tran' = [Cancelled({k.slot["TE_CS1"]}) EXCEPT
                             ![t].state = "running", ![t].ctx = x]
    <3>1. [k EXCEPT !.slot["TE_CS1"] = t] \in MMContexts
      BY <1>3, ContextFields DEF Slots
    <3>2. QED
      BY Zenon, <1>1, <1>3, <2>1, <3>1, RunsOnType DEF TypeOK
  <2>2. CASE StartMoSms(x, t, k)
    <3> DEFINE oldest == k.slot["TE_MOSMS1"]
               both == oldest # None /\ k.slot["TE_MOSMS2"] # None
               slots == IF both THEN Disconnected(k.slot, oldest) ELSE k.slot
               s == IF slots["TE_MOSMS1"] = None THEN "TE_MOSMS1" ELSE "TE_MOSMS2"
    <3>1. k.slot \in [Slots -> Trans \cup {None}]
      BY <1>3 DEF MMContexts
    <3>2. slots \in [Slots -> Trans \cup {None}] /\ s \in Slots
      BY <3>1, SlotTypes DEF Slots
    <3>3. [slots EXCEPT ![s] = t] \in [Slots -> Trans \cup {None}]
      BY <1>3, <3>2
    <3>4. CASE /\ ctx' = [ctx EXCEPT ![x] = [k EXCEPT !.slot = [slots EXCEPT ![s] = t]]]
               /\ tran' = [Cancelled(IF both THEN {oldest} ELSE {}) EXCEPT
                          ![t].state = "running", ![t].ctx = x]
      BY Zenon, <1>1, <1>3, <3>3, <3>4, ContextFields, RunsOnType DEF TypeOK
    <3>5. CASE /\ ctx' = [ctx EXCEPT ![x] = k]
               /\ tran' = [tran EXCEPT ![t].state = "dead"]
      <4>1. ctx' \in [Contexts -> MMContexts]
        BY Zenon, <1>3, <3>5 DEF TypeOK
      <4>2. tran' = [tran EXCEPT ![t] = [tran[t] EXCEPT !.state = "dead"]]
        BY <1>3, <3>5 DEF TypeOK
      <4>3. QED
        BY <1>3, <4>1, <4>2, TranFields DEF TypeOK
    <3>6. QED
      BY Zenon, <2>2, <3>4, <3>5 DEF StartMoSms
  <2>3. QED
    BY Zenon, <2>1, <2>2 DEF NewCMServiceResponder, x, t, k
<1>5. QED
  BY Zenon, <1>4 DEF NewCMServiceResponder, TypeOK

LEMMA MTType ==
  ASSUME TypeOK, LoopsOK, NEW c \in Chans,
         ServiceMTC(c) \/ ServiceMTSMS(c)
  PROVE  TypeOK'
<1> DEFINE x == chan[c].ctx
           i == ctx[x].mmu
<1>1. x \in Contexts /\ ctx[x] \in MMContexts
  BY Zenon, Serves DEF ServiceMTC, ServiceMTSMS, Idle
<1>2. i \in Imsis /\ user[i] \in Users
  BY Zenon, <1>1, ObjectTypes DEF MMContexts, ServiceMTC, ServiceMTSMS
<1>3. CASE ServiceMTC(c)
  <2>1. user[i].mtcq \in Seq(Mtcs) /\ user[i].mtcq # <<>>
    BY Zenon, <1>2, <1>3 DEF Users, ServiceMTC
  <2>2. Head(user[i].mtcq) \in Mtcs /\ Tail(user[i].mtcq) \in Seq(Mtcs)
    BY <2>1, HeadTail
  <2>3. ctx' \in [Contexts -> MMContexts] /\ tran' \in [Trans -> TranEntries]
    BY Zenon, <1>1, <1>3, <2>2, ConnectType DEF ServiceMTC, Trans, MtTrans, Slots
  <2>4. user' = [user EXCEPT ![i] = [user[i] EXCEPT !.mtcq = Tail(user[i].mtcq)]]
    BY Zenon, <1>2, <1>3 DEF ServiceMTC, TypeOK
  <2>5. user' \in [Imsis -> Users]
    BY <1>2, <2>2, <2>4, UserFields DEF TypeOK
  <2>6. QED
    BY Zenon, <1>3, <2>3, <2>5 DEF ServiceMTC, TypeOK
<1>4. CASE ServiceMTSMS(c)
  <2> DEFINE t == Head(user[i].smsq)
  <2>1. user[i].smsq \in Seq(MtSmss) /\ user[i].smsq # <<>>
    BY Zenon, <1>2, <1>4 DEF Users, ServiceMTSMS
  <2>2. t \in MtSmss /\ Tail(user[i].smsq) \in Seq(MtSmss)
    BY <2>1, HeadTail
  <2>3. user' = [user EXCEPT ![i] = [user[i] EXCEPT !.smsq = Tail(user[i].smsq)]]
    BY Zenon, <1>2, <1>4 DEF ServiceMTSMS, TypeOK
  <2>4. chan' = [chan EXCEPT ![c] = [chan[c] EXCEPT !.hand = t]]
    BY Zenon, <1>4 DEF ServiceMTSMS, TypeOK
  <2>5. tran' = [tran EXCEPT ![t] = [tran[t] EXCEPT !.state = "hand"]]
    BY Zenon, <1>4, <2>2 DEF ServiceMTSMS, TypeOK, Trans, MtTrans
  <2> HIDE DEF i, t
  <2>6. user' \in [Imsis -> Users]
    BY <1>2, <2>2, <2>3, UserFields DEF TypeOK
  <2>7. chan' \in [Chans -> L3Channels]
    BY Zenon, <2>2, <2>4, ChanFields DEF TypeOK
  <2>8. tran' \in [Trans -> TranEntries]
    BY <2>2, <2>5, TranFields DEF TypeOK, Trans, MtTrans
  <2>9. QED
    BY Zenon, <1>4, <2>6, <2>7, <2>8 DEF ServiceMTSMS, TypeOK
<1>5. QED
  BY <1>3, <1>4

LEMMA StartSMSType ==
  ASSUME TypeOK, Hands, NEW c \in Chans, StartSMSTran(c)
  PROVE  TypeOK'
<1> DEFINE t == chan[c].hand
           x == user[tran[t].imsi].ctx
<1>1. t \in MtSmss
  BY ObjectTypes DEF L3Channels, StartSMSTran
<1>2. tran[t].imsi \in Imsis
  BY <1>1, ObjectTypes DEF Hands, StartSMSTran, TranEntries, Trans, MtTrans
<1>3. x \in Contexts
  BY <1>2, ObjectTypes DEF StartSMSTran, Users
<1>4. ctx' \in [Contexts -> MMContexts] /\ tran' \in [Trans -> TranEntries]
  BY Zenon, <1>1, <1>3, ConnectType DEF StartSMSTran, Slots, Trans, MtTrans
<1>5. chan' \in [Chans -> L3Channels]
  BY Zenon, ChanFields, ObjectTypes DEF StartSMSTran, TypeOK
<1>6. QED
  BY <1>4, <1>5 DEF StartSMSTran, TypeOK

LEMMA EndsType ==
  ASSUME TypeOK, LoopsOK, NEW c \in Chans,
         Identify(c) \/ \E t \in Trans : EndTran(c, t)
  PROVE  TypeOK'
<1>1. CASE Identify(c)
  BY <1>1, Serves, LinkType DEF Identify, TypeOK
<1>2. ASSUME NEW t \in Trans, EndTran(c, t) PROVE TypeOK'
  <2> DEFINE x == chan[c].ctx
             slot == Disconnected(ctx[x].slot, t)
  <2>1. x \in Contexts /\ ctx[x] \in MMContexts
    BY <1>2, Serves DEF EndTran
  <2>2. slot \in [Slots -> Trans \cup {None}]
    BY <2>1, SlotTypes DEF MMContexts
  <2>3. ctx' = [ctx EXCEPT ![x] = [ctx[x] EXCEPT !.slot = slot]]
    BY <1>2, <2>1 DEF EndTran, TypeOK
  <2> HIDE DEF slot
  <2>4. ctx' \in [Contexts -> MMContexts]
    BY <2>1, <2>2, <2>3, ContextFields DEF TypeOK
  <2>5. chan' \in [Chans -> L3Channels]
    <3>1. \A e \in Chans : chan[e] \in L3Channels /\ [chan[e] EXCEPT !.call = "none"] \in L3Channels
      BY Zenon, ObjectTypes, ChanFields
    <3>2. QED
      BY <1>2, <3>1 DEF EndTran
  <2>6. QED
    BY <1>2, <2>4, <2>5, CancelledType DEF EndTran, TypeOK
<1>3. QED
  BY <1>1, <1>2

LEMMA ClosingType ==
  ASSUME TypeOK, LoopsOK, NEW c \in Chans,
         CloseIdle(c) \/ CloseTerminated(c) \/ CloseLost(c) \/ CloseLoop(c)
  PROVE  TypeOK'
<1>1. CASE CloseIdle(c)
  BY Zenon, <1>1, ChanFields, ObjectTypes DEF CloseIdle, TypeOK
<1>2. CASE CloseTerminated(c)
  <2>1. chan[c].ctx \in Contexts
    BY <1>2, Serves DEF CloseTerminated
  <2>2. ctx' \in [Contexts -> MMContexts]
    BY <1>2, <2>1, ContextFields, ObjectTypes DEF CloseTerminated, TypeOK
  <2>3. QED
    BY Zenon, <1>2, <2>2, ChanFields, ObjectTypes DEF CloseTerminated, TypeOK
<1>3. CASE CloseLost(c)
  <2>1. phone' \in [Imsis -> Phones]
    BY <1>3 DEF CloseLost, Leaves, TypeOK, Phones
  <2>2. QED
    BY Zenon, <1>3, <2>1, ChanFields, ObjectTypes DEF CloseLost, TypeOK
<1>4. CASE CloseLoop(c)
  <2>1. phone' \in [Imsis -> Phones]
    BY <1>4 DEF CloseLoop, Leaves, TypeOK, Phones
  <2>2. chan' \in [Chans -> L3Channels]
    <3>1. (IF Leaving(c) = {c} THEN chan[c].next ELSE None) \in Tch \cup {None}
      BY ObjectTypes DEF L3Channels
    <3>2. [NoChannel EXCEPT !.next = IF Leaving(c) = {c} THEN chan[c].next ELSE None] \in L3Channels
      BY Zenon, <3>1, ChanFields, ObjectTypes
    <3>3. \A e \in Chans : chan[e] \in L3Channels /\ [chan[e] EXCEPT !.ctx = None] \in L3Channels
      BY Zenon, ObjectTypes, ChanFields
    <3>4. QED
      BY <1>4, <3>2, <3>3 DEF CloseLoop
  <2>3. QED
    BY <1>4, <2>1, <2>2, FreeContextType DEF CloseLoop, TypeOK
<1>5. QED
  BY <1>1, <1>2, <1>3, <1>4

LEMMA ReassignType ==
  ASSUME TypeOK, LoopsOK, NEW c \in Chans,
         \/ \E d \in Chans : AllocNextTCH(c, d)
         \/ ReassignStart(c) \/ ReassignComplete(c) \/ ReassignFailure(c)
  PROVE  TypeOK'
<1>1. ASSUME NEW d \in Chans, AllocNextTCH(c, d) PROVE TypeOK'
  <2>1. chan' = [chan EXCEPT ![c] = [chan[c] EXCEPT !.next = d, !.call = "allocated"]] /\ d \in Tch
    BY <1>1 DEF AllocNextTCH, TypeOK
  <2>2. chan' \in [Chans -> L3Channels]
    BY Zenon, <2>1, ChanFields DEF TypeOK
  <2>3. QED
    BY <1>1, <2>2 DEF AllocNextTCH, TypeOK
<1> DEFINE d == chan[c].next
<1>2. ASSUME chan[c].call # "none" PROVE d \in Chans /\ d # c
  BY <1>2, OpenLoop, ChannelAssumption DEF Chans
<1>3. CASE ReassignStart(c)
  <2>1. d \in Chans /\ d # c /\ chan[c].ctx \in Contexts
    BY <1>2, <1>3, Serves DEF ReassignStart
  <2>2. chan' = [chan EXCEPT ![c] = [chan[c] EXCEPT !.call = "assigning"],
                             ![d] = [chan[d] EXCEPT !.loop = "target", !.ctx = chan[c].ctx]]
    BY Zenon, <1>3, <2>1 DEF ReassignStart, TypeOK
  <2> HIDE DEF d
  <2>3. chan' \in [Chans -> L3Channels]
    BY Zenon, <2>1, <2>2, ChanFields DEF TypeOK
  <2>4. QED
    BY <1>3, <2>3 DEF ReassignStart, TypeOK
<1>4. CASE ReassignComplete(c)
  <2>1. chan' = [chan EXCEPT ![c] = [chan[c] EXCEPT !.next = None, !.call = "none", !.loop = "closing"]]
    BY Zenon, <1>4 DEF ReassignComplete, TypeOK
  <2>2. chan' \in [Chans -> L3Channels]
    BY Zenon, <2>1, ChanFields DEF TypeOK
  <2>3. QED
    BY <1>4, <2>2 DEF ReassignComplete, TypeOK
<1>5. CASE ReassignFailure(c)
  <2> DEFINE l == IF chan[d].loop = "open" THEN "closing" ELSE chan[d].loop
  <2>1. d \in Chans /\ d # c
    BY <1>2, <1>5 DEF ReassignFailure
  <2>2. chan' = [chan EXCEPT ![c] = [chan[c] EXCEPT !.next = None, !.call = "none", !.loop = "closing"],
                             ![d] = [chan[d] EXCEPT !.ctx = None, !.loop = l]]
    BY Zenon, <1>5, <2>1 DEF ReassignFailure, TypeOK
  <2>3. l \in {"idle", "target", "open", "closing"}
    BY <2>1, ObjectTypes DEF L3Channels
  <2> HIDE DEF d, l
  <2>4. chan' \in [Chans -> L3Channels]
    BY Zenon, <2>1, <2>2, <2>3, ChanFields DEF TypeOK
  <2>5. QED
    BY <1>5, <2>4, FreeContextType DEF ReassignFailure, TypeOK
<1>6. QED
  BY <1>1, <1>3, <1>4, <1>5

(* Every step keeps the types: StartSMSTran needs Hands, and the channels a *)
(* loop uses LoopsOK.                                                       *)
LEMMA TypeStep ==
  ASSUME TypeOK, LoopsOK, Hands, [Next]_vars
  PROVE  TypeOK'
<1>1. CASE SipThread
  BY <1>1, RepageType, SipType DEF SipThread
<1>2. CASE Handset
  BY <1>2, HandsetType DEF Handset
<1>3. CASE \E i \in Imsis : mmGetPages(i) \/ PageTimerPasses(i) \/ mmTerminateByImsi(i)
  BY <1>3, PagingType
<1>4. CASE \E x \in Contexts : Settle(x)
  BY <1>4, ContextFields, ObjectTypes DEF Settle, TypeOK
<1>5. ASSUME NEW c \in Chans, ServiceLoop(c) PROVE TypeOK'
  BY <1>5, ReadType, ResponderType, MTType, StartSMSType, ClosingType DEF ServiceLoop
<1>6. ASSUME NEW c \in Chans,
             CloseLost(c) \/ Identify(c) \/ \E t \in Trans : EndTran(c, t)
      PROVE  TypeOK'
  BY <1>6, ClosingType, EndsType
<1>7. ASSUME NEW c \in Chans,
             \/ \E d \in Chans : AllocNextTCH(c, d)
             \/ ReassignStart(c) \/ ReassignComplete(c) \/ ReassignFailure(c)
      PROVE  TypeOK'
  BY <1>7, ReassignType
<1>8. CASE UNCHANGED vars
  BY <1>8 DEF vars, TypeOK
<1>9. QED
  BY <1>1, <1>2, <1>3, <1>4, <1>5, <1>6, <1>7, <1>8 DEF Next
-----------------------------------------------------------------------------
(* A loop that reads, starts something, ends a call or gives up its channel *)
(* leaves what the channels hold of each other as it is.                    *)
Steady(c) ==
    /\ chan'[c].loop = chan[c].loop \/ (chan[c].loop = "open" /\ chan'[c].loop = "closing")
    /\ chan'[c].call \in {chan[c].call, "none"}
    /\ chan'[c].ctx = chan[c].ctx /\ chan'[c].next = chan[c].next /\ chan'[c].who = chan[c].who
    /\ ~Busy(c) => chan'[c].inbox = chan[c].inbox /\ chan'[c].hand = chan[c].hand

(* Such a step keeps what the invariant says of the channels.               *)
LEMMA SteadyChan ==
  ASSUME TypeOK, TypeOK', ChanInv, \A c \in Chans : Steady(c)
  PROVE  ChanInv'
<1> USE DEF Busy, Steady
<1>0. \A c \in Chans : Busy(c)' = Busy(c)
  OBVIOUS
<1>1. LoopsOK'
  BY DEF ChanInv, LoopsOK
<1>2. ReservedOK'
  BY <1>0 DEF ChanInv, ReservedOK
<1>3. TargetsOK'
  BY DEF ChanInv, TargetsOK, Chans
<1>4. OneHandset'
  BY DEF ChanInv, OneHandset
<1>5. QED
  BY <1>1, <1>2, <1>3, <1>4 DEF ChanInv

(* The other actions one by one: a handset seizes a free channel, or a      *)
(* target.                                                                  *)
LEMMA EstablishChan ==
  ASSUME TypeOK, TypeOK', ChanInv, NEW c \in Chans, NEW i \in Imsis, NEW msg \in Messages,
         Establish(c, i, msg)
  PROVE  ChanInv'
<1>1. PICK x \in Contexts :
         /\ ChannelsOf(x) = {}
         /\ chan' = [chan EXCEPT ![c] = [chan[c] EXCEPT
                 !.loop = "open", !.ctx = x, !.who = i, !.inbox = <<msg>>]]
  BY DEF Establish
<1>2. /\ chan'[c].loop = "open" /\ chan'[c].ctx = x /\ chan'[c].who = i
      /\ chan'[c].next = chan[c].next /\ chan'[c].call = chan[c].call
      /\ \A e \in Chans \ {c} : chan'[e] = chan[e]
  BY <1>1, ObjectTypes DEF L3Channels, TypeOK
<1>10. chan[c].call = "none" /\ ~Busy(c)
  BY DEF Establish, Free, ChanInv, LoopsOK, Busy
<1>3. /\ chan[c].loop \in {"idle", "target"} /\ chan[c].ctx = None
      /\ \A e \in Chans : chan[e].call # "none" => chan[e].next # c
      /\ \A e \in Chans : chan[e].ctx # x
  BY <1>1 DEF Establish, Free, ChannelsOf
<1>4. x # None /\ i # None
  BY NoneAssumption DEF None
<1> HIDE DEF Establish
<1>5. LoopsOK'
  BY <1>2, <1>3, <1>4, <1>10, ChannelAssumption DEF ChanInv, LoopsOK, Busy
<1>6. ReservedOK'
  BY <1>2, <1>3, <1>10 DEF ChanInv, ReservedOK, Busy
<1>7. TargetsOK'
  BY <1>2, <1>3 DEF ChanInv, TargetsOK, Busy, Chans
<1>8. OneHandset'
  BY <1>2, <1>3 DEF ChanInv, OneHandset, Busy
<1>9. QED
  BY <1>5, <1>6, <1>7, <1>8 DEF ChanInv

LEMMA EstablishTargetChan ==
  ASSUME TypeOK, TypeOK', ChanInv, NEW c \in Chans, EstablishTarget(c)
  PROVE  ChanInv'
<1> DEFINE d == chan[c].next
<1>1. c \in Sdcch /\ d \in Tch /\ d \in Chans /\ Busy(c) /\ chan[c].who \in Imsis /\ c # d /\ chan[d].loop = "target"
      /\ chan[c].ctx # None
  BY OpenLoop, ChannelAssumption DEF EstablishTarget, Chans, ChanInv, LoopsOK
<1>2. PICK x \in Contexts :
         /\ IF chan[d].ctx = None THEN ChannelsOf(x) = {} ELSE x = chan[d].ctx
         /\ chan' = [chan EXCEPT ![d].loop = "open", ![d].who = chan[c].who, ![d].ctx = x]
  BY DEF EstablishTarget
<1>3. x # None /\ chan[c].who # None
  BY <1>1, NoneAssumption DEF None
<1> HIDE DEF d
<1>4. /\ chan'[d].loop = "open" /\ chan'[d].ctx = x /\ chan'[d].who = chan[c].who
      /\ chan'[d].next = chan[d].next /\ chan'[d].call = chan[d].call /\ chan[d].call = "none"
      /\ \A e \in Chans \ {d} : chan'[e] = chan[e]
  BY <1>1, <1>2, ObjectTypes DEF L3Channels, ChanInv, LoopsOK, Busy, TypeOK
<1>5. LoopsOK'
  BY <1>1, <1>3, <1>4, ChannelAssumption DEF ChanInv, LoopsOK, Busy
<1>6. ReservedOK'
  <2> SUFFICES ASSUME NEW b \in Chans, NEW f \in Chans, chan'[b].call # "none", chan'[b].next = f
               PROVE  /\ \A e \in Chans \ {b} : chan'[e].call # "none" => chan'[e].next # f
                      /\ chan'[b].call = "allocated" => ~Busy(f)' /\ chan'[f].ctx = None
                      /\ chan'[f].loop = "target" => chan'[f].ctx \in {None, chan'[b].ctx}
    BY DEF ReservedOK
  <2>1. b # d /\ chan'[b] = chan[b]
    BY <1>4
  <2>2. chan[b].call = "allocated" => f # d
    BY <2>1, <1>1 DEF ChanInv, ReservedOK, EstablishTarget, d
  <2>3. QED
    BY <2>1, <2>2, <1>4 DEF ChanInv, ReservedOK, Busy
<1>7. TargetsOK'
  BY <1>1, <1>4, ChannelAssumption DEF ChanInv, TargetsOK, Busy, Chans
<1>8. OneHandset'
  <2>1. ASSUME NEW e \in Chans \ {d}, Busy(e), chan[e].ctx = x PROVE chan[e].who = chan[c].who
    <3>1. chan[d].ctx = x
      BY <2>1, <1>2 DEF ChannelsOf
    <3>2. chan[c].ctx = x
      BY <3>1, <1>1, <1>3 DEF ChanInv, ReservedOK, EstablishTarget, d
    <3>3. QED
      BY <2>1, <3>2, <1>1, <1>3 DEF ChanInv, OneHandset
  <2>2. QED
    BY <1>4, <2>1 DEF ChanInv, OneHandset, Busy
<1>9. QED
  BY <1>5, <1>6, <1>7, <1>8 DEF ChanInv

(* A loop exits, and lets go of its target.                                 *)
LEMMA CloseLoopChan ==
  ASSUME TypeOK, TypeOK', ChanInv, NEW c \in Chans, CloseLoop(c)
  PROVE  ChanInv'
<1> DEFINE gone == Leaving(c)
<1>1. /\ chan'[c].loop = "idle" /\ chan'[c].ctx = None /\ chan'[c].call = "none" /\ chan'[c].who = None
      /\ chan'[c].inbox = <<>> /\ chan'[c].hand = None /\ chan'[c].next \in {chan[c].next, None}
  BY DEF CloseLoop, NoChannel
<1>2. gone \subseteq Chans /\ \A e \in gone \ {c} : chan[c].next = e /\ chan[e].loop = "target"
  BY ObjectTypes DEF Leaving, L3Channels, Chans
<1>3. \A e \in Chans \ {c} :
        /\ chan'[e].loop = chan[e].loop /\ chan'[e].call = chan[e].call /\ chan'[e].who = chan[e].who
        /\ chan'[e].next = chan[e].next /\ chan'[e].inbox = chan[e].inbox /\ chan'[e].hand = chan[e].hand
        /\ chan'[e].ctx = IF e \in gone THEN None ELSE chan[e].ctx
  BY ObjectTypes DEF CloseLoop, L3Channels
<1>4. chan[c].loop = "closing"
  BY DEF CloseLoop
<1>5. \A d \in Chans : chan[d].loop = "target" /\ chan[c].next = d => d \in gone
  BY NoneAssumption DEF Leaving, None
<1> HIDE DEF gone
<1>6. LoopsOK'
  BY <1>1, <1>2, <1>3, ChannelAssumption DEF ChanInv, LoopsOK, Busy
<1>7. ReservedOK'
  <2> SUFFICES ASSUME NEW b \in Chans, NEW f \in Chans, chan'[b].call # "none", chan'[b].next = f
               PROVE  /\ \A e \in Chans \ {b} : chan'[e].call # "none" => chan'[e].next # f
                      /\ chan'[b].call = "allocated" => ~Busy(f)' /\ chan'[f].ctx = None
                      /\ chan'[f].loop = "target" => chan'[f].ctx \in {None, chan'[b].ctx}
    BY DEF ReservedOK
  <2>1. b # c /\ chan[b].call # "none" /\ chan[b].next = f /\ b \in Sdcch /\ b \notin gone
    BY <1>1, <1>2, <1>3, OpenLoop DEF ChanInv, Chans, LoopsOK
  <2>2. QED
    BY <2>1, <1>1, <1>3, <1>4 DEF ChanInv, ReservedOK, Busy
<1>8. TargetsOK'
  <2> SUFFICES ASSUME NEW d \in Chans, chan'[d].loop = "target", chan'[d].ctx # None
               PROVE  \E b \in Sdcch : chan'[b].next = d /\ chan'[b].ctx = chan'[d].ctx /\ Busy(b)'
    BY DEF TargetsOK
  <2>1. d # c /\ chan[d].loop = "target" /\ chan[d].ctx # None /\ d \notin gone /\ chan'[d].ctx = chan[d].ctx
    BY <1>1, <1>3
  <2>2. PICK b \in Sdcch : chan[b].next = d /\ chan[b].ctx = chan[d].ctx /\ Busy(b)
    BY <2>1 DEF ChanInv, TargetsOK
  <2>3. b # c /\ b \notin gone /\ b \in Chans
    BY <2>1, <2>2, <1>2, <1>5 DEF ChanInv, LoopsOK, Chans
  <2>4. QED
    BY <2>1, <2>2, <2>3, <1>3 DEF Busy
<1>9. OneHandset'
  BY <1>1, <1>2, <1>3 DEF ChanInv, OneHandset, Busy
<1>10. QED
  BY <1>6, <1>7, <1>8, <1>9 DEF ChanInv

(* A call reserves a TCH, and starts its assignment.                        *)
LEMMA AllocChan ==
  ASSUME TypeOK, TypeOK', ChanInv, NEW c \in Chans, NEW d \in Chans, AllocNextTCH(c, d)
  PROVE  ChanInv'
<1>1. /\ c \in Sdcch /\ d \in Tch /\ chan[c].loop = "open" /\ chan[c].call = "none"
      /\ chan[d].loop \in {"idle", "target"} /\ chan[d].ctx = None
      /\ \A e \in Chans : chan[e].call # "none" => chan[e].next # d
      /\ \A e \in Chans \ {c} : chan[e].ctx # chan[c].ctx
  BY DEF AllocNextTCH, Free, Serving, ChannelsOf
<1>2. chan' = [chan EXCEPT ![c].next = d, ![c].call = "allocated"]
  BY DEF AllocNextTCH
<1>3. /\ chan'[c].next = d /\ chan'[c].call = "allocated" /\ chan'[c].loop = chan[c].loop
      /\ chan'[c].ctx = chan[c].ctx /\ chan'[c].who = chan[c].who
      /\ \A e \in Chans \ {c} : chan'[e] = chan[e]
  BY <1>2, ObjectTypes DEF L3Channels, TypeOK
<1>4. c # d /\ d # None /\ d \notin Sdcch
  BY <1>1, ChannelAssumption, NoneAssumption DEF None, Chans
<1>5. LoopsOK'
  BY <1>1, <1>3, <1>4, ChannelAssumption DEF ChanInv, LoopsOK, Busy
<1>6. ReservedOK'
  BY <1>1, <1>3, <1>4 DEF ChanInv, ReservedOK, Busy
<1>7. TargetsOK'
  BY <1>1, <1>3, <1>4 DEF ChanInv, TargetsOK, Busy, Chans
<1>8. OneHandset'
  BY <1>3 DEF ChanInv, OneHandset, Busy
<1>9. QED
  BY <1>5, <1>6, <1>7, <1>8 DEF ChanInv

LEMMA StartChan ==
  ASSUME TypeOK, TypeOK', ChanInv, NEW c \in Chans, ReassignStart(c)
  PROVE  ChanInv'
<1> DEFINE d == chan[c].next
<1>1. c \in Sdcch /\ d \in Tch /\ d \in Chans /\ chan[c].loop = "open" /\ c # d /\ chan[c].call = "allocated"
  BY OpenLoop, ChannelAssumption DEF ReassignStart, Serving, Chans, ChanInv
<1>2. chan' = [chan EXCEPT ![c].call = "assigning", ![d].loop = "target", ![d].ctx = chan[c].ctx]
  BY DEF ReassignStart
<1>3. ~Busy(d) /\ chan[d].ctx = None /\ \A e \in Chans \ {c} : chan[e].call # "none" => chan[e].next # d
  BY <1>1 DEF ChanInv, ReservedOK
<1> HIDE DEF d
<1>4. /\ chan'[c].next = d /\ chan'[c].call = "assigning" /\ chan'[c].loop = chan[c].loop
      /\ chan'[c].ctx = chan[c].ctx /\ chan'[c].who = chan[c].who
      /\ chan'[d].loop = "target" /\ chan'[d].ctx = chan[c].ctx /\ chan'[d].next = chan[d].next
      /\ chan'[d].call = chan[d].call /\ chan'[d].who = chan[d].who
      /\ chan'[d].inbox = chan[d].inbox /\ chan'[d].hand = chan[d].hand
      /\ \A e \in Chans \ {c, d} : chan'[e] = chan[e]
  BY <1>1, <1>2, ObjectTypes DEF L3Channels, TypeOK, d
<1>10. d # None /\ chan[c].ctx # None
  BY <1>1, NoneAssumption DEF None, Chans, ChanInv, LoopsOK
<1>5. LoopsOK'
  BY <1>10, <1>1, <1>3, <1>4, ChannelAssumption DEF ChanInv, LoopsOK, Busy
<1>6. ReservedOK'
  <2> SUFFICES ASSUME NEW b \in Chans, NEW f \in Chans, chan'[b].call # "none", chan'[b].next = f
               PROVE  /\ \A e \in Chans \ {b} : chan'[e].call # "none" => chan'[e].next # f
                      /\ chan'[b].call = "allocated" => ~Busy(f)' /\ chan'[f].ctx = None
                      /\ chan'[f].loop = "target" => chan'[f].ctx \in {None, chan'[b].ctx}
    BY DEF ReservedOK
  <2>1. b # d
    BY <1>3, <1>4 DEF ChanInv, LoopsOK
  <2>2. b # c => f # d /\ f # c
    BY <1>1, <1>3, <1>4, <2>1, OpenLoop, ChannelAssumption DEF ChanInv
  <2>3. CASE b = c
    BY <2>3, <1>1, <1>3, <1>4 DEF ChanInv, LoopsOK
  <2>4. CASE b # c
    BY <2>1, <2>2, <2>4, <1>1, <1>3, <1>4 DEF ChanInv, ReservedOK, Busy, LoopsOK
  <2>5. QED
    BY <2>3, <2>4
<1>7. TargetsOK'
  <2> SUFFICES ASSUME NEW f \in Chans, chan'[f].loop = "target", chan'[f].ctx # None
               PROVE  \E b \in Sdcch : chan'[b].next = f /\ chan'[b].ctx = chan'[f].ctx /\ Busy(b)'
    BY DEF TargetsOK
  <2>1. CASE f = d
    BY <2>1, <1>1, <1>4 DEF Busy
  <2>2. CASE f # d
    <3>1. f # c /\ chan[f] = chan'[f]
      BY <2>2, <1>1, <1>4
    <3>2. PICK b \in Sdcch : chan[b].next = f /\ chan[b].ctx = chan[f].ctx /\ Busy(b)
      BY <3>1 DEF ChanInv, TargetsOK
    <3>3. b # d /\ b # c => chan'[b] = chan[b]
      BY <1>4 DEF Chans
    <3>4. b # d /\ b # c
      BY <2>2, <3>2, <1>1, ChannelAssumption DEF d
    <3>5. QED
      BY <3>1, <3>2, <3>3, <3>4 DEF Busy
  <2>3. QED
    BY <2>1, <2>2
<1>8. OneHandset'
  BY <1>1, <1>3, <1>4 DEF ChanInv, OneHandset, Busy
<1>9. QED
  BY <1>5, <1>6, <1>7, <1>8 DEF ChanInv

(* A reassignment that ends, one way or the other, leaves its target apart. *)
LEMMA ReassignedChan ==
  ASSUME TypeOK, TypeOK', ChanInv, NEW c \in Chans, ReassignComplete(c) \/ ReassignFailure(c)
  PROVE  ChanInv'
<1>1. PICK d \in Tch : c \in Sdcch /\ chan[c].next = d /\ d \in Chans /\ c # d /\ Busy(c)
  BY OpenLoop, ChannelAssumption DEF ReassignComplete, ReassignFailure, Chans, ChanInv
<1>2. /\ chan'[c].next = None /\ chan'[c].call = "none" /\ chan'[c].loop = "closing"
      /\ chan'[c].ctx = chan[c].ctx /\ chan'[c].who = chan[c].who
      /\ \A e \in Chans \ {c, d} : chan'[e] = chan[e]
      /\ \/ chan'[d].loop = chan[d].loop /\ chan[d].loop = "open" /\ chan'[d].ctx = chan[d].ctx
         \/ /\ chan'[d].ctx = None
            /\ chan'[d].loop = (IF chan[d].loop = "open" THEN "closing" ELSE chan[d].loop)
      /\ chan'[d].next = chan[d].next /\ chan'[d].call = chan[d].call /\ chan'[d].who = chan[d].who
      /\ chan'[d].inbox = chan[d].inbox /\ chan'[d].hand = chan[d].hand
  <2>1. CASE ReassignComplete(c)
    <3>1. chan[d].loop = "open"
      BY <1>1, <2>1 DEF ReassignComplete, Serving
    <3>2. chan' = [chan EXCEPT ![c].next = None, ![c].call = "none", ![c].loop = "closing"]
      BY <2>1 DEF ReassignComplete
    <3>3. QED
      BY <1>1, <3>1, <3>2, ObjectTypes DEF L3Channels, TypeOK
  <2>2. CASE ReassignFailure(c)
    <3>1. chan' = [chan EXCEPT ![c].next = None, ![c].call = "none", ![c].loop = "closing",
                               ![d].ctx = None, ![d].loop = IF @ = "open" THEN "closing" ELSE @]
      BY <1>1, <2>2 DEF ReassignFailure
    <3> DEFINE l == IF chan[d].loop = "open" THEN "closing" ELSE chan[d].loop
    <3>2. /\ chan'[c] = [chan[c] EXCEPT !.next = None, !.call = "none", !.loop = "closing"]
          /\ chan'[d] = [chan[d] EXCEPT !.ctx = None, !.loop = l]
          /\ \A e \in Chans \ {c, d} : chan'[e] = chan[e]
      BY <1>1, <3>1 DEF TypeOK
    <3> HIDE DEF l
    <3>3. QED
      BY <1>1, <3>2, ObjectTypes DEF L3Channels, l
  <2>3. QED
    BY <2>1, <2>2
<1>3. chan'[d].call = "none"
  BY <1>1, <1>2, OpenLoop, ChannelAssumption DEF ChanInv
<1>4. Busy(d)' = Busy(d) /\ Busy(c)' = Busy(c)
  BY <1>1, <1>2 DEF Busy
<1>5. LoopsOK'
  BY <1>1, <1>2, <1>3, <1>4, ChannelAssumption DEF ChanInv, LoopsOK, Busy
<1>6. ReservedOK'
  BY <1>1, <1>2, <1>3, <1>4 DEF ChanInv, ReservedOK, Busy
<1>7. TargetsOK'
  <2> SUFFICES ASSUME NEW f \in Chans, chan'[f].loop = "target", chan'[f].ctx # None
               PROVE  \E b \in Sdcch : chan'[b].next = f /\ chan'[b].ctx = chan'[f].ctx /\ Busy(b)'
    BY DEF TargetsOK
  <2>1. f # d /\ f # c /\ chan'[f] = chan[f]
    BY <1>2
  <2>2. PICK b \in Sdcch : chan[b].next = f /\ chan[b].ctx = chan[f].ctx /\ Busy(b)
    BY <2>1 DEF ChanInv, TargetsOK
  <2>3. b # c /\ b # d /\ b \in Chans
    BY <2>1, <2>2, <1>1, ChannelAssumption DEF Chans
  <2>4. QED
    BY <2>1, <2>2, <2>3, <1>2 DEF Busy
<1>8. OneHandset'
  BY <1>1, <1>2, <1>4 DEF ChanInv, OneHandset, Busy
<1>9. QED
  BY <1>5, <1>6, <1>7, <1>8 DEF ChanInv

(* Which actions are steady.                                                *)
LEMMA UnchangedSteady ==
  ASSUME TypeOK, UNCHANGED chan
  PROVE  \A c \in Chans : Steady(c)
BY DEF Steady

LEMMA LoopSteady ==
  ASSUME TypeOK, ChanInv, NEW c \in Chans,
         \/ \E t \in MoTrans : Request(c, t)
         \/ ReadPagingResponse(c) \/ ReadRequest(c) \/ NewCMServiceResponder(c)
         \/ ServiceMTC(c) \/ ServiceMTSMS(c) \/ StartSMSTran(c)
         \/ CloseIdle(c) \/ CloseTerminated(c) \/ CloseLost(c)
         \/ Identify(c) \/ \E t \in Trans : EndTran(c, t)
  PROVE  \A e \in Chans : Steady(e)
<1>1. CASE \/ NewCMServiceResponder(c) \/ ServiceMTC(c) \/ Identify(c)
  BY Zenon, <1>1, UnchangedSteady DEF NewCMServiceResponder, ServiceMTC, Identify
<1>2. CASE CloseIdle(c) \/ CloseTerminated(c) \/ CloseLost(c)
  <2>1. chan[c].loop = "open" /\ chan' = [chan EXCEPT ![c].loop = "closing"]
    BY <1>2 DEF CloseIdle, CloseTerminated, CloseLost, Serving
  <2>2. QED
    BY <2>1, ObjectTypes DEF L3Channels, TypeOK, Steady, Busy
<1>3. CASE (\E t \in MoTrans : Request(c, t)) \/ ReadPagingResponse(c) \/ ReadRequest(c)
  <2>1. PICK q : chan[c].loop = "open" /\ chan' = [chan EXCEPT ![c].inbox = q]
    BY <1>3 DEF Request, ReadPagingResponse, ReadRequest, Serving
  <2>2. QED
    BY <2>1, ObjectTypes DEF L3Channels, TypeOK, Steady, Busy
<1>4. CASE ServiceMTSMS(c) \/ StartSMSTran(c)
  <2>1. Busy(c)
    BY Zenon, <1>4 DEF ServiceMTSMS, StartSMSTran, Idle, Serving, Busy, ChanInv, LoopsOK
  <2>2. PICK t : chan' = [chan EXCEPT ![c].hand = t]
    BY Zenon, <1>4 DEF ServiceMTSMS, StartSMSTran
  <2>3. QED
    BY <2>1, <2>2, ObjectTypes DEF L3Channels, TypeOK, Steady
<1>5. ASSUME NEW t \in Trans, EndTran(c, t) PROVE \A e \in Chans : Steady(e)
  <2>1. \A e \in Chans : chan'[e] = chan[e] \/ chan'[e] = [chan[e] EXCEPT !.call = "none"]
    BY <1>5 DEF EndTran
  <2>2. QED
    BY <2>1, ObjectTypes DEF L3Channels, Steady
<1>6. QED
  BY <1>1, <1>2, <1>3, <1>4, <1>5

(* Every step keeps what the invariant says of the channels.                *)
LEMMA ChanStep ==
  ASSUME TypeOK, TypeOK', ChanInv, [Next]_vars
  PROVE  ChanInv'
<1>1. CASE \/ SipThread
           \/ \E i \in Imsis : mmGetPages(i) \/ PageTimerPasses(i) \/ mmTerminateByImsi(i)
           \/ \E x \in Contexts : Settle(x)
           \/ UNCHANGED vars
  <2>1. UNCHANGED chan
    BY Zenon, <1>1 DEF SipThread, mmMTRepage, Invite, Message, NewMT, mmGetPages, PageTimerPasses,
                mmTerminateByImsi, Settle, vars
  <2>2. QED
    BY <2>1, UnchangedSteady, SteadyChan
<1>2. CASE Handset
  BY <1>2, EstablishChan, EstablishTargetChan, LoopSteady, SteadyChan DEF Handset
<1>3. ASSUME NEW c \in Chans,
             \/ ServiceLoop(c) \/ CloseLost(c) \/ Identify(c)
             \/ \E t \in Trans : EndTran(c, t)
      PROVE  ChanInv'
  BY <1>3, LoopSteady, SteadyChan, CloseLoopChan DEF ServiceLoop
<1>4. ASSUME NEW c \in Chans,
             \/ \E d \in Chans : AllocNextTCH(c, d)
             \/ ReassignStart(c) \/ ReassignComplete(c) \/ ReassignFailure(c)
      PROVE  ChanInv'
  BY <1>4, AllocChan, StartChan, ReassignedChan
<1>5. QED
  BY <1>1, <1>2, <1>3, <1>4 DEF Next
-----------------------------------------------------------------------------
(* A context that holds something has a channel.                            *)
LEMMA HasChannel ==
  ASSUME ContextsOK, NEW x \in Contexts
  PROVE  /\ ctx[x].mmu # None => ChannelsOf(x) # {}
         /\ SlotsUsed(x) # {} => ChannelsOf(x) # {}
         /\ ctx[x].asked # <<>> => ChannelsOf(x) # {}
<1>1. NoContext.mmu = None /\ NoContext.asked = <<>> /\ \A s \in Slots : NoContext.slot[s] = None
  BY DEF NoContext, Empty
<1>2. QED
  BY <1>1 DEF ContextsOK, SlotsUsed

(* What is done to the channels only.                                      *)
LEMMA ChannelsMove ==
  ASSUME CtxInv, UNCHANGED <<user, ctx>>,
         \A c \in Chans : chan[c].ctx # None => chan'[c].ctx = chan[c].ctx,
         \A c \in Chans : \A x \in Contexts :
            chan'[c].ctx = x /\ Busy(c)' /\ ctx[x].mmu # None => chan'[c].who = ctx[x].mmu
  PROVE  CtxInv'
<1>1. PointersAgree'
  BY DEF CtxInv, PointersAgree, mmuIsEmpty
<1>2. \A x \in Contexts : ChannelsOf(x)' = {} => ChannelsOf(x) = {}
  BY NoneAssumption DEF ChannelsOf, None
<1>3. ContextsOK'
  BY <1>2 DEF CtxInv, ContextsOK, ChannelsOf
<1>4. QED
  BY <1>1, <1>3 DEF CtxInv

(* What is done to a context that has a channel, and to the queues.        *)
LEMMA ContentsMove ==
  ASSUME CtxInv,
         \A c \in Chans : Steady(c),
         \A x \in Contexts : /\ ctx'[x].mmu = ctx[x].mmu
                             /\ ChannelsOf(x) = {} => ctx'[x] = ctx[x],
         \A i \in Imsis : /\ user'[i].ctx = user[i].ctx
                          /\ user'[i].known /\ user'[i].ctx = None => ~mmuIsEmpty(user'[i])
  PROVE  CtxInv'
<1>1. PointersAgree'
  BY DEF CtxInv, PointersAgree, mmuIsEmpty
<1>2. \A x \in Contexts : ChannelsOf(x)' = ChannelsOf(x)
  BY DEF ChannelsOf, Steady
<1>3. \A c \in Chans : Busy(c)' = Busy(c) /\ chan'[c].who = chan[c].who
  BY DEF Steady, Busy
<1>4. ContextsOK'
  <2>1. ASSUME NEW x \in Contexts, ChannelsOf(x)' = {} PROVE ctx'[x] = NoContext
    BY <1>2, <2>1 DEF CtxInv, ContextsOK
  <2>2. ASSUME NEW x \in Contexts, ctx'[x].mmu # None, NEW c \in ChannelsOf(x)', Busy(c)'
        PROVE  chan'[c].who = ctx'[x].mmu
    <3>1. c \in Chans /\ c \in ChannelsOf(x) /\ Busy(c)
      BY <1>2, <1>3, <2>2 DEF ChannelsOf
    <3>2. QED
      BY <3>1, <2>2, <1>3 DEF CtxInv, ContextsOK
  <2>3. QED
    BY <2>1, <2>2 DEF ContextsOK
<1>5. QED
  BY <1>1, <1>4 DEF CtxInv

(* mmcLink keeps PointersAgree: whoever was attached to either context is   *)
(* attached no more.                                                        *)
LEMMA LinkCtx ==
  ASSUME TypeOK, ChanInv, CtxInv, NEW c \in Chans, Serving(c),
         mmcLink(chan[c].ctx, chan[c].who), \A e \in Chans : Steady(e)
  PROVE  CtxInv'
<1> DEFINE x == chan[c].ctx
           i == chan[c].who
           old == user[i].ctx
           moving == Moving(old, x)
           slot == [s \in Slots |-> IF s \in moving THEN ctx[old].slot[s] ELSE ctx[x].slot[s]]
<1>1. x \in Contexts /\ i \in Imsis /\ Busy(c)
  BY Serves DEF ChanInv, Serving, Busy
<1>2. CASE ctx[x].mmu = i
  <2>1. UNCHANGED <<user, ctx>>
    BY <1>2 DEF mmcLink
  <2>2. QED
    BY <2>1, ContentsMove DEF CtxInv, PointersAgree
<1>3. CASE ctx[x].mmu # i
  <2>1. ctx[x].mmu = None
    BY <1>1, <1>3 DEF CtxInv, ContextsOK, ChannelsOf
  <2>2. \A j \in Imsis : user[j].ctx # x
    BY <2>1, <1>1, NoneAssumption DEF CtxInv, PointersAgree, None
  <2>3. user'[i].ctx = x /\ \A j \in Imsis \ {i} : user'[j] = user[j]
    <3>1. user' = [j \in Imsis |->
                  IF j = i THEN [user[i] EXCEPT !.known = TRUE, !.ctx = x]
                  ELSE IF user[j].ctx = x THEN [user[j] EXCEPT !.ctx = None]
                  ELSE user[j]]
      BY Zenon, <1>3 DEF mmcLink
    <3>2. user[i] \in Users
      BY <1>1, ObjectTypes
    <3>3. [user[i] EXCEPT !.known = TRUE, !.ctx = x].ctx = x
      BY <3>2 DEF Users
    <3>4. QED
      BY <1>1, <2>2, <3>1, <3>3
  <2>4. /\ ctx'[x].mmu = i
        /\ \A y \in Contexts \ {x} : ctx'[y].mmu = IF y = old THEN None ELSE ctx[y].mmu
        /\ \A y \in Contexts \ {x, old} : ctx'[y] = ctx[y]
    <3>1. ctx' = [y \in Contexts |->
                  IF y = x THEN [ctx[x] EXCEPT !.mmu = i, !.slot = slot]
                  ELSE IF y = old THEN Unlinked(ctx[y], moving)
                  ELSE ctx[y]]
      BY Zenon, <1>3 DEF mmcLink
    <3>2. [ctx[x] EXCEPT !.mmu = i, !.slot = slot].mmu = i
      BY <1>1, ObjectTypes DEF MMContexts
    <3>3. \A y \in Contexts : Unlinked(ctx[y], moving).mmu = None
      BY ObjectTypes DEF MMContexts, Unlinked
    <3>4. QED
      BY Zenon, <1>1, <3>1, <3>2, <3>3
  <2>5. PointersAgree'
    <3> SUFFICES ASSUME NEW j \in Imsis
                 PROVE  /\ \A y \in Contexts : (user'[j].ctx = y) <=> (ctx'[y].mmu = j)
                        /\ user'[j].known /\ user'[j].ctx = None => ~mmuIsEmpty(user'[j])
      BY DEF PointersAgree, mmuIsEmpty
    <3>1. i # None /\ x # None /\ j # None
      BY <1>1, NoneAssumption DEF None
    <3>2. \A y \in Contexts : (user[j].ctx = y) <=> (ctx[y].mmu = j)
      BY DEF CtxInv, PointersAgree
    <3>3. CASE j = i
      BY <3>1, <3>2, <3>3, <2>3, <2>4
    <3>4. CASE j # i
      <4>1. user'[j] = user[j]
        BY <3>4, <2>3
      <4>2. \A y \in Contexts : (user'[j].ctx = y) <=> (ctx'[y].mmu = j)
        <5> SUFFICES ASSUME NEW y \in Contexts PROVE (user'[j].ctx = y) <=> (ctx'[y].mmu = j)
          OBVIOUS
        <5>1. CASE y = x
          BY <5>1, <4>1, <3>4, <2>2, <2>4
        <5>2. CASE y # x /\ y = old
          <6>1. ctx[y].mmu = i /\ ctx'[y].mmu = None
            BY <5>2, <1>1, <2>4 DEF CtxInv, PointersAgree
          <6>2. QED
            BY <6>1, <4>1, <3>1, <3>2, <3>4
        <5>3. CASE y # x /\ y # old
          BY <5>3, <4>1, <3>2, <2>4
        <5>4. QED
          BY <5>1, <5>2, <5>3
      <4>3. QED
        BY <4>1, <4>2 DEF CtxInv, PointersAgree
    <3>5. QED
      BY <3>3, <3>4
  <2>6. ContextsOK'
    <3>1. \A y \in Contexts : ChannelsOf(y)' = ChannelsOf(y)
      BY DEF ChannelsOf, Steady
    <3>2. \A e \in Chans : Busy(e)' = Busy(e) /\ chan'[e].who = chan[e].who
      BY DEF Steady, Busy
    <3>3. ASSUME NEW y \in Contexts, ChannelsOf(y)' = {} PROVE ctx'[y] = NoContext
      <4>1. ChannelsOf(y) = {}
        BY <3>1, <3>3
      <4>2. y # x
        BY <4>1 DEF ChannelsOf
      <4>3. y # old
        BY <4>1, <1>1, HasChannel, NoneAssumption DEF CtxInv, PointersAgree, None
      <4>4. QED
        BY <4>1, <4>2, <4>3, <2>4 DEF CtxInv, ContextsOK
    <3>4. ASSUME NEW y \in Contexts, ctx'[y].mmu # None, NEW e \in ChannelsOf(y)', Busy(e)'
          PROVE  chan'[e].who = ctx'[y].mmu
      <4>1. e \in Chans /\ chan[e].ctx = y /\ Busy(e)
        BY <3>1, <3>2, <3>4 DEF ChannelsOf
      <4>2. CASE y = x
        <5>1. chan[e].who = i
          BY <4>1, <4>2, <1>1, NoneAssumption DEF ChanInv, OneHandset, None
        <5>2. QED
          BY <5>1, <4>1, <4>2, <2>4, <3>2
      <4>3. CASE y # x
        <5>1. ctx'[y].mmu = ctx[y].mmu
          BY <4>3, <3>4, <2>4
        <5>2. QED
          BY <5>1, <4>1, <3>2, <3>4 DEF CtxInv, ContextsOK, ChannelsOf
      <4>4. QED
        BY <4>2, <4>3
    <3>5. QED
      BY <3>3, <3>4 DEF ContextsOK
  <2>7. QED
    BY <2>5, <2>6 DEF CtxInv
<1>4. QED
  BY <1>2, <1>3

(* The channels of a set let go of their contexts.                         *)
LEMMA FreeCtx ==
  ASSUME TypeOK, CtxInv, NEW leaving \in SUBSET Chans, chanFreeContext(leaving),
         \A c \in Chans : /\ chan'[c].ctx = IF c \in leaving THEN None ELSE chan[c].ctx
                          /\ c \notin leaving => chan'[c].who = chan[c].who /\ (Busy(c)' => Busy(c))
  PROVE  CtxInv'
<1> DEFINE freed == Freed(leaving)
<1>1. \A x \in Contexts : ctx'[x] = IF x \in freed THEN NoContext ELSE ctx[x]
  BY DEF chanFreeContext
<1>2. \A i \in Imsis : user'[i] = IF \E x \in freed : ctx[x].mmu = i THEN Detached(user[i]) ELSE user[i]
  BY DEF chanFreeContext
<1>3. NoContext.mmu = None
  BY DEF NoContext
<1>4. \A i \in Imsis : /\ Detached(user[i]).ctx = None
                       /\ Detached(user[i]).known => ~mmuIsEmpty(Detached(user[i]))
  BY ObjectTypes DEF Detached, NoUser, Users, mmuIsEmpty
<1>5. PointersAgree'
  <2> SUFFICES ASSUME NEW i \in Imsis
               PROVE  /\ \A x \in Contexts : (user'[i].ctx = x) <=> (ctx'[x].mmu = i)
                      /\ user'[i].known /\ user'[i].ctx = None => ~mmuIsEmpty(user'[i])
    BY DEF PointersAgree, mmuIsEmpty
  <2>1. \A x \in Contexts : x # None /\ ((user[i].ctx = x) <=> (ctx[x].mmu = i))
    BY NoneAssumption DEF CtxInv, PointersAgree, None
  <2>2. i # None /\ freed \subseteq Contexts
    BY NoneAssumption DEF None, Freed
  <2> HIDE DEF freed
  <2>3. CASE \E x \in freed : ctx[x].mmu = i
    BY <2>1, <2>2, <2>3, <1>1, <1>2, <1>3, <1>4
  <2>4. CASE ~ \E x \in freed : ctx[x].mmu = i
    BY <2>1, <2>2, <2>4, <1>1, <1>2, <1>3 DEF CtxInv, PointersAgree
  <2>5. QED
    BY <2>3, <2>4
<1>6. ContextsOK'
  <2>1. ASSUME NEW x \in Contexts PROVE ChannelsOf(x)' = ChannelsOf(x) \ leaving
    BY NoneAssumption DEF ChannelsOf, None
  <2>2. ASSUME NEW x \in Contexts, ChannelsOf(x)' = {} PROVE ctx'[x] = NoContext
    BY <2>1, <2>2, <1>1 DEF Freed, CtxInv, ContextsOK
  <2>3. ASSUME NEW x \in Contexts, ctx'[x].mmu # None, NEW c \in ChannelsOf(x)', Busy(c)'
        PROVE  chan'[c].who = ctx'[x].mmu
    <3>1. c \in ChannelsOf(x) /\ c \in Chans /\ c \notin leaving
      BY <2>1, <2>3 DEF ChannelsOf
    <3>2. ctx'[x] = ctx[x]
      BY <2>3, <1>1, <1>3
    <3>3. QED
      BY <2>3, <3>1, <3>2 DEF CtxInv, ContextsOK
  <2>4. QED
    BY <2>2, <2>3 DEF ContextsOK
<1>7. QED
  BY <1>5, <1>6 DEF CtxInv

(* mmConnectTran does not attach anybody.                                   *)
LEMMA SlotKeepsMmu ==
  ASSUME TypeOK, NEW x \in Contexts, NEW s \in Slots, NEW t, Connect(x, s, t)
  PROVE  /\ \A y \in Contexts : ctx'[y].mmu = ctx[y].mmu
         /\ \A y \in Contexts \ {x} : ctx'[y] = ctx[y]
<1>1. ctx' = [ctx EXCEPT ![x] = [ctx[x] EXCEPT !.slot[s] = t]]
  BY DEF Connect, TypeOK
<1>2. [ctx[x] EXCEPT !.slot[s] = t].mmu = ctx[x].mmu
  BY ObjectTypes DEF MMContexts
<1>3. QED
  BY <1>1, <1>2 DEF TypeOK

(* The SIP interface and the paging loop.                                   *)
LEMMA NetworkCtx ==
  ASSUME TypeOK, TypeOK', ChanInv, CtxInv, NEW i \in Imsis,
         \/ mmMTRepage(i) \/ \E t \in MtTrans : Invite(t, i) \/ Message(t, i)
         \/ mmGetPages(i) \/ PageTimerPasses(i) \/ mmTerminateByImsi(i)
  PROVE  CtxInv'
<1>1. UNCHANGED chan
  BY DEF mmMTRepage, Invite, Message, NewMT, mmGetPages, PageTimerPasses, mmTerminateByImsi
<1>2. \A c \in Chans : Steady(c)
  BY <1>1, UnchangedSteady
<1>3. user[i] \in Users
  BY ObjectTypes
<1>4. \A j \in Imsis : user[j].known /\ user[j].ctx = None => ~mmuIsEmpty(user[j])
  BY DEF CtxInv, PointersAgree
<1>5. \A x \in Contexts : /\ ctx'[x].mmu = ctx[x].mmu
                          /\ ChannelsOf(x) = {} => ctx'[x] = ctx[x]
  <2>1. CASE UNCHANGED ctx
    BY <2>1
  <2>2. CASE mmTerminateByImsi(i) /\ user[i].ctx # None
    <3>1. user[i].ctx \in Contexts
      BY <2>2, <1>3 DEF Users
    <3>2. ChannelsOf(user[i].ctx) # {} /\ ctx' = [ctx EXCEPT ![user[i].ctx].terminate = TRUE]
      BY <2>2 DEF mmTerminateByImsi
    <3>3. QED
      BY <3>1, <3>2, ObjectTypes DEF TypeOK, MMContexts
  <2>3. QED
    BY <2>1, <2>2 DEF mmMTRepage, Invite, Message, NewMT, mmGetPages, PageTimerPasses, mmTerminateByImsi
<1>6. \A j \in Imsis : /\ user'[j].ctx = user[j].ctx
                       /\ user'[j].known /\ user'[j].ctx = None => ~mmuIsEmpty(user'[j])
  <2>1. CASE mmMTRepage(i) \/ PageTimerPasses(i)
    <3>1. PICK b : user' = [user EXCEPT ![i].late = b]
      BY <2>1 DEF mmMTRepage, PageTimerPasses
    <3>2. user'[i].ctx = user[i].ctx /\ user'[i].known = user[i].known
          /\ user'[i].mtcq = user[i].mtcq /\ user'[i].smsq = user[i].smsq
      BY <3>1, <1>3 DEF Users, TypeOK
    <3>3. \A j \in Imsis \ {i} : user'[j] = user[j]
      BY <3>1 DEF TypeOK
    <3>4. QED
      BY <3>2, <3>3, <1>4 DEF mmuIsEmpty
  <2>2. ASSUME NEW t \in MtTrans, Invite(t, i) \/ Message(t, i)
        PROVE  \A j \in Imsis : /\ user'[j].ctx = user[j].ctx
                                /\ user'[j].known /\ user'[j].ctx = None => ~mmuIsEmpty(user'[j])
    <3>1. user'[i].ctx = user[i].ctx
          /\ (user'[i].mtcq = Append(user[i].mtcq, t) \/ user'[i].smsq = Append(user[i].smsq, t))
      <4>1. CASE Invite(t, i)
        <5>1. user'[i] = [user[i] EXCEPT !.known = TRUE, !.mtcq = Append(@, t), !.late = FALSE]
          BY <4>1 DEF Invite, TypeOK
        <5>2. QED
          BY <5>1, <1>3 DEF Users
      <4>2. CASE Message(t, i)
        <5>1. user'[i] = [user[i] EXCEPT !.known = TRUE, !.smsq = Append(@, t), !.late = FALSE]
          BY <4>2 DEF Message, TypeOK
        <5>2. QED
          BY <5>1, <1>3 DEF Users
      <4>3. QED
        BY <2>2, <4>1, <4>2
    <3>2. ~mmuIsEmpty(user'[i])
      <4>1. /\ user[i].mtcq \in Seq(Mtcs) /\ user[i].smsq \in Seq(MtSmss)
        BY <1>3 DEF Users
      <4>2. Append(user[i].mtcq, t) # <<>> /\ Append(user[i].smsq, t) # <<>>
        BY <4>1
      <4>3. QED
        BY <3>1, <4>2 DEF mmuIsEmpty
    <3>3. \A j \in Imsis \ {i} : user'[j] = user[j]
      BY <2>2 DEF Invite, Message, TypeOK
    <3>4. QED
      BY <3>1, <3>2, <3>3, <1>4
  <2>3. CASE UNCHANGED user
    BY <2>3, <1>4 DEF mmuIsEmpty
  <2>4. CASE user[i].ctx = None /\ mmuFree(i)
    <3>1. user'[i] = NoUser /\ \A j \in Imsis \ {i} : user'[j] = user[j]
      BY <2>4 DEF mmuFree, TypeOK
    <3>2. QED
      BY <2>4, <3>1, <1>4 DEF NoUser
  <2>5. QED
    BY <2>1, <2>2, <2>3, <2>4 DEF mmGetPages, mmTerminateByImsi
<1>7. QED
  BY <1>2, <1>5, <1>6, ContentsMove

(* The service loops, while their channels stay what they are.              *)
LEMMA LoopCtx ==
  ASSUME TypeOK, TypeOK', ChanInv, CtxInv, Hands, NEW c \in Chans,
         \/ \E t \in MoTrans : Request(c, t)
         \/ ReadRequest(c) \/ NewCMServiceResponder(c)
         \/ ServiceMTC(c) \/ ServiceMTSMS(c) \/ StartSMSTran(c)
         \/ CloseIdle(c) \/ CloseTerminated(c) \/ CloseLost(c)
         \/ \E t \in Trans : EndTran(c, t)
  PROVE  CtxInv'
<1> DEFINE x == chan[c].ctx
<1>1. \A e \in Chans : Steady(e)
  BY LoopSteady
<1>2. \A y \in Contexts : /\ ctx'[y].mmu = ctx[y].mmu
                          /\ ChannelsOf(y) = {} => ctx'[y] = ctx[y]
  <2>1. ChannelsOf(x) # {}
    BY DEF ChannelsOf
  <2>2. Serving(c) => x \in Contexts /\ ctx[x] \in MMContexts
    BY Serves DEF ChanInv
  <2> HIDE DEF x
  <2>3. CASE UNCHANGED ctx
    BY <2>3
  <2>4. CASE Serving(c) /\ ctx' = [ctx EXCEPT ![x] = ctx'[x]] /\ ctx'[x].mmu = ctx[x].mmu
    BY <2>1, <2>2, <2>4 DEF TypeOK
  <2>5. CASE CloseTerminated(c)
    <3>1. Serving(c) /\ ctx' = [ctx EXCEPT ![x].terminate = FALSE]
      BY <2>5 DEF CloseTerminated, x
    <3>2. QED
      BY <3>1, <2>2, <2>4 DEF TypeOK, MMContexts
  <2>6. ASSUME NEW t \in Trans, EndTran(c, t)
        PROVE  \A y \in Contexts : /\ ctx'[y].mmu = ctx[y].mmu
                                   /\ ChannelsOf(y) = {} => ctx'[y] = ctx[y]
    <3>1. Serving(c) /\ ctx' = [ctx EXCEPT ![x].slot = Disconnected(@, t)]
      BY <2>6 DEF EndTran, x
    <3>2. QED
      BY <3>1, <2>2, <2>4 DEF TypeOK, MMContexts
  <2>7. CASE ServiceMTC(c)
    <3>1. Serving(c) /\ Connect(x, "TE_CS1", Head(user[ctx[x].mmu].mtcq))
      BY Zenon, <2>7 DEF ServiceMTC, Idle, x
    <3>2. QED
      BY <3>1, <2>1, <2>2, SlotKeepsMmu DEF Slots
  <2>8. CASE StartSMSTran(c)
    <3> DEFINE t == chan[c].hand
               z == user[tran[t].imsi].ctx
    <3>1. t \in MtSmss
      BY <2>8, ObjectTypes DEF L3Channels, StartSMSTran
    <3>2. tran[t].imsi \in Imsis
      BY <2>8, <3>1, ObjectTypes DEF Hands, StartSMSTran, TranEntries, Trans, MtTrans
    <3>3. z \in Contexts
      BY <2>8, <3>2, ObjectTypes DEF StartSMSTran, Users
    <3>4. ChannelsOf(z) # {}
      BY <3>2, <3>3, HasChannel, NoneAssumption DEF CtxInv, PointersAgree, None
    <3>5. Connect(z, "TE_MTSMS", t)
      BY <2>8 DEF StartSMSTran
    <3> HIDE DEF z, t
    <3>6. QED
      BY <3>3, <3>4, <3>5, SlotKeepsMmu DEF Slots
  <2>9. CASE ReadRequest(c)
    <3> DEFINE t == Head(chan[c].inbox)
    <3>1. Serving(c)
      BY <2>9 DEF ReadRequest
    <3>2. CASE Connect(x, "TE_MM", t)
      BY <3>1, <3>2, <2>1, <2>2, SlotKeepsMmu DEF Slots
    <3>3. CASE ctx' = [ctx EXCEPT ![x].asked = Append(@, t)]
      BY <3>1, <3>3, <2>2, <2>4 DEF TypeOK, MMContexts
    <3>4. QED
      BY <2>9, <3>2, <3>3 DEF ReadRequest, x
  <2>10. CASE NewCMServiceResponder(c)
    <3> DEFINE t == Head(ctx[x].asked)
               k == [ctx[x] EXCEPT !.asked = Tail(@)]
    <3>1. Serving(c)
      BY Zenon, <2>10 DEF NewCMServiceResponder, Idle
    <3>2. k.mmu = ctx[x].mmu /\ DOMAIN k = {"mmu", "slot", "asked", "settled", "terminate"}
      BY <3>1, <2>2 DEF MMContexts
    <3> HIDE DEF k
    <3>3. PICK f : ctx' = [ctx EXCEPT ![x] = [k EXCEPT !.slot = f]] \/ ctx' = [ctx EXCEPT ![x] = k]
      <4>1. CASE ctx' = [ctx EXCEPT ![x] = [k EXCEPT !.slot["TE_CS1"] = t]]
        BY Zenon, <4>1
      <4>2. CASE StartMoSms(x, t, k)
        BY Zenon, <4>2 DEF StartMoSms
      <4>3. QED
        BY Zenon, <2>10, <4>1, <4>2 DEF NewCMServiceResponder, x, k
    <3>4. [k EXCEPT !.slot = f].mmu = k.mmu
      BY <3>2
    <3>5. QED
      BY <3>1, <3>2, <3>3, <3>4, <2>2, <2>4 DEF TypeOK
  <2>11. QED
    BY Zenon, <2>3, <2>5, <2>6, <2>7, <2>8, <2>9, <2>10
       DEF Request, ServiceMTSMS, CloseIdle, CloseLost
<1>3. \A i \in Imsis : /\ user'[i].ctx = user[i].ctx
                       /\ user'[i].known /\ user'[i].ctx = None => ~mmuIsEmpty(user'[i])
  <2>1. \A i \in Imsis : user[i].known /\ user[i].ctx = None => ~mmuIsEmpty(user[i])
    BY DEF CtxInv, PointersAgree
  <2>2. CASE UNCHANGED user
    BY <2>1, <2>2 DEF mmuIsEmpty
  <2>3. CASE ServiceMTC(c) \/ ServiceMTSMS(c)
    <3> DEFINE i == ctx[x].mmu
    <3>1. x \in Contexts /\ i \in Imsis
      BY Zenon, <2>3, Serves, ObjectTypes DEF ServiceMTC, ServiceMTSMS, Idle, ChanInv, MMContexts
    <3>2. user[i].ctx = x /\ x # None /\ user[i] \in Users
      BY <3>1, ObjectTypes, NoneAssumption DEF CtxInv, PointersAgree, None
    <3>3. PICK q : user' = [user EXCEPT ![i].mtcq = q] \/ user' = [user EXCEPT ![i].smsq = q]
      BY Zenon, <2>3 DEF ServiceMTC, ServiceMTSMS
    <3> HIDE DEF i, x
    <3>4. user'[i].ctx = user[i].ctx /\ \A j \in Imsis \ {i} : user'[j] = user[j]
      BY <3>1, <3>2, <3>3 DEF Users, TypeOK
    <3>5. QED
      BY <3>1, <3>2, <3>4, <2>1
  <2>4. QED
    BY Zenon, <2>2, <2>3 DEF Request, ReadRequest, NewCMServiceResponder, StartSMSTran,
                      CloseIdle, CloseTerminated, CloseLost, EndTran
<1>4. QED
  BY <1>1, <1>2, <1>3, ContentsMove

(* A channel gets a context.                                                *)
LEMMA ArrivalCtx ==
  ASSUME TypeOK, TypeOK', ChanInv, CtxInv, NEW c \in Chans,
         \/ \E i \in Imsis, msg \in Messages : Establish(c, i, msg)
         \/ EstablishTarget(c) \/ \E d \in Chans : AllocNextTCH(c, d)
         \/ ReassignStart(c) \/ ReassignComplete(c)
  PROVE  CtxInv'
<1>0. UNCHANGED <<user, ctx>>
  BY Zenon DEF Establish, EstablishTarget, AllocNextTCH, ReassignStart, ReassignComplete
<1>1. CASE \E i \in Imsis, msg \in Messages : Establish(c, i, msg)
  <2>0. PICK i \in Imsis, msg \in Messages : Establish(c, i, msg)
    BY <1>1
  <2>1. PICK x \in Contexts :
            /\ ChannelsOf(x) = {} /\ chan[c].ctx = None
            /\ chan' = [chan EXCEPT ![c] = [chan[c] EXCEPT
                 !.loop = "open", !.ctx = x, !.who = i, !.inbox = <<msg>>]]
    BY <2>0 DEF Establish, Free
  <2>2. chan'[c].ctx = x /\ \A e \in Chans \ {c} : chan'[e] = chan[e]
    BY <2>1, ObjectTypes DEF L3Channels, TypeOK
  <2>3. ctx[x].mmu = None
    BY <2>1, HasChannel DEF CtxInv
  <2>4. QED
    BY <1>0, <2>1, <2>2, <2>3, ChannelsMove DEF CtxInv, ContextsOK, ChannelsOf, Busy
<1>2. CASE EstablishTarget(c)
  <2>1. PICK d \in Chans : chan[c].next = d /\ c # d
    BY <1>2, OpenLoop, ChannelAssumption DEF EstablishTarget, Chans, ChanInv
  <2>2. PICK x \in Contexts :
            /\ IF chan[d].ctx = None THEN ChannelsOf(x) = {} ELSE x = chan[d].ctx
            /\ chan' = [chan EXCEPT ![d].loop = "open", ![d].who = chan[c].who, ![d].ctx = x]
    BY <1>2, <2>1 DEF EstablishTarget
  <2>3. /\ chan'[d].ctx = x /\ chan'[d].who = chan[c].who
        /\ \A e \in Chans \ {d} : chan'[e] = chan[e]
    BY <2>2, ObjectTypes DEF L3Channels, TypeOK
  <2>4. ctx[x].mmu # None => chan[c].who = ctx[x].mmu
    <3>1. CASE chan[d].ctx = None
      BY <3>1, <2>2, HasChannel DEF CtxInv
    <3>2. CASE chan[d].ctx # None
      <4>1. x = chan[d].ctx /\ chan[d].loop = "target" /\ chan[c].call = "assigning"
        BY <1>2, <2>1, <2>2, <3>2 DEF EstablishTarget
      <4>2. chan[c].ctx = x /\ Busy(c)
        BY <2>1, <3>2, <4>1, OpenLoop DEF ChanInv, ReservedOK
      <4>3. QED
        BY <4>2 DEF CtxInv, ContextsOK, ChannelsOf
    <3>3. QED
      BY <3>1, <3>2
  <2>5. chan[d].ctx # None => chan'[d].ctx = chan[d].ctx
    BY <2>2, <2>3
  <2>6. QED
    BY <1>0, <2>3, <2>4, <2>5, ChannelsMove DEF CtxInv, ContextsOK, ChannelsOf, Busy
<1>3. ASSUME NEW d \in Chans, AllocNextTCH(c, d) PROVE CtxInv'
  <2>1. chan' = [chan EXCEPT ![c].next = d, ![c].call = "allocated"]
    BY <1>3 DEF AllocNextTCH
  <2>2. \A e \in Chans : chan'[e].ctx = chan[e].ctx /\ chan'[e].who = chan[e].who /\ chan'[e].loop = chan[e].loop
    BY <2>1, ObjectTypes DEF L3Channels, TypeOK
  <2>3. QED
    BY <1>0, <2>2, ChannelsMove DEF CtxInv, ContextsOK, ChannelsOf, Busy
<1>4. CASE ReassignStart(c)
  <2>1. PICK d \in Chans : chan[c].next = d /\ c # d /\ chan[d].ctx = None
    BY <1>4, OpenLoop, ChannelAssumption DEF ReassignStart, Chans, ChanInv, ReservedOK
  <2>2. chan' = [chan EXCEPT ![c].call = "assigning", ![d].loop = "target", ![d].ctx = chan[c].ctx]
    BY <1>4, <2>1 DEF ReassignStart
  <2>5. /\ chan'[c] = [chan[c] EXCEPT !.call = "assigning"]
        /\ chan'[d] = [chan[d] EXCEPT !.loop = "target", !.ctx = chan[c].ctx]
        /\ \A e \in Chans \ {c, d} : chan'[e] = chan[e]
    BY <2>1, <2>2 DEF TypeOK
  <2>3. /\ chan'[d].loop = "target"
        /\ \A e \in Chans \ {d} : chan'[e].ctx = chan[e].ctx /\ chan'[e].who = chan[e].who
                                  /\ chan'[e].loop = chan[e].loop
    BY <2>5, ObjectTypes DEF L3Channels
  <2>4. QED
    BY <1>0, <2>1, <2>3, ChannelsMove DEF CtxInv, ContextsOK, ChannelsOf, Busy
<1>5. CASE ReassignComplete(c)
  <2>1. chan' = [chan EXCEPT ![c].next = None, ![c].call = "none", ![c].loop = "closing"]
    BY <1>5 DEF ReassignComplete
  <2>2. Busy(c)
    BY <1>5, OpenLoop DEF ReassignComplete, ChanInv
  <2>3. \A e \in Chans : /\ chan'[e].ctx = chan[e].ctx /\ chan'[e].who = chan[e].who
                         /\ e # c => chan'[e].loop = chan[e].loop
    BY <2>1, ObjectTypes DEF L3Channels, TypeOK
  <2>4. QED
    BY <1>0, <2>2, <2>3, ChannelsMove DEF CtxInv, ContextsOK, ChannelsOf, Busy
<1>6. QED
  BY <1>1, <1>2, <1>3, <1>4, <1>5

(* Channels let go of their contexts.                                       *)
LEMMA LeavingCtx ==
  ASSUME TypeOK, ChanInv, CtxInv, NEW c \in Chans, CloseLoop(c) \/ ReassignFailure(c)
  PROVE  CtxInv'
<1>1. CASE CloseLoop(c)
  <2>0. Leaving(c) \subseteq Chans /\ c \in Leaving(c)
    BY ObjectTypes DEF Leaving, L3Channels, Chans
  <2>1. PICK gone \in SUBSET Chans : gone = Leaving(c) /\ c \in gone
    BY <2>0
  <2>2. chanFreeContext(gone)
    BY <1>1, <2>1 DEF CloseLoop
  <2>3. chan'[c].ctx = None
    BY <1>1 DEF CloseLoop, NoChannel
  <2>4. \A e \in Chans \ {c} : /\ chan'[e].ctx = IF e \in gone THEN None ELSE chan[e].ctx
                               /\ e \notin gone => chan'[e] = chan[e]
    BY <1>1, <2>1, ObjectTypes DEF CloseLoop, L3Channels
  <2>5. QED
    BY <2>1, <2>2, <2>3, <2>4, FreeCtx DEF Busy
<1>2. CASE ReassignFailure(c)
  <2>1. PICK d \in Chans : chan[c].next = d /\ c # d /\ Busy(c)
    BY <1>2, OpenLoop, ChannelAssumption DEF ReassignFailure, Chans, ChanInv
  <2>2. chanFreeContext({d})
    BY <1>2, <2>1 DEF ReassignFailure
  <2>3. chan' = [chan EXCEPT ![c].next = None, ![c].call = "none", ![c].loop = "closing",
                             ![d].ctx = None, ![d].loop = IF @ = "open" THEN "closing" ELSE @]
    BY <1>2, <2>1 DEF ReassignFailure
  <2> DEFINE l == IF chan[d].loop = "open" THEN "closing" ELSE chan[d].loop
  <2>4. /\ chan'[c] = [chan[c] EXCEPT !.next = None, !.call = "none", !.loop = "closing"]
        /\ chan'[d] = [chan[d] EXCEPT !.ctx = None, !.loop = l]
        /\ \A e \in Chans \ {c, d} : chan'[e] = chan[e]
    BY <2>1, <2>3 DEF TypeOK
  <2> HIDE DEF l
  <2>5. /\ chan'[d].ctx = None /\ chan'[c].ctx = chan[c].ctx /\ chan'[c].who = chan[c].who
        /\ \A e \in Chans \ {c, d} : chan'[e] = chan[e]
    BY <2>1, <2>4, ObjectTypes DEF L3Channels
  <2>6. QED
    BY <2>1, <2>2, <2>5, FreeCtx DEF Busy
<1>3. QED
  BY <1>1, <1>2

(* Every step keeps ContextsOK and PointersAgree.                           *)
LEMMA CtxStep ==
  ASSUME TypeOK, TypeOK', ChanInv, CtxInv, Hands, [Next]_vars
  PROVE  CtxInv'
<1>1. CASE SipThread \/ \E i \in Imsis : mmGetPages(i) \/ PageTimerPasses(i) \/ mmTerminateByImsi(i)
  BY <1>1, NetworkCtx DEF SipThread
<1>2. CASE Handset
  BY <1>2, ArrivalCtx, LoopCtx DEF Handset
<1>3. CASE UNCHANGED vars
  <2>1. \A i \in Imsis : user[i].known /\ user[i].ctx = None => ~mmuIsEmpty(user[i])
    BY DEF CtxInv, PointersAgree
  <2>2. QED
    BY <1>3, <2>1, UnchangedSteady, ContentsMove DEF vars
<1>4. ASSUME NEW x \in Contexts, Settle(x) PROVE CtxInv'
  <2>1. ChannelsOf(x) # {} /\ ctx' = [ctx EXCEPT ![x].settled = TRUE] /\ UNCHANGED <<user, chan>>
    BY <1>4 DEF Settle
  <2>2. /\ \A y \in Contexts : ctx'[y].mmu = ctx[y].mmu
        /\ \A y \in Contexts \ {x} : ctx'[y] = ctx[y]
    BY <2>1, ObjectTypes DEF TypeOK, MMContexts
  <2>3. \A i \in Imsis : user[i].known /\ user[i].ctx = None => ~mmuIsEmpty(user[i])
    BY DEF CtxInv, PointersAgree
  <2>4. QED
    BY <2>1, <2>2, <2>3, UnchangedSteady, ContentsMove
<1>5. ASSUME NEW c \in Chans, ReadPagingResponse(c) \/ Identify(c) PROVE CtxInv'
  <2>1. Serving(c) /\ \A e \in Chans : Steady(e)
    BY <1>5, LoopSteady DEF ReadPagingResponse, Identify
  <2>2. CASE mmcLink(chan[c].ctx, chan[c].who)
    BY <2>1, <2>2, LinkCtx
  <2>3. CASE UNCHANGED <<user, ctx>>
    BY <2>1, <2>3, ContentsMove DEF CtxInv, PointersAgree
  <2>4. QED
    BY <1>5, <2>2, <2>3 DEF ReadPagingResponse, Identify
<1>6. ASSUME NEW c \in Chans, ServiceLoop(c) \/ CloseLost(c) \/ \E t \in Trans : EndTran(c, t)
      PROVE  CtxInv'
  BY <1>5, <1>6, LoopCtx, LeavingCtx DEF ServiceLoop
<1>7. ASSUME NEW c \in Chans,
             \/ \E d \in Chans : AllocNextTCH(c, d)
             \/ ReassignStart(c) \/ ReassignComplete(c) \/ ReassignFailure(c)
      PROVE  CtxInv'
  BY <1>7, ArrivalCtx, LeavingCtx
<1>8. QED
  BY <1>1, <1>2, <1>3, <1>4, <1>5, <1>6, <1>7 DEF Next
-----------------------------------------------------------------------------
(* Sequences in which nothing stands twice.                                *)
LEMMA EmptySeq == Range(<<>>) = {} /\ IsInjective(<<>>)
BY DEF Range, IsInjective

(* One element; one more; one less.                                         *)
LEMMA SingleSeq ==
  ASSUME NEW m PROVE Range(<<m>>) = {m} /\ IsInjective(<<m>>)
BY DEF Range, IsInjective

LEMMA AppendSeq ==
  ASSUME NEW S, NEW q \in Seq(S), NEW t \in S, IsInjective(q), t \notin Range(q)
  PROVE  IsInjective(Append(q, t)) /\ Range(Append(q, t)) = Range(q) \cup {t}
<1> DEFINE p == Append(q, t)
           n == Len(q)
<1>1. n \in Nat /\ DOMAIN q = 1 .. n /\ DOMAIN p = 1 .. (n + 1) /\ p[n + 1] = t
  OBVIOUS
<1>2. \A m \in 1 .. n : p[m] = q[m]
  OBVIOUS
<1> HIDE DEF p, n
<1>3. IsInjective(p)
  BY <1>1, <1>2 DEF IsInjective, Range
<1>4. Range(p) = Range(q) \cup {t}
  <2>1. \A m \in 1 .. (n + 1) : m \in 1 .. n \/ m = n + 1
    BY <1>1
  <2>2. 1 .. n \subseteq 1 .. (n + 1) /\ n + 1 \in 1 .. (n + 1)
    BY <1>1
  <2>3. QED
    BY <1>1, <1>2, <2>1, <2>2 DEF Range
<1>5. QED
  BY <1>3, <1>4 DEF p

LEMMA TailSeq ==
  ASSUME NEW S, NEW q \in Seq(S), q # <<>>, IsInjective(q)
  PROVE  /\ IsInjective(Tail(q)) /\ Range(Tail(q)) = Range(q) \ {Head(q)}
         /\ Head(q) \in Range(q)
<1> DEFINE p == Tail(q)
           n == Len(q)
<1>1. n \in Nat /\ n > 0 /\ DOMAIN q = 1 .. n /\ DOMAIN p = 1 .. (n - 1) /\ Head(q) = q[1]
  OBVIOUS
<1>2. \A m \in 1 .. (n - 1) : p[m] = q[m + 1] /\ m + 1 \in 1 .. n /\ m + 1 # 1
  OBVIOUS
<1>3. \A m \in 2 .. n : m - 1 \in 1 .. (n - 1) /\ p[m - 1] = q[m]
  BY <1>1, <1>2
<1> HIDE DEF p, n
<1>4. 1 \in 1 .. n /\ \A m \in 1 .. n : m = 1 \/ m \in 2 .. n
  BY <1>1
<1>5. IsInjective(p)
  <2> SUFFICES ASSUME NEW a \in 1 .. (n - 1), NEW b \in 1 .. (n - 1), p[a] = p[b] PROVE a = b
    BY <1>1 DEF IsInjective
  <2>1. q[a + 1] = q[b + 1] /\ a + 1 \in DOMAIN q /\ b + 1 \in DOMAIN q
    BY <1>1, <1>2
  <2>2. a + 1 = b + 1
    BY <2>1 DEF IsInjective
  <2>3. QED
    BY <2>2, <1>1
<1>6. Range(p) \subseteq Range(q) \ {Head(q)}
  <2> SUFFICES ASSUME NEW a \in 1 .. (n - 1) PROVE p[a] \in Range(q) /\ p[a] # Head(q)
    BY <1>1 DEF Range
  <2>1. p[a] = q[a + 1] /\ a + 1 \in DOMAIN q /\ a + 1 # 1 /\ 1 \in DOMAIN q
    BY <1>1, <1>2, <1>4
  <2>2. QED
    BY <2>1, <1>1 DEF Range, IsInjective
<1>7. Range(q) \ {Head(q)} \subseteq Range(p)
  BY SMTT(20), <1>1, <1>3, <1>4 DEF Range
<1>8. Head(q) \in Range(q)
  BY <1>1, <1>4 DEF Range
<1>9. QED
  BY <1>5, <1>6, <1>7, <1>8 DEF p

(* What a sequence holds is of its type.                                    *)
LEMMA RangeType == ASSUME NEW S, NEW q \in Seq(S) PROVE Range(q) \subseteq S
BY DEF Range

(* What is queued, and what is asked for, are transactions.                 *)
LEMMA QueuedRange ==
  ASSUME TypeOK, NEW i \in Imsis
  PROVE  /\ Queued(user[i]) = Range(user[i].mtcq) \cup Range(user[i].smsq)
         /\ Queued(user[i]) \subseteq MtTrans /\ Queued(user[i]) \subseteq Trans
<1>1. Queued(user[i]) = Range(user[i].mtcq) \cup Range(user[i].smsq)
  BY DEF Queued, Range
<1>2. user[i].mtcq \in Seq(Mtcs) /\ user[i].smsq \in Seq(MtSmss)
  BY ObjectTypes DEF Users
<1>3. QED
  BY <1>1, <1>2, RangeType DEF MtTrans, Trans

LEMMA RequestTypes ==
  ASSUME TypeOK
  PROVE  /\ \A c \in Chans : Inbox(c) \subseteq MoTrans /\ Inbox(c) \subseteq Trans
         /\ \A x \in Contexts : Asked(x) \subseteq Mocs \cup MoSmss /\ Asked(x) \subseteq Trans
<1>1. ASSUME NEW c \in Chans PROVE Inbox(c) \subseteq MoTrans
  <2>1. chan[c].inbox \in Seq(Messages)
    BY ObjectTypes DEF L3Channels
  <2>2. QED
    BY <2>1, RangeType DEF Inbox, Messages
<1>2. ASSUME NEW x \in Contexts PROVE Asked(x) \subseteq Mocs \cup MoSmss
  <2>1. ctx[x].asked \in Seq(Mocs \cup MoSmss)
    BY ObjectTypes DEF MMContexts
  <2>2. QED
    BY <2>1, RangeType DEF Asked
<1>3. QED
  BY <1>1, <1>2 DEF Trans, MoTrans
-----------------------------------------------------------------------------
(* What of the invariant a step leaves alone.                              *)
LEMMA SameQueues ==
  ASSUME TypeOK, Queues,
         \A i \in Imsis : user'[i].mtcq = user[i].mtcq /\ user'[i].smsq = user[i].smsq,
         \A t \in Trans : /\ tran[t].state = "queued" => tran'[t].state = "queued" /\ tran'[t].imsi = tran[t].imsi
                          /\ tran'[t].state = "queued" => tran[t].state = "queued"
  PROVE  Queues'
<1>1. \A i \in Imsis : Queued(user'[i]) = Queued(user[i]) /\ Queued(user[i]) \subseteq Trans
  BY QueuedRange DEF Queued
<1>2. QED
  BY <1>1 DEF Queues

LEMMA SameHands ==
  ASSUME TypeOK, Hands,
         \A c \in Chans : chan'[c].hand = chan[c].hand,
         \A t \in Trans : /\ tran[t].state = "hand" => tran'[t].state = "hand" /\ tran'[t].imsi = tran[t].imsi
                          /\ tran'[t].state = "hand" => tran[t].state = "hand"
  PROVE  Hands'
<1>1. \A c \in Chans : chan[c].hand # None => chan[c].hand \in Trans
  BY ObjectTypes DEF L3Channels, Trans, MtTrans
<1>2. QED
  BY <1>1 DEF Hands

LEMMA SameRequests ==
  ASSUME TypeOK, Requests,
         \A c \in Chans : chan'[c].inbox \in {chan[c].inbox, <<>>},
         \A x \in Contexts : ctx'[x].asked \in {ctx[x].asked, <<>>},
         \A t \in Trans : tran[t].state = "asked" => tran'[t].state = "asked"
  PROVE  Requests'
<1>1. \A c \in Chans : Inbox(c)' \subseteq Inbox(c) /\ IsInjective(chan'[c].inbox)
  BY EmptySeq DEF Requests, Inbox
<1>2. \A x \in Contexts : Asked(x)' \subseteq Asked(x) /\ IsInjective(ctx'[x].asked)
  BY EmptySeq DEF Requests, Asked
<1>3. /\ \A c \in Chans : Inbox(c) \subseteq Trans
      /\ \A x \in Contexts : Asked(x) \subseteq Trans
  BY RequestTypes
<1>4. ASSUME NEW c \in Chans
      PROVE  /\ \A t \in Inbox(c)' : tran'[t].state = "asked"
             /\ \A e \in Chans \ {c} : Inbox(c)' \cap Inbox(e)' = {}
             /\ \A x \in Contexts : Inbox(c)' \cap Asked(x)' = {}
  <2>1. \A t \in Inbox(c) : tran[t].state = "asked"
    BY DEF Requests
  <2>2. \A e \in Chans \ {c} : Inbox(c) \cap Inbox(e) = {}
    BY DEF Requests
  <2>3. \A x \in Contexts : Inbox(c) \cap Asked(x) = {}
    BY DEF Requests
  <2>4. QED
    BY <1>1, <1>2, <1>3, <2>1, <2>2, <2>3
<1>5. ASSUME NEW x \in Contexts
      PROVE  /\ \A t \in Asked(x)' : tran'[t].state = "asked"
             /\ \A y \in Contexts \ {x} : Asked(x)' \cap Asked(y)' = {}
  BY <1>2, <1>3 DEF Requests
<1>6. QED
  BY <1>1, <1>2, <1>4, <1>5 DEF Requests

LEMMA SameRunning ==
  ASSUME TypeOK, Running,
         \A x \in Contexts : ctx'[x].slot = ctx[x].slot,
         \A t \in Trans : /\ tran[t].state = "running" => tran'[t].state = "running" /\ tran'[t].ctx = tran[t].ctx
                          /\ tran'[t].state = "running" => tran[t].state = "running"
  PROVE  Running'
<1>1. \A x \in Contexts, s \in Slots : ctx[x].slot[s] # None => ctx[x].slot[s] \in Trans
  BY ObjectTypes DEF MMContexts
<1>2. QED
  BY <1>1 DEF Running

(* One context gets other slots.                                           *)
LEMMA OneContextRuns ==
  ASSUME TypeOK, Running, NEW x \in Contexts, NEW f \in [Slots -> Trans \cup {None}],
         ctx'[x].slot = f, \A y \in Contexts \ {x} : ctx'[y].slot = ctx[y].slot,
         \A s \in Slots : f[s] # None =>
             /\ tran'[f[s]].state = "running" /\ tran'[f[s]].ctx = x
             /\ \A r \in Slots : f[r] = f[s] => r = s,
         \A t \in Trans : tran'[t].state = "running" /\ (\A s \in Slots : f[s] # t) =>
             tran[t].state = "running" /\ tran[t].ctx # x /\ tran'[t].ctx = tran[t].ctx,
         \A t \in Trans : tran[t].state = "running" /\ tran[t].ctx # x =>
             tran'[t].state = "running" /\ tran'[t].ctx = tran[t].ctx
  PROVE  Running'
<1>1. \A y \in Contexts, s \in Slots : ctx[y].slot[s] # None => ctx[y].slot[s] \in Trans
  BY ObjectTypes DEF MMContexts
<1>2. ASSUME NEW y \in Contexts, NEW s \in Slots, ctx'[y].slot[s] # None
      PROVE  /\ tran'[ctx'[y].slot[s]].state = "running"
             /\ tran'[ctx'[y].slot[s]].ctx = y
             /\ \A r \in Slots : ctx'[y].slot[r] = ctx'[y].slot[s] => r = s
  <2>1. CASE y = x
    BY <1>2, <2>1
  <2>2. CASE y # x
    BY <1>1, <1>2, <2>2 DEF Running
  <2>3. QED
    BY <2>1, <2>2
<1>3. ASSUME NEW t \in Trans, tran'[t].state = "running"
      PROVE  tran'[t].ctx \in Contexts /\ \E s \in Slots : ctx'[tran'[t].ctx].slot[s] = t
  <2>1. CASE \E s \in Slots : f[s] = t
    <3>1. t # None
      BY NoneAssumption DEF None
    <3>2. QED
      BY <2>1, <3>1
  <2>2. CASE \A s \in Slots : f[s] # t
    BY <1>3, <2>2 DEF Running
  <2>3. QED
    BY <2>1, <2>2
<1>4. QED
  BY <1>2, <1>3 DEF Running

(* What becomes of each transaction when some are cancelled, one starts.   *)
LEMMA CancelledValues ==
  ASSUME TypeOK, NEW dead
  PROVE  \A v \in Trans : /\ v \notin dead => Cancelled(dead)[v] = tran[v]
                          /\ v \in dead => Cancelled(dead)[v].state = "dead"
BY ObjectTypes DEF Cancelled, TranEntries

LEMMA StartedValues ==
  ASSUME TypeOK, NEW dead, NEW t \in Trans, NEW x,
         tran' = [Cancelled(dead) EXCEPT ![t].state = "running", ![t].ctx = x]
  PROVE  /\ tran'[t].state = "running" /\ tran'[t].ctx = x
         /\ \A v \in Trans \ {t} : /\ v \notin dead => tran'[v] = tran[v]
                                   /\ v \in dead => tran'[v].state = "dead"
<1> DEFINE r == Cancelled(dead)
<1>1. r \in [Trans -> TranEntries]
  BY CancelledType
<1>2. tran' = [r EXCEPT ![t] = [r[t] EXCEPT !.state = "running", !.ctx = x]]
  BY <1>1
<1>3. \A v \in Trans : /\ v \notin dead => r[v] = tran[v]
                       /\ v \in dead => r[v].state = "dead"
  BY CancelledValues
<1> HIDE DEF r
<1>4. r[t] \in TranEntries
  BY <1>1
<1>5. tran'[t] = [r[t] EXCEPT !.state = "running", !.ctx = x] /\ \A v \in Trans \ {t} : tran'[v] = r[v]
  BY <1>1, <1>2
<1>6. QED
  BY <1>3, <1>4, <1>5 DEF TranEntries

(* A transaction gets a slot, and what was there is cancelled.             *)
LEMMA PutRuns ==
  ASSUME TypeOK, Running, NEW x \in Contexts, NEW s \in Slots, NEW t \in Trans, NEW dead,
         tran[t].state # "running", \A v \in Trans : v \in dead <=> v = ctx[x].slot[s],
         ctx'[x].slot = [ctx[x].slot EXCEPT ![s] = t],
         \A y \in Contexts \ {x} : ctx'[y].slot = ctx[y].slot,
         tran'[t].state = "running", tran'[t].ctx = x,
         \A v \in Trans \ {t} : /\ v \notin dead => tran'[v] = tran[v]
                                /\ v \in dead => tran'[v].state = "dead"
  PROVE  Running'
<1> DEFINE f == [ctx[x].slot EXCEPT ![s] = t]
<1>1. ctx[x].slot \in [Slots -> Trans \cup {None}]
  BY ObjectTypes DEF MMContexts
<1>2. f \in [Slots -> Trans \cup {None}] /\ f[s] = t /\ \A r \in Slots \ {s} : f[r] = ctx[x].slot[r]
  BY <1>1
<1>3. /\ tran'[t].state = "running" /\ tran'[t].ctx = x
      /\ \A v \in Trans \ {t} : /\ v \notin dead => tran'[v] = tran[v]
                                /\ v \in dead => tran'[v].state = "dead"
  OBVIOUS
<1>4. ASSUME NEW v \in Trans \ {t}, tran'[v].state = "running" PROVE v \notin dead /\ tran'[v] = tran[v]
  <2>1. v \notin dead
    BY <1>3, <1>4
  <2>2. QED
    BY <1>3, <2>1
<1>11. ctx'[x].slot = f
  OBVIOUS
<1>5. \A r \in Slots : ctx[x].slot[r] # None => ctx[x].slot[r] # t
  BY DEF Running
<1>6. t # None
  BY NoneAssumption DEF None
<1> HIDE DEF f
<1>7. ASSUME NEW r \in Slots, f[r] # None
      PROVE  /\ tran'[f[r]].state = "running" /\ tran'[f[r]].ctx = x
             /\ \A w \in Slots : f[w] = f[r] => w = r
  <2>1. CASE r = s
    BY <2>1, <1>2, <1>3, <1>5, <1>6
  <2>2. CASE r # s
    <3>1. f[r] = ctx[x].slot[r] /\ f[r] \in Trans \ {t} /\ f[r] # ctx[x].slot[s]
      BY <2>2, <1>1, <1>2, <1>5, <1>7 DEF Running
    <3>2. tran'[f[r]] = tran[f[r]]
      <4>1. f[r] \notin dead
        BY <3>1
      <4>2. QED
        BY <3>1, <4>1, <1>3
    <3>3. QED
      BY <3>1, <3>2, <2>2, <1>2, <1>7 DEF Running
  <2>3. QED
    BY <2>1, <2>2
<1>8. ASSUME NEW v \in Trans, tran'[v].state = "running", \A r \in Slots : f[r] # v
      PROVE  tran[v].state = "running" /\ tran[v].ctx # x /\ tran'[v].ctx = tran[v].ctx
  <2>1. v # t /\ tran'[v] = tran[v] /\ v \notin dead
    BY <1>2, <1>4, <1>8
  <2>2. \A r \in Slots : ctx[x].slot[r] # v
    BY <1>2, <1>8, <2>1
  <2>3. QED
    BY <2>1, <2>2, <1>8 DEF Running
<1>9. ASSUME NEW v \in Trans, tran[v].state = "running", tran[v].ctx # x
      PROVE  tran'[v].state = "running" /\ tran'[v].ctx = tran[v].ctx
  <2>1. v \in Trans \ {t} /\ v \notin dead
    BY <1>9, <1>1, NoneAssumption DEF Running, None
  <2>2. tran'[v] = tran[v]
    BY <2>1, <1>3
  <2>3. QED
    BY <2>2, <1>9
<1>10. QED
  BY <1>2, <1>7, <1>8, <1>9, <1>11, OneContextRuns

(* mmcLink moves what runs with the handset: a slot of the new context that *)
(* is taken keeps what it has, and the old context what it could not hand   *)
(* over.                                                                    *)
LEMMA LinkRuns ==
  ASSUME TypeOK, TranInv, NEW x \in Contexts, NEW i \in Imsis, mmcLink(x, i),
         \A c \in Chans : chan'[c].hand = chan[c].hand
  PROVE  /\ Running' /\ Queues' /\ Hands'
         /\ \A y \in Contexts : ctx'[y].asked = ctx[y].asked
         /\ \A t \in Trans : tran'[t].state = tran[t].state
<1> DEFINE old == user[i].ctx
           moving == Moving(old, x)
           slot == [s \in Slots |-> IF s \in moving THEN ctx[old].slot[s] ELSE ctx[x].slot[s]]
           moved == {ctx[old].slot[s] : s \in moving}
<1>1. CASE ctx[x].mmu = i
  <2>1. UNCHANGED <<user, ctx, tran>>
    BY <1>1 DEF mmcLink
  <2>2. Running' /\ Queues' /\ Hands'
    BY <2>1, SameRunning, SameQueues, SameHands DEF TranInv
  <2>3. QED
    BY <2>1, <2>2
<1>2. CASE ctx[x].mmu # i
  <2>1. /\ user' = [j \in Imsis |->
                  IF j = i THEN [user[i] EXCEPT !.known = TRUE, !.ctx = x]
                  ELSE IF user[j].ctx = x THEN [user[j] EXCEPT !.ctx = None]
                  ELSE user[j]]
        /\ ctx' = [y \in Contexts |->
                  IF y = x THEN [ctx[x] EXCEPT !.mmu = i, !.slot = slot]
                  ELSE IF y = old THEN Unlinked(ctx[y], moving)
                  ELSE ctx[y]]
        /\ tran' = MovedTran(moved, x)
    BY Zenon, <1>2 DEF mmcLink
  <2>2. /\ moving \subseteq Slots
        /\ moving # {} => old \in Contexts \ {x}
        /\ \A s \in moving : ctx[old].slot[s] # None /\ ctx[x].slot[s] = None
    BY DEF Moving, SlotsUsed
  <2>3. \A j \in Imsis : user'[j].mtcq = user[j].mtcq /\ user'[j].smsq = user[j].smsq
    BY <2>1, ObjectTypes DEF Users
  <2>4. \A t \in Trans : /\ tran'[t].state = tran[t].state /\ tran'[t].imsi = tran[t].imsi
                         /\ tran'[t].ctx = IF t \in moved THEN x ELSE tran[t].ctx
    BY <2>1, ObjectTypes DEF MovedTran, TranEntries
  <2>5. /\ ctx'[x].slot = slot /\ ctx'[x].asked = ctx[x].asked
        /\ \A y \in Contexts \ {x} :
              /\ ctx'[y].asked = ctx[y].asked
              /\ y # old => ctx'[y].slot = ctx[y].slot
              /\ y = old => ctx'[y].slot = [s \in Slots |-> IF s \in moving THEN None ELSE ctx[y].slot[s]]
    BY Zenon, <2>1, ObjectTypes DEF MMContexts, Unlinked
  <2>6. Queues' /\ Hands'
    BY <2>3, <2>4, SameQueues, SameHands DEF TranInv
  <2>7. \A y \in Contexts, s \in Slots : ctx[y].slot[s] # None => ctx[y].slot[s] \in Trans
    BY ObjectTypes DEF MMContexts
  <2> HIDE DEF moving
  <2>8. CASE moving = {}
    <3>1. moved = {} /\ slot = ctx[x].slot
      BY <2>8, ObjectTypes DEF MMContexts
    <3>2. \A y \in Contexts : ctx'[y].slot = ctx[y].slot
      BY <2>5, <2>8, <3>1, ObjectTypes DEF MMContexts
    <3>3. Running'
      BY <3>1, <3>2, <2>4, SameRunning DEF TranInv
    <3>4. QED
      BY <3>3, <2>4, <2>5, <2>6
  <2>9. CASE moving # {}
    <3>1. old \in Contexts /\ old # x
      BY <2>2, <2>9
    <3>2. \A v \in moved : v \in Trans /\ v # None /\ tran[v].state = "running" /\ tran[v].ctx = old
      BY <2>2, <2>7, <3>1 DEF TranInv, Running
    <3>3. \A s \in Slots : ctx[old].slot[s] \in moved => s \in moving
      <4> SUFFICES ASSUME NEW s \in Slots, ctx[old].slot[s] \in moved PROVE s \in moving
        OBVIOUS
      <4>1. PICK r \in moving : ctx[old].slot[s] = ctx[old].slot[r]
        OBVIOUS
      <4>2. QED
        BY <4>1, <2>2, <3>1 DEF TranInv, Running
    <3>4. \A s \in moving : ctx[old].slot[s] \in moved
      OBVIOUS
    <3> DEFINE OldSlots == [s \in Slots |-> IF s \in moving THEN None ELSE ctx[old].slot[s]]
    <3>5. /\ \A s \in Slots : ctx'[x].slot[s] = IF s \in moving THEN ctx[old].slot[s] ELSE ctx[x].slot[s]
          /\ \A s \in Slots : ctx'[old].slot[s] = IF s \in moving THEN None ELSE ctx[old].slot[s]
          /\ \A y \in Contexts \ {x, old}, s \in Slots : ctx'[y].slot[s] = ctx[y].slot[s]
      <4>1. ctx'[x].slot = slot
        BY <2>5
      <4>2. ctx'[old].slot = OldSlots
        BY <2>5, <3>1
      <4>3. \A y \in Contexts \ {x, old} : ctx'[y].slot = ctx[y].slot
        BY <2>5
      <4>4. \A s \in Slots : slot[s] = IF s \in moving THEN ctx[old].slot[s] ELSE ctx[x].slot[s]
        OBVIOUS
      <4>5. \A s \in Slots : OldSlots[s] = IF s \in moving THEN None ELSE ctx[old].slot[s]
        OBVIOUS
      <4> HIDE DEF OldSlots, slot, moved, old
      <4>6. QED
        BY <4>1, <4>2, <4>3, <4>4, <4>5
    <3> HIDE DEF moved, slot, old
    <3>6. ASSUME NEW y \in Contexts, NEW s \in Slots, ctx'[y].slot[s] # None
          PROVE  /\ tran'[ctx'[y].slot[s]].state = "running"
                 /\ tran'[ctx'[y].slot[s]].ctx = y
                 /\ \A r \in Slots : ctx'[y].slot[r] = ctx'[y].slot[s] => r = s
      <4>1. CASE y = x /\ s \in moving
        <5>1. ctx'[y].slot[s] = ctx[old].slot[s] /\ ctx'[y].slot[s] \in moved
          BY <4>1, <3>4, <3>5
        <5>2. tran[ctx'[y].slot[s]].ctx = old /\ ctx'[y].slot[s] # None
          BY <5>1, <3>2
        <5>3. ASSUME NEW r \in Slots, ctx'[y].slot[r] = ctx'[y].slot[s] PROVE r = s
          <6>1. CASE r \in moving
            BY <4>1, <5>1, <5>2, <5>3, <6>1, <3>1, <3>5 DEF TranInv, Running
          <6>2. CASE r \notin moving
            BY <4>1, <5>2, <5>3, <6>2, <3>1, <3>5 DEF TranInv, Running
          <6>3. QED
            BY <6>1, <6>2
        <5>4. QED
          BY <4>1, <5>1, <5>3, <3>2, <2>4
      <4>2. CASE y = x /\ s \notin moving
        <5>1. ctx'[y].slot[s] = ctx[x].slot[s] /\ ctx[x].slot[s] \in Trans
          BY <4>2, <3>5, <3>6, <2>7
        <5>2. tran[ctx[x].slot[s]].ctx = x /\ tran[ctx[x].slot[s]].state = "running" /\ ctx[x].slot[s] \notin moved
          BY <3>1, <3>2, <3>6, <5>1 DEF TranInv, Running
        <5>3. ASSUME NEW r \in Slots, ctx'[y].slot[r] = ctx'[y].slot[s] PROVE r = s
          <6>1. CASE r \in moving
            BY <4>2, <5>1, <5>2, <5>3, <6>1, <3>4, <3>5
          <6>2. CASE r \notin moving
            BY <4>2, <5>1, <5>3, <6>2, <3>5, <3>6 DEF TranInv, Running
          <6>3. QED
            BY <6>1, <6>2
        <5>4. QED
          BY <4>2, <5>1, <5>2, <5>3, <2>4
      <4>3. CASE y = old
        <5>1. s \notin moving /\ ctx'[y].slot[s] = ctx[old].slot[s] /\ ctx[old].slot[s] \in Trans
          BY <4>3, <3>1, <3>5, <3>6, <2>7
        <5>2. ctx[old].slot[s] \notin moved
          BY <5>1, <3>3
        <5>3. \A r \in Slots : ctx'[y].slot[r] = ctx'[y].slot[s] => r = s
          BY <4>3, <5>1, <3>1, <3>5, <3>6 DEF TranInv, Running
        <5>4. QED
          BY <4>3, <5>1, <5>2, <5>3, <2>4, <3>1, <3>6 DEF TranInv, Running
      <4>4. CASE y # x /\ y # old
        <5>1. \A r \in Slots : ctx'[y].slot[r] = ctx[y].slot[r]
          BY <4>4, <3>5
        <5>2. ctx[y].slot[s] \in Trans /\ ctx[y].slot[s] \notin moved
          BY <4>4, <5>1, <3>2, <3>6, <2>7 DEF TranInv, Running
        <5>3. QED
          BY <5>1, <5>2, <2>4, <3>6 DEF TranInv, Running
      <4>5. QED
        BY <4>1, <4>2, <4>3, <4>4
    <3>7. ASSUME NEW t \in Trans, tran'[t].state = "running"
          PROVE  tran'[t].ctx \in Contexts /\ \E s \in Slots : ctx'[tran'[t].ctx].slot[s] = t
      <4>1. PICK s \in Slots : tran[t].ctx \in Contexts /\ ctx[tran[t].ctx].slot[s] = t
        BY <2>4, <3>7 DEF TranInv, Running
      <4>2. CASE t \in moved
        <5>1. tran[t].ctx = old /\ s \in moving
          BY <4>1, <4>2, <3>2, <3>3
        <5>2. ctx'[x].slot[s] = t
          BY <4>1, <5>1, <3>5
        <5>3. QED
          BY <4>2, <5>2, <2>4
      <4>3. CASE t \notin moved
        <5>1. tran'[t].ctx = tran[t].ctx
          BY <4>3, <2>4
        <5>2. t # None
          BY NoneAssumption DEF None
        <5>3. CASE tran[t].ctx = x
          BY <4>1, <5>1, <5>2, <5>3, <3>5, <2>2
        <5>4. CASE tran[t].ctx = old
          BY <4>1, <4>3, <5>1, <5>4, <3>1, <3>4, <3>5
        <5>5. CASE tran[t].ctx # x /\ tran[t].ctx # old
          BY <4>1, <5>1, <5>5, <3>5
        <5>6. QED
          BY <5>3, <5>4, <5>5
      <4>4. QED
        BY <4>2, <4>3
    <3>8. Running'
      BY <3>6, <3>7 DEF Running
    <3>9. QED
      BY <3>8, <2>4, <2>5, <2>6
  <2>10. QED
    BY <2>8, <2>9
<1>3. QED
  BY <1>1, <1>2

(* mmcFree cancels all that runs on the contexts it deletes, and leaves the *)
(* queues.                                                                  *)
LEMMA FreeRuns ==
  ASSUME TypeOK, TranInv, NEW leaving, chanFreeContext(leaving),
         \A c \in Chans : /\ chan'[c].hand = chan[c].hand
                          /\ chan'[c].inbox \in {chan[c].inbox, <<>>}
  PROVE  TranInv'
<1> DEFINE freed == Freed(leaving)
           dead == UNION {OnContext(x) : x \in freed}
<1>1. /\ \A x \in Contexts : ctx'[x] = IF x \in freed THEN NoContext ELSE ctx[x]
      /\ tran' = Cancelled(dead)
      /\ \A i \in Imsis : user'[i] \in {user[i], Detached(user[i])}
  BY DEF chanFreeContext
<1>2. freed \subseteq Contexts
  BY DEF Freed
<1>3. \A i \in Imsis : user'[i].mtcq = user[i].mtcq /\ user'[i].smsq = user[i].smsq
  BY <1>1, ObjectTypes DEF Detached, NoUser, Users, mmuIsEmpty
<1>4. \A t \in dead : t # None /\ tran[t].state = "running" /\ tran[t].ctx \in freed
  BY <1>2 DEF OnContext, SlotsUsed, TranInv, Running
<1>5. \A t \in Trans : /\ t \notin dead => tran'[t] = tran[t]
                       /\ t \in dead => tran'[t].state = "dead"
  BY <1>1, CancelledValues
<1>6. \A t \in Trans : tran[t].state = "running" /\ tran[t].ctx \in freed => t \in dead
  <2> SUFFICES ASSUME NEW t \in Trans, tran[t].state = "running", tran[t].ctx \in freed PROVE t \in dead
    OBVIOUS
  <2>1. PICK s \in Slots : ctx[tran[t].ctx].slot[s] = t
    BY DEF TranInv, Running
  <2>2. t \in OnContext(tran[t].ctx)
    BY <2>1, NoneAssumption DEF OnContext, SlotsUsed, None
  <2>3. QED
    BY <2>2
<1>7. NoContext.asked = <<>> /\ \A s \in Slots : NoContext.slot[s] = None
  BY DEF NoContext, Empty
<1> HIDE DEF dead, freed
<1>8. Queues'
  BY <1>3, <1>4, <1>5, SameQueues DEF TranInv
<1>9. Hands'
  BY <1>4, <1>5, SameHands DEF TranInv
<1>10. Requests'
  BY <1>1, <1>4, <1>5, <1>7, SameRequests DEF TranInv
<1>11. Running'
  <2>1. \A y \in Contexts, s \in Slots : ctx[y].slot[s] # None => ctx[y].slot[s] \in Trans
    BY ObjectTypes DEF MMContexts
  <2>2. ASSUME NEW y \in Contexts, NEW s \in Slots, ctx'[y].slot[s] # None
        PROVE  /\ tran'[ctx'[y].slot[s]].state = "running"
               /\ tran'[ctx'[y].slot[s]].ctx = y
               /\ \A r \in Slots : ctx'[y].slot[r] = ctx'[y].slot[s] => r = s
    <3>1. y \notin freed /\ ctx'[y] = ctx[y]
      BY <2>2, <1>1, <1>7
    <3>2. ctx[y].slot[s] \in Trans /\ ctx[y].slot[s] \notin dead
      BY <2>1, <2>2, <3>1, <1>4 DEF TranInv, Running
    <3>3. QED
      BY <2>2, <3>1, <3>2, <1>5 DEF TranInv, Running
  <2>3. ASSUME NEW t \in Trans, tran'[t].state = "running"
        PROVE  tran'[t].ctx \in Contexts /\ \E s \in Slots : ctx'[tran'[t].ctx].slot[s] = t
    <3>1. t \notin dead /\ tran'[t] = tran[t]
      BY <2>3, <1>5
    <3>2. tran[t].ctx \in Contexts \ freed
      BY <2>3, <3>1, <1>6 DEF TranInv, Running
    <3>3. QED
      BY <2>3, <3>1, <3>2, <1>1 DEF TranInv, Running
  <2>4. QED
    BY <2>2, <2>3 DEF Running
<1>12. QED
  BY <1>8, <1>9, <1>10, <1>11 DEF TranInv

(* Some requests leave the inbox or the context they were in.               *)
LEMMA FewerRequests ==
  ASSUME TypeOK, Requests,
         \A c \in Chans : /\ Inbox(c)' \subseteq Inbox(c) /\ IsInjective(chan'[c].inbox)
                          /\ \A t \in Inbox(c)' : tran'[t].state = "asked",
         \A x \in Contexts : /\ Asked(x)' \subseteq Asked(x) /\ IsInjective(ctx'[x].asked)
                             /\ \A t \in Asked(x)' : tran'[t].state = "asked"
  PROVE  Requests'
<1>1. ASSUME NEW c \in Chans
      PROVE  /\ \A e \in Chans \ {c} : Inbox(c)' \cap Inbox(e)' = {}
             /\ \A x \in Contexts : Inbox(c)' \cap Asked(x)' = {}
  <2>1. \A e \in Chans \ {c} : Inbox(c) \cap Inbox(e) = {}
    BY DEF Requests
  <2>2. \A x \in Contexts : Inbox(c) \cap Asked(x) = {}
    BY DEF Requests
  <2>3. QED
    BY <2>1, <2>2
<1>2. ASSUME NEW x \in Contexts, NEW y \in Contexts \ {x} PROVE Asked(x)' \cap Asked(y)' = {}
  <2>1. Asked(x) \cap Asked(y) = {}
    BY DEF Requests
  <2>2. QED
    BY <2>1
<1>3. QED
  BY <1>1, <1>2 DEF Requests

(* A request that nobody has heard of yet comes in.                        *)
LEMMA RequestComes ==
  ASSUME TypeOK, Requests, NEW c \in Chans, NEW t \in MoTrans,
         tran[t].state = "unborn", tran'[t].state = "asked",
         \A v \in Trans \ {t} : tran'[v] = tran[v],
         UNCHANGED ctx,
         \A e \in Chans \ {c} : chan'[e].inbox = chan[e].inbox,
         chan'[c].inbox \in {Append(chan[c].inbox, t), <<t>>}
  PROVE  Requests'
<1>1. chan[c].inbox \in Seq(Messages) /\ t \in Messages /\ t \in Trans /\ t # "PagingResponse"
  BY ObjectTypes, NoneAssumption DEF L3Channels, Messages, Trans
<1>2. /\ \A e \in Chans : t \notin Inbox(e) /\ Inbox(e) \subseteq Trans
      /\ \A x \in Contexts : t \notin Asked(x) /\ Asked(x) \subseteq Trans
  BY RequestTypes DEF Requests
<1>3. t \notin Range(chan[c].inbox) /\ IsInjective(chan[c].inbox)
  BY <1>1, <1>2 DEF Inbox, Requests
<1>4. Inbox(c)' \subseteq Inbox(c) \cup {t} /\ IsInjective(chan'[c].inbox)
  <2>1. /\ IsInjective(Append(chan[c].inbox, t)) /\ IsInjective(<<t>>)
        /\ Range(Append(chan[c].inbox, t)) = Range(chan[c].inbox) \cup {t} /\ Range(<<t>>) = {t}
    BY <1>1, <1>3, AppendSeq, SingleSeq
  <2>2. Inbox(c)' = Range(chan'[c].inbox) \ {"PagingResponse"}
    BY DEF Inbox
  <2>3. Inbox(c) = Range(chan[c].inbox) \ {"PagingResponse"}
    BY DEF Inbox
  <2>4. CASE chan'[c].inbox = <<t>>
    BY <2>1, <2>2, <2>4
  <2>5. CASE chan'[c].inbox = Append(chan[c].inbox, t)
    BY <2>1, <2>2, <2>3, <2>5
  <2>6. QED
    BY <2>4, <2>5
<1>5. /\ \A e \in Chans \ {c} : Inbox(e)' = Inbox(e)
      /\ \A x \in Contexts : Asked(x)' = Asked(x)
  BY DEF Inbox, Asked
<1>6. \A e \in Chans : \A v \in Inbox(e) : tran'[v].state = "asked"
  BY <1>2 DEF Requests
<1>7. \A x \in Contexts : \A v \in Asked(x) : tran'[v].state = "asked"
  BY <1>2 DEF Requests
<1>8. ASSUME NEW e \in Chans
      PROVE  /\ IsInjective(chan'[e].inbox)
             /\ \A v \in Inbox(e)' : tran'[v].state = "asked"
             /\ \A d \in Chans \ {e} : Inbox(e)' \cap Inbox(d)' = {}
             /\ \A x \in Contexts : Inbox(e)' \cap Asked(x)' = {}
  <2>1. IsInjective(chan'[e].inbox)
    BY <1>4 DEF Requests
  <2>2. \A v \in Inbox(e)' : tran'[v].state = "asked"
    BY <1>4, <1>5, <1>6
  <2>3. \A d \in Chans \ {e} : Inbox(e) \cap Inbox(d) = {}
    BY DEF Requests
  <2>4. \A x \in Contexts : Inbox(e) \cap Asked(x) = {}
    BY DEF Requests
  <2>5. Inbox(e)' \subseteq Inbox(e) \cup {t} /\ (e # c => Inbox(e)' = Inbox(e))
    BY <1>4, <1>5
  <2>6. \A d \in Chans \ {e} : Inbox(e)' \cap Inbox(d)' = {}
    BY <1>2, <1>4, <1>5, <2>3, <2>5
  <2>7. \A x \in Contexts : Inbox(e)' \cap Asked(x)' = {}
    BY <1>2, <1>5, <2>4, <2>5
  <2>8. QED
    BY <2>1, <2>2, <2>6, <2>7
<1>9. \A x \in Contexts : /\ IsInjective(ctx'[x].asked)
                          /\ \A v \in Asked(x)' : tran'[v].state = "asked"
                          /\ \A y \in Contexts \ {x} : Asked(x)' \cap Asked(y)' = {}
  BY <1>5, <1>7 DEF Requests
<1>10. QED
  BY <1>8, <1>9 DEF Requests

(* A request moves from the inbox of a loop to the queue of its context.   *)
LEMMA RequestMoves ==
  ASSUME TypeOK, Requests, NEW c \in Chans, NEW x \in Contexts, NEW t \in Mocs \cup MoSmss,
         UNCHANGED tran, chan[c].inbox # <<>>, t = Head(chan[c].inbox),
         \A e \in Chans \ {c} : chan'[e].inbox = chan[e].inbox,
         chan'[c].inbox = Tail(chan[c].inbox),
         \A y \in Contexts \ {x} : ctx'[y].asked = ctx[y].asked,
         ctx'[x].asked = Append(ctx[x].asked, t)
  PROVE  Requests'
<1>1. chan[c].inbox \in Seq(Messages) /\ ctx[x].asked \in Seq(Mocs \cup MoSmss) /\ t \in Trans /\ t # "PagingResponse"
  BY ObjectTypes, NoneAssumption DEF L3Channels, MMContexts, Trans, MoTrans
<1>2. /\ IsInjective(chan'[c].inbox) /\ t \in Inbox(c) /\ Inbox(c)' = Inbox(c) \ {t}
  BY <1>1, TailSeq DEF Requests, Inbox
<1>3. t \notin Asked(x)
  BY <1>2 DEF Requests
<1>4. IsInjective(ctx'[x].asked) /\ Asked(x)' = Asked(x) \cup {t}
  BY <1>1, <1>3, AppendSeq DEF Requests, Asked
<1>5. /\ \A e \in Chans \ {c} : Inbox(e)' = Inbox(e)
      /\ \A y \in Contexts \ {x} : Asked(y)' = Asked(y)
  BY DEF Inbox, Asked
<1>6. tran[t].state = "asked"
  BY <1>2 DEF Requests
<1>7. ASSUME NEW e \in Chans
      PROVE  /\ IsInjective(chan'[e].inbox)
             /\ \A v \in Inbox(e)' : tran'[v].state = "asked"
             /\ \A d \in Chans \ {e} : Inbox(e)' \cap Inbox(d)' = {}
             /\ \A y \in Contexts : Inbox(e)' \cap Asked(y)' = {}
  <2>1. IsInjective(chan'[e].inbox)
    BY <1>2 DEF Requests
  <2>2. Inbox(e)' \subseteq Inbox(e) /\ t \notin Inbox(e)'
    BY <1>2, <1>5 DEF Requests
  <2>3. \A v \in Inbox(e)' : tran'[v].state = "asked"
    BY <2>2 DEF Requests
  <2>4. \A d \in Chans \ {e} : Inbox(e) \cap Inbox(d) = {}
    BY DEF Requests
  <2>5. \A d \in Chans \ {e} : Inbox(e)' \cap Inbox(d)' = {}
    BY <1>2, <1>5, <2>2, <2>4
  <2>6. \A y \in Contexts : Inbox(e) \cap Asked(y) = {}
    BY DEF Requests
  <2>7. \A y \in Contexts : Inbox(e)' \cap Asked(y)' = {}
    BY <1>4, <1>5, <2>2, <2>6
  <2>8. QED
    BY <2>1, <2>3, <2>5, <2>7
<1>8. ASSUME NEW y \in Contexts
      PROVE  /\ IsInjective(ctx'[y].asked)
             /\ \A v \in Asked(y)' : tran'[v].state = "asked"
             /\ \A z \in Contexts \ {y} : Asked(y)' \cap Asked(z)' = {}
  <2>1. IsInjective(ctx'[y].asked)
    BY <1>4 DEF Requests
  <2>2. \A v \in Asked(y) : tran[v].state = "asked"
    BY DEF Requests
  <2>3. \A z \in Contexts : t \notin Asked(z)
    BY <1>2 DEF Requests
  <2>4. \A z \in Contexts \ {y} : Asked(y) \cap Asked(z) = {}
    BY DEF Requests
  <2>5. Asked(y)' \subseteq Asked(y) \cup {t} /\ (y # x => Asked(y)' = Asked(y))
    BY <1>4, <1>5
  <2>6. \A v \in Asked(y)' : tran'[v].state = "asked"
    BY <1>6, <2>2, <2>5
  <2>7. \A z \in Contexts \ {y} : Asked(y)' \cap Asked(z)' = {}
    BY <1>4, <1>5, <2>3, <2>4, <2>5
  <2>8. QED
    BY <2>1, <2>6, <2>7
<1>9. QED
  BY <1>7, <1>8 DEF Requests

(* A transaction joins the queue of an MMUser.                             *)
LEMMA QueueJoined ==
  ASSUME TypeOK, Queues, NEW i \in Imsis, NEW t \in MtTrans,
         tran[t].state = "unborn", tran'[t].state = "queued", tran'[t].imsi = i,
         \A v \in Trans \ {t} : tran'[v] = tran[v],
         \A j \in Imsis \ {i} : user'[j].mtcq = user[j].mtcq /\ user'[j].smsq = user[j].smsq,
         \/ /\ t \in Mtcs /\ user'[i].mtcq = Append(user[i].mtcq, t) /\ user'[i].smsq = user[i].smsq
         \/ /\ t \in MtSmss /\ user'[i].smsq = Append(user[i].smsq, t) /\ user'[i].mtcq = user[i].mtcq
  PROVE  Queues'
<1>1. t \in Trans /\ user[i].mtcq \in Seq(Mtcs) /\ user[i].smsq \in Seq(MtSmss)
  BY ObjectTypes DEF Users, Trans
<1>2. \A j \in Imsis : t \notin Queued(user[j]) /\ Queued(user[j]) \subseteq Trans
  BY QueuedRange DEF Queues
<1>3. t \notin Range(user[i].mtcq) /\ t \notin Range(user[i].smsq)
  BY <1>2, QueuedRange
<1>4. \A j \in Imsis : Queued(user'[j]) = Range(user'[j].mtcq) \cup Range(user'[j].smsq)
  BY DEF Queued, Range
<1>5. /\ IsInjective(user'[i].mtcq) /\ IsInjective(user'[i].smsq)
      /\ Queued(user'[i]) = Queued(user[i]) \cup {t}
  <2>1. CASE t \in Mtcs /\ user'[i].mtcq = Append(user[i].mtcq, t) /\ user'[i].smsq = user[i].smsq
    <3>1. IsInjective(user[i].mtcq) /\ IsInjective(user[i].smsq)
      BY DEF Queues
    <3>2. /\ IsInjective(Append(user[i].mtcq, t))
          /\ Range(Append(user[i].mtcq, t)) = Range(user[i].mtcq) \cup {t}
      BY <1>1, <1>3, <2>1, <3>1, AppendSeq
    <3>3. Queued(user[i]) = Range(user[i].mtcq) \cup Range(user[i].smsq)
      BY QueuedRange
    <3>4. QED
      BY <2>1, <3>1, <3>2, <3>3, <1>4
  <2>2. CASE t \in MtSmss /\ user'[i].smsq = Append(user[i].smsq, t) /\ user'[i].mtcq = user[i].mtcq
    <3>1. IsInjective(user[i].smsq) /\ IsInjective(user[i].mtcq)
      BY DEF Queues
    <3>2. /\ IsInjective(Append(user[i].smsq, t))
          /\ Range(Append(user[i].smsq, t)) = Range(user[i].smsq) \cup {t}
      BY <1>1, <1>3, <2>2, <3>1, AppendSeq
    <3>3. Queued(user[i]) = Range(user[i].mtcq) \cup Range(user[i].smsq)
      BY QueuedRange
    <3>4. QED
      BY <2>2, <3>1, <3>2, <3>3, <1>4
  <2>3. QED
    BY <2>1, <2>2
<1>6. \A j \in Imsis \ {i} : Queued(user'[j]) = Queued(user[j])
  BY DEF Queued
<1>7. ASSUME NEW j \in Imsis
      PROVE  /\ IsInjective(user'[j].mtcq) /\ IsInjective(user'[j].smsq)
             /\ \A v \in Queued(user'[j]) : tran'[v].state = "queued" /\ tran'[v].imsi = j
  <2>1. CASE j = i
    BY <2>1, <1>2, <1>5 DEF Queues
  <2>2. CASE j # i
    BY <2>2, <1>2, <1>6 DEF Queues
  <2>3. QED
    BY <2>1, <2>2
<1>8. ASSUME NEW v \in Trans, tran'[v].state = "queued"
      PROVE  tran'[v].imsi \in Imsis /\ v \in Queued(user'[tran'[v].imsi])
  <2>1. CASE v = t
    BY <2>1, <1>5
  <2>2. CASE v # t
    BY <2>2, <1>5, <1>6, <1>8 DEF Queues
  <2>3. QED
    BY <2>1, <2>2
<1>9. QED
  BY <1>7, <1>8 DEF Queues

(* Some leave the queues of an MMUser, in whatever state.                  *)
LEMMA QueueLeft ==
  ASSUME TypeOK, Queues, NEW i \in Imsis, NEW gone, gone \subseteq Queued(user[i]),
         Queued(user'[i]) = Queued(user[i]) \ gone,
         IsInjective(user'[i].mtcq), IsInjective(user'[i].smsq),
         \A j \in Imsis \ {i} : user'[j].mtcq = user[j].mtcq /\ user'[j].smsq = user[j].smsq,
         \A v \in gone : tran'[v].state # "queued",
         \A v \in Trans \ gone : /\ tran[v].state = "queued" => tran'[v] = tran[v]
                                 /\ tran'[v].state = "queued" => tran[v].state = "queued"
  PROVE  Queues'
<1>1. \A j \in Imsis : Queued(user[j]) \subseteq Trans
  BY QueuedRange
<1>2. \A j \in Imsis \ {i} : Queued(user'[j]) = Queued(user[j]) /\ Queued(user[j]) \cap gone = {}
  <2> SUFFICES ASSUME NEW j \in Imsis \ {i}
               PROVE  Queued(user'[j]) = Queued(user[j]) /\ Queued(user[j]) \cap gone = {}
    OBVIOUS
  <2>1. Queued(user'[j]) = Queued(user[j])
    BY DEF Queued
  <2>2. \A v \in Queued(user[j]) : tran[v].imsi = j
    BY DEF Queues
  <2>3. \A v \in gone : tran[v].imsi = i
    BY DEF Queues
  <2>4. QED
    BY <2>1, <2>2, <2>3
<1>3. ASSUME NEW j \in Imsis
      PROVE  /\ IsInjective(user'[j].mtcq) /\ IsInjective(user'[j].smsq)
             /\ \A v \in Queued(user'[j]) : tran'[v].state = "queued" /\ tran'[v].imsi = j
  <2>1. CASE j = i
    BY <2>1, <1>1 DEF Queues
  <2>2. CASE j # i
    <3>1. \A v \in Queued(user'[j]) : v \in Queued(user[j]) /\ v \in Trans \ gone
      BY <2>2, <1>1, <1>2
    <3>2. QED
      BY <2>2, <3>1 DEF Queues
  <2>3. QED
    BY <2>1, <2>2
<1>4. ASSUME NEW v \in Trans, tran'[v].state = "queued"
      PROVE  tran'[v].imsi \in Imsis /\ v \in Queued(user'[tran'[v].imsi])
  <2>1. v \notin gone /\ tran'[v] = tran[v] /\ tran[v].imsi \in Imsis /\ v \in Queued(user[tran[v].imsi])
    BY <1>4 DEF Queues
  <2>2. CASE tran[v].imsi = i
    BY <2>1, <2>2
  <2>3. CASE tran[v].imsi # i
    BY <2>1, <2>3, <1>2
  <2>4. QED
    BY <2>1, <2>2, <2>3
<1>5. QED
  BY <1>3, <1>4 DEF Queues

-----------------------------------------------------------------------------
(* The transactions.                                                        *)

(* A step that moves no transaction.                                        *)
LEMMA Quiet ==
  ASSUME TypeOK, TranInv, UNCHANGED tran,
         \A i \in Imsis : user'[i].mtcq = user[i].mtcq /\ user'[i].smsq = user[i].smsq,
         \A x \in Contexts : ctx'[x].slot = ctx[x].slot /\ ctx'[x].asked = ctx[x].asked,
         \A c \in Chans : /\ chan'[c].hand = chan[c].hand
                          /\ chan'[c].inbox \in {chan[c].inbox, <<>>}
  PROVE  TranInv'
<1>1. Running'
  BY SameRunning DEF TranInv
<1>2. Queues'
  BY SameQueues DEF TranInv
<1>3. Hands'
  BY SameHands DEF TranInv
<1>4. Requests'
  BY SameRequests DEF TranInv
<1>5. QED
  BY <1>1, <1>2, <1>3, <1>4 DEF TranInv

(* The steps of timers and flags move none.                                 *)
LEMMA SetsNothing ==
  ASSUME TypeOK, TranInv,
         \/ UNCHANGED vars
         \/ \E i \in Imsis : mmMTRepage(i) \/ PageTimerPasses(i)
         \/ \E x \in Contexts : Settle(x)
  PROVE  TranInv'
<1>1. CASE UNCHANGED vars
  BY <1>1, Quiet DEF vars
<1>2. ASSUME NEW i \in Imsis, mmMTRepage(i) \/ PageTimerPasses(i) PROVE TranInv'
  <2>1. \A j \in Imsis : user'[j].mtcq = user[j].mtcq /\ user'[j].smsq = user[j].smsq
    <3>1. PICK b \in BOOLEAN : user' = [user EXCEPT ![i].late = b]
      BY <1>2 DEF mmMTRepage, PageTimerPasses
    <3>2. \A j \in Imsis : user[j] \in Users /\ user'[j] \in {user[j], [user[j] EXCEPT !.late = b]}
      BY <3>1, ObjectTypes DEF TypeOK
    <3>3. QED
      BY <3>2 DEF Users
  <2>2. UNCHANGED <<ctx, tran, chan>>
    BY <1>2 DEF mmMTRepage, PageTimerPasses
  <2>3. QED
    BY <2>1, <2>2, Quiet
<1>3. ASSUME NEW x \in Contexts, Settle(x) PROVE TranInv'
  <2>1. \A y \in Contexts : ctx'[y].slot = ctx[y].slot /\ ctx'[y].asked = ctx[y].asked
    BY <1>3, ObjectTypes DEF Settle, MMContexts, TypeOK
  <2>2. UNCHANGED <<user, tran, chan>>
    BY <1>3 DEF Settle
  <2>3. QED
    BY <2>1, <2>2, Quiet
<1>4. QED
  BY <1>1, <1>2, <1>3

(* Nor do those that only reserve, assign or close a channel.               *)
LEMMA MovesChannels ==
  ASSUME TypeOK, TranInv, NEW c \in Chans,
         \/ EstablishTarget(c) \/ ReassignStart(c) \/ ReassignComplete(c)
         \/ CloseIdle(c) \/ CloseTerminated(c) \/ CloseLost(c)
         \/ \E d \in Chans : AllocNextTCH(c, d)
  PROVE  TranInv'
<1>1. \A e \in Chans : chan[e] \in L3Channels
  BY ObjectTypes
<1>2. \A e \in Chans : chan'[e].hand = chan[e].hand /\ chan'[e].inbox = chan[e].inbox
  <2>1. CASE EstablishTarget(c)
    BY <1>1, <2>1 DEF EstablishTarget, L3Channels, TypeOK
  <2>2. CASE ReassignStart(c)
    BY <1>1, <2>2 DEF ReassignStart, L3Channels, TypeOK
  <2>3. CASE ReassignComplete(c)
    BY <1>1, <2>3 DEF ReassignComplete, L3Channels, TypeOK
  <2>4. CASE CloseIdle(c)
    BY <1>1, <2>4 DEF CloseIdle, L3Channels, TypeOK
  <2>5. CASE CloseTerminated(c)
    BY <1>1, <2>5 DEF CloseTerminated, L3Channels, TypeOK
  <2>6. CASE CloseLost(c)
    BY <1>1, <2>6 DEF CloseLost, L3Channels, TypeOK
  <2>7. ASSUME NEW d \in Chans, AllocNextTCH(c, d)
        PROVE  \A e \in Chans : chan'[e].hand = chan[e].hand /\ chan'[e].inbox = chan[e].inbox
    BY ZenonT(40), <1>1, <2>7 DEF AllocNextTCH, L3Channels, TypeOK
  <2>8. QED
    BY <2>1, <2>2, <2>3, <2>4, <2>5, <2>6, <2>7
<1>3. UNCHANGED <<user, tran>>
  BY Zenon DEF EstablishTarget, ReassignStart, ReassignComplete, CloseIdle, CloseTerminated,
               CloseLost, AllocNextTCH
<1>4. \A y \in Contexts : ctx'[y].slot = ctx[y].slot /\ ctx'[y].asked = ctx[y].asked
  <2>1. CASE CloseTerminated(c)
    BY <2>1, ObjectTypes DEF CloseTerminated, MMContexts, TypeOK
  <2>2. CASE UNCHANGED ctx
    BY <2>2
  <2>3. QED
    BY Zenon, <2>1, <2>2 DEF EstablishTarget, ReassignStart, ReassignComplete, CloseIdle, CloseLost, AllocNextTCH
<1>5. QED
  BY <1>2, <1>3, <1>4, Quiet

(* mmuFree cancels all that is queued for a subscriber.                     *)
LEMMA FreesUser ==
  ASSUME TypeOK, TranInv, NEW i \in Imsis, mmuFree(i), UNCHANGED <<ctx, chan>>
  PROVE  TranInv'
<1> DEFINE gone == Queued(user[i])
<1>1. \A v \in Trans : /\ v \notin gone => tran'[v] = tran[v]
                       /\ v \in gone => tran'[v].state = "dead"
  BY CancelledValues DEF mmuFree
<1>2. gone \subseteq Trans /\ \A v \in gone : tran[v].state = "queued"
  BY QueuedRange DEF TranInv, Queues
<1>3. /\ user'[i].mtcq = <<>> /\ user'[i].smsq = <<>>
      /\ \A j \in Imsis \ {i} : user'[j] = user[j]
  BY DEF mmuFree, TypeOK, NoUser
<1>4. Queued(user'[i]) = gone \ gone
  BY <1>3 DEF Queued
<1> HIDE DEF gone
<1>5. gone \subseteq Queued(user[i])
  BY DEF gone
<1>6. Queued(user'[i]) = Queued(user[i]) \ gone
  BY <1>4 DEF gone
<1>7. IsInjective(user'[i].mtcq) /\ IsInjective(user'[i].smsq)
  BY <1>3, EmptySeq
<1>8. Queues'
  BY <1>1, <1>2, <1>3, <1>5, <1>6, <1>7, QueueLeft DEF TranInv
<1>9. \A v \in Trans : tran[v].state # "queued" /\ tran'[v].state # "dead" => tran'[v] = tran[v]
  BY <1>1, <1>2
<1>10. \A v \in Trans : tran[v].state # "queued" => tran'[v] = tran[v]
  BY <1>1, <1>2
<1>11. \A v \in Trans : tran'[v].state # "dead" => tran'[v] = tran[v]
  BY <1>1
<1>12. Running'
  BY <1>10, <1>11, SameRunning DEF TranInv
<1>13. Hands'
  BY <1>10, <1>11, SameHands DEF TranInv
<1>14. Requests'
  BY <1>10, SameRequests DEF TranInv
<1>15. QED
  BY <1>8, <1>12, <1>13, <1>14 DEF TranInv

(* The paging loop and the CLI.                                             *)
LEMMA PagingRuns ==
  ASSUME TypeOK, TranInv, NEW i \in Imsis, mmGetPages(i) \/ mmTerminateByImsi(i)
  PROVE  TranInv'
<1>1. CASE mmuFree(i) /\ UNCHANGED <<ctx, chan>>
  BY <1>1, FreesUser
<1>2. CASE UNCHANGED <<user, tran, ctx, chan>>
  BY <1>2, Quiet
<1>3. CASE /\ UNCHANGED <<user, tran, chan>>
           /\ ctx' = [ctx EXCEPT ![user[i].ctx].terminate = TRUE]
  <2>1. \A y \in Contexts : ctx'[y].slot = ctx[y].slot /\ ctx'[y].asked = ctx[y].asked
    BY <1>3, ObjectTypes DEF MMContexts, TypeOK
  <2>2. QED
    BY <1>3, <2>1, Quiet
<1>4. QED
  BY <1>1, <1>2, <1>3 DEF mmGetPages, mmTerminateByImsi
(* An INVITE or a MESSAGE is queued.                                        *)
LEMMA NetworkRuns ==
  ASSUME TypeOK, TranInv, NEW i \in Imsis, NEW t \in MtTrans, Invite(t, i) \/ Message(t, i)
  PROVE  TranInv'
<1>1. t \in Trans /\ user[i] \in Users /\ tran[t] \in TranEntries
  BY ObjectTypes DEF Trans
<1>2. tran[t].state = "unborn" /\ UNCHANGED <<ctx, chan>>
  BY DEF Invite, Message, NewMT
<1>3. /\ tran'[t].state = "queued" /\ tran'[t].imsi = i
      /\ \A v \in Trans \ {t} : tran'[v] = tran[v]
  <2>1. tran' = [tran EXCEPT ![t].state = "queued", ![t].imsi = i]
    BY DEF Invite, Message, NewMT
  <2>2. QED
    BY <1>1, <2>1 DEF TypeOK, TranEntries
<1>4. /\ \A j \in Imsis \ {i} : user'[j].mtcq = user[j].mtcq /\ user'[j].smsq = user[j].smsq
      /\ \/ /\ t \in Mtcs /\ user'[i].mtcq = Append(user[i].mtcq, t) /\ user'[i].smsq = user[i].smsq
         \/ /\ t \in MtSmss /\ user'[i].smsq = Append(user[i].smsq, t) /\ user'[i].mtcq = user[i].mtcq
  <2>1. CASE Invite(t, i)
    BY <1>1, <2>1 DEF Invite, Users, TypeOK
  <2>2. CASE Message(t, i)
    BY <1>1, <2>2 DEF Message, Users, TypeOK
  <2>3. QED
    BY <2>1, <2>2
<1>5. Queues'
  BY <1>2, <1>3, <1>4, QueueJoined DEF TranInv
<1>6. \A v \in Trans : tran[v].state # "unborn" => tran'[v] = tran[v]
  BY <1>2, <1>3
<1>7. \A v \in Trans : tran'[v].state # "queued" => tran'[v] = tran[v]
  BY <1>3
<1>8. Running'
  BY <1>2, <1>6, <1>7, SameRunning DEF TranInv
<1>9. Hands'
  BY <1>2, <1>6, <1>7, SameHands DEF TranInv
<1>10. Requests'
  BY <1>2, <1>6, SameRequests DEF TranInv
<1>11. QED
  BY <1>5, <1>8, <1>9, <1>10 DEF TranInv

(* A handset asks for something.                                            *)
LEMMA RequestRuns ==
  ASSUME TypeOK, TranInv, NEW c \in Chans, NEW t \in MoTrans,
         tran[t].state = "unborn", tran' = [tran EXCEPT ![t].state = "asked"],
         UNCHANGED <<user, ctx>>,
         \A e \in Chans : chan'[e].hand = chan[e].hand,
         \A e \in Chans \ {c} : chan'[e].inbox = chan[e].inbox,
         chan'[c].inbox \in {Append(chan[c].inbox, t), <<t>>}
  PROVE  TranInv'
<1>1. t \in Trans /\ tran[t] \in TranEntries
  BY ObjectTypes DEF Trans
<1>2. tran'[t].state = "asked" /\ \A v \in Trans \ {t} : tran'[v] = tran[v]
  BY <1>1 DEF TypeOK, TranEntries
<1>3. \A v \in Trans : tran[v].state # "unborn" => tran'[v] = tran[v]
  BY <1>2
<1>4. \A v \in Trans : tran'[v].state # "asked" => tran'[v] = tran[v]
  BY <1>2
<1>5. Running'
  BY <1>3, <1>4, SameRunning DEF TranInv
<1>6. Queues'
  BY <1>3, <1>4, SameQueues DEF TranInv
<1>7. Hands'
  BY <1>3, <1>4, SameHands DEF TranInv
<1>8. Requests'
  BY <1>2, RequestComes DEF TranInv
<1>9. QED
  BY <1>5, <1>6, <1>7, <1>8 DEF TranInv

(* The handset seizes a channel, or asks again.                             *)
LEMMA HandsetRuns ==
  ASSUME TypeOK, LoopsOK, TranInv, NEW c \in Chans,
         \/ \E i \in Imsis, msg \in Messages : Establish(c, i, msg)
         \/ \E t \in MoTrans : Request(c, t)
  PROVE  TranInv'
<1>1. ASSUME NEW i \in Imsis, NEW msg \in Messages, Establish(c, i, msg) PROVE TranInv'
  <2>1. PICK x \in Contexts :
          chan' = [chan EXCEPT ![c] = [chan[c] EXCEPT
                 !.loop = "open", !.ctx = x, !.who = i, !.inbox = <<msg>>]]
    BY <1>1 DEF Establish
  <2>2. /\ \A e \in Chans : chan'[e].hand = chan[e].hand
        /\ \A e \in Chans \ {c} : chan'[e].inbox = chan[e].inbox
        /\ chan'[c].inbox = <<msg>>
    BY <2>1, ObjectTypes DEF TypeOK, L3Channels
  <2>3. UNCHANGED <<user, ctx>>
    BY <1>1 DEF Establish
  <2>4. CASE msg = "PagingResponse"
    <3>1. UNCHANGED tran
      BY <1>1, <2>4 DEF Establish
    <3>2. Running' /\ Queues' /\ Hands'
      BY <2>2, <2>3, <3>1, SameRunning, SameQueues, SameHands DEF TranInv
    <3>3. Range(chan'[c].inbox) = {"PagingResponse"} /\ IsInjective(chan'[c].inbox)
      BY <2>2, <2>4, SingleSeq
    <3>4. Inbox(c)' = {}
      BY <3>3 DEF Inbox
    <3>5. \A e \in Chans : /\ Inbox(e)' \subseteq Inbox(e) /\ IsInjective(chan'[e].inbox)
                           /\ \A t \in Inbox(e)' : tran'[t].state = "asked"
      BY <2>2, <3>1, <3>3, <3>4 DEF Inbox, TranInv, Requests
    <3>6. \A x1 \in Contexts : /\ Asked(x1)' \subseteq Asked(x1) /\ IsInjective(ctx'[x1].asked)
                               /\ \A t \in Asked(x1)' : tran'[t].state = "asked"
      BY <2>3, <3>1 DEF Asked, TranInv, Requests
    <3>7. Requests'
      BY <3>5, <3>6, FewerRequests DEF TranInv
    <3>8. QED
      BY <3>2, <3>7 DEF TranInv
  <2>5. CASE msg # "PagingResponse"
    <3>1. msg \in MoTrans /\ tran[msg].state = "unborn" /\ tran' = [tran EXCEPT ![msg].state = "asked"]
      BY <1>1, <2>5 DEF Establish, Messages
    <3>2. QED
      BY <2>2, <2>3, <3>1, RequestRuns
  <2>6. QED
    BY <2>4, <2>5
<1>2. ASSUME NEW t \in MoTrans, Request(c, t) PROVE TranInv'
  <2>1. /\ chan' = [chan EXCEPT ![c].inbox = Append(@, t)]
        /\ tran[t].state = "unborn" /\ tran' = [tran EXCEPT ![t].state = "asked"]
        /\ UNCHANGED <<user, ctx>>
    BY <1>2 DEF Request
  <2>2. /\ \A e \in Chans : chan'[e].hand = chan[e].hand
        /\ \A e \in Chans \ {c} : chan'[e].inbox = chan[e].inbox
        /\ chan'[c].inbox = Append(chan[c].inbox, t)
    BY <2>1, ObjectTypes DEF TypeOK, L3Channels
  <2>3. QED
    BY <2>1, <2>2, RequestRuns
<1>3. QED
  BY <1>1, <1>2
(* A transaction that ran nowhere takes a slot, and only what was in it     *)
(* dies.                                                                    *)
LEMMA Starts ==
  ASSUME TypeOK, Running, NEW x \in Contexts, NEW s \in Slots, NEW t \in Trans,
         tran[t].state # "running",
         ctx'[x].slot = [ctx[x].slot EXCEPT ![s] = t],
         \A y \in Contexts \ {x} : ctx'[y].slot = ctx[y].slot,
         tran'[t].state = "running", tran'[t].ctx = x,
         \A v \in Trans \ {t} : /\ v # ctx[x].slot[s] => tran'[v] = tran[v]
                                /\ v = ctx[x].slot[s] => tran'[v].state = "dead"
  PROVE  /\ Running'
         /\ \A v \in Trans \ {t} : /\ tran[v].state # "running" => tran'[v] = tran[v]
                                   /\ tran'[v].state # "dead" => tran'[v] = tran[v]
<1> DEFINE dead == {ctx[x].slot[s]}
<1>1. \A v \in Trans : v \in dead <=> v = ctx[x].slot[s]
  OBVIOUS
<1>2. \A v \in dead \cap Trans : tran[v].state = "running"
  BY NoneAssumption DEF Running, None
<1> HIDE DEF dead
<1>3. \A v \in Trans \ {t} : /\ v \notin dead => tran'[v] = tran[v]
                             /\ v \in dead => tran'[v].state = "dead"
  BY <1>1
<1>4. Running'
  BY <1>1, <1>3, PutRuns
<1>5. QED
  BY <1>2, <1>3, <1>4

(* The transactions after mmConnectTran.                                    *)
LEMMA ConnectedTran ==
  ASSUME TypeOK, NEW x \in Contexts, NEW s \in Slots, NEW t \in Trans,
         tran' = [Cancelled({ctx[x].slot[s]}) EXCEPT ![t].state = "running", ![t].ctx = x]
  PROVE  /\ tran'[t].state = "running" /\ tran'[t].ctx = x
         /\ \A v \in Trans \ {t} : /\ v # ctx[x].slot[s] => tran'[v] = tran[v]
                                   /\ v = ctx[x].slot[s] => tran'[v].state = "dead"
<1> DEFINE dead == {ctx[x].slot[s]}
           r == Cancelled(dead)
<1>1. r \in [Trans -> TranEntries]
  BY CancelledType
<1>2. tran' = [r EXCEPT ![t] = [r[t] EXCEPT !.state = "running", !.ctx = x]]
  BY <1>1
<1>3. \A v \in Trans : /\ v # ctx[x].slot[s] => r[v] = tran[v]
                       /\ v = ctx[x].slot[s] => r[v].state = "dead"
  BY CancelledValues
<1> HIDE DEF r
<1>4. tran'[t] = [r[t] EXCEPT !.state = "running", !.ctx = x] /\ \A v \in Trans \ {t} : tran'[v] = r[v]
  BY <1>1, <1>2
<1>5. r[t] \in TranEntries
  BY <1>1
<1>6. QED
  BY <1>3, <1>4, <1>5 DEF TranEntries

(* The contexts and the transactions after mmConnectTran.                   *)
LEMMA ConnectValues ==
  ASSUME TypeOK, NEW x \in Contexts, NEW s \in Slots, NEW t \in Trans, Connect(x, s, t)
  PROVE  /\ ctx'[x].slot = [ctx[x].slot EXCEPT ![s] = t]
         /\ \A y \in Contexts \ {x} : ctx'[y].slot = ctx[y].slot
         /\ \A y \in Contexts : ctx'[y].asked = ctx[y].asked
         /\ tran'[t].state = "running" /\ tran'[t].ctx = x
         /\ \A v \in Trans \ {t} : /\ v # ctx[x].slot[s] => tran'[v] = tran[v]
                                   /\ v = ctx[x].slot[s] => tran'[v].state = "dead"
<1>1. /\ ctx'[x].slot = [ctx[x].slot EXCEPT ![s] = t]
      /\ \A y \in Contexts \ {x} : ctx'[y].slot = ctx[y].slot
      /\ \A y \in Contexts : ctx'[y].asked = ctx[y].asked
  BY ObjectTypes DEF Connect, TypeOK, MMContexts
<1>2. /\ tran'[t].state = "running" /\ tran'[t].ctx = x
      /\ \A v \in Trans \ {t} : /\ v # ctx[x].slot[s] => tran'[v] = tran[v]
                                /\ v = ctx[x].slot[s] => tran'[v].state = "dead"
  BY ConnectedTran DEF Connect
<1>3. QED
  BY <1>1, <1>2

(* mmConnectTran of what runs nowhere yet.                                  *)
LEMMA ConnectRuns ==
  ASSUME TypeOK, Running, NEW x \in Contexts, NEW s \in Slots, NEW t \in Trans,
         tran[t].state # "running", Connect(x, s, t)
  PROVE  /\ Running' /\ tran'[t].state = "running"
         /\ \A y \in Contexts : ctx'[y].asked = ctx[y].asked
         /\ \A v \in Trans \ {t} : /\ tran[v].state # "running" => tran'[v] = tran[v]
                                   /\ tran'[v].state # "dead" => tran'[v] = tran[v]
<1>1. /\ ctx'[x].slot = [ctx[x].slot EXCEPT ![s] = t]
      /\ \A y \in Contexts \ {x} : ctx'[y].slot = ctx[y].slot
      /\ \A y \in Contexts : ctx'[y].asked = ctx[y].asked
      /\ tran'[t].state = "running" /\ tran'[t].ctx = x
      /\ \A v \in Trans \ {t} : /\ v # ctx[x].slot[s] => tran'[v] = tran[v]
                                /\ v = ctx[x].slot[s] => tran'[v].state = "dead"
  BY ConnectValues
<1>2. /\ Running'
      /\ \A v \in Trans \ {t} : /\ tran[v].state # "running" => tran'[v] = tran[v]
                                /\ tran'[v].state # "dead" => tran'[v] = tran[v]
  BY <1>1, Starts
<1>3. QED
  BY <1>1, <1>2

(* A loop reads the first message of its inbox.                             *)
LEMMA InboxRead ==
  ASSUME TypeOK, Requests, NEW c \in Chans, chan[c].inbox # <<>>,
         \A e \in Chans \ {c} : chan'[e].inbox = chan[e].inbox,
         chan'[c].inbox = Tail(chan[c].inbox)
  PROVE  /\ \A e \in Chans : /\ Inbox(e)' \subseteq Inbox(e) /\ IsInjective(chan'[e].inbox)
                             /\ Head(chan[c].inbox) \notin Inbox(e)'
         /\ Head(chan[c].inbox) # "PagingResponse" => Head(chan[c].inbox) \in Inbox(c)
<1> DEFINE h == Head(chan[c].inbox)
<1>1. chan[c].inbox \in Seq(Messages) /\ IsInjective(chan[c].inbox)
  BY ObjectTypes DEF L3Channels, Requests
<1>2. /\ IsInjective(chan'[c].inbox) /\ Range(chan'[c].inbox) = Range(chan[c].inbox) \ {h}
      /\ h \in Range(chan[c].inbox)
  BY <1>1, TailSeq
<1>3. Inbox(c)' = Inbox(c) \ {h} /\ (h # "PagingResponse" => h \in Inbox(c))
  BY <1>2 DEF Inbox
<1>4. \A e \in Chans \ {c} : Inbox(e)' = Inbox(e) /\ IsInjective(chan'[e].inbox)
  BY DEF Inbox, Requests
<1>5. \A e \in Chans : "PagingResponse" \notin Inbox(e)
  BY DEF Inbox
<1>6. \A e \in Chans \ {c} : Inbox(c) \cap Inbox(e) = {}
  BY DEF Requests
<1> HIDE DEF h
<1>7. \A e \in Chans : h \notin Inbox(e)'
  BY <1>3, <1>4, <1>5, <1>6
<1>8. QED
  BY <1>2, <1>3, <1>4, <1>7 DEF h

(* The two kinds of message it may read.                                    *)
LEMMA ReadPagingRuns ==
  ASSUME TypeOK, LoopsOK, TranInv, NEW c \in Chans, ReadPagingResponse(c)
  PROVE  TranInv'
<1> DEFINE x == chan[c].ctx
           i == chan[c].who
<1>1. x \in Contexts /\ i \in Imsis
  BY OpenLoop DEF ReadPagingResponse, Serving, Busy
<1>2. chan[c].inbox # <<>> /\ chan' = [chan EXCEPT ![c].inbox = Tail(@)]
  BY DEF ReadPagingResponse
<1>3. /\ \A e \in Chans : chan'[e].hand = chan[e].hand
      /\ \A e \in Chans \ {c} : chan'[e].inbox = chan[e].inbox
      /\ chan'[c].inbox = Tail(chan[c].inbox)
  BY <1>2, ObjectTypes DEF TypeOK, L3Channels
<1>4. \A e \in Chans : Inbox(e)' \subseteq Inbox(e) /\ IsInjective(chan'[e].inbox)
  BY <1>2, <1>3, InboxRead DEF TranInv
<1>5. mmcLink(x, i) \/ UNCHANGED <<user, ctx, tran>>
  BY DEF ReadPagingResponse
<1> HIDE DEF x, i
<1>6. /\ Running' /\ Queues' /\ Hands'
      /\ \A y \in Contexts : ctx'[y].asked = ctx[y].asked
      /\ \A t \in Trans : tran'[t].state = tran[t].state
  <2>1. CASE mmcLink(x, i)
    BY <1>1, <1>3, <2>1, LinkRuns
  <2>2. CASE UNCHANGED <<user, ctx, tran>>
    BY <1>3, <2>2, SameRunning, SameQueues, SameHands DEF TranInv
  <2>3. QED
    BY <1>5, <2>1, <2>2
<1>7. /\ \A e \in Chans : Inbox(e) \subseteq Trans
      /\ \A y \in Contexts : Asked(y) \subseteq Trans
  BY RequestTypes
<1>8. \A e \in Chans : /\ Inbox(e)' \subseteq Inbox(e) /\ IsInjective(chan'[e].inbox)
                       /\ \A t \in Inbox(e)' : tran'[t].state = "asked"
  <2>1. \A e \in Chans : \A t \in Inbox(e) : tran[t].state = "asked"
    BY DEF TranInv, Requests
  <2>2. QED
    BY <1>4, <1>6, <1>7, <2>1
<1>9. \A y \in Contexts : /\ Asked(y)' \subseteq Asked(y) /\ IsInjective(ctx'[y].asked)
                          /\ \A t \in Asked(y)' : tran'[t].state = "asked"
  BY <1>6, <1>7 DEF Asked, TranInv, Requests
<1>10. Requests'
  BY <1>8, <1>9, FewerRequests DEF TranInv
<1>11. QED
  BY <1>6, <1>10 DEF TranInv

LEMMA ReadRequestRuns ==
  ASSUME TypeOK, LoopsOK, TranInv, NEW c \in Chans, ReadRequest(c)
  PROVE  TranInv'
<1>1. PICK x \in Contexts, t \in MoTrans : x = chan[c].ctx /\ t = Head(chan[c].inbox)
  BY OpenLoop DEF ReadRequest, Serving
<1>2. chan[c].inbox # <<>> /\ chan' = [chan EXCEPT ![c].inbox = Tail(@)] /\ UNCHANGED user
  BY DEF ReadRequest
<1>3. /\ \A e \in Chans : chan'[e].hand = chan[e].hand
      /\ \A e \in Chans \ {c} : chan'[e].inbox = chan[e].inbox
      /\ chan'[c].inbox = Tail(chan[c].inbox)
  BY <1>2, ObjectTypes DEF TypeOK, L3Channels
<1>4. /\ \A e \in Chans : Inbox(e)' \subseteq Inbox(e) /\ IsInjective(chan'[e].inbox) /\ t \notin Inbox(e)'
      /\ t \in Inbox(c) /\ t \in Trans
  BY <1>1, <1>2, <1>3, InboxRead, NoneAssumption DEF TranInv, Trans
<1>5. tran[t].state = "asked" /\ \A y \in Contexts : t \notin Asked(y)
  BY <1>4 DEF TranInv, Requests
<1>6. CASE t \in Lurs
  <2>1. Connect(x, "TE_MM", t)
    BY <1>1, <1>6 DEF ReadRequest
  <2>2. "TE_MM" \in Slots
    BY DEF Slots
  <2>4. /\ Running' /\ tran'[t].state = "running"
        /\ \A y \in Contexts : ctx'[y].asked = ctx[y].asked
        /\ \A v \in Trans \ {t} : /\ tran[v].state # "running" => tran'[v] = tran[v]
                                  /\ tran'[v].state # "dead" => tran'[v] = tran[v]
    BY <1>4, <1>5, <2>1, <2>2, ConnectRuns DEF TranInv
  <2>5. Queues'
    BY <1>2, <1>5, <2>4, SameQueues DEF TranInv
  <2>6. Hands'
    BY <1>3, <1>5, <2>4, SameHands DEF TranInv
  <2>7. Requests'
    <3>1. /\ \A e \in Chans : Inbox(e) \subseteq Trans /\ \A v \in Inbox(e) : tran[v].state = "asked"
          /\ \A y \in Contexts : Asked(y) \subseteq Trans /\ \A v \in Asked(y) : tran[v].state = "asked"
      BY RequestTypes DEF TranInv, Requests
    <3>2. \A e \in Chans : /\ Inbox(e)' \subseteq Inbox(e) /\ IsInjective(chan'[e].inbox)
                           /\ \A v \in Inbox(e)' : tran'[v].state = "asked"
      BY <1>4, <2>4, <3>1
    <3>3. \A y \in Contexts : Asked(y)' = Asked(y) /\ IsInjective(ctx'[y].asked)
      BY <2>4 DEF Asked, TranInv, Requests
    <3>4. \A y \in Contexts : \A v \in Asked(y)' : tran'[v].state = "asked"
      BY <1>5, <2>4, <3>1, <3>3
    <3>5. QED
      BY <3>2, <3>3, <3>4, FewerRequests DEF TranInv
  <2>8. QED
    BY <2>4, <2>5, <2>6, <2>7 DEF TranInv
<1>7. CASE t \notin Lurs
  <2>1. ctx' = [ctx EXCEPT ![x].asked = Append(@, t)] /\ UNCHANGED tran
    BY <1>1, <1>7 DEF ReadRequest
  <2>2. /\ \A y \in Contexts : ctx'[y].slot = ctx[y].slot
        /\ \A y \in Contexts \ {x} : ctx'[y].asked = ctx[y].asked
        /\ ctx'[x].asked = Append(ctx[x].asked, t)
    BY <2>1, ObjectTypes DEF TypeOK, MMContexts
  <2>3. t \in Mocs \cup MoSmss
    BY <1>7 DEF MoTrans
  <2>4. Requests'
    <3>1. UNCHANGED tran /\ t = Head(chan[c].inbox) /\ Requests
      BY <1>1, <2>1 DEF TranInv
    <3>2. QED
      BY <1>2, <1>3, <2>2, <2>3, <3>1, RequestMoves
  <2>5. Running' /\ Queues' /\ Hands'
    BY <1>2, <1>3, <2>1, <2>2, SameRunning, SameQueues, SameHands DEF TranInv
  <2>6. QED
    BY <2>4, <2>5 DEF TranInv
<1>8. QED
  BY <1>6, <1>7
(* The first request of a context is taken out.                             *)
LEMMA AskedRead ==
  ASSUME TypeOK, Requests, NEW x \in Contexts, ctx[x].asked # <<>>,
         \A y \in Contexts \ {x} : ctx'[y].asked = ctx[y].asked,
         ctx'[x].asked = Tail(ctx[x].asked)
  PROVE  /\ \A y \in Contexts : /\ Asked(y)' \subseteq Asked(y) /\ IsInjective(ctx'[y].asked)
                                /\ Head(ctx[x].asked) \notin Asked(y)'
         /\ Head(ctx[x].asked) \in Asked(x) /\ Head(ctx[x].asked) \in Trans
         /\ tran[Head(ctx[x].asked)].state = "asked"
         /\ \A c \in Chans : Head(ctx[x].asked) \notin Inbox(c)
<1> DEFINE h == Head(ctx[x].asked)
<1>1. ctx[x].asked \in Seq(Mocs \cup MoSmss) /\ IsInjective(ctx[x].asked)
  BY ObjectTypes DEF MMContexts, Requests
<1>2. /\ IsInjective(ctx'[x].asked) /\ Asked(x)' = Asked(x) \ {h} /\ h \in Asked(x)
  BY <1>1, TailSeq DEF Asked
<1>3. \A y \in Contexts \ {x} : Asked(y)' = Asked(y) /\ IsInjective(ctx'[y].asked)
  BY DEF Asked, Requests
<1>4. \A y \in Contexts \ {x} : Asked(x) \cap Asked(y) = {}
  BY DEF Requests
<1>5. \A c \in Chans : Inbox(c) \cap Asked(x) = {}
  BY DEF Requests
<1>6. h \in Trans /\ tran[h].state = "asked"
  BY <1>2, RequestTypes DEF Requests
<1> HIDE DEF h
<1>7. \A y \in Contexts : h \notin Asked(y)'
  BY <1>2, <1>3, <1>4
<1>8. \A c \in Chans : h \notin Inbox(c)
  BY <1>2, <1>5
<1>9. QED
  BY <1>2, <1>3, <1>6, <1>7, <1>8 DEF h

(* It starts, or is ignored.                                                *)
LEMMA RequestTaken ==
  ASSUME TypeOK, TranInv, NEW x \in Contexts, NEW t, t = Head(ctx[x].asked),
         ctx[x].asked # <<>>, ctx'[x].asked = Tail(ctx[x].asked),
         \A y \in Contexts \ {x} : ctx'[y].asked = ctx[y].asked,
         UNCHANGED <<user, chan>>, Running', tran'[t].state \in {"running", "dead"},
         \A v \in Trans \ {t} : /\ tran[v].state # "running" => tran'[v] = tran[v]
                                /\ tran'[v].state # "dead" => tran'[v] = tran[v]
  PROVE  TranInv'
<1>1. /\ \A y \in Contexts : Asked(y)' \subseteq Asked(y) /\ IsInjective(ctx'[y].asked) /\ t \notin Asked(y)'
      /\ t \in Trans /\ tran[t].state = "asked" /\ \A c \in Chans : t \notin Inbox(c)
  BY AskedRead DEF TranInv
<1>2. Queues'
  BY <1>1, SameQueues DEF TranInv
<1>3. Hands'
  BY <1>1, SameHands DEF TranInv
<1>4. /\ \A e \in Chans : Inbox(e) \subseteq Trans /\ \A v \in Inbox(e) : tran[v].state = "asked"
      /\ \A y \in Contexts : Asked(y) \subseteq Trans /\ \A v \in Asked(y) : tran[v].state = "asked"
  BY RequestTypes DEF TranInv, Requests
<1>5. \A e \in Chans : Inbox(e)' = Inbox(e) /\ IsInjective(chan'[e].inbox)
  BY DEF Inbox, TranInv, Requests
<1>6. \A e \in Chans : \A v \in Inbox(e)' : tran'[v].state = "asked"
  BY <1>1, <1>4, <1>5
<1>7. \A y \in Contexts : \A v \in Asked(y)' : tran'[v].state = "asked"
  BY <1>1, <1>4
<1>8. Requests'
  BY <1>1, <1>5, <1>6, <1>7, FewerRequests DEF TranInv
<1>9. QED
  BY <1>2, <1>3, <1>8 DEF TranInv

(* With both slots taken, the older MO-SMS dies and the newer one moves up. *)
LEMMA SecondMoSms ==
  ASSUME TypeOK, Running, NEW x \in Contexts, NEW t \in Trans, tran[t].state # "running",
         ctx[x].slot["TE_MOSMS1"] # None, ctx[x].slot["TE_MOSMS2"] # None,
         ctx'[x].slot = [ctx[x].slot EXCEPT !["TE_MOSMS1"] = ctx[x].slot["TE_MOSMS2"],
                                            !["TE_MOSMS2"] = t],
         \A y \in Contexts \ {x} : ctx'[y].slot = ctx[y].slot,
         tran'[t].state = "running", tran'[t].ctx = x,
         \A v \in Trans \ {t} : /\ v # ctx[x].slot["TE_MOSMS1"] => tran'[v] = tran[v]
                                /\ v = ctx[x].slot["TE_MOSMS1"] => tran'[v].state = "dead"
  PROVE  Running'
<1> DEFINE f == [ctx[x].slot EXCEPT !["TE_MOSMS1"] = ctx[x].slot["TE_MOSMS2"], !["TE_MOSMS2"] = t]
           g == ctx[x].slot
<1>1. g \in [Slots -> Trans \cup {None}] /\ {"TE_MOSMS1", "TE_MOSMS2"} \subseteq Slots
  BY ObjectTypes DEF MMContexts, Slots
<1>2. /\ f \in [Slots -> Trans \cup {None}] /\ f["TE_MOSMS1"] = g["TE_MOSMS2"] /\ f["TE_MOSMS2"] = t
      /\ \A r \in Slots \ {"TE_MOSMS1", "TE_MOSMS2"} : f[r] = g[r]
  BY <1>1
<1>3. ctx'[x].slot = f
  OBVIOUS
<1>4. \A r \in Slots : g[r] # None =>
          /\ g[r] \in Trans \ {t} /\ tran[g[r]].state = "running" /\ tran[g[r]].ctx = x
          /\ \A w \in Slots : g[w] = g[r] => w = r
  BY <1>1 DEF Running
<1>5. g["TE_MOSMS1"] # None /\ g["TE_MOSMS2"] # None /\ t # None
  BY NoneAssumption DEF None
<1>6. \A v \in Trans \ {t} : /\ v # g["TE_MOSMS1"] => tran'[v] = tran[v]
                             /\ v = g["TE_MOSMS1"] => tran'[v].state = "dead"
  OBVIOUS
<1>7. \A v \in Trans : tran[v].state = "running" /\ tran[v].ctx = x => \E r \in Slots : g[r] = v
  BY DEF Running
<1> HIDE DEF f, g
<1>8. ASSUME NEW r \in Slots, f[r] # None
      PROVE  /\ tran'[f[r]].state = "running" /\ tran'[f[r]].ctx = x
             /\ \A w \in Slots : f[w] = f[r] => w = r
  <2>1. CASE r = "TE_MOSMS2"
    BY <2>1, <1>2, <1>4, <1>5
  <2>2. CASE r = "TE_MOSMS1"
    <3>1. f[r] = g["TE_MOSMS2"] /\ f[r] \in Trans \ {t} /\ f[r] # g["TE_MOSMS1"]
      BY <2>2, <1>1, <1>2, <1>4, <1>5
    <3>2. QED
      BY <3>1, <2>2, <1>1, <1>2, <1>4, <1>5, <1>6
  <2>3. CASE r \notin {"TE_MOSMS1", "TE_MOSMS2"}
    <3>1. f[r] = g[r] /\ f[r] \in Trans \ {t} /\ f[r] # g["TE_MOSMS1"] /\ f[r] # g["TE_MOSMS2"]
      BY <2>3, <1>1, <1>2, <1>4, <1>5, <1>8
    <3>2. tran'[f[r]].state = "running" /\ tran'[f[r]].ctx = x
      BY <3>1, <1>4, <1>6, <1>8
    <3>3. \A w \in Slots : f[w] = f[r] => w = r
      BY <3>1, <1>1, <1>2, <1>4, <1>8
    <3>4. QED
      BY <3>2, <3>3
  <2>4. QED
    BY <2>1, <2>2, <2>3
<1>9. ASSUME NEW v \in Trans, tran'[v].state = "running", \A r \in Slots : f[r] # v
      PROVE  tran[v].state = "running" /\ tran[v].ctx # x /\ tran'[v].ctx = tran[v].ctx
  <2>1. v # t /\ v # g["TE_MOSMS2"]
    BY <1>1, <1>2, <1>9
  <2>2. v # g["TE_MOSMS1"] /\ tran'[v] = tran[v]
    BY <2>1, <1>6, <1>9
  <2>3. \A r \in Slots : g[r] # v
    BY <1>2, <1>9, <2>1, <2>2
  <2>4. QED
    BY <1>7, <1>9, <2>2, <2>3
<1>10. ASSUME NEW v \in Trans, tran[v].state = "running", tran[v].ctx # x
       PROVE  tran'[v].state = "running" /\ tran'[v].ctx = tran[v].ctx
  <2>1. v # t /\ v # g["TE_MOSMS1"]
    BY <1>1, <1>4, <1>5, <1>10
  <2>2. QED
    BY <2>1, <1>6, <1>10
<1>11. QED
  BY <1>2, <1>3, <1>8, <1>9, <1>10, OneContextRuns
(* A slot that was empty is taken.                                          *)
LEMMA SlotGiven ==
  ASSUME TypeOK, Running, NEW x \in Contexts, NEW s \in Slots, NEW t \in Trans,
         tran[t].state # "running",
         ctx'[x].slot = [ctx[x].slot EXCEPT ![s] = t],
         \A y \in Contexts \ {x} : ctx'[y].slot = ctx[y].slot,
         tran'[t].state = "running", tran'[t].ctx = x,
         ctx[x].slot[s] = None, \A v \in Trans \ {t} : tran'[v] = tran[v]
  PROVE  Running'
<1>1. \A v \in Trans : v # None
  BY NoneAssumption DEF None
<1>2. \A v \in Trans \ {t} : /\ v # ctx[x].slot[s] => tran'[v] = tran[v]
                             /\ v = ctx[x].slot[s] => tran'[v].state = "dead"
  BY <1>1
<1>3. QED
  BY <1>2, Starts

(* The three ways a MO-SMS may begin: ignored, in an empty slot, or in      *)
(* place of the older one.                                                  *)
LEMMA MoSmsValues ==
  ASSUME TypeOK, NEW x \in Contexts, NEW t \in Trans, NEW k \in MMContexts,
         k.slot = ctx[x].slot, k.asked = Tail(ctx[x].asked), StartMoSms(x, t, k),
         NEW first, first = ctx[x].slot["TE_MOSMS1"], NEW second, second = ctx[x].slot["TE_MOSMS2"]
  PROVE  /\ ctx'[x].asked = Tail(ctx[x].asked)
         /\ \A y \in Contexts \ {x} : ctx'[y].slot = ctx[y].slot /\ ctx'[y].asked = ctx[y].asked
         /\ \/ /\ tran'[t].state = "dead" /\ ctx'[x].slot = ctx[x].slot
               /\ \A v \in Trans \ {t} : tran'[v] = tran[v]
            \/ /\ tran'[t].state = "running" /\ tran'[t].ctx = x
               /\ \E s \in Slots : /\ ctx[x].slot[s] = None
                                   /\ ctx'[x].slot = [ctx[x].slot EXCEPT ![s] = t]
               /\ \A v \in Trans \ {t} : tran'[v] = tran[v]
            \/ /\ first # None /\ second # None /\ tran'[t].state = "running" /\ tran'[t].ctx = x
               /\ ctx'[x].slot = [ctx[x].slot EXCEPT !["TE_MOSMS1"] = second, !["TE_MOSMS2"] = t]
               /\ \A v \in Trans \ {t} : /\ v # first => tran'[v] = tran[v]
                                         /\ v = first => tran'[v].state = "dead"
<1> DEFINE g == ctx[x].slot
           both == first # None /\ second # None
<1>1. /\ ctx[x] \in MMContexts /\ g \in [Slots -> Trans \cup {None}]
      /\ {"TE_MOSMS1", "TE_MOSMS2"} \subseteq Slots /\ tran[t] \in TranEntries
  BY ObjectTypes DEF MMContexts, Slots
<1>2. PICK slots : slots = IF k.slot["TE_MOSMS1"] # None /\ k.slot["TE_MOSMS2"] # None
                           THEN Disconnected(k.slot, k.slot["TE_MOSMS1"]) ELSE k.slot
  OBVIOUS
<1>9. PICK dead : dead = IF k.slot["TE_MOSMS1"] # None /\ k.slot["TE_MOSMS2"] # None
                         THEN {k.slot["TE_MOSMS1"]} ELSE {}
  OBVIOUS
<1>3. slots = IF both THEN Disconnected(g, first) ELSE g
  BY <1>2
<1>4. PICK s : s = IF slots["TE_MOSMS1"] = None THEN "TE_MOSMS1" ELSE "TE_MOSMS2"
  OBVIOUS
<1>5. dead = IF both THEN {first} ELSE {}
  BY <1>9
<1>6. CASE /\ ctx' = [ctx EXCEPT ![x] = k] /\ tran' = [tran EXCEPT ![t].state = "dead"]
  <2>1. ctx'[x] = k /\ \A y \in Contexts \ {x} : ctx'[y] = ctx[y]
    BY <1>6 DEF TypeOK
  <2>2. tran'[t].state = "dead" /\ \A v \in Trans \ {t} : tran'[v] = tran[v]
    BY <1>1, <1>6 DEF TypeOK, TranEntries
  <2>3. QED
    BY <2>1, <2>2
<1>7. CASE /\ ctx' = [ctx EXCEPT ![x] = [k EXCEPT !.slot = [slots EXCEPT ![s] = t]]]
           /\ tran' = [Cancelled(dead) EXCEPT ![t].state = "running", ![t].ctx = x]
  <2>1. /\ ctx'[x].slot = [slots EXCEPT ![s] = t] /\ ctx'[x].asked = Tail(ctx[x].asked)
        /\ \A y \in Contexts \ {x} : ctx'[y] = ctx[y]
    BY <1>1, <1>7 DEF TypeOK, MMContexts
  <2>2. /\ tran'[t].state = "running" /\ tran'[t].ctx = x
        /\ \A v \in Trans \ {t} : /\ v \notin dead => tran'[v] = tran[v]
                                  /\ v \in dead => tran'[v].state = "dead"
    BY <1>7, StartedValues
  <2>3. CASE ~both
    <3>1. slots = g /\ dead = {}
      BY <2>3, <1>3, <1>5
    <3>2. s \in Slots /\ g[s] = None
      BY <2>3, <3>1, <1>1, <1>4
    <3>3. \A v \in Trans \ {t} : tran'[v] = tran[v]
      BY <2>2, <3>1
    <3>4. ctx'[x].slot = [g EXCEPT ![s] = t]
      BY <2>1, <3>1
    <3>5. QED
      BY <2>1, <2>2, <3>2, <3>3, <3>4
  <2>4. CASE both
    <3>1. slots = [g EXCEPT !["TE_MOSMS1"] = g["TE_MOSMS2"], !["TE_MOSMS2"] = None] /\ dead = {first}
      BY <2>4, <1>3, <1>5 DEF Disconnected
    <3>2. s = "TE_MOSMS2"
      BY <2>4, <3>1, <1>1, <1>4
    <3>3. ctx'[x].slot = [g EXCEPT !["TE_MOSMS1"] = second, !["TE_MOSMS2"] = t]
      BY <2>1, <1>1, <3>1, <3>2
    <3>4. \A v \in Trans \ {t} : /\ v # first => tran'[v] = tran[v]
                                 /\ v = first => tran'[v].state = "dead"
      BY <2>2, <3>1
    <3>5. QED
      BY <2>1, <2>2, <2>4, <3>3, <3>4
  <2>5. QED
    BY <2>3, <2>4
<1>8. \/ ctx' = [ctx EXCEPT ![x] = k] /\ tran' = [tran EXCEPT ![t].state = "dead"]
      \/ /\ ctx' = [ctx EXCEPT ![x] = [k EXCEPT !.slot = [slots EXCEPT ![s] = t]]]
         /\ tran' = [Cancelled(dead) EXCEPT ![t].state = "running", ![t].ctx = x]
  BY Zenon, <1>2, <1>4, <1>9 DEF StartMoSms
<1>10. QED
  BY <1>6, <1>7, <1>8

(* NewCMServiceResponder starts a request.                                  *)
LEMMA ResponderRuns ==
  ASSUME TypeOK, LoopsOK, TranInv, NEW c \in Chans, NewCMServiceResponder(c)
  PROVE  TranInv'
<1>1. PICK x \in Contexts : x = chan[c].ctx
  BY Zenon, OpenLoop DEF NewCMServiceResponder, Idle, Serving
<1>2. ctx[x].asked # <<>> /\ UNCHANGED <<user, chan>>
  BY Zenon, <1>1 DEF NewCMServiceResponder
<1>3. PICK t : t = Head(ctx[x].asked)
  OBVIOUS
<1>4. PICK k : k = [ctx[x] EXCEPT !.asked = Tail(@)]
  OBVIOUS
<1>5. t \in Trans /\ tran[t].state = "asked"
  <2>1. ctx[x].asked \in Seq(Mocs \cup MoSmss)
    BY ObjectTypes DEF MMContexts
  <2>2. t \in Asked(x)
    BY <1>2, <1>3, <2>1, TailSeq DEF Asked, TranInv, Requests
  <2>3. QED
    BY <2>2, RequestTypes DEF TranInv, Requests
<1>6. /\ "TE_CS1" \in Slots /\ ctx[x] \in MMContexts /\ ctx[x].slot \in [Slots -> Trans \cup {None}]
  BY ObjectTypes DEF MMContexts, Slots
<1>7. k \in MMContexts /\ k.slot = ctx[x].slot /\ k.asked = Tail(ctx[x].asked)
  <2>1. Tail(ctx[x].asked) \in Seq(Mocs \cup MoSmss)
    BY <1>2, <1>6 DEF MMContexts
  <2>2. k \in MMContexts
    BY <1>4, <1>6, <2>1, ContextFields
  <2>3. QED
    BY <1>4, <1>6, <2>2 DEF MMContexts
<1>8. CASE /\ ctx' = [ctx EXCEPT ![x] = [k EXCEPT !.slot["TE_CS1"] = t]]
           /\ tran' = [Cancelled({k.slot["TE_CS1"]}) EXCEPT ![t].state = "running", ![t].ctx = x]
  <2>1. /\ ctx'[x].slot = [ctx[x].slot EXCEPT !["TE_CS1"] = t] /\ ctx'[x].asked = Tail(ctx[x].asked)
        /\ \A y \in Contexts \ {x} : ctx'[y].slot = ctx[y].slot /\ ctx'[y].asked = ctx[y].asked
    BY <1>4, <1>6, <1>7, <1>8 DEF TypeOK, MMContexts
  <2>2. PICK s \in Slots : s = "TE_CS1"
    BY <1>6
  <2>5. tran' = [Cancelled({ctx[x].slot[s]}) EXCEPT ![t].state = "running", ![t].ctx = x]
    BY <1>7, <1>8, <2>2
  <2>3. /\ tran'[t].state = "running" /\ tran'[t].ctx = x
        /\ \A v \in Trans \ {t} : /\ v # ctx[x].slot[s] => tran'[v] = tran[v]
                                  /\ v = ctx[x].slot[s] => tran'[v].state = "dead"
    BY <1>5, <2>5, ConnectedTran
  <2>4. /\ Running'
        /\ \A v \in Trans \ {t} : /\ tran[v].state # "running" => tran'[v] = tran[v]
                                  /\ tran'[v].state # "dead" => tran'[v] = tran[v]
    BY <1>5, <2>1, <2>2, <2>3, Starts DEF TranInv
  <2>6. QED
    BY <1>2, <1>3, <2>1, <2>3, <2>4, RequestTaken
<1>9. CASE StartMoSms(x, t, k)
  <2>1. PICK first, second : first = ctx[x].slot["TE_MOSMS1"] /\ second = ctx[x].slot["TE_MOSMS2"]
    OBVIOUS
  <2>6. /\ ctx'[x].asked = Tail(ctx[x].asked)
        /\ \A y \in Contexts \ {x} : ctx'[y].slot = ctx[y].slot /\ ctx'[y].asked = ctx[y].asked
        /\ \/ /\ tran'[t].state = "dead" /\ ctx'[x].slot = ctx[x].slot
              /\ \A v \in Trans \ {t} : tran'[v] = tran[v]
           \/ /\ tran'[t].state = "running" /\ tran'[t].ctx = x
              /\ \E s \in Slots : /\ ctx[x].slot[s] = None
                                  /\ ctx'[x].slot = [ctx[x].slot EXCEPT ![s] = t]
              /\ \A v \in Trans \ {t} : tran'[v] = tran[v]
           \/ /\ first # None /\ second # None /\ tran'[t].state = "running" /\ tran'[t].ctx = x
              /\ ctx'[x].slot = [ctx[x].slot EXCEPT !["TE_MOSMS1"] = second, !["TE_MOSMS2"] = t]
              /\ \A v \in Trans \ {t} : /\ v # first => tran'[v] = tran[v]
                                        /\ v = first => tran'[v].state = "dead"
    BY <1>5, <1>7, <1>9, <2>1, MoSmsValues
  <2>2. CASE /\ tran'[t].state = "dead" /\ ctx'[x].slot = ctx[x].slot
             /\ \A v \in Trans \ {t} : tran'[v] = tran[v]
    <3>1. \A y \in Contexts : ctx'[y].slot = ctx[y].slot
      BY <2>6, <2>2
    <3>2. \A v \in Trans : /\ tran[v].state = "running" => tran'[v].state = "running" /\ tran'[v].ctx = tran[v].ctx
                           /\ tran'[v].state = "running" => tran[v].state = "running"
      BY <1>5, <2>2
    <3>3. Running'
      BY <3>1, <3>2, SameRunning DEF TranInv
    <3>4. QED
      BY <1>2, <1>3, <2>6, <2>2, <3>3, RequestTaken
  <2>3. CASE /\ tran'[t].state = "running" /\ tran'[t].ctx = x
             /\ \E s \in Slots : /\ ctx[x].slot[s] = None
                                 /\ ctx'[x].slot = [ctx[x].slot EXCEPT ![s] = t]
             /\ \A v \in Trans \ {t} : tran'[v] = tran[v]
    <3>1. Running'
      BY <1>5, <2>6, <2>3, SlotGiven DEF TranInv
    <3>2. QED
      BY <1>2, <1>3, <2>6, <2>3, <3>1, RequestTaken
  <2>4. CASE /\ first # None /\ second # None /\ tran'[t].state = "running" /\ tran'[t].ctx = x
             /\ ctx'[x].slot = [ctx[x].slot EXCEPT !["TE_MOSMS1"] = second, !["TE_MOSMS2"] = t]
             /\ \A v \in Trans \ {t} : /\ v # first => tran'[v] = tran[v]
                                       /\ v = first => tran'[v].state = "dead"
    <3>1. Running'
      BY <1>5, <2>1, <2>6, <2>4, SecondMoSms DEF TranInv
    <3>2. \A v \in Trans \ {t} : /\ tran[v].state # "running" => tran'[v] = tran[v]
                                 /\ tran'[v].state # "dead" => tran'[v] = tran[v]
      <4>1. tran[first].state = "running"
        BY <2>1, <2>4 DEF TranInv, Running, Slots
      <4>2. QED
        BY <2>4, <4>1
    <3>3. QED
      BY <1>2, <1>3, <2>6, <2>4, <3>1, <3>2, RequestTaken
  <2>5. QED
    BY <2>6, <2>2, <2>3, <2>4
<1>10. QED
  BY Zenon, <1>1, <1>3, <1>4, <1>8, <1>9 DEF NewCMServiceResponder
(* mmuServiceMTQueues starts a call.                                        *)
LEMMA ServiceMTCRuns ==
  ASSUME TypeOK, LoopsOK, TranInv, NEW c \in Chans, ServiceMTC(c)
  PROVE  TranInv'
<1>1. PICK x \in Contexts : x = chan[c].ctx
  BY Zenon, OpenLoop DEF ServiceMTC, Idle, Serving
<1>2. PICK i \in Imsis : i = ctx[x].mmu
  BY Zenon, <1>1, ObjectTypes DEF ServiceMTC, MMContexts
<1>3. PICK t : t = Head(user[i].mtcq)
  OBVIOUS
<1>4. /\ user[i].mtcq # <<>> /\ user[i].mtcq \in Seq(Mtcs) /\ IsInjective(user[i].mtcq)
      /\ user[i].smsq \in Seq(MtSmss) /\ IsInjective(user[i].smsq)
  BY Zenon, <1>1, <1>2, ObjectTypes DEF ServiceMTC, Users, TranInv, Queues
<1>5. /\ IsInjective(Tail(user[i].mtcq)) /\ Range(Tail(user[i].mtcq)) = Range(user[i].mtcq) \ {t}
      /\ t \in Range(user[i].mtcq)
  BY <1>3, <1>4, TailSeq
<1>6. t \in Mtcs /\ t \in Trans /\ t \notin Range(user[i].smsq)
  BY <1>4, <1>5, RangeType, ServiceAssumption DEF Trans, MtTrans
<1>7. /\ Queued(user[i]) = Range(user[i].mtcq) \cup Range(user[i].smsq)
      /\ t \in Queued(user[i])
  BY <1>5, QueuedRange
<1>8. tran[t].state = "queued"
  BY <1>7 DEF TranInv, Queues
<1>9. Connect(x, "TE_CS1", t) /\ UNCHANGED chan /\ "TE_CS1" \in Slots
  BY Zenon, <1>1, <1>2, <1>3 DEF ServiceMTC, Slots
<1>10. /\ user'[i].mtcq = Tail(user[i].mtcq) /\ user'[i].smsq = user[i].smsq
       /\ \A j \in Imsis \ {i} : user'[j] = user[j]
  <2>1. user' = [user EXCEPT ![i].mtcq = Tail(@)]
    BY Zenon, <1>1, <1>2 DEF ServiceMTC
  <2>2. QED
    BY <2>1, ObjectTypes DEF TypeOK, Users
<1>11. /\ Running' /\ tran'[t].state = "running"
       /\ \A y \in Contexts : ctx'[y].asked = ctx[y].asked
       /\ \A v \in Trans \ {t} : /\ tran[v].state # "running" => tran'[v] = tran[v]
                                 /\ tran'[v].state # "dead" => tran'[v] = tran[v]
  BY <1>6, <1>8, <1>9, ConnectRuns DEF TranInv
<1>12. Queues'
  <2> DEFINE gone == {t}
  <2>1. Queued(user'[i]) = Range(user'[i].mtcq) \cup Range(user'[i].smsq)
    BY DEF Queued, Range
  <2>2. /\ gone \subseteq Queued(user[i]) /\ Queued(user'[i]) = Queued(user[i]) \ gone
        /\ IsInjective(user'[i].mtcq) /\ IsInjective(user'[i].smsq)
    BY <1>4, <1>5, <1>6, <1>7, <1>10, <2>1
  <2>3. /\ \A v \in gone : tran'[v].state # "queued"
        /\ \A v \in Trans \ gone : /\ tran[v].state = "queued" => tran'[v] = tran[v]
                                   /\ tran'[v].state = "queued" => tran[v].state = "queued"
    BY <1>11
  <2> HIDE DEF gone
  <2>4. QED
    BY <1>10, <2>2, <2>3, QueueLeft DEF TranInv
<1>13. \A v \in Trans : /\ tran[v].state \in {"hand", "asked"} => tran'[v] = tran[v]
                        /\ tran'[v].state = "hand" => tran[v].state = "hand"
  BY <1>8, <1>11
<1>14. Hands' /\ Requests'
  BY <1>9, <1>11, <1>13, SameHands, SameRequests DEF TranInv
<1>15. QED
  BY <1>11, <1>12, <1>14 DEF TranInv

(* It pops an MT-SMS: from the queue to the hand of the loop ...            *)
LEMMA ServiceMTSMSRuns ==
  ASSUME TypeOK, LoopsOK, TranInv, NEW c \in Chans, ServiceMTSMS(c)
  PROVE  TranInv'
<1>1. PICK x \in Contexts : x = chan[c].ctx
  BY Zenon, OpenLoop DEF ServiceMTSMS, Idle, Serving
<1>2. PICK i \in Imsis : i = ctx[x].mmu
  BY Zenon, <1>1, ObjectTypes DEF ServiceMTSMS, MMContexts
<1>3. PICK t : t = Head(user[i].smsq)
  OBVIOUS
<1>4. /\ user[i].smsq # <<>> /\ user[i].mtcq \in Seq(Mtcs) /\ IsInjective(user[i].mtcq)
      /\ user[i].smsq \in Seq(MtSmss) /\ IsInjective(user[i].smsq)
  BY Zenon, <1>1, <1>2, ObjectTypes DEF ServiceMTSMS, Users, TranInv, Queues
<1>5. /\ IsInjective(Tail(user[i].smsq)) /\ Range(Tail(user[i].smsq)) = Range(user[i].smsq) \ {t}
      /\ t \in Range(user[i].smsq)
  BY <1>3, <1>4, TailSeq
<1>6. t \in MtSmss /\ t \in Trans /\ t \notin Range(user[i].mtcq) /\ t # None
  BY <1>4, <1>5, RangeType, ServiceAssumption, NoneAssumption DEF Trans, MtTrans, None
<1>7. /\ Queued(user[i]) = Range(user[i].mtcq) \cup Range(user[i].smsq)
      /\ t \in Queued(user[i])
  BY <1>5, QueuedRange
<1>8. tran[t].state = "queued" /\ tran[t].imsi = i /\ i # None
  BY <1>7, NoneAssumption DEF TranInv, Queues, None
<1>9. /\ tran'[t].state = "hand" /\ tran'[t].imsi = i
      /\ \A v \in Trans \ {t} : tran'[v] = tran[v]
  <2>1. tran' = [tran EXCEPT ![t].state = "hand"]
    BY Zenon, <1>1, <1>2, <1>3 DEF ServiceMTSMS
  <2>2. QED
    BY <1>6, <1>8, <2>1, ObjectTypes DEF TypeOK, TranEntries
<1>10. /\ user'[i].smsq = Tail(user[i].smsq) /\ user'[i].mtcq = user[i].mtcq
       /\ \A j \in Imsis \ {i} : user'[j] = user[j]
  <2>1. user' = [user EXCEPT ![i].smsq = Tail(@)]
    BY Zenon, <1>1, <1>2 DEF ServiceMTSMS
  <2>2. QED
    BY <2>1, ObjectTypes DEF TypeOK, Users
<1>11. /\ chan[c].hand = None /\ chan'[c].hand = t /\ \A e \in Chans \ {c} : chan'[e] = chan[e]
       /\ \A e \in Chans : chan'[e].inbox = chan[e].inbox
  <2>1. chan' = [chan EXCEPT ![c].hand = t] /\ chan[c].hand = None
    BY Zenon, <1>1, <1>2, <1>3 DEF ServiceMTSMS, Idle, Serving
  <2>2. QED
    BY <2>1, ObjectTypes DEF TypeOK, L3Channels
<1>12. Queues'
  <2> DEFINE gone == {t}
  <2>1. Queued(user'[i]) = Range(user'[i].mtcq) \cup Range(user'[i].smsq)
    BY DEF Queued, Range
  <2>2. /\ gone \subseteq Queued(user[i]) /\ Queued(user'[i]) = Queued(user[i]) \ gone
        /\ IsInjective(user'[i].mtcq) /\ IsInjective(user'[i].smsq)
    BY <1>4, <1>5, <1>6, <1>7, <1>10, <2>1
  <2>3. /\ \A v \in gone : tran'[v].state # "queued"
        /\ \A v \in Trans \ gone : /\ tran[v].state = "queued" => tran'[v] = tran[v]
                                   /\ tran'[v].state = "queued" => tran[v].state = "queued"
    BY <1>9
  <2> HIDE DEF gone
  <2>4. QED
    BY <1>10, <2>2, <2>3, QueueLeft DEF TranInv
<1>13. UNCHANGED ctx
  BY Zenon DEF ServiceMTSMS
<1>14. \A v \in Trans : /\ tran[v].state \in {"running", "asked"} => tran'[v] = tran[v]
                        /\ tran'[v].state = "running" => tran[v].state = "running"
  BY <1>8, <1>9
<1>15. Running' /\ Requests'
  BY <1>11, <1>13, <1>14, SameRunning, SameRequests DEF TranInv
<1>16. Hands'
  <2>1. \A e \in Chans : chan[e].hand # None =>
            chan[e].hand \in Trans \ {t} /\ chan'[e].hand = chan[e].hand
    BY <1>8, <1>11, ObjectTypes DEF TranInv, Hands, L3Channels, Trans, MtTrans
  <2>2. \A e \in Chans \ {c} : chan'[e].hand = chan[e].hand
    BY <1>11
  <2>3. ASSUME NEW e \in Chans, chan'[e].hand # None
        PROVE  /\ tran'[chan'[e].hand].state = "hand" /\ tran'[chan'[e].hand].imsi # None
               /\ \A d \in Chans : chan'[d].hand = chan'[e].hand => d = e
    <3>1. CASE e = c
      <4>1. ASSUME NEW d \in Chans, d # c, chan'[d].hand = t PROVE FALSE
        <5>1. chan[d].hand = t
          BY <4>1, <2>2
        <5>2. QED
          BY <5>1, <2>1, <1>6
      <4>2. QED
        BY <3>1, <4>1, <1>8, <1>9, <1>11
    <3>2. CASE e # c
      <4>1. /\ chan'[e].hand = chan[e].hand /\ chan[e].hand \in Trans \ {t}
            /\ tran[chan[e].hand].state = "hand" /\ tran[chan[e].hand].imsi # None
            /\ \A d \in Chans : chan[d].hand = chan[e].hand => d = e
        BY <3>2, <2>3, <2>1, <2>2 DEF TranInv, Hands
      <4>2. \A d \in Chans : chan'[d].hand = chan'[e].hand => d = e
        BY <4>1, <1>11, <2>2
      <4>3. QED
        BY <4>1, <4>2, <1>9
    <3>3. QED
      BY <3>1, <3>2
  <2>4. ASSUME NEW v \in Trans, tran'[v].state = "hand" PROVE \E e \in Chans : chan'[e].hand = v
    <3>1. CASE v = t
      BY <3>1, <1>11
    <3>2. CASE v # t
      <4>1. PICK e \in Chans : chan[e].hand = v
        BY <3>2, <2>4, <1>9 DEF TranInv, Hands
      <4>2. QED
        BY <4>1, <2>1, NoneAssumption DEF None
    <3>3. QED
      BY <3>1, <3>2
  <2>5. QED
    BY <2>3, <2>4 DEF Hands
<1>17. QED
  BY <1>12, <1>15, <1>16 DEF TranInv

(* ... and from the hand to whatever context its subscriber has by then.    *)
LEMMA StartSMSRuns ==
  ASSUME TypeOK, TranInv, NEW c \in Chans, StartSMSTran(c)
  PROVE  TranInv'
<1>1. PICK t : t = chan[c].hand
  OBVIOUS
<1>2. t # None /\ t \in Trans /\ tran[t].state = "hand" /\ tran[t].imsi \in Imsis
  BY <1>1, ObjectTypes DEF StartSMSTran, L3Channels, TranEntries, Trans, MtTrans, TranInv, Hands
<1>3. PICK x \in Contexts : x = user[tran[t].imsi].ctx
  BY <1>1, <1>2, ObjectTypes DEF StartSMSTran, Users
<1>4. Connect(x, "TE_MTSMS", t) /\ "TE_MTSMS" \in Slots /\ UNCHANGED user
  BY <1>1, <1>3 DEF StartSMSTran, Slots
<1>5. /\ Running' /\ tran'[t].state = "running"
      /\ \A y \in Contexts : ctx'[y].asked = ctx[y].asked
      /\ \A v \in Trans \ {t} : /\ tran[v].state # "running" => tran'[v] = tran[v]
                                /\ tran'[v].state # "dead" => tran'[v] = tran[v]
  BY <1>2, <1>4, ConnectRuns DEF TranInv
<1>6. /\ chan'[c].hand = None /\ \A e \in Chans \ {c} : chan'[e] = chan[e]
      /\ \A e \in Chans : chan'[e].inbox = chan[e].inbox
  <2>1. chan' = [chan EXCEPT ![c].hand = None]
    BY DEF StartSMSTran
  <2>2. QED
    BY <2>1, ObjectTypes DEF TypeOK, L3Channels
<1>7. \A v \in Trans : /\ tran[v].state \in {"queued", "asked"} => tran'[v] = tran[v]
                       /\ tran'[v].state = "queued" => tran[v].state = "queued"
  BY <1>2, <1>5
<1>8. Queues' /\ Requests'
  BY <1>4, <1>5, <1>6, <1>7, SameQueues, SameRequests DEF TranInv
<1>9. Hands'
  <2>1. \A e \in Chans \ {c} : chan[e].hand # None =>
            /\ chan[e].hand \in Trans \ {t} /\ tran[chan[e].hand].state = "hand"
            /\ tran[chan[e].hand].imsi # None
            /\ \A d \in Chans : chan[d].hand = chan[e].hand => d = e
    BY <1>1, ObjectTypes DEF TranInv, Hands, L3Channels, Trans, MtTrans
  <2>2. ASSUME NEW e \in Chans, chan'[e].hand # None
        PROVE  /\ tran'[chan'[e].hand].state = "hand" /\ tran'[chan'[e].hand].imsi # None
               /\ \A d \in Chans : chan'[d].hand = chan'[e].hand => d = e
    BY <2>1, <2>2, <1>5, <1>6
  <2>3. ASSUME NEW v \in Trans, tran'[v].state = "hand" PROVE \E e \in Chans : chan'[e].hand = v
    <3>1. v # t /\ tran[v].state = "hand"
      BY <2>3, <1>5
    <3>2. PICK e \in Chans : chan[e].hand = v
      BY <3>1 DEF TranInv, Hands
    <3>3. QED
      BY <3>1, <3>2, <1>1, <1>6
  <2>4. QED
    BY <2>2, <2>3 DEF Hands
<1>10. QED
  BY <1>5, <1>8, <1>9 DEF TranInv

(* A state machine attaches the handset.                                    *)
LEMMA IdentifyRuns ==
  ASSUME TypeOK, LoopsOK, TranInv, NEW c \in Chans, Identify(c)
  PROVE  TranInv'
<1>1. PICK x \in Contexts, i \in Imsis : x = chan[c].ctx /\ i = chan[c].who
  BY OpenLoop DEF Identify, Serving, Busy
<1>2. mmcLink(x, i) /\ UNCHANGED chan
  BY <1>1 DEF Identify
<1>3. /\ Running' /\ Queues' /\ Hands'
      /\ \A y \in Contexts : ctx'[y].asked = ctx[y].asked
      /\ \A t \in Trans : tran'[t].state = tran[t].state
  BY <1>2, LinkRuns
<1>4. Requests'
  BY <1>2, <1>3, SameRequests DEF TranInv
<1>5. QED
  BY <1>3, <1>4 DEF TranInv
(* mmDisconnectTran takes one transaction out, and loses and doubles no     *)
(* other.                                                                   *)
LEMMA DisconnectedSlots ==
  ASSUME NEW g \in [Slots -> Trans \cup {None}], NEW t \in Trans,
         \A r, s \in Slots : g[r] # None /\ g[r] = g[s] => r = s
  PROVE  LET f == Disconnected(g, t)
         IN  /\ f \in [Slots -> Trans \cup {None}]
             /\ \A r \in Slots : f[r] # None => f[r] # t /\ \E s \in Slots : g[s] = f[r]
             /\ \A r, s \in Slots : f[r] # None /\ f[r] = f[s] => r = s
             /\ \A s \in Slots : g[s] \notin {t, None} => \E r \in Slots : f[r] = g[s]
<1>1. {"TE_MOSMS1", "TE_MOSMS2"} \subseteq Slots /\ t # None
  BY NoneAssumption DEF Slots, None
<1>2. PICK f : f = Disconnected(g, t)
  OBVIOUS
<1>3. CASE g["TE_MOSMS1"] = t
  <2>1. f = [g EXCEPT !["TE_MOSMS1"] = g["TE_MOSMS2"], !["TE_MOSMS2"] = None]
    BY <1>2, <1>3 DEF Disconnected
  <2>2. /\ f \in [Slots -> Trans \cup {None}]
        /\ f["TE_MOSMS1"] = g["TE_MOSMS2"] /\ f["TE_MOSMS2"] = None
        /\ \A r \in Slots \ {"TE_MOSMS1", "TE_MOSMS2"} : f[r] = g[r]
    BY <1>1, <2>1
  <2>3. \A r \in Slots \ {"TE_MOSMS1"} : g[r] # t
    BY <1>1, <1>3
  <2>4. \A r \in Slots : f[r] # None => f[r] # t /\ \E s \in Slots : g[s] = f[r]
    BY <1>1, <2>2, <2>3
  <2>5. \A r, s \in Slots : f[r] # None /\ f[r] = f[s] => r = s
    <3> SUFFICES ASSUME NEW r \in Slots, NEW s \in Slots, f[r] # None, f[r] = f[s] PROVE r = s
      OBVIOUS
    <3>1. r # "TE_MOSMS2" /\ s # "TE_MOSMS2"
      BY <2>2
    <3>2. CASE r = "TE_MOSMS1" /\ s # r
      BY <3>1, <3>2, <1>1, <2>2
    <3>3. CASE s = "TE_MOSMS1" /\ s # r
      BY <3>1, <3>3, <1>1, <2>2
    <3>4. CASE r # "TE_MOSMS1" /\ s # "TE_MOSMS1"
      BY <3>1, <3>4, <2>2
    <3>5. QED
      BY <3>2, <3>3, <3>4
  <2>6. \A s \in Slots : g[s] \notin {t, None} => \E r \in Slots : f[r] = g[s]
    <3> SUFFICES ASSUME NEW s \in Slots, g[s] \notin {t, None} PROVE \E r \in Slots : f[r] = g[s]
      OBVIOUS
    <3>1. CASE s = "TE_MOSMS2"
      BY <3>1, <1>1, <2>2
    <3>2. CASE s # "TE_MOSMS2"
      BY <3>2, <1>3, <2>2
    <3>3. QED
      BY <3>1, <3>2
  <2>7. QED
    BY <1>2, <2>2, <2>4, <2>5, <2>6
<1>4. CASE g["TE_MOSMS1"] # t
  <2>1. f = [s \in Slots |-> IF g[s] = t THEN None ELSE g[s]]
    BY <1>2, <1>4 DEF Disconnected
  <2>2. f \in [Slots -> Trans \cup {None}] /\ \A s \in Slots : f[s] = IF g[s] = t THEN None ELSE g[s]
    BY <2>1
  <2> HIDE <1>2
  <2>3. /\ \A r \in Slots : f[r] # None => f[r] # t /\ \E s \in Slots : g[s] = f[r]
        /\ \A s \in Slots : g[s] \notin {t, None} => \E r \in Slots : f[r] = g[s]
    BY <2>2
  <2>4. \A r, s \in Slots : f[r] # None /\ f[r] = f[s] => r = s
    BY <2>2
  <2>5. QED
    BY <1>2, <2>2, <2>3, <2>4
<1>5. QED
  BY <1>3, <1>4

(* A transaction ends.                                                      *)
LEMMA EndTranRuns ==
  ASSUME TypeOK, LoopsOK, TranInv, NEW c \in Chans, NEW t \in Trans, EndTran(c, t)
  PROVE  TranInv'
<1>1. PICK x \in Contexts : x = chan[c].ctx
  BY OpenLoop DEF EndTran, Serving
<1>2. PICK g : g = ctx[x].slot
  OBVIOUS
<1>3. PICK f : f = Disconnected(g, t)
  OBVIOUS
<1>4. /\ g \in [Slots -> Trans \cup {None}] /\ t # None
      /\ \A r, s \in Slots : g[r] # None /\ g[r] = g[s] => r = s
      /\ \A r \in Slots : g[r] # None => tran[g[r]].state = "running" /\ tran[g[r]].ctx = x
  BY <1>2, ObjectTypes, NoneAssumption DEF MMContexts, TranInv, Running, None
<1>5. tran[t].state = "running" /\ tran[t].ctx = x
  BY <1>1, <1>2, <1>4 DEF EndTran, OnContext, SlotsUsed
<1>6. /\ f \in [Slots -> Trans \cup {None}]
      /\ \A r \in Slots : f[r] # None => f[r] # t /\ \E s \in Slots : g[s] = f[r]
      /\ \A r, s \in Slots : f[r] # None /\ f[r] = f[s] => r = s
      /\ \A s \in Slots : g[s] \notin {t, None} => \E r \in Slots : f[r] = g[s]
  BY <1>3, <1>4, DisconnectedSlots
<1>7. /\ ctx'[x].slot = f /\ \A y \in Contexts \ {x} : ctx'[y].slot = ctx[y].slot
      /\ \A y \in Contexts : ctx'[y].asked = ctx[y].asked
  <2>1. ctx' = [ctx EXCEPT ![x].slot = f]
    BY <1>1, <1>2, <1>3 DEF EndTran, TypeOK
  <2>2. QED
    BY <2>1, ObjectTypes DEF TypeOK, MMContexts
<1>8. tran'[t].state = "dead" /\ \A v \in Trans \ {t} : tran'[v] = tran[v]
  BY CancelledValues DEF EndTran
<1>9. \A e \in Chans : chan'[e].hand = chan[e].hand /\ chan'[e].inbox = chan[e].inbox
  BY <1>1, ObjectTypes DEF EndTran, L3Channels
<1>10. UNCHANGED user
  BY DEF EndTran
<1>11. \A v \in Trans : /\ tran[v].state # "running" => tran'[v] = tran[v]
                        /\ tran'[v].state # "dead" => tran'[v] = tran[v]
  BY <1>5, <1>8
<1>12. Queues' /\ Hands' /\ Requests'
  BY <1>7, <1>9, <1>10, <1>11, SameQueues, SameHands, SameRequests DEF TranInv
<1>13. Running'
  <2>1. ASSUME NEW s \in Slots, f[s] # None
        PROVE  /\ tran'[f[s]].state = "running" /\ tran'[f[s]].ctx = x
               /\ \A r \in Slots : f[r] = f[s] => r = s
    <3>1. f[s] \in Trans \ {t} /\ tran[f[s]].state = "running" /\ tran[f[s]].ctx = x
      BY <2>1, <1>4, <1>6
    <3>2. QED
      BY <3>1, <2>1, <1>6, <1>8
  <2>2. ASSUME NEW v \in Trans, tran'[v].state = "running", \A s \in Slots : f[s] # v
        PROVE  tran[v].state = "running" /\ tran[v].ctx # x /\ tran'[v].ctx = tran[v].ctx
    <3>1. v # t /\ tran'[v] = tran[v]
      BY <2>2, <1>8
    <3>2. v # None
      BY NoneAssumption DEF None
    <3>3. \A s \in Slots : g[s] # v
      BY <2>2, <3>1, <3>2, <1>6
    <3>4. QED
      BY <2>2, <3>1, <3>3, <1>2 DEF TranInv, Running
  <2>3. ASSUME NEW v \in Trans, tran[v].state = "running", tran[v].ctx # x
        PROVE  tran'[v].state = "running" /\ tran'[v].ctx = tran[v].ctx
    BY <2>3, <1>5, <1>8
  <2>4. QED
    BY <1>6, <1>7, <2>1, <2>2, <2>3, OneContextRuns DEF TranInv
<1>14. QED
  BY <1>12, <1>13 DEF TranInv

(* Channels let go of their contexts.                                       *)
LEMMA LeavingRuns ==
  ASSUME TypeOK, LoopsOK, TranInv, NEW c \in Chans, CloseLoop(c) \/ ReassignFailure(c)
  PROVE  TranInv'
<1>1. PICK leaving : /\ chanFreeContext(leaving)
                     /\ \A e \in Chans : /\ chan'[e].hand = chan[e].hand
                                         /\ chan'[e].inbox \in {chan[e].inbox, <<>>}
  <2>1. CASE CloseLoop(c)
    <3>1. /\ chan[c].hand = None /\ chanFreeContext(Leaving(c))
          /\ chan' = [e \in Chans |->
              IF e = c THEN [NoChannel EXCEPT !.next = IF Leaving(c) = {c} THEN chan[c].next ELSE None]
              ELSE IF e \in Leaving(c) THEN [chan[e] EXCEPT !.ctx = None]
              ELSE chan[e]]
      BY <2>1 DEF CloseLoop
    <3>2. chan'[c].hand = chan[c].hand /\ chan'[c].inbox = <<>>
      BY <3>1 DEF NoChannel
    <3>3. \A e \in Chans \ {c} : chan'[e].hand = chan[e].hand /\ chan'[e].inbox = chan[e].inbox
      BY <3>1, ObjectTypes DEF L3Channels
    <3>4. QED
      BY <3>1, <3>2, <3>3
  <2>2. CASE ReassignFailure(c)
    <3>1. PICK d \in Tch : d = chan[c].next
      BY <2>2, OpenLoop DEF ReassignFailure
    <3>2. /\ chanFreeContext({d})
          /\ chan' = [chan EXCEPT ![c].next = None, ![c].call = "none", ![c].loop = "closing",
                       ![d].ctx = None, ![d].loop = IF @ = "open" THEN "closing" ELSE @]
      BY <2>2, <3>1 DEF ReassignFailure
    <3>3. \A e \in Chans : chan'[e].hand = chan[e].hand /\ chan'[e].inbox = chan[e].inbox
      <4>1. PICK l : l = IF chan[d].loop = "open" THEN "closing" ELSE chan[d].loop
        OBVIOUS
      <4>2. c # d /\ chan[c] \in L3Channels /\ chan[d] \in L3Channels /\ d \in Chans
        BY <2>2, OpenLoop, ObjectTypes, ChannelAssumption DEF ReassignFailure, Chans
      <4>3. /\ chan'[c] = [chan[c] EXCEPT !.next = None, !.call = "none", !.loop = "closing"]
            /\ chan'[d] = [chan[d] EXCEPT !.ctx = None, !.loop = l]
            /\ \A e \in Chans \ {c, d} : chan'[e] = chan[e]
        BY <3>2, <4>1, <4>2 DEF TypeOK
      <4>4. chan'[c].hand = chan[c].hand /\ chan'[c].inbox = chan[c].inbox
        BY <4>2, <4>3 DEF L3Channels
      <4>5. chan'[d].hand = chan[d].hand /\ chan'[d].inbox = chan[d].inbox
        BY <4>2, <4>3 DEF L3Channels
      <4>6. QED
        BY <4>3, <4>4, <4>5
    <3>4. QED
      BY <3>2, <3>3
  <2>3. QED
    BY <2>1, <2>2
<1>2. QED
  BY <1>1, FreeRuns
(* Every step keeps what the invariant says of the transactions.            *)
LEMMA TranStep ==
  ASSUME TypeOK, LoopsOK, TranInv, [Next]_vars
  PROVE  TranInv'
<1>1. CASE SipThread
  BY <1>1, NetworkRuns, SetsNothing DEF SipThread
<1>2. CASE Handset
  BY <1>2, HandsetRuns, MovesChannels DEF Handset
<1>3. CASE \/ \E i \in Imsis : mmGetPages(i) \/ PageTimerPasses(i) \/ mmTerminateByImsi(i)
           \/ \E x \in Contexts : Settle(x)
           \/ UNCHANGED vars
  BY <1>3, PagingRuns, SetsNothing
<1>4. ASSUME NEW c \in Chans, ServiceLoop(c) PROVE TranInv'
  BY <1>4, ReadPagingRuns, ReadRequestRuns, ResponderRuns, ServiceMTCRuns, ServiceMTSMSRuns,
     StartSMSRuns, MovesChannels, LeavingRuns DEF ServiceLoop
<1>5. ASSUME NEW c \in Chans, CloseLost(c) \/ Identify(c) \/ \E t \in Trans : EndTran(c, t)
      PROVE  TranInv'
  BY <1>5, MovesChannels, IdentifyRuns, EndTranRuns
<1>6. ASSUME NEW c \in Chans,
             \/ \E d \in Chans : AllocNextTCH(c, d)
             \/ ReassignStart(c) \/ ReassignComplete(c) \/ ReassignFailure(c)
      PROVE  TranInv'
  BY <1>6, MovesChannels, LeavingRuns
<1>7. QED
  BY <1>1, <1>2, <1>3, <1>4, <1>5, <1>6 DEF Next

-----------------------------------------------------------------------------
(* The first state has the invariant.                                       *)
LEMMA InitIInv == Init => IInv
<1> SUFFICES ASSUME Init PROVE IInv
  OBVIOUS
<1>1. TypeOK
  BY InitType
<1>2. /\ \A c \in Chans : chan[c] = NoChannel
      /\ \A x \in Contexts : ctx[x] = NoContext
      /\ \A i \in Imsis : user[i] = NoUser
      /\ \A t \in Trans : tran[t].state = "unborn"
  BY DEF Init
<1>3. \A c \in Chans : ~Busy(c)
  BY <1>2 DEF Busy, NoChannel
<1>4. LoopsOK /\ ReservedOK /\ TargetsOK /\ OneHandset
  <2>1. LoopsOK
    BY <1>2, <1>3 DEF LoopsOK, NoChannel
  <2>2. ReservedOK /\ TargetsOK /\ OneHandset
    BY <1>2, <1>3 DEF ReservedOK, TargetsOK, OneHandset, NoChannel
  <2>3. QED
    BY <2>1, <2>2
<1>5. ContextsOK /\ PointersAgree
  <2>1. /\ \A x \in Contexts : ctx[x].mmu = None /\ x # None
        /\ \A i \in Imsis : user[i].ctx = None /\ ~user[i].known /\ i # None
    BY <1>2, NoneAssumption DEF NoContext, NoUser, None
  <2>2. ContextsOK
    BY <1>2, <2>1 DEF ContextsOK
  <2>3. PointersAgree
    BY <2>1 DEF PointersAgree
  <2>4. QED
    BY <2>2, <2>3
<1>6. /\ \A i \in Imsis : user[i].mtcq = <<>> /\ user[i].smsq = <<>>
      /\ \A x \in Contexts : ctx[x].asked = <<>> /\ \A s \in Slots : ctx[x].slot[s] = None
      /\ \A c \in Chans : chan[c].inbox = <<>> /\ chan[c].hand = None
  BY <1>2 DEF NoUser, NoContext, Empty, NoChannel
<1>7. \A i \in Imsis : Queued(user[i]) = {}
  BY <1>6 DEF Queued
<1>8. Running /\ Queues /\ Hands
  BY <1>2, <1>6, <1>7, EmptySeq DEF Running, Queues, Hands
<1>9. Requests
  <2>1. /\ \A c \in Chans : Inbox(c) = {} /\ IsInjective(chan[c].inbox)
        /\ \A x \in Contexts : Asked(x) = {} /\ IsInjective(ctx[x].asked)
    BY <1>6, EmptySeq DEF Inbox, Asked
  <2>2. QED
    BY <2>1 DEF Requests
<1>10. QED
  BY <1>1, <1>4, <1>5, <1>8, <1>9 DEF IInv, ChanInv, CtxInv, TranInv

(* Every step keeps the invariant.                                          *)
LEMMA StepIInv == IInv /\ [Next]_vars => IInv'
<1> SUFFICES ASSUME IInv, [Next]_vars PROVE IInv'
  OBVIOUS
<1>1. TypeOK /\ ChanInv /\ CtxInv /\ TranInv /\ LoopsOK /\ Hands
  BY DEF IInv, ChanInv, TranInv
<1>2. TypeOK'
  BY <1>1, TypeStep
<1>3. ChanInv'
  BY <1>1, <1>2, ChanStep
<1>4. CtxInv'
  BY <1>1, <1>2, CtxStep
<1>5. TranInv'
  BY <1>1, TranStep
<1>6. QED
  BY <1>2, <1>3, <1>4, <1>5 DEF IInv

(* The conjunction IInv holds in every state.                               *)
THEOREM Invariant == Spec => []IInv
BY InitIInv, StepIInv, PTL DEF Spec

(* Every object of the layer holds values of its type, whatever the threads *)
(* do.                                                                      *)
THEOREM TypeCorrect == Spec => []TypeOK
<1>1. IInv => TypeOK
  BY DEF IInv
<1>2. QED
  BY <1>1, Invariant, PTL

(* mmuContext and mmcMMU point at each other, and a detached MMUser has     *)
(* something queued (mmcLink, mmcUnlink, mmcFree, mmuFree).                 *)
THEOREM PointersAlwaysAgree == Spec => []PointersAgree
<1>1. IInv => PointersAgree
  BY DEF IInv, CtxInv
<1>2. QED
  BY <1>1, Invariant, PTL

(* Of a context that is in use, one channel has a loop: a target alone      *)
(* cannot have it.                                                          *)
LEMMA ServedByLoop == IInv => AttachedIsServed
<1> SUFFICES ASSUME IInv, NEW x \in Contexts, ctx[x].mmu # None \/ SlotsUsed(x) # {}
             PROVE  \E c \in ChannelsOf(x) : chan[c].loop \in {"open", "closing"}
  BY DEF AttachedIsServed
<1>1. ctx[x] # NoContext
  BY DEF NoContext, Empty, SlotsUsed
<1>2. PICK c \in Chans : chan[c].ctx = x
  BY <1>1 DEF IInv, CtxInv, ContextsOK, ChannelsOf
<1>3. x # None /\ chan[c].loop \in {"idle", "target", "open", "closing"}
  BY NoneAssumption, ObjectTypes DEF None, IInv, L3Channels
<1>4. chan[c].loop # "idle"
  BY <1>2, <1>3 DEF IInv, ChanInv, LoopsOK
<1>5. CASE chan[c].loop = "target"
  BY <1>2, <1>3, <1>5 DEF IInv, ChanInv, TargetsOK, ChannelsOf, Busy, Chans
<1>6. QED
  BY <1>2, <1>3, <1>4, <1>5 DEF ChannelsOf

(* Whoever is attached, and whatever runs, has a channel whose service loop *)
(* runs.                                                                    *)
THEOREM AttachedIsAlwaysServed == Spec => []AttachedIsServed
BY ServedByLoop, Invariant, PTL

(* Of the three sets OneHome counts, the one that fits the state of the     *)
(* transaction has one element, the others none.                            *)
LEMMA OneHomeHolds == IInv => OneHome
<1> SUFFICES ASSUME IInv, NEW t \in Trans
             PROVE  LET homes == {h \in Contexts \X Slots : ctx[h[1]].slot[h[2]] = t}
                        hands == {c \in Chans : chan[c].hand = t}
                        places == UNION {{i} \X (Places(user[i].mtcq, t) \cup Places(user[i].smsq, t))
                                           : i \in Imsis}
                    IN  /\ Cardinality(homes) + Cardinality(hands) + Cardinality(places) =
                              IF tran[t].state \in {"queued", "hand", "running"} THEN 1 ELSE 0
                        /\ tran[t].state = "running" => \E h \in homes : h[1] = tran[t].ctx
  BY DEF OneHome
<1> DEFINE homes == {h \in Contexts \X Slots : ctx[h[1]].slot[h[2]] = t}
           hands == {c \in Chans : chan[c].hand = t}
           places == UNION {{i} \X (Places(user[i].mtcq, t) \cup Places(user[i].smsq, t)) : i \in Imsis}
<1>1. TypeOK /\ Running /\ Queues /\ Hands /\ t # None
  BY NoneAssumption DEF IInv, TranInv, None
<1>2. \A h : h \in homes <=> h \in Contexts \X Slots /\ ctx[h[1]].slot[h[2]] = t
  OBVIOUS
<1>4. \A p \in places : \E i \in Imsis :
           \E n \in Places(user[i].mtcq, t) \cup Places(user[i].smsq, t) : p = <<i, n>>
  OBVIOUS
<1>5. \A i \in Imsis : (\E n : n \in Places(user[i].mtcq, t) \cup Places(user[i].smsq, t)) => t \in Queued(user[i])
  BY DEF Places, Queued
<1>6. tran[t].state # "running" => homes = {}
  BY <1>1, <1>2 DEF Running
<1>7. tran[t].state # "hand" => hands = {}
  BY <1>1 DEF Hands
<1>8. tran[t].state # "queued" => places = {}
  BY <1>1, <1>4, <1>5 DEF Queues
<1>9. tran[t].state = "running" => \E h : homes = {h} /\ h[1] = tran[t].ctx
  <2> SUFFICES ASSUME tran[t].state = "running" PROVE \E h : homes = {h} /\ h[1] = tran[t].ctx
    OBVIOUS
  <2>1. PICK s \in Slots : tran[t].ctx \in Contexts /\ ctx[tran[t].ctx].slot[s] = t
    BY <1>1 DEF Running
  <2>2. ASSUME NEW x \in Contexts, NEW r \in Slots, ctx[x].slot[r] = t PROVE x = tran[t].ctx /\ r = s
    BY <1>1, <2>1, <2>2 DEF Running
  <2>3. PICK h : h = <<tran[t].ctx, s>>
    OBVIOUS
  <2>4. h[1] = tran[t].ctx /\ h[2] = s /\ h \in homes
    BY <2>1, <2>3
  <2>5. \A g \in homes : g = h
    BY <2>2, <2>3
  <2>6. homes = {h}
    BY <2>4, <2>5
  <2> HIDE DEF homes
  <2>7. QED
    BY <2>4, <2>6
<1>10. tran[t].state = "hand" => \E c : hands = {c}
  <2> SUFFICES ASSUME tran[t].state = "hand" PROVE \E c : hands = {c}
    OBVIOUS
  <2>1. PICK c \in Chans : chan[c].hand = t
    BY <1>1 DEF Hands
  <2>2. \A e \in Chans : chan[e].hand = t => e = c
    BY <1>1, <2>1 DEF Hands
  <2>3. hands = {c}
    BY <2>1, <2>2
  <2> HIDE DEF hands
  <2>4. QED
    BY <2>3
<1>11. tran[t].state = "queued" => \E p : places = {p}
  <2> SUFFICES ASSUME tran[t].state = "queued" PROVE \E p : places = {p}
    OBVIOUS
  <2>1. PICK i \in Imsis : i = tran[t].imsi /\ t \in Queued(user[i])
    BY <1>1 DEF Queues
  <2>2. \A j \in Imsis \ {i} : t \notin Queued(user[j])
    BY <1>1, <2>1 DEF Queues
  <2>3. user[i].mtcq \in Seq(Mtcs) /\ user[i].smsq \in Seq(MtSmss)
    BY <1>1, ObjectTypes DEF Users
  <2>4. /\ \A n \in DOMAIN user[i].mtcq : user[i].mtcq[n] \in Mtcs
        /\ \A n \in DOMAIN user[i].smsq : user[i].smsq[n] \in MtSmss
    BY <2>3
  <2>5. /\ \A m, n \in DOMAIN user[i].mtcq : user[i].mtcq[m] = user[i].mtcq[n] => m = n
        /\ \A m, n \in DOMAIN user[i].smsq : user[i].smsq[m] = user[i].smsq[n] => m = n
    BY <1>1 DEF Queues, IsInjective
  <2>6. \E n : Places(user[i].mtcq, t) \cup Places(user[i].smsq, t) = {n}
    <3>1. Places(user[i].mtcq, t) = {} \/ Places(user[i].smsq, t) = {}
      BY <2>4, ServiceAssumption DEF Places
    <3>2. Places(user[i].mtcq, t) \cup Places(user[i].smsq, t) # {}
      BY <2>1 DEF Places, Queued
    <3>3. /\ \A m, n \in Places(user[i].mtcq, t) : m = n
          /\ \A m, n \in Places(user[i].smsq, t) : m = n
      BY <2>5 DEF Places
    <3>4. QED
      BY <3>1, <3>2, <3>3
  <2>7. PICK n : Places(user[i].mtcq, t) \cup Places(user[i].smsq, t) = {n}
    BY <2>6
  <2>8. <<i, n>> \in places
    BY <2>7
  <2>9. \A p \in places : p = <<i, n>>
    BY <1>4, <1>5, <2>2, <2>7
  <2>10. PICK p : p = <<i, n>>
    OBVIOUS
  <2>11. places = {p}
    BY <2>8, <2>9, <2>10
  <2> HIDE DEF places
  <2>12. QED
    BY <2>11
<1> HIDE DEF homes, hands, places
<1>12. /\ tran[t].state = "running" => Cardinality(homes) = 1
       /\ tran[t].state # "running" => Cardinality(homes) = 0
  BY <1>6, <1>9, FS_EmptySet, FS_Singleton
<1>13. /\ tran[t].state = "hand" => Cardinality(hands) = 1
       /\ tran[t].state # "hand" => Cardinality(hands) = 0
  BY <1>7, <1>10, FS_EmptySet, FS_Singleton
<1>14. /\ tran[t].state = "queued" => Cardinality(places) = 1
       /\ tran[t].state # "queued" => Cardinality(places) = 0
  BY <1>8, <1>11, FS_EmptySet, FS_Singleton
<1>15. tran[t].state = "running" => \E h \in homes : h[1] = tran[t].ctx
  BY <1>9
<1>16. Cardinality(homes) + Cardinality(hands) + Cardinality(places) =
           IF tran[t].state \in {"queued", "hand", "running"} THEN 1 ELSE 0
  BY <1>12, <1>13, <1>14
<1>17. QED
  BY <1>15, <1>16 DEF homes, hands, places

(* A transaction is in one queue, one hand or one slot, the one its state   *)
(* names, or in none.                                                       *)
THEOREM EveryTranHasOneHome == Spec => []OneHome
BY OneHomeHolds, Invariant, PTL

(* Only CloseLoop takes a closing channel to idle.                          *)
LEMMA NoneClosed ==
  ASSUME TypeOK, ChanInv, [Next]_vars, NEW c \in Chans, chan[c].loop = "closing", chan'[c].loop = "idle"
  PROVE  CloseLoop(c)
<1>1. ~Steady(c)
  BY DEF Steady
<1>2. \A e \in Chans : chan[e] \in L3Channels
  BY ObjectTypes
<1>3. CASE \/ SipThread
           \/ \E i \in Imsis : mmGetPages(i) \/ PageTimerPasses(i) \/ mmTerminateByImsi(i)
           \/ \E x \in Contexts : Settle(x)
           \/ UNCHANGED vars
  BY Zenon, <1>3 DEF SipThread, mmMTRepage, Invite, Message, NewMT, mmGetPages, PageTimerPasses,
              mmTerminateByImsi, Settle, vars
<1>4. ASSUME NEW e \in Chans, NEW i \in Imsis, NEW msg \in Messages, Establish(e, i, msg) PROVE FALSE
  <2>1. chan[e].loop \in {"idle", "target"}
    BY <1>4 DEF Establish, Free
  <2>2. PICK k : chan' = [chan EXCEPT ![e] = k]
    BY <1>4 DEF Establish
  <2>3. QED
    BY <2>1, <2>2 DEF TypeOK
<1>5. ASSUME NEW e \in Chans,
             \/ \E t \in MoTrans : Request(e, t)
             \/ ReadPagingResponse(e) \/ ReadRequest(e) \/ NewCMServiceResponder(e)
             \/ ServiceMTC(e) \/ ServiceMTSMS(e) \/ StartSMSTran(e)
             \/ CloseIdle(e) \/ CloseTerminated(e) \/ CloseLost(e)
             \/ Identify(e) \/ \E t \in Trans : EndTran(e, t)
      PROVE  FALSE
  BY <1>1, <1>5, LoopSteady
<1>6. ASSUME NEW e \in Chans, EstablishTarget(e) PROVE FALSE
  <2>1. PICK d : d = chan[e].next /\ d \in Chans /\ chan[d].loop = "target"
    BY <1>6, OpenLoop DEF EstablishTarget, ChanInv, Chans
  <2>2. PICK x : chan' = [chan EXCEPT ![chan[e].next].loop = "open",
                                      ![chan[e].next].who = chan[e].who, ![chan[e].next].ctx = x]
    BY <1>6 DEF EstablishTarget
  <2>3. QED
    BY <2>1, <2>2 DEF TypeOK
<1>7. ASSUME NEW e \in Chans, \E d \in Chans : AllocNextTCH(e, d) PROVE FALSE
  <2>1. PICK d : chan' = [chan EXCEPT ![e].next = d, ![e].call = "allocated"] /\ chan[e].loop = "open"
    BY <1>7 DEF AllocNextTCH, Serving
  <2>2. QED
    BY <2>1 DEF TypeOK
<1>8. ASSUME NEW e \in Chans, ReassignStart(e) PROVE FALSE
  <2>1. PICK d : d = chan[e].next /\ d \in Chans
    BY <1>8, OpenLoop DEF ReassignStart, ChanInv, Chans
  <2>2. chan' = [chan EXCEPT ![e].call = "assigning", ![d].loop = "target", ![d].ctx = chan[e].ctx]
    BY <1>8, <2>1 DEF ReassignStart
  <2>3. chan'[c].loop \in {chan[c].loop, "target"}
    BY <1>2, <2>1, <2>2 DEF TypeOK, L3Channels
  <2>4. QED
    BY <2>3
<1>9. ASSUME NEW e \in Chans, ReassignComplete(e) PROVE FALSE
  <2>1. chan' = [chan EXCEPT ![e].next = None, ![e].call = "none", ![e].loop = "closing"]
    BY <1>9 DEF ReassignComplete
  <2>2. QED
    BY <1>2, <2>1 DEF TypeOK, L3Channels
<1>10. ASSUME NEW e \in Chans, ReassignFailure(e) PROVE FALSE
  <2>1. PICK d : d = chan[e].next /\ d \in Tch /\ d \in Chans /\ e # d
    BY <1>10, OpenLoop, ChannelAssumption DEF ReassignFailure, ChanInv, Chans
  <2>2. PICK l : l = IF chan[d].loop = "open" THEN "closing" ELSE chan[d].loop
    OBVIOUS
  <2>3. /\ chan'[e] = [chan[e] EXCEPT !.next = None, !.call = "none", !.loop = "closing"]
        /\ chan'[d] = [chan[d] EXCEPT !.ctx = None, !.loop = l]
        /\ \A f \in Chans \ {e, d} : chan'[f] = chan[f]
    BY <1>10, <2>1, <2>2 DEF ReassignFailure, TypeOK
  <2>4. chan'[e].loop = "closing" /\ chan'[d].loop = l
    BY <1>2, <2>1, <2>3 DEF L3Channels
  <2>5. QED
    BY <2>2, <2>3, <2>4
<1>11. ASSUME NEW e \in Chans, CloseLoop(e), e # c PROVE FALSE
  <2>1. chan'[c] \in {chan[c], [chan[c] EXCEPT !.ctx = None]}
    BY <1>11 DEF CloseLoop
  <2>2. QED
    BY <1>2, <2>1 DEF L3Channels
<1>12. QED
  BY <1>3, <1>4, <1>5, <1>6, <1>7, <1>8, <1>9, <1>10, <1>11 DEF Next, Handset, ServiceLoop

(* A loop that exits ends nothing on a context that another channel still   *)
(* has (mmFreeContext counts the channels).                                 *)
THEOREM SharedContextsSurvive == Spec => SharedContextSurvives
<1>1. ASSUME IInv, [Next]_vars, NEW c \in Chans, chan[c].loop = "closing", chan'[c].loop = "idle",
             NEW t \in Trans, tran[t].state = "running", tran'[t].state = "dead", NEW d \in Chans
      PROVE  chan'[d].ctx # tran[t].ctx
  <2>1. CloseLoop(c)
    BY <1>1, NoneClosed DEF IInv
  <2>2. /\ tran' = Cancelled(UNION {OnContext(x) : x \in Freed(Leaving(c))})
        /\ chan' = [e \in Chans |->
              IF e = c THEN [NoChannel EXCEPT !.next = IF Leaving(c) = {c} THEN chan[c].next ELSE None]
              ELSE IF e \in Leaving(c) THEN [chan[e] EXCEPT !.ctx = None]
              ELSE chan[e]]
    BY <2>1 DEF CloseLoop, chanFreeContext
  <2>3. PICK x \in Freed(Leaving(c)) : t \in OnContext(x)
    BY <1>1, <2>2, CancelledValues DEF IInv
  <2>4. x \in Contexts /\ ChannelsOf(x) \subseteq Leaving(c) /\ x # None /\ tran[t].ctx = x
    <3>1. x \in Contexts /\ ChannelsOf(x) \subseteq Leaving(c)
      BY <2>3 DEF Freed
    <3>2. x # None
      BY <3>1, NoneAssumption DEF None
    <3>3. PICK s \in Slots : ctx[x].slot[s] = t /\ ctx[x].slot[s] # None
      BY <2>3 DEF OnContext, SlotsUsed
    <3>4. tran[t].ctx = x
      <4>1. Running
        BY <1>1 DEF IInv, TranInv
      <4>2. QED
        BY <3>1, <3>3, <4>1 DEF Running
    <3>5. QED
      BY <3>1, <3>2, <3>4
  <2>5. CASE d \in Leaving(c) \/ d = c
    <3>1. chan'[d].ctx = None
      BY <1>1, <2>2, <2>5, ObjectTypes DEF NoChannel, IInv, L3Channels
    <3>2. QED
      BY <3>1, <2>4
  <2>6. CASE d \notin Leaving(c) /\ d # c
    BY <1>1, <2>2, <2>4, <2>6 DEF ChannelsOf
  <2>7. QED
    BY <2>5, <2>6
<1>2. IInv /\ [Next]_vars => [\A c \in Chans : chan[c].loop = "closing" /\ chan'[c].loop = "idle" =>
          \A t \in Trans : tran[t].state = "running" /\ tran'[t].state = "dead" =>
              \A d \in Chans : chan'[d].ctx # tran[t].ctx]_vars
  BY <1>1
<1>3. QED
  BY <1>2, Invariant, PTL DEF Spec, SharedContextSurvives
=============================================================================
