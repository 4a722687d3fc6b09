------------------------------ MODULE TBF_proofs ------------------------------
(* Theorems about TBF, for any number of handsets, channels, TFIs and USFs  *)
(* and every limit and budget: type correctness, that a handset has at most *)
(* one active TBF in each direction, that no handset takes another's TFI  *)
(* for its own, and that the list of TFIs and the TBFs agree.               *)
EXTENDS TBF, TLAPS, WellFoundedInduction, FiniteSetTheorems

Lefts == [pdus: Nat, asks: Nat, retries: Nat]

(* x keeps its handset's direction busy: what OneActive counts.             *)
Busy(x) == x # None /\ x.state \in Active /\ (x.dir = "Up" => x.state # "Final")

Single(s) ==
    \A t, u \in Tbfs :
        Busy(s.tbf[t]) /\ Busy(s.tbf[u]) /\ s.tbf[t].ms = s.tbf[u].ms /\ s.tbf[t].dir = s.tbf[u].dir
            => t = u

(* An uplink TBF is never in TbfRelease, which is for the downlink.         *)
Released(s) == \A t \in Tbfs : s.tbf[t] # None /\ s.tbf[t].state = "Release" => s.tbf[t].dir = "Down"

(* x uses the channels of its handset.  What takes them away is a RACH, and *)
(* without Gaps it does so only when nothing uses them.                     *)
InUse(x) == x # None /\ x.state \in Active \ {"Ready"}

Channelled(s) == \A t \in Tbfs : InUse(s.tbf[t]) => s.ms[s.tbf[t].ms].ch # None

Good == {s \in MacFields : Single(s) /\ Released(s) /\ (~Gaps => Channelled(s))}

IInv == mac \in Good /\ phone \in [Handsets -> PhoneFields] /\ left \in Lefts

LEMMA Consequences == IInv => TypeOK /\ OneActive
<1> SUFFICES ASSUME IInv PROVE TypeOK /\ OneActive
  OBVIOUS
<1>1. TypeOK
  BY DEF IInv, Good, TypeOK, Lefts
<1>2. ASSUME NEW m \in Handsets, NEW dir \in {"Up", "Down"},
             NEW t \in Those(mac, m, dir, Active \ (IF dir = "Up" THEN {"Final"} ELSE {})),
             NEW u \in Those(mac, m, dir, Active \ (IF dir = "Up" THEN {"Final"} ELSE {}))
      PROVE  t = u
  BY DEF IInv, Good, Single, Busy, Those
<1>3. QED
  BY <1>1, <1>2 DEF OneActive

(* The limits of the counters.                                              *)
LEMMA Limits ==
  /\ Counts \subseteq Nat /\ 0 \in Counts
  /\ \A i \in Nat : i <= AssignMax \/ i <= N3103Max \/ i <= ReleaseMax => i + 1 \in Counts
<1> DEFINE M == {AssignMax, N3103Max, ReleaseMax}
<1>1. M \subseteq Nat
  BY TbfAssumption
<1>2. \E x \in M : \A y \in M : x >= y
  <2>1. /\ AssignMax \in Nat /\ N3103Max \in Nat /\ ReleaseMax \in Nat
    BY TbfAssumption
  <2>2. CASE AssignMax >= N3103Max /\ AssignMax >= ReleaseMax
    BY <2>1, <2>2
  <2>3. CASE N3103Max >= AssignMax /\ N3103Max >= ReleaseMax
    BY <2>1, <2>3
  <2>4. CASE ReleaseMax >= AssignMax /\ ReleaseMax >= N3103Max
    BY <2>1, <2>4
  <2>5. QED
    BY <2>1, <2>2, <2>3, <2>4
<1>3. Max(M) \in M /\ \A y \in M : Max(M) >= y
  BY <1>2 DEF Max
<1>4. Max(M) \in Nat /\ Max(M) >= AssignMax /\ Max(M) >= N3103Max /\ Max(M) >= ReleaseMax
  BY <1>1, <1>3
<1>5. QED
  BY <1>4, TbfAssumption DEF Counts
-----------------------------------------------------------------------------
(* A change of one TBF that makes nothing busy, or keeps busy what was.     *)
Quiet(x, y) == /\ Busy(x) => Busy(y) /\ x.ms = y.ms /\ x.dir = y.dir
               /\ InUse(x) => InUse(y) /\ x.ms = y.ms

KeepsChannels(r, s) == \A m \in Handsets : s.ms[m].ch # None => r.ms[m].ch # None

Downward(x) == x # None /\ x.state = "Release" => x.dir = "Down"

LEMMA StaysGood ==
  ASSUME NEW s \in Good, NEW r \in MacFields, KeepsChannels(r, s),
         \A t \in Tbfs : Quiet(r.tbf[t], s.tbf[t]) /\ Downward(r.tbf[t])
  PROVE  r \in Good
<1>1. Single(r) /\ Released(r)
  BY DEF Good, Single, Released, Quiet, Downward
<1>2. ~Gaps => Channelled(r)
  <2> SUFFICES ASSUME ~Gaps, NEW t \in Tbfs, InUse(r.tbf[t]) PROVE r.ms[r.tbf[t].ms].ch # None
    BY DEF Channelled
  <2>1. InUse(s.tbf[t]) /\ r.tbf[t].ms = s.tbf[t].ms
    BY DEF Quiet
  <2>2. s.tbf[t].ms \in Handsets /\ s.ms[s.tbf[t].ms].ch # None
    BY <2>1 DEF Good, Channelled, InUse, MacFields, TbfFields
  <2>3. QED
    BY <2>1, <2>2 DEF KeepsChannels
<1>3. QED
  BY <1>1, <1>2 DEF Good

LEMMA Unchanged ==
  ASSUME NEW s \in Good, NEW t \in Tbfs
  PROVE  Quiet(s.tbf[t], s.tbf[t]) /\ Downward(s.tbf[t])
BY DEF Good, Released, Quiet, Downward

LEMMA SameTbfs ==
  ASSUME NEW s \in Good, NEW r \in MacFields, r.tbf = s.tbf, KeepsChannels(r, s)
  PROVE  r \in Good
BY Unchanged, StaysGood

(* One TBF changes.                                                         *)
LEMMA OneChanges ==
  ASSUME NEW s \in Good, NEW r \in MacFields, NEW t \in Tbfs, KeepsChannels(r, s),
         \A u \in Tbfs \ {t} : r.tbf[u] = s.tbf[u],
         Quiet(r.tbf[t], s.tbf[t]), Downward(r.tbf[t])
  PROVE  r \in Good
BY Unchanged, StaysGood

LEMMA FreeUSFsType ==
  ASSUME NEW s \in MacFields, NEW m \in Handsets, NEW reserve \in BOOLEAN
  PROVE  FreeUSFs(s, m, reserve) \in [Pdchs -> [Usfs -> [ms: Handsets \cup {None}, dead: BOOLEAN]]]
<1>1. ASSUME NEW l \in [Usfs -> [ms: Handsets \cup {None}, dead: BOOLEAN]]
      PROVE  FreeUSF(l, m, reserve) \in [Usfs -> [ms: Handsets \cup {None}, dead: BOOLEAN]]
  BY DEF FreeUSF
<1>2. QED
  BY <1>1 DEF FreeUSFs, MacFields

LEMMA DetachGood ==
  ASSUME NEW s \in Good, NEW t \in Tbfs, s.tbf[t] # None
  PROVE  /\ Detach(s, t) \in Good
         /\ Detach(s, t).tbf[t] \in TbfFields
         /\ Detach(s, t).tbf[t].ms = s.tbf[t].ms /\ Detach(s, t).tbf[t].dir = s.tbf[t].dir
         /\ \A u \in Tbfs \ {t} : Detach(s, t).tbf[u] = s.tbf[u]
<1> DEFINE d == Detach(s, t)
<1>1. CASE ~s.tbf[t].attached
  BY <1>1 DEF Detach, Good, MacFields
<1>2. CASE s.tbf[t].attached
  <2>1. s \in MacFields /\ s.tbf[t] \in TbfFields
    BY DEF Good, MacFields
  <2>2. FreeTFI(s, t) \in [Tfis -> Tbfs \cup {None}]
    BY <2>1 DEF FreeTFI, MacFields
  <2>3. d.tbf[t] = [s.tbf[t] EXCEPT !.attached = FALSE, !.state = "Deleting", !.tfi = None]
    BY <1>2, <2>1 DEF Detach, MacFields
  <2>4. \A u \in Tbfs \ {t} : d.tbf[u] = s.tbf[u]
    BY <1>2, <2>1 DEF Detach, MacFields
  <2>5. d.tbf[t] \in TbfFields /\ d.tbf[t].state = "Deleting"
        /\ d.tbf[t].ms = s.tbf[t].ms /\ d.tbf[t].dir = s.tbf[t].dir
    BY <2>1, <2>3 DEF TbfFields
  <2>6. FreeUSFs(s, s.tbf[t].ms, FALSE) \in [Pdchs -> [Usfs -> [ms: Handsets \cup {None}, dead: BOOLEAN]]]
    BY <2>1, FreeUSFsType DEF TbfFields
  <2>7. d \in MacFields
    <3>1. d.tbf \in [Tbfs -> TbfFields \cup {None}]
      BY <1>2, <2>1, <2>4, <2>5 DEF Detach, MacFields
    <3>2. d.tfi \in [Tfis -> Tbfs \cup {None}] /\ d.ms = s.ms
      BY <1>2, <2>1, <2>2 DEF Detach, MacFields
    <3>3. d.usf \in [Pdchs -> [Usfs -> [ms: Handsets \cup {None}, dead: BOOLEAN]]]
      BY <1>2, <2>1, <2>6 DEF Detach, MacFields
    <3>4. d = [tbf |-> d.tbf, tfi |-> d.tfi, usf |-> d.usf, ms |-> d.ms]
      BY <1>2, <2>1 DEF Detach, MacFields
    <3>5. QED
      BY <2>1, <3>1, <3>2, <3>3, <3>4 DEF MacFields
  <2>8. Quiet(d.tbf[t], s.tbf[t]) /\ Downward(d.tbf[t])
    BY <2>5 DEF Quiet, InUse, Downward, Busy, Active
  <2>9. d \in Good
    <3>1. d.ms = s.ms
      BY <1>2, <2>1 DEF Detach, MacFields
    <3>2. QED
      BY <2>4, <2>7, <2>8, <3>1, OneChanges DEF KeepsChannels
  <2>10. QED
    BY <2>4, <2>5, <2>9
<1>3. QED
  BY <1>1, <1>2

FreeOnly(s, m, dir) ==
    \A u \in Tbfs : Busy(s.tbf[u]) => ~(s.tbf[u].ms = m /\ s.tbf[u].dir = dir)

LEMMA CreateGood ==
  ASSUME NEW s \in Good, NEW m \in Handsets, NEW dir \in {"Up", "Down"}, FreeOnly(s, m, dir)
  PROVE  Create(s, m, dir) \in Good
<1> DEFINE new == NewTbf(m, dir)
           c == Create(s, m, dir)
           slot == Min({t \in Tbfs : s.tbf[t] = None})
<1>1. s \in MacFields
  BY DEF Good
<1>2. new \in TbfFields /\ new.state = "Ready" /\ new.ms = m /\ new.dir = dir
  BY Limits DEF NewTbf, TbfFields, Active
<1>3. /\ c.tbf = [s.tbf EXCEPT ![slot] = new]
      /\ c = [s EXCEPT !.tbf = c.tbf]
  BY <1>1 DEF Create, MacFields
<1> HIDE DEF new, c, slot
<1>4. \A t \in Tbfs : c.tbf[t] = IF t = slot THEN new ELSE s.tbf[t]
  BY <1>1, <1>3 DEF MacFields
<1>5. c.tbf \in [Tbfs -> TbfFields \cup {None}]
  BY <1>1, <1>2, <1>3 DEF MacFields
<1>6. c \in MacFields
  BY <1>1, <1>3, <1>5 DEF MacFields
<1>7. Single(c)
  <2> SUFFICES ASSUME NEW t \in Tbfs, NEW u \in Tbfs, Busy(c.tbf[t]), Busy(c.tbf[u]),
                      c.tbf[t].ms = c.tbf[u].ms, c.tbf[t].dir = c.tbf[u].dir
               PROVE  t = u
    BY DEF Single
  <2>1. CASE t = slot \/ u = slot
    BY <1>2, <1>4, <2>1 DEF FreeOnly
  <2>2. CASE t # slot /\ u # slot
    BY <1>4, <2>2 DEF Good, Single
  <2>3. QED
    BY <2>1, <2>2
<1>8. Released(c)
  BY <1>2, <1>4 DEF Good, Released
<1>9. ~Gaps => Channelled(c)
  <2>1. \A t \in Tbfs : InUse(c.tbf[t]) => c.tbf[t] = s.tbf[t]
    BY <1>2, <1>4 DEF InUse
  <2>2. c.ms = s.ms
    BY <1>1, <1>3 DEF MacFields
  <2>3. QED
    BY <2>1, <2>2 DEF Good, Channelled
<1>10. QED
  BY <1>6, <1>7, <1>8, <1>9 DEF Good, c

Cancelled(s, m, T) ==
    /\ T \subseteq Tbfs
    /\ \A t \in T : s.tbf[t] # None

LEMMA CancelAllGood ==
  ASSUME NEW s \in Good, NEW m \in Handsets, NEW T, Cancelled(s, m, T),
         NEW state \in {"Dead", "Release"},
         state = "Release" => \A t \in T : s.tbf[t].dir = "Down" /\ s.tbf[t].state \in Active \ {"Ready"}
  PROVE  /\ CancelAll(s, m, T, state) \in Good
         /\ \A t \in T : /\ CancelAll(s, m, T, state).tbf[t] \in TbfFields
                          /\ CancelAll(s, m, T, state).tbf[t].ms = s.tbf[t].ms
                          /\ CancelAll(s, m, T, state).tbf[t].state = state
         /\ \A t \in Tbfs \ T : CancelAll(s, m, T, state).tbf[t] = s.tbf[t]
<1> DEFINE c == CancelAll(s, m, T, state)
<1>1. s \in MacFields
  BY DEF Good
<1> DEFINE cancelled == [t \in Tbfs |-> IF t \in T THEN [s.tbf[t] EXCEPT !.state = state, !.n = 0, !.acked = FALSE]
                                       ELSE s.tbf[t]]
           freed == IF \E t \in T : s.tbf[t].dir = "Up" THEN FreeUSFs(s, m, TRUE) ELSE s.usf
<1>a. c = [s EXCEPT !.usf = freed, !.tbf = cancelled]
  BY Zenon DEF CancelAll
<1> HIDE DEF cancelled, freed
<1>2. c = [tbf |-> cancelled, tfi |-> s.tfi, usf |-> freed, ms |-> s.ms]
  BY <1>a, <1>1 DEF MacFields
<1> HIDE DEF c
<1>3. ASSUME NEW t \in T
      PROVE  /\ c.tbf[t] \in TbfFields /\ c.tbf[t].state = state
             /\ c.tbf[t].ms = s.tbf[t].ms /\ c.tbf[t].dir = s.tbf[t].dir
  <2>1. t \in Tbfs /\ s.tbf[t] \in TbfFields
    BY <1>1 DEF MacFields, Cancelled
  <2>2. c.tbf[t] = [s.tbf[t] EXCEPT !.state = state, !.n = 0, !.acked = FALSE]
    BY <1>2, <2>1 DEF cancelled
  <2>3. QED
    BY <2>1, <2>2, Limits DEF TbfFields, Active
<1>4. \A t \in Tbfs \ T : c.tbf[t] = s.tbf[t]
  BY <1>2 DEF cancelled
<1>5. c.tbf \in [Tbfs -> TbfFields \cup {None}]
  BY Zenon, <1>1, <1>2, <1>3, <1>4 DEF MacFields, cancelled
<1>6. c.usf \in [Pdchs -> [Usfs -> [ms: Handsets \cup {None}, dead: BOOLEAN]]]
  <2>1. CASE \E t \in T : s.tbf[t].dir = "Up"
    <3>1. c.usf = FreeUSFs(s, m, TRUE)
      BY <1>2, <2>1 DEF freed
    <3>2. QED
      BY <1>1, <3>1, FreeUSFsType
  <2>2. CASE ~\E t \in T : s.tbf[t].dir = "Up"
    <3>1. c.usf = s.usf
      BY <1>2, <2>2 DEF freed
    <3>2. QED
      BY <1>1, <3>1 DEF MacFields
  <2>3. QED
    BY <2>1, <2>2
<1>7. c \in MacFields
  <2>1. c.tfi = s.tfi /\ c.ms = s.ms /\ c = [tbf |-> c.tbf, tfi |-> c.tfi, usf |-> c.usf, ms |-> c.ms]
    BY <1>2
  <2>2. QED
    BY <2>1, <1>1, <1>5, <1>6 DEF MacFields
<1>8. ASSUME NEW t \in Tbfs
      PROVE  Quiet(c.tbf[t], s.tbf[t]) /\ Downward(c.tbf[t])
  <2>1. CASE t \notin T
    BY <1>4, <2>1, Unchanged
  <2>2. CASE t \in T /\ state = "Dead"
    BY <1>3, <2>2 DEF Quiet, InUse, Downward, Busy, Active
  <2>3. CASE t \in T /\ state = "Release"
    BY <1>3, <2>3 DEF Quiet, InUse, Downward, Busy, Cancelled
  <2>4. QED
    BY <2>1, <2>2, <2>3
<1>9. KeepsChannels(c, s)
  BY <1>2 DEF KeepsChannels
<1>10. QED
  BY <1>3, <1>4, <1>7, <1>8, <1>9, StaysGood DEF c

(* One TBF gets new fields.                                                 *)
LEMMA SetGood ==
  ASSUME NEW s \in Good, NEW t \in Tbfs, NEW y \in TbfFields, Quiet(y, s.tbf[t]), Downward(y)
  PROVE  [s EXCEPT !.tbf[t] = y] \in Good
<1>1. s \in MacFields
  BY DEF Good
<1> DEFINE r == [s EXCEPT !.tbf[t] = y]
<1>2. r \in MacFields
  BY <1>1 DEF MacFields
<1>3. r.tbf[t] = y /\ \A u \in Tbfs \ {t} : r.tbf[u] = s.tbf[u]
  BY <1>1 DEF MacFields
<1>a. KeepsChannels(r, s)
  BY <1>1 DEF KeepsChannels, MacFields
<1> HIDE DEF r
<1>4. r \in Good
  BY <1>2, <1>3, <1>a, OneChanges
<1>5. QED
  BY <1>4 DEF r

LEMMA RetryGood ==
  ASSUME NEW s \in Good, NEW t \in Tbfs, s.tbf[t] \in TbfFields, NEW rest \in Lefts,
         \A u \in Tbfs \ {t} : Busy(s.tbf[u]) => ~(s.tbf[u].ms = s.tbf[t].ms /\ s.tbf[u].dir = "Down"),
         Retry(s, t, rest)
  PROVE  mac' \in Good /\ left' \in Lefts
<1> DEFINE d == [s EXCEPT !.tbf[t].state = "Dead"]
           y == [s.tbf[t] EXCEPT !.state = "Dead"]
<1>1. s \in MacFields
  BY DEF Good
<1>2. d = [s EXCEPT !.tbf[t] = y]
  BY <1>1 DEF MacFields
<1>3. y \in TbfFields /\ ~Busy(y) /\ ~InUse(y) /\ y.state = "Dead"
  BY DEF TbfFields, Busy, InUse, Active
<1>4. d \in Good
  BY <1>2, <1>3, SetGood DEF Quiet, Downward
<1>5. FreeOnly(d, s.tbf[t].ms, "Down")
  <2>1. d.tbf[t] = y /\ \A u \in Tbfs \ {t} : d.tbf[u] = s.tbf[u]
    BY <1>1, <1>2 DEF MacFields
  <2>2. QED
    BY <1>3, <2>1 DEF FreeOnly
<1>6. Create(d, s.tbf[t].ms, "Down") \in Good
  BY <1>4, <1>5, CreateGood DEF TbfFields
<1> HIDE DEF y
<1>7. CASE mac' = d /\ left' = rest
  BY <1>4, <1>7
<1>8. CASE /\ rest.retries > 0 /\ mac' = Create(d, s.tbf[t].ms, "Down")
           /\ left' = [rest EXCEPT !.retries = @ - 1]
  BY <1>6, <1>8 DEF Lefts
<1>9. QED
  BY <1>7, <1>8 DEF Retry

LEMMA SendGood ==
  ASSUME NEW s \in Good, NEW t \in Tbfs, s.tbf[t] \in TbfFields, NEW kind \in Messages,
         NEW hears, NEW heard \in PhoneFields, phone \in [Handsets -> PhoneFields],
         Send(s, t, kind, hears, heard)
  PROVE  mac' \in Good /\ phone' \in [Handsets -> PhoneFields]
<1>1. s \in MacFields
  BY DEF Good
<1>2. ASSUME NEW k \in {kind, None}
      PROVE  [s EXCEPT !.tbf[t].msg = k] \in Good
  <2> DEFINE y == [s.tbf[t] EXCEPT !.msg = k]
  <2>1. y \in TbfFields /\ y.state = s.tbf[t].state /\ y.dir = s.tbf[t].dir /\ y.ms = s.tbf[t].ms
    BY DEF TbfFields
  <2>2. Quiet(y, s.tbf[t]) /\ Downward(y)
    BY <2>1, NoneAssumption DEF Quiet, InUse, Busy, Downward, Good, Released
  <2>3. [s EXCEPT !.tbf[t].msg = k] = [s EXCEPT !.tbf[t] = y]
    BY <1>1 DEF MacFields
  <2>4. QED
    BY <2>1, <2>2, <2>3, SetGood
<1>3. QED
  BY <1>2 DEF Send

(* Something else than the TBFs changes.                                    *)
LEMMA MsGood ==
  ASSUME NEW s \in Good, NEW m \in Handsets,
         NEW x \in MsFields, s.ms[m].ch # None => x.ch # None
  PROVE  [s EXCEPT !.ms[m] = x] \in Good
<1> DEFINE r == [s EXCEPT !.ms[m] = x]
<1>1. s \in MacFields
  BY DEF Good
<1>2. r \in MacFields /\ r.tbf = s.tbf
  BY <1>1 DEF MacFields
<1>3. KeepsChannels(r, s)
  BY <1>1 DEF KeepsChannels, MacFields
<1>4. QED
  BY <1>2, <1>3, SameTbfs

(* The changes of a single field that the actions make.                     *)
LEMMA AnsweredGood ==
  ASSUME NEW s \in Good, NEW t \in Tbfs, s.tbf[t] \in TbfFields
  PROVE  /\ Answered(s, t) \in Good
         /\ Answered(s, t).tbf[t] = [s.tbf[t] EXCEPT !.msg = None]
         /\ \A u \in Tbfs \ {t} : Answered(s, t).tbf[u] = s.tbf[u]
<1> DEFINE y == [s.tbf[t] EXCEPT !.msg = None]
<1>1. s \in MacFields
  BY DEF Good
<1>2. y \in TbfFields /\ y.state = s.tbf[t].state /\ y.dir = s.tbf[t].dir /\ y.ms = s.tbf[t].ms
  BY DEF TbfFields
<1>3. Quiet(y, s.tbf[t]) /\ Downward(y)
  BY <1>2, NoneAssumption DEF Quiet, InUse, Busy, Downward, Good, Released
<1>4. Answered(s, t) = [s EXCEPT !.tbf[t] = y]
  BY <1>1 DEF Answered, MacFields
<1>5. [s EXCEPT !.tbf[t] = y] \in Good
  BY <1>2, <1>3, SetGood
<1>6. QED
  BY <1>1, <1>4, <1>5 DEF MacFields

LEMMA NewUpGood ==
  ASSUME NEW s \in Good, NEW m \in Handsets
  PROVE  NewUpTBF(s, m) \in Good
<1>1. CASE Those(s, m, "Up", Active \ {"Final"}) = {}
  <2>1. FreeOnly(s, m, "Up")
    BY <1>1 DEF FreeOnly, Those, Busy
  <2>2. QED
    BY <1>1, <2>1, CreateGood DEF NewUpTBF
<1>2. QED
  BY <1>1 DEF NewUpTBF

LEMMA DownFree ==
  ASSUME NEW s \in Good, NEW m \in Handsets, NEW S, Active \subseteq S, Those(s, m, "Down", S) = {}
  PROVE  FreeOnly(s, m, "Down")
BY DEF FreeOnly, Those, Busy

LEMMA CancelGood ==
  ASSUME NEW s \in Good, NEW t \in Tbfs, s.tbf[t] \in TbfFields
  PROVE  /\ Cancel(s, t) \in Good
         /\ Cancel(s, t).tbf[t] \in TbfFields /\ Cancel(s, t).tbf[t].ms = s.tbf[t].ms
         /\ \A u \in Tbfs \ {t} : Cancel(s, t).tbf[u] = s.tbf[u]
<1>1. s.tbf[t].ms \in Handsets /\ Cancelled(s, s.tbf[t].ms, {t})
  BY NoneAssumption DEF TbfFields, Cancelled
<1> DEFINE T == {t}
           c == CancelAll(s, s.tbf[t].ms, T, "Dead")
<1> HIDE DEF T
<1>a. t \in T /\ T \subseteq Tbfs /\ s.tbf[t].ms \in Handsets /\ Cancelled(s, s.tbf[t].ms, T)
  BY <1>1 DEF T
<1>2. /\ c \in Good
      /\ \A u \in T : c.tbf[u] \in TbfFields /\ c.tbf[u].ms = s.tbf[u].ms
      /\ \A u \in Tbfs \ {t} : c.tbf[u] = s.tbf[u]
  <2>1. \A u \in Tbfs \ {t} : u \notin T
    BY DEF T
  <2>2. QED
    BY <1>a, <2>1, CancelAllGood
<1>3. Cancel(s, t) = c
  BY DEF Cancel, T
<1> HIDE DEF c
<1>4. QED
  BY <1>a, <1>2, <1>3

LEMMA CancelRetryGood ==
  ASSUME NEW s \in Good, NEW t \in Tbfs, Busy(s.tbf[t]), s.tbf[t].dir = "Down",
         NEW rest \in Lefts, Retry(Cancel(s, t), t, rest)
  PROVE  mac' \in Good /\ left' \in Lefts
<1>1. s.tbf[t] \in TbfFields
  BY DEF Good, MacFields, Busy
<1> DEFINE c == Cancel(s, t)
<1>2. /\ c \in Good
      /\ c.tbf[t] \in TbfFields /\ c.tbf[t].ms = s.tbf[t].ms
      /\ \A u \in Tbfs \ {t} : c.tbf[u] = s.tbf[u]
  BY <1>1, CancelGood
<1>3. Retry(c, t, rest)
  OBVIOUS
<1> HIDE DEF c
<1>4. \A u \in Tbfs \ {t} : Busy(c.tbf[u]) => ~(c.tbf[u].ms = c.tbf[t].ms /\ c.tbf[u].dir = "Down")
  BY <1>2 DEF Good, Single
<1>5. QED
  BY <1>2, <1>3, <1>4, RetryGood

LEMMA DeleteGood ==
  ASSUME NEW s \in Good, NEW t \in Tbfs
  PROVE  Delete(s, t) \in Good
<1> DEFINE r == Delete(s, t)
<1>1. r \in MacFields /\ r.tbf[t] = None /\ \A u \in Tbfs \ {t} : r.tbf[u] = s.tbf[u]
  BY DEF Delete, Good, MacFields
<1>a. KeepsChannels(r, s)
  BY DEF KeepsChannels, Delete, Good, MacFields
<1>2. Quiet(r.tbf[t], s.tbf[t]) /\ Downward(r.tbf[t])
  BY <1>1 DEF Quiet, InUse, Downward, Busy
<1> HIDE DEF r
<1>3. r \in Good
  BY <1>a, <1>1, <1>2, OneChanges
<1>4. QED
  BY <1>3 DEF r

LEMMA PhoneTypes ==
  ASSUME NEW ph \in PhoneFields
  PROVE  /\ \A dir \in {"Up", "Down"} : Out(ph, dir) \in PhoneFields
         /\ \A dir \in {"Up", "Down"} : Out([ph EXCEPT !.asks = FALSE], dir) \in PhoneFields
         /\ \A p \in Pdchs \cup {None} : Asking(ph, p) \in PhoneFields
<1>1. Idle \in PhoneFields
  BY DEF Idle, PhoneFields
<1>2. ASSUME NEW q \in PhoneFields, NEW dir \in {"Up", "Down"} PROVE Out(q, dir) \in PhoneFields
  BY <1>1 DEF Out, PhoneFields
<1>3. [ph EXCEPT !.asks = FALSE] \in PhoneFields
  BY DEF PhoneFields
<1>4. ASSUME NEW p \in Pdchs \cup {None} PROVE Asking(ph, p) \in PhoneFields
  BY DEF Asking, PhoneFields
<1>5. QED
  BY <1>2, <1>3, <1>4

LEMMA AssignedType ==
  ASSUME NEW ph \in PhoneFields, NEW t \in Tbfs, mac \in MacFields, mac.tbf[t] \in TbfFields
  PROVE  Assigned(ph, t) \in PhoneFields
<1>1. Ch(mac, t) \in Pdchs \cup {None} /\ mac.tbf[t].tfi \in Tfis \cup {None}
  BY DEF Ch, MacFields, MsFields, TbfFields
<1>2. QED
  BY <1>1 DEF Assigned, PhoneFields
-----------------------------------------------------------------------------
LEMMA InitInv == Init => IInv
<1> SUFFICES ASSUME Init PROVE IInv
  OBVIOUS
<1>1. left \in Lefts
  BY TbfAssumption DEF Init, Lefts
<1>2. phone \in [Handsets -> PhoneFields]
  BY DEF Init, Idle, PhoneFields
<1>3. mac \in MacFields
  BY DEF Init, MacFields, MsFields
<1>4. \A t \in Tbfs : mac.tbf[t] = None
  BY DEF Init
<1>5. Single(mac) /\ Released(mac) /\ Channelled(mac)
  BY <1>4 DEF Single, Released, Channelled, Busy, InUse
<1>6. QED
  BY <1>1, <1>2, <1>3, <1>5 DEF IInv, Good

LEMMA StepInv == IInv /\ [Next]_vars => IInv'
<1> SUFFICES ASSUME IInv, [Next]_vars PROVE IInv'
  OBVIOUS
<1> USE NoneAssumption
<1>mac. mac \in Good /\ mac \in MacFields
  BY DEF IInv, Good
<1>phone. phone \in [Handsets -> PhoneFields]
  BY DEF IInv
<1>left. left \in Lefts
  BY DEF IInv
<1>tbf. ASSUME NEW t \in Tbfs, mac.tbf[t] # None
        PROVE  mac.tbf[t] \in TbfFields /\ mac.tbf[t].ms \in Handsets
  BY <1>mac, <1>tbf DEF MacFields, TbfFields
<1>ms. ASSUME NEW m \in Handsets
       PROVE  mac.ms[m] \in MsFields
  BY <1>mac DEF MacFields
<1> DEFINE Kept == mac' \in Good /\ phone' \in [Handsets -> PhoneFields] /\ left' \in Lefts
<1>s. SUFFICES Kept
  BY DEF IInv
<1>1. ASSUME NEW m \in Handsets, Arrive(m)
      PROVE  Kept
  <2> DEFINE x == [mac.ms[m] EXCEPT !.queue = @ + 1]
  <2>1. x \in MsFields /\ x.ch = mac.ms[m].ch
    BY <1>ms DEF MsFields
  <2>2. mac' = [mac EXCEPT !.ms[m] = x]
    BY <1>1, <1>mac DEF Arrive, MacFields
  <2>3. left' \in Lefts /\ phone' = phone
    BY <1>1, <1>left DEF Arrive, Lefts
  <2>4. QED
    BY <1>mac, <1>phone, <2>1, <2>2, <2>3, MsGood
<1>2. ASSUME NEW m \in Handsets, StartDown(m)
      PROVE  Kept
  <2> DEFINE x == [mac.ms[m] EXCEPT !.queue = @ - 1]
             s == [mac EXCEPT !.ms[m].queue = @ - 1]
  <2>1. x \in MsFields /\ x.ch = mac.ms[m].ch
    BY <1>2, <1>ms DEF StartDown, MsFields
  <2>2. s = [mac EXCEPT !.ms[m] = x] /\ s.tbf = mac.tbf
    BY <1>mac DEF MacFields
  <2>3. s \in Good
    BY <1>mac, <2>1, <2>2, MsGood
  <2>4. FreeOnly(s, m, "Down")
    <3>1. FreeOnly(mac, m, "Down")
      BY <1>2, <1>mac, DownFree DEF StartDown
    <3>2. QED
      BY <2>2, <3>1 DEF FreeOnly
  <2> HIDE DEF s
  <2>5. mac' = Create(s, m, "Down") /\ phone' = phone /\ left' = left
    BY <1>2 DEF StartDown, s
  <2>6. QED
    BY <1>phone, <1>left, <2>3, <2>4, <2>5, CreateGood
<1>3. ASSUME NEW m \in Handsets, NonResponsive(m)
      PROVE  Kept
  <2> DEFINE T == Those(mac, m, "Up", Active) \cup Those(mac, m, "Down", Active)
  <2>1. mac' = CancelAll(mac, m, T, "Dead") /\ phone' = phone /\ left' = left
    BY <1>3 DEF NonResponsive
  <2>2. Cancelled(mac, m, T)
    BY DEF Cancelled, Those
  <2> HIDE DEF T
  <2>3. QED
    BY <1>mac, <1>phone, <1>left, <2>1, <2>2, CancelAllGood
<1>4. ASSUME NEW m \in Handsets, GivesUp(m)
      PROVE  Kept
  <2>1. mac' = mac /\ left' = left /\ phone' = [phone EXCEPT ![m] = Out([phone[m] EXCEPT !.asks = FALSE], "Up")]
    BY <1>4 DEF GivesUp
  <2>2. Out([phone[m] EXCEPT !.asks = FALSE], "Up") \in PhoneFields
    BY <1>phone, PhoneTypes
  <2>3. QED
    BY <1>mac, <1>phone, <1>left, <2>1, <2>2
<1>5. ASSUME NEW m \in Handsets, NEW dir \in {"Up", "Down"}, Leaves(m, dir)
      PROVE  Kept
  <2>1. mac' = mac /\ left' = left /\ phone' = [phone EXCEPT ![m] = Out(phone[m], dir)]
    BY <1>5 DEF Leaves
  <2>2. Out(phone[m], dir) \in PhoneFields
    BY <1>phone, PhoneTypes
  <2>3. QED
    BY <1>mac, <1>phone, <1>left, <2>1, <2>2
<1>6. ASSUME NEW m \in Handsets, NEW p \in Pdchs, Rach(m, p)
      PROVE  Kept
  <2> DEFINE s == [mac EXCEPT !.ms[m].t3168 = TRUE]
             downs == Those(s, m, "Down", Active)
             ups == Those(s, m, "Up", Transmitting)
             rest == [left EXCEPT !.asks = @ - 1]
  <2>1. rest \in Lefts
    BY <1>6, <1>left DEF Rach, MayAsk, Lefts
  <2>2. s \in Good /\ s \in MacFields
    <3> DEFINE x == [mac.ms[m] EXCEPT !.t3168 = TRUE]
    <3>1. x \in MsFields /\ x.ch = mac.ms[m].ch
      BY <1>ms DEF MsFields
    <3>2. s = [mac EXCEPT !.ms[m] = x]
      BY <1>mac DEF MacFields
    <3>3. QED
      BY <1>mac, <3>1, <3>2, MsGood DEF Good
  <2>3. phone' \in [Handsets -> PhoneFields]
    <3>1. phone' = [phone EXCEPT ![m] = Asking(phone[m], p)]
      BY <1>6 DEF Rach
    <3>2. Asking(phone[m], p) \in PhoneFields
      BY <1>phone, PhoneTypes
    <3>3. QED
      BY <1>phone, <3>1, <3>2
  <2>4. IF downs = {} /\ ups = {}
        THEN /\ mac' = NewUpTBF([s EXCEPT !.ms[m].ch = None, !.ms[m].pacch = p], m)
             /\ left' = rest
        ELSE \E u \in IF ups = {} THEN {None} ELSE ups :
                 LET c == IF u = None THEN s ELSE Cancel(s, u)
                 IN IF downs \cap Those(s, m, "Down", Transmitting) = {} THEN mac' = c /\ left' = rest
                    ELSE \E d \in downs : Retry(Cancel(c, d), d, rest)
    BY <1>6 DEF Rach
  <2>5. \A u \in ups : u \in Tbfs /\ s.tbf[u] # None /\ s.tbf[u].dir = "Up"
    BY DEF Those
  <2>6. \A d \in downs : d \in Tbfs /\ Busy(s.tbf[d]) /\ s.tbf[d].dir = "Down"
    BY DEF Those, Busy
  <2> HIDE DEF s, downs, ups, rest
  <2>7. CASE downs = {} /\ ups = {}
    <3> DEFINE x == [s.ms[m] EXCEPT !.ch = None, !.pacch = p]
               r == [s EXCEPT !.ms[m].ch = None, !.ms[m].pacch = p]
    <3>1. s.ms[m] \in MsFields
      BY <2>2 DEF MacFields
    <3>2. x \in MsFields
      BY <3>1 DEF MsFields
    <3>3. r = [s EXCEPT !.ms[m] = x]
      BY <2>2, <3>1 DEF MacFields, MsFields
    <3>a. r \in MacFields /\ r.tbf = s.tbf /\ \A k \in Handsets \ {m} : r.ms[k] = s.ms[k]
      BY <2>2, <3>2, <3>3 DEF MacFields
    <3>b. ASSUME ~Gaps, NEW t \in Tbfs PROVE ~(InUse(s.tbf[t]) /\ s.tbf[t].ms = m)
      <4>1. s.tbf = mac.tbf
        BY <1>mac DEF s, MacFields
      <4>2. Those(mac, m, "Up", {"Ready", "Waiting1"}) = {}
        BY <1>6, <3>b DEF Rach
      <4>3. s.tbf[t].dir = "Up" => s.tbf[t] = None \/ s.tbf[t].state # "Release"
        BY <2>2 DEF Good, Released
      <4>4. s.tbf[t] # None => s.tbf[t].dir \in {"Up", "Down"}
        BY <2>2 DEF MacFields, TbfFields
      <4>5. CASE s.tbf[t] # None /\ s.tbf[t].dir = "Down"
        BY <2>7, <4>5 DEF downs, Those, InUse
      <4>6. CASE s.tbf[t] # None /\ s.tbf[t].dir = "Up"
        BY <2>7, <4>1, <4>2, <4>3, <4>6 DEF ups, Those, InUse, Active, Transmitting
      <4>7. QED
        BY <4>4, <4>5, <4>6 DEF InUse
    <3>c. ~Gaps => Channelled(r)
      <4> SUFFICES ASSUME ~Gaps, NEW t \in Tbfs, InUse(s.tbf[t]) PROVE r.ms[s.tbf[t].ms].ch # None
        BY <3>a DEF Channelled
      <4>1. s.tbf[t].ms \in Handsets \ {m} /\ s.ms[s.tbf[t].ms].ch # None
        BY <2>2, <3>b DEF InUse, MacFields, TbfFields, Good, Channelled
      <4>2. QED
        BY <3>a, <4>1
    <3>4. r \in Good
      BY <2>2, <3>a, <3>c DEF Good, Single, Released
    <3> HIDE DEF r
    <3>5. mac' = NewUpTBF(r, m) /\ left' = rest
      BY <2>4, <2>7 DEF r
    <3>6. QED
      BY <2>1, <2>3, <3>4, <3>5, NewUpGood
  <2>8. CASE ~(downs = {} /\ ups = {})
    <3>1. PICK u \in IF ups = {} THEN {None} ELSE ups :
                 LET c == IF u = None THEN s ELSE Cancel(s, u)
                 IN IF downs \cap Those(s, m, "Down", Transmitting) = {} THEN mac' = c /\ left' = rest
                    ELSE \E d \in downs : Retry(Cancel(c, d), d, rest)
      BY <2>4, <2>8
    <3> DEFINE c == IF u = None THEN s ELSE Cancel(s, u)
    <3>2. c \in Good /\ \A d \in downs : c.tbf[d] = s.tbf[d]
      <4>1. CASE u = None
        BY <2>2, <4>1
      <4>2. CASE u # None
        <5>1. u \in ups
          BY <4>2
        <5>2. u \in Tbfs /\ s.tbf[u] \in TbfFields /\ \A d \in downs : d \in Tbfs \ {u}
          BY <2>2, <2>5, <2>6, <5>1 DEF MacFields
        <5>3. c = Cancel(s, u)
          BY <4>2
        <5>4. QED
          BY <2>2, <5>2, <5>3, CancelGood
      <4>3. QED
        BY <4>1, <4>2
    <3>3. \/ mac' = c /\ left' = rest
          \/ \E d \in downs : Retry(Cancel(c, d), d, rest)
      BY <3>1
    <3> HIDE DEF c
    <3>4. CASE mac' = c /\ left' = rest
      BY <2>1, <2>3, <3>2, <3>4
    <3>5. ASSUME NEW d \in downs, Retry(Cancel(c, d), d, rest)
          PROVE  Kept
      <4>1. d \in Tbfs /\ Busy(c.tbf[d]) /\ c.tbf[d].dir = "Down"
        BY <2>6, <3>2
      <4>2. QED
        BY <2>1, <2>3, <3>2, <3>5, <4>1, CancelRetryGood
    <3>6. QED
      BY <3>3, <3>4, <3>5
  <2>9. QED
    BY <2>7, <2>8
<1>7. ASSUME NEW t \in Tbfs, Attach(t)
      PROVE  Kept
  <2>1. mac.tbf[t] \in TbfFields /\ mac.tbf[t].state = "Ready" /\ mac.tbf[t].ms \in Handsets
    BY <1>7, <1>tbf DEF Attach, Is
  <2> DEFINE m == mac.tbf[t].ms
  <2>2. phone' = phone /\ left' = left
    BY <1>7 DEF Attach
  <2>3. PICK p \in Pdchs, f \in Tfis \cup {None} :
        LET free == {e \in Tfis : mac.tfi[e] = None}
            up == mac.tbf[t].dir = "Up"
            done == f # None /\ (up => HasUSF(mac.usf[p], m))
        IN /\ IF mac.ms[m].ch # None THEN p = mac.ms[m].ch ELSE mac.ms[m].pacch \in {p, None}
           /\ IF mac.tbf[t].tfi # None THEN f = mac.tbf[t].tfi
              ELSE f \in (IF free = {} THEN {None} ELSE free)
           /\ mac' = [mac EXCEPT
                        !.ms[m] = [mac.ms[m] EXCEPT !.ch = p, !.pacch = p],
                        !.tfi = [e \in Tfis |-> IF e = f THEN t ELSE mac.tfi[e]],
                        !.usf[p] = IF up /\ done THEN AllocateUSF(mac.usf[p], m) ELSE @,
                        !.tbf[t] = [mac.tbf[t] EXCEPT !.tfi = f, !.attached = done,
                                                      !.state = IF done THEN "Waiting1" ELSE "Ready"]]
    BY <1>7, Zenon DEF Attach
  <2> DEFINE up == mac.tbf[t].dir = "Up"
             done == f # None /\ (up => HasUSF(mac.usf[p], m))
             l == IF up /\ done THEN AllocateUSF(mac.usf[p], m) ELSE mac.usf[p]
             tfis == [e \in Tfis |-> IF e = f THEN t ELSE mac.tfi[e]]
             x == [mac.ms[m] EXCEPT !.ch = p, !.pacch = p]
             state == IF done THEN "Waiting1" ELSE "Ready"
             y == [mac.tbf[t] EXCEPT !.tfi = f, !.attached = done, !.state = state]
  <2>4. mac' = [mac EXCEPT !.ms[m] = x, !.tfi = tfis, !.usf[p] = l, !.tbf[t] = y]
    BY <2>3, Zenon
  <2>5. done \in BOOLEAN /\ state \in {"Waiting1", "Ready"}
    OBVIOUS
  <2>6. tfis \in [Tfis -> Tbfs \cup {None}]
    BY <1>mac DEF MacFields
  <2>7. l \in [Usfs -> [ms: Handsets \cup {None}, dead: BOOLEAN]]
    <3>1. mac.usf[p] \in [Usfs -> [ms: Handsets \cup {None}, dead: BOOLEAN]]
      BY <1>mac DEF MacFields
    <3>2. AllocateUSF(mac.usf[p], m) \in [Usfs -> [ms: Handsets \cup {None}, dead: BOOLEAN]]
      BY <2>1, <3>1 DEF AllocateUSF
    <3>3. QED
      BY <3>1, <3>2
  <2> HIDE DEF done, state, tfis, l
  <2>8. x \in MsFields
    BY <1>ms, <2>1 DEF MsFields
  <2>9. y \in TbfFields /\ y.state = state /\ y.dir = mac.tbf[t].dir /\ y.ms = mac.tbf[t].ms
    BY <2>1, <2>5 DEF TbfFields, Active
  <2> HIDE DEF x, y
  <2>11. mac' \in MacFields
    BY <1>mac, <2>1, <2>4, <2>6, <2>7, <2>8, <2>9 DEF MacFields
  <2>12. mac'.tbf[t] = y /\ \A u \in Tbfs \ {t} : mac'.tbf[u] = mac.tbf[u]
    BY <1>mac, <2>4 DEF MacFields
  <2>13. (Busy(y) => Busy(mac.tbf[t]) /\ y.ms = mac.tbf[t].ms /\ y.dir = mac.tbf[t].dir) /\ Downward(y)
    BY <2>1, <2>5, <2>9 DEF Downward, Busy, Active
  <2>14. Single(mac') /\ Released(mac')
    BY <1>mac, <2>12, <2>13 DEF Good, Single, Released, Downward
  <2>15. ~Gaps => Channelled(mac')
    <3> SUFFICES ASSUME ~Gaps, NEW u \in Tbfs, InUse(mac'.tbf[u]) PROVE mac'.ms[mac'.tbf[u].ms].ch # None
      BY DEF Channelled
    <3>1. mac'.ms = [mac.ms EXCEPT ![m] = x] /\ x.ch = p
      BY <1>ms, <1>mac, <2>1, <2>4 DEF MacFields, MsFields, x
    <3>2. mac'.ms[m].ch # None
      BY <1>mac, <2>1, <3>1 DEF MacFields
    <3>3. CASE mac'.tbf[u].ms = m
      BY <3>2, <3>3
    <3>4. CASE mac'.tbf[u].ms # m
      <4>1. mac'.tbf[u] = mac.tbf[u]
        BY <2>9, <2>12, <3>4
      <4>2. mac.tbf[u].ms \in Handsets /\ mac.ms[mac.tbf[u].ms].ch # None
        BY <1>mac, <1>tbf, <4>1 DEF Good, Channelled, InUse
      <4>3. QED
        BY <1>mac, <3>1, <3>4, <4>1, <4>2 DEF MacFields
    <3>5. QED
      BY <3>3, <3>4
  <2>16. mac' \in Good
    BY <2>11, <2>14, <2>15 DEF Good
  <2>17. QED
    BY <1>phone, <1>left, <2>2, <2>16
<1>8. ASSUME NEW t \in Tbfs, SendAssignment(t)
      PROVE  Kept
  <2>1. mac.tbf[t] \in TbfFields /\ mac.tbf[t].state = "Waiting1" /\ mac.tbf[t].ms \in Handsets
    BY Zenon, <1>8, <1>tbf DEF SendAssignment, Served, Is
  <2> DEFINE m == mac.tbf[t].ms
  <2>2. left' = left
    BY Zenon, <1>8 DEF SendAssignment
  <2>3. CASE Exhausted(t)
    <3>1. mac' = Cancel(mac, t) /\ phone' = phone
      BY <1>8, <2>3 DEF SendAssignment
    <3>2. QED
      BY <1>mac, <1>phone, <1>left, <2>1, <2>2, <3>1, CancelGood
  <2>4. CASE ~Exhausted(t)
    <3>1. PICK expired \in BOOLEAN, t3193 \in BOOLEAN :
             LET s == [mac EXCEPT !.ms[mac.tbf[t].ms].t3168 = @ /\ ~expired]
             IN /\ expired => mac.ms[mac.tbf[t].ms].t3168
                /\ IF mac.tbf[t].dir = "Up" /\ expired THEN mac' = Cancel(s, t) /\ UNCHANGED phone
                   ELSE /\ mac.tbf[t].dir = "Down" => ~s.ms[mac.tbf[t].ms].t3168
                        /\ IF OnCcch(t, t3193)
                           THEN /\ mac' = [s EXCEPT !.tbf[t].msg = "Queued"]
                                /\ UNCHANGED phone
                           ELSE Send([s EXCEPT !.tbf[t].n = @ + 1], t, "Assign",
                                     HearsAssignment(t), Assigned(phone[mac.tbf[t].ms], t))
      BY <1>8, <2>4, Zenon DEF SendAssignment
    <3> DEFINE s == [mac EXCEPT !.ms[m].t3168 = @ /\ ~expired]
               x == [mac.ms[m] EXCEPT !.t3168 = @ /\ ~expired]
    <3>2. s \in Good /\ s.tbf = mac.tbf
      <4>1. x \in MsFields /\ x.ch = mac.ms[m].ch
        BY <1>ms, <2>1 DEF MsFields
      <4>2. s = [mac EXCEPT !.ms[m] = x]
        BY <1>mac, <2>1 DEF MacFields
      <4>3. QED
        BY <1>mac, <2>1, <4>1, <4>2, MsGood DEF MacFields
    <3>3. \/ mac' = Cancel(s, t) /\ phone' = phone
          \/ mac' = [s EXCEPT !.tbf[t].msg = "Queued"] /\ phone' = phone
          \/ Send([s EXCEPT !.tbf[t].n = @ + 1], t, "Assign", HearsAssignment(t), Assigned(phone[m], t))
      BY <3>1, Zenon
    <3> HIDE DEF s
    <3>4. CASE mac' = Cancel(s, t) /\ phone' = phone
      BY <1>phone, <1>left, <2>1, <2>2, <3>2, <3>4, CancelGood
    <3>5. CASE mac' = [s EXCEPT !.tbf[t].msg = "Queued"] /\ phone' = phone
      <4> DEFINE y == [s.tbf[t] EXCEPT !.msg = "Queued"]
      <4>1. y \in TbfFields /\ y.state = s.tbf[t].state /\ y.dir = s.tbf[t].dir /\ y.ms = s.tbf[t].ms
        BY <2>1, <3>2 DEF TbfFields
      <4>2. Quiet(y, s.tbf[t]) /\ Downward(y)
        BY <2>1, <3>2, <4>1 DEF Quiet, InUse, Busy, Downward
      <4>3. mac' = [s EXCEPT !.tbf[t] = y]
        BY <3>2, <3>5 DEF Good, MacFields
      <4>4. QED
        BY <1>phone, <1>left, <2>2, <3>2, <3>5, <4>1, <4>2, <4>3, SetGood
    <3>6. CASE Send([s EXCEPT !.tbf[t].n = @ + 1], t, "Assign", HearsAssignment(t), Assigned(phone[m], t))
      <4> DEFINE y == [s.tbf[t] EXCEPT !.n = @ + 1]
                 r == [s EXCEPT !.tbf[t].n = @ + 1]
      <4>1. mac.tbf[t].n + 1 \in Counts
        BY <2>1, <2>4, Limits, TbfAssumption DEF Exhausted, TbfFields
      <4>2. y \in TbfFields /\ y.state = s.tbf[t].state /\ y.dir = s.tbf[t].dir /\ y.ms = s.tbf[t].ms
        BY <2>1, <3>2, <4>1 DEF TbfFields
      <4>3. Quiet(y, s.tbf[t]) /\ Downward(y)
        BY <2>1, <3>2, <4>2 DEF Quiet, InUse, Busy, Downward
      <4>4. r = [s EXCEPT !.tbf[t] = y] /\ r.tbf[t] = y
        BY <3>2 DEF Good, MacFields
      <4>5. r \in Good
        BY <3>2, <4>2, <4>3, <4>4, SetGood
      <4>6. Assigned(phone[m], t) \in PhoneFields
        BY <1>mac, <1>phone, <2>1, AssignedType
      <4> HIDE DEF r, y
      <4>7. Send(r, t, "Assign", HearsAssignment(t), Assigned(phone[m], t))
        BY <3>6 DEF r
      <4>8. QED
        BY <1>phone, <1>left, <2>2, <4>2, <4>4, <4>5, <4>6, <4>7, SendGood DEF Messages
    <3>7. QED
      BY <3>3, <3>4, <3>5, <3>6
  <2>5. QED
    BY <2>3, <2>4
<1>9. ASSUME NEW t \in Tbfs, CcchSends(t)
      PROVE  Kept
  <2>1. mac.tbf[t] \in TbfFields /\ mac.tbf[t].ms \in Handsets /\ left' = left
    BY <1>9, <1>tbf DEF CcchSends
  <2>2. Assigned(phone[mac.tbf[t].ms], t) \in PhoneFields
    BY <1>mac, <1>phone, <2>1, AssignedType
  <2>3. Send(mac, t, "Assign", phone[mac.tbf[t].ms].ch = None /\ Ch(mac, t) # None,
             Assigned(phone[mac.tbf[t].ms], t))
    BY <1>9 DEF CcchSends
  <2>4. QED
    BY <1>mac, <1>phone, <1>left, <2>1, <2>2, <2>3, SendGood DEF Messages
<1>10. ASSUME NEW t \in Tbfs, Begin(t)
      PROVE  Kept
  <2>1. mac.tbf[t] \in TbfFields /\ mac.tbf[t].state = "Waiting1" /\ mac.tbf[t].ms \in Handsets
    BY <1>10, <1>tbf DEF Begin, Served, Is
  <2> DEFINE m == mac.tbf[t].ms
             runs == mac.ms[m].t3168 /\ mac.tbf[t].dir = "Down"
             x == [mac.ms[m] EXCEPT !.t3168 = runs]
             y == [mac.tbf[t] EXCEPT !.state = "Transmit", !.acked = FALSE, !.n = 0]
             r == [mac EXCEPT !.tbf[t] = y]
  <2>2. mac' = [mac EXCEPT !.tbf[t].state = "Transmit", !.tbf[t].acked = FALSE, !.tbf[t].n = 0,
                           !.ms[m].t3168 = runs]
        /\ phone' = phone /\ left' = left
    BY <1>10 DEF Begin
  <2>3. runs \in BOOLEAN
    OBVIOUS
  <2> HIDE DEF runs
  <2>4. x \in MsFields /\ x.ch = mac.ms[m].ch
    BY <1>ms, <2>1, <2>3 DEF MsFields
  <2>5. y \in TbfFields /\ y.state = "Transmit" /\ y.dir = mac.tbf[t].dir /\ y.ms = mac.tbf[t].ms
    BY <2>1, Limits DEF TbfFields, Active
  <2>6. Quiet(y, mac.tbf[t]) /\ Downward(y)
    BY <2>1, <2>5 DEF Quiet, InUse, Busy, Downward, Active
  <2>7. mac' = [mac EXCEPT !.tbf[t] = y, !.ms[m] = x]
    BY <1>mac, <2>1, <2>2 DEF MacFields
  <2> HIDE DEF x, y
  <2>8. r \in Good
    BY <1>mac, <2>5, <2>6, SetGood
  <2>9. mac' = [r EXCEPT !.ms[m] = x] /\ r.ms = mac.ms
    BY <1>mac, <2>7 DEF MacFields
  <2> HIDE DEF r
  <2>10. r.ms[m].ch # None => x.ch # None
    BY <2>4, <2>9
  <2>11. [r EXCEPT !.ms[m] = x] \in Good
    BY <2>1, <2>4, <2>8, <2>10, MsGood
  <2>12. QED
    BY <1>phone, <1>left, <2>2, <2>9, <2>11
<1>11. ASSUME NEW t \in Tbfs, Poll(t)
      PROVE  Kept
  <2>1. mac.tbf[t] \in TbfFields /\ phone[mac.tbf[t].ms] \in PhoneFields /\ left' = left
    BY <1>11, <1>tbf, <1>phone DEF Poll, Served, Is
  <2>2. Send(mac, t, "Data", phone[mac.tbf[t].ms].ch = Ch(mac, t) /\ phone[mac.tbf[t].ms].Down = mac.tbf[t].tfi,
             phone[mac.tbf[t].ms])
    BY <1>11 DEF Poll
  <2>3. QED
    BY <1>mac, <1>phone, <1>left, <2>1, <2>2, SendGood DEF Messages
<1>12. ASSUME NEW t \in Tbfs, DownFails(t)
      PROVE  Kept
  <2>1. /\ mac.tbf[t] \in TbfFields /\ mac.tbf[t].ms \in Handsets
        /\ mac.tbf[t].dir = "Down" /\ mac.tbf[t].state = "Transmit"
        /\ phone' = phone /\ left' = left /\ mac' = CancelAndRelease(mac, t)
    BY <1>12, <1>tbf DEF DownFails, Served, Is
  <2> DEFINE T == {t}
  <2>2. T \subseteq Tbfs /\ \A u \in T : mac.tbf[u] # None /\ mac.tbf[u].dir = "Down" /\ mac.tbf[u].state \in Active \ {"Ready"}
    BY <2>1 DEF Active
  <2>3. mac' = CancelAll(mac, mac.tbf[t].ms, T, "Release")
    BY <2>1 DEF CancelAndRelease, Transmitting
  <2> HIDE DEF T
  <2>4. QED
    BY <1>mac, <1>phone, <1>left, <2>1, <2>2, <2>3, CancelAllGood DEF Cancelled
<1>13. ASSUME NEW t \in Tbfs, UpEnds(t)
      PROVE  Kept
  <2> DEFINE y == [mac.tbf[t] EXCEPT !.state = "Final"]
  <2>1. mac.tbf[t] \in TbfFields /\ mac.tbf[t].dir = "Up" /\ InUse(mac.tbf[t])
    BY <1>13, <1>tbf DEF UpEnds, Served, Is, InUse, Active
  <2>2. y \in TbfFields /\ y.state = "Final" /\ y.dir = "Up" /\ y.ms = mac.tbf[t].ms
    BY <2>1 DEF TbfFields, Active
  <2>3. Quiet(y, mac.tbf[t]) /\ Downward(y)
    BY <2>1, <2>2 DEF Quiet, Busy, Downward
  <2>4. mac' = [mac EXCEPT !.tbf[t] = y] /\ phone' = phone /\ left' = left
    BY <1>13, <1>mac, <2>1 DEF UpEnds, MacFields
  <2> HIDE DEF y
  <2>5. QED
    BY <1>mac, <1>phone, <1>left, <2>2, <2>3, <2>4, SetGood
<1>14. ASSUME NEW t \in Tbfs, UpFails(t)
      PROVE  Kept
  <2>1. mac.tbf[t] \in TbfFields /\ mac.tbf[t].ms \in Handsets /\ phone' = phone /\ left' = left
    BY <1>14, <1>tbf DEF UpFails, Served, Is
  <2> DEFINE m == mac.tbf[t].ms
             T == Those(mac, m, "Up", Active)
  <2>2. mac' = CancelAll(mac, m, T, "Dead")
    BY <1>14 DEF UpFails
  <2>3. Cancelled(mac, m, T)
    BY DEF Cancelled, Those
  <2> HIDE DEF T
  <2>4. QED
    BY <1>mac, <1>phone, <1>left, <2>1, <2>2, <2>3, CancelAllGood
<1>15. ASSUME NEW t \in Tbfs, SendFinal(t)
      PROVE  Kept
  <2>1. mac.tbf[t] \in TbfFields /\ mac.tbf[t].state = "Final" /\ mac.tbf[t].ms \in Handsets
        /\ left' = left
    BY <1>15, <1>tbf DEF SendFinal, Served, Is
  <2> DEFINE x == mac.tbf[t]
             ph == phone[x.ms]
  <2>2. CASE Exhausted(t)
    <3>1. mac' = Cancel(mac, t) /\ phone' = phone
      BY <1>15, <2>2 DEF SendFinal
    <3>2. QED
      BY <1>mac, <1>phone, <1>left, <2>1, <3>1, CancelGood
  <2>3. CASE ~Exhausted(t) /\ x.acked
    <3> DEFINE y == [x EXCEPT !.state = "Finished", !.n = 0, !.acked = FALSE]
    <3>a. /\ mac' = [mac EXCEPT !.tbf[t].state = "Finished", !.tbf[t].n = 0, !.tbf[t].acked = FALSE]
          /\ phone' = phone
      BY <1>15, <2>3 DEF SendFinal
    <3>1. mac' = [mac EXCEPT !.tbf[t] = y] /\ phone' = phone
      BY Zenon, <1>mac, <2>1, <3>a DEF MacFields
    <3>2. y \in TbfFields /\ y.state = "Finished"
      BY <2>1, Limits DEF TbfFields, Active
    <3>3. Quiet(y, mac.tbf[t]) /\ Downward(y)
      BY <3>2 DEF Quiet, InUse, Busy, Downward, Active
    <3> HIDE DEF y
    <3>4. QED
      BY <1>mac, <1>phone, <1>left, <2>1, <3>1, <3>2, <3>3, SetGood
  <2>4. CASE ~Exhausted(t) /\ ~x.acked
    <3> DEFINE y == [x EXCEPT !.n = @ + 1]
               r == [mac EXCEPT !.tbf[t].n = @ + 1]
    <3>1. x.n + 1 \in Counts
      BY <2>1, <2>4, Limits, TbfAssumption DEF Exhausted, TbfFields
    <3>2. y \in TbfFields /\ y.state = x.state /\ y.dir = x.dir /\ y.ms = x.ms
      BY <2>1, <3>1 DEF TbfFields
    <3>3. Quiet(y, mac.tbf[t]) /\ Downward(y)
      BY <2>1, <3>2 DEF Quiet, InUse, Busy, Downward
    <3>4. r = [mac EXCEPT !.tbf[t] = y] /\ r.tbf[t] = y
      BY <1>mac DEF MacFields
    <3>5. r \in Good
      BY <1>mac, <3>2, <3>3, <3>4, SetGood
    <3>6. ph \in PhoneFields /\ Out(ph, "Up") \in PhoneFields
      BY <1>phone, <2>1, PhoneTypes
    <3>7. Send(r, t, "Final", ph.ch = Ch(mac, t) /\ ph.Up = x.tfi, Out(ph, "Up"))
      BY <1>15, <2>4 DEF SendFinal
    <3> HIDE DEF r, y, ph
    <3>8. QED
      BY <1>phone, <1>left, <2>1, <3>2, <3>4, <3>5, <3>6, <3>7, SendGood DEF Messages
  <2>5. QED
    BY <2>2, <2>3, <2>4
<1>16. ASSUME NEW t \in Tbfs, SendRelease(t)
      PROVE  Kept
  <2>1. mac.tbf[t] \in TbfFields /\ mac.tbf[t].state = "Release" /\ mac.tbf[t].ms \in Handsets
        /\ mac.tbf[t].dir = "Down" /\ Busy(mac.tbf[t])
    BY <1>16, <1>tbf, <1>mac DEF SendRelease, Served, Is, Good, Released, Busy, Active
  <2> DEFINE x == mac.tbf[t]
             ph == phone[x.ms]
  <2>2. CASE x.acked
    <3> DEFINE d == Detach(mac, t)
               y == [d.tbf[t] EXCEPT !.acked = FALSE]
               r == [d EXCEPT !.tbf[t].acked = FALSE]
    <3>1. /\ d \in Good /\ d.tbf[t] \in TbfFields
          /\ d.tbf[t].ms = x.ms /\ d.tbf[t].dir = "Down"
          /\ \A u \in Tbfs \ {t} : d.tbf[u] = mac.tbf[u]
      BY <1>mac, <2>1, DetachGood
    <3>2. Retry(r, t, left) /\ phone' = phone
      BY <1>16, <2>2 DEF SendRelease
    <3> HIDE DEF d
    <3>3. y \in TbfFields /\ y.state = d.tbf[t].state /\ y.dir = "Down" /\ y.ms = d.tbf[t].ms
      BY <3>1 DEF TbfFields
    <3>4. Quiet(y, d.tbf[t]) /\ Downward(y)
      BY <3>1, <3>3 DEF Quiet, InUse, Busy, Downward
    <3>5. r = [d EXCEPT !.tbf[t] = y] /\ r.tbf[t] = y /\ \A u \in Tbfs \ {t} : r.tbf[u] = d.tbf[u]
      BY <3>1 DEF Good, MacFields
    <3>6. r \in Good
      BY <3>1, <3>3, <3>4, <3>5, SetGood
    <3> HIDE DEF r, y
    <3>7. \A u \in Tbfs \ {t} : Busy(r.tbf[u]) => ~(r.tbf[u].ms = r.tbf[t].ms /\ r.tbf[u].dir = "Down")
      BY <1>mac, <2>1, <3>1, <3>3, <3>5 DEF Good, Single
    <3>8. QED
      BY <1>phone, <1>left, <3>2, <3>3, <3>5, <3>6, <3>7, RetryGood
  <2>3. CASE ~x.acked /\ Exhausted(t)
    <3>1. Retry(Cancel(mac, t), t, left) /\ phone' = phone
      BY <1>16, <2>3 DEF SendRelease
    <3>2. QED
      BY <1>mac, <1>phone, <1>left, <2>1, <3>1, CancelRetryGood
  <2>4. CASE ~x.acked /\ ~Exhausted(t)
    <3> DEFINE y == [x EXCEPT !.n = @ + 1]
               r == [mac EXCEPT !.tbf[t].n = @ + 1]
    <3>1. x.n + 1 \in Counts
      BY <2>1, <2>4, Limits, TbfAssumption DEF Exhausted, TbfFields
    <3>2. y \in TbfFields /\ y.state = x.state /\ y.dir = x.dir /\ y.ms = x.ms
      BY <2>1, <3>1 DEF TbfFields
    <3>3. Quiet(y, mac.tbf[t]) /\ Downward(y)
      BY <2>1, <3>2 DEF Quiet, InUse, Busy, Downward
    <3>4. r = [mac EXCEPT !.tbf[t] = y] /\ r.tbf[t] = y
      BY <1>mac DEF MacFields
    <3>5. r \in Good
      BY <1>mac, <3>2, <3>3, <3>4, SetGood
    <3>6. ph \in PhoneFields /\ Out(ph, "Down") \in PhoneFields
      BY <1>phone, <2>1, PhoneTypes
    <3>7. Send(r, t, "Release", ph.ch = Ch(mac, t) /\ ph.Down = x.tfi, Out(ph, "Down")) /\ left' = left
      BY <1>16, <2>4 DEF SendRelease
    <3> HIDE DEF r, y, ph
    <3>8. QED
      BY <1>phone, <1>left, <2>1, <3>2, <3>4, <3>5, <3>6, <3>7, SendGood DEF Messages
  <2>5. QED
    BY <2>2, <2>3, <2>4
<1>17. ASSUME NEW t \in Tbfs, FinishedDetaches(t)
      PROVE  Kept
  BY <1>17, <1>mac, <1>phone, <1>left, DetachGood DEF FinishedDetaches, Served, Is
<1>18. ASSUME NEW t \in Tbfs, DeadExpires(t)
      PROVE  Kept
  BY <1>18, <1>mac, <1>phone, <1>left, DetachGood, DeleteGood DEF DeadExpires, Is
<1>19. ASSUME NEW t \in Tbfs, Forget(t)
      PROVE  Kept
  BY <1>19, <1>mac, <1>phone, <1>left, DeleteGood DEF Forget
<1>20. ASSUME NEW t \in Tbfs, Acknowledges(t)
      PROVE  Kept
  <2> DEFINE a == Answered(mac, t)
             acked == <<mac.tbf[t].msg, mac.tbf[t].state>> \in
                          {<<"Assign", "Waiting1">>, <<"Final", "Final">>, <<"Release", "Release">>}
             y == [a.tbf[t] EXCEPT !.acked = acked]
  <2>1. mac.tbf[t] \in TbfFields /\ phone' = phone /\ left' = left
    BY <1>20, <1>tbf DEF Acknowledges
  <2>2. a \in Good /\ a \in MacFields /\ a.tbf[t] = [mac.tbf[t] EXCEPT !.msg = None]
    BY <1>mac, <2>1, AnsweredGood DEF Good
  <2>3. mac' = [a EXCEPT !.tbf[t].acked = acked]
    BY <1>20 DEF Acknowledges
  <2>4. acked \in BOOLEAN
    OBVIOUS
  <2> HIDE DEF a, acked
  <2>5. a.tbf[t] \in TbfFields
    BY <2>1, <2>2 DEF TbfFields
  <2>6. y \in TbfFields /\ y.state = a.tbf[t].state /\ y.dir = a.tbf[t].dir /\ y.ms = a.tbf[t].ms
    BY <2>4, <2>5 DEF TbfFields
  <2>7. Quiet(y, a.tbf[t]) /\ Downward(y)
    BY <2>2, <2>5, <2>6 DEF Quiet, InUse, Busy, Downward, Good, Released
  <2>8. mac' = [a EXCEPT !.tbf[t] = y]
    BY <2>2, <2>3 DEF MacFields
  <2> HIDE DEF y
  <2>9. QED
    BY <1>phone, <1>left, <2>1, <2>2, <2>6, <2>7, <2>8, SetGood
<1>21. ASSUME NEW t \in Tbfs, AsksAgain(t)
      PROVE  Kept
  <2> DEFINE m == mac.tbf[t].ms
             a == Answered(mac, t)
             acked == mac.tbf[t].state = "Final"
             y == [a.tbf[t] EXCEPT !.acked = acked]
             r == [a EXCEPT !.tbf[t].acked = acked]
  <2>1. mac.tbf[t] \in TbfFields /\ m \in Handsets
    BY <1>21, <1>tbf DEF AsksAgain
  <2>2. a \in Good /\ a \in MacFields /\ a.tbf[t] = [mac.tbf[t] EXCEPT !.msg = None]
    BY <1>mac, <2>1, AnsweredGood DEF Good
  <2>3. mac' = NewUpTBF(r, m)
    BY <1>21 DEF AsksAgain
  <2>4. acked \in BOOLEAN
    OBVIOUS
  <2>b. phone' \in [Handsets -> PhoneFields]
    <3>1. Ch(mac, t) \in Pdchs \cup {None}
      BY <1>ms, <2>1 DEF Ch, MsFields
    <3>2. Asking(phone[m], Ch(mac, t)) \in PhoneFields
      BY <1>phone, <2>1, <3>1, PhoneTypes
    <3>3. phone' = [phone EXCEPT ![m] = Asking(phone[m], Ch(mac, t))]
      BY <1>21 DEF AsksAgain
    <3>4. QED
      BY <1>phone, <3>2, <3>3
  <2>c. left' \in Lefts
    BY <1>21, <1>left DEF AsksAgain, MayAsk, Lefts
  <2> HIDE DEF a, acked, m
  <2>5. a.tbf[t] \in TbfFields
    BY <2>1, <2>2 DEF TbfFields
  <2>6. y \in TbfFields /\ y.state = a.tbf[t].state /\ y.dir = a.tbf[t].dir /\ y.ms = a.tbf[t].ms
    BY <2>4, <2>5 DEF TbfFields
  <2>7. Quiet(y, a.tbf[t]) /\ Downward(y)
    BY <2>2, <2>5, <2>6 DEF Quiet, InUse, Busy, Downward, Good, Released
  <2>8. r = [a EXCEPT !.tbf[t] = y]
    BY <2>2 DEF MacFields
  <2> HIDE DEF y, r
  <2>9. r \in Good
    BY <2>2, <2>6, <2>7, <2>8, SetGood
  <2>10. QED
    BY <2>1, <2>b, <2>c, <2>3, <2>9, NewUpGood
<1>22. ASSUME NEW t \in Tbfs, AckNack(t)
      PROVE  Kept
  <2> DEFINE m == mac.tbf[t].ms
             s == Answered(mac, t)
             r == mac.tfi[phone[m].Down]
             known == r # None /\ s.tbf[r] # None
  <2>1. mac.tbf[t] \in TbfFields /\ m \in Handsets /\ phone[m] \in PhoneFields /\ phone[m].Down # None
    BY Zenon, <1>22, <1>tbf, <1>phone DEF AckNack
  <2>2. s \in Good /\ s \in MacFields
    BY <1>mac, <2>1, AnsweredGood DEF Good
  <2>3. r # None => r \in Tbfs
    BY <1>mac, <2>1 DEF MacFields, PhoneFields
  <2>4. PICK last \in BOOLEAN, asks \in BOOLEAN :
            LET g == IF known /\ last THEN [s EXCEPT !.tbf[r].state = "Finished"] ELSE s
                ph == IF asks THEN Asking(phone[m], phone[m].ch) ELSE phone[m]
            IN /\ asks => MayAsk(m) /\ Room(mac)
               /\ mac' = IF known /\ asks THEN NewUpTBF(g, s.tbf[r].ms) ELSE g
               /\ phone' = [phone EXCEPT ![m] = IF last THEN Out(ph, "Down") ELSE ph]
               /\ left' = [left EXCEPT !.asks = IF asks THEN @ - 1 ELSE @]
    BY Zenon, <1>22 DEF AckNack
  <2> DEFINE g == IF known /\ last THEN [s EXCEPT !.tbf[r].state = "Finished"] ELSE s
             ph == IF asks THEN Asking(phone[m], phone[m].ch) ELSE phone[m]
  <2>5. mac' = IF known /\ asks THEN NewUpTBF(g, s.tbf[r].ms) ELSE g
    BY Zenon, <2>4
  <2>6. phone' = [phone EXCEPT ![m] = IF last THEN Out(ph, "Down") ELSE ph]
    BY Zenon, <2>4
  <2>7. left' \in Lefts
    <3>1. left' = [left EXCEPT !.asks = IF asks THEN @ - 1 ELSE @]
      BY Zenon, <2>4
    <3>2. asks => left.asks > 0
      BY Zenon, <2>4 DEF MayAsk
    <3>3. QED
      BY <1>left, <3>1, <3>2 DEF Lefts
  <2>8. known => r \in Tbfs /\ s.tbf[r] \in TbfFields /\ s.tbf[r].ms \in Handsets
    BY Zenon, <2>2, <2>3 DEF MacFields, TbfFields
  <2>9. ph \in PhoneFields /\ Out(ph, "Down") \in PhoneFields
    <3>1. phone[m].ch \in Pdchs \cup {None}
      BY <2>1 DEF PhoneFields
    <3>2. ph \in PhoneFields
      BY <2>1, <3>1, PhoneTypes
    <3>3. QED
      BY <3>2, PhoneTypes
  <2> HIDE DEF m, s, r, known, ph
  <2>10. g \in Good
    <3>1. CASE known /\ last
      <4> DEFINE y == [s.tbf[r] EXCEPT !.state = "Finished"]
      <4>1. y \in TbfFields /\ y.state = "Finished"
        BY <2>8, <3>1 DEF TbfFields, Active
      <4>2. Quiet(y, s.tbf[r]) /\ Downward(y)
        BY <4>1 DEF Quiet, InUse, Busy, Downward, Active
      <4>3. g = [s EXCEPT !.tbf[r] = y]
        BY <2>2, <2>8, <3>1 DEF MacFields
      <4> HIDE DEF y, g
      <4>4. QED
        BY <2>2, <2>8, <3>1, <4>1, <4>2, <4>3, SetGood
    <3>2. CASE ~(known /\ last)
      BY <2>2, <3>2
    <3>3. QED
      BY <3>1, <3>2
  <2> HIDE DEF g
  <2>11. mac' \in Good
    BY <2>5, <2>8, <2>10, NewUpGood
  <2>12. phone' \in [Handsets -> PhoneFields]
    BY <1>phone, <2>6, <2>9
  <2>13. QED
    BY <2>7, <2>11, <2>12
<1>23. ASSUME NEW t \in Tbfs, PollPasses(t)
      PROVE  Kept
  BY <1>23, <1>mac, <1>phone, <1>left, <1>tbf, AnsweredGood DEF PollPasses
<1>24. ASSUME NEW p \in Pdchs, NEW u \in Usfs, UsfExpires(p, u)
      PROVE  Kept
  <2>1. mac' \in MacFields /\ mac'.tbf = mac.tbf /\ phone' = phone /\ left' = left
    BY <1>24, <1>mac DEF UsfExpires, MacFields
  <2>2. KeepsChannels(mac', mac)
    BY <1>24, <1>mac DEF UsfExpires, MacFields, KeepsChannels
  <2>3. QED
    BY <1>mac, <1>phone, <1>left, <2>1, <2>2, SameTbfs
<1>25. CASE UNCHANGED vars
  BY <1>25, <1>mac, <1>phone, <1>left DEF vars
<1>26. QED
  BY <1>1, <1>2, <1>3, <1>4, <1>5, <1>6, <1>7, <1>8, <1>9, <1>10, <1>11, <1>12, <1>13, <1>14,
     <1>15, <1>16, <1>17, <1>18, <1>19, <1>20, <1>21, <1>22, <1>23, <1>24, <1>25 DEF Next
-----------------------------------------------------------------------------
(* IInv, and what follows from it.                                          *)
LEMMA AlwaysIInv == Spec => []IInv
BY InitInv, StepInv, PTL DEF Spec

\* The records of the MAC, of the handsets and of the bounds keep their types, the counters
\* of assignments, final acknacks and releases never pass their limits by more than one.
THEOREM TypeCorrect == Spec => []TypeOK
BY AlwaysIInv, Consequences, PTL

\* However requests by RACH, by acknacks and by the answer to the final acknack, new PDUs
\* and retries come together, a handset has one active TBF in each direction (newUpTBF,
\* msService, mtRetry).
THEOREM OneActiveAlways == Spec => []OneActive
BY AlwaysIInv, Consequences, PTL

-----------------------------------------------------------------------------
(* What the handsets believe.  Linked says how it agrees with the TBFs: it is*)
(* inductive, and NoCrossTalk follows from it.                              *)
(* A set of numbers that is not empty has a least member.                   *)
LEMMA LeastOf ==
  ASSUME NEW S, S \subseteq Nat, S # {}
  PROVE  Min(S) \in S
<1> DEFINE R == OpToRel(<, Nat)
<1>1. IsWellFoundedOn(R, Nat)
  BY NatLessThanWellFounded
<1>2. \A x, y \in Nat : x < y => <<x, y>> \in R
  BY DEF OpToRel
<1> HIDE DEF R
<1>3. PICK x \in S : \A y \in S : ~ (<<y, x>> \in R)
  BY <1>1, WFMin
<1>4. ASSUME NEW y \in S PROVE x =< y
  <2>1. x \in Nat /\ y \in Nat
    OBVIOUS
  <2>2. ~(y < x)
    BY <1>2, <1>3, <2>1
  <2>3. QED
    BY <2>1, <2>2
<1>5. QED
  BY <1>4 DEF Min

Phones == [Handsets -> PhoneFields]
Directions == {"Up", "Down"}

(* What the fields of one TBF say together: which hold channels and a TFI,  *)
(* what may await an answer in which state, and that an answer comes once.  *)
Sound(x) ==
    /\ x.attached => x.tfi # None
    /\ x.state \in (Active \ {"Ready"}) \cup {"Finished"} => x.attached
    /\ x.state \in {"Ready", "Deleting"} => ~x.attached
    /\ ~x.attached => x.msg \notin {"Queued", "Data"}
    /\ x.acked => x.msg = None /\ x.state \in {"Waiting1", "Final", "Release"}
    /\ x.state \in {"Ready", "Finished"} => x.msg = None
    /\ x.state = "Waiting1" => x.msg \in {None, "Assign", "Queued"}
    /\ x.state = "Transmit" => x.msg \in {None, "Data"}
    /\ x.state = "Final" => x.msg \in {None, "Final"} /\ x.dir = "Up"
    /\ x.state = "Release" => x.msg \in {None, "Data", "Release"}
    /\ x.msg = "Queued" => x.dir = "Down" /\ x.state \in {"Waiting1", "Dead"}
    /\ x.msg \in {"Data", "Release"} => x.dir = "Down"
    /\ x.msg = "Final" => x.dir = "Up"

(* The TFI of a TBF leads to it.                                            *)
Held(s) == \A t \in Tbfs : s.tbf[t] # None /\ s.tbf[t].tfi # None => s.tfi[s.tbf[t].tfi] = t

(* An answer is awaited on the channels that the handset has.               *)
Reached(s) == \A t \in Tbfs : s.tbf[t] # None /\ s.tbf[t].msg \in Messages => s.ms[s.tbf[t].ms].ch # None

(* While a downlink TBF is active no other of its handset awaits an         *)
(* acknack, which would be counted for the TFI that the handset now has.    *)
Polling(s) ==
    \A t, u \in Tbfs :
        /\ Busy(s.tbf[t]) /\ s.tbf[t].dir = "Down"
        /\ s.tbf[u] # None /\ s.tbf[u].msg = "Data" /\ s.tbf[u].ms = s.tbf[t].ms
        => t = u

(* The network knows, or has told the handset, that the transfer is over.   *)
Over(x) ==
    /\ x.attached
    /\ \/ x.state = "Finished"
       \/ x.msg \in {"Final", "Release"}
       \/ x.state \in {"Final", "Release"} /\ x.acked

(* q, the handset of x, has taken the TFI that it is polled for, and left   *)
(* the one that is over.                                                    *)
Ties(x, q) == /\ x.msg = "Data" => q.Down = x.tfi
              /\ Over(x) => q[x.dir] # x.tfi

Tied(s, ph) == \A t \in Tbfs : s.tbf[t] # None => Ties(s.tbf[t], ph[s.tbf[t].ms])

(* What a handset takes for its TFI is that of a TBF of its own.            *)
Owns(x, m, dir, f) == x # None /\ x.attached /\ x.ms = m /\ x.dir = dir /\ x.tfi = f

Claimed(s, ph) ==
    \A m \in Handsets : \A dir \in Directions :
        ph[m][dir] # None => \E t \in Tbfs : Owns(s.tbf[t], m, dir, ph[m][dir])

Rests(ph) == \A m \in Handsets : ph[m].ch = None => ph[m].Up = None /\ ph[m].Down = None

Linked(s, ph) ==
    /\ \A t \in Tbfs : s.tbf[t] # None => Sound(s.tbf[t])
    /\ Held(s) /\ Reached(s) /\ Polling(s)
    /\ Tied(s, ph) /\ Claimed(s, ph) /\ Rests(ph)

(* A TBF changes, or several do, but for whose they are and what they hold. *)
Renews(y, x) ==
    \/ y = x
    \/ /\ y # None /\ x # None /\ Sound(y)
       /\ y.ms = x.ms /\ y.dir = x.dir /\ y.tfi = x.tfi /\ y.attached = x.attached

LEMMA Renewed ==
  ASSUME NEW s \in MacFields, NEW r \in MacFields, NEW ph \in Phones, Linked(s, ph),
         r.tfi = s.tfi, \A t \in Tbfs : Renews(r.tbf[t], s.tbf[t]),
         Reached(r), Polling(r), Tied(r, ph)
  PROVE  Linked(r, ph)
<1>1. \A t \in Tbfs : r.tbf[t] # None => Sound(r.tbf[t])
  BY DEF Renews, Linked
<1>2. Held(r)
  BY DEF Held, Linked, Renews
<1>3. Claimed(r, ph)
  <2> SUFFICES ASSUME NEW m \in Handsets, NEW dir \in Directions, ph[m][dir] # None
               PROVE  \E t \in Tbfs : Owns(r.tbf[t], m, dir, ph[m][dir])
    BY DEF Claimed
  <2>1. PICK t \in Tbfs : Owns(s.tbf[t], m, dir, ph[m][dir])
    BY DEF Linked, Claimed
  <2>2. QED
    BY <2>1 DEF Renews, Owns
<1>4. QED
  BY <1>1, <1>2, <1>3 DEF Linked

(* ... and but for what is to come of them.                                 *)
Mild(y, x) ==
    /\ Renews(y, x)
    /\ y # None =>
        /\ y.msg \in Messages => x.msg \in Messages
        /\ y.msg = "Data" => x.msg = "Data"
        /\ Over(y) => Over(x)
        /\ Busy(y) => Busy(x)

LEMMA MildlyLinked ==
  ASSUME NEW s \in MacFields, NEW r \in MacFields, NEW ph \in Phones, Linked(s, ph),
         r.tfi = s.tfi, \A t \in Tbfs : Mild(r.tbf[t], s.tbf[t]), KeepsChannels(r, s)
  PROVE  Linked(r, ph)
<1>1. Reached(r)
  <2> SUFFICES ASSUME NEW t \in Tbfs, r.tbf[t] # None, r.tbf[t].msg \in Messages
               PROVE  r.ms[r.tbf[t].ms].ch # None
    BY DEF Reached
  <2>1. s.tbf[t] # None /\ s.tbf[t].msg \in Messages /\ s.tbf[t].ms = r.tbf[t].ms
    BY DEF Mild, Renews
  <2>2. s.tbf[t].ms \in Handsets
    BY <2>1 DEF MacFields, TbfFields
  <2>3. s.ms[s.tbf[t].ms].ch # None
    BY <2>1 DEF Linked, Reached
  <2>4. QED
    BY <2>1, <2>2, <2>3 DEF KeepsChannels
<1>2. Polling(r)
  BY DEF Polling, Linked, Mild, Renews, Busy
<1>3. Tied(r, ph)
  <2> SUFFICES ASSUME NEW t \in Tbfs, r.tbf[t] # None PROVE Ties(r.tbf[t], ph[r.tbf[t].ms])
    BY DEF Tied
  <2>1. s.tbf[t] # None /\ Ties(s.tbf[t], ph[s.tbf[t].ms])
    BY DEF Mild, Renews, Linked, Tied
  <2>2. QED
    BY <2>1 DEF Mild, Renews, Ties
<1>4. QED
  BY <1>1, <1>2, <1>3, Renewed DEF Mild

(* One TBF does so.                                                         *)
LEMMA SetLinked ==
  ASSUME NEW s \in MacFields, NEW t \in Tbfs, NEW y \in TbfFields, NEW ph \in Phones, Linked(s, ph),
         s.tbf[t] # None, Mild(y, s.tbf[t])
  PROVE  Linked([s EXCEPT !.tbf[t] = y], ph)
<1> DEFINE r == [s EXCEPT !.tbf[t] = y]
<1>1. r \in MacFields /\ r.tfi = s.tfi /\ r.ms = s.ms
  BY DEF MacFields
<1>2. r.tbf[t] = y /\ \A u \in Tbfs \ {t} : r.tbf[u] = s.tbf[u]
  BY DEF MacFields
<1> HIDE DEF r
<1>3. \A u \in Tbfs : Mild(r.tbf[u], s.tbf[u])
  BY <1>2 DEF Mild, Renews
<1>4. Linked(r, ph)
  BY <1>1, <1>3, MildlyLinked DEF KeepsChannels
<1>5. QED
  BY <1>4 DEF r

(* A new TBF, with nothing yet, in a free place.                            *)
LEMMA CreateShape ==
  ASSUME NEW s \in MacFields, NEW m \in Handsets, NEW dir \in Directions, Room(s)
  PROVE  \E t \in Tbfs :
           /\ s.tbf[t] = None
           /\ Create(s, m, dir) = [s EXCEPT !.tbf[t] = NewTbf(m, dir)]
           /\ Create(s, m, dir).tbf[t] = NewTbf(m, dir)
           /\ \A u \in Tbfs \ {t} : Create(s, m, dir).tbf[u] = s.tbf[u]
           /\ Create(s, m, dir).tfi = s.tfi /\ Create(s, m, dir).ms = s.ms /\ Create(s, m, dir).usf = s.usf
<1> DEFINE S == {t \in Tbfs : s.tbf[t] = None}
<1>1. S \subseteq Nat /\ S # {}
  BY TbfAssumption DEF Room
<1>2. Min(S) \in S
  BY <1>1, LeastOf
<1>3. PICK t \in S : t = Min(S)
  BY <1>2
<1>4. Create(s, m, dir) = [s EXCEPT !.tbf[t] = NewTbf(m, dir)]
  BY <1>3 DEF Create
<1>5. QED
  BY <1>4 DEF MacFields

LEMMA NewIsSound ==
  ASSUME NEW m \in Handsets, NEW dir \in Directions
  PROVE  /\ NewTbf(m, dir) \in TbfFields /\ NewTbf(m, dir) # None
         /\ Sound(NewTbf(m, dir)) /\ ~Over(NewTbf(m, dir))
         /\ NewTbf(m, dir).ms = m /\ NewTbf(m, dir).dir = dir /\ NewTbf(m, dir).tfi = None
         /\ NewTbf(m, dir).msg = None /\ NewTbf(m, dir).state = "Ready" /\ ~NewTbf(m, dir).attached
<1>1. NewTbf(m, dir) \in TbfFields
  BY Limits DEF NewTbf, TbfFields, Active, Directions
<1>2. QED
  BY <1>1, NoneAssumption DEF NewTbf, Sound, Over, Active, Messages

LEMMA CreateLinked ==
  ASSUME NEW s \in MacFields, NEW m \in Handsets, NEW dir \in Directions, NEW ph \in Phones,
         Linked(s, ph), Room(s),
         dir = "Down" => \A u \in Tbfs : s.tbf[u] # None /\ s.tbf[u].msg = "Data" => s.tbf[u].ms # m
  PROVE  Linked(Create(s, m, dir), ph)
<1> DEFINE c == Create(s, m, dir)
           new == NewTbf(m, dir)
<1>1. PICK t \in Tbfs :
           /\ s.tbf[t] = None
           /\ c = [s EXCEPT !.tbf[t] = NewTbf(m, dir)]
           /\ c.tbf[t] = new
           /\ \A u \in Tbfs \ {t} : c.tbf[u] = s.tbf[u]
           /\ c.tfi = s.tfi /\ c.ms = s.ms /\ c.usf = s.usf
  BY CreateShape
<1>2. /\ new # None /\ Sound(new) /\ ~Over(new)
      /\ new.ms = m /\ new.dir = dir /\ new.tfi = None
      /\ new.msg = None /\ new.state = "Ready" /\ ~new.attached
  BY NewIsSound
<1> HIDE DEF c, new
<1>3. /\ \A u \in Tbfs : c.tbf[u] # None => Sound(c.tbf[u])
      /\ Held(c)
  BY <1>1, <1>2 DEF Linked, Held
<1>4. Reached(c)
  BY <1>1, <1>2, NoneAssumption DEF Linked, Reached, Messages
<1>5. Polling(c)
  <2> SUFFICES ASSUME NEW u \in Tbfs, NEW v \in Tbfs, Busy(c.tbf[u]), c.tbf[u].dir = "Down",
                      c.tbf[v] # None, c.tbf[v].msg = "Data", c.tbf[v].ms = c.tbf[u].ms
               PROVE  u = v
    BY DEF Polling
  <2>1. v # t
    BY <1>1, <1>2, NoneAssumption DEF Messages
  <2>2. CASE u = t
    BY <1>1, <1>2, <2>1, <2>2
  <2>3. CASE u # t
    BY <1>1, <2>1, <2>3 DEF Linked, Polling
  <2>4. QED
    BY <2>2, <2>3
<1>6. Tied(c, ph)
  <2> SUFFICES ASSUME NEW u \in Tbfs, c.tbf[u] # None PROVE Ties(c.tbf[u], ph[c.tbf[u].ms])
    BY DEF Tied
  <2>1. CASE u = t
    BY <1>1, <1>2, <2>1, NoneAssumption DEF Ties, Messages
  <2>2. CASE u # t
    BY <1>1, <2>2 DEF Linked, Tied
  <2>3. QED
    BY <2>1, <2>2
<1>7. Claimed(c, ph)
  <2> SUFFICES ASSUME NEW k \in Handsets, NEW d \in Directions, ph[k][d] # None
               PROVE  \E u \in Tbfs : Owns(c.tbf[u], k, d, ph[k][d])
    BY DEF Claimed
  <2>1. PICK u \in Tbfs : Owns(s.tbf[u], k, d, ph[k][d])
    BY DEF Linked, Claimed
  <2>2. u # t
    BY <1>1, <2>1 DEF Owns
  <2>3. QED
    BY <1>1, <2>1, <2>2
<1>8. Linked(c, ph)
  BY <1>3, <1>4, <1>5, <1>6, <1>7 DEF Linked
<1>9. QED
  BY <1>8 DEF c

(* A TBF that has let go, or never held anything, is forgotten.             *)
LEMMA DeleteLinked ==
  ASSUME NEW s \in MacFields, NEW t \in Tbfs, NEW ph \in Phones, Linked(s, ph),
         s.tbf[t] # None, ~s.tbf[t].attached
  PROVE  Linked(Delete(s, t), ph)
<1> DEFINE r == Delete(s, t)
<1>1. /\ r.tbf[t] = None /\ \A u \in Tbfs \ {t} : r.tbf[u] = s.tbf[u]
      /\ r.tfi = s.tfi /\ r.ms = s.ms
  BY DEF Delete, MacFields
<1> HIDE DEF r
<1>2. /\ \A u \in Tbfs : r.tbf[u] # None => Sound(r.tbf[u])
      /\ Held(r) /\ Reached(r) /\ Tied(r, ph)
  BY <1>1 DEF Linked, Held, Reached, Tied
<1>3. Polling(r)
  BY <1>1 DEF Linked, Polling, Busy
<1>4. Claimed(r, ph)
  BY <1>1 DEF Linked, Claimed, Owns
<1>5. Linked(r, ph)
  BY <1>2, <1>3, <1>4 DEF Linked
<1>6. QED
  BY <1>5 DEF r

(* One that is attached lets go once its handset has left.                  *)
LEMMA LetGoLinked ==
  ASSUME NEW s \in MacFields, NEW t \in Tbfs, NEW ph \in Phones, Linked(s, ph), s.tbf[t] # None,
         ph[s.tbf[t].ms][s.tbf[t].dir] # s.tbf[t].tfi, s.tbf[t].tfi # None, s.tbf[t].msg # "Data",
         NEW d \in MacFields, d.ms = s.ms, \A u \in Tbfs \ {t} : d.tbf[u] = s.tbf[u],
         \A f \in Tfis \ {s.tbf[t].tfi} : d.tfi[f] = s.tfi[f],
         d.tbf[t] # None, Sound(d.tbf[t]), d.tbf[t].ms = s.tbf[t].ms, d.tbf[t].msg = s.tbf[t].msg,
         d.tbf[t].tfi = None, ~d.tbf[t].attached, d.tbf[t].state \in {"Dead", "Deleting"}
  PROVE  Linked(d, ph)
<1> DEFINE x == s.tbf[t]
<1>1. x.tfi # None /\ \A u \in Tbfs \ {t} : s.tbf[u] # None => s.tbf[u].tfi # x.tfi
  BY DEF Linked, Held
<1>2. \A u \in Tbfs : d.tbf[u] # None => Sound(d.tbf[u])
  BY DEF Linked
<1>3. Held(d)
  <2> SUFFICES ASSUME NEW u \in Tbfs, d.tbf[u] # None, d.tbf[u].tfi # None
               PROVE  d.tfi[d.tbf[u].tfi] = u
    BY DEF Held
  <2>1. u # t /\ d.tbf[u] = s.tbf[u]
    OBVIOUS
  <2>2. s.tbf[u].tfi \in Tfis \ {x.tfi}
    BY <1>1, <2>1 DEF MacFields, TbfFields
  <2>3. QED
    BY <2>1, <2>2 DEF Linked, Held
<1>4. Reached(d)
  BY DEF Linked, Reached
<1>5. Polling(d)
  BY DEF Linked, Polling, Busy, Active
<1>6. Tied(d, ph)
  BY DEF Linked, Tied, Ties, Over
<1>7. Claimed(d, ph)
  <2> SUFFICES ASSUME NEW k \in Handsets, NEW e \in Directions, ph[k][e] # None
               PROVE  \E u \in Tbfs : Owns(d.tbf[u], k, e, ph[k][e])
    BY DEF Claimed
  <2>1. PICK u \in Tbfs : Owns(s.tbf[u], k, e, ph[k][e])
    BY DEF Linked, Claimed
  <2>2. u # t
    BY <2>1 DEF Owns
  <2>3. QED
    BY <2>1, <2>2
<1>8. QED
  BY <1>2, <1>3, <1>4, <1>5, <1>6, <1>7 DEF Linked

LEMMA DetachShape ==
  ASSUME NEW s \in MacFields, NEW t \in Tbfs, s.tbf[t] # None, s.tbf[t].attached
  PROVE  /\ LET x == s.tbf[t]  y == Detach(s, t).tbf[t]
            IN /\ y \in TbfFields /\ y # None
               /\ y.ms = x.ms /\ y.dir = x.dir /\ y.msg = x.msg /\ y.acked = x.acked
               /\ ~y.attached /\ y.state = "Deleting" /\ y.tfi = None
         /\ \A u \in Tbfs \ {t} : Detach(s, t).tbf[u] = s.tbf[u]
         /\ Detach(s, t).ms = s.ms /\ Detach(s, t).tfi = FreeTFI(s, t)
         /\ \A f \in Tfis \ {s.tbf[t].tfi} : Detach(s, t).tfi[f] = s.tfi[f]
<1> DEFINE d == Detach(s, t)
           x == s.tbf[t]
           y == [x EXCEPT !.attached = FALSE, !.state = "Deleting", !.tfi = None]
<1>1. x \in TbfFields
  BY DEF MacFields
<1>2. /\ d.tbf[t] = y /\ \A u \in Tbfs \ {t} : d.tbf[u] = s.tbf[u]
      /\ d.ms = s.ms /\ d.tfi = FreeTFI(s, t)
  BY DEF Detach, MacFields
<1>3. /\ y \in TbfFields /\ y # None
      /\ y.ms = x.ms /\ y.dir = x.dir /\ y.msg = x.msg /\ y.acked = x.acked
      /\ ~y.attached /\ y.state = "Deleting" /\ y.tfi = None
  BY Zenon, <1>1, NoneAssumption DEF TbfFields
<1>4. \A f \in Tfis \ {x.tfi} : d.tfi[f] = s.tfi[f]
  BY <1>2 DEF FreeTFI, MacFields
<1>5. QED
  BY <1>2, <1>3, <1>4

LEMMA DetachLinked ==
  ASSUME NEW s \in Good, NEW t \in Tbfs, NEW ph \in Phones, Linked(s, ph),
         s.tbf[t] # None, s.tbf[t].attached, s.tbf[t].msg \notin {"Queued", "Data"}, ~s.tbf[t].acked,
         ph[s.tbf[t].ms][s.tbf[t].dir] # s.tbf[t].tfi
  PROVE  Linked(Detach(s, t), ph)
<1> DEFINE d == Detach(s, t)
<1>1. s \in MacFields
  BY DEF Good
<1>2. d \in MacFields
  BY DetachGood DEF Good
<1>3. /\ d.tbf[t] # None /\ d.tbf[t].ms = s.tbf[t].ms /\ d.tbf[t].dir = s.tbf[t].dir
      /\ d.tbf[t].msg = s.tbf[t].msg /\ d.tbf[t].acked = s.tbf[t].acked
      /\ ~d.tbf[t].attached /\ d.tbf[t].state = "Deleting" /\ d.tbf[t].tfi = None
      /\ \A u \in Tbfs \ {t} : d.tbf[u] = s.tbf[u]
      /\ d.ms = s.ms /\ \A f \in Tfis \ {s.tbf[t].tfi} : d.tfi[f] = s.tfi[f]
  BY <1>1, DetachShape
<1>4. s.tbf[t].tfi # None /\ Sound(s.tbf[t])
  BY DEF Linked, Sound
<1> HIDE DEF d
<1>5. Sound(d.tbf[t])
  BY <1>3, <1>4 DEF Sound, Active
<1>6. Linked(d, ph)
  BY <1>1, <1>2, <1>3, <1>4, <1>5, LetGoLinked
<1>7. QED
  BY <1>6 DEF d

(* Some TBFs of a handset are cancelled.                                    *)
LEMMA CancelShape ==
  ASSUME NEW s \in MacFields, NEW m \in Handsets, NEW T \in SUBSET Tbfs, \A t \in T : s.tbf[t] # None,
         NEW state \in {"Dead", "Release"}
  PROVE  /\ \A t \in T : LET x == s.tbf[t]  y == CancelAll(s, m, T, state).tbf[t]
                         IN /\ y \in TbfFields /\ y.state = state /\ y.n = 0 /\ ~y.acked
                            /\ y.ms = x.ms /\ y.dir = x.dir /\ y.tfi = x.tfi
                            /\ y.attached = x.attached /\ y.msg = x.msg
         /\ \A t \in Tbfs \ T : CancelAll(s, m, T, state).tbf[t] = s.tbf[t]
         /\ CancelAll(s, m, T, state).tfi = s.tfi
         /\ CancelAll(s, m, T, state).ms = s.ms
         /\ CancelAll(s, m, T, state) \in MacFields
<1> DEFINE c == CancelAll(s, m, T, state)
<1> DEFINE cancelled == [t \in Tbfs |-> IF t \in T THEN [s.tbf[t] EXCEPT !.state = state, !.n = 0, !.acked = FALSE]
                                       ELSE s.tbf[t]]
           freed == IF \E t \in T : s.tbf[t].dir = "Up" THEN FreeUSFs(s, m, TRUE) ELSE s.usf
<1>a. c = [s EXCEPT !.usf = freed, !.tbf = cancelled]
  BY Zenon DEF CancelAll
<1> HIDE DEF cancelled, freed
<1>2. c = [tbf |-> cancelled, tfi |-> s.tfi, usf |-> freed, ms |-> s.ms]
  BY <1>a DEF MacFields
<1> HIDE DEF c
<1>3. ASSUME NEW t \in T
      PROVE  /\ c.tbf[t] \in TbfFields /\ c.tbf[t].state = state /\ c.tbf[t].n = 0 /\ ~c.tbf[t].acked
             /\ c.tbf[t].ms = s.tbf[t].ms /\ c.tbf[t].dir = s.tbf[t].dir /\ c.tbf[t].tfi = s.tbf[t].tfi
             /\ c.tbf[t].attached = s.tbf[t].attached /\ c.tbf[t].msg = s.tbf[t].msg
  <2>1. t \in Tbfs /\ s.tbf[t] \in TbfFields
    BY DEF MacFields
  <2>2. c.tbf[t] = [s.tbf[t] EXCEPT !.state = state, !.n = 0, !.acked = FALSE]
    BY <1>2, <2>1 DEF cancelled
  <2>3. QED
    BY <2>1, <2>2, Limits DEF TbfFields, Active
<1>4. \A t \in Tbfs \ T : c.tbf[t] = s.tbf[t]
  BY <1>2 DEF cancelled
<1>5. c.tfi = s.tfi /\ c.ms = s.ms
  BY <1>2
<1>6. c \in MacFields
  <2>1. c.tbf \in [Tbfs -> TbfFields \cup {None}]
    BY Zenon, <1>2, <1>3, <1>4 DEF MacFields, cancelled
  <2>2. freed \in [Pdchs -> [Usfs -> [ms: Handsets \cup {None}, dead: BOOLEAN]]]
    BY FreeUSFsType DEF freed, MacFields
  <2>3. c = [tbf |-> c.tbf, tfi |-> s.tfi, usf |-> freed, ms |-> s.ms]
    BY <1>2
  <2>4. QED
    BY <2>1, <2>2, <2>3 DEF MacFields
<1>7. QED
  BY <1>3, <1>4, <1>5, <1>6 DEF c

LEMMA CancelLinked ==
  ASSUME NEW s \in MacFields, NEW m \in Handsets, NEW T \in SUBSET Tbfs, NEW ph \in Phones, Linked(s, ph),
         \A t \in T : s.tbf[t] # None /\ s.tbf[t].state # "Finished",
         NEW state \in {"Dead", "Release"},
         state = "Release" => \A t \in T : s.tbf[t].dir = "Down" /\ s.tbf[t].state = "Transmit"
  PROVE  Linked(CancelAll(s, m, T, state), ph)
<1> DEFINE c == CancelAll(s, m, T, state)
<1>1. /\ \A t \in T : /\ c.tbf[t] \in TbfFields /\ c.tbf[t].state = state /\ ~c.tbf[t].acked
                      /\ c.tbf[t].ms = s.tbf[t].ms /\ c.tbf[t].dir = s.tbf[t].dir /\ c.tbf[t].tfi = s.tbf[t].tfi
                      /\ c.tbf[t].attached = s.tbf[t].attached /\ c.tbf[t].msg = s.tbf[t].msg
      /\ \A t \in Tbfs \ T : c.tbf[t] = s.tbf[t]
      /\ c.tfi = s.tfi /\ c.ms = s.ms
  BY CancelShape
<1>2. c \in MacFields
  BY CancelShape
<1> HIDE DEF c
<1>3. ASSUME NEW t \in Tbfs
      PROVE  Mild(c.tbf[t], s.tbf[t])
  <2>1. CASE t \notin T
    BY <1>1, <2>1 DEF Mild, Renews
  <2>2. CASE t \in T
    <3> DEFINE x == s.tbf[t]
               y == c.tbf[t]
    <3>1. /\ y \in TbfFields /\ y.state = state /\ ~y.acked /\ y.ms = x.ms /\ y.dir = x.dir
          /\ y.tfi = x.tfi /\ y.attached = x.attached /\ y.msg = x.msg
          /\ x # None /\ x.state # "Finished" /\ Sound(x) /\ y # None
      BY <1>1, <2>2, NoneAssumption DEF Linked
    <3>2. state = "Release" => x.dir = "Down" /\ x.state = "Transmit"
      BY <2>2
    <3> HIDE DEF x, y
    <3>3. CASE state = "Dead"
      <4>1. Sound(y)
        BY <3>1, <3>3 DEF Sound, Active
      <4>2. ~Busy(y) /\ (Over(y) => Over(x))
        BY <3>1, <3>3 DEF Busy, Active, Over
      <4>3. QED
        BY <3>1, <4>1, <4>2 DEF Mild, Renews, x, y
    <3>4. CASE state = "Release"
      <4>1. Sound(y)
        BY <3>1, <3>2, <3>4, NoneAssumption DEF Sound, Active, Messages
      <4>2. Busy(x) /\ (Over(y) => Over(x))
        BY <3>1, <3>2, <3>4 DEF Busy, Active, Over
      <4>3. QED
        BY <3>1, <4>1, <4>2 DEF Mild, Renews, x, y
    <3>5. QED
      BY <3>3, <3>4
  <2>3. QED
    BY <2>1, <2>2
<1>4. Linked(c, ph)
  BY <1>1, <1>2, <1>3, MildlyLinked DEF KeepsChannels
<1>5. QED
  BY <1>4 DEF c

(* A handset lets go of one or both of its TFIs.                            *)
Lets(q, o) == /\ q \in PhoneFields
              /\ \A dir \in Directions : q[dir] \in {o[dir], None}
              /\ q.ch = None => q.Up = None /\ q.Down = None

LEMMA LetsGo ==
  ASSUME NEW s \in MacFields, NEW ph \in Phones, Linked(s, ph), NEW m \in Handsets,
         NEW q, Lets(q, ph[m]),
         q.Down = ph[m].Down \/ \A t \in Tbfs : s.tbf[t] # None /\ s.tbf[t].msg = "Data" => s.tbf[t].ms # m
  PROVE  /\ [ph EXCEPT ![m] = q] \in Phones
         /\ Linked(s, [ph EXCEPT ![m] = q])
<1> DEFINE qh == [ph EXCEPT ![m] = q]
<1>1. qh \in Phones /\ qh[m] = q /\ \A k \in Handsets \ {m} : qh[k] = ph[k]
  BY DEF Phones, Lets
<1> HIDE DEF qh
<1>2. Rests(qh)
  BY <1>1 DEF Rests, Lets, Linked
<1>3. Claimed(s, qh)
  <2> SUFFICES ASSUME NEW k \in Handsets, NEW e \in Directions, qh[k][e] # None
               PROVE  \E u \in Tbfs : Owns(s.tbf[u], k, e, qh[k][e])
    BY DEF Claimed
  <2>1. qh[k][e] = ph[k][e]
    BY <1>1 DEF Lets
  <2>2. QED
    BY <2>1 DEF Linked, Claimed
<1>4. Tied(s, qh)
  <2> SUFFICES ASSUME NEW t \in Tbfs, s.tbf[t] # None PROVE Ties(s.tbf[t], qh[s.tbf[t].ms])
    BY DEF Tied
  <2>1. Ties(s.tbf[t], ph[s.tbf[t].ms]) /\ Sound(s.tbf[t]) /\ s.tbf[t].ms \in Handsets /\ s.tbf[t].dir \in Directions
    BY DEF Linked, Tied, MacFields, TbfFields, Directions
  <2>2. CASE s.tbf[t].ms # m
    BY <1>1, <2>1, <2>2
  <2>3. CASE s.tbf[t].ms = m
    <3>1. s.tbf[t].msg = "Data" => q.Down = s.tbf[t].tfi
      BY <2>1, <2>3 DEF Ties
    <3>2. Over(s.tbf[t]) => q[s.tbf[t].dir] # s.tbf[t].tfi
      BY <2>1, <2>3 DEF Ties, Over, Sound, Lets
    <3>3. QED
      BY <1>1, <2>3, <3>1, <3>2 DEF Ties
  <2>4. QED
    BY <2>2, <2>3
<1>5. Linked(s, qh)
  BY <1>2, <1>3, <1>4 DEF Linked
<1>6. QED
  BY <1>1, <1>5 DEF qh

(* A handset takes the TFI of a TBF of its own that is not over.            *)
LEMMA TakesTfi ==
  ASSUME NEW s \in MacFields, NEW ph \in Phones, Linked(s, ph), NEW t \in Tbfs,
         s.tbf[t] # None, s.tbf[t].attached, ~Over(s.tbf[t]),
         NEW m \in Handsets, m = s.tbf[t].ms, NEW q \in PhoneFields, q.ch # None,
         NEW dir \in Directions, dir = s.tbf[t].dir, NEW other \in Directions \ {dir},
         q[dir] = s.tbf[t].tfi, q[other] = ph[m][other],
         dir = "Down" => \A u \in Tbfs : s.tbf[u] # None /\ s.tbf[u].msg = "Data" => s.tbf[u].ms # m
  PROVE  /\ [ph EXCEPT ![m] = q] \in Phones
         /\ Linked(s, [ph EXCEPT ![m] = q])
<1> DEFINE qh == [ph EXCEPT ![m] = q]
<1>1. qh \in Phones /\ qh[m] = q /\ \A k \in Handsets \ {m} : qh[k] = ph[k]
  BY DEF Phones
<1> HIDE DEF qh
<1>a. Directions = {dir, other}
  BY DEF Directions
<1>2. Rests(qh)
  BY <1>1 DEF Rests, Linked
<1>3. Claimed(s, qh)
  <2> SUFFICES ASSUME NEW k \in Handsets, NEW e \in Directions, qh[k][e] # None
               PROVE  \E u \in Tbfs : Owns(s.tbf[u], k, e, qh[k][e])
    BY DEF Claimed
  <2>1. CASE k = m /\ e = dir
    BY <1>1, <2>1 DEF Owns
  <2>2. CASE ~(k = m /\ e = dir)
    <3>1. qh[k][e] = ph[k][e]
      BY <1>1, <1>a, <2>2
    <3>2. QED
      BY <3>1 DEF Linked, Claimed
  <2>3. QED
    BY <2>1, <2>2
<1>4. Tied(s, qh)
  <2> SUFFICES ASSUME NEW u \in Tbfs, s.tbf[u] # None PROVE Ties(s.tbf[u], qh[s.tbf[u].ms])
    BY DEF Tied
  <2>1. Ties(s.tbf[u], ph[s.tbf[u].ms]) /\ Sound(s.tbf[u]) /\ s.tbf[u].ms \in Handsets /\ s.tbf[u].dir \in Directions
    BY DEF Linked, Tied, MacFields, TbfFields, Directions
  <2>2. CASE s.tbf[u].ms # m
    BY <1>1, <2>1, <2>2
  <2>3. CASE s.tbf[u].ms = m
    <3>1. s.tbf[u].msg = "Data" => q.Down = s.tbf[u].tfi
      <4>1. CASE dir = "Down"
        BY <2>3, <4>1
      <4>2. CASE dir = "Up"
        BY <2>1, <2>3, <4>2, <1>a DEF Ties, Directions
      <4>3. QED
        BY <4>1, <4>2 DEF Directions
    <3>2. Over(s.tbf[u]) => q[s.tbf[u].dir] # s.tbf[u].tfi
      <4> SUFFICES ASSUME Over(s.tbf[u]) PROVE q[s.tbf[u].dir] # s.tbf[u].tfi
        OBVIOUS
      <4>1. u # t /\ s.tbf[u].tfi # None /\ s.tbf[t].tfi # None
        BY <2>1 DEF Linked, Sound, Over
      <4>2. s.tbf[u].tfi # s.tbf[t].tfi
        BY <4>1 DEF Linked, Held
      <4>3. QED
        BY <1>a, <2>1, <2>3, <4>2 DEF Ties
    <3>3. QED
      BY <1>1, <2>3, <3>1, <3>2 DEF Ties
  <2>4. QED
    BY <2>2, <2>3
<1>5. Linked(s, qh)
  BY <1>2, <1>3, <1>4 DEF Linked
<1>6. QED
  BY <1>1, <1>5 DEF qh

LEMMA SameLinked ==
  ASSUME NEW s \in MacFields, NEW r \in MacFields, NEW ph \in Phones, Linked(s, ph),
         r.tbf = s.tbf, r.tfi = s.tfi, KeepsChannels(r, s)
  PROVE  Linked(r, ph)
BY MildlyLinked DEF Mild, Renews

LEMMA OutLets ==
  ASSUME NEW o \in PhoneFields, o.ch = None => o.Up = None /\ o.Down = None, NEW dir \in Directions
  PROVE  /\ Lets(Out(o, dir), o)
         /\ Out(o, dir)[dir] = None
         /\ \A e \in Directions \ {dir} : Out(o, dir)[e] = o[e]
<1> DEFINE q == [o EXCEPT ![dir] = None]
<1>1. q \in PhoneFields /\ q[dir] = None /\ q.ch = o.ch /\ q.asks = o.asks
      /\ \A e \in Directions \ {dir} : q[e] = o[e]
  BY DEF PhoneFields, Directions
<1>2. Out(o, dir) = IF q.Up = None /\ q.Down = None /\ ~q.asks THEN Idle ELSE q
  BY DEF Out
<1>3. Idle \in PhoneFields /\ Idle.Up = None /\ Idle.Down = None /\ Idle.ch = None
  BY DEF Idle, PhoneFields
<1> HIDE DEF q
<1>4. CASE q.Up = None /\ q.Down = None /\ ~q.asks
  <2>1. Out(o, dir) = Idle /\ \A e \in Directions : q[e] = None /\ Idle[e] = None
    BY <1>2, <1>3, <1>4 DEF Directions
  <2>2. QED
    BY <1>1, <1>3, <2>1 DEF Lets
<1>5. CASE ~(q.Up = None /\ q.Down = None /\ ~q.asks)
  <2>1. Out(o, dir) = q
    BY <1>2, <1>5
  <2>2. \A e \in Directions : q[e] \in {o[e], None}
    BY <1>1
  <2>3. q.ch = None => q.Up = None /\ q.Down = None
    BY <1>1, <2>2 DEF Directions
  <2>4. QED
    BY <1>1, <2>1, <2>2, <2>3 DEF Lets
<1>6. QED
  BY <1>4, <1>5

LEMMA AskingLets ==
  ASSUME NEW o \in PhoneFields, NEW p \in Pdchs
  PROVE  /\ Lets(Asking(o, p), o) /\ Asking(o, p).Up = o.Up /\ Asking(o, p).Down = o.Down
         /\ Asking(o, p).ch # None
<1>1. Asking(o, p) \in PhoneFields
  BY PhoneTypes
<1>2. Asking(o, p).Up = o.Up /\ Asking(o, p).Down = o.Down /\ Asking(o, p).ch = p
  BY DEF Asking, PhoneFields
<1>3. QED
  BY <1>1, <1>2, NoneAssumption DEF Lets, Directions

(* A TBF sends something that asks for an answer.                           *)
LEMMA AwaitsLinked ==
  ASSUME NEW s \in Good, NEW t \in Tbfs, NEW y \in TbfFields, NEW ph \in Phones, Linked(s, ph),
         s.tbf[t] # None, s.ms[s.tbf[t].ms].ch # None, Sound(y),
         y.ms = s.tbf[t].ms, y.dir = s.tbf[t].dir, y.tfi = s.tbf[t].tfi,
         y.attached = s.tbf[t].attached, y.state = s.tbf[t].state,
         Ties(y, ph[y.ms]), y.msg = "Data" => Busy(y)
  PROVE  Linked([s EXCEPT !.tbf[t] = y], ph)
<1> DEFINE r == [s EXCEPT !.tbf[t] = y]
<1>1. s \in MacFields /\ y # None
  BY NoneAssumption DEF Good
<1>2. r \in MacFields /\ r.tfi = s.tfi /\ r.ms = s.ms
  BY <1>1 DEF MacFields
<1>3. r.tbf[t] = y /\ \A u \in Tbfs \ {t} : r.tbf[u] = s.tbf[u]
  BY <1>1 DEF MacFields
<1> HIDE DEF r
<1>4. \A u \in Tbfs : Renews(r.tbf[u], s.tbf[u])
  BY <1>1, <1>3 DEF Renews
<1>5. Reached(r)
  BY <1>2, <1>3 DEF Reached, Linked
<1>6. Polling(r)
  <2> SUFFICES ASSUME NEW u \in Tbfs, NEW v \in Tbfs, Busy(r.tbf[u]), r.tbf[u].dir = "Down",
                      r.tbf[v] # None, r.tbf[v].msg = "Data", r.tbf[v].ms = r.tbf[u].ms
               PROVE  u = v
    BY DEF Polling
  <2>1. Busy(s.tbf[u]) /\ s.tbf[u].dir = "Down" /\ s.tbf[u].ms = r.tbf[u].ms
    BY <1>3 DEF Busy
  <2>2. CASE v = t
    <3>1. y.dir = "Down" /\ Busy(s.tbf[t]) /\ s.tbf[t].ms = s.tbf[u].ms
      BY <1>3, <2>1, <2>2 DEF Sound, Busy
    <3>2. QED
      BY <2>1, <2>2, <3>1 DEF Good, Single
  <2>3. CASE v # t
    BY <1>3, <2>1, <2>3 DEF Linked, Polling
  <2>4. QED
    BY <2>2, <2>3
<1>7. Tied(r, ph)
  BY <1>3 DEF Tied, Linked
<1>8. Linked(r, ph)
  BY <1>1, <1>2, <1>4, <1>5, <1>6, <1>7, Renewed
<1>9. QED
  BY <1>8 DEF r

LEMMA NewUpLinked ==
  ASSUME NEW s \in MacFields, NEW m \in Handsets, NEW ph \in Phones, Linked(s, ph), Room(s)
  PROVE  Linked(NewUpTBF(s, m), ph)
BY CreateLinked DEF NewUpTBF, Directions

(* mtRetry of a TBF that holds nothing more, or is to be forgotten.         *)
LEMMA RetryLinked ==
  ASSUME NEW s \in MacFields, NEW t \in Tbfs, NEW ph \in Phones, s.tbf[t] # None, NEW rest,
         Retry(s, t, rest), NEW d, d = [s EXCEPT !.tbf[t].state = "Dead"], Linked(d, ph),
         \A u \in Tbfs : s.tbf[u] # None /\ s.tbf[u].msg = "Data" => s.tbf[u].ms # s.tbf[t].ms
  PROVE  Linked(mac', ph)
<1>1. s.tbf[t] \in TbfFields
  BY DEF MacFields
<1>2. /\ d.tbf[t] = [s.tbf[t] EXCEPT !.state = "Dead"] /\ d.tbf[t] \in TbfFields
      /\ \A u \in Tbfs \ {t} : d.tbf[u] = s.tbf[u]
      /\ d = [s EXCEPT !.tbf[t] = d.tbf[t]]
  BY <1>1 DEF MacFields, TbfFields
<1>3. d \in MacFields
  BY <1>2 DEF MacFields
<1>4. \A u \in Tbfs : d.tbf[u] # None /\ d.tbf[u].msg = "Data" => d.tbf[u].ms # s.tbf[t].ms
  BY <1>1, <1>2 DEF TbfFields
<1>5. CASE mac' = d
  BY <1>5
<1>6. CASE Room(s) /\ mac' = Create(d, s.tbf[t].ms, "Down")
  <2>1. Room(d)
    BY <1>2, <1>6 DEF Room
  <2>2. s.tbf[t].ms \in Handsets
    BY <1>1 DEF TbfFields
  <2>3. QED
    BY <1>3, <1>4, <1>6, <2>1, <2>2, CreateLinked DEF Directions
<1>7. QED
  BY <1>5, <1>6 DEF Retry

(* The answer comes, or the block for it passes.                            *)
LEMMA UnaskedIsMild ==
  ASSUME NEW x \in TbfFields, Sound(x), x.msg # "Queued" \/ x.state # "Finished"
  PROVE  /\ Mild([x EXCEPT !.msg = None], x)
         /\ [x EXCEPT !.msg = None] \in TbfFields
<1> DEFINE y == [x EXCEPT !.msg = None]
<1>1. /\ y \in TbfFields /\ y.ms = x.ms /\ y.dir = x.dir /\ y.state = x.state /\ y.tfi = x.tfi
      /\ y.attached = x.attached /\ y.msg = None /\ y.acked = x.acked
  BY DEF TbfFields
<1>2. y # None /\ x # None
  BY <1>1, NoneAssumption
<1> HIDE DEF y
<1>3. Sound(y)
  BY <1>1, NoneAssumption DEF Sound, Active, Messages
<1>4. (Over(y) => Over(x)) /\ (Busy(y) => Busy(x))
  BY <1>1, <1>2, NoneAssumption DEF Over, Busy, Messages
<1>5. Mild(y, x)
  BY <1>1, <1>2, <1>3, <1>4, NoneAssumption DEF Mild, Renews, Messages
<1>6. QED
  BY <1>1, <1>5 DEF y

LEMMA AnsweredLinked ==
  ASSUME NEW s \in MacFields, NEW t \in Tbfs, NEW ph \in Phones, Linked(s, ph), s.tbf[t] # None
  PROVE  Linked(Answered(s, t), ph)
<1> DEFINE y == [s.tbf[t] EXCEPT !.msg = None]
<1>1. s.tbf[t] \in TbfFields /\ Sound(s.tbf[t])
  BY DEF MacFields, Linked
<1>2. y \in TbfFields /\ Mild(y, s.tbf[t])
  BY <1>1, UnaskedIsMild DEF Sound
<1>3. Answered(s, t) = [s EXCEPT !.tbf[t] = y]
  BY DEF Answered, MacFields
<1>4. QED
  BY <1>2, <1>3, SetLinked

(* A TBF polls its handset, or tells it that the transfer is over: the      *)
(* handset, if it hears it, leaves as it is told.                           *)
LEMMA SentLinked ==
  ASSUME NEW s \in Good, NEW t \in Tbfs, NEW m \in Handsets, s.tbf[t] # None, m = s.tbf[t].ms,
         s.ms[m].ch # None, phone \in Phones, Linked(s, phone),
         NEW kind \in Messages, NEW hears, NEW heard, Send(s, t, kind, hears, heard),
         NEW y \in TbfFields, y = [s.tbf[t] EXCEPT !.msg = kind], Sound(y),
         hears => /\ Lets(heard, phone[m]) /\ Ties(y, heard)
                  /\ \/ heard.Down = phone[m].Down
                     \/ \A u \in Tbfs : s.tbf[u] # None /\ s.tbf[u].msg = "Data" => s.tbf[u].ms # m,
         kind = "Data" => Busy(s.tbf[t])
  PROVE  Linked(mac', phone')
<1>1. s \in MacFields /\ s.tbf[t] \in TbfFields /\ Sound(s.tbf[t])
  BY DEF Good, MacFields, Linked
<1>2. CASE mac' = [s EXCEPT !.tbf[t].msg = None] /\ phone' = phone
  BY <1>1, <1>2, AnsweredLinked DEF Answered
<1>3. CASE hears /\ mac' = [s EXCEPT !.tbf[t].msg = kind] /\ phone' = [phone EXCEPT ![m] = heard]
  <2>1. mac' = [s EXCEPT !.tbf[t] = y]
    BY <1>1, <1>3 DEF MacFields
  <2>2. phone' \in Phones /\ Linked(s, phone') /\ phone'[m] = heard
    <3>1. Linked(s, phone') /\ phone' \in Phones
      BY <1>1, <1>3, LetsGo
    <3>2. QED
      BY <1>3, <3>1 DEF Phones
  <2>3. /\ y.ms = m /\ y.dir = s.tbf[t].dir /\ y.tfi = s.tbf[t].tfi
        /\ y.attached = s.tbf[t].attached /\ y.state = s.tbf[t].state /\ y.msg = kind
    BY <1>1 DEF TbfFields
  <2>4. Busy(s.tbf[t]) => Busy(y)
    BY <2>3, NoneAssumption DEF Busy
  <2>5. /\ s.ms[s.tbf[t].ms].ch # None /\ y.ms = s.tbf[t].ms /\ Ties(y, phone'[y.ms])
        /\ y.msg = "Data" => Busy(y)
    BY <1>3, <2>2, <2>3, <2>4
  <2>6. PICK ph \in Phones : ph = phone'
    BY <2>2
  <2>7. Linked([s EXCEPT !.tbf[t] = y], ph)
    BY <2>2, <2>3, <2>5, <2>6, AwaitsLinked
  <2>8. QED
    BY <2>1, <2>6, <2>7
<1>4. QED
  BY <1>2, <1>3 DEF Send

LInv == IInv /\ Linked(mac, phone)

LEMMA InitLinked == Init => LInv
<1> SUFFICES ASSUME Init PROVE LInv
  OBVIOUS
<1>1. IInv
  BY InitInv
<1>2. \A t \in Tbfs : mac.tbf[t] = None
  BY DEF Init
<1>3. \A m \in Handsets : phone[m].Up = None /\ phone[m].Down = None
  BY DEF Init, Idle
<1>4. Claimed(mac, phone)
  BY <1>3 DEF Claimed, Directions
<1>5. Linked(mac, phone)
  BY <1>2, <1>3, <1>4 DEF Linked, Held, Reached, Polling, Tied, Rests, Busy
<1>6. QED
  BY <1>1, <1>5 DEF LInv

LEMMA StepLinked == LInv /\ [Next]_vars => LInv'
<1> SUFFICES ASSUME LInv, [Next]_vars PROVE LInv'
  OBVIOUS
<1>inv. IInv /\ IInv'
  BY StepInv DEF LInv
<1>mac. /\ mac \in Good /\ mac \in MacFields /\ phone \in Phones /\ Linked(mac, phone)
        /\ mac' \in Good /\ mac' \in MacFields /\ phone' \in Phones
  BY <1>inv DEF LInv, IInv, Good, Phones
<1>tbf. ASSUME NEW t \in Tbfs, mac.tbf[t] # None
        PROVE  /\ mac.tbf[t] \in TbfFields /\ mac.tbf[t].ms \in Handsets /\ mac.tbf[t].dir \in Directions
               /\ Sound(mac.tbf[t])
               /\ phone[mac.tbf[t].ms] \in PhoneFields /\ Ties(mac.tbf[t], phone[mac.tbf[t].ms])
  BY <1>mac, <1>tbf DEF MacFields, TbfFields, Directions, Linked, Tied, Phones
<1>ms. ASSUME NEW m \in Handsets
       PROVE  /\ mac.ms[m] \in MsFields
              /\ phone[m] \in PhoneFields /\ (phone[m].ch = None => phone[m].Up = None /\ phone[m].Down = None)
  BY <1>mac DEF MacFields, Linked, Rests, Phones
<1>one. ASSUME NEW t \in Tbfs, Busy(mac.tbf[t]), mac.tbf[t].dir = "Down", mac.tbf[t].msg # "Data"
        PROVE  \A u \in Tbfs : mac.tbf[u] # None /\ mac.tbf[u].msg = "Data" => mac.tbf[u].ms # mac.tbf[t].ms
  BY <1>mac, <1>one DEF Linked, Polling
<1> DEFINE Kept == Linked(mac', phone')
<1>s. SUFFICES Kept
  BY <1>inv DEF LInv
<1>1. ASSUME NEW m \in Handsets, Arrive(m)
      PROVE  Kept
  <2>1. mac'.tbf = mac.tbf /\ mac'.tfi = mac.tfi /\ phone' = phone /\ KeepsChannels(mac', mac)
    BY <1>1, <1>mac DEF Arrive, MacFields, MsFields, KeepsChannels
  <2>2. QED
    BY <1>mac, <2>1, SameLinked
<1>2. ASSUME NEW m \in Handsets, StartDown(m)
      PROVE  Kept
  <2> DEFINE s == [mac EXCEPT !.ms[m].queue = @ - 1]
  <2>1. s.tbf = mac.tbf /\ s.tfi = mac.tfi /\ KeepsChannels(s, mac)
    BY <1>mac DEF MacFields, MsFields, KeepsChannels
  <2>2. s \in MacFields
    <3>1. [mac.ms[m] EXCEPT !.queue = @ - 1] \in MsFields
      BY <1>2, <1>ms DEF StartDown, MsFields
    <3>2. s = [mac EXCEPT !.ms[m] = [mac.ms[m] EXCEPT !.queue = @ - 1]]
      BY <1>mac DEF MacFields
    <3> HIDE DEF s
    <3>3. QED
      BY <1>mac, <3>1, <3>2 DEF MacFields
  <2>3. mac' = Create(s, m, "Down") /\ phone' = phone
    BY <1>2 DEF StartDown
  <2> HIDE DEF s
  <2>4. Linked(s, phone) /\ Room(s)
    BY <1>2, <1>mac, <2>1, <2>2, SameLinked DEF StartDown, Room
  <2>5. ASSUME NEW u \in Tbfs, s.tbf[u] # None, s.tbf[u].msg = "Data"
        PROVE  s.tbf[u].ms # m
    <3>1. mac.tbf[u].dir = "Down" /\ mac.tbf[u].attached
      BY <1>tbf, <2>1, <2>5 DEF Sound
    <3>2. mac.tbf[u].state \in Active \cup {"Finished", "Dead"}
      BY <1>tbf, <2>1, <2>5, <3>1 DEF Sound, TbfFields
    <3>3. Those(mac, m, "Down", Active \cup {"Finished", "Dead"}) = {}
      BY <1>2 DEF StartDown
    <3>4. QED
      BY <2>1, <2>5, <3>1, <3>2, <3>3 DEF Those
  <2>6. QED
    BY <1>mac, <2>2, <2>3, <2>4, <2>5, CreateLinked DEF Directions
<1>3. ASSUME NEW m \in Handsets, NonResponsive(m)
      PROVE  Kept
  <2> DEFINE T == Those(mac, m, "Up", Active) \cup Those(mac, m, "Down", Active)
  <2>1. mac' = CancelAll(mac, m, T, "Dead") /\ phone' = phone
    BY <1>3 DEF NonResponsive
  <2>2. T \in SUBSET Tbfs /\ \A t \in T : mac.tbf[t] # None /\ mac.tbf[t].state # "Finished"
    BY DEF Those, Active
  <2> HIDE DEF T
  <2>3. QED
    BY <1>mac, <2>1, <2>2, CancelLinked
<1>4. ASSUME NEW m \in Handsets, GivesUp(m)
      PROVE  Kept
  <2> DEFINE o == [phone[m] EXCEPT !.asks = FALSE]
  <2>1. mac' = mac /\ phone' = [phone EXCEPT ![m] = Out(o, "Up")]
    BY <1>4 DEF GivesUp
  <2>2. o \in PhoneFields /\ o.ch = phone[m].ch /\ o.Up = phone[m].Up /\ o.Down = phone[m].Down
    BY <1>ms DEF PhoneFields
  <2> HIDE DEF o
  <2>3. Lets(Out(o, "Up"), o) /\ Out(o, "Up").Down = o.Down
    BY <1>ms, <2>2, OutLets DEF Directions
  <2>4. Lets(Out(o, "Up"), phone[m]) /\ Out(o, "Up").Down = phone[m].Down
    BY <2>2, <2>3 DEF Lets, Directions
  <2>5. QED
    BY <1>mac, <2>1, <2>4, LetsGo
<1>5. ASSUME NEW m \in Handsets, NEW dir \in Directions, Leaves(m, dir)
      PROVE  Kept
  <2>1. mac' = mac /\ phone' = [phone EXCEPT ![m] = Out(phone[m], dir)] /\ ~Owes(m)
    BY <1>5 DEF Leaves
  <2>2. Lets(Out(phone[m], dir), phone[m])
    BY <1>ms, OutLets
  <2>3. \A t \in Tbfs : mac.tbf[t] # None /\ mac.tbf[t].msg = "Data" => mac.tbf[t].ms # m
    BY <2>1 DEF Owes, Messages
  <2>4. QED
    BY <1>mac, <2>1, <2>2, <2>3, LetsGo
<1>6. ASSUME NEW m \in Handsets, NEW p \in Pdchs, Rach(m, p)
      PROVE  Kept
  <2> DEFINE s == [mac EXCEPT !.ms[m].t3168 = TRUE]
             downs == Those(s, m, "Down", Active)
             ups == Those(s, m, "Up", Transmitting)
             rest == [left EXCEPT !.asks = @ - 1]
  <2>1. s \in MacFields /\ s.tbf = mac.tbf /\ s.tfi = mac.tfi /\ KeepsChannels(s, mac)
    <3>1. s.tbf = mac.tbf /\ s.tfi = mac.tfi /\ KeepsChannels(s, mac)
      BY <1>mac DEF MacFields, MsFields, KeepsChannels
    <3>2. [mac.ms[m] EXCEPT !.t3168 = TRUE] \in MsFields
      BY <1>ms DEF MsFields
    <3>3. s = [mac EXCEPT !.ms[m] = [mac.ms[m] EXCEPT !.t3168 = TRUE]]
      BY <1>mac DEF MacFields
    <3> HIDE DEF s
    <3>4. s \in MacFields
      BY <1>mac, <3>2, <3>3 DEF MacFields
    <3>5. QED
      BY <3>1, <3>4
  <2>2. phone' = [phone EXCEPT ![m] = Asking(phone[m], p)] /\ ~Owes(m) /\ Room(mac)
    BY <1>6 DEF Rach
  <2>3. IF downs = {} /\ ups = {}
        THEN /\ mac' = NewUpTBF([s EXCEPT !.ms[m].ch = None, !.ms[m].pacch = p], m)
             /\ left' = rest
        ELSE \E u \in IF ups = {} THEN {None} ELSE ups :
                 LET c == IF u = None THEN s ELSE Cancel(s, u)
                 IN IF downs \cap Those(s, m, "Down", Transmitting) = {} THEN mac' = c /\ left' = rest
                    ELSE \E d \in downs : Retry(Cancel(c, d), d, rest)
    BY <1>6 DEF Rach
  <2>4. \A t \in Tbfs : mac.tbf[t] # None /\ mac.tbf[t].ms = m => mac.tbf[t].msg \notin Messages
    BY <2>2 DEF Owes
  <2>5. \A u \in ups : u \in Tbfs /\ s.tbf[u] # None /\ s.tbf[u].dir = "Up" /\ s.tbf[u].ms = m /\ s.tbf[u].state # "Finished"
    BY DEF Those, Transmitting
  <2>6. \A d \in downs : d \in Tbfs /\ s.tbf[d] # None /\ s.tbf[d].dir = "Down" /\ s.tbf[d].ms = m /\ s.tbf[d].state # "Finished"
    BY DEF Those, Active
  <2> HIDE DEF s, downs, ups, rest
  <2>7. Linked(s, phone)
    BY <1>mac, <2>1, SameLinked
  <2>8. SUFFICES Linked(mac', phone)
    <3>1. Lets(Asking(phone[m], p), phone[m]) /\ Asking(phone[m], p).Down = phone[m].Down
      BY <1>ms, AskingLets
    <3>2. QED
      BY <1>mac, <2>2, <3>1, LetsGo
  <2>9. CASE downs = {} /\ ups = {}
    <3> DEFINE r == [s EXCEPT !.ms[m].ch = None, !.ms[m].pacch = p]
    <3>1. r.tbf = s.tbf /\ r.tfi = s.tfi /\ \A k \in Handsets \ {m} : r.ms[k] = s.ms[k]
      BY <2>1 DEF MacFields
    <3>2. r \in MacFields
      <4>1. s.ms[m] \in MsFields
        BY <2>1 DEF MacFields
      <4>2. [s.ms[m] EXCEPT !.ch = None, !.pacch = p] \in MsFields
        BY <4>1 DEF MsFields
      <4>3. r = [s EXCEPT !.ms[m] = [s.ms[m] EXCEPT !.ch = None, !.pacch = p]]
        BY <2>1, <4>1 DEF MacFields, MsFields
      <4> HIDE DEF r
      <4>4. QED
        BY <2>1, <4>2, <4>3 DEF MacFields
    <3>3. mac' = NewUpTBF(r, m)
      BY <2>3, <2>9
    <3> HIDE DEF r
    <3>4. Reached(r)
      <4> SUFFICES ASSUME NEW t \in Tbfs, r.tbf[t] # None, r.tbf[t].msg \in Messages
                   PROVE  r.ms[r.tbf[t].ms].ch # None
        BY DEF Reached
      <4>1. mac.tbf[t] # None /\ r.tbf[t] = mac.tbf[t] /\ r.tbf[t].ms \in Handsets \ {m}
        BY <1>tbf, <2>1, <2>4, <3>1
      <4>2. s.ms[r.tbf[t].ms].ch # None
        BY <2>7, <3>1 DEF Linked, Reached
      <4>3. QED
        BY <3>1, <4>1, <4>2
    <3>5. Linked(r, phone)
      BY <2>7, <3>1, <3>4 DEF Linked, Held, Polling, Tied, Claimed
    <3>6. Room(r)
      BY <2>1, <2>2, <3>1 DEF Room
    <3>7. QED
      BY <1>mac, <3>2, <3>3, <3>5, <3>6, NewUpLinked
  <2>10. CASE ~(downs = {} /\ ups = {})
    <3>1. PICK u \in IF ups = {} THEN {None} ELSE ups :
                 LET c == IF u = None THEN s ELSE Cancel(s, u)
                 IN IF downs \cap Those(s, m, "Down", Transmitting) = {} THEN mac' = c /\ left' = rest
                    ELSE \E d \in downs : Retry(Cancel(c, d), d, rest)
      BY <2>3, <2>10
    <3> DEFINE c == IF u = None THEN s ELSE Cancel(s, u)
    <3>2. /\ c \in MacFields /\ Linked(c, phone)
          /\ \A d \in downs : c.tbf[d] = s.tbf[d]
          /\ \A t \in Tbfs : c.tbf[t] # None => s.tbf[t] # None /\ c.tbf[t].ms = s.tbf[t].ms /\ c.tbf[t].msg = s.tbf[t].msg
      <4>1. CASE u = None
        BY <2>1, <2>7, <4>1
      <4>2. CASE u # None
        <5>1. u \in ups
          BY <4>2
        <5>2. u \in Tbfs /\ s.tbf[u] # None /\ s.tbf[u].ms = m /\ s.tbf[u].state # "Finished" /\ s.tbf[u].dir = "Up"
          BY <2>5, <5>1
        <5>3. PICK T \in SUBSET Tbfs : T = {u}
          BY <5>2
        <5>4. c = CancelAll(s, m, T, "Dead")
          BY <4>2, <5>2, <5>3 DEF Cancel
        <5>5. \A t \in T : s.tbf[t] # None /\ s.tbf[t].state # "Finished"
          BY <5>2, <5>3
        <5> HIDE DEF c
        <5>6. Linked(c, phone)
          BY <1>mac, <2>1, <2>7, <5>4, <5>5, CancelLinked
        <5>7. /\ c \in MacFields /\ \A t \in Tbfs \ T : c.tbf[t] = s.tbf[t]
              /\ \A t \in T : c.tbf[t].ms = s.tbf[t].ms /\ c.tbf[t].msg = s.tbf[t].msg
          BY <2>1, <5>4, <5>5, CancelShape
        <5>8. \A d \in downs : d \in Tbfs \ T
          BY <2>6, <5>2, <5>3
        <5>9. QED
          BY <5>5, <5>6, <5>7, <5>8
      <4>3. QED
        BY <4>1, <4>2
    <3>3. \/ mac' = c
          \/ \E d \in downs : Retry(Cancel(c, d), d, rest)
      BY <3>1
    <3> HIDE DEF c
    <3>4. ASSUME NEW d \in downs, Retry(Cancel(c, d), d, rest)
          PROVE  Linked(mac', phone)
      <4>1. d \in Tbfs /\ c.tbf[d] # None /\ c.tbf[d].ms = m /\ c.tbf[d].state # "Finished"
        BY <2>6, <3>2
      <4>2. PICK T \in SUBSET Tbfs : T = {d}
        BY <4>1
      <4>3. PICK e : e = CancelAll(c, m, T, "Dead")
        OBVIOUS
      <4>4. Retry(e, d, rest)
        BY <3>4, <4>1, <4>2, <4>3 DEF Cancel
      <4>5. \A t \in T : c.tbf[t] # None /\ c.tbf[t].state # "Finished"
        BY <4>1, <4>2
      <4>6. Linked(e, phone)
        BY <1>mac, <3>2, <4>3, <4>5, CancelLinked
      <4>7. /\ e \in MacFields /\ \A t \in Tbfs \ T : e.tbf[t] = c.tbf[t]
            /\ \A t \in T : /\ e.tbf[t] \in TbfFields /\ e.tbf[t].state = "Dead"
                            /\ e.tbf[t].ms = c.tbf[t].ms /\ e.tbf[t].msg = c.tbf[t].msg
        BY <3>2, <4>3, <4>5, CancelShape
      <4>8. e.tbf[d] \in TbfFields /\ e.tbf[d] # None /\ e.tbf[d].state = "Dead" /\ e.tbf[d].ms = m
        BY <4>1, <4>2, <4>7, NoneAssumption
      <4>9. e = [e EXCEPT !.tbf[d].state = "Dead"]
        <5>1. e.tbf[d] = [e.tbf[d] EXCEPT !.state = "Dead"]
          BY <4>8 DEF TbfFields
        <5>2. QED
          BY <4>7, <5>1 DEF MacFields
      <4>10. \A t \in Tbfs : e.tbf[t] # None /\ e.tbf[t].msg = "Data" => e.tbf[t].ms # e.tbf[d].ms
        <5> SUFFICES ASSUME NEW t \in Tbfs, e.tbf[t] # None, e.tbf[t].msg = "Data" PROVE e.tbf[t].ms # m
          BY <4>8
        <5>1. c.tbf[t] # None /\ c.tbf[t].msg = "Data" /\ c.tbf[t].ms = e.tbf[t].ms
          BY <4>5, <4>7
        <5>2. mac.tbf[t] # None /\ mac.tbf[t].msg = "Data" /\ mac.tbf[t].ms = e.tbf[t].ms
          BY <2>1, <3>2, <5>1
        <5>3. QED
          BY <2>4, <5>2 DEF Messages
      <4>11. QED
        BY <1>mac, <4>1, <4>4, <4>6, <4>7, <4>8, <4>9, <4>10, RetryLinked
    <3>5. QED
      BY <3>2, <3>3, <3>4
  <2>11. QED
    BY <2>9, <2>10
<1>7. ASSUME NEW t \in Tbfs, Attach(t)
      PROVE  Kept
  <2> DEFINE x == mac.tbf[t]
             m == mac.tbf[t].ms
  <2>1. /\ x \in TbfFields /\ x # None /\ x.state = "Ready" /\ m \in Handsets /\ Sound(x)
        /\ ~x.attached /\ x.msg = None /\ ~x.acked
    BY <1>7, <1>tbf DEF Attach, Is, Sound
  <2>2. phone' = phone
    BY <1>7 DEF Attach
  <2>3. PICK p \in Pdchs, f \in Tfis \cup {None} :
        LET free == {e \in Tfis : mac.tfi[e] = None}
            up == mac.tbf[t].dir = "Up"
            done == f # None /\ (up => HasUSF(mac.usf[p], mac.tbf[t].ms))
        IN /\ IF mac.ms[mac.tbf[t].ms].ch # None THEN p = mac.ms[mac.tbf[t].ms].ch ELSE mac.ms[mac.tbf[t].ms].pacch \in {p, None}
           /\ IF mac.tbf[t].tfi # None THEN f = mac.tbf[t].tfi
              ELSE f \in (IF free = {} THEN {None} ELSE free)
           /\ mac' = [mac EXCEPT
                        !.ms[mac.tbf[t].ms] = [mac.ms[mac.tbf[t].ms] EXCEPT !.ch = p, !.pacch = p],
                        !.tfi = [e \in Tfis |-> IF e = f THEN t ELSE mac.tfi[e]],
                        !.usf[p] = IF up /\ done THEN AllocateUSF(mac.usf[p], mac.tbf[t].ms) ELSE @,
                        !.tbf[t] = [mac.tbf[t] EXCEPT !.tfi = f, !.attached = done,
                                                      !.state = IF done THEN "Waiting1" ELSE "Ready"]]
    BY Zenon, <1>7 DEF Attach
  <2> DEFINE done == f # None /\ ((x.dir = "Up") => HasUSF(mac.usf[p], m))
             y == [x EXCEPT !.tfi = f, !.attached = done, !.state = IF done THEN "Waiting1" ELSE "Ready"]
  <2>4. mac'.tbf = [mac.tbf EXCEPT ![t] = y]
    BY Zenon, <1>mac, <2>3 DEF MacFields
  <2>5. /\ mac'.tfi = [e \in Tfis |-> IF e = f THEN t ELSE mac.tfi[e]]
        /\ mac'.ms = [mac.ms EXCEPT ![m] = [mac.ms[m] EXCEPT !.ch = p, !.pacch = p]]
    BY Zenon, <1>mac, <2>3 DEF MacFields
  <2>6. f # None => mac.tfi[f] = None \/ f = x.tfi
    BY <2>3
  <2>7. f = None => x.tfi = None
    BY <2>3
  <2>8. done \in BOOLEAN /\ (done => f # None)
    OBVIOUS
  <2> HIDE DEF done
  <2>9. /\ y.ms = m /\ y.dir = x.dir /\ y.tfi = f /\ y.attached = done /\ y.msg = None /\ ~y.acked
        /\ y.state = (IF done THEN "Waiting1" ELSE "Ready")
    BY <2>1 DEF TbfFields
  <2> HIDE DEF y
  <2>10. mac'.tbf[t] = y /\ \A u \in Tbfs \ {t} : mac'.tbf[u] = mac.tbf[u]
    BY <1>mac, <2>4 DEF MacFields
  <2>11. KeepsChannels(mac', mac)
    BY <1>ms, <1>mac, <2>1, <2>5, NoneAssumption DEF KeepsChannels, MacFields, MsFields
  <2>12. Sound(y) /\ ~Over(y)
    BY <2>8, <2>9, NoneAssumption DEF Sound, Over, Active, Messages
  <2> HIDE DEF x, m
  <2>13. \A u \in Tbfs : mac'.tbf[u] # None => Sound(mac'.tbf[u])
    BY <1>tbf, <2>10, <2>12
  <2>14. Held(mac')
    <3> SUFFICES ASSUME NEW u \in Tbfs, mac'.tbf[u] # None, mac'.tbf[u].tfi # None
                 PROVE  mac'.tfi[mac'.tbf[u].tfi] = u
      BY DEF Held
    <3>1. CASE u = t
      BY <2>5, <2>9, <2>10, <3>1
    <3>2. CASE u # t
      <4>1. mac.tbf[u] # None /\ mac.tbf[u].tfi \in Tfis /\ mac.tfi[mac.tbf[u].tfi] = u /\ mac'.tbf[u] = mac.tbf[u]
        BY <1>tbf, <1>mac, <2>10, <3>2 DEF Linked, Held, TbfFields
      <4>2. mac.tbf[u].tfi # f
        <5>1. x.tfi # None => mac.tfi[x.tfi] = t
          BY <1>mac, <2>1 DEF Linked, Held, x
        <5>2. u # None
          BY NoneAssumption
        <5>3. QED
          BY <2>6, <2>7, <3>2, <4>1, <5>1, <5>2
      <4>3. QED
        BY <2>5, <4>1, <4>2
    <3>3. QED
      BY <3>1, <3>2
  <2>15. Reached(mac')
    <3> SUFFICES ASSUME NEW u \in Tbfs, mac'.tbf[u] # None, mac'.tbf[u].msg \in Messages
                 PROVE  mac'.ms[mac'.tbf[u].ms].ch # None
      BY DEF Reached
    <3>1. u # t /\ mac'.tbf[u] = mac.tbf[u]
      BY <2>9, <2>10, NoneAssumption
    <3>2. QED
      BY <1>mac, <1>tbf, <2>11, <3>1 DEF Linked, Reached, KeepsChannels
  <2>16. Polling(mac')
    <3> SUFFICES ASSUME NEW u \in Tbfs, NEW v \in Tbfs, Busy(mac'.tbf[u]), mac'.tbf[u].dir = "Down",
                        mac'.tbf[v] # None, mac'.tbf[v].msg = "Data", mac'.tbf[v].ms = mac'.tbf[u].ms
                 PROVE  u = v
      BY DEF Polling
    <3>1. v # t /\ mac'.tbf[v] = mac.tbf[v]
      BY <2>9, <2>10, NoneAssumption DEF Messages
    <3>2. Busy(mac.tbf[u]) /\ mac.tbf[u].dir = "Down" /\ mac.tbf[u].ms = mac'.tbf[u].ms
      BY <2>1, <2>9, <2>10 DEF Busy, Active, x, m
    <3>3. QED
      BY <1>mac, <3>1, <3>2 DEF Linked, Polling
  <2>17. Tied(mac', phone)
    <3> SUFFICES ASSUME NEW u \in Tbfs, mac'.tbf[u] # None PROVE Ties(mac'.tbf[u], phone[mac'.tbf[u].ms])
      BY DEF Tied
    <3>1. CASE u = t
      BY <2>9, <2>10, <2>12, <3>1, NoneAssumption DEF Ties, Messages
    <3>2. CASE u # t
      BY <1>tbf, <2>10, <3>2
    <3>3. QED
      BY <3>1, <3>2
  <2>18. Claimed(mac', phone)
    <3> SUFFICES ASSUME NEW k \in Handsets, NEW e \in Directions, phone[k][e] # None
                 PROVE  \E u \in Tbfs : Owns(mac'.tbf[u], k, e, phone[k][e])
      BY DEF Claimed
    <3>1. PICK u \in Tbfs : Owns(mac.tbf[u], k, e, phone[k][e])
      BY <1>mac DEF Linked, Claimed
    <3>2. u # t
      BY <2>1, <3>1 DEF Owns, x
    <3>3. QED
      BY <2>10, <3>1, <3>2
  <2>19. QED
    BY <1>mac, <2>2, <2>13, <2>14, <2>15, <2>16, <2>17, <2>18 DEF Linked
<1>8. ASSUME NEW t \in Tbfs, SendAssignment(t)
      PROVE  Kept
  <2> DEFINE x == mac.tbf[t]
             m == mac.tbf[t].ms
  <2>1. /\ x \in TbfFields /\ x # None /\ m \in Handsets /\ x.dir \in Directions /\ Sound(x)
        /\ x.state = "Waiting1" /\ mac.ms[m].ch # None /\ x.msg = None /\ ~x.acked /\ x.attached
    BY Zenon, <1>8, <1>tbf DEF SendAssignment, Served, Is, Ch, Pending, Sound, Active
  <2>a. ASSUME NEW s \in MacFields, s.tbf = mac.tbf, s.tfi = mac.tfi, KeepsChannels(s, mac),
               mac' = Cancel(s, t), phone' = phone
        PROVE  Kept
    <3>1. PICK T \in SUBSET Tbfs : T = {t}
      OBVIOUS
    <3>2. mac' = CancelAll(s, m, T, "Dead")
      BY <2>a, <3>1 DEF Cancel
    <3>3. Linked(s, phone)
      BY <1>mac, <2>a, SameLinked
    <3>4. \A u \in T : s.tbf[u] # None /\ s.tbf[u].state # "Finished"
      BY <2>1, <2>a, <3>1
    <3> HIDE DEF m
    <3>5. Linked(mac', phone)
      BY <1>mac, <2>1, <3>2, <3>3, <3>4, CancelLinked
    <3>6. QED
      BY <2>a, <3>5
  <2>2. CASE Exhausted(t)
    <3>1. mac' = Cancel(mac, t) /\ phone' = phone
      BY <1>8, <2>2 DEF SendAssignment
    <3>2. QED
      BY <1>mac, <2>a, <3>1 DEF KeepsChannels
  <2>3. CASE ~Exhausted(t)
    <3>1. PICK expired \in BOOLEAN, t3193 \in BOOLEAN :
             LET s == [mac EXCEPT !.ms[x.ms].t3168 = @ /\ ~expired]
             IN /\ expired => mac.ms[x.ms].t3168
                /\ IF x.dir = "Up" /\ expired THEN mac' = Cancel(s, t) /\ UNCHANGED phone
                   ELSE /\ x.dir = "Down" => ~s.ms[x.ms].t3168
                        /\ IF OnCcch(t, t3193)
                           THEN /\ mac' = [s EXCEPT !.tbf[t].msg = "Queued"]
                                /\ UNCHANGED phone
                           ELSE Send([s EXCEPT !.tbf[t].n = @ + 1], t, "Assign",
                                     HearsAssignment(t), Assigned(phone[x.ms], t))
      BY Zenon, <1>8, <2>3 DEF SendAssignment
    <3> DEFINE s == [mac EXCEPT !.ms[m].t3168 = @ /\ ~expired]
    <3>2. /\ s \in Good /\ s.tbf = mac.tbf /\ s.tfi = mac.tfi /\ KeepsChannels(s, mac)
          /\ s.ms[m].ch = mac.ms[m].ch
      <4>1. s.tbf = mac.tbf /\ s.tfi = mac.tfi /\ KeepsChannels(s, mac) /\ s.ms[m].ch = mac.ms[m].ch
        BY <1>mac, <1>ms, <2>1 DEF MacFields, MsFields, KeepsChannels
      <4>2. [mac.ms[m] EXCEPT !.t3168 = @ /\ ~expired] \in MsFields /\ [mac.ms[m] EXCEPT !.t3168 = @ /\ ~expired].ch = mac.ms[m].ch
        BY <1>ms, <2>1 DEF MsFields
      <4>3. s = [mac EXCEPT !.ms[m] = [mac.ms[m] EXCEPT !.t3168 = @ /\ ~expired]]
        BY <1>mac DEF MacFields
      <4> HIDE DEF s
      <4>4. s \in Good
        BY <1>mac, <2>1, <4>2, <4>3, MsGood
      <4>5. QED
        BY <4>1, <4>4
    <3>3. \/ mac' = Cancel(s, t) /\ phone' = phone
          \/ OnCcch(t, t3193) /\ mac' = [s EXCEPT !.tbf[t].msg = "Queued"] /\ phone' = phone
          \/ Send([s EXCEPT !.tbf[t].n = @ + 1], t, "Assign", HearsAssignment(t), Assigned(phone[m], t))
      BY <3>1
    <3> HIDE DEF s
    <3>4. s \in MacFields /\ Linked(s, phone)
      BY <1>mac, <3>2, SameLinked DEF Good
    <3>5. CASE mac' = Cancel(s, t) /\ phone' = phone
      BY <2>a, <3>2, <3>4, <3>5
    <3>6. CASE OnCcch(t, t3193) /\ mac' = [s EXCEPT !.tbf[t].msg = "Queued"] /\ phone' = phone
      <4> DEFINE y == [x EXCEPT !.msg = "Queued"]
      <4>1. /\ y \in TbfFields /\ y.ms = x.ms /\ y.dir = x.dir /\ y.tfi = x.tfi /\ y.attached = x.attached
            /\ y.state = x.state /\ y.acked = x.acked /\ y.msg = "Queued"
        BY <2>1 DEF TbfFields
      <4>2. mac' = [s EXCEPT !.tbf[t] = y] /\ x.dir = "Down"
        BY <3>2, <3>4, <3>6 DEF MacFields, OnCcch
      <4> HIDE DEF y
      <4>3. Sound(y)
        BY <2>1, <4>1, <4>2 DEF Sound, Active
      <4>4. y # None
        BY <4>1, NoneAssumption
      <4>5. Mild(y, x)
        BY <2>1, <4>1, <4>3, <4>4 DEF Mild, Renews, Over, Busy, Messages
      <4>6. Linked(mac', phone)
        BY <1>mac, <2>1, <3>2, <3>4, <4>1, <4>2, <4>5, SetLinked
      <4>7. QED
        BY <3>6, <4>6
    <3>7. CASE Send([s EXCEPT !.tbf[t].n = @ + 1], t, "Assign", HearsAssignment(t), Assigned(phone[m], t))
      <4>n. x.n + 1 \in Counts
        BY <2>1, <2>3, Limits, TbfAssumption DEF Exhausted, TbfFields
      <4>1. PICK k \in {"Assign", None} :
              /\ mac' = [[s EXCEPT !.tbf[t].n = @ + 1] EXCEPT !.tbf[t].msg = k]
              /\ \/ phone' = phone
                 \/ k = "Assign" /\ HearsAssignment(t) /\ phone' = [phone EXCEPT ![m] = Assigned(phone[m], t)]
        <5>1. [s EXCEPT !.tbf[t].n = @ + 1].tbf[t].ms = m
          BY <1>mac, <2>1, <3>2, <3>4 DEF MacFields, TbfFields
        <5>2. QED
          BY <3>7, <5>1 DEF Send
      <4> DEFINE y == [x EXCEPT !.n = @ + 1, !.msg = k]
      <4>2. /\ y \in TbfFields /\ y.ms = x.ms /\ y.dir = x.dir /\ y.tfi = x.tfi /\ y.attached = x.attached
            /\ y.state = x.state /\ y.acked = x.acked /\ y.msg = k
        BY <2>1, <4>n DEF TbfFields, Messages
      <4>3. mac' = [s EXCEPT !.tbf[t] = y]
        BY <3>2, <3>4, <4>1 DEF MacFields
      <4>4. mac'.tbf[t] = y /\ \A u \in Tbfs \ {t} : mac'.tbf[u] = mac.tbf[u]
        BY <1>mac, <3>2, <3>4, <4>3 DEF MacFields
      <4> HIDE DEF y
      <4>5. Sound(y) /\ y # None /\ ~Over(y)
        BY <2>1, <4>2, NoneAssumption DEF Sound, Over, Active, Messages
      <4>6. Linked(mac', phone)
        <5>1. Ties(y, phone[y.ms]) /\ y.msg # "Data"
          BY <4>2, <4>5, NoneAssumption DEF Ties, Messages
        <5>2. /\ s.tbf[t] # None /\ s.ms[s.tbf[t].ms].ch # None
              /\ y.ms = s.tbf[t].ms /\ y.dir = s.tbf[t].dir /\ y.tfi = s.tbf[t].tfi
              /\ y.attached = s.tbf[t].attached /\ y.state = s.tbf[t].state
          BY <2>1, <3>2, <4>2
        <5>3. Linked([s EXCEPT !.tbf[t] = y], phone)
          BY <1>mac, <3>2, <3>4, <4>2, <4>5, <5>1, <5>2, AwaitsLinked
        <5>4. QED
          BY <4>3, <5>3
      <4>7. CASE phone' = phone
        BY <4>6, <4>7
      <4>8. CASE k = "Assign" /\ HearsAssignment(t) /\ phone' = [phone EXCEPT ![m] = Assigned(phone[m], t)]
        <5> DEFINE q == Assigned(phone[m], t)
        <5>1. q \in PhoneFields
          BY <1>mac, <1>ms, <2>1, AssignedType
        <5>2. PICK other \in Directions \ {x.dir} : TRUE
          BY <2>1 DEF Directions
        <5>3. q.ch = mac.ms[m].ch /\ q[x.dir] = x.tfi /\ q[other] = phone[m][other]
          BY <1>ms, <2>1, <5>2 DEF Assigned, PhoneFields, Directions, Ch
        <5>4. ASSUME x.dir = "Down", NEW u \in Tbfs, mac'.tbf[u] # None, mac'.tbf[u].msg = "Data"
              PROVE  mac'.tbf[u].ms # m
          <6>1. u # t
            BY <4>2, <4>4, <4>8, <5>4
          <6>2. Busy(x) /\ x.msg # "Data"
            BY <2>1, <5>4, NoneAssumption DEF Busy, Active, Messages
          <6>3. QED
            BY <1>one, <4>4, <5>4, <6>1, <6>2
        <5> HIDE DEF q
        <5>5. phone' = [phone EXCEPT ![m] = q]
          BY <4>8 DEF q
        <5>6. mac'.tbf[t] # None /\ mac'.tbf[t].attached /\ ~Over(mac'.tbf[t]) /\ mac'.tbf[t].ms = m
              /\ mac'.tbf[t].dir = x.dir /\ mac'.tbf[t].tfi = x.tfi
          BY <2>1, <4>2, <4>4, <4>5
        <5>7. q.ch # None
          BY <2>1, <5>3
        <5> HIDE DEF x, m
        <5>8. PICK dir \in Directions : dir = x.dir
          BY <2>1
        <5>9. Linked(mac', [phone EXCEPT ![m] = q])
          BY <1>mac, <2>1, <4>6, <5>1, <5>2, <5>3, <5>4, <5>6, <5>7, <5>8, TakesTfi
        <5>10. QED
          BY <5>5, <5>9
      <4>9. QED
        BY <4>1, <4>7, <4>8
    <3>8. QED
      BY <3>3, <3>5, <3>6, <3>7
  <2>4. QED
    BY <2>2, <2>3
<1>9. ASSUME NEW t \in Tbfs, CcchSends(t)
      PROVE  Kept
  <2> DEFINE x == mac.tbf[t]
             m == mac.tbf[t].ms
  <2>1. /\ x \in TbfFields /\ x # None /\ m \in Handsets /\ Sound(x) /\ x.msg = "Queued"
        /\ x.dir = "Down" /\ x.state \in {"Waiting1", "Dead"} /\ x.attached /\ ~x.acked
    BY <1>9, <1>tbf, NoneAssumption DEF CcchSends, Sound
  <2>2. Send(mac, t, "Assign", phone[m].ch = None /\ Ch(mac, t) # None, Assigned(phone[m], t))
    BY <1>9 DEF CcchSends
  <2>3. CASE mac' = [mac EXCEPT !.tbf[t].msg = None] /\ phone' = phone
    BY <1>mac, <2>1, <2>3, AnsweredLinked DEF Answered
  <2>4. CASE /\ mac' = [mac EXCEPT !.tbf[t].msg = "Assign"]
             /\ phone[m].ch = None /\ Ch(mac, t) # None /\ phone' = [phone EXCEPT ![m] = Assigned(phone[m], t)]
    <3> DEFINE y == [x EXCEPT !.msg = "Assign"]
               q == Assigned(phone[m], t)
    <3>1. /\ y \in TbfFields /\ y.ms = x.ms /\ y.dir = x.dir /\ y.tfi = x.tfi /\ y.attached = x.attached
          /\ y.state = x.state /\ y.acked = x.acked /\ y.msg = "Assign"
      BY <2>1 DEF TbfFields, Messages
    <3>2. mac' = [mac EXCEPT !.tbf[t] = y]
      BY <1>mac, <2>4 DEF MacFields
    <3>3. mac'.tbf[t] = y /\ \A u \in Tbfs \ {t} : mac'.tbf[u] = mac.tbf[u]
      BY <1>mac, <3>2 DEF MacFields
    <3> HIDE DEF y
    <3>4. Sound(y) /\ y # None /\ ~Over(y)
      BY <2>1, <3>1, NoneAssumption DEF Sound, Over, Active
    <3>5. Linked(mac', phone)
      <4>1. Ties(y, phone[y.ms]) /\ y.msg # "Data"
        BY <3>1, <3>4 DEF Ties
      <4>2. mac.ms[x.ms].ch # None
        BY <2>4 DEF Ch
      <4>3. QED
        BY <1>mac, <2>1, <3>1, <3>2, <3>4, <4>1, <4>2, AwaitsLinked
    <3>6. q \in PhoneFields
      BY <1>mac, <1>ms, <2>1, AssignedType
    <3>7. q.ch # None /\ q.Down = x.tfi /\ q.Up = phone[m].Up
      BY <1>ms, <2>1, <2>4 DEF Assigned, PhoneFields
    <3>8. ASSUME NEW u \in Tbfs, mac'.tbf[u] # None, mac'.tbf[u].msg = "Data"
          PROVE  mac'.tbf[u].ms # m
      <4>1. u # t /\ mac'.tbf[u] = mac.tbf[u]
        BY <3>1, <3>3, <3>8
      <4>2. mac.tbf[u].attached /\ mac.tbf[u].tfi # None /\ phone[mac.tbf[u].ms].Down = mac.tbf[u].tfi
        BY <1>tbf, <3>8, <4>1 DEF Sound, Ties
      <4>3. QED
        BY <1>ms, <2>1, <2>4, <4>1, <4>2
    <3> HIDE DEF q
    <3>9. phone' = [phone EXCEPT ![m] = q]
      BY <2>4 DEF q
    <3>10. mac'.tbf[t] # None /\ mac'.tbf[t].attached /\ ~Over(mac'.tbf[t]) /\ mac'.tbf[t].ms = m
           /\ mac'.tbf[t].dir = "Down" /\ mac'.tbf[t].tfi = x.tfi
      BY <2>1, <3>1, <3>3, <3>4
    <3> HIDE DEF x, m
    <3>11. PICK dir \in Directions : dir = "Down"
      BY DEF Directions
    <3>a. PICK other \in Directions \ {dir} : other = "Up"
      BY <3>11 DEF Directions
    <3>12. Linked(mac', [phone EXCEPT ![m] = q])
      BY <1>mac, <2>1, <3>5, <3>6, <3>7, <3>8, <3>10, <3>11, <3>a, TakesTfi
    <3>13. QED
      BY <3>9, <3>12
  <2>5. QED
    BY <2>2, <2>3, <2>4 DEF Send
<1>10. ASSUME NEW t \in Tbfs, Begin(t)
       PROVE  Kept
  <2> DEFINE x == mac.tbf[t]
             y == [x EXCEPT !.state = "Transmit", !.acked = FALSE, !.n = 0]
  <2>1. /\ x \in TbfFields /\ x # None /\ Sound(x) /\ x.msg = None /\ x.state = "Waiting1" /\ x.attached
        /\ x.ms \in Handsets
    BY <1>10, <1>tbf DEF Begin, Served, Is, Sound, Active
  <2>2. /\ y.ms = x.ms /\ y.dir = x.dir /\ y.tfi = x.tfi /\ y.attached = x.attached
        /\ y.state = "Transmit" /\ ~y.acked /\ y.msg = None /\ y \in TbfFields
    BY <2>1, Limits DEF TbfFields, Active
  <2>3. mac'.tbf[t] = y /\ \A u \in Tbfs \ {t} : mac'.tbf[u] = mac.tbf[u]
    BY Zenon, <1>10, <1>mac DEF Begin, MacFields
  <2>4. mac'.tfi = mac.tfi /\ KeepsChannels(mac', mac) /\ phone' = phone
    <3>1. /\ phone' = phone
          /\ mac' = [mac EXCEPT !.tbf[t].state = "Transmit", !.tbf[t].acked = FALSE, !.tbf[t].n = 0,
                                !.ms[mac.tbf[t].ms].t3168 = @ /\ mac.tbf[t].dir = "Down"]
      BY <1>10 DEF Begin
    <3>2. /\ mac'.tfi = mac.tfi
          /\ mac'.ms = [mac.ms EXCEPT ![mac.tbf[t].ms].t3168 = @ /\ mac.tbf[t].dir = "Down"]
      BY Zenon, <1>mac, <3>1 DEF MacFields
    <3>3. \A m \in Handsets : mac'.ms[m].ch = mac.ms[m].ch
      BY <1>mac, <2>1, <3>2 DEF MacFields, MsFields
    <3>4. QED
      BY Zenon, <3>1, <3>2, <3>3 DEF KeepsChannels
  <2> HIDE DEF y
  <2>5. Sound(y) /\ ~Over(y) /\ y # None
    BY <2>1, <2>2, NoneAssumption DEF Sound, Over, Active, Messages
  <2>6. Mild(y, x)
    BY <2>1, <2>2, <2>5, NoneAssumption DEF Mild, Renews, Busy, Active, Messages
  <2>7. \A u \in Tbfs : Mild(mac'.tbf[u], mac.tbf[u])
    BY <2>3, <2>6 DEF Mild, Renews
  <2>8. QED
    BY <1>mac, <2>4, <2>7, MildlyLinked
<1>11. ASSUME NEW t \in Tbfs, Poll(t)
       PROVE  Kept
  <2> DEFINE x == mac.tbf[t]
             m == mac.tbf[t].ms
             y == [x EXCEPT !.msg = "Data"]
  <2>1. /\ x \in TbfFields /\ x # None /\ Sound(x) /\ m \in Handsets /\ x.state = "Transmit" /\ x.dir = "Down"
        /\ mac.ms[m].ch # None /\ x.attached /\ ~x.acked
    BY Zenon, <1>11, <1>tbf DEF Poll, Served, Is, Ch, Sound, Active
  <2>2. Send(mac, t, "Data", phone[m].ch = Ch(mac, t) /\ phone[m].Down = x.tfi, phone[m])
    BY <1>11 DEF Poll
  <2>3. /\ y \in TbfFields /\ y.dir = "Down" /\ y.tfi = x.tfi /\ y.attached
        /\ y.state = "Transmit" /\ ~y.acked /\ y.msg = "Data" /\ y = [mac.tbf[t] EXCEPT !.msg = "Data"]
    BY <2>1 DEF TbfFields, Messages
  <2>4. Busy(x)
    BY <2>1 DEF Busy, Active
  <2> HIDE DEF y
  <2>5. Sound(y)
    BY <2>1, <2>3 DEF Sound, Active
  <2>6. Lets(phone[m], phone[m])
    BY <1>ms, <2>1 DEF Lets
  <2>7. phone[m].Down = x.tfi => Ties(y, phone[m])
    BY <2>3 DEF Ties, Over
  <2> DEFINE hears == phone[m].ch = Ch(mac, t) /\ phone[m].Down = x.tfi
             q == phone[m]
  <2>8. hears => Lets(q, phone[m]) /\ Ties(y, q) /\ q.Down = phone[m].Down
    BY <2>6, <2>7
  <2>9. Send(mac, t, "Data", hears, q)
    BY <2>2
  <2> HIDE DEF hears, q, m
  <2>10. m = mac.tbf[t].ms /\ "Data" \in Messages
    BY DEF m, Messages
  <2>11. QED
    BY <1>mac, <2>1, <2>3, <2>4, <2>5, <2>8, <2>9, <2>10, SentLinked
<1>12. ASSUME NEW t \in Tbfs, DownFails(t)
       PROVE  Kept
  <2>1. mac.tbf[t] # None /\ mac.tbf[t].state = "Transmit" /\ mac.tbf[t].dir = "Down" /\ mac.tbf[t].ms \in Handsets
        /\ phone' = phone
    BY <1>12, <1>tbf DEF DownFails, Served, Is
  <2>2. PICK T \in SUBSET Tbfs : T = {t}
    OBVIOUS
  <2>3. mac' = CancelAll(mac, mac.tbf[t].ms, T, "Release")
    BY <1>12, <2>1, <2>2 DEF DownFails, CancelAndRelease, Transmitting
  <2>4. QED
    BY <1>mac, <2>1, <2>2, <2>3, CancelLinked
<1>13. ASSUME NEW t \in Tbfs, UpEnds(t)
       PROVE  Kept
  <2> DEFINE x == mac.tbf[t]
             y == [x EXCEPT !.state = "Final"]
  <2>1. /\ x \in TbfFields /\ x # None /\ Sound(x) /\ x.state = "Transmit" /\ x.dir = "Up" /\ x.attached
        /\ ~x.acked /\ x.msg = None /\ phone' = phone
    BY <1>13, <1>tbf DEF UpEnds, Served, Is, Sound, Active
  <2>2. mac' = [mac EXCEPT !.tbf[t] = y]
    BY <1>13, <1>mac DEF UpEnds, MacFields
  <2>3. /\ y.ms = x.ms /\ y.dir = "Up" /\ y.tfi = x.tfi /\ y.attached
        /\ y.state = "Final" /\ ~y.acked /\ y.msg = None /\ y \in TbfFields
    BY <2>1 DEF TbfFields, Active
  <2> HIDE DEF y
  <2>4. Sound(y) /\ ~Over(y) /\ y # None
    BY <2>1, <2>3, NoneAssumption DEF Sound, Over, Active, Messages
  <2>5. Mild(y, x)
    BY <2>1, <2>3, <2>4, NoneAssumption DEF Mild, Renews, Busy, Active, Messages
  <2>6. QED
    BY <1>mac, <2>1, <2>2, <2>3, <2>5, SetLinked
<1>14. ASSUME NEW t \in Tbfs, UpFails(t)
       PROVE  Kept
  <2>1. PICK m \in {mac.tbf[t].ms} : mac' = CancelAll(mac, m, Those(mac, m, "Up", Active), "Dead")
    BY <1>14 DEF UpFails
  <2>2. m \in Handsets /\ phone' = phone
    BY <1>14, <1>tbf DEF UpFails, Served, Is
  <2> DEFINE T == Those(mac, m, "Up", Active)
  <2>3. T \in SUBSET Tbfs /\ \A u \in T : mac.tbf[u] # None /\ mac.tbf[u].state # "Finished"
    BY DEF Those, Active
  <2> HIDE DEF T
  <2>4. mac' = CancelAll(mac, m, T, "Dead")
    BY <2>1 DEF T
  <2>5. QED
    BY <1>mac, <2>2, <2>3, <2>4, CancelLinked
<1>15. ASSUME NEW t \in Tbfs, SendFinal(t)
       PROVE  Kept
  <2> DEFINE x == mac.tbf[t]
             m == mac.tbf[t].ms
  <2>1. /\ x \in TbfFields /\ x # None /\ Sound(x) /\ m \in Handsets /\ x.state = "Final" /\ x.dir = "Up"
        /\ mac.ms[m].ch # None /\ x.attached /\ (x.acked => x.msg = None)
    BY <1>15, <1>tbf DEF SendFinal, Served, Is, Ch, Sound, Active
  <2>2. CASE Exhausted(t)
    <3>1. PICK T \in SUBSET Tbfs : T = {t}
      OBVIOUS
    <3>2. mac' = CancelAll(mac, m, T, "Dead") /\ phone' = phone
      BY <1>15, <2>2, <3>1 DEF SendFinal, Cancel
    <3> HIDE DEF m
    <3>3. QED
      BY <1>mac, <2>1, <3>1, <3>2, CancelLinked
  <2>3. CASE ~Exhausted(t) /\ x.acked
    <3> DEFINE y == [x EXCEPT !.state = "Finished", !.n = 0, !.acked = FALSE]
    <3>a. /\ mac' = [mac EXCEPT !.tbf[t].state = "Finished", !.tbf[t].n = 0, !.tbf[t].acked = FALSE]
          /\ phone' = phone
      BY <1>15, <2>3 DEF SendFinal
    <3>b. mac \in MacFields /\ x \in TbfFields
      BY <1>mac, <2>1
    <3>c. mac' = [mac EXCEPT !.tbf[t] = y]
      BY <3>a, <3>b DEF MacFields
    <3>1. mac' = [mac EXCEPT !.tbf[t] = y] /\ phone' = phone
      BY <3>a, <3>c
    <3>2. /\ y.ms = x.ms /\ y.dir = "Up" /\ y.tfi = x.tfi /\ y.attached
          /\ y.state = "Finished" /\ ~y.acked /\ y.msg = None /\ y \in TbfFields
      BY <2>1, <2>3, Limits DEF TbfFields, Active
    <3> HIDE DEF y
    <3>3. Sound(y) /\ y # None
      BY <2>1, <3>2, NoneAssumption DEF Sound, Active, Messages
    <3>4. Over(x)
      BY <2>1, <2>3 DEF Over
    <3>5. Mild(y, x)
      BY <2>1, <3>2, <3>3, <3>4, NoneAssumption DEF Mild, Renews, Busy, Active, Messages
    <3>6. QED
      BY <1>mac, <2>1, <3>1, <3>2, <3>5, SetLinked
  <2>4. CASE ~Exhausted(t) /\ ~x.acked
    <3> DEFINE z == [x EXCEPT !.n = @ + 1]
               s == [mac EXCEPT !.tbf[t].n = @ + 1]
               y == [z EXCEPT !.msg = "Final"]
    <3>1. x.n + 1 \in Counts
      BY <2>1, <2>4, Limits, TbfAssumption DEF Exhausted, TbfFields
    <3>2. /\ z \in TbfFields /\ z.state = x.state /\ z.dir = x.dir /\ z.ms = x.ms /\ z.tfi = x.tfi
          /\ z.attached = x.attached /\ z.acked = x.acked /\ z.msg = x.msg
      BY <2>1, <3>1 DEF TbfFields
    <3>3. s = [mac EXCEPT !.tbf[t] = z] /\ s.tbf[t] = z /\ s.ms = mac.ms
      BY <1>mac DEF MacFields
    <3>4. Send(s, t, "Final", phone[m].ch = Ch(mac, t) /\ phone[m].Up = x.tfi, Out(phone[m], "Up"))
      BY <1>15, <2>4 DEF SendFinal
    <3> HIDE DEF s, z
    <3>5. z # None /\ Sound(z) /\ Mild(z, x)
      <4>1. z # None /\ Sound(z)
        BY <2>1, <3>2, NoneAssumption DEF Sound
      <4>2. QED
        BY <2>1, <3>2, <4>1 DEF Mild, Renews, Busy, Over
    <3>6. Linked(s, phone)
      BY <1>mac, <2>1, <3>2, <3>3, <3>5, SetLinked
    <3>7. s \in Good
      <4>1. Quiet(z, mac.tbf[t]) /\ Downward(z)
        BY <2>1, <3>2 DEF Quiet, InUse, Busy, Downward
      <4>2. QED
        BY <1>mac, <3>2, <3>3, <4>1, SetGood
    <3>8. /\ y \in TbfFields /\ y.dir = "Up" /\ y.tfi = x.tfi /\ y.attached
          /\ y.state = "Final" /\ ~y.acked /\ y.msg = "Final" /\ y = [s.tbf[t] EXCEPT !.msg = "Final"]
      BY <2>1, <2>4, <3>2, <3>3 DEF TbfFields, Messages
    <3> HIDE DEF y
    <3>9. Sound(y) /\ x.tfi # None
      BY <2>1, <3>8 DEF Sound, Active
    <3> DEFINE q == Out(phone[m], "Up")
    <3>10. Lets(q, phone[m]) /\ q.Up = None /\ q.Down = phone[m].Down
      BY <1>ms, <2>1, OutLets DEF Directions
    <3> HIDE DEF q
    <3>11. Ties(y, q)
      BY <3>8, <3>9, <3>10 DEF Ties
    <3> DEFINE hears == phone[m].ch = Ch(mac, t) /\ phone[m].Up = x.tfi
    <3>12. Send(s, t, "Final", hears, q)
      BY <3>4 DEF q
    <3>13. s.tbf[t] # None /\ m = s.tbf[t].ms /\ s.ms[m].ch # None /\ "Final" \in Messages
      BY <2>1, <3>2, <3>3, <3>5 DEF Messages
    <3> HIDE DEF hears, m
    <3>14. QED
      BY <1>mac, <2>1, <3>6, <3>7, <3>8, <3>9, <3>10, <3>11, <3>12, <3>13, SentLinked
  <2>5. QED
    BY <2>2, <2>3, <2>4
<1>16. ASSUME NEW t \in Tbfs, SendRelease(t)
       PROVE  Kept
  <2> DEFINE x == mac.tbf[t]
             m == mac.tbf[t].ms
  <2>1. /\ x \in TbfFields /\ x # None /\ Sound(x) /\ m \in Handsets /\ x.state = "Release" /\ x.dir = "Down"
        /\ mac.ms[m].ch # None /\ x.attached /\ x.msg = None /\ x.tfi # None
    <3>1. Is(t, {"Release"}) /\ Ch(mac, t) # None /\ mac.tbf[t].msg = None
      BY <1>16 DEF SendRelease, Served, Pending
    <3>2. x \in TbfFields /\ x # None /\ Sound(x) /\ m \in Handsets /\ x.state = "Release" /\ x.msg = None
      BY <1>tbf, <3>1 DEF Is
    <3>3. x.dir = "Down"
      BY <1>mac, <3>2 DEF Good, Released
    <3>4. x.attached /\ x.tfi # None
      BY <3>2 DEF Sound, Active
    <3>5. QED
      BY <3>1, <3>2, <3>3, <3>4 DEF Ch
  <2>2. \A u \in Tbfs : mac.tbf[u] # None /\ mac.tbf[u].msg = "Data" => mac.tbf[u].ms # m
    <3>1. Busy(x) /\ x.msg # "Data"
      BY <2>1, NoneAssumption DEF Busy, Active, Messages
    <3>2. QED
      BY <1>one, <2>1, <3>1
  <2>3. CASE x.acked
    <3>1. PICK d : d = Detach(mac, t)
      OBVIOUS
    <3>2. /\ d \in MacFields
          /\ d.tbf[t] \in TbfFields /\ d.tbf[t] # None /\ d.tbf[t].ms = m /\ d.tbf[t].dir = "Down"
          /\ d.tbf[t].msg = None /\ ~d.tbf[t].attached /\ d.tbf[t].tfi = None
          /\ \A u \in Tbfs \ {t} : d.tbf[u] = mac.tbf[u]
          /\ d.ms = mac.ms /\ \A f \in Tfis \ {x.tfi} : d.tfi[f] = mac.tfi[f]
      <4>1. d \in MacFields
        BY <1>mac, <2>1, <3>1, DetachGood DEF Good
      <4>2. QED
        BY <1>mac, <2>1, <3>1, <4>1, DetachShape
    <3>3. Retry([d EXCEPT !.tbf[t].acked = FALSE], t, left) /\ phone' = phone
      BY <1>16, <2>3, <3>1 DEF SendRelease
    <3>4. PICK s : s = [d EXCEPT !.tbf[t].acked = FALSE]
      OBVIOUS
    <3>5. PICK e : e = [s EXCEPT !.tbf[t].state = "Dead"]
      OBVIOUS
    <3>6. /\ s \in MacFields /\ s.tbf[t] # None /\ s.tbf[t].ms = m
          /\ \A u \in Tbfs \ {t} : s.tbf[u] = d.tbf[u]
          /\ s.tbf[t].msg = None
      <4> DEFINE y == [d.tbf[t] EXCEPT !.acked = FALSE]
      <4>1. y \in TbfFields /\ y.ms = m /\ y.msg = None
        BY <3>2 DEF TbfFields
      <4>2. s = [d EXCEPT !.tbf[t] = y]
        BY <3>2, <3>4 DEF MacFields
      <4> HIDE DEF y
      <4>3. s.tbf[t] = y /\ s \in MacFields /\ \A u \in Tbfs \ {t} : s.tbf[u] = d.tbf[u]
        BY <3>2, <4>1, <4>2 DEF MacFields
      <4>4. QED
        BY <4>1, <4>3, NoneAssumption
    <3>7. /\ e \in MacFields /\ e.tbf[t] # None /\ e.tbf[t].ms = m /\ e.tbf[t].dir = "Down"
          /\ e.tbf[t].msg = None /\ ~e.tbf[t].attached /\ e.tbf[t].tfi = None /\ ~e.tbf[t].acked
          /\ e.tbf[t].state = "Dead"
          /\ \A u \in Tbfs \ {t} : e.tbf[u] = mac.tbf[u]
          /\ e.ms = mac.ms /\ \A f \in Tfis \ {x.tfi} : e.tfi[f] = mac.tfi[f]
      <4> DEFINE y == [d.tbf[t] EXCEPT !.acked = FALSE, !.state = "Dead"]
      <4>1. /\ y \in TbfFields /\ y.ms = m /\ y.msg = None /\ y.dir = "Down" /\ ~y.attached
            /\ y.tfi = None /\ ~y.acked /\ y.state = "Dead"
        BY <3>2 DEF TbfFields
      <4>2. e = [d EXCEPT !.tbf[t] = y]
        BY <3>2, <3>4, <3>5 DEF MacFields
      <4> HIDE DEF y
      <4>3. /\ e.tbf[t] = y /\ e \in MacFields /\ \A u \in Tbfs \ {t} : e.tbf[u] = d.tbf[u]
            /\ e.ms = d.ms /\ e.tfi = d.tfi
        BY <3>2, <4>1, <4>2 DEF MacFields
      <4>4. QED
        BY <3>2, <4>1, <4>3, NoneAssumption
    <3>8. Linked(e, phone)
      <4>1. Sound(e.tbf[t])
        BY <3>7, NoneAssumption DEF Sound, Active, Messages
      <4>2. phone[m]["Down"] # x.tfi
        BY <1>tbf, <2>1, <2>3 DEF Ties, Over
      <4>3. phone[mac.tbf[t].ms][mac.tbf[t].dir] # mac.tbf[t].tfi /\ mac.tbf[t].tfi # None /\ mac.tbf[t].msg # "Data"
        BY <2>1, <4>2, NoneAssumption DEF Messages
      <4>4. e.tbf[t].ms = mac.tbf[t].ms /\ e.tbf[t].msg = mac.tbf[t].msg
        BY <2>1, <3>7
      <4> HIDE DEF x, m
      <4>5. \A f \in Tfis \ {mac.tbf[t].tfi} : e.tfi[f] = mac.tfi[f]
        BY <3>7 DEF x
      <4>6. QED
        BY <1>mac, <2>1, <3>7, <4>1, <4>3, <4>4, <4>5, LetGoLinked DEF x
    <3>9. \A u \in Tbfs : s.tbf[u] # None /\ s.tbf[u].msg = "Data" => s.tbf[u].ms # s.tbf[t].ms
      BY <2>2, <3>2, <3>6, NoneAssumption DEF Messages
    <3>10. Linked(mac', phone)
      <4>1. Retry(s, t, left)
        BY <3>3, <3>4
      <4> HIDE DEF x, m
      <4>2. QED
        BY <1>mac, <3>5, <3>6, <3>8, <3>9, <4>1, RetryLinked
    <3>11. QED
      BY <3>3, <3>10
  <2>4. CASE ~x.acked /\ Exhausted(t)
    <3>1. PICK T \in SUBSET Tbfs : T = {t}
      OBVIOUS
    <3>2. PICK e : e = CancelAll(mac, m, T, "Dead")
      OBVIOUS
    <3>3. Retry(e, t, left) /\ phone' = phone
      BY <1>16, <2>4, <3>1, <3>2 DEF SendRelease, Cancel
    <3>4. \A u \in T : mac.tbf[u] # None /\ mac.tbf[u].state # "Finished"
      BY <2>1, <3>1
    <3> HIDE DEF m
    <3>5. Linked(e, phone)
      BY <1>mac, <2>1, <3>2, <3>4, CancelLinked
    <3>6. /\ e \in MacFields /\ \A u \in Tbfs \ T : e.tbf[u] = mac.tbf[u]
          /\ \A u \in T : /\ e.tbf[u] \in TbfFields /\ e.tbf[u].state = "Dead"
                          /\ e.tbf[u].ms = mac.tbf[u].ms /\ e.tbf[u].msg = mac.tbf[u].msg
      BY <1>mac, <2>1, <3>2, <3>4, CancelShape
    <3>7. e.tbf[t] \in TbfFields /\ e.tbf[t] # None /\ e.tbf[t].state = "Dead" /\ e.tbf[t].ms = m /\ e.tbf[t].msg = None
      BY <2>1, <3>1, <3>6, NoneAssumption DEF m
    <3>8. e = [e EXCEPT !.tbf[t].state = "Dead"]
      <4>1. e.tbf[t] = [e.tbf[t] EXCEPT !.state = "Dead"]
        BY <3>7 DEF TbfFields
      <4>2. QED
        BY <3>6, <4>1 DEF MacFields
    <3>9. \A u \in Tbfs : e.tbf[u] # None /\ e.tbf[u].msg = "Data" => e.tbf[u].ms # e.tbf[t].ms
      BY <2>2, <3>1, <3>6, <3>7, NoneAssumption DEF Messages
    <3>10. Linked(mac', phone)
      BY <1>mac, <3>3, <3>5, <3>6, <3>7, <3>8, <3>9, RetryLinked
    <3>11. QED
      BY <3>3, <3>10
  <2>5. CASE ~Exhausted(t) /\ ~x.acked
    <3> DEFINE z == [x EXCEPT !.n = @ + 1]
               s == [mac EXCEPT !.tbf[t].n = @ + 1]
               y == [z EXCEPT !.msg = "Release"]
    <3>1. x.n + 1 \in Counts
      BY <2>1, <2>5, Limits, TbfAssumption DEF Exhausted, TbfFields
    <3>2. /\ z \in TbfFields /\ z.state = x.state /\ z.dir = x.dir /\ z.ms = x.ms /\ z.tfi = x.tfi
          /\ z.attached = x.attached /\ z.acked = x.acked /\ z.msg = x.msg
      BY <2>1, <3>1 DEF TbfFields
    <3>3. s = [mac EXCEPT !.tbf[t] = z] /\ s.tbf[t] = z /\ s.ms = mac.ms
          /\ \A u \in Tbfs \ {t} : s.tbf[u] = mac.tbf[u]
      BY <1>mac DEF MacFields
    <3>4. Send(s, t, "Release", phone[m].ch = Ch(mac, t) /\ phone[m].Down = x.tfi, Out(phone[m], "Down"))
      BY <1>16, <2>5 DEF SendRelease
    <3> HIDE DEF s, z
    <3>5. z # None /\ Sound(z) /\ Mild(z, x)
      <4>1. z # None /\ Sound(z)
        BY <2>1, <3>2, NoneAssumption DEF Sound
      <4>2. QED
        BY <2>1, <3>2, <4>1 DEF Mild, Renews, Busy, Over
    <3>6. Linked(s, phone)
      BY <1>mac, <2>1, <3>2, <3>3, <3>5, SetLinked
    <3>7. s \in Good
      <4>1. Quiet(z, mac.tbf[t]) /\ Downward(z)
        BY <2>1, <3>2 DEF Quiet, InUse, Busy, Downward
      <4>2. QED
        BY <1>mac, <3>2, <3>3, <4>1, SetGood
    <3>8. /\ y \in TbfFields /\ y.dir = "Down" /\ y.tfi = x.tfi /\ y.attached
          /\ y.state = "Release" /\ ~y.acked /\ y.msg = "Release" /\ y = [s.tbf[t] EXCEPT !.msg = "Release"]
      BY <2>1, <2>5, <3>2, <3>3 DEF TbfFields, Messages
    <3> HIDE DEF y
    <3>9. Sound(y)
      BY <2>1, <3>8 DEF Sound, Active
    <3> DEFINE q == Out(phone[m], "Down")
    <3>10. Lets(q, phone[m]) /\ q.Down = None
      BY <1>ms, <2>1, OutLets DEF Directions
    <3> HIDE DEF q
    <3>11. Ties(y, q)
      BY <2>1, <3>8, <3>10 DEF Ties
    <3> DEFINE hears == phone[m].ch = Ch(mac, t) /\ phone[m].Down = x.tfi
    <3>12. Send(s, t, "Release", hears, q)
      BY <3>4 DEF q
    <3>13. s.tbf[t] # None /\ m = s.tbf[t].ms /\ s.ms[m].ch # None /\ "Release" \in Messages
      BY <2>1, <3>2, <3>3, <3>5 DEF Messages
    <3>14. \A u \in Tbfs : s.tbf[u] # None /\ s.tbf[u].msg = "Data" => s.tbf[u].ms # m
      BY <2>1, <2>2, <3>2, <3>3, NoneAssumption DEF Messages
    <3> HIDE DEF hears, m
    <3>15. QED
      BY <1>mac, <2>1, <3>6, <3>7, <3>8, <3>9, <3>10, <3>11, <3>12, <3>13, <3>14, SentLinked
  <2>6. QED
    BY <2>3, <2>4, <2>5
<1>17. ASSUME NEW t \in Tbfs, FinishedDetaches(t)
       PROVE  Kept
  <2>1. /\ mac.tbf[t] # None /\ mac.tbf[t].state = "Finished" /\ mac' = Detach(mac, t) /\ phone' = phone
        /\ Sound(mac.tbf[t]) /\ Ties(mac.tbf[t], phone[mac.tbf[t].ms])
    BY <1>17, <1>tbf DEF FinishedDetaches, Served, Is
  <2>2. mac.tbf[t].attached /\ mac.tbf[t].msg \notin {"Queued", "Data"} /\ ~mac.tbf[t].acked
    BY <2>1, NoneAssumption DEF Sound, Active, Messages
  <2>3. phone[mac.tbf[t].ms][mac.tbf[t].dir] # mac.tbf[t].tfi
    BY <2>1, <2>2 DEF Ties, Over
  <2>4. QED
    BY <1>mac, <2>1, <2>2, <2>3, DetachLinked
<1>18. ASSUME NEW t \in Tbfs, DeadExpires(t)
       PROVE  Kept
  <2>1. /\ mac.tbf[t] # None /\ mac.tbf[t].state = "Dead" /\ phone' = phone /\ mac.tbf[t].msg # "Queued"
        /\ mac.tbf[t].tfi = None \/ phone[mac.tbf[t].ms][mac.tbf[t].dir] # mac.tbf[t].tfi
        /\ Sound(mac.tbf[t]) /\ Ties(mac.tbf[t], phone[mac.tbf[t].ms])
    BY <1>18, <1>tbf DEF DeadExpires, Is
  <2>2. CASE mac.tbf[t].attached
    <3>1. phone[mac.tbf[t].ms][mac.tbf[t].dir] # mac.tbf[t].tfi
      BY <2>1, <2>2 DEF Sound
    <3>2. ~mac.tbf[t].acked /\ mac.tbf[t].msg # "Data"
      BY <2>1, <3>1 DEF Sound, Ties
    <3>3. mac' = Detach(mac, t)
      BY <1>18, <2>2 DEF DeadExpires
    <3>4. QED
      BY <1>mac, <2>1, <2>2, <3>1, <3>2, <3>3, DetachLinked
  <2>3. CASE ~mac.tbf[t].attached
    <3>1. mac' = Delete(mac, t)
      BY <1>18, <2>3 DEF DeadExpires
    <3>2. QED
      BY <1>mac, <2>1, <2>3, <3>1, DeleteLinked
  <2>4. QED
    BY <2>2, <2>3
<1>19. ASSUME NEW t \in Tbfs, Forget(t)
       PROVE  Kept
  <2>1. /\ mac.tbf[t] # None /\ mac.tbf[t].state = "Deleting" /\ phone' = phone /\ mac' = Delete(mac, t)
        /\ Sound(mac.tbf[t])
    BY <1>19, <1>tbf DEF Forget, Is
  <2>2. ~mac.tbf[t].attached
    BY <2>1 DEF Sound
  <2>3. QED
    BY <1>mac, <2>1, <2>2, DeleteLinked
<1>20. ASSUME NEW t \in Tbfs, Acknowledges(t)
       PROVE  Kept
  <2> DEFINE x == mac.tbf[t]
             acked == <<mac.tbf[t].msg, mac.tbf[t].state>> \in
                          {<<"Assign", "Waiting1">>, <<"Final", "Final">>, <<"Release", "Release">>}
             y == [x EXCEPT !.msg = None, !.acked = acked]
  <2>1. x \in TbfFields /\ x # None /\ Sound(x) /\ phone' = phone /\ x.msg \in Messages
    BY <1>20, <1>tbf DEF Acknowledges
  <2>2. mac' = [[mac EXCEPT !.tbf[t].msg = None] EXCEPT !.tbf[t].acked = acked]
    BY <1>20 DEF Acknowledges, Answered
  <2>3. acked \in BOOLEAN
    OBVIOUS
  <2>4. acked => /\ x.state \in {"Waiting1", "Final", "Release"}
                 /\ x.state = "Final" => x.msg = "Final"
                 /\ x.state = "Release" => x.msg = "Release"
    OBVIOUS
  <2> HIDE DEF acked
  <2>5. mac' = [mac EXCEPT !.tbf[t] = y]
    BY Zenon, <1>mac, <2>2 DEF MacFields
  <2>6. /\ y \in TbfFields /\ y.ms = x.ms /\ y.dir = x.dir /\ y.state = x.state /\ y.tfi = x.tfi
        /\ y.attached = x.attached /\ y.msg = None /\ y.acked = acked
    BY <2>1, <2>3 DEF TbfFields
  <2> HIDE DEF y
  <2>7. Sound(y) /\ y # None
    BY <2>1, <2>4, <2>6, NoneAssumption DEF Sound, Active, Messages
  <2>8. (Over(y) => Over(x)) /\ (Busy(y) => Busy(x))
    BY <2>1, <2>4, <2>6, NoneAssumption DEF Over, Busy, Messages
  <2>9. Mild(y, x)
    BY <2>1, <2>6, <2>7, <2>8, NoneAssumption DEF Mild, Renews, Messages
  <2>10. QED
    BY <1>mac, <2>1, <2>5, <2>6, <2>9, SetLinked
<1>21. ASSUME NEW t \in Tbfs, AsksAgain(t)
       PROVE  Kept
  <2> DEFINE x == mac.tbf[t]
             m == mac.tbf[t].ms
             acked == mac.tbf[t].state = "Final"
             y == [x EXCEPT !.msg = None, !.acked = acked]
             r == [[mac EXCEPT !.tbf[t].msg = None] EXCEPT !.tbf[t].acked = acked]
  <2>1. x \in TbfFields /\ x # None /\ Sound(x) /\ x.msg = "Final" /\ m \in Handsets /\ Room(mac)
    BY <1>21, <1>tbf DEF AsksAgain
  <2>2. mac' = NewUpTBF(r, m) /\ phone' = [phone EXCEPT ![m] = Asking(phone[m], Ch(mac, t))]
    BY <1>21 DEF AsksAgain, Answered
  <2>3. acked \in BOOLEAN /\ (acked = (x.state = "Final"))
    OBVIOUS
  <2> HIDE DEF acked
  <2>4. r = [mac EXCEPT !.tbf[t] = y]
    BY <1>mac DEF MacFields
  <2>5. /\ y \in TbfFields /\ y.ms = x.ms /\ y.dir = x.dir /\ y.state = x.state /\ y.tfi = x.tfi
        /\ y.attached = x.attached /\ y.msg = None /\ y.acked = acked
    BY <2>1, <2>3 DEF TbfFields
  <2> HIDE DEF y, r
  <2>6. Sound(y) /\ y # None
    BY <2>1, <2>3, <2>5, NoneAssumption DEF Sound, Active, Messages
  <2>7. (Over(y) => Over(x)) /\ (Busy(y) => Busy(x))
    BY <2>1, <2>3, <2>5, NoneAssumption DEF Over, Busy, Messages
  <2>8. Mild(y, x)
    BY <2>1, <2>5, <2>6, <2>7, NoneAssumption DEF Mild, Renews, Messages
  <2>9. Linked(r, phone)
    BY <1>mac, <2>1, <2>4, <2>5, <2>8, SetLinked
  <2>10. r \in MacFields /\ Room(r)
    <3>1. r \in MacFields /\ \A u \in Tbfs \ {t} : r.tbf[u] = mac.tbf[u]
      BY <1>mac, <2>4, <2>5 DEF MacFields
    <3>2. QED
      BY <2>1, <3>1 DEF Room
  <2>11. Linked(mac', phone)
    BY <1>mac, <2>1, <2>2, <2>9, <2>10, NewUpLinked
  <2>12. Ch(mac, t) \in Pdchs
    <3>1. mac.ms[m].ch # None
      BY <1>mac, <2>1 DEF Linked, Reached, Messages
    <3>2. QED
      BY <1>ms, <2>1, <3>1 DEF Ch, MsFields
  <2>13. Lets(Asking(phone[m], Ch(mac, t)), phone[m]) /\ Asking(phone[m], Ch(mac, t)).Down = phone[m].Down
    BY <1>ms, <2>1, <2>12, AskingLets
  <2>14. QED
    BY <1>mac, <2>1, <2>2, <2>11, <2>13, LetsGo
<1>22. ASSUME NEW t \in Tbfs, AckNack(t)
       PROVE  Kept
  <2> DEFINE x == mac.tbf[t]
             m == mac.tbf[t].ms
             s == Answered(mac, t)
             r == mac.tfi[phone[m].Down]
             known == r # None /\ s.tbf[r] # None
  <2>1. /\ x \in TbfFields /\ x # None /\ Sound(x) /\ m \in Handsets /\ x.msg = "Data" /\ x.dir = "Down"
        /\ x.attached /\ x.tfi # None /\ ~x.acked /\ phone[m].Down = x.tfi
        /\ x.state \in {"Transmit", "Release", "Dead"}
    <3>1. x \in TbfFields /\ x # None /\ Sound(x) /\ m \in Handsets /\ x.msg = "Data" /\ Ties(x, phone[m])
      BY Zenon, <1>22, <1>tbf DEF AckNack
    <3>2. x.dir = "Down" /\ x.attached /\ x.tfi # None /\ ~x.acked /\ phone[m].Down = x.tfi
      BY <3>1, NoneAssumption DEF Sound, Ties, Messages
    <3>3. x.state \in {"Transmit", "Release", "Dead"}
      BY <3>1, <3>2, NoneAssumption DEF Sound, TbfFields, Active, Messages
    <3>4. QED
      BY <3>1, <3>2, <3>3
  <2>2. r = t
    BY <1>mac, <2>1 DEF Linked, Held
  <2>3. /\ s \in MacFields /\ s.tbf[t] = [x EXCEPT !.msg = None]
        /\ \A u \in Tbfs \ {t} : s.tbf[u] = mac.tbf[u]
        /\ s.tfi = mac.tfi /\ s.ms = mac.ms
    <3>1. /\ s \in Good /\ s.tbf[t] = [x EXCEPT !.msg = None]
          /\ \A u \in Tbfs \ {t} : s.tbf[u] = mac.tbf[u]
      BY <1>mac, <2>1, AnsweredGood
    <3>2. s.tfi = mac.tfi /\ s.ms = mac.ms
      BY <1>mac DEF Answered, MacFields
    <3>3. QED
      BY <3>1, <3>2 DEF Good
  <2>4. Linked(s, phone)
    BY <1>mac, <2>1, AnsweredLinked
  <2>5. /\ s.tbf[t] # None /\ s.tbf[t] \in TbfFields /\ s.tbf[t].ms = m /\ s.tbf[t].dir = "Down" /\ s.tbf[t].msg = None
        /\ s.tbf[t].tfi = x.tfi /\ s.tbf[t].attached /\ ~s.tbf[t].acked
    <3>1. /\ s.tbf[t] \in TbfFields /\ s.tbf[t].ms = m /\ s.tbf[t].dir = "Down" /\ s.tbf[t].msg = None
          /\ s.tbf[t].tfi = x.tfi /\ s.tbf[t].attached /\ ~s.tbf[t].acked
      BY <2>1, <2>3 DEF TbfFields
    <3>2. QED
      BY <3>1, NoneAssumption
  <2>6. known
    BY <2>2, <2>5, NoneAssumption
  <2>7. PICK last \in BOOLEAN, asks \in BOOLEAN :
            LET g == IF known /\ last THEN [s EXCEPT !.tbf[r].state = "Finished"] ELSE s
                ph == IF asks THEN Asking(phone[m], phone[m].ch) ELSE phone[m]
            IN /\ asks => MayAsk(m) /\ Room(mac)
               /\ mac' = IF known /\ asks THEN NewUpTBF(g, s.tbf[r].ms) ELSE g
               /\ phone' = [phone EXCEPT ![m] = IF last THEN Out(ph, "Down") ELSE ph]
               /\ left' = [left EXCEPT !.asks = IF asks THEN @ - 1 ELSE @]
    BY Zenon, <1>22 DEF AckNack
  <2> DEFINE g == IF last THEN [s EXCEPT !.tbf[t].state = "Finished"] ELSE s
             ph == IF asks THEN Asking(phone[m], phone[m].ch) ELSE phone[m]
             q == IF last THEN Out(ph, "Down") ELSE ph
  <2>8. /\ asks => Room(mac)
        /\ mac' = IF asks THEN NewUpTBF(g, m) ELSE g
        /\ phone' = [phone EXCEPT ![m] = q]
    BY <2>2, <2>5, <2>6, <2>7
  <2>9. phone[m] \in PhoneFields /\ phone[m].ch \in Pdchs
    BY <1>ms, <2>1 DEF PhoneFields
  <2>10. Lets(ph, phone[m]) /\ ph.ch \in Pdchs /\ ph.Down = phone[m].Down
    <3>1. CASE asks
      <4>1. Asking(phone[m], phone[m].ch).ch = phone[m].ch
        BY <2>9 DEF Asking, PhoneFields
      <4>2. QED
        BY <2>9, <3>1, <4>1, AskingLets
    <3>2. CASE ~asks
      BY <2>9, <3>2, NoneAssumption DEF Lets
    <3>3. QED
      BY <3>1, <3>2
  <2> HIDE DEF ph
  <2>11. Lets(q, phone[m]) /\ (last => q.Down = None) /\ (~last => q.Down = phone[m].Down)
    <3>1. CASE last
      <4>1. Lets(Out(ph, "Down"), ph) /\ Out(ph, "Down").Down = None
        BY <2>10, NoneAssumption, OutLets DEF Lets, Directions
      <4>2. Lets(Out(ph, "Down"), phone[m])
        BY <2>10, <4>1 DEF Lets
      <4>3. QED
        BY <3>1, <4>1, <4>2
    <3>2. CASE ~last
      BY <2>10, <3>2
    <3>3. QED
      BY <3>1, <3>2
  <2> HIDE DEF q
  <2>12. \A u \in Tbfs : s.tbf[u] # None /\ s.tbf[u].msg = "Data" => s.tbf[u].ms # m
    <3> SUFFICES ASSUME NEW u \in Tbfs, s.tbf[u] # None, s.tbf[u].msg = "Data", s.tbf[u].ms = m PROVE FALSE
      OBVIOUS
    <3>1. u # t /\ s.tbf[u] = mac.tbf[u]
      BY <2>3, <2>5, NoneAssumption DEF Messages
    <3>2. mac.tbf[u].tfi = x.tfi
      BY <1>tbf, <2>1, <3>1 DEF Ties
    <3>3. QED
      BY <1>mac, <2>1, <3>1, <3>2 DEF Linked, Held
  <2> HIDE DEF s, g, r, known
  <2>13. Linked(s, phone')
    <3> HIDE DEF m
    <3>1. QED
      BY <1>mac, <2>1, <2>3, <2>4, <2>8, <2>11, <2>12, LetsGo
  <2>14. phone'[m] = q
    BY <1>mac, <2>1, <2>8 DEF Phones
  <2>15. Linked(g, phone') /\ g \in MacFields /\ (asks => Room(g))
    <3>1. CASE last
      <4> DEFINE y == [s.tbf[t] EXCEPT !.state = "Finished"]
      <4>1. /\ y \in TbfFields /\ y.ms = m /\ y.dir = "Down" /\ y.state = "Finished" /\ y.tfi = x.tfi
            /\ y.attached = s.tbf[t].attached /\ y.attached /\ y.msg = None /\ ~y.acked
        BY <2>5 DEF TbfFields
      <4>2. g = [s EXCEPT !.tbf[t] = y]
        BY <2>3, <3>1 DEF MacFields, g
      <4> HIDE DEF y
      <4>3. /\ g \in MacFields /\ g.tfi = s.tfi /\ g.ms = s.ms
            /\ g.tbf[t] = y /\ \A u \in Tbfs \ {t} : g.tbf[u] = s.tbf[u]
        BY <2>3, <4>1, <4>2 DEF MacFields
      <4>4. Sound(y) /\ y # None
        BY <2>1, <4>1, NoneAssumption DEF Sound, Active, Messages
      <4>5. \A u \in Tbfs : Renews(g.tbf[u], s.tbf[u])
        BY <2>5, <4>1, <4>3, <4>4 DEF Renews
      <4>6. Reached(g)
        BY <2>13, <4>1, <4>3, NoneAssumption DEF Linked, Reached
      <4>7. Polling(g)
        <5>1. ~Busy(y) /\ y.msg # "Data"
          BY <4>1, NoneAssumption DEF Busy, Active, Messages
        <5>2. QED
          BY <2>13, <4>3, <5>1 DEF Linked, Polling
      <4>8. Tied(g, phone')
        <5>1. Ties(y, q)
          BY <2>1, <2>11, <3>1, <4>1, NoneAssumption DEF Ties, Messages
        <5>2. QED
          BY <2>13, <2>14, <4>1, <4>3, <5>1 DEF Linked, Tied
      <4>9. Linked(g, phone')
        <5>1. PICK qh \in Phones : qh = phone'
          BY <1>mac
        <5>2. Linked(s, qh) /\ Tied(g, qh)
          BY <2>13, <4>8, <5>1
        <5>3. Linked(g, qh)
          BY <2>3, <4>3, <4>5, <4>6, <4>7, <5>2, Renewed
        <5>4. QED
          BY <5>1, <5>3
      <4>10. asks => Room(g)
        BY <2>1, <2>3, <2>8, <4>3 DEF Room
      <4>11. QED
        BY <4>3, <4>9, <4>10
    <3>2. CASE ~last
      <4>1. g = s
        BY <3>2 DEF g
      <4>2. asks => Room(s)
        BY <2>1, <2>3, <2>8 DEF Room
      <4>3. QED
        BY <2>3, <2>13, <4>1, <4>2
    <3>3. QED
      BY <3>1, <3>2
  <2>16. CASE ~asks
    BY <2>8, <2>15, <2>16
  <2>17. CASE asks
    <3>1. PICK qh \in Phones : qh = phone'
      BY <1>mac
    <3>2. Linked(g, qh) /\ Room(g) /\ g \in MacFields
      BY <2>15, <2>17, <3>1
    <3> HIDE DEF m
    <3>3. Linked(NewUpTBF(g, m), qh)
      BY <2>1, <3>2, NewUpLinked
    <3>4. QED
      BY <2>8, <2>17, <3>1, <3>3
  <2>18. QED
    BY <2>16, <2>17
<1>23. ASSUME NEW t \in Tbfs, PollPasses(t)
       PROVE  Kept
  BY <1>23, <1>mac, AnsweredLinked DEF PollPasses
<1>24. ASSUME NEW p \in Pdchs, NEW u \in Usfs, UsfExpires(p, u)
       PROVE  Kept
  <2>1. mac'.tbf = mac.tbf /\ mac'.tfi = mac.tfi /\ phone' = phone /\ KeepsChannels(mac', mac)
    BY <1>24, <1>mac DEF UsfExpires, MacFields, KeepsChannels
  <2>2. QED
    BY <1>mac, <2>1, SameLinked
<1>25. CASE UNCHANGED vars
  BY <1>25, <1>mac DEF vars
<1>26. QED
  BY <1>1, <1>2, <1>3, <1>4, <1>5, <1>6, <1>7, <1>8, <1>9, <1>10, <1>11, <1>12, <1>13, <1>14,
     <1>15, <1>16, <1>17, <1>18, <1>19, <1>20, <1>21, <1>22, <1>23, <1>24, <1>25 DEF Next, Directions

LEMMA AlwaysLinked == Spec => []LInv
<1>1. Init => LInv
  BY InitLinked
<1>2. LInv /\ [Next]_vars => LInv'
  BY StepLinked
<1>3. QED
  BY <1>1, <1>2, PTL DEF Spec

LEMMA LinkedIsNoCrossTalk == LInv => NoCrossTalk
<1> SUFFICES ASSUME LInv, NEW m \in Handsets, NEW dir \in Directions,
                    NEW f, f = phone[m][dir], f # None, mac.tfi[f] # None
             PROVE  mac.tbf[mac.tfi[f]] # None /\ mac.tbf[mac.tfi[f]].ms = m
  BY DEF NoCrossTalk, Directions
<1>1. PICK t \in Tbfs : Owns(mac.tbf[t], m, dir, f)
  BY DEF LInv, Linked, Claimed
<1>2. mac.tfi[f] = t
  BY <1>1 DEF LInv, Linked, Held, Owns
<1>3. QED
  BY <1>1, <1>2 DEF Owns

\* A TFI that a handset takes for its own is not given to another handset: the network holds
\* it until the handset has left, however acknowledgements, polls and assignments get lost and
\* whatever requests come in between (mtFreeTFI, T3169, T3195, mtCancel and RetryAfterRelease).
\* With Gaps, and however few USFs there are.
THEOREM NoCrossTalkAlways == Spec => []NoCrossTalk
BY AlwaysLinked, LinkedIsNoCrossTalk, PTL

(* No two TBFs have a TFI in common, be they of one handset or one dead.    *)
OneEach ==
    \A t, u \in Tbfs :
        /\ mac.tbf[t] # None /\ mac.tbf[u] # None
        /\ mac.tbf[t].tfi # None /\ mac.tbf[t].tfi = mac.tbf[u].tfi
        => t = u

\* Two TBFs never have the same TFI, whoever they are for, in whichever direction and though
\* one of them be dead: what has the TFI of a TBF reaches that TBF and no other (findDownlinkTFI,
\* findUplinkTFI).  With Gaps, and however few USFs there are.
THEOREM OneEachAlways == Spec => []OneEach
<1>1. LInv => OneEach
  BY DEF LInv, Linked, Held, OneEach
<1>2. QED
  BY <1>1, AlwaysLinked, PTL
-----------------------------------------------------------------------------
(* What the lists of TFIs and USFs say.  Tidy is inductive beside Linked, but*)
(* for Gaps and a shortage of USFs.                                         *)
(* No channel has fewer USFs than there are handsets that send.             *)
EnoughUsfs == IsFiniteSet(Uplinkers) /\ Cardinality(Uplinkers) <= Cardinality(Usfs)

(* The list of TFIs leads to nothing but TBFs that exist and hold them.     *)
Listed(s) == \A f \in Tfis, t \in Tbfs : s.tfi[f] = t => s.tbf[t] # None /\ s.tbf[t].tfi = f

(* A TBF does not hold a TFI without the rest that it needs.                *)
Whole(x) == /\ x.tfi # None => x.attached
            /\ x.dir = "Up" => x.ms \in Uplinkers

(* A handset has one USF of a channel at most, and only those that send do. *)
Sparse(s) ==
    \A p \in Pdchs, u \in Usfs : s.usf[p][u].ms # None =>
        /\ s.usf[p][u].ms \in Uplinkers
        /\ \A v \in Usfs : s.usf[p][v].ms = s.usf[p][u].ms => u = v

Tidy(s) == Listed(s) /\ Sparse(s) /\ \A t \in Tbfs : s.tbf[t] # None => Whole(s.tbf[t])

(* With enough of them there is always a USF to give.                       *)
LEMMA AlwaysUsf ==
  ASSUME EnoughUsfs, NEW s \in MacFields, Tidy(s), NEW p \in Pdchs, NEW m \in Uplinkers
  PROVE  HasUSF(s.usf[p], m)
<1> SUFFICES ASSUME ~HasUSF(s.usf[p], m) PROVE FALSE
  OBVIOUS
<1>1. \A u \in Usfs : s.usf[p][u].ms # None /\ s.usf[p][u].ms # m
  BY DEF HasUSF, Mine, Available
<1> DEFINE T == Uplinkers \ {m}
           own == [u \in Usfs |-> s.usf[p][u].ms]
<1>2. own \in [Usfs -> T] /\ \A u, v \in Usfs : own[u] = own[v] => u = v
  BY <1>1 DEF Tidy, Sparse
<1>3. IsFiniteSet(T) /\ Cardinality(T) = Cardinality(Uplinkers) - 1
  BY FS_RemoveElement DEF EnoughUsfs
<1>4. Cardinality(Usfs) \in Nat /\ Cardinality(Uplinkers) \in Nat /\ Cardinality(T) \in Nat
  BY <1>3, TbfAssumption, FS_CardinalityType DEF EnoughUsfs
<1>5. Cardinality(T) < Cardinality(Usfs)
  BY <1>3, <1>4 DEF EnoughUsfs
<1> HIDE DEF T, own
<1>6. own \in [Usfs -> T] /\ IsFiniteSet(T) /\ IsFiniteSet(Usfs)
  BY <1>2, <1>3, TbfAssumption
<1>7. \E u, v \in Usfs : u # v /\ own[u] = own[v]
  BY <1>5, <1>6, FS_PigeonHole
<1>8. QED
  BY <1>2, <1>7

(* Nothing is made, given or taken away, but for USFs that are freed.       *)
Keeps(y, x) ==
    \/ y = x
    \/ /\ y # None /\ x # None
       /\ y.ms = x.ms /\ y.dir = x.dir /\ y.tfi = x.tfi /\ y.attached = x.attached

Thins(r, s) == \A p \in Pdchs, u \in Usfs : r.usf[p][u].ms \in {s.usf[p][u].ms, None}

LEMMA KeepsTidy ==
  ASSUME NEW s, NEW r, Tidy(s), r.tfi = s.tfi, Thins(r, s), \A t \in Tbfs : Keeps(r.tbf[t], s.tbf[t])
  PROVE  Tidy(r)
<1>1. Listed(r)
  BY DEF Tidy, Listed, Keeps
<1>2. Sparse(r)
  <2> SUFFICES ASSUME NEW p \in Pdchs, NEW u \in Usfs, r.usf[p][u].ms # None
               PROVE  /\ r.usf[p][u].ms \in Uplinkers
                      /\ \A v \in Usfs : r.usf[p][v].ms = r.usf[p][u].ms => u = v
    BY DEF Sparse
  <2>1. r.usf[p][u].ms = s.usf[p][u].ms
    BY DEF Thins
  <2>2. \A v \in Usfs : r.usf[p][v].ms = r.usf[p][u].ms => s.usf[p][v].ms = s.usf[p][u].ms
    BY <2>1 DEF Thins
  <2>3. QED
    BY <2>1, <2>2 DEF Tidy, Sparse
<1>3. \A t \in Tbfs : r.tbf[t] # None => Whole(r.tbf[t])
  BY DEF Tidy, Keeps, Whole
<1>4. QED
  BY <1>1, <1>2, <1>3 DEF Tidy

LEMMA SetTidy ==
  ASSUME NEW s \in MacFields, Tidy(s), NEW t \in Tbfs, NEW y, Keeps(y, s.tbf[t])
  PROVE  Tidy([s EXCEPT !.tbf[t] = y])
<1> DEFINE r == [s EXCEPT !.tbf[t] = y]
<1>1. r.tfi = s.tfi /\ r.usf = s.usf /\ r.tbf[t] = y /\ \A u \in Tbfs \ {t} : r.tbf[u] = s.tbf[u]
  BY DEF MacFields
<1> HIDE DEF r
<1>2. Tidy(r)
  BY <1>1, KeepsTidy DEF Keeps, Thins
<1>3. QED
  BY <1>2 DEF r

LEMMA FreeUSFsThins ==
  ASSUME NEW s \in MacFields, NEW m \in Handsets, NEW reserve \in BOOLEAN
  PROVE  \A p \in Pdchs, u \in Usfs : FreeUSFs(s, m, reserve)[p][u].ms \in {s.usf[p][u].ms, None}
<1>1. ASSUME NEW l \in [Usfs -> [ms: Handsets \cup {None}, dead: BOOLEAN]], NEW u \in Usfs
      PROVE  FreeUSF(l, m, reserve)[u].ms \in {l[u].ms, None}
  BY DEF FreeUSF
<1>2. ASSUME NEW p \in Pdchs, NEW u \in Usfs
      PROVE  FreeUSFs(s, m, reserve)[p][u].ms \in {s.usf[p][u].ms, None}
  <2>1. s.usf[p] \in [Usfs -> [ms: Handsets \cup {None}, dead: BOOLEAN]]
    BY DEF MacFields
  <2>2. FreeUSFs(s, m, reserve)[p] \in {FreeUSF(s.usf[p], m, reserve), s.usf[p]}
    BY DEF FreeUSFs
  <2>3. QED
    BY <1>1, <2>1, <2>2
<1>3. QED
  BY <1>2

LEMMA CreateTidy ==
  ASSUME NEW s \in MacFields, Tidy(s), NEW m \in Handsets, NEW dir \in Directions, Room(s),
         dir = "Up" => m \in Uplinkers
  PROVE  Tidy(Create(s, m, dir))
<1> DEFINE c == Create(s, m, dir)
           new == NewTbf(m, dir)
<1>1. PICK t \in Tbfs :
           /\ s.tbf[t] = None
           /\ c = [s EXCEPT !.tbf[t] = NewTbf(m, dir)]
           /\ c.tbf[t] = new
           /\ \A u \in Tbfs \ {t} : c.tbf[u] = s.tbf[u]
           /\ c.tfi = s.tfi /\ c.ms = s.ms /\ c.usf = s.usf
  BY CreateShape
<1>2. new.ms = m /\ new.dir = dir /\ new.tfi = None
  BY NewIsSound
<1> HIDE DEF c, new
<1>3. Listed(c)
  BY <1>1 DEF Tidy, Listed
<1>4. \A u \in Tbfs : c.tbf[u] # None => Whole(c.tbf[u])
  BY <1>1, <1>2 DEF Tidy, Whole
<1>5. Tidy(c)
  BY <1>1, <1>3, <1>4 DEF Tidy, Sparse
<1>6. QED
  BY <1>5 DEF c

LEMMA NewUpTidy ==
  ASSUME NEW s \in MacFields, Tidy(s), NEW m \in Uplinkers, Room(s)
  PROVE  Tidy(NewUpTBF(s, m))
BY CreateTidy, TbfAssumption DEF NewUpTBF, Directions

LEMMA DeleteTidy ==
  ASSUME NEW s \in MacFields, Tidy(s), NEW t \in Tbfs, s.tbf[t] # None, ~s.tbf[t].attached
  PROVE  Tidy(Delete(s, t))
<1> DEFINE r == Delete(s, t)
<1>1. /\ r.tbf[t] = None /\ \A u \in Tbfs \ {t} : r.tbf[u] = s.tbf[u]
      /\ r.tfi = s.tfi /\ r.usf = s.usf
  BY DEF Delete, MacFields
<1> HIDE DEF r
<1>2. s.tbf[t].tfi = None
  BY DEF Tidy, Whole
<1>3. Listed(r)
  BY <1>1, <1>2, NoneAssumption DEF Tidy, Listed
<1>4. Tidy(r)
  BY <1>1, <1>3 DEF Tidy, Sparse
<1>5. QED
  BY <1>4 DEF r

LEMMA DetachTidy ==
  ASSUME NEW s \in MacFields, Tidy(s), NEW t \in Tbfs, s.tbf[t] # None, s.tbf[t].attached,
         s.tbf[t].tfi # None, Ch(s, t) # None
  PROVE  Tidy(Detach(s, t))
<1> DEFINE d == Detach(s, t)
           x == s.tbf[t]
<1>1. x \in TbfFields /\ x.ms \in Handsets /\ x.tfi \in Tfis
  BY DEF MacFields, TbfFields
<1>2. /\ d.tbf[t] # None /\ d.tbf[t].ms = x.ms /\ d.tbf[t].dir = x.dir /\ d.tbf[t].tfi = None
      /\ \A u \in Tbfs \ {t} : d.tbf[u] = s.tbf[u]
      /\ d.tfi = FreeTFI(s, t)
  BY DetachShape
<1>3. d.tfi[x.tfi] = None /\ \A f \in Tfis \ {x.tfi} : d.tfi[f] = s.tfi[f]
  BY <1>1, <1>2 DEF FreeTFI, MacFields
<1>4. \A p \in Pdchs, u \in Usfs : d.usf[p][u].ms \in {s.usf[p][u].ms, None}
  <2>1. d.usf \in {s.usf, FreeUSFs(s, x.ms, FALSE)}
    BY DEF Detach, MacFields
  <2>2. PICK m \in Handsets : m = x.ms
    BY <1>1
  <2>3. \A p \in Pdchs, u \in Usfs : FreeUSFs(s, m, FALSE)[p][u].ms \in {s.usf[p][u].ms, None}
    BY FreeUSFsThins
  <2> HIDE DEF d
  <2>4. QED
    BY <2>1, <2>2, <2>3
<1> HIDE DEF d
<1>5. Listed(d)
  <2> SUFFICES ASSUME NEW f \in Tfis, NEW u \in Tbfs, d.tfi[f] = u
               PROVE  d.tbf[u] # None /\ d.tbf[u].tfi = f
    BY DEF Listed
  <2>1. f # x.tfi /\ s.tfi[f] = u
    BY <1>3, NoneAssumption
  <2>2. s.tbf[u] # None /\ s.tbf[u].tfi = f
    BY <2>1 DEF Tidy, Listed
  <2>3. QED
    BY <1>2, <2>1, <2>2
<1>6. \A u \in Tbfs : d.tbf[u] # None => Whole(d.tbf[u])
  BY <1>2 DEF Tidy, Whole
<1>7. Sparse(d)
  <2> SUFFICES ASSUME NEW p \in Pdchs, NEW u \in Usfs, d.usf[p][u].ms # None
               PROVE  /\ d.usf[p][u].ms \in Uplinkers
                      /\ \A v \in Usfs : d.usf[p][v].ms = d.usf[p][u].ms => u = v
    BY DEF Sparse
  <2>1. d.usf[p][u].ms = s.usf[p][u].ms
    BY <1>4
  <2>2. \A v \in Usfs : d.usf[p][v].ms = d.usf[p][u].ms => s.usf[p][v].ms = s.usf[p][u].ms
    BY <1>4, <2>1
  <2>3. QED
    BY <2>1, <2>2 DEF Tidy, Sparse
<1>8. Tidy(d)
  BY <1>5, <1>6, <1>7 DEF Tidy
<1>9. QED
  BY <1>8 DEF d

LEMMA CancelTidy ==
  ASSUME NEW s \in MacFields, Tidy(s), NEW m \in Handsets, NEW T \in SUBSET Tbfs, \A t \in T : s.tbf[t] # None,
         NEW state \in {"Dead", "Release"}
  PROVE  Tidy(CancelAll(s, m, T, state))
<1> DEFINE c == CancelAll(s, m, T, state)
<1>1. /\ \A t \in T : /\ c.tbf[t] \in TbfFields
                      /\ c.tbf[t].ms = s.tbf[t].ms /\ c.tbf[t].dir = s.tbf[t].dir /\ c.tbf[t].tfi = s.tbf[t].tfi
                      /\ c.tbf[t].attached = s.tbf[t].attached
      /\ \A t \in Tbfs \ T : c.tbf[t] = s.tbf[t]
      /\ c.tfi = s.tfi
  BY CancelShape
<1>2. Thins(c, s)
  <2>1. c.usf \in {s.usf, FreeUSFs(s, m, TRUE)}
    BY DEF CancelAll, MacFields
  <2>2. QED
    BY <2>1, FreeUSFsThins DEF Thins
<1> HIDE DEF c
<1>3. \A t \in Tbfs : Keeps(c.tbf[t], s.tbf[t])
  BY <1>1, NoneAssumption DEF Keeps
<1>4. Tidy(c)
  BY <1>1, <1>2, <1>3, KeepsTidy
<1>5. QED
  BY <1>4 DEF c

LEMMA RetryTidy ==
  ASSUME NEW s \in MacFields, Tidy(s), NEW t \in Tbfs, s.tbf[t] # None, NEW rest, Retry(s, t, rest)
  PROVE  Tidy(mac')
<1> DEFINE d == [s EXCEPT !.tbf[t].state = "Dead"]
           y == [s.tbf[t] EXCEPT !.state = "Dead"]
<1>1. s.tbf[t] \in TbfFields /\ s.tbf[t].ms \in Handsets
  BY DEF MacFields, TbfFields
<1>2. /\ y \in TbfFields /\ y.ms = s.tbf[t].ms /\ y.dir = s.tbf[t].dir /\ y.tfi = s.tbf[t].tfi
      /\ y.attached = s.tbf[t].attached
  BY <1>1 DEF TbfFields
<1>3. d = [s EXCEPT !.tbf[t] = y]
  BY DEF MacFields
<1>4. mac' = d \/ (Room(s) /\ mac' = Create(d, s.tbf[t].ms, "Down"))
  BY DEF Retry
<1> HIDE DEF y, d
<1>5. Keeps(y, s.tbf[t])
  BY <1>2, NoneAssumption DEF Keeps
<1>6. Tidy(d)
  BY <1>3, <1>5, SetTidy
<1>7. d \in MacFields /\ d.tbf[t] = y /\ \A u \in Tbfs \ {t} : d.tbf[u] = s.tbf[u]
  BY <1>2, <1>3 DEF MacFields
<1>8. Room(s) => Room(d)
  BY <1>7 DEF Room
<1>9. PICK dir \in Directions : dir = "Down"
  BY DEF Directions
<1>10. CASE Room(s) /\ mac' = Create(d, s.tbf[t].ms, "Down")
  BY <1>1, <1>6, <1>7, <1>8, <1>9, <1>10, CreateTidy
<1>11. QED
  BY <1>4, <1>6, <1>10

LEMMA MessageTidy ==
  ASSUME NEW s \in MacFields, Tidy(s), NEW t \in Tbfs, s.tbf[t] # None,
         NEW k \in Messages \cup {"Queued", None}
  PROVE  Tidy([s EXCEPT !.tbf[t].msg = k])
<1> DEFINE y == [s.tbf[t] EXCEPT !.msg = k]
<1>1. s.tbf[t] \in TbfFields
  BY DEF MacFields
<1>2. /\ y.ms = s.tbf[t].ms /\ y.dir = s.tbf[t].dir /\ y.tfi = s.tbf[t].tfi
      /\ y.attached = s.tbf[t].attached /\ y \in TbfFields
  BY <1>1 DEF TbfFields
<1>3. [s EXCEPT !.tbf[t].msg = k] = [s EXCEPT !.tbf[t] = y]
  BY DEF MacFields
<1> HIDE DEF y
<1>4. Keeps(y, s.tbf[t])
  BY <1>2, NoneAssumption DEF Keeps
<1>5. Tidy([s EXCEPT !.tbf[t] = y])
  BY <1>4, SetTidy
<1>6. QED
  BY <1>3, <1>5

(* A handset is given a USF of a channel.                                   *)
LEMMA AllocateSparse ==
  ASSUME NEW l \in [Usfs -> [ms: Handsets \cup {None}, dead: BOOLEAN]], NEW m \in Uplinkers, HasUSF(l, m),
         \A u \in Usfs : l[u].ms # None =>
             l[u].ms \in Uplinkers /\ \A v \in Usfs : l[v].ms = l[u].ms => u = v
  PROVE  LET a == AllocateUSF(l, m)
         IN \A u \in Usfs : a[u].ms # None =>
              a[u].ms \in Uplinkers /\ \A v \in Usfs : a[v].ms = a[u].ms => u = v
<1> DEFINE a == AllocateUSF(l, m)
<1>1. CASE Mine(l, m) # {}
  <2>1. a = [u \in Usfs |-> IF l[u].ms = m THEN [ms |-> m, dead |-> FALSE] ELSE l[u]]
    BY <1>1 DEF AllocateUSF
  <2> HIDE DEF a
  <2>2. \A u \in Usfs : a[u].ms = l[u].ms
    BY <2>1
  <2>3. QED
    BY <2>2 DEF a
<1>2. CASE Mine(l, m) = {}
  <2>1. Min(Available(l)) \in Available(l)
    <3>1. Available(l) \subseteq Nat /\ Available(l) # {}
      BY <1>2, TbfAssumption DEF HasUSF, Available
    <3>2. QED
      BY <3>1, LeastOf
  <2>2. PICK w \in Usfs : w = Min(Available(l))
    BY <2>1 DEF Available
  <2>3. a = [l EXCEPT ![w].ms = m]
    BY <1>2, <2>2 DEF AllocateUSF
  <2> HIDE DEF a
  <2>4. a[w].ms = m /\ \A u \in Usfs \ {w} : a[u] = l[u]
    BY <2>3
  <2>5. \A u \in Usfs : l[u].ms # m
    BY <1>2 DEF Mine
  <2>6. QED
    BY <2>4, <2>5 DEF a
<1>3. QED
  BY <1>1, <1>2

LEMMA AttachTidy ==
  ASSUME EnoughUsfs, LInv, Tidy(mac), NEW t \in Tbfs, Attach(t)
  PROVE  Tidy(mac')
<1> DEFINE x == mac.tbf[t]
           m == mac.tbf[t].ms
<1>1. mac \in MacFields
  BY DEF LInv, IInv, Good
<1>2. /\ x \in TbfFields /\ x # None /\ x.state = "Ready" /\ m \in Handsets /\ ~x.attached /\ x.tfi = None
      /\ x.dir = "Up" => m \in Uplinkers
  <2>1. x # None /\ x.state = "Ready"
    BY DEF Attach, Is
  <2>2. x \in TbfFields /\ m \in Handsets
    BY <1>1, <2>1 DEF MacFields, TbfFields
  <2>3. Sound(x) /\ Whole(x)
    BY <2>1 DEF LInv, Linked, Tidy
  <2>4. QED
    BY <2>1, <2>2, <2>3 DEF Sound, Whole
<1>3. PICK p \in Pdchs, f \in Tfis \cup {None} :
        LET free == {e \in Tfis : mac.tfi[e] = None}
            up == mac.tbf[t].dir = "Up"
            done == f # None /\ (up => HasUSF(mac.usf[p], mac.tbf[t].ms))
        IN /\ IF mac.ms[mac.tbf[t].ms].ch # None THEN p = mac.ms[mac.tbf[t].ms].ch ELSE mac.ms[mac.tbf[t].ms].pacch \in {p, None}
           /\ IF mac.tbf[t].tfi # None THEN f = mac.tbf[t].tfi
              ELSE f \in (IF free = {} THEN {None} ELSE free)
           /\ mac' = [mac EXCEPT
                        !.ms[mac.tbf[t].ms] = [mac.ms[mac.tbf[t].ms] EXCEPT !.ch = p, !.pacch = p],
                        !.tfi = [e \in Tfis |-> IF e = f THEN t ELSE mac.tfi[e]],
                        !.usf[p] = IF up /\ done THEN AllocateUSF(mac.usf[p], mac.tbf[t].ms) ELSE @,
                        !.tbf[t] = [mac.tbf[t] EXCEPT !.tfi = f, !.attached = done,
                                                      !.state = IF done THEN "Waiting1" ELSE "Ready"]]
  BY Zenon DEF Attach
<1> DEFINE done == f # None /\ (x.dir = "Up" => HasUSF(mac.usf[p], m))
           y == [x EXCEPT !.tfi = f, !.attached = done, !.state = IF done THEN "Waiting1" ELSE "Ready"]
           a == IF x.dir = "Up" /\ done THEN AllocateUSF(mac.usf[p], m) ELSE mac.usf[p]
<1>4. mac'.tbf = [mac.tbf EXCEPT ![t] = y]
  BY <1>1, <1>3 DEF MacFields
<1>5. mac'.tfi = [e \in Tfis |-> IF e = f THEN t ELSE mac.tfi[e]]
  BY <1>1, <1>3 DEF MacFields
<1>6. mac'.usf = [mac.usf EXCEPT ![p] = a]
  BY <1>1, <1>3 DEF MacFields
<1>7. x.dir = "Up" => HasUSF(mac.usf[p], m)
  BY <1>1, <1>2, AlwaysUsf
<1>8. done = (f # None)
  BY <1>7
<1> HIDE DEF done
<1>9. /\ y.ms = m /\ y.dir = x.dir /\ y.tfi = f /\ y.attached = done /\ y # None
  <2>1. y.ms = m /\ y.dir = x.dir /\ y.tfi = f /\ y.attached = done
    BY <1>2 DEF TbfFields
  <2>2. y \in TbfFields
    BY <1>2, <1>8 DEF TbfFields, Active
  <2>3. QED
    BY <2>1, <2>2, NoneAssumption
<1> HIDE DEF y
<1>10. mac'.tbf[t] = y /\ \A u \in Tbfs \ {t} : mac'.tbf[u] = mac.tbf[u]
  BY <1>1, <1>4 DEF MacFields
<1>11. Listed(mac')
  <2> SUFFICES ASSUME NEW g \in Tfis, NEW u \in Tbfs, mac'.tfi[g] = u
               PROVE  mac'.tbf[u] # None /\ mac'.tbf[u].tfi = g
    BY DEF Listed
  <2>1. CASE g = f
    BY <1>5, <1>9, <1>10, <2>1
  <2>2. CASE g # f
    <3>1. mac.tbf[u] # None /\ mac.tbf[u].tfi = g
      BY <1>5, <2>2 DEF Tidy, Listed
    <3>2. u # t
      BY <1>2, <3>1, NoneAssumption
    <3>3. QED
      BY <1>10, <3>1, <3>2
  <2>3. QED
    BY <2>1, <2>2
<1>12. \A u \in Tbfs : mac'.tbf[u] # None => Whole(mac'.tbf[u])
  BY <1>2, <1>8, <1>9, <1>10 DEF Tidy, Whole
<1>13. Sparse(mac')
  <2>1. \A u \in Usfs : mac.usf[p][u].ms # None =>
             mac.usf[p][u].ms \in Uplinkers /\ \A v \in Usfs : mac.usf[p][v].ms = mac.usf[p][u].ms => u = v
    BY DEF Tidy, Sparse
  <2>2. \A u \in Usfs : a[u].ms # None =>
             a[u].ms \in Uplinkers /\ \A v \in Usfs : a[v].ms = a[u].ms => u = v
    <3>1. CASE x.dir = "Up" /\ done
      <4>1. PICK k \in Uplinkers : k = m
        BY <1>2, <3>1
      <4>2. PICK l \in [Usfs -> [ms: Handsets \cup {None}, dead: BOOLEAN]] : l = mac.usf[p]
        BY <1>1 DEF MacFields
      <4>3. HasUSF(l, k) /\ a = AllocateUSF(l, k)
        BY <1>7, <3>1, <4>1, <4>2
      <4>4. \A u \in Usfs : l[u].ms # None =>
                l[u].ms \in Uplinkers /\ \A v \in Usfs : l[v].ms = l[u].ms => u = v
        BY <2>1, <4>2
      <4> HIDE DEF a
      <4>5. QED
        BY <4>3, <4>4, AllocateSparse
    <3>2. CASE ~(x.dir = "Up" /\ done)
      BY <2>1, <3>2
    <3>3. QED
      BY <3>1, <3>2
  <2> HIDE DEF a
  <2>3. mac'.usf[p] = a /\ \A q \in Pdchs \ {p} : mac'.usf[q] = mac.usf[q]
    BY <1>1, <1>6 DEF MacFields
  <2>4. QED
    BY <2>2, <2>3 DEF Tidy, Sparse
<1>14. QED
  BY <1>11, <1>12, <1>13 DEF Tidy

LEMMA SameTidy ==
  ASSUME NEW s, NEW r, Tidy(s), r.tbf = s.tbf, r.tfi = s.tfi, r.usf = s.usf
  PROVE  Tidy(r)
BY KeepsTidy DEF Keeps, Thins

LEMMA SendTidy ==
  ASSUME NEW s \in MacFields, Tidy(s), NEW t \in Tbfs, s.tbf[t] # None, NEW kind \in Messages,
         NEW hears, NEW heard, Send(s, t, kind, hears, heard)
  PROVE  Tidy(mac')
BY MessageTidy DEF Send

LEMMA CancelOneTidy ==
  ASSUME NEW s \in MacFields, Tidy(s), NEW t \in Tbfs, s.tbf[t] # None
  PROVE  /\ Tidy(Cancel(s, t)) /\ Cancel(s, t) \in MacFields
         /\ \A u \in Tbfs : s.tbf[u] # None => Cancel(s, t).tbf[u] # None
<1>1. PICK T \in SUBSET Tbfs : T = {t}
  OBVIOUS
<1>2. PICK m \in Handsets : m = s.tbf[t].ms
  BY DEF MacFields, TbfFields
<1>3. PICK c : c = CancelAll(s, m, T, "Dead")
  OBVIOUS
<1>4. Cancel(s, t) = c
  BY <1>1, <1>2, <1>3 DEF Cancel
<1>5. \A u \in T : s.tbf[u] # None
  BY <1>1
<1>6. Tidy(c)
  BY <1>3, <1>5, CancelTidy
<1>7. c \in MacFields /\ \A u \in Tbfs \ T : c.tbf[u] = s.tbf[u]
  BY <1>3, <1>5, CancelShape
<1>8. \A u \in T : c.tbf[u] \in TbfFields
  BY <1>3, <1>5, CancelShape
<1>9. QED
  BY <1>4, <1>6, <1>7, <1>8, NoneAssumption

(* The counter of what is sent goes up.                                     *)
LEMMA CountTidy ==
  ASSUME NEW s \in MacFields, Tidy(s), NEW t \in Tbfs, s.tbf[t] # None, s.tbf[t].n + 1 \in Counts
  PROVE  /\ Tidy([s EXCEPT !.tbf[t].n = @ + 1])
         /\ [s EXCEPT !.tbf[t].n = @ + 1] \in MacFields
         /\ [s EXCEPT !.tbf[t].n = @ + 1].tbf[t] # None
<1> DEFINE z == [s.tbf[t] EXCEPT !.n = @ + 1]
<1>1. s.tbf[t] \in TbfFields
  BY DEF MacFields
<1>2. /\ z \in TbfFields /\ z.ms = s.tbf[t].ms /\ z.dir = s.tbf[t].dir /\ z.tfi = s.tbf[t].tfi
      /\ z.attached = s.tbf[t].attached
  BY <1>1 DEF TbfFields
<1>3. [s EXCEPT !.tbf[t].n = @ + 1] = [s EXCEPT !.tbf[t] = z]
  BY DEF MacFields
<1> HIDE DEF z
<1>4. z # None /\ Keeps(z, s.tbf[t])
  BY <1>2, NoneAssumption DEF Keeps
<1>5. Tidy([s EXCEPT !.tbf[t] = z])
  BY <1>4, SetTidy
<1>6. [s EXCEPT !.tbf[t] = z] \in MacFields /\ [s EXCEPT !.tbf[t] = z].tbf[t] = z
  BY <1>2 DEF MacFields
<1>7. QED
  BY <1>3, <1>4, <1>5, <1>6

LEMMA RachTidy ==
  ASSUME LInv, Tidy(mac), NEW m \in Handsets, NEW p \in Pdchs, Rach(m, p)
  PROVE  Tidy(mac')
<1> DEFINE s == [mac EXCEPT !.ms[m].t3168 = TRUE]
           downs == Those(s, m, "Down", Active)
           ups == Those(s, m, "Up", Transmitting)
           rest == [left EXCEPT !.asks = @ - 1]
<1>1. mac \in MacFields /\ mac.ms[m] \in MsFields
  BY DEF LInv, IInv, Good, MacFields
<1>2. s \in MacFields /\ s.tbf = mac.tbf /\ s.tfi = mac.tfi /\ s.usf = mac.usf
  <2>1. s.tbf = mac.tbf /\ s.tfi = mac.tfi /\ s.usf = mac.usf
    BY <1>1 DEF MacFields
  <2>2. [mac.ms[m] EXCEPT !.t3168 = TRUE] \in MsFields
    BY <1>1 DEF MsFields
  <2>3. s = [mac EXCEPT !.ms[m] = [mac.ms[m] EXCEPT !.t3168 = TRUE]]
    BY <1>1 DEF MacFields
  <2> HIDE DEF s
  <2>4. s \in MacFields
    BY <1>1, <2>2, <2>3 DEF MacFields
  <2>5. QED
    BY <2>1, <2>4
<1>3. m \in Uplinkers /\ Room(mac)
  BY DEF Rach, MayAsk
<1>4. IF downs = {} /\ ups = {}
      THEN /\ mac' = NewUpTBF([s EXCEPT !.ms[m].ch = None, !.ms[m].pacch = p], m)
           /\ left' = rest
      ELSE \E u \in IF ups = {} THEN {None} ELSE ups :
               LET c == IF u = None THEN s ELSE Cancel(s, u)
               IN IF downs \cap Those(s, m, "Down", Transmitting) = {} THEN mac' = c /\ left' = rest
                  ELSE \E d \in downs : Retry(Cancel(c, d), d, rest)
  BY DEF Rach
<1>5. \A u \in ups \cup downs : u \in Tbfs /\ s.tbf[u] # None
  BY DEF Those
<1> HIDE DEF s, downs, ups, rest
<1>6. Tidy(s)
  BY <1>2, SameTidy
<1>7. CASE downs = {} /\ ups = {}
  <2> DEFINE r == [s EXCEPT !.ms[m].ch = None, !.ms[m].pacch = p]
  <2>1. r.tbf = s.tbf /\ r.tfi = s.tfi /\ r.usf = s.usf
    BY <1>2 DEF MacFields
  <2>2. r \in MacFields
    <3>1. s.ms[m] \in MsFields
      BY <1>2 DEF MacFields
    <3>2. [s.ms[m] EXCEPT !.ch = None, !.pacch = p] \in MsFields
      BY <3>1 DEF MsFields
    <3>3. r = [s EXCEPT !.ms[m] = [s.ms[m] EXCEPT !.ch = None, !.pacch = p]]
      BY <1>2, <3>1 DEF MacFields, MsFields
    <3> HIDE DEF r
    <3>4. QED
      BY <1>2, <3>2, <3>3 DEF MacFields
  <2>3. mac' = NewUpTBF(r, m)
    BY <1>4, <1>7
  <2> HIDE DEF r
  <2>4. Tidy(r) /\ Room(r)
    BY <1>2, <1>3, <1>6, <2>1, SameTidy DEF Room
  <2>5. QED
    BY <1>3, <2>2, <2>3, <2>4, NewUpTidy
<1>8. CASE ~(downs = {} /\ ups = {})
  <2>1. PICK u \in IF ups = {} THEN {None} ELSE ups :
               LET c == IF u = None THEN s ELSE Cancel(s, u)
               IN IF downs \cap Those(s, m, "Down", Transmitting) = {} THEN mac' = c /\ left' = rest
                  ELSE \E d \in downs : Retry(Cancel(c, d), d, rest)
    BY <1>4, <1>8
  <2>2. PICK c : c = IF u = None THEN s ELSE Cancel(s, u)
    OBVIOUS
  <2>3. Tidy(c) /\ c \in MacFields /\ \A d \in downs : c.tbf[d] # None
    <3>1. CASE u = None
      BY <1>2, <1>5, <1>6, <2>2, <3>1
    <3>2. CASE u # None
      <4>1. u \in Tbfs /\ s.tbf[u] # None /\ c = Cancel(s, u)
        BY <1>5, <2>2, <3>2
      <4>2. QED
        BY <1>2, <1>5, <1>6, <4>1, CancelOneTidy
    <3>3. QED
      BY <3>1, <3>2
  <2>4. mac' = c \/ \E d \in downs : Retry(Cancel(c, d), d, rest)
    BY <2>1, <2>2
  <2>5. ASSUME NEW d \in downs, Retry(Cancel(c, d), d, rest)
        PROVE  Tidy(mac')
    <3>1. PICK e : e = Cancel(c, d)
      OBVIOUS
    <3>2. d \in Tbfs /\ c.tbf[d] # None
      BY <1>5, <2>3
    <3>3. Tidy(e) /\ e \in MacFields /\ e.tbf[d] # None
      BY <2>3, <3>1, <3>2, CancelOneTidy
    <3>4. Retry(e, d, rest)
      BY <2>5, <3>1
    <3>5. QED
      BY <3>2, <3>3, <3>4, RetryTidy
  <2>6. QED
    BY <2>3, <2>4, <2>5
<1>9. QED
  BY <1>7, <1>8

LEMMA AsksAgainTidy ==
  ASSUME LInv, Tidy(mac), NEW t \in Tbfs, AsksAgain(t)
  PROVE  Tidy(mac')
<1> DEFINE x == mac.tbf[t]
           acked == mac.tbf[t].state = "Final"
           y == [x EXCEPT !.msg = None, !.acked = acked]
<1>1. mac \in MacFields /\ x # None /\ x \in TbfFields
  BY DEF LInv, IInv, Good, MacFields, AsksAgain
<1>2. Room(mac) /\ x.ms \in Uplinkers
  BY DEF AsksAgain, MayAsk
<1>3. mac' = NewUpTBF([[mac EXCEPT !.tbf[t].msg = None] EXCEPT !.tbf[t].acked = acked], x.ms)
  BY DEF AsksAgain, Answered
<1>4. acked \in BOOLEAN
  OBVIOUS
<1> HIDE DEF acked
<1>5. [[mac EXCEPT !.tbf[t].msg = None] EXCEPT !.tbf[t].acked = acked] = [mac EXCEPT !.tbf[t] = y]
  BY <1>1 DEF MacFields
<1>6. /\ y \in TbfFields /\ y.ms = x.ms /\ y.dir = x.dir /\ y.tfi = x.tfi
      /\ y.attached = x.attached
  BY <1>1, <1>4 DEF TbfFields
<1> HIDE DEF y
<1>7. PICK r : r = [mac EXCEPT !.tbf[t] = y]
  OBVIOUS
<1>8. y # None /\ Keeps(y, mac.tbf[t])
  BY <1>1, <1>6, NoneAssumption DEF Keeps
<1>9. Tidy(r)
  BY <1>1, <1>7, <1>8, SetTidy
<1>10. r \in MacFields /\ r.tbf[t] = y /\ \A u \in Tbfs \ {t} : r.tbf[u] = mac.tbf[u]
  BY <1>1, <1>6, <1>7 DEF MacFields
<1>11. Room(r)
  BY <1>1, <1>2, <1>10 DEF Room
<1>12. PICK m \in Uplinkers : m = x.ms
  BY <1>2
<1>13. mac' = NewUpTBF(r, m)
  BY <1>3, <1>5, <1>7, <1>12
<1>14. QED
  BY <1>9, <1>10, <1>11, <1>13, NewUpTidy

(* The acknack is for the very TBF that polled, which holds the TFI.        *)
LEMMA AckNackTidy ==
  ASSUME LInv, Tidy(mac), NEW t \in Tbfs, AckNack(t)
  PROVE  Tidy(mac')
<1> DEFINE x == mac.tbf[t]
           m == mac.tbf[t].ms
           s == Answered(mac, t)
           r == mac.tfi[phone[m].Down]
           known == r # None /\ s.tbf[r] # None
<1>1. mac \in MacFields /\ mac \in Good /\ x # None /\ x \in TbfFields /\ m \in Handsets /\ x.msg = "Data"
  BY Zenon DEF LInv, IInv, Good, MacFields, TbfFields, AckNack
<1>2. r = t
  <2>1. Sound(x) /\ Ties(x, phone[m])
    BY <1>1 DEF LInv, Linked, Tied
  <2>2. x.tfi # None /\ phone[m].Down = x.tfi
    BY <1>1, <2>1, NoneAssumption DEF Sound, Ties, Messages
  <2>3. QED
    BY <1>1, <2>2 DEF LInv, Linked, Held
<1>3. /\ s \in MacFields /\ s.tbf[t] = [x EXCEPT !.msg = None]
      /\ \A u \in Tbfs \ {t} : s.tbf[u] = mac.tbf[u]
  <2>1. /\ s \in Good /\ s.tbf[t] = [x EXCEPT !.msg = None]
        /\ \A u \in Tbfs \ {t} : s.tbf[u] = mac.tbf[u]
    BY <1>1, AnsweredGood
  <2>2. QED
    BY <2>1 DEF Good
<1>4. s.tbf[t] \in TbfFields /\ s.tbf[t].ms = m /\ s.tbf[t] # None
  <2>1. s.tbf[t] \in TbfFields /\ s.tbf[t].ms = m
    BY <1>1, <1>3 DEF TbfFields
  <2>2. QED
    BY <2>1, NoneAssumption
<1>5. Tidy(s)
  BY <1>1, MessageTidy DEF Answered
<1>6. PICK last \in BOOLEAN, asks \in BOOLEAN :
            LET g == IF known /\ last THEN [s EXCEPT !.tbf[r].state = "Finished"] ELSE s
                ph == IF asks THEN Asking(phone[m], phone[m].ch) ELSE phone[m]
            IN /\ asks => MayAsk(m) /\ Room(mac)
               /\ mac' = IF known /\ asks THEN NewUpTBF(g, s.tbf[r].ms) ELSE g
               /\ phone' = [phone EXCEPT ![m] = IF last THEN Out(ph, "Down") ELSE ph]
               /\ left' = [left EXCEPT !.asks = IF asks THEN @ - 1 ELSE @]
  BY Zenon DEF AckNack
<1>7. known
  BY <1>2, <1>4, NoneAssumption
<1> DEFINE g == IF last THEN [s EXCEPT !.tbf[t].state = "Finished"] ELSE s
<1>8. /\ asks => m \in Uplinkers /\ Room(mac)
      /\ mac' = IF asks THEN NewUpTBF(g, m) ELSE g
  BY <1>2, <1>4, <1>6, <1>7 DEF MayAsk
<1> HIDE DEF s, r, known
<1>9. Tidy(g) /\ g \in MacFields /\ g.tbf[t] # None /\ \A u \in Tbfs \ {t} : g.tbf[u] = s.tbf[u]
  <2>1. CASE last
    <3> DEFINE y == [s.tbf[t] EXCEPT !.state = "Finished"]
    <3>1. /\ y \in TbfFields /\ y.ms = s.tbf[t].ms /\ y.dir = s.tbf[t].dir /\ y.tfi = s.tbf[t].tfi
          /\ y.attached = s.tbf[t].attached
      BY <1>4 DEF TbfFields
    <3>2. g = [s EXCEPT !.tbf[t] = y]
      BY <1>3, <2>1 DEF MacFields
    <3> HIDE DEF y, g
    <3>3. y # None /\ Keeps(y, s.tbf[t])
      BY <1>4, <3>1, NoneAssumption DEF Keeps
    <3>4. g \in MacFields /\ g.tbf[t] = y /\ \A u \in Tbfs \ {t} : g.tbf[u] = s.tbf[u]
      BY <1>3, <3>1, <3>2 DEF MacFields
    <3>5. Tidy(g)
      BY <1>3, <1>5, <3>2, <3>3, SetTidy
    <3>6. QED
      BY <3>3, <3>4, <3>5
  <2>2. CASE ~last
    BY <1>3, <1>4, <1>5, <2>2
  <2>3. QED
    BY <2>1, <2>2
<1> HIDE DEF g
<1>10. CASE asks
  <2>1. PICK k \in Uplinkers : k = m
    BY <1>8, <1>10
  <2>2. Room(g)
    BY <1>1, <1>3, <1>8, <1>9, <1>10 DEF Room
  <2>3. mac' = NewUpTBF(g, k)
    BY <1>8, <1>10, <2>1
  <2>4. QED
    BY <1>9, <2>2, <2>3, NewUpTidy
<1>11. QED
  BY <1>8, <1>9, <1>10

(* One TBF changes in what it does, not in what it holds.                   *)
LEMMA OneTidy ==
  ASSUME Tidy(mac), NEW t \in Tbfs, NEW y \in TbfFields, mac.tbf[t] # None,
         mac'.tbf[t] = y, \A u \in Tbfs \ {t} : mac'.tbf[u] = mac.tbf[u],
         mac'.tfi = mac.tfi, mac'.usf = mac.usf,
         y.ms = mac.tbf[t].ms, y.dir = mac.tbf[t].dir, y.tfi = mac.tbf[t].tfi,
         y.attached = mac.tbf[t].attached
  PROVE  Tidy(mac')
<1>1. y # None
  BY NoneAssumption
<1>2. PICK s : s = mac
  OBVIOUS
<1>3. PICK r : r = mac'
  OBVIOUS
<1>4. \A u \in Tbfs : Keeps(r.tbf[u], s.tbf[u])
  BY <1>1, <1>2, <1>3 DEF Keeps
<1>5. Tidy(s) /\ r.tfi = s.tfi /\ Thins(r, s)
  BY <1>2, <1>3 DEF Thins
<1>6. Tidy(r)
  BY <1>4, <1>5, KeepsTidy
<1>7. QED
  BY <1>3, <1>6

LEMMA StepTidy ==
  ASSUME ~Gaps, EnoughUsfs
  PROVE  LInv /\ Tidy(mac) /\ [Next]_vars => Tidy(mac')
<1> SUFFICES ASSUME LInv, Tidy(mac), [Next]_vars PROVE Tidy(mac')
  OBVIOUS
<1> DEFINE Kept == Tidy(mac')
<1>mac. mac \in Good /\ mac \in MacFields /\ Linked(mac, phone)
  BY DEF LInv, IInv, Good
<1>tbf. ASSUME NEW t \in Tbfs, mac.tbf[t] # None
        PROVE  mac.tbf[t] \in TbfFields /\ mac.tbf[t].ms \in Handsets /\ Sound(mac.tbf[t])
  BY <1>mac, <1>tbf DEF MacFields, TbfFields, Linked
<1>a. ASSUME NEW t \in Tbfs, mac.tbf[t] # None, mac' = Cancel(mac, t)
      PROVE  Kept
  BY <1>a, <1>mac, CancelOneTidy
<1>b. ASSUME NEW t \in Tbfs, mac.tbf[t] # None, mac.tbf[t].attached, Ch(mac, t) # None, mac' = Detach(mac, t)
      PROVE  Kept
  <2>1. mac.tbf[t].tfi # None
    BY <1>tbf, <1>b DEF Sound
  <2>2. QED
    BY <1>b, <1>mac, <2>1, DetachTidy
<1>1. ASSUME NEW m \in Handsets, Arrive(m)
      PROVE  Kept
  <2>1. PICK s : s = mac
    OBVIOUS
  <2>2. PICK r : r = mac'
    OBVIOUS
  <2>3. mac'.tbf = mac.tbf /\ mac'.tfi = mac.tfi /\ mac'.usf = mac.usf
    BY <1>1, <1>mac DEF Arrive, MacFields
  <2>4. QED
    BY <2>1, <2>2, <2>3, SameTidy
<1>2. ASSUME NEW m \in Handsets, StartDown(m)
      PROVE  Kept
  <2> DEFINE s == [mac EXCEPT !.ms[m].queue = @ - 1]
  <2>1. s.tbf = mac.tbf /\ s.tfi = mac.tfi /\ s.usf = mac.usf
    BY <1>mac DEF MacFields
  <2>2. s \in MacFields
    <3>1. mac.ms[m] \in MsFields /\ mac.ms[m].queue > 0
      BY <1>2, <1>mac DEF StartDown, MacFields
    <3>2. [mac.ms[m] EXCEPT !.queue = @ - 1] \in MsFields
      BY <3>1 DEF MsFields
    <3>3. s = [mac EXCEPT !.ms[m] = [mac.ms[m] EXCEPT !.queue = @ - 1]]
      BY <1>mac DEF MacFields
    <3> HIDE DEF s
    <3>4. QED
      BY <1>mac, <3>2, <3>3 DEF MacFields
  <2>3. mac' = Create(s, m, "Down") /\ Room(mac)
    BY <1>2 DEF StartDown
  <2> HIDE DEF s
  <2>4. Tidy(s) /\ Room(s)
    BY <2>1, <2>3, SameTidy DEF Room
  <2>5. PICK dir \in Directions : dir = "Down"
    BY DEF Directions
  <2>6. QED
    BY <2>2, <2>3, <2>4, <2>5, CreateTidy
<1>3. ASSUME NEW m \in Handsets, NonResponsive(m)
      PROVE  Kept
  <2>1. PICK T : T = Those(mac, m, "Up", Active) \cup Those(mac, m, "Down", Active)
    OBVIOUS
  <2>2. mac' = CancelAll(mac, m, T, "Dead")
    BY <1>3, <2>1 DEF NonResponsive
  <2>3. T \in SUBSET Tbfs /\ \A t \in T : mac.tbf[t] # None
    BY <2>1 DEF Those
  <2>4. QED
    BY <1>mac, <2>2, <2>3, CancelTidy
<1>4. ASSUME NEW m \in Handsets, GivesUp(m)
      PROVE  Kept
  BY <1>4 DEF GivesUp
<1>5. ASSUME NEW m \in Handsets, NEW dir \in {"Up", "Down"}, Leaves(m, dir)
      PROVE  Kept
  BY <1>5 DEF Leaves
<1>6. ASSUME NEW m \in Handsets, NEW p \in Pdchs, Rach(m, p)
      PROVE  Kept
  BY <1>6, RachTidy
<1>7. ASSUME NEW t \in Tbfs, Attach(t)
      PROVE  Kept
  BY <1>7, AttachTidy
<1>8. ASSUME NEW t \in Tbfs, SendAssignment(t)
      PROVE  Kept
  <2> DEFINE x == mac.tbf[t]
             m == mac.tbf[t].ms
  <2>1. x \in TbfFields /\ x # None /\ m \in Handsets /\ mac.ms[m] \in MsFields /\ x.state = "Waiting1"
    BY Zenon, <1>8, <1>mac, <1>tbf DEF SendAssignment, Served, Is, MacFields
  <2>2. CASE Exhausted(t)
    BY <1>8, <1>a, <2>1, <2>2 DEF SendAssignment
  <2>3. CASE ~Exhausted(t)
    <3>1. PICK expired \in BOOLEAN, t3193 \in BOOLEAN :
             LET s == [mac EXCEPT !.ms[x.ms].t3168 = @ /\ ~expired]
             IN /\ expired => mac.ms[x.ms].t3168
                /\ IF x.dir = "Up" /\ expired THEN mac' = Cancel(s, t) /\ UNCHANGED phone
                   ELSE /\ x.dir = "Down" => ~s.ms[x.ms].t3168
                        /\ IF OnCcch(t, t3193)
                           THEN /\ mac' = [s EXCEPT !.tbf[t].msg = "Queued"]
                                /\ UNCHANGED phone
                           ELSE Send([s EXCEPT !.tbf[t].n = @ + 1], t, "Assign",
                                     HearsAssignment(t), Assigned(phone[x.ms], t))
      BY Zenon, <1>8, <2>3 DEF SendAssignment
    <3> DEFINE s == [mac EXCEPT !.ms[m].t3168 = @ /\ ~expired]
    <3>2. s.tbf = mac.tbf /\ s.tfi = mac.tfi /\ s.usf = mac.usf
      BY <1>mac DEF MacFields
    <3>3. s \in MacFields
      <4>1. [mac.ms[m] EXCEPT !.t3168 = @ /\ ~expired] \in MsFields
        BY <2>1 DEF MsFields
      <4>2. s = [mac EXCEPT !.ms[m] = [mac.ms[m] EXCEPT !.t3168 = @ /\ ~expired]]
        BY <1>mac DEF MacFields
      <4> HIDE DEF s
      <4>3. QED
        BY Zenon, <1>mac, <4>1, <4>2 DEF MacFields
    <3>4. \/ mac' = Cancel(s, t)
          \/ mac' = [s EXCEPT !.tbf[t].msg = "Queued"]
          \/ Send([s EXCEPT !.tbf[t].n = @ + 1], t, "Assign", HearsAssignment(t), Assigned(phone[m], t))
      BY <3>1
    <3> HIDE DEF s
    <3>5. Tidy(s) /\ s.tbf[t] # None
      BY <2>1, <3>2, SameTidy
    <3>6. CASE mac' = Cancel(s, t)
      BY <3>3, <3>5, <3>6, CancelOneTidy
    <3>7. CASE mac' = [s EXCEPT !.tbf[t].msg = "Queued"]
      BY <3>3, <3>5, <3>7, MessageTidy
    <3>8. CASE Send([s EXCEPT !.tbf[t].n = @ + 1], t, "Assign", HearsAssignment(t), Assigned(phone[m], t))
      <4>1. s.tbf[t].n + 1 \in Counts
        BY <2>1, <2>3, <3>2, Limits, TbfAssumption DEF Exhausted, TbfFields
      <4>2. PICK r : r = [s EXCEPT !.tbf[t].n = @ + 1]
        OBVIOUS
      <4>3. Tidy(r) /\ r \in MacFields /\ r.tbf[t] # None
        BY <3>3, <3>5, <4>1, <4>2, CountTidy
      <4>4. Send(r, t, "Assign", HearsAssignment(t), Assigned(phone[m], t)) /\ "Assign" \in Messages
        BY <3>8, <4>2 DEF Messages
      <4>5. QED
        BY <4>3, <4>4, SendTidy
    <3>9. QED
      BY <3>4, <3>6, <3>7, <3>8
  <2>4. QED
    BY <2>2, <2>3
<1>9. ASSUME NEW t \in Tbfs, CcchSends(t)
      PROVE  Kept
  <2> DEFINE m == mac.tbf[t].ms
  <2>1. /\ mac.tbf[t] # None /\ "Assign" \in Messages
        /\ Send(mac, t, "Assign", phone[m].ch = None /\ Ch(mac, t) # None, Assigned(phone[m], t))
    BY <1>9 DEF CcchSends, Messages
  <2>2. QED
    BY <1>mac, <2>1, SendTidy
<1>10. ASSUME NEW t \in Tbfs, Begin(t)
       PROVE  Kept
  <2> DEFINE x == mac.tbf[t]
             y == [x EXCEPT !.state = "Transmit", !.acked = FALSE, !.n = 0]
  <2>1. x \in TbfFields /\ x # None
    BY <1>10, <1>tbf DEF Begin, Served, Is
  <2>2. y.ms = x.ms /\ y.dir = x.dir /\ y.tfi = x.tfi /\ y.attached = x.attached /\ y \in TbfFields
    BY <2>1, Limits DEF TbfFields, Active
  <2>3. mac'.tbf[t] = y /\ \A u \in Tbfs \ {t} : mac'.tbf[u] = mac.tbf[u]
    BY <1>10, <1>mac DEF Begin, MacFields
  <2>4. mac'.tfi = mac.tfi /\ mac'.usf = mac.usf
    BY <1>10, <1>mac DEF Begin, MacFields
  <2> HIDE DEF y
  <2>5. QED
    BY <2>1, <2>2, <2>3, <2>4, OneTidy
<1>11. ASSUME NEW t \in Tbfs, Poll(t)
       PROVE  Kept
  <2> DEFINE ph == phone[mac.tbf[t].ms]
  <2>1. /\ mac.tbf[t] # None /\ "Data" \in Messages
        /\ Send(mac, t, "Data", ph.ch = Ch(mac, t) /\ ph.Down = mac.tbf[t].tfi, ph)
    BY <1>11 DEF Poll, Served, Is, Messages
  <2>2. QED
    BY <1>mac, <2>1, SendTidy
<1>12. ASSUME NEW t \in Tbfs, DownFails(t)
       PROVE  Kept
  <2>1. mac.tbf[t] # None /\ mac.tbf[t].state = "Transmit" /\ mac.tbf[t].ms \in Handsets
    BY <1>12, <1>tbf DEF DownFails, Served, Is
  <2>2. PICK T \in SUBSET Tbfs : T = {t}
    OBVIOUS
  <2>3. mac' = CancelAll(mac, mac.tbf[t].ms, T, "Release")
    BY <1>12, <2>1, <2>2 DEF DownFails, CancelAndRelease, Transmitting
  <2>4. QED
    BY <1>mac, <2>1, <2>2, <2>3, CancelTidy
<1>13. ASSUME NEW t \in Tbfs, UpEnds(t)
       PROVE  Kept
  <2> DEFINE x == mac.tbf[t]
             y == [x EXCEPT !.state = "Final"]
  <2>1. x \in TbfFields /\ x # None
    BY <1>13, <1>tbf DEF UpEnds, Served, Is
  <2>2. y.ms = x.ms /\ y.dir = x.dir /\ y.tfi = x.tfi /\ y.attached = x.attached /\ y \in TbfFields
    BY <2>1 DEF TbfFields, Active
  <2>3. mac' = [mac EXCEPT !.tbf[t] = y]
    BY <1>13, <1>mac DEF UpEnds, MacFields
  <2> HIDE DEF y
  <2>4. QED
    BY <1>mac, <2>1, <2>2, <2>3, SetTidy, NoneAssumption DEF Keeps
<1>14. ASSUME NEW t \in Tbfs, UpFails(t)
       PROVE  Kept
  <2>1. PICK m \in {mac.tbf[t].ms} : mac' = CancelAll(mac, m, Those(mac, m, "Up", Active), "Dead")
    BY <1>14 DEF UpFails
  <2>2. m \in Handsets
    BY <1>14, <1>tbf DEF UpFails, Served, Is
  <2>3. PICK T : T = Those(mac, m, "Up", Active)
    OBVIOUS
  <2>4. T \in SUBSET Tbfs /\ \A u \in T : mac.tbf[u] # None
    BY <2>3 DEF Those
  <2>5. QED
    BY <1>mac, <2>1, <2>2, <2>3, <2>4, CancelTidy
<1>15. ASSUME NEW t \in Tbfs, SendFinal(t)
       PROVE  Kept
  <2> DEFINE x == mac.tbf[t]
             ph == phone[x.ms]
  <2>1. x \in TbfFields /\ x # None /\ x.state = "Final"
    BY <1>15, <1>tbf DEF SendFinal, Served, Is
  <2>2. CASE Exhausted(t)
    BY <1>15, <1>a, <2>1, <2>2 DEF SendFinal
  <2>3. CASE ~Exhausted(t) /\ x.acked
    <3> DEFINE y == [x EXCEPT !.state = "Finished", !.n = 0, !.acked = FALSE]
    <3>1. mac' = [mac EXCEPT !.tbf[t].state = "Finished", !.tbf[t].n = 0, !.tbf[t].acked = FALSE]
      BY <1>15, <2>3 DEF SendFinal
    <3>2. mac \in MacFields /\ x \in TbfFields
      BY <1>mac, <2>1
    <3>3. mac' = [mac EXCEPT !.tbf[t] = y]
      BY <3>1, <3>2 DEF MacFields
    <3>4. y.ms = x.ms /\ y.dir = x.dir /\ y.tfi = x.tfi /\ y.attached = x.attached /\ y \in TbfFields
      BY <2>1, Limits DEF TbfFields, Active
    <3> HIDE DEF y
    <3>5. QED
      BY <1>mac, <2>1, <3>3, <3>4, SetTidy, NoneAssumption DEF Keeps
  <2>4. CASE ~Exhausted(t) /\ ~x.acked
    <3>1. Send([mac EXCEPT !.tbf[t].n = @ + 1], t, "Final", ph.ch = Ch(mac, t) /\ ph.Up = x.tfi, Out(ph, "Up"))
      BY <1>15, <2>4 DEF SendFinal
    <3>2. x.n + 1 \in Counts
      BY <2>1, <2>4, Limits, TbfAssumption DEF Exhausted, TbfFields
    <3>3. PICK r : r = [mac EXCEPT !.tbf[t].n = @ + 1]
      OBVIOUS
    <3>4. Tidy(r) /\ r \in MacFields /\ r.tbf[t] # None
      BY <1>mac, <2>1, <3>2, <3>3, CountTidy
    <3>5. Send(r, t, "Final", ph.ch = Ch(mac, t) /\ ph.Up = x.tfi, Out(ph, "Up")) /\ "Final" \in Messages
      BY <3>1, <3>3 DEF Messages
    <3>6. QED
      BY <3>4, <3>5, SendTidy
  <2>5. QED
    BY <2>2, <2>3, <2>4
<1>16. ASSUME NEW t \in Tbfs, SendRelease(t)
       PROVE  Kept
  <2> DEFINE x == mac.tbf[t]
             ph == phone[x.ms]
  <2>1. /\ x \in TbfFields /\ x # None /\ x.state = "Release" /\ Ch(mac, t) # None /\ x.attached /\ x.tfi # None
        /\ x.ms \in Handsets
    <3>1. x \in TbfFields /\ x # None /\ x.state = "Release" /\ Ch(mac, t) # None /\ Sound(x) /\ x.ms \in Handsets
      BY <1>16, <1>tbf DEF SendRelease, Served, Is
    <3>2. QED
      BY <3>1 DEF Sound, Active
  <2>2. CASE x.acked
    <3>1. PICK d : d = Detach(mac, t)
      OBVIOUS
    <3>2. PICK s : s = [d EXCEPT !.tbf[t].acked = FALSE]
      OBVIOUS
    <3>3. Retry(s, t, left)
      BY <1>16, <2>2, <3>1, <3>2 DEF SendRelease
    <3>4. Tidy(d)
      BY <1>mac, <2>1, <3>1, DetachTidy
    <3>5. d \in MacFields /\ d.tbf[t] \in TbfFields
      BY <1>mac, <2>1, <3>1, DetachGood DEF Good
    <3> DEFINE y == [d.tbf[t] EXCEPT !.acked = FALSE]
    <3>6. /\ y \in TbfFields /\ y.ms = d.tbf[t].ms /\ y.dir = d.tbf[t].dir /\ y.tfi = d.tbf[t].tfi
          /\ y.attached = d.tbf[t].attached
      BY <3>5 DEF TbfFields
    <3>7. s = [d EXCEPT !.tbf[t] = y]
      BY <3>2, <3>5 DEF MacFields
    <3> HIDE DEF y
    <3>8. y # None /\ Keeps(y, d.tbf[t])
      BY <3>5, <3>6, NoneAssumption DEF Keeps
    <3>9. Tidy(s) /\ s \in MacFields /\ s.tbf[t] # None
      <4>1. Tidy(s)
        BY <3>4, <3>5, <3>7, <3>8, SetTidy
      <4>2. s \in MacFields /\ s.tbf[t] = y
        BY <3>5, <3>6, <3>7 DEF MacFields
      <4>3. QED
        BY <3>8, <4>1, <4>2
    <3>10. QED
      BY <3>3, <3>9, RetryTidy
  <2>3. CASE ~x.acked /\ Exhausted(t)
    <3>1. PICK e : e = Cancel(mac, t)
      OBVIOUS
    <3>2. Retry(e, t, left)
      BY <1>16, <2>3, <3>1 DEF SendRelease
    <3>3. Tidy(e) /\ e \in MacFields /\ e.tbf[t] # None
      BY <1>mac, <2>1, <3>1, CancelOneTidy
    <3>4. QED
      BY <3>2, <3>3, RetryTidy
  <2>4. CASE ~x.acked /\ ~Exhausted(t)
    <3>1. Send([mac EXCEPT !.tbf[t].n = @ + 1], t, "Release", ph.ch = Ch(mac, t) /\ ph.Down = x.tfi, Out(ph, "Down"))
      BY <1>16, <2>4 DEF SendRelease
    <3>2. x.n + 1 \in Counts
      BY <2>1, <2>4, Limits, TbfAssumption DEF Exhausted, TbfFields
    <3>3. PICK r : r = [mac EXCEPT !.tbf[t].n = @ + 1]
      OBVIOUS
    <3>4. Tidy(r) /\ r \in MacFields /\ r.tbf[t] # None
      BY <1>mac, <2>1, <3>2, <3>3, CountTidy
    <3>5. Send(r, t, "Release", ph.ch = Ch(mac, t) /\ ph.Down = x.tfi, Out(ph, "Down")) /\ "Release" \in Messages
      BY <3>1, <3>3 DEF Messages
    <3>6. QED
      BY <3>4, <3>5, SendTidy
  <2>5. QED
    BY <2>2, <2>3, <2>4
<1>17. ASSUME NEW t \in Tbfs, FinishedDetaches(t)
       PROVE  Kept
  <2>1. /\ mac.tbf[t] # None /\ mac.tbf[t].state = "Finished" /\ mac' = Detach(mac, t)
        /\ Ch(mac, t) # None /\ Sound(mac.tbf[t])
    BY <1>17, <1>tbf DEF FinishedDetaches, Served, Is
  <2>2. mac.tbf[t].attached
    BY <2>1 DEF Sound
  <2>3. QED
    BY <1>b, <2>1, <2>2
<1>18. ASSUME NEW t \in Tbfs, DeadExpires(t)
       PROVE  Kept
  <2>1. mac.tbf[t] # None /\ (mac.tbf[t].attached => Ch(mac, t) # None)
    BY <1>18 DEF DeadExpires, Is
  <2>2. CASE mac.tbf[t].attached
    BY <1>18, <1>b, <2>1, <2>2 DEF DeadExpires
  <2>3. CASE ~mac.tbf[t].attached
    BY <1>18, <1>mac, <2>1, <2>3, DeleteTidy DEF DeadExpires
  <2>4. QED
    BY <2>2, <2>3
<1>19. ASSUME NEW t \in Tbfs, Forget(t)
       PROVE  Kept
  <2>1. mac.tbf[t] # None /\ mac.tbf[t].state = "Deleting" /\ mac' = Delete(mac, t) /\ Sound(mac.tbf[t])
    BY <1>19, <1>tbf DEF Forget, Is
  <2>2. ~mac.tbf[t].attached
    BY <2>1 DEF Sound
  <2>3. QED
    BY <1>mac, <2>1, <2>2, DeleteTidy
<1>20. ASSUME NEW t \in Tbfs, Acknowledges(t)
       PROVE  Kept
  <2> DEFINE x == mac.tbf[t]
             acked == <<mac.tbf[t].msg, mac.tbf[t].state>> \in
                          {<<"Assign", "Waiting1">>, <<"Final", "Final">>, <<"Release", "Release">>}
             y == [x EXCEPT !.msg = None, !.acked = acked]
  <2>1. x \in TbfFields /\ x # None
    BY <1>20, <1>tbf DEF Acknowledges
  <2>2. mac' = [[mac EXCEPT !.tbf[t].msg = None] EXCEPT !.tbf[t].acked = acked]
    BY <1>20 DEF Acknowledges, Answered
  <2>3. acked \in BOOLEAN
    OBVIOUS
  <2> HIDE DEF acked
  <2>4. mac' = [mac EXCEPT !.tbf[t] = y]
    BY <1>mac, <2>2 DEF MacFields
  <2>5. /\ y \in TbfFields /\ y.ms = x.ms /\ y.dir = x.dir /\ y.tfi = x.tfi /\ y.attached = x.attached
    BY <2>1, <2>3 DEF TbfFields
  <2> HIDE DEF y
  <2>6. QED
    BY <1>mac, <2>1, <2>4, <2>5, SetTidy, NoneAssumption DEF Keeps
<1>21. ASSUME NEW t \in Tbfs, AsksAgain(t)
       PROVE  Kept
  BY <1>21, AsksAgainTidy
<1>22. ASSUME NEW t \in Tbfs, AckNack(t)
       PROVE  Kept
  BY <1>22, AckNackTidy
<1>23. ASSUME NEW t \in Tbfs, PollPasses(t)
       PROVE  Kept
  BY <1>23, <1>mac, MessageTidy DEF PollPasses, Answered
<1>24. ASSUME NEW p \in Pdchs, NEW u \in Usfs, UsfExpires(p, u)
       PROVE  Kept
  <2>1. PICK s \in MacFields : s = mac
    BY <1>mac
  <2>2. PICK r : r = mac'
    OBVIOUS
  <2>3. r = [s EXCEPT !.usf[p][u] = [ms |-> None, dead |-> FALSE]]
    BY <1>24, <2>1, <2>2 DEF UsfExpires
  <2>4. r.tbf = s.tbf /\ r.tfi = s.tfi /\ r.usf = [s.usf EXCEPT ![p][u] = [ms |-> None, dead |-> FALSE]]
    BY <2>3 DEF MacFields
  <2>5. Thins(r, s)
    BY <2>4 DEF Thins, MacFields
  <2>6. QED
    BY <2>1, <2>2, <2>4, <2>5, KeepsTidy DEF Keeps
<1>25. CASE UNCHANGED vars
  BY <1>25 DEF vars
<1>26. QED
  BY <1>1, <1>2, <1>3, <1>4, <1>5, <1>6, <1>7, <1>8, <1>9, <1>10, <1>11, <1>12, <1>13, <1>14,
     <1>15, <1>16, <1>17, <1>18, <1>19, <1>20, <1>21, <1>22, <1>23, <1>24, <1>25 DEF Next

LEMMA AlwaysTidy ==
  ASSUME ~Gaps, EnoughUsfs
  PROVE  Spec => [](LInv /\ Tidy(mac))
<1>1. Init => LInv /\ Tidy(mac)
  <2>1. ASSUME Init PROVE Tidy(mac)
    BY <2>1, NoneAssumption DEF Init, Tidy, Listed, Sparse
  <2>2. QED
    BY <2>1, InitLinked
<1>2. LInv /\ Tidy(mac) /\ [Next]_vars => LInv' /\ Tidy(mac)'
  BY StepLinked, StepTidy
<1>3. QED
  BY <1>1, <1>2, PTL DEF Spec

\* The list of TFIs and the TBFs agree, whatever became of the channels by way of which TFIs
\* are set and freed (propagateTFI): where a RACH does not come in a gap (see Gaps), and where
\* a channel has a USF for every handset that sends, without which a TBF that got a TFI and no
\* USF would take the TFI with it when it is deleted (mtDetach).
THEOREM TfisAgreeAlways ==
  ASSUME ~Gaps, EnoughUsfs
  PROVE  Spec => []TfisAgree
<1>1. LInv /\ Tidy(mac) => TfisAgree
  <2> SUFFICES ASSUME LInv, Tidy(mac), NEW f \in Tfis, NEW t \in Tbfs
               PROVE  /\ mac.tfi[f] = t => mac.tbf[t] # None /\ mac.tbf[t].tfi = f
                      /\ mac.tbf[t] # None /\ mac.tbf[t].attached /\ mac.tbf[t].tfi = f => mac.tfi[f] = t
    BY DEF TfisAgree
  <2>1. mac.tfi[f] = t => mac.tbf[t] # None /\ mac.tbf[t].tfi = f
    BY DEF Tidy, Listed
  <2>2. mac.tbf[t] # None /\ mac.tbf[t].tfi = f => mac.tfi[f] = t
    BY NoneAssumption DEF LInv, Linked, Held
  <2>3. QED
    BY <2>1, <2>2
<1>2. QED
  BY <1>1, AlwaysTidy, PTL
=============================================================================
