------------------------------- MODULE DataLink -------------------------------
(***************************************************************************)
(* What the data link layer promises layer 3, said without frames, timers  *)
(* or sequence numbers: while an end is up it hears a gapless prefix of    *)
(* what one link of the other end carries, and a sender sends nothing      *)
(* before what it sent last has been heard (k = 1).  LAPDm implements it.  *)
(***************************************************************************)
EXTENDS Integers, Sequences

CONSTANTS Ends, Other(_)    \* the two ends of the link, and each one's other

VARIABLES
  up,       \* the ends that take part
  link,     \* how many links each end has entered
  sent,     \* segments each end has sent on its current link
  arrived,  \* how many of these the other end has heard
  heard     \* what each end has heard since it entered, and not thrown away
vars == <<up, link, sent, arrived, heard>>

Item == [link : Nat, n : Nat]
TypeOK ==
  /\ up \in SUBSET Ends
  /\ link \in [Ends -> Nat] /\ sent \in [Ends -> Nat] /\ arrived \in [Ends -> Nat]
  /\ heard \in [Ends -> Seq(Item)]

Init ==
  /\ up = {}
  /\ link = [e \in Ends |-> 0]
  /\ sent = [e \in Ends |-> 0] /\ arrived = [e \in Ends |-> 0]
  /\ heard = [e \in Ends |-> <<>>]

(* A new link, possibly in place of one that e still took part in.         *)
Enter(e) ==
  /\ up' = up \cup {e}
  /\ link' = [link EXCEPT ![e] = @ + 1]
  /\ sent' = [sent EXCEPT ![e] = 0] /\ arrived' = [arrived EXCEPT ![e] = 0]
  /\ heard' = [heard EXCEPT ![e] = <<>>]

(* The end leaves, and throws away the head of an incomplete message.      *)
Leave(e) ==
  /\ up' = up \ {e}
  /\ \E k \in 0 .. Len(heard[e]) : heard' = [heard EXCEPT ![e] = SubSeq(@, 1, k)]
  /\ UNCHANGED <<link, sent, arrived>>

Transmit(e) ==
  /\ e \in up /\ arrived[e] = sent[e]
  /\ sent' = [sent EXCEPT ![e] = @ + 1]
  /\ UNCHANGED <<up, link, arrived, heard>>

(* The other end hears the segment sent last, if it is the next on the     *)
(* link it has heard so far.  An end that has entered anew may hear the    *)
(* first segment of a link once more: its sender cannot tell.              *)
Hear(e) ==
  LET o == Other(e) IN
  /\ o \in up /\ sent[e] = Len(heard[o]) + 1
  /\ heard[o] # <<>> => heard[o][1].link = link[e] /\ arrived[e] = sent[e] - 1
  /\ arrived' = [arrived EXCEPT ![e] = sent[e]]
  /\ heard' = [heard EXCEPT ![o] = Append(@, [link |-> link[e], n |-> sent[e]])]
  /\ UNCHANGED <<up, link, sent>>

Next == \E e \in Ends : Enter(e) \/ Leave(e) \/ Transmit(e) \/ Hear(e)
Spec == Init /\ [][Next]_vars
-----------------------------------------------------------------------------
(* What an end has heard is the beginning of one link of the other end,    *)
(* in order, nothing left out and nothing twice.                           *)
HeardInOrder == \A e \in Ends : \A i \in DOMAIN heard[e] :
                  heard[e][i] = [link |-> heard[e][1].link, n |-> i]

(* A sender is at most one segment ahead of what has arrived.              *)
OneAhead == \A e \in Ends : sent[e] - arrived[e] \in {0, 1}
=============================================================================
