---------------------------- MODULE LAPDmService ----------------------------
(* LAPDm gives layer 3 the service that DataLink specifies.                *)
EXTENDS LAPDm

Heard(e) == LET a == Accepted(e) IN
            [i \in DOMAIN a |-> [link |-> a[i].link, n |-> a[i].n]]

Service == INSTANCE DataLink WITH
  Ends <- E, Other <- Peer,
  up <- {e \in E : InMultiframe(lap[e])},
  link <- link, sent <- tx, arrived <- reached,
  heard <- [e \in E |-> Heard(e)]

(* Every step of the two entities, their threads and the radio is a step   *)
(* of the data link service, or none: retransmissions, lost and repeated   *)
(* frames, collisions of establishment and release do not show above.      *)
ImplementsDataLink == Service!Spec
=============================================================================
