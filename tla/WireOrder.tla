------------------------------- MODULE WireOrder -------------------------------
(***************************************************************************)
(* What the inbound bridge promises its handlers: every event off the wire *)
(* is dispatched once, in wire order.  A dispatch may take any number of   *)
(* the events that stand, and an event may wait.                           *)
(***************************************************************************)
EXTENDS Integers, Sequences

CONSTANT Events

VARIABLES pending, delivered

orderVars == <<pending, delivered>>

OrderInit == pending = <<>> /\ delivered = <<>>

Arrive ==
    \E e \in Events : pending' = Append(pending, e) /\ UNCHANGED delivered

Deliver ==
    \E n \in 0 .. Len(pending) :
        /\ delivered' = delivered \o SubSeq(pending, 1, n)
        /\ pending' = SubSeq(pending, n + 1, Len(pending))

OrderSpec == OrderInit /\ [][Arrive \/ Deliver]_orderVars
=============================================================================
