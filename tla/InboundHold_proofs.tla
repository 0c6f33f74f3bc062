--------------------------- MODULE InboundHold_proofs ---------------------------
(***************************************************************************)
(* What the inbound bridge guarantees for every number of events: types,   *)
(* and the wire order of everything it dispatches.                         *)
(***************************************************************************)
EXTENDS InboundHold, SequenceTheorems, TLAPS

----------------------------------------------------------------------------
(* Sequences.                                                              *)

\* A concatenation splits where it was joined.
LEMMA Split ==
    ASSUME NEW S, NEW s \in Seq(S), NEW t \in Seq(S)
    PROVE  /\ SubSeq(s \o t, 1, Len(s)) = s
           /\ SubSeq(s \o t, Len(s) + 1, Len(s \o t)) = t
           /\ Len(s) \in 0 .. Len(s \o t)
<1>1. /\ Len(s) \in Nat /\ Len(t) \in Nat
      /\ s \o t \in Seq(S) /\ Len(s \o t) = Len(s) + Len(t)
  BY ConcatProperties, LenProperties
<1>2. SubSeq(s \o t, 1, Len(s)) = s
  <2>1. CASE Len(s) = 0
    <3>1. s = <<>>
      BY <2>1, EmptySeq
    <3>2. SubSeq(s \o t, 1, 0) = <<>>
      BY SubSeqEmpty
    <3> QED
      BY <2>1, <3>1, <3>2
  <2>2. CASE Len(s) # 0
    <3>1. SubSeq(s \o t, 1, Len(s)) = SubSeq(s, 1, Len(s))
      BY <1>1, <2>2, SubSeqOfConcat1
    <3> QED
      BY <3>1, SubSeqFull
  <2> QED
    BY <2>1, <2>2
<1>3. SubSeq(s \o t, Len(s) + 1, Len(s \o t)) = t
  <2>1. CASE Len(t) = 0
    <3>1. t = <<>>
      BY <2>1, EmptySeq
    <3>2. SubSeq(s \o t, Len(s) + 1, Len(s)) = <<>>
      BY <1>1, SubSeqEmpty
    <3> QED
      BY <1>1, <2>1, <3>1, <3>2
  <2>2. CASE Len(t) # 0
    <3>1. SubSeq(s \o t, Len(s) + 1, Len(s) + Len(t))
            = SubSeq(t, Len(s) + 1 - Len(s), Len(s) + Len(t) - Len(s))
      BY <1>1, <2>2, SubSeqOfConcat2
    <3>2. SubSeq(t, Len(s) + 1 - Len(s), Len(s) + Len(t) - Len(s)) = SubSeq(t, 1, Len(t))
      BY <1>1
    <3> QED
      BY <1>1, <3>1, <3>2, SubSeqFull
  <2> QED
    BY <2>1, <2>2
<1> QED
  BY <1>1, <1>2, <1>3

\* The head of one sequence moves to the end of the one ahead of it.
LEMMA MoveHead ==
    ASSUME NEW S, NEW s \in Seq(S), NEW t \in Seq(S), t # <<>>
    PROVE  Append(s, Head(t)) \o Tail(t) = s \o t
<1>1. /\ Head(t) \in S /\ Tail(t) \in Seq(S) /\ Len(Tail(t)) = Len(t) - 1
      /\ \A i \in 1 .. Len(Tail(t)) : Tail(t)[i] = t[i + 1]
  BY HeadTailProperties
<1>2. Head(t) = t[1]
  OBVIOUS
<1>3. /\ Append(s, Head(t)) \in Seq(S)
      /\ Len(Append(s, Head(t))) = Len(s) + 1
      /\ \A i \in 1 .. Len(s) : Append(s, Head(t))[i] = s[i]
      /\ Append(s, Head(t))[Len(s) + 1] = Head(t)
  BY <1>1, AppendProperties
<1>4. Len(s) \in Nat /\ Len(t) \in Nat /\ Len(t) # 0
  BY LenProperties, EmptySeq
<1> DEFINE left  == Append(s, Head(t)) \o Tail(t)
           right == s \o t
<1>5. /\ left \in Seq(S) /\ Len(left) = Len(s) + Len(t)
      /\ \A i \in 1 .. Len(s) + Len(t) :
            left[i] = IF i <= Len(s) + 1 THEN Append(s, Head(t))[i]
                                         ELSE Tail(t)[i - (Len(s) + 1)]
  BY <1>1, <1>3, <1>4, ConcatProperties
<1>6. /\ right \in Seq(S) /\ Len(right) = Len(s) + Len(t)
      /\ \A i \in 1 .. Len(s) + Len(t) : right[i] = IF i <= Len(s) THEN s[i] ELSE t[i - Len(s)]
  BY ConcatProperties
<1>7. ASSUME NEW i \in 1 .. Len(s) + Len(t)
      PROVE  left[i] = right[i]
  <2> HIDE DEF left, right
  <2>1. CASE i <= Len(s)
    BY <1>3, <1>4, <1>5, <1>6, <2>1
  <2>2. CASE i = Len(s) + 1
    <3>1. left[i] = Head(t)
      BY <1>3, <1>4, <1>5, <2>2
    <3>2. right[i] = t[1]
      BY <1>4, <1>6, <2>2
    <3> QED
      BY <1>2, <3>1, <3>2
  <2>3. CASE i > Len(s) + 1
    <3>1. left[i] = Tail(t)[i - (Len(s) + 1)]
      BY <1>4, <1>5, <2>3
    <3>2. i - (Len(s) + 1) \in 1 .. Len(Tail(t)) /\ i - (Len(s) + 1) + 1 = i - Len(s)
      BY <1>1, <1>4, <2>3
    <3>3. right[i] = t[i - Len(s)]
      BY <1>4, <1>6, <2>3
    <3> QED
      BY <1>1, <3>1, <3>2, <3>3
  <2> QED
    BY <1>4, <2>1, <2>2, <2>3
<1> QED
  BY <1>5, <1>6, <1>7, SeqEqual

----------------------------------------------------------------------------
(* Types.                                                                  *)

Holds == [holding : BOOLEAN, armed : BOOLEAN, held : Seq(Posted)]

\* A hold is a hold after an arm, after an event and when it is let go.
LEMMA HoldTypes ==
    /\ Hold \in Holds
    /\ \A h \in Holds : [h EXCEPT !.armed = TRUE] \in Holds
    /\ \A s \in Seq(Posted), b \in BOOLEAN :
          [holding |-> b, armed |-> FALSE, held |-> s] \in Holds
<1>1. <<>> \in Seq(Posted)
  BY EmptySeq
<1> QED
  BY <1>1 DEF Hold, Holds

\* What a post of any kind leaves.
LEMMA PostTypes ==
    ASSUME TypeOK, NEW kind \in Kinds, Post(kind)
    PROVE  /\ posts' \in 0 .. MaxPosts
           /\ [kind |-> kind, n |-> posts + 1] \in Posted
           /\ chan' = Append(chan, [kind |-> kind, n |-> posts + 1])
           /\ chan' \in Seq(Posted)
           /\ UNCHANGED appVars
<1>1. posts' = posts + 1 /\ posts < MaxPosts /\ posts \in 0 .. MaxPosts
  BY DEF Post, TypeOK
<1>2. posts' \in 0 .. MaxPosts /\ posts + 1 \in 1 .. MaxPosts
  BY <1>1, HoldBounds
<1>3. [kind |-> kind, n |-> posts + 1] \in Posted
  BY <1>2 DEF Posted
<1>4. chan' = Append(chan, [kind |-> kind, n |-> posts + 1]) /\ UNCHANGED appVars
  BY DEF Post
<1>5. chan' \in Seq(Posted)
  BY <1>3, <1>4, AppendProperties DEF TypeOK
<1> QED
  BY <1>2, <1>3, <1>4, <1>5

LEMMA ReadThreadTypes ==
    ASSUME TypeOK, ReadThread
    PROVE  TypeOK'
<1> USE DEF TypeOK, appVars, Hold
<1>1. CASE Authenticate
  <2>1. Post("Auth") /\ "Auth" \in Kinds
    BY <1>1 DEF Authenticate, Kinds
  <2> QED
    BY <1>1, <2>1, PostTypes DEF Authenticate
<1>2. CASE Connect
  <2>1. Post("Connected") /\ "Connected" \in Kinds
    BY <1>2 DEF Connect, Kinds
  <2> QED
    BY <1>2, <2>1, PostTypes DEF Connect
<1>3. CASE Packet
  <2>1. Post("Packet") /\ "Packet" \in Kinds
    BY <1>3 DEF Packet, Kinds
  <2> QED
    BY <1>3, <2>1, PostTypes DEF Packet
<1>4. CASE EndWorld
  <2>1. CASE Post("Refused")
    <3>1. "Refused" \in Kinds
      BY DEF Kinds
    <3> QED
      BY <1>4, <2>1, <3>1, PostTypes DEF EndWorld
  <2>2. CASE Post("LoggedOut")
    <3>1. "LoggedOut" \in Kinds
      BY DEF Kinds
    <3> QED
      BY <1>4, <2>2, <3>1, PostTypes DEF EndWorld
  <2> QED
    BY <1>4, <2>1, <2>2 DEF EndWorld
<1>5. CASE Teardown
  <2>1. Post("Gone") /\ "Gone" \in Kinds
    BY <1>5 DEF Teardown, Kinds
  <2> QED
    BY <1>5, <2>1, PostTypes DEF Teardown
<1>6. CASE Lose
  <2>1. Post("Lost") /\ "Lost" \in Kinds
    BY <1>6 DEF Lose, Kinds
  <2> QED
    BY <1>6, <2>1, PostTypes DEF Lose
<1> QED
  BY <1>1, <1>2, <1>3, <1>4, <1>5, <1>6 DEF ReadThread

\* The dispatch and the hold stay sequences of posted events through an admission.
LEMMA AdmitTypes ==
    ASSUME TypeOK, Admit
    PROVE  /\ arrived' \in Seq(Posted) /\ out' \in Seq(Posted)
           /\ hold' \in [holding : BOOLEAN, armed : BOOLEAN, held : Seq(Posted)]
           /\ ~hold'.holding => hold' = Hold
<1> DEFINE e == Head(arrived)
<1>1. e \in Posted /\ arrived' \in Seq(Posted)
  BY HeadTailProperties DEF Admit, TypeOK
<1> HIDE DEF e
<1>2. out \in Seq(Posted) /\ hold.held \in Seq(Posted)
  BY DEF TypeOK
<1>3. CASE AdmitEnd(e)
  <2>1. out \o hold.held \in Seq(Posted)
    BY <1>2, ConcatProperties
  <2>2. out' \in Seq(Posted)
    BY <1>1, <1>3, <2>1, AppendProperties DEF AdmitEnd
  <2> QED
    BY <1>1, <1>3, <2>2 DEF AdmitEnd, Hold
<1>4. CASE AdmitHeld(e)
  <2>1. Append(hold.held, e) \in Seq(Posted)
    BY <1>1, <1>2, AppendProperties
  <2> QED
    BY <1>1, <1>2, <1>4, <2>1 DEF AdmitHeld, TypeOK
<1>5. CASE AdmitPast(e)
  <2>1. out' \in Seq(Posted)
    BY <1>1, <1>2, <1>5, AppendProperties DEF AdmitPast
  <2> DEFINE connected == e.kind = "Connected"
  <2>2. hold = Hold
    BY <1>5 DEF AdmitPast, TypeOK
  <2>3. hold' = [Hold EXCEPT !.holding = connected]
    BY <1>5, <2>2 DEF AdmitPast
  <2>a. connected \in BOOLEAN
    OBVIOUS
  <2> HIDE DEF connected
  <2>4. CASE connected
    <3>1. hold' = [holding |-> TRUE, armed |-> FALSE, held |-> <<>>]
      BY <2>3, <2>4, <2>a DEF Hold
    <3>2. <<>> \in Seq(Posted)
      BY EmptySeq
    <3> QED
      BY <1>1, <2>1, <3>1, <3>2, HoldTypes DEF Holds
  <2>5. CASE ~connected
    <3>1. hold' = Hold
      BY <2>3, <2>5, <2>a DEF Hold
    <3> QED
      BY <1>1, <2>1, <3>1, HoldTypes DEF Holds
  <2> QED
    BY <2>4, <2>5
<1> QED
  BY <1>3, <1>4, <1>5 DEF Admit, e

LEMMA AppTypes ==
    ASSUME TypeOK, AppFrame
    PROVE  TypeOK'
<1>1. CASE Load
  <2>1. cover' \in 0 .. CoverFrames
    BY <1>1, HoldBounds DEF Load, TypeOK
  <2> QED
    BY <1>1, <2>1 DEF Load, TypeOK, readVars, Hold
<1>2. CASE Transition
  BY <1>2 DEF Transition, TypeOK, readVars, Hold, Clients
<1>3. CASE Drain
  <2>1. hold' \in [holding : BOOLEAN, armed : BOOLEAN, held : Seq(Posted)]
        /\ (~hold'.holding => hold' = Hold)
    BY <1>3, HoldTypes DEF Drain, TypeOK, Holds
  <2>2. out' \in Seq(Posted) /\ arrived' \in Seq(Posted) /\ chan' \in Seq(Posted)
    BY <1>3 DEF Drain, TypeOK
  <2> QED
    BY <1>3, <2>1, <2>2 DEF Drain, TypeOK
<1>4. CASE Admit
  <2>1. at' = "admit"
    BY <1>4 DEF Admit
  <2> QED
    BY <1>4, <2>1, AdmitTypes DEF Admit, TypeOK, readVars
<1>5. CASE Dispatch
  <2>1. handled' \in Seq(Posted)
    BY <1>5, ConcatProperties DEF Dispatch, TypeOK
  <2>2. next' \in Clients \cup {"none"}
    BY <1>5 DEF Dispatch, PolicyNexts, EdgesNext, Clients
  <2> QED
    BY <1>5, <2>1, <2>2 DEF Dispatch, TypeOK, readVars, Hold
<1> QED
  BY <1>1, <1>2, <1>3, <1>4, <1>5 DEF AppFrame

\* Types, for every number of events and every length of the cover: nothing is held and no arm
\* remembered without a hold (TypeOK).
THEOREM TypeCorrect == Spec => []TypeOK
<1>1. Init => TypeOK
  <2> SUFFICES ASSUME Init
               PROVE  TypeOK
    OBVIOUS
  <2>1. hold = Hold /\ hold \in [holding : BOOLEAN, armed : BOOLEAN, held : Seq(Posted)]
    BY HoldTypes DEF Init, Holds
  <2>2. <<>> \in Seq(Posted)
    BY EmptySeq
  <2>3. posts \in 0 .. MaxPosts /\ cover \in 0 .. CoverFrames
    BY HoldBounds DEF Init
  <2>4. /\ chan \in Seq(Posted) /\ arrived \in Seq(Posted)
        /\ out \in Seq(Posted) /\ handled \in Seq(Posted)
    BY <2>2 DEF Init
  <2> QED
    BY <2>1, <2>3, <2>4 DEF Init, TypeOK, Clients
<1>2. TypeOK /\ [Next]_vars => TypeOK'
  <2> SUFFICES ASSUME TypeOK, [Next]_vars
               PROVE  TypeOK'
    OBVIOUS
  <2>1. CASE Ask
    BY <2>1 DEF Ask, TypeOK, appVars, Hold
  <2>2. CASE UNCHANGED vars
    BY <2>2 DEF TypeOK, vars, readVars, appVars, Hold
  <2> QED
    BY <2>1, <2>2, ReadThreadTypes, AppTypes DEF Next
<1> QED
  BY <1>1, <1>2, PTL DEF Spec

----------------------------------------------------------------------------
(* Wire order.                                                             *)

\* Everything between the read thread and the handlers, in wire order.
Standing == out \o hold.held \o arrived \o chan

\* The sequences of Standing, and how they join.
LEMMA Parts ==
    ASSUME TypeOK
    PROVE  /\ out \in Seq(Posted) /\ hold.held \in Seq(Posted)
           /\ arrived \in Seq(Posted) /\ chan \in Seq(Posted)
           /\ out \o hold.held \in Seq(Posted)
           /\ out \o hold.held \o arrived \in Seq(Posted)
           /\ Standing \in Seq(Posted)
<1>1. /\ out \in Seq(Posted) /\ hold.held \in Seq(Posted)
      /\ arrived \in Seq(Posted) /\ chan \in Seq(Posted)
  BY DEF TypeOK
<1>2. out \o hold.held \in Seq(Posted)
  BY <1>1, ConcatProperties
<1>3. out \o hold.held \o arrived \in Seq(Posted)
  BY <1>1, <1>2, ConcatProperties
<1>4. Standing \in Seq(Posted)
  BY <1>1, <1>3, ConcatProperties DEF Standing
<1> QED
  BY <1>1, <1>2, <1>3, <1>4

\* Sequences of posted events join in any grouping.
LEMMA Grouping ==
    \A s, t, u \in Seq(Posted) : (s \o t) \o u = s \o (t \o u)
BY ConcatAssociative

\* A post joins the end.
LEMMA PostArrives ==
    ASSUME TypeOK, NEW kind \in Kinds, Post(kind)
    PROVE  InOrder!Arrive
<1> DEFINE e == [kind |-> kind, n |-> posts + 1]
           front == out \o hold.held \o arrived
<1>1. e \in Posted /\ chan' = Append(chan, e) /\ UNCHANGED appVars
  BY PostTypes
<1>2. front \in Seq(Posted) /\ chan \in Seq(Posted)
  BY Parts
<1>3. front' = front /\ handled' = handled
  BY <1>1 DEF appVars
<1> HIDE DEF e, front
<1>4. Append(chan, e) = chan \o <<e>>
  BY <1>1, <1>2, AppendIsConcat
<1>5. <<e>> \in Seq(Posted)
  BY <1>1
<1>6. front \o (chan \o <<e>>) = (front \o chan) \o <<e>>
  BY <1>2, <1>5, ConcatAssociative
<1>7. front \o chan \in Seq(Posted)
  BY <1>2, ConcatProperties
<1>8. (front \o chan) \o <<e>> = Append(front \o chan, e)
  BY <1>1, <1>7, AppendIsConcat
<1>9. front' \o chan' = Append(front \o chan, e)
  BY <1>1, <1>3, <1>4, <1>6, <1>8
<1> QED
  BY <1>1, <1>3, <1>9 DEF InOrder!Arrive, front

LEMMA ReadThreadArrives ==
    ASSUME TypeOK, ReadThread
    PROVE  InOrder!Arrive
<1>1. \E kind \in Kinds : Post(kind)
  BY DEF ReadThread, Authenticate, Connect, Packet, EndWorld, Teardown, Lose, Kinds
<1> QED
  BY <1>1, PostArrives

\* The drain moves the channel behind what is held, or the held events ahead of it.
LEMMA DrainKeeps ==
    ASSUME TypeOK, Drain
    PROVE  Standing' = Standing /\ handled' = handled
<1>1. /\ out = <<>> /\ arrived = <<>> /\ arrived' = chan /\ chan' = <<>>
      /\ handled' = handled
  BY DEF Drain, TypeOK
<1>2. \/ out' = hold.held /\ hold'.held = <<>>
      \/ out' = <<>> /\ hold'.held = hold.held
  BY DEF Drain, Hold, TypeOK
<1>3. hold.held \in Seq(Posted) /\ chan \in Seq(Posted)
  BY Parts
<1>4. hold.held \o chan \in Seq(Posted)
  BY <1>3, ConcatProperties
<1>5. Standing = hold.held \o chan
  BY <1>1, <1>3, ConcatEmptySeq DEF Standing
<1>6. Standing' = hold.held \o chan
  BY <1>1, <1>2, <1>3, <1>4, ConcatEmptySeq DEF Standing
<1> QED
  BY <1>1, <1>5, <1>6

\* An admission moves the head of what arrived to the end of what stands ahead of it.
LEMMA AdmitKeeps ==
    ASSUME TypeOK, Admit
    PROVE  Standing' = Standing /\ handled' = handled
<1> DEFINE e == Head(arrived)
           ahead == out \o hold.held
<1>1. arrived # <<>> /\ arrived' = Tail(arrived) /\ chan' = chan /\ handled' = handled
  BY DEF Admit, readVars
<1>2. /\ out \in Seq(Posted) /\ hold.held \in Seq(Posted) /\ arrived \in Seq(Posted)
      /\ ahead \in Seq(Posted)
  BY Parts
<1>3. e \in Posted
  BY <1>1, <1>2, HeadTailProperties
<1>4. ahead' = Append(ahead, e)
  <2>1. CASE AdmitEnd(e)
    <3>1. out' = Append(ahead, e) /\ hold'.held = <<>>
      BY <2>1 DEF AdmitEnd, Hold
    <3>2. Append(ahead, e) \in Seq(Posted)
      BY <1>2, <1>3, AppendProperties
    <3> HIDE DEF e
    <3> QED
      BY <3>1, <3>2, ConcatEmptySeq
  <2>2. CASE AdmitHeld(e)
    <3>1. out' = out /\ hold'.held = Append(hold.held, e)
      BY <2>2 DEF AdmitHeld, TypeOK
    <3> HIDE DEF e
    <3>2. <<e>> \in Seq(Posted)
      BY <1>3
    <3>3. Append(hold.held, e) = hold.held \o <<e>> /\ Append(ahead, e) = ahead \o <<e>>
      BY <1>2, <1>3, AppendIsConcat
    <3>4. out \o (hold.held \o <<e>>) = ahead \o <<e>>
      BY <1>2, <3>2, Grouping
    <3> QED
      BY <3>1, <3>3, <3>4
  <2>3. CASE AdmitPast(e)
    <3>1. hold.held = <<>> /\ hold'.held = <<>> /\ out' = Append(out, e)
      BY <2>3 DEF AdmitPast, TypeOK, Hold
    <3>2. Append(out, e) \in Seq(Posted)
      BY <1>2, <1>3, AppendProperties
    <3> HIDE DEF e
    <3>3. ahead = out /\ ahead' = Append(out, e)
      BY <1>2, <3>1, <3>2, ConcatEmptySeq
    <3> QED
      BY <3>3
  <2> QED
    BY <2>1, <2>2, <2>3 DEF Admit
<1>5. ahead' \o arrived' = ahead \o arrived
  BY <1>1, <1>2, <1>4, MoveHead
<1> QED
  BY <1>1, <1>5 DEF Standing

\* The dispatch delivers the front.
LEMMA DispatchDelivers ==
    ASSUME TypeOK, Dispatch
    PROVE  InOrder!Deliver
<1> DEFINE rest == hold.held \o arrived \o chan
<1>1. /\ arrived = <<>> /\ out' = <<>> /\ handled' = handled \o out
      /\ UNCHANGED <<hold, arrived, chan>>
  BY DEF Dispatch, readVars
<1>2. /\ out \in Seq(Posted) /\ hold.held \in Seq(Posted)
      /\ arrived \in Seq(Posted) /\ chan \in Seq(Posted)
  BY Parts
<1>3. hold.held \o arrived = hold.held
  BY <1>1, <1>2, ConcatEmptySeq
<1>4. rest \in Seq(Posted) /\ rest = hold.held \o chan
  BY <1>2, <1>3, ConcatProperties
<1>5. Standing = out \o rest
  <2>1. (out \o hold.held) \o arrived = out \o hold.held
    BY <1>1, <1>2, ConcatProperties, ConcatEmptySeq
  <2>2. (out \o hold.held) \o chan = out \o (hold.held \o chan)
    BY <1>2, Grouping
  <2> QED
    BY <1>4, <2>1, <2>2 DEF Standing
<1>6. Standing' = rest
  <2>1. <<>> \o hold.held = hold.held
    BY <1>2, ConcatEmptySeq
  <2> QED
    BY <1>1, <2>1 DEF Standing
<1> HIDE DEF rest
<1>7. /\ SubSeq(Standing, 1, Len(out)) = out
      /\ SubSeq(Standing, Len(out) + 1, Len(Standing)) = rest
      /\ Len(out) \in 0 .. Len(Standing)
  <2>1. \A s, t \in Seq(Posted) : /\ SubSeq(s \o t, 1, Len(s)) = s
                                  /\ SubSeq(s \o t, Len(s) + 1, Len(s \o t)) = t
                                  /\ Len(s) \in 0 .. Len(s \o t)
    BY Split
  <2> QED
    BY <1>2, <1>4, <1>5, <2>1
<1> QED
  BY <1>1, <1>6, <1>7 DEF InOrder!Deliver, Standing

\* The bridge dispatches every event off the wire once and in wire order, whatever the session
\* and the player do and however many events there are (KeepsWireOrder).
THEOREM WireOrderKept == Spec => KeepsWireOrder
<1>1. Init => InOrder!OrderInit
  BY ConcatEmptySeq DEF Init, InOrder!OrderInit, Hold
<1>2. TypeOK /\ [Next]_vars => [InOrder!Arrive \/ InOrder!Deliver]_(InOrder!orderVars)
  <2> SUFFICES ASSUME TypeOK, [Next]_vars
               PROVE  \/ InOrder!Arrive \/ InOrder!Deliver
                      \/ Standing' = Standing /\ handled' = handled
    BY DEF InOrder!orderVars, Standing
  <2>1. CASE ReadThread
    BY <2>1, ReadThreadArrives
  <2>2. CASE Load \/ Transition \/ Ask
    BY <2>2 DEF Load, Transition, Ask, readVars, appVars, Standing
  <2>3. CASE Drain
    BY <2>3, DrainKeeps
  <2>4. CASE Admit
    BY <2>4, AdmitKeeps
  <2>5. CASE Dispatch
    BY <2>5, DispatchDelivers
  <2>6. CASE UNCHANGED vars
    BY <2>6 DEF vars, readVars, appVars, Standing
  <2> QED
    BY <2>1, <2>2, <2>3, <2>4, <2>5, <2>6 DEF Next, AppFrame
<1> QED
  BY <1>1, <1>2, TypeCorrect, PTL DEF Spec, KeepsWireOrder, InOrder!OrderSpec
----------------------------------------------------------------------------
(* Behind the load.                                                        *)

\* The events not yet admitted, and at the end what the thread may post next.
Ahead     == arrived \o chan
Last      == Len(Ahead) + 1
Coming(i) == IF i < Last THEN Ahead[i].kind
             ELSE IF link = "world" THEN "Packet" ELSE "Connected"

\* A packet may be admitted before any world is entered: it belongs to the world entered last.
PacketFirst ==
    \E k \in 1 .. Last : Coming(k) = "Packet" /\ \A j \in 1 .. k - 1 : Coming(j) # "Connected"

\* A session's end ends its world: another packet takes another entry.
EndsWorld ==
    \A k, i \in 1 .. Last : i < k /\ Coming(i) \in Ends /\ Coming(k) = "Packet"
                            => \E j \in i + 1 .. k - 1 : Coming(j) = "Connected"

\* A world is entered once before its end.
OneWorld ==
    \A k, i \in 1 .. Last : i < k /\ Coming(i) = "Connected" /\ Coming(k) = "Connected"
                            => \E j \in i + 1 .. k - 1 : Coming(j) \in Ends

\* Nor is another entered before the end of the one held.
HeldWorld ==
    hold.holding => \A k \in 1 .. Last : Coming(k) = "Connected"
                                         => \E j \in 1 .. k - 1 : Coming(j) \in Ends

NoEntryHeld == \A i \in DOMAIN hold.held : hold.held[i].kind # "Connected"

NextTaken == at \in {"drain", "admit"} => next = "none"

\* With packets of an entered world to come and no hold, no load is owed and none will be.
LoadRan ==
    PacketFirst => hold.holding \/ (~load /\ next # "InWorld" /\ ~Some("Connected"))

\* The dispatch as it stands would keep HeldBehindLoad.
Covered ==
    \A i \in DOMAIN out : out[i].kind = "Packet" /\ Owed(i)
        => \E j \in i + 1 .. Len(out) : out[j].kind \in Ends

HoldInv == EndsWorld /\ OneWorld /\ HeldWorld /\ NoEntryHeld /\ NextTaken /\ LoadRan /\ Covered

LEMMA AheadType ==
    ASSUME TypeOK
    PROVE  /\ Ahead \in Seq(Posted) /\ Last \in Nat \ {0} /\ Len(Ahead) = Last - 1
           /\ \A i \in 1 .. Last : Coming(i) \in Kinds
<1>1. Ahead \in Seq(Posted)
  BY Parts, ConcatProperties DEF Ahead
<1>2. Len(Ahead) \in Nat /\ \A i \in 1 .. Len(Ahead) : Ahead[i] \in Posted
  BY <1>1, LenProperties, ElementOfSeq
<1> HIDE DEF Ahead
<1>3. Last \in Nat \ {0} /\ Len(Ahead) = Last - 1
  BY <1>2 DEF Last
<1>4. ASSUME NEW i \in 1 .. Last
      PROVE  Coming(i) \in Kinds
  <2>1. CASE i < Last
    <3>1. Ahead[i] \in Posted
      BY <1>2, <1>3, <2>1
    <3> QED
      BY <2>1, <3>1 DEF Coming, Posted
  <2>2. CASE ~(i < Last)
    BY <2>2 DEF Coming, Kinds
  <2> QED
    BY <2>1, <2>2
<1> QED
  BY <1>1, <1>3, <1>4

\* A post stands where anything could be posted, and makes a new end.
LEMMA AheadPosts ==
    ASSUME TypeOK, NEW kind \in Kinds, Post(kind)
    PROVE  /\ Last' = Last + 1
           /\ \A i \in 1 .. Last - 1 : Coming(i)' = Coming(i)
           /\ Coming(Last) = IF link = "world" THEN "Packet" ELSE "Connected"
           /\ \A i \in 1 .. Last' : i = Last => Coming(i)' = kind
           /\ \A i \in 1 .. Last' : i = Last + 1 =>
                 Coming(i)' = IF link' = "world" THEN "Packet" ELSE "Connected"
<1> DEFINE e == [kind |-> kind, n |-> posts + 1]
<1>1. e \in Posted /\ chan' = Append(chan, e) /\ arrived' = arrived
  BY PostTypes DEF appVars
<1>2. Ahead \in Seq(Posted) /\ Last \in Nat \ {0} /\ Len(Ahead) = Last - 1
  BY AheadType
<1>3. Ahead' = Append(Ahead, e)
  <2> HIDE DEF e
  <2>1. chan' = chan \o <<e>> /\ <<e>> \in Seq(Posted)
    BY <1>1, Parts, AppendIsConcat
  <2>2. arrived \o (chan \o <<e>>) = Ahead \o <<e>>
    BY <2>1, Parts, Grouping DEF Ahead
  <2>3. Ahead \o <<e>> = Append(Ahead, e)
    BY <1>1, <1>2, AppendIsConcat
  <2> QED
    BY <1>1, <2>1, <2>2, <2>3 DEF Ahead
<1>4. /\ Len(Ahead') = Last
      /\ \A i \in 1 .. Last - 1 : Ahead'[i] = Ahead[i]
      /\ Ahead'[Last] = e
  <2> HIDE DEF e
  <2> QED
    BY <1>1, <1>2, <1>3, AppendProperties
<1>5. Last' = Last + 1
  BY <1>2, <1>4 DEF Last
<1> HIDE DEF Ahead, Last
<1>6. \A i \in 1 .. Last - 1 : Coming(i)' = Coming(i)
  BY <1>2, <1>4, <1>5 DEF Coming
<1>7. \A i \in 1 .. Last' : i = Last => Coming(i)' = kind
  BY <1>2, <1>4, <1>5 DEF Coming
<1>8. \A i \in 1 .. Last' : i = Last + 1 =>
                 Coming(i)' = IF link' = "world" THEN "Packet" ELSE "Connected"
  BY <1>2, <1>5 DEF Coming
<1>9. Coming(Last) = IF link = "world" THEN "Packet" ELSE "Connected"
  BY <1>2 DEF Coming
<1> QED
  BY <1>5, <1>6, <1>7, <1>8, <1>9

\* What a post of the thread says of the world's standing before and after.
LEMMA PostsOfWorld ==
    ASSUME TypeOK, ReadThread
    PROVE  \E kind \in Kinds :
              /\ Post(kind)
              /\ \/ kind = "Auth" /\ link # "world" /\ link' # "world"
                 \/ kind = "Connected" /\ link # "world" /\ link' = "world"
                 \/ kind = "Packet" /\ link = "world" /\ link' = "world"
                 \/ kind \in Ends /\ link' # "world"
BY DEF ReadThread, Authenticate, Connect, Packet, EndWorld, Teardown, Lose, Kinds, Ends

LEMMA HoldInvPosts ==
    ASSUME TypeOK, HoldInv, ReadThread
    PROVE  HoldInv'
<1>1. PICK kind \in Kinds :
              /\ Post(kind)
              /\ \/ kind = "Auth" /\ link # "world" /\ link' # "world"
                 \/ kind = "Connected" /\ link # "world" /\ link' = "world"
                 \/ kind = "Packet" /\ link = "world" /\ link' = "world"
                 \/ kind \in Ends /\ link' # "world"
  BY PostsOfWorld
<1>2. Last \in Nat \ {0}
  BY AheadType
<1>3. /\ Last' = Last + 1
      /\ \A i \in 1 .. Last - 1 : Coming(i)' = Coming(i)
      /\ Coming(Last) = IF link = "world" THEN "Packet" ELSE "Connected"
      /\ \A i \in 1 .. Last' : i = Last => Coming(i)' = kind
      /\ \A i \in 1 .. Last' : i = Last + 1 =>
            Coming(i)' = IF link' = "world" THEN "Packet" ELSE "Connected"
  BY <1>1, AheadPosts
<1>4. UNCHANGED appVars
  BY <1>1, PostTypes
<1> DEFINE C(i) == Coming(i)
           D(i) == Coming(i)'
<1>5. "Connected" \notin Ends /\ "Packet" \notin Ends /\ "Auth" \notin Ends
  BY DEF Ends
<1>6. EndsWorld'
  <2> SUFFICES ASSUME NEW k \in 1 .. Last', NEW i \in 1 .. Last',
                      i < k, Coming(i)' \in Ends, Coming(k)' = "Packet"
               PROVE  \E j \in i + 1 .. k - 1 : Coming(j)' = "Connected"
    BY DEF EndsWorld, Ends
  <2>1. CASE k < Last
    <3>1. PICK j \in i + 1 .. k - 1 : Coming(j) = "Connected"
      BY <1>2, <1>3, <2>1 DEF HoldInv, EndsWorld
    <3> QED
      BY <1>2, <1>3, <2>1, <3>1
  <2>2. CASE k = Last
    <3>1. kind = "Packet" /\ link = "world"
      BY <1>1, <1>3, <1>5, <2>2
    <3>2. Coming(k) = "Packet" /\ Coming(i) \in Ends
      BY <1>2, <1>3, <2>2, <3>1
    <3>3. PICK j \in i + 1 .. k - 1 : Coming(j) = "Connected"
      BY <1>2, <1>3, <2>2, <3>2 DEF HoldInv, EndsWorld
    <3> QED
      BY <1>2, <1>3, <2>2, <3>3
  <2>3. CASE k = Last + 1
    <3>1. link' = "world" /\ kind \in {"Connected", "Packet"}
      BY <1>1, <1>3, <2>3
    <3>2. i # Last
      BY <1>3, <1>5, <3>1
    <3>3. i \in 1 .. Last - 1 /\ Coming(i) \in Ends
      BY <1>2, <1>3, <2>3, <3>2
    <3>4. CASE kind = "Connected"
      <4>1. Last \in i + 1 .. k - 1 /\ Last \in 1 .. Last'
        BY <1>2, <1>3, <2>3, <3>3
      <4> QED
        BY <1>3, <3>4, <4>1
    <3>5. CASE kind = "Packet"
      <4>1. Coming(Last) = "Packet" /\ Last \in 1 .. Last
        BY <1>1, <1>2, <1>3, <1>5, <3>5
      <4>2. PICK j \in i + 1 .. Last - 1 : Coming(j) = "Connected"
        BY <1>2, <3>3, <4>1 DEF HoldInv, EndsWorld
      <4> QED
        BY <1>2, <1>3, <2>3, <3>3, <4>2
    <3> QED
      BY <3>1, <3>4, <3>5
  <2> QED
    BY <1>2, <1>3, <2>1, <2>2, <2>3
<1>7. OneWorld'
  <2> SUFFICES ASSUME NEW k \in 1 .. Last', NEW i \in 1 .. Last',
                      i < k, Coming(i)' = "Connected", Coming(k)' = "Connected"
               PROVE  \E j \in i + 1 .. k - 1 : Coming(j)' \in Ends
    BY DEF OneWorld, Ends
  <2>1. CASE k < Last
    <3>1. PICK j \in i + 1 .. k - 1 : Coming(j) \in Ends
      BY <1>2, <1>3, <2>1 DEF HoldInv, OneWorld
    <3> QED
      BY <1>2, <1>3, <2>1, <3>1
  <2>2. CASE k = Last
    <3>1. kind = "Connected" /\ link # "world"
      BY <1>1, <1>3, <1>5, <2>2
    <3>2. Coming(k) = "Connected" /\ Coming(i) = "Connected"
      BY <1>2, <1>3, <2>2, <3>1
    <3>3. PICK j \in i + 1 .. k - 1 : Coming(j) \in Ends
      BY <1>2, <1>3, <2>2, <3>2 DEF HoldInv, OneWorld
    <3> QED
      BY <1>2, <1>3, <2>2, <3>3
  <2>3. CASE k = Last + 1
    <3>1. link' # "world" /\ (kind = "Auth" \/ kind \in Ends)
      BY <1>1, <1>3, <2>3
    <3>2. i # Last
      BY <1>3, <1>5, <3>1
    <3>3. i \in 1 .. Last - 1 /\ Coming(i) = "Connected"
      BY <1>2, <1>3, <2>3, <3>2
    <3>4. CASE kind \in Ends
      <4>1. Last \in i + 1 .. k - 1 /\ Last \in 1 .. Last'
        BY <1>2, <1>3, <2>3, <3>3
      <4> QED
        BY <1>3, <3>4, <4>1
    <3>5. CASE kind = "Auth"
      <4>1. Coming(Last) = "Connected" /\ Last \in 1 .. Last
        BY <1>1, <1>2, <1>3, <1>5, <3>5
      <4>2. PICK j \in i + 1 .. Last - 1 : Coming(j) \in Ends
        BY <1>2, <3>3, <4>1 DEF HoldInv, OneWorld
      <4> QED
        BY <1>2, <1>3, <2>3, <3>3, <4>2
    <3> QED
      BY <3>1, <3>4, <3>5
  <2> QED
    BY <1>2, <1>3, <2>1, <2>2, <2>3
<1>8. HeldWorld'
  <2> SUFFICES ASSUME hold.holding, NEW k \in 1 .. Last', Coming(k)' = "Connected"
               PROVE  \E j \in 1 .. k - 1 : Coming(j)' \in Ends
    BY <1>4 DEF HeldWorld, Ends, appVars
  <2>1. CASE k < Last
    <3>1. PICK j \in 1 .. k - 1 : Coming(j) \in Ends
      BY <1>2, <1>3, <2>1 DEF HoldInv, HeldWorld
    <3> QED
      BY <1>2, <1>3, <2>1, <3>1
  <2>2. CASE k = Last
    <3>1. Coming(k) = "Connected"
      BY <1>1, <1>2, <1>3, <1>5, <2>2
    <3>2. PICK j \in 1 .. k - 1 : Coming(j) \in Ends
      BY <1>2, <1>3, <2>2, <3>1 DEF HoldInv, HeldWorld
    <3> QED
      BY <1>2, <1>3, <2>2, <3>2
  <2>3. CASE k = Last + 1
    <3>1. link' # "world" /\ (kind = "Auth" \/ kind \in Ends)
      BY <1>1, <1>3, <2>3
    <3>2. CASE kind \in Ends
      <4>1. Last \in 1 .. k - 1 /\ Last \in 1 .. Last'
        BY <1>2, <1>3, <2>3
      <4> QED
        BY <1>3, <3>2, <4>1
    <3>3. CASE kind = "Auth"
      <4>1. Coming(Last) = "Connected" /\ Last \in 1 .. Last
        BY <1>1, <1>2, <1>3, <1>5, <3>3
      <4>2. PICK j \in 1 .. Last - 1 : Coming(j) \in Ends
        BY <1>2, <4>1 DEF HoldInv, HeldWorld
      <4> QED
        BY <1>2, <1>3, <2>3, <4>2
    <3> QED
      BY <3>1, <3>2, <3>3
  <2> QED
    BY <1>2, <1>3, <2>1, <2>2, <2>3
<1>9. PacketFirst' => PacketFirst
  <2> SUFFICES ASSUME NEW k \in 1 .. Last', Coming(k)' = "Packet",
                      \A j \in 1 .. k - 1 : Coming(j)' # "Connected"
               PROVE  PacketFirst
    BY DEF PacketFirst
  <2>1. CASE k < Last
    BY <1>2, <1>3, <2>1 DEF PacketFirst
  <2>2. CASE k = Last
    <3>1. Coming(k) = "Packet"
      BY <1>1, <1>2, <1>3, <1>5, <2>2
    <3> QED
      BY <1>2, <1>3, <2>2, <3>1 DEF PacketFirst
  <2>3. CASE k = Last + 1
    <3>1. link' = "world"
      BY <1>3, <2>3
    <3>2. Last \in 1 .. k - 1 /\ Last \in 1 .. Last' /\ Last \in 1 .. Last
      BY <1>2, <1>3, <2>3
    <3>3. kind = "Packet"
      BY <1>1, <1>3, <3>1, <3>2
    <3>4. Coming(Last) = "Packet"
      BY <1>1, <1>3, <1>5, <3>3
    <3>5. \A j \in 1 .. Last - 1 : Coming(j) # "Connected"
      BY <1>2, <1>3, <2>3
    <3> QED
      BY <3>2, <3>4, <3>5 DEF PacketFirst
  <2> QED
    BY <1>2, <1>3, <2>1, <2>2, <2>3
<1>10. LoadRan'
  BY <1>4, <1>9 DEF HoldInv, LoadRan, Some, appVars
<1>11. NoEntryHeld' /\ NextTaken' /\ Covered'
  BY <1>4 DEF HoldInv, NoEntryHeld, NextTaken, Covered, Owed, Ends, appVars
<1> QED
  BY <1>6, <1>7, <1>8, <1>10, <1>11 DEF HoldInv

\* Steps that leave the wire and its standing alone.
LEMMA AheadStays ==
    ASSUME Ahead' = Ahead, link' = link
    PROVE  /\ Last' = Last
           /\ \A i : Coming(i)' = Coming(i)
           /\ EndsWorld' = EndsWorld /\ OneWorld' = OneWorld
           /\ PacketFirst' = PacketFirst
           /\ hold'.holding = hold.holding => HeldWorld' = HeldWorld
<1>1. Last' = Last
  BY DEF Last
<1> HIDE DEF Ahead, Last
<1>2. \A i : Coming(i)' = Coming(i)
  BY <1>1 DEF Coming
<1> HIDE DEF Coming
<1> QED
  BY <1>1, <1>2 DEF EndsWorld, OneWorld, PacketFirst, HeldWorld, Ends

LEMMA HoldInvDrains ==
    ASSUME TypeOK, HoldInv, Drain
    PROVE  HoldInv'
<1>1. /\ arrived = <<>> /\ out = <<>> /\ next = "none" /\ arrived' = chan /\ chan' = <<>>
      /\ at' = "admit" /\ UNCHANGED <<link, next, load>>
  BY DEF Drain, TypeOK, HoldInv, NextTaken
<1>2. Ahead' = Ahead
  <2>1. chan \in Seq(Posted)
    BY Parts
  <2> QED
    BY <1>1, <2>1, ConcatEmptySeq DEF Ahead
<1>3. EndsWorld' /\ OneWorld' /\ PacketFirst' = PacketFirst
  BY <1>1, <1>2, AheadStays DEF HoldInv
<1>4. hold \in Holds
  BY DEF TypeOK, Holds
<1>5. CASE hold.holding /\ ~load
  <2>1. out' = hold.held /\ hold' = Hold
    BY <1>1, <1>5 DEF Drain
  <2>2. HeldWorld' /\ NoEntryHeld'
    BY <2>1 DEF Hold, HeldWorld, NoEntryHeld
  <2>3. ~Some("Connected")'
    BY <2>1 DEF HoldInv, NoEntryHeld, Some
  <2>4. LoadRan'
    BY <1>1, <1>5, <2>3 DEF LoadRan
  <2>5. \A i \in DOMAIN out' : ~Owed(i)'
    <3>1. hold.held \in Seq(Posted)
      BY Parts
    <3>2. Len(hold.held) \in Nat /\ DOMAIN hold.held = 1 .. Len(hold.held)
      BY <3>1, LenProperties
    <3>3. \A i \in DOMAIN out' : \A j \in 1 .. i - 1 : out'[j].kind # "Connected"
      BY <2>1, <3>2 DEF HoldInv, NoEntryHeld
    <3> QED
      BY <1>1, <1>5, <3>3 DEF Owed
  <2>6. Covered'
    BY <2>5 DEF Covered, Ends
  <2> QED
    BY <1>1, <1>3, <2>2, <2>4, <2>6 DEF HoldInv, NextTaken
<1>6. CASE ~(hold.holding /\ ~load)
  <2>1. out' = <<>> /\ hold'.holding = hold.holding /\ hold'.held = hold.held
    BY <1>1, <1>4, <1>6 DEF Drain, Holds
  <2>2. HeldWorld' = HeldWorld
    BY <1>1, <1>2, <2>1, AheadStays
  <2>3. LoadRan'
    BY <1>1, <1>3, <2>1 DEF HoldInv, LoadRan, Some
  <2>4. NoEntryHeld' /\ Covered' /\ NextTaken'
    BY <1>1, <2>1 DEF HoldInv, NoEntryHeld, Covered, NextTaken
  <2> QED
    BY <1>3, <2>2, <2>3, <2>4 DEF HoldInv
<1> QED
  BY <1>5, <1>6

\* An admission takes the first of what is to come.
LEMMA AheadAdmits ==
    ASSUME TypeOK, Admit
    PROVE  /\ Last' = Last - 1 /\ 1 \in 1 .. Last'
           /\ \A i \in 1 .. Last' : Coming(i)' = Coming(i + 1)
           /\ Coming(1) = Head(arrived).kind
           /\ Head(arrived) \in Posted
<1>1. arrived # <<>> /\ arrived' = Tail(arrived) /\ chan' = chan /\ link' = link
  BY DEF Admit, readVars
<1>2. arrived \in Seq(Posted) /\ chan \in Seq(Posted)
  BY Parts
<1>3. Ahead \in Seq(Posted) /\ Last \in Nat \ {0} /\ Len(Ahead) = Last - 1
  BY AheadType
<1>4. /\ Head(arrived) \in Posted /\ Tail(arrived) \in Seq(Posted)
      /\ Len(arrived) \in Nat \ {0}
      /\ Len(Tail(arrived)) = Len(arrived) - 1
      /\ Head(arrived) = arrived[1]
      /\ \A i \in 1 .. Len(Tail(arrived)) : Tail(arrived)[i] = arrived[i + 1]
  BY <1>1, <1>2, HeadTailProperties, LenProperties, EmptySeq
<1>5. Len(chan) \in Nat
  BY <1>2, LenProperties
<1>6. /\ Len(Ahead) = Len(arrived) + Len(chan)
      /\ \A i \in 1 .. Len(arrived) + Len(chan) :
            Ahead[i] = IF i <= Len(arrived) THEN arrived[i] ELSE chan[i - Len(arrived)]
  BY <1>2, ConcatProperties DEF Ahead
<1>7. /\ Len(Ahead') = Len(arrived) - 1 + Len(chan)
      /\ \A i \in 1 .. Len(arrived) - 1 + Len(chan) :
            Ahead'[i] = IF i <= Len(arrived) - 1 THEN Tail(arrived)[i]
                                                 ELSE chan[i - (Len(arrived) - 1)]
  BY <1>1, <1>2, <1>4, ConcatProperties DEF Ahead
<1>8. Last' = Last - 1 /\ 1 \in 1 .. Last'
  BY <1>3, <1>4, <1>5, <1>6, <1>7 DEF Last
<1> HIDE DEF Ahead, Last
<1>9. \A i \in 1 .. Last' : i < Last' => Ahead'[i] = Ahead[i + 1]
  <2> SUFFICES ASSUME NEW i \in 1 .. Last', i < Last'
               PROVE  Ahead'[i] = Ahead[i + 1]
    OBVIOUS
  <2>1. i \in 1 .. Len(arrived) - 1 + Len(chan) /\ i + 1 \in 1 .. Len(arrived) + Len(chan)
    BY <1>3, <1>4, <1>5, <1>6, <1>8
  <2>2. CASE i <= Len(arrived) - 1
    <3>1. Ahead'[i] = Tail(arrived)[i] /\ Ahead[i + 1] = arrived[i + 1]
      BY <1>4, <1>5, <1>6, <1>7, <2>1, <2>2
    <3>2. i \in 1 .. Len(Tail(arrived))
      BY <1>4, <2>1, <2>2
    <3> QED
      BY <1>4, <3>1, <3>2
  <2>3. CASE ~(i <= Len(arrived) - 1)
    <3>1. Ahead'[i] = chan[i - (Len(arrived) - 1)] /\ Ahead[i + 1] = chan[i + 1 - Len(arrived)]
      BY <1>4, <1>5, <1>6, <1>7, <2>1, <2>3
    <3>2. i - (Len(arrived) - 1) = i + 1 - Len(arrived)
      BY <1>4, <2>1
    <3> QED
      BY <3>1, <3>2
  <2> QED
    BY <2>2, <2>3
<1>10. \A i \in 1 .. Last' : Coming(i)' = Coming(i + 1)
  BY <1>1, <1>3, <1>8, <1>9 DEF Coming
<1>11. Coming(1) = Head(arrived).kind
  <2>1. Ahead[1] = arrived[1] /\ 1 < Last
    BY <1>3, <1>4, <1>5, <1>6
  <2> QED
    BY <1>4, <2>1 DEF Coming
<1> QED
  BY <1>4, <1>8, <1>10, <1>11

\* What an admission does to what is still to come.
LEMMA WireAdmits ==
    ASSUME TypeOK, HoldInv, Admit
    PROVE  /\ EndsWorld' /\ OneWorld'
           /\ Head(arrived).kind # "Connected" /\ PacketFirst' => PacketFirst
           /\ Head(arrived).kind \in Ends => ~PacketFirst'
           /\ Head(arrived).kind = "Packet" => PacketFirst
           /\ hold.holding => Head(arrived).kind # "Connected"
           /\ hold.holding /\ Head(arrived).kind \notin Ends /\ hold'.holding => HeldWorld'
           /\ Head(arrived).kind = "Connected" => HeldWorld'
<1> DEFINE kind == Head(arrived).kind
<1>1. /\ Last' = Last - 1 /\ 1 \in 1 .. Last'
      /\ \A i \in 1 .. Last' : Coming(i)' = Coming(i + 1)
      /\ Coming(1) = kind
  BY AheadAdmits
<1>2. Last \in Nat \ {0} /\ Last' \in Nat
  BY <1>1, AheadType
<1>3. 1 \in 1 .. Last
  BY <1>1, <1>2
<1>4. EndsWorld'
  <2> SUFFICES ASSUME NEW k \in 1 .. Last', NEW i \in 1 .. Last',
                      i < k, Coming(i)' \in Ends, Coming(k)' = "Packet"
               PROVE  \E j \in i + 1 .. k - 1 : Coming(j)' = "Connected"
    BY DEF EndsWorld, Ends
  <2>1. /\ i + 1 \in 1 .. Last /\ k + 1 \in 1 .. Last /\ i + 1 < k + 1
        /\ Coming(i + 1) \in Ends /\ Coming(k + 1) = "Packet"
    BY <1>1, <1>2
  <2>2. PICK j \in i + 1 + 1 .. k + 1 - 1 : Coming(j) = "Connected"
    BY <2>1 DEF HoldInv, EndsWorld
  <2>3. j - 1 \in i + 1 .. k - 1 /\ j - 1 \in 1 .. Last' /\ j - 1 + 1 = j
    BY <1>1, <1>2, <2>2
  <2> QED
    BY <1>1, <2>2, <2>3
<1>5. OneWorld'
  <2> SUFFICES ASSUME NEW k \in 1 .. Last', NEW i \in 1 .. Last',
                      i < k, Coming(i)' = "Connected", Coming(k)' = "Connected"
               PROVE  \E j \in i + 1 .. k - 1 : Coming(j)' \in Ends
    BY DEF OneWorld, Ends
  <2>1. /\ i + 1 \in 1 .. Last /\ k + 1 \in 1 .. Last /\ i + 1 < k + 1
        /\ Coming(i + 1) = "Connected" /\ Coming(k + 1) = "Connected"
    BY <1>1, <1>2
  <2>2. PICK j \in i + 1 + 1 .. k + 1 - 1 : Coming(j) \in Ends
    BY <2>1 DEF HoldInv, OneWorld
  <2>3. j - 1 \in i + 1 .. k - 1 /\ j - 1 \in 1 .. Last' /\ j - 1 + 1 = j
    BY <1>1, <1>2, <2>2
  <2> QED
    BY <1>1, <2>2, <2>3
<1>6. ASSUME kind # "Connected", PacketFirst'
      PROVE  PacketFirst
  <2>1. PICK k \in 1 .. Last' : /\ Coming(k)' = "Packet"
                                /\ \A j \in 1 .. k - 1 : Coming(j)' # "Connected"
    BY <1>6 DEF PacketFirst
  <2>2. k + 1 \in 1 .. Last /\ Coming(k + 1) = "Packet"
    BY <1>1, <1>2, <2>1
  <2>3. ASSUME NEW j \in 1 .. k + 1 - 1
        PROVE  Coming(j) # "Connected"
    <3>1. CASE j = 1
      BY <1>1, <1>6, <3>1
    <3>2. CASE j # 1
      <4>1. j - 1 \in 1 .. k - 1 /\ j - 1 \in 1 .. Last' /\ j - 1 + 1 = j
        BY <1>2, <2>1, <3>2
      <4> QED
        BY <1>1, <2>1, <4>1
    <3> QED
      BY <3>1, <3>2
  <2> QED
    BY <2>2, <2>3 DEF PacketFirst
<1>7. ASSUME kind \in Ends
      PROVE  ~PacketFirst'
  <2> SUFFICES ASSUME NEW k \in 1 .. Last', Coming(k)' = "Packet"
               PROVE  \E j \in 1 .. k - 1 : Coming(j)' = "Connected"
    BY DEF PacketFirst
  <2>1. /\ k + 1 \in 1 .. Last /\ 1 < k + 1
        /\ Coming(1) \in Ends /\ Coming(k + 1) = "Packet"
    BY <1>1, <1>2, <1>7
  <2>2. PICK j \in 1 + 1 .. k + 1 - 1 : Coming(j) = "Connected"
    BY <1>3, <2>1 DEF HoldInv, EndsWorld
  <2>3. j - 1 \in 1 .. k - 1 /\ j - 1 \in 1 .. Last' /\ j - 1 + 1 = j
    BY <1>1, <1>2, <2>2
  <2> QED
    BY <1>1, <2>2, <2>3
<1>8. kind = "Packet" => PacketFirst
  BY <1>1, <1>3 DEF PacketFirst
<1>9. hold.holding => kind # "Connected"
  BY <1>1, <1>3 DEF HoldInv, HeldWorld
<1>10. ASSUME hold.holding, kind \notin Ends, hold'.holding
       PROVE  HeldWorld'
  <2> SUFFICES ASSUME NEW k \in 1 .. Last', Coming(k)' = "Connected"
               PROVE  \E j \in 1 .. k - 1 : Coming(j)' \in Ends
    BY DEF HeldWorld, Ends
  <2>1. k + 1 \in 1 .. Last /\ Coming(k + 1) = "Connected"
    BY <1>1, <1>2
  <2>2. PICK j \in 1 .. k + 1 - 1 : Coming(j) \in Ends
    BY <1>10, <2>1 DEF HoldInv, HeldWorld
  <2>3. j # 1
    BY <1>1, <1>10, <2>2
  <2>4. j - 1 \in 1 .. k - 1 /\ j - 1 \in 1 .. Last' /\ j - 1 + 1 = j
    BY <1>1, <1>2, <2>2, <2>3
  <2> QED
    BY <1>1, <2>2, <2>4
<1>11. ASSUME kind = "Connected"
       PROVE  HeldWorld'
  <2> SUFFICES ASSUME NEW k \in 1 .. Last', Coming(k)' = "Connected"
               PROVE  \E j \in 1 .. k - 1 : Coming(j)' \in Ends
    BY DEF HeldWorld, Ends
  <2>1. /\ k + 1 \in 1 .. Last /\ 1 < k + 1
        /\ Coming(1) = "Connected" /\ Coming(k + 1) = "Connected"
    BY <1>1, <1>2, <1>11
  <2>2. PICK j \in 1 + 1 .. k + 1 - 1 : Coming(j) \in Ends
    BY <1>3, <2>1 DEF HoldInv, OneWorld
  <2>3. j - 1 \in 1 .. k - 1 /\ j - 1 \in 1 .. Last' /\ j - 1 + 1 = j
    BY <1>1, <1>2, <2>2
  <2> QED
    BY <1>1, <2>2, <2>3
<1> QED
  BY <1>4, <1>5, <1>6, <1>7, <1>8, <1>9, <1>10, <1>11

\* One more event keeps the packets ahead of it covered, and an end covers them all.
LEMMA CoveredAppends ==
    ASSUME NEW s \in Seq(Posted), NEW e \in Posted, out' = Append(s, e)
    PROVE  /\ Len(s) \in Nat /\ DOMAIN s = 1 .. Len(s)
           /\ Len(out') = Len(s) + 1 /\ DOMAIN out' = 1 .. Len(s) + 1
           /\ \A i \in 1 .. Len(s) : out'[i] = s[i]
           /\ \A i \in 1 .. Len(s) + 1 : i = Len(s) + 1 => out'[i] = e
BY AppendProperties, LenProperties

LEMMA HoldInvAdmits ==
    ASSUME TypeOK, HoldInv, Admit
    PROVE  HoldInv'
<1> DEFINE e == Head(arrived)
<1>1. /\ at = "admit" /\ at' = "admit" /\ UNCHANGED <<next, load>>
  BY DEF Admit
<1>2. /\ EndsWorld' /\ OneWorld'
      /\ e.kind # "Connected" /\ PacketFirst' => PacketFirst
      /\ e.kind \in Ends => ~PacketFirst'
      /\ e.kind = "Packet" => PacketFirst
      /\ hold.holding => e.kind # "Connected"
      /\ hold.holding /\ e.kind \notin Ends /\ hold'.holding => HeldWorld'
      /\ e.kind = "Connected" => HeldWorld'
  BY WireAdmits
<1>3. e \in Posted
  BY AheadAdmits
<1>4. out \in Seq(Posted) /\ hold.held \in Seq(Posted) /\ hold \in Holds
  BY DEF TypeOK, Holds
<1>5. "Connected" \notin Ends /\ "Packet" \notin Ends
  BY DEF Ends
<1>6. NextTaken'
  BY <1>1 DEF HoldInv, NextTaken
<1> HIDE DEF e
<1>7. CASE AdmitEnd(e)
  <2>1. e.kind \in Ends /\ hold' = Hold /\ out' = Append(out \o hold.held, e)
    BY <1>7 DEF AdmitEnd
  <2>2. out \o hold.held \in Seq(Posted)
    BY <1>4, ConcatProperties
  <2>3. HeldWorld' /\ NoEntryHeld' /\ LoadRan'
    BY <1>2, <2>1 DEF HeldWorld, NoEntryHeld, LoadRan, Hold
  <2>4. Covered'
    <3> DEFINE s == out \o hold.held
    <3> HIDE DEF s
    <3>1. s \in Seq(Posted) /\ out' = Append(s, e)
      BY <2>1, <2>2 DEF s
    <3>2. /\ Len(s) \in Nat /\ Len(out') = Len(s) + 1 /\ DOMAIN out' = 1 .. Len(s) + 1
          /\ \A i \in 1 .. Len(s) + 1 : i = Len(s) + 1 => out'[i] = e
      BY <1>3, <3>1, CoveredAppends
    <3> SUFFICES ASSUME NEW i \in DOMAIN out', out'[i].kind = "Packet"
                 PROVE  \E j \in i + 1 .. Len(out') : out'[j].kind \in Ends
      BY DEF Covered, Ends
    <3>3. i # Len(s) + 1
      BY <1>5, <2>1, <3>2
    <3>4. Len(s) + 1 \in i + 1 .. Len(out')
      BY <3>2, <3>3
    <3> QED
      BY <2>1, <3>2, <3>4
  <2> QED
    BY <1>2, <1>6, <2>3, <2>4 DEF HoldInv
<1>8. CASE AdmitHeld(e)
  <2>1. /\ e.kind \notin Ends /\ hold.holding /\ hold'.holding
        /\ hold'.held = Append(hold.held, e) /\ out' = out
    BY <1>4, <1>8 DEF AdmitHeld, Holds
  <2>2. NoEntryHeld'
    <3>1. /\ Len(hold.held) \in Nat /\ DOMAIN hold.held = 1 .. Len(hold.held)
          /\ DOMAIN hold'.held = 1 .. Len(hold.held) + 1
          /\ \A i \in 1 .. Len(hold.held) : hold'.held[i] = hold.held[i]
          /\ hold'.held[Len(hold.held) + 1] = e
      BY <1>3, <1>4, <2>1, AppendProperties, LenProperties
    <3> QED
      BY <1>2, <2>1, <3>1 DEF HoldInv, NoEntryHeld
  <2>3. HeldWorld' /\ LoadRan'
    BY <1>2, <2>1 DEF LoadRan
  <2>4. Covered'
    BY <1>1, <2>1 DEF HoldInv, Covered, Owed, Ends
  <2> QED
    BY <1>2, <1>6, <2>2, <2>3, <2>4 DEF HoldInv
<1>9. CASE AdmitPast(e)
  <2>1. /\ ~hold.holding /\ out' = Append(out, e) /\ hold'.held = hold.held
        /\ hold'.holding = (e.kind = "Connected")
    BY <1>4, <1>9 DEF AdmitPast, Holds
  <2>2. NoEntryHeld'
    BY <2>1 DEF HoldInv, NoEntryHeld
  <2>3. HeldWorld'
    BY <1>2, <2>1 DEF HeldWorld
  <2>4. /\ Len(out) \in Nat /\ DOMAIN out = 1 .. Len(out)
        /\ Len(out') = Len(out) + 1 /\ DOMAIN out' = 1 .. Len(out) + 1
        /\ \A i \in 1 .. Len(out) : out'[i] = out[i]
        /\ \A i \in 1 .. Len(out) + 1 : i = Len(out) + 1 => out'[i] = e
    BY <1>3, <1>4, <2>1, CoveredAppends
  <2>5. LoadRan'
    <3> SUFFICES ASSUME PacketFirst', e.kind # "Connected"
                 PROVE  ~load /\ next # "InWorld" /\ ~Some("Connected")'
      BY <1>1, <2>1 DEF LoadRan
    <3>1. ~load /\ next # "InWorld" /\ ~Some("Connected")
      BY <1>2, <2>1 DEF HoldInv, LoadRan
    <3> QED
      BY <2>4, <3>1 DEF Some
  <2>6. Covered'
    <3> SUFFICES ASSUME NEW i \in DOMAIN out', out'[i].kind = "Packet", Owed(i)'
                 PROVE  \E j \in i + 1 .. Len(out') : out'[j].kind \in Ends
      BY DEF Covered, Ends
    <3>1. CASE i = Len(out) + 1
      <4>1. e.kind = "Packet"
        BY <2>4, <3>1
      <4>2. ~load /\ ~Some("Connected")
        BY <1>2, <2>1, <4>1 DEF HoldInv, LoadRan
      <4>3. \A j \in 1 .. i - 1 : out'[j].kind # "Connected"
        BY <2>4, <3>1, <4>2 DEF Some
      <4> QED
        BY <1>1, <4>2, <4>3 DEF Owed
    <3>2. CASE i # Len(out) + 1
      <4>1. i \in DOMAIN out /\ out[i].kind = "Packet"
        BY <2>4, <3>2
      <4>2. Owed(i)
        BY <1>1, <2>4, <4>1 DEF Owed
      <4>3. PICK j \in i + 1 .. Len(out) : out[j].kind \in Ends
        BY <4>1, <4>2 DEF HoldInv, Covered
      <4>4. j \in i + 1 .. Len(out') /\ out'[j] = out[j]
        BY <2>4, <4>1, <4>3
      <4> QED
        BY <4>3, <4>4
    <3> QED
      BY <3>1, <3>2
  <2> QED
    BY <1>2, <1>6, <2>2, <2>3, <2>5, <2>6 DEF HoldInv
<1> QED
  BY <1>7, <1>8, <1>9 DEF Admit, e

\* A transition into the world needs its entry dispatched.
LEMMA HoldInvDispatches ==
    ASSUME TypeOK, HoldInv, Dispatch
    PROVE  HoldInv'
<1>1. /\ at' = "load" /\ out' = <<>>
      /\ UNCHANGED <<link, chan, arrived, load, hold>>
  BY DEF Dispatch, readVars
<1>2. next' = "InWorld" => Some("Connected")
  BY DEF Dispatch, EdgesNext, PolicyNexts
<1>3. Ahead' = Ahead
  BY <1>1 DEF Ahead
<1>4. EndsWorld' /\ OneWorld' /\ HeldWorld' /\ PacketFirst' = PacketFirst
  BY <1>1, <1>3, AheadStays DEF HoldInv
<1>5. LoadRan'
  BY <1>1, <1>2, <1>4 DEF HoldInv, LoadRan, Some
<1> QED
  BY <1>1, <1>4, <1>5 DEF HoldInv, NoEntryHeld, NextTaken, Covered

LEMMA HoldInvLoads ==
    ASSUME TypeOK, HoldInv, Load \/ Transition \/ Ask
    PROVE  HoldInv'
<1>1. /\ UNCHANGED <<link, chan, arrived, hold, out>> /\ out = <<>>
      /\ load' => load \/ next = "InWorld"
      /\ next' = next \/ next' = "none"
      /\ at' \in {"drain", "admit"} => next' = "none"
  BY DEF Load, Transition, Ask, readVars, appVars, TypeOK, HoldInv, NextTaken
<1>2. Ahead' = Ahead
  BY <1>1 DEF Ahead
<1>3. EndsWorld' /\ OneWorld' /\ HeldWorld' /\ PacketFirst' = PacketFirst
  BY <1>1, <1>2, AheadStays DEF HoldInv
<1>4. LoadRan'
  BY <1>1, <1>3 DEF HoldInv, LoadRan, Some
<1> QED
  BY <1>1, <1>3, <1>4 DEF HoldInv, NoEntryHeld, NextTaken, Covered

LEMMA HoldInvStays ==
    ASSUME HoldInv, UNCHANGED vars
    PROVE  HoldInv'
<1>1. Ahead' = Ahead /\ UNCHANGED vars
  BY DEF vars, readVars, appVars, Ahead
<1>2. EndsWorld' /\ OneWorld' /\ HeldWorld' /\ PacketFirst' = PacketFirst
  BY <1>1, AheadStays DEF HoldInv, vars, readVars, appVars
<1> QED
  BY <1>1, <1>2 DEF HoldInv, NoEntryHeld, NextTaken, LoadRan, Covered, Owed, Some, Ends,
                    vars, readVars, appVars

LEMMA HoldInvInit ==
    ASSUME Init
    PROVE  HoldInv
<1>1. Ahead = <<>> /\ Last = 1
  BY ConcatEmptySeq, EmptySeq DEF Init, Ahead, Last
<1>2. Coming(1) = "Connected" /\ 1 .. Last = {1}
  BY <1>1 DEF Init, Coming
<1>3. EndsWorld /\ OneWorld /\ ~PacketFirst
  BY <1>2 DEF EndsWorld, OneWorld, PacketFirst
<1> QED
  BY <1>3 DEF Init, HoldInv, HeldWorld, NoEntryHeld, NextTaken, LoadRan, Covered, Hold

\* The hold's invariant: no world packet can reach the dispatch while its load is owed.
THEOREM HoldInvHolds == Spec => []HoldInv
<1>1. TypeOK /\ HoldInv /\ [Next]_vars => HoldInv'
  BY HoldInvPosts, HoldInvDrains, HoldInvAdmits, HoldInvDispatches, HoldInvLoads, HoldInvStays
     DEF Next, AppFrame
<1> QED
  BY <1>1, HoldInvInit, TypeCorrect, PTL DEF Spec

\* No world packet is handled ahead of its entry's interface, whatever the session and the
\* player do, however long the cover and however many events (HeldBehindLoad).
THEOREM HeldBehindLoadHolds == Spec => HeldBehindLoad
<1>1. TypeOK /\ HoldInv /\ [Next]_vars =>
        [handled' # handled =>
         \A i \in DOMAIN out : out[i].kind = "Packet" /\ Owed(i)
             => \E j \in i + 1 .. Len(out) : out[j].kind \in Ends]_vars
  BY DEF HoldInv, Covered
<1> QED
  BY <1>1, TypeCorrect, HoldInvHolds, PTL DEF Spec, HeldBehindLoad

=============================================================================
