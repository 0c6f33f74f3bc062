------------------------ MODULE WriterHandoff_proofs ------------------------
(* Proofs about WriterHandoff, for every number of links, entries, pings and *)
(* commands and every ring size.                                             *)
EXTENDS WriterHandoff, TLAPS

\* What Tail keeps of a sequence, as the channel steps need it.
LEMMA TailFacts ==
    ASSUME NEW S, NEW s \in Seq(S), s # <<>>
    PROVE  /\ Tail(s) \in Seq(S) /\ Len(s) \in Nat /\ Len(s) >= 1
           /\ Len(Tail(s)) = Len(s) - 1
           /\ \A i \in DOMAIN Tail(s) : i + 1 \in DOMAIN s /\ Tail(s)[i] = s[i + 1]
           /\ Head(s) = s[1] /\ 1 \in DOMAIN s /\ s[1] \in S
  OBVIOUS

\* What Append makes of a sequence.
LEMMA AppendFacts ==
    ASSUME NEW S, NEW s \in Seq(S), NEW e \in S
    PROVE  /\ Append(s, e) \in Seq(S) /\ Len(s) \in Nat
           /\ Len(Append(s, e)) = Len(s) + 1
           /\ \A i \in DOMAIN s : i \in DOMAIN Append(s, e) /\ Append(s, e)[i] = s[i]
           /\ \A i \in DOMAIN Append(s, e) : i \in DOMAIN s \/ i = Len(s) + 1
           /\ Append(s, e)[Len(s) + 1] = e
  OBVIOUS

\* A sample filed into a ring within its bound leaves a ring within its bound, whose
\* samples are the new one and some of the old.
LEMMA FiledFacts ==
    ASSUME NEW S, NEW ring \in Seq(S), NEW l \in S, Len(ring) <= RttRing
    PROVE  /\ Filed(ring, l) \in Seq(S)
           /\ Len(Filed(ring, l)) <= RttRing
           /\ \A i \in DOMAIN Filed(ring, l) :
                 Filed(ring, l)[i] = l \/ \E j \in DOMAIN ring : Filed(ring, l)[i] = ring[j]
  <1>1. CASE Len(ring) = RttRing
    <2>1. ring # <<>>  BY <1>1, BoundsAssumption
    <2>2. Tail(ring) \in Seq(S) /\ Len(Tail(ring)) = Len(ring) - 1
          /\ \A i \in DOMAIN Tail(ring) : i + 1 \in DOMAIN ring /\ Tail(ring)[i] = ring[i + 1]
      BY <2>1, TailFacts
    <2>3. Filed(ring, l) = Append(Tail(ring), l)  BY <1>1 DEF Filed
    <2> QED  BY <1>1, <2>2, <2>3, AppendFacts
  <1>2. CASE Len(ring) # RttRing
    <2>1. Filed(ring, l) = Append(ring, l)  BY <1>2 DEF Filed
    <2> QED  BY <1>2, <2>1, AppendFacts, BoundsAssumption
  <1> QED  BY <1>1, <1>2

\* What the three updates of the ping clock leave.
LEMMA ClockFacts ==
    ASSUME NEW c \in Clocks, Len(c.ring) <= RttRing
    PROVE  /\ Cleared(c) \in Clocks /\ Cleared(c).sequence = c.sequence
           /\ Cleared(c).ring = <<>> /\ Cleared(c).sent = FALSE
           /\ Len(Cleared(c).ring) <= RttRing
           /\ \A l \in Links, n \in 0..MaxPings :
                 /\ RecordPong(c, n, l) \in Clocks
                 /\ Len(RecordPong(c, n, l).ring) <= RttRing
                 /\ RecordPong(c, n, l).sequence = c.sequence
                 /\ RecordPong(c, n, l).sent = c.sent
                 /\ RecordPong(c, n, l).ring =
                       IF c.sent /\ c.sequence = n THEN Filed(c.ring, l) ELSE c.ring
  <1>1. Cleared(c) = [sequence |-> c.sequence, sent |-> FALSE, ring |-> <<>>]
    BY DEF Cleared, Clocks
  <1>2. <<>> \in Seq(Links) /\ Len(<<>>) <= RttRing
    BY BoundsAssumption
  <1>3. ASSUME NEW l \in Links, NEW n \in 0..MaxPings
        PROVE  /\ RecordPong(c, n, l) \in Clocks
               /\ Len(RecordPong(c, n, l).ring) <= RttRing
               /\ RecordPong(c, n, l).sequence = c.sequence
               /\ RecordPong(c, n, l).sent = c.sent
               /\ RecordPong(c, n, l).ring =
                     IF c.sent /\ c.sequence = n THEN Filed(c.ring, l) ELSE c.ring
    <2>1. Filed(c.ring, l) \in Seq(Links) /\ Len(Filed(c.ring, l)) <= RttRing
      BY FiledFacts DEF Clocks
    <2>2. CASE c.sent /\ c.sequence = n
      <3>1. RecordPong(c, n, l) =
               [sequence |-> c.sequence, sent |-> c.sent, ring |-> Filed(c.ring, l)]
        BY <2>2 DEF RecordPong, Clocks
      <3> QED  BY <2>1, <2>2, <3>1 DEF Clocks
    <2>3. CASE ~(c.sent /\ c.sequence = n)
      BY <2>3 DEF RecordPong
    <2> QED  BY <2>2, <2>3
  <1> QED  BY <1>1, <1>2, <1>3 DEF Clocks

----------------------------------------------------------------------------
(* Types.                                                                  *)

LEMMA TypeInit == Init => TypeOK /\ Numbered
  <1> SUFFICES ASSUME Init PROVE TypeOK /\ Numbered
    OBVIOUS
  <1>1. clock \in Clocks /\ Len(clock.ring) <= RttRing
    BY BoundsAssumption DEF Init, Clocks
  <1>2. reply \in Replies /\ writer \in Writers
    BY DEF Init, Replies, Gone, Writers
  <1>3. /\ swaps \in Seq(Swaps) /\ wire \in Seq(0..MaxPings)
        /\ cmds \in Seq(0..MaxEntries) /\ events \in Seq(Events)
    BY DEF Init
  <1>4. 0 \in 0..MaxLinks /\ 0 \in 0..MaxEntries
    BY BoundsAssumption
  <1> QED  BY <1>1, <1>2, <1>3, <1>4 DEF Init, TypeOK, Numbered

LEMMA TypeStep == TypeOK /\ Numbered /\ [Next]_vars => TypeOK' /\ Numbered'
  <1> SUFFICES ASSUME TypeOK, Numbered, [Next]_vars PROVE TypeOK' /\ Numbered'
    OBVIOUS
  <1> USE BoundsAssumption DEF Numbered
  <1>c. /\ Cleared(clock) \in Clocks /\ Len(Cleared(clock).ring) <= RttRing
        /\ \A l \in Links, n \in 0..MaxPings :
              /\ RecordPong(clock, n, l) \in Clocks
              /\ Len(RecordPong(clock, n, l).ring) <= RttRing
    <2>1. clock \in Clocks /\ Len(clock.ring) <= RttRing  BY DEF TypeOK
    <2> QED  BY <2>1, ClockFacts
  <1>1. CASE Connect
    BY <1>1 DEF TypeOK, Connect, wvars, avars
  <1>2. CASE DropParked
    BY <1>2 DEF TypeOK, DropParked, wvars, avars
  <1>3. CASE Repark
    BY <1>3, <1>c DEF TypeOK, Repark, wvars, avars
  <1>4. CASE LoseLink
    <2>1. [kind |-> "Disconnected"] \in Events  BY DEF Events
    <2>2. events' \in Seq(Events)  BY <1>4, <2>1 DEF TypeOK, LoseLink
    <2> QED  BY <1>4, <1>c, <2>2 DEF TypeOK, LoseLink, wvars, avars
  <1>5. CASE EnterWorld
    <2>1. [link |-> link, entry |-> entry + 1] \in Halves
      BY <1>5 DEF EnterWorld, TypeOK, Halves, Links, Entries
    <2>2. [op |-> "Install", writer |-> [link |-> link, entry |-> entry + 1],
           fresh |-> fresh] \in Swaps
      BY <2>1 DEF TypeOK, Swaps
    <2>3. swaps' \in Seq(Swaps)
      BY <1>5, <2>2, AppendFacts DEF TypeOK, EnterWorld
    <2>4. entry' \in 0..MaxEntries /\ entry' >= 1
      BY <1>5 DEF TypeOK, EnterWorld
    <2>5. UNCHANGED <<link, reply, wpc, inHand, writer, pingArmed, clock, wire, cmds, heard, events>>
      BY <1>5 DEF EnterWorld, wvars, avars
    <2> QED  BY <1>5, <2>3, <2>4, <2>5 DEF TypeOK, EnterWorld
  <1>6. CASE Announce
    <2>1. [kind |-> "Connected", entry |-> entry] \in Events
      BY <1>6 DEF Announce, TypeOK, Events, Entries
    <2> QED  BY <1>6, <2>1 DEF TypeOK, Announce, wvars, avars
  <1>7. CASE ReadPong
    <2>1. link \in Links  BY <1>7 DEF ReadPong, TypeOK, Links
    <2>2. Head(wire) \in 0..MaxPings /\ wire' \in Seq(0..MaxPings)
      BY <1>7, TailFacts DEF ReadPong, TypeOK
    <2>3. clock' \in Clocks /\ Len(clock'.ring) <= RttRing
      BY <1>7, <1>c, <2>1, <2>2 DEF ReadPong
    <2> QED  BY <1>7, <2>2, <2>3 DEF TypeOK, ReadPong, rvars, wvars, avars
  <1>8. CASE StrayPong
    BY <1>8 DEF TypeOK, StrayPong, rvars, wvars, avars
  <1>9. CASE EndWorld
    BY <1>9 DEF TypeOK, EndWorld, Events, wvars, avars
  <1>10. CASE AnnounceEnd
    BY <1>10 DEF TypeOK, AnnounceEnd, Events, wvars, avars
  <1>11. CASE Reclaim
    BY <1>11 DEF TypeOK, Reclaim, Swaps, Replies, Pending, Writers, wvars, avars
  <1>12. CASE Rejoin
    BY <1>12 DEF TypeOK, Rejoin, wvars, avars
  <1>13. CASE RejoinFails
    <2>1. [kind |-> "Disconnected"] \in Events  BY DEF Events
    <2>2. events' \in Seq(Events)  BY <1>13, <2>1 DEF TypeOK, RejoinFails
    <2> QED  BY <1>13, <1>c, <2>2 DEF TypeOK, RejoinFails, wvars, avars
  <1>14. ASSUME ApplySwap
         PROVE  /\ swaps' \in Seq(Swaps) /\ writer' \in Writers /\ reply' \in Replies
                /\ clock' \in Clocks /\ Len(clock'.ring) <= RttRing /\ pingArmed' \in BOOLEAN
    <2>1. Head(swaps) \in Swaps /\ swaps' \in Seq(Swaps)
      BY <1>14, TailFacts DEF ApplySwap, TypeOK
    <2>2. CASE Head(swaps).op = "Install"
      <3>1. Head(swaps).writer \in Halves  BY <2>1, <2>2 DEF Swaps
      <3> QED  BY <1>14, <2>1, <2>2, <3>1, <1>c DEF ApplySwap, TypeOK, Writers
    <2>3. CASE Head(swaps).op = "Reclaim"
      <3>1. NoWriter \in Writers  BY DEF Writers
      <3>2. [open |-> FALSE, slot |-> writer] \in Replies  BY DEF TypeOK, Replies
      <3> QED  BY <1>14, <2>1, <2>3, <3>1, <3>2 DEF ApplySwap, TypeOK
    <2> QED  BY <1>14, <2>2, <2>3 DEF ApplySwap
  <1>15. CASE TakeSwap
    BY <1>14, <1>15 DEF TypeOK, TakeSwap, rvars, avars
  <1>16. CASE TakeCommand
    BY <1>16 DEF TypeOK, TakeCommand, rvars
  <1>17. CASE DrainSwap
    BY <1>14, <1>17 DEF TypeOK, DrainSwap, rvars, avars
  <1>18. CASE Dispose
    BY <1>18 DEF TypeOK, Dispose, rvars, avars
  <1>19. CASE PingTick
    <2>1. CASE writer = NoWriter
      BY <1>19, <2>1 DEF TypeOK, PingTick, rvars, avars
    <2>2. CASE writer # NoWriter
      <3>1. clock' = [sequence |-> clock.sequence + 1, sent |-> TRUE, ring |-> clock.ring]
        BY <1>19, <2>2 DEF PingTick, TypeOK, Clocks
      <3>2. clock.sequence \in Nat /\ clock.sequence < MaxPings
        BY <1>19, <2>2 DEF PingTick, TypeOK, Clocks
      <3>3. clock.sequence + 1 \in 0..MaxPings  BY <3>2
      <3>4. clock' \in Clocks /\ Len(clock'.ring) <= RttRing
        BY <3>1, <3>3 DEF TypeOK, Clocks
      <3>5. clock'.sequence \in 0..MaxPings  BY <3>4 DEF Clocks
      <3>6. wire' \in Seq(0..MaxPings)
        <4>1. CASE writer.link = link /\ rpc # "away"
          <5>1. wire' = Append(wire, clock'.sequence)
            BY <1>19, <2>2, <4>1 DEF PingTick
          <5> QED  BY <3>5, <5>1, AppendFacts DEF TypeOK
        <4>2. CASE ~(writer.link = link /\ rpc # "away")
          BY <1>19, <2>2, <4>2 DEF PingTick, TypeOK
        <4> QED  BY <4>1, <4>2
      <3> QED  BY <1>19, <2>2, <3>4, <3>6 DEF TypeOK, PingTick, rvars, avars
    <2> QED  BY <2>1, <2>2
  <1>20. CASE Hear
    BY <1>20 DEF TypeOK, Hear, Events, Entries, rvars, wvars
  <1>21. CASE SendCommand
    BY <1>21 DEF TypeOK, SendCommand, rvars, wvars
  <1>22. CASE UNCHANGED vars
    BY <1>22 DEF TypeOK, vars, rvars, wvars, avars
  <1> QED
    BY <1>1, <1>2, <1>3, <1>4, <1>5, <1>6, <1>7, <1>8, <1>9, <1>10, <1>11, <1>12,
       <1>13, <1>15, <1>16, <1>17, <1>18, <1>19, <1>20, <1>21, <1>22
    DEF Next, ReadThread, WriteThread

\* Every variable keeps its type, the round-trip ring its bound included.
THEOREM TypeCorrect == Spec => []TypeOK
  <1>1. Spec => [](TypeOK /\ Numbered)
    BY TypeInit, TypeStep, PTL DEF Spec
  <1> QED  BY <1>1, PTL

----------------------------------------------------------------------------
(* The inductive invariant.                                                *)

LEMMA NoneAheadStep ==
    TypeOK /\ NoneAhead /\ [Next]_vars => NoneAhead'
  <1> SUFFICES ASSUME TypeOK, NoneAhead, [Next]_vars PROVE NoneAhead'
    OBVIOUS
  <1> USE DEF NoneAhead, IsInstall
  <1>t. /\ link \in Nat /\ entry \in Nat /\ heard \in Nat /\ inHand \in Nat
        /\ swaps \in Seq(Swaps) /\ cmds \in Seq(0..MaxEntries) /\ events \in Seq(Events)
    BY BoundsAssumption DEF TypeOK
  <1>1. CASE Connect
    <2>1. \A i \in DOMAIN swaps : IsInstall(i) => swaps[i].writer.link \in Nat
      BY <1>t DEF Swaps, Halves, Links
    <2>2. writer.link \in Nat  BY DEF TypeOK, Writers, Halves, Links, NoWriter
    <2> QED  BY <1>1, <1>t, <2>1, <2>2 DEF Connect, wvars, avars
  <1>2. CASE DropParked  BY <1>2 DEF DropParked, wvars, avars
  <1>3. CASE Repark      BY <1>3 DEF Repark, wvars, avars
  <1>4. CASE LoseLink
    <2>1. [kind |-> "Disconnected"] \in Events  BY DEF Events
    <2> QED  BY <1>4, <1>t, <2>1, AppendFacts DEF LoseLink, wvars, avars
  <1>5. CASE EnterWorld
    <2>1. /\ Len(swaps) \in Nat /\ DOMAIN swaps = 1..Len(swaps)
          /\ DOMAIN swaps' = 1..(Len(swaps) + 1)
          /\ \A i \in DOMAIN swaps : swaps'[i] = swaps[i]
          /\ swaps'[Len(swaps) + 1].writer.link = link
      BY <1>5, <1>t DEF EnterWorld
    <2>2. entry' = entry + 1 /\ UNCHANGED <<writer, link, heard, inHand, cmds, events>>
      BY <1>5 DEF EnterWorld, wvars, avars
    <2>3. \A i \in DOMAIN swaps' :
             swaps'[i].op = "Install" => swaps'[i].writer.link <= link
      BY <1>t, <2>1
    <2>4. /\ heard' <= entry' /\ inHand' <= entry'
          /\ \A i \in DOMAIN cmds' : cmds'[i] <= entry'
      <3>1. \A i \in DOMAIN cmds : cmds[i] \in Nat
        BY <1>t, BoundsAssumption
      <3> QED  BY <1>t, <2>2, <3>1
    <2>5. \A i \in DOMAIN events' :
             events'[i].kind = "Connected" => events'[i].entry <= entry'
      <3>1. \A i \in DOMAIN events : events[i].kind = "Connected" => events[i].entry \in Nat
        BY <1>t DEF Events, Entries
      <3> QED  BY <1>t, <2>2, <3>1
    <2> QED  BY <2>2, <2>3, <2>4, <2>5
  <1>6. CASE Announce
    <2>1. /\ Len(events) \in Nat /\ DOMAIN events = 1..Len(events)
          /\ DOMAIN events' = 1..(Len(events) + 1)
          /\ \A i \in DOMAIN events : events'[i] = events[i]
          /\ events'[Len(events) + 1].entry = entry
      BY <1>6, <1>t DEF Announce
    <2> QED  BY <1>6, <1>t, <2>1 DEF Announce, wvars, avars
  <1>7. CASE ReadPong    BY <1>7 DEF ReadPong, rvars, wvars, avars
  <1>8. CASE StrayPong   BY <1>8 DEF StrayPong, rvars, wvars, avars
  <1>9. CASE EndWorld
    <2>1. [kind |-> "LoggedOut"] \in Events  BY DEF Events
    <2> QED  BY <1>9, <1>t, <2>1, AppendFacts DEF EndWorld, wvars, avars
  <1>10. CASE AnnounceEnd
    <2>1. [kind |-> "Disconnected"] \in Events  BY DEF Events
    <2> QED  BY <1>10, <1>t, <2>1, AppendFacts DEF AnnounceEnd, wvars, avars
  <1>11. CASE Reclaim
    <2>1. [op |-> "Reclaim"] \in Swaps  BY DEF Swaps
    <2> QED  BY <1>11, <1>t, <2>1, AppendFacts DEF Reclaim, wvars, avars
  <1>12. CASE Rejoin     BY <1>12 DEF Rejoin, wvars, avars
  <1>13. CASE RejoinFails
    <2>1. [kind |-> "Disconnected"] \in Events  BY DEF Events
    <2> QED  BY <1>13, <1>t, <2>1, AppendFacts DEF RejoinFails, wvars, avars
  <1>14. ASSUME ApplySwap
         PROVE  /\ writer'.link <= link
                /\ \A i \in DOMAIN swaps' : swaps'[i].op = "Install" => swaps'[i].writer.link <= link
    <2>1. /\ \A i \in DOMAIN swaps' : i + 1 \in DOMAIN swaps /\ swaps'[i] = swaps[i + 1]
          /\ Head(swaps) = swaps[1] /\ 1 \in DOMAIN swaps
      BY <1>14, <1>t, TailFacts DEF ApplySwap
    <2> QED  BY <1>14, <1>t, <2>1 DEF ApplySwap, NoWriter
  <1>15. CASE TakeSwap   BY <1>14, <1>15 DEF TakeSwap, rvars, avars
  <1>16. CASE TakeCommand
    <2>1. /\ \A i \in DOMAIN cmds' : i + 1 \in DOMAIN cmds /\ cmds'[i] = cmds[i + 1]
          /\ Head(cmds) = cmds[1] /\ 1 \in DOMAIN cmds
      BY <1>16, <1>t, TailFacts DEF TakeCommand
    <2> QED  BY <1>16, <2>1 DEF TakeCommand, rvars
  <1>17. CASE DrainSwap  BY <1>14, <1>17 DEF DrainSwap, rvars, avars
  <1>18. CASE Dispose    BY <1>18 DEF Dispose, rvars, avars
  <1>19. CASE PingTick   BY <1>19 DEF PingTick, rvars, avars
  <1>20. CASE Hear
    <2>1. /\ \A i \in DOMAIN events' : i + 1 \in DOMAIN events /\ events'[i] = events[i + 1]
          /\ Head(events) = events[1] /\ 1 \in DOMAIN events
      BY <1>20, <1>t, TailFacts DEF Hear
    <2> QED  BY <1>20, <1>t, <2>1 DEF Hear, rvars, wvars
  <1>21. CASE SendCommand
    <2>1. heard \in 0..MaxEntries  BY DEF TypeOK
    <2> QED  BY <1>21, <1>t, <2>1, AppendFacts DEF SendCommand, rvars, wvars
  <1>22. CASE UNCHANGED vars  BY <1>22 DEF vars, rvars, wvars, avars
  <1> QED
    BY <1>1, <1>2, <1>3, <1>4, <1>5, <1>6, <1>7, <1>8, <1>9, <1>10, <1>11, <1>12,
       <1>13, <1>15, <1>16, <1>17, <1>18, <1>19, <1>20, <1>21, <1>22
    DEF Next, ReadThread, WriteThread

LEMMA ReclaimIsLastStep ==
    TypeOK /\ Numbered /\ ReclaimIsLast /\ WriterInv /\ [Next]_vars => ReclaimIsLast'
  <1> SUFFICES ASSUME TypeOK, Numbered, ReclaimIsLast, WriterInv, [Next]_vars
               PROVE ReclaimIsLast'
    OBVIOUS
  <1> USE DEF ReclaimIsLast, IsReclaim, IsInstall, OwnHalf
  <1>t. swaps \in Seq(Swaps) /\ Len(swaps) \in Nat /\ DOMAIN swaps = 1..Len(swaps)
    BY DEF TypeOK
  \* With the read thread elsewhere, every swap in the channel is an Install.
  <1>n. rpc # "await" => \A i \in DOMAIN swaps : swaps[i].op = "Install"
    BY <1>t DEF Swaps
  <1>1. CASE Connect      BY <1>1, <1>n DEF Connect, wvars
  <1>2. CASE DropParked   BY <1>2, <1>n DEF DropParked
  <1>3. CASE Repark       BY <1>3, <1>n DEF Repark
  <1>4. CASE LoseLink     BY <1>4, <1>n DEF LoseLink
  <1>5. CASE EnterWorld
    <2>1. \A i \in DOMAIN swaps' : swaps'[i].op = "Install"
      BY <1>5, <1>n, <1>t DEF EnterWorld
    <2> QED  BY <2>1
  <1>6. CASE Announce     BY <1>6, <1>n DEF Announce
  <1>7. CASE ReadPong     BY <1>7 DEF ReadPong, rvars, wvars
  <1>8. CASE StrayPong    BY <1>8 DEF StrayPong, rvars, wvars
  <1>9. CASE EndWorld     BY <1>9, <1>n DEF EndWorld
  <1>10. CASE AnnounceEnd BY <1>10, <1>n DEF AnnounceEnd
  <1>11. CASE Reclaim
    <2>1. /\ DOMAIN swaps' = 1..(Len(swaps) + 1) /\ Len(swaps') = Len(swaps) + 1
          /\ \A i \in DOMAIN swaps : swaps'[i] = swaps[i] /\ swaps'[i].op = "Install"
      BY <1>11, <1>n, <1>t DEF Reclaim
    <2>2. Settled = OwnHalf  BY <1>11 DEF Reclaim, WriterInv
    <2>3. CASE swaps = <<>>
      BY <1>11, <1>t, <2>1, <2>2, <2>3 DEF Reclaim, Settled, wvars
    <2>4. CASE swaps # <<>>
      <3>1. Len(swaps) >= 1 /\ swaps[Len(swaps)].op = "Install"
            /\ swaps[Len(swaps)].writer = OwnHalf
        BY <1>11, <1>n, <1>t, <2>2, <2>4 DEF Settled, Reclaim
      <3> QED  BY <1>11, <1>t, <2>1, <3>1 DEF Reclaim, wvars
    <2> QED  BY <2>3, <2>4
  <1>12. CASE Rejoin
    <2>1. \A i \in DOMAIN swaps : swaps[i].op = "Install"
      BY <1>12, <1>t DEF Rejoin, Swaps, Pending
    <2> QED  BY <1>12, <2>1 DEF Rejoin
  <1>13. CASE RejoinFails
    <2>1. \A i \in DOMAIN swaps : swaps[i].op = "Install"
      BY <1>13, <1>t DEF RejoinFails, Swaps
    <2> QED  BY <1>13, <2>1 DEF RejoinFails
  <1>14. ASSUME ApplySwap, UNCHANGED rvars
         PROVE  ReclaimIsLast'
    <2>1. /\ \A i \in DOMAIN swaps' : i + 1 \in DOMAIN swaps /\ swaps'[i] = swaps[i + 1]
          /\ Len(swaps') = Len(swaps) - 1 /\ Head(swaps) = swaps[1] /\ 1 \in DOMAIN swaps
          /\ DOMAIN swaps' = 1..(Len(swaps) - 1)
      BY <1>14, <1>t, TailFacts DEF ApplySwap
    <2>2. CASE Head(swaps).op = "Install"
      BY <1>14, <1>t, <2>1, <2>2 DEF ApplySwap, rvars
    <2>3. CASE Head(swaps).op = "Reclaim"
      BY <1>14, <1>t, <2>1, <2>3 DEF ApplySwap, rvars
    <2> QED  BY <1>14, <2>2, <2>3 DEF ApplySwap
  <1>15. CASE TakeSwap    BY <1>14, <1>15 DEF TakeSwap
  <1>16. CASE TakeCommand BY <1>16 DEF TakeCommand, rvars
  <1>17. CASE DrainSwap   BY <1>14, <1>17 DEF DrainSwap
  <1>18. CASE Dispose     BY <1>18 DEF Dispose, rvars
  <1>19. CASE PingTick    BY <1>19 DEF PingTick, rvars
  <1>20. CASE Hear        BY <1>20 DEF Hear, rvars, wvars
  <1>21. CASE SendCommand BY <1>21 DEF SendCommand, rvars, wvars
  <1>22. CASE UNCHANGED vars  BY <1>22 DEF vars, rvars, wvars
  <1> QED
    BY <1>1, <1>2, <1>3, <1>4, <1>5, <1>6, <1>7, <1>8, <1>9, <1>10, <1>11, <1>12,
       <1>13, <1>15, <1>16, <1>17, <1>18, <1>19, <1>20, <1>21, <1>22
    DEF Next, ReadThread, WriteThread

LEMMA WriterInvStep ==
    TypeOK /\ Numbered /\ NoneAhead /\ ReclaimIsLast /\ WriterInv /\ [Next]_vars
      => WriterInv'
  <1> SUFFICES ASSUME TypeOK, Numbered, NoneAhead, ReclaimIsLast, WriterInv, [Next]_vars
               PROVE WriterInv'
    OBVIOUS
  <1> USE DEF WriterInv, Settled, IsReclaim, IsInstall, OwnHalf
  <1>t. /\ swaps \in Seq(Swaps) /\ Len(swaps) \in Nat /\ DOMAIN swaps = 1..Len(swaps)
        /\ link \in Nat /\ entry \in Nat
    BY BoundsAssumption DEF TypeOK
  <1>e. swaps # <<>> => Len(swaps) >= 1  BY <1>t
  <1>1. CASE Connect
    <2>1. writer.link \in Nat  BY DEF TypeOK, Writers, Halves, Links, NoWriter
    <2>2. \A i \in DOMAIN swaps : IsInstall(i) => swaps[i].writer.link \in Nat
      BY <1>t DEF Swaps, Halves, Links
    <2> QED  BY <1>1, <1>t, <2>1, <2>2 DEF Connect, wvars, avars, NoneAhead
  <1>2. CASE DropParked   BY <1>2 DEF DropParked, wvars
  <1>3. CASE Repark       BY <1>3 DEF Repark, wvars
  <1>4. CASE LoseLink     BY <1>4 DEF LoseLink, wvars
  <1>5. CASE EnterWorld
    <2>1. /\ swaps' # <<>> /\ swaps'[Len(swaps')].op = "Install"
          /\ swaps'[Len(swaps')].writer = [link |-> link, entry |-> entry + 1]
      BY <1>5, <1>t DEF EnterWorld
    <2> QED  BY <1>5, <1>t, <2>1 DEF EnterWorld, wvars
  <1>6. CASE Announce     BY <1>6 DEF Announce, wvars
  <1>7. CASE ReadPong     BY <1>7 DEF ReadPong, rvars, wvars
  <1>8. CASE StrayPong    BY <1>8 DEF StrayPong, rvars, wvars
  <1>9. CASE EndWorld     BY <1>9 DEF EndWorld, wvars
  <1>10. CASE AnnounceEnd BY <1>10 DEF AnnounceEnd, wvars
  <1>11. CASE Reclaim
    <2>1. swaps' # <<>> /\ swaps'[Len(swaps')].op = "Reclaim"
      BY <1>11, <1>t DEF Reclaim
    <2> QED  BY <1>11, <2>1 DEF Reclaim, wvars
  <1>12. CASE Rejoin
    <2>1. swaps = <<>> /\ writer = NoWriter
      BY <1>12, <1>t, <1>e DEF Rejoin, ReclaimIsLast, Pending
    <2> QED  BY <1>12, <1>t, <2>1 DEF Rejoin, wvars, NoWriter, Numbered
  <1>13. CASE RejoinFails
    BY <1>13 DEF RejoinFails, wvars
  <1>14. ASSUME ApplySwap, UNCHANGED rvars
         PROVE  WriterInv'
    <2>1. /\ \A i \in DOMAIN swaps' : i + 1 \in DOMAIN swaps /\ swaps'[i] = swaps[i + 1]
          /\ Len(swaps') = Len(swaps) - 1 /\ Head(swaps) = swaps[1] /\ 1 \in DOMAIN swaps
          /\ DOMAIN swaps' = 1..(Len(swaps) - 1) /\ Len(swaps) >= 1
          /\ (swaps' = <<>> <=> Len(swaps) = 1)
      <3>1. swaps # <<>> /\ swaps' = Tail(swaps)  BY <1>14 DEF ApplySwap
      <3>2. swaps' \in Seq(Swaps) /\ Len(swaps') = Len(swaps) - 1
        BY <1>t, <3>1, TailFacts
      <3>3. swaps' = <<>> <=> Len(swaps') = 0  BY <3>2
      <3> QED  BY <1>t, <3>1, <3>2, <3>3, TailFacts
    <2>2. CASE Head(swaps).op = "Install"
      <3>1. writer' = swaps[1].writer  BY <1>14, <2>1, <2>2 DEF ApplySwap
      <3>2. Settled' = Settled
        <4>1. CASE Len(swaps) = 1
          BY <2>1, <2>2, <3>1, <4>1
        <4>2. CASE Len(swaps) > 1
          <5>1. Len(swaps') \in DOMAIN swaps' /\ swaps'[Len(swaps')] = swaps[Len(swaps)]
            BY <1>t, <2>1, <4>2
          <5> QED  BY <1>t, <2>1, <4>2, <5>1
        <4> QED  BY <1>t, <2>1, <4>1, <4>2
      <3>3. rpc = "await" => swaps' # <<>> /\ swaps'[Len(swaps')].op = "Reclaim"
        <4>1. rpc = "await" => Len(swaps) # 1  BY <1>t, <2>1, <2>2
        <4>2. rpc = "await" => Len(swaps') \in DOMAIN swaps' /\ Len(swaps') + 1 = Len(swaps)
          BY <1>t, <2>1, <4>1
        <4> QED  BY <1>t, <2>1, <4>1, <4>2
      <3>4. rpc = "park" => /\ writer'.link # link
                            /\ \A i \in DOMAIN swaps' :
                                  swaps'[i].op = "Install" => swaps'[i].writer.link # link
        BY <2>1, <2>2, <3>1
      <3> QED  BY <1>14, <3>2, <3>3, <3>4 DEF rvars
    <2>3. CASE Head(swaps).op = "Reclaim"
      <3>1. Len(swaps) = 1 /\ rpc = "await" /\ writer = OwnHalf
        BY <2>1, <2>3 DEF ReclaimIsLast
      <3>2. swaps' = <<>> /\ writer' = NoWriter /\ reply'.slot = OwnHalf
        BY <1>14, <2>1, <2>3, <3>1 DEF ApplySwap
      <3> QED  BY <1>14, <3>1, <3>2 DEF rvars
    <2> QED  BY <1>14, <2>2, <2>3 DEF ApplySwap
  <1>15. CASE TakeSwap    BY <1>14, <1>15 DEF TakeSwap
  <1>16. CASE TakeCommand BY <1>16 DEF TakeCommand, rvars
  <1>17. CASE DrainSwap   BY <1>14, <1>17 DEF DrainSwap
  <1>18. CASE Dispose     BY <1>18 DEF Dispose, rvars
  <1>19. CASE PingTick    BY <1>19 DEF PingTick, rvars
  <1>20. CASE Hear        BY <1>20 DEF Hear, rvars, wvars
  <1>21. CASE SendCommand BY <1>21 DEF SendCommand, rvars, wvars
  <1>22. CASE UNCHANGED vars  BY <1>22 DEF vars, rvars, wvars
  <1> QED
    BY <1>1, <1>2, <1>3, <1>4, <1>5, <1>6, <1>7, <1>8, <1>9, <1>10, <1>11, <1>12,
       <1>13, <1>15, <1>16, <1>17, <1>18, <1>19, <1>20, <1>21, <1>22
    DEF Next, ReadThread, WriteThread

----------------------------------------------------------------------------
(* The hand-off's safety.                                                  *)

LEMMA InitSafe == Init => NoneAhead /\ ReclaimIsLast /\ WriterInv
  BY DEF Init, NoneAhead, ReclaimIsLast, WriterInv, Settled, NoWriter

\* The invariant of the hand-off proper: all of IInv but the ring's part.
HandoffInv == TypeOK /\ Numbered /\ NoneAhead /\ ReclaimIsLast /\ WriterInv

LEMMA HandoffCorrect == Spec => []HandoffInv
  <1>1. Init => HandoffInv  BY TypeInit, InitSafe DEF HandoffInv
  <1>2. HandoffInv /\ [Next]_vars => HandoffInv'
    BY TypeStep, NoneAheadStep, ReclaimIsLastStep, WriterInvStep DEF HandoffInv
  <1> QED  BY <1>1, <1>2, PTL DEF Spec

\* A Reclaim is answered with the writer of the entry that just ended, whatever links
\* were lost before it.
THEOREM ReclaimSound == Spec => []ReclaimReturnsThisEntrysWriter
  <1>1. HandoffInv => ReclaimReturnsThisEntrysWriter
    BY DEF HandoffInv, TypeOK, ReclaimIsLast, WriterInv, ReclaimReturnsThisEntrysWriter,
           IsReclaim
  <1> QED  BY <1>1, HandoffCorrect, PTL

\* The write thread holds no half of a link the read thread parks on.
THEOREM ParkExclusive == Spec => []ParkedLinkHasNoWriter
  <1>1. HandoffInv => ParkedLinkHasNoWriter
    BY DEF HandoffInv, WriterInv, ParkedLinkHasNoWriter
  <1> QED  BY <1>1, HandoffCorrect, PTL

\* A command is written to no half older than the entry the app sent it in, and none is
\* dropped for want of a writer while an entry streams.
THEOREM CommandSound == Spec => CommandReachesItsEntry
  <1>1. HandoffInv /\ [Next]_vars =>
          [wpc = "draining" /\ wpc' = "select" =>
             IF writer = NoWriter THEN rpc # "stream" ELSE writer.entry >= inHand]_vars
    <2> SUFFICES ASSUME HandoffInv, [Next]_vars, wpc = "draining", wpc' = "select"
                 PROVE  IF writer = NoWriter THEN rpc # "stream" ELSE writer.entry >= inHand
      OBVIOUS
    <2>1. Dispose
      BY DEF Next, ReadThread, WriteThread, vars, wvars, Connect, DropParked, Repark, LoseLink,
             EnterWorld, Announce, ReadPong, StrayPong, EndWorld, AnnounceEnd, Reclaim, Rejoin,
             RejoinFails, TakeSwap, TakeCommand, DrainSwap, PingTick, Hear, SendCommand
    <2>2. Settled = writer  BY <2>1 DEF Dispose, Settled
    <2>3. CASE writer = NoWriter
      BY <2>2, <2>3 DEF HandoffInv, WriterInv, Numbered, OwnHalf, NoWriter
    <2>4. CASE writer # NoWriter
      BY <2>2, <2>4, BoundsAssumption DEF HandoffInv, WriterInv, NoneAhead, TypeOK
    <2> QED  BY <2>3, <2>4
  <1> QED  BY <1>1, HandoffCorrect, PTL DEF Spec, CommandReachesItsEntry

----------------------------------------------------------------------------
(* The round-trip ring.                                                    *)

LEMMA RingInvStep ==
    HandoffInv /\ RingInv /\ [Next]_vars => RingInv'
  <1> SUFFICES ASSUME HandoffInv, RingInv, [Next]_vars PROVE RingInv'
    OBVIOUS
  <1> USE DEF RingInv, RingOn, RingNeverMixesLinks, IsInstall
  <1>t. /\ swaps \in Seq(Swaps) /\ Len(swaps) \in Nat /\ DOMAIN swaps = 1..Len(swaps)
        /\ wire \in Seq(0..MaxPings) /\ clock.sequence \in 0..MaxPings
        /\ \A i \in DOMAIN wire : wire[i] \in Nat
        /\ clock \in Clocks /\ Len(clock.ring) <= RttRing /\ link \in Nat /\ entry \in Nat
    BY BoundsAssumption DEF HandoffInv, TypeOK, Clocks
  <1>c. /\ Cleared(clock).ring = <<>> /\ Cleared(clock).sent = FALSE
        /\ Cleared(clock).sequence = clock.sequence
    BY <1>t, ClockFacts
  <1>1. CASE Connect
    <2>1. writer.link # link' /\ link' = link + 1 /\ wire' = <<>> /\ fresh' = TRUE
      BY <1>1, <1>t DEF Connect, HandoffInv, TypeOK, NoneAhead, Writers, Halves, Links, NoWriter
    <2>2. \A i \in DOMAIN swaps : IsInstall(i) => swaps[i].writer.link # link + 1
      BY <1>t DEF HandoffInv, NoneAhead, Swaps, Halves, Links
    <2> QED  BY <1>1, <2>1, <2>2 DEF Connect, wvars, avars
  <1>2. CASE DropParked
    BY <1>2 DEF DropParked, wvars
  <1>3. CASE Repark
    BY <1>3, <1>c DEF Repark, wvars
  <1>4. CASE LoseLink
    BY <1>4, <1>c DEF LoseLink, wvars
  <1>5. CASE EnterWorld
    <2>1. /\ DOMAIN swaps' = 1..(Len(swaps) + 1)
          /\ \A i \in DOMAIN swaps : swaps'[i] = swaps[i]
          /\ swaps'[Len(swaps) + 1].fresh = fresh
      BY <1>5, <1>t DEF EnterWorld
    <2>2. ~fresh => \A i \in DOMAIN clock.ring : clock.ring[i] = link
      BY <1>5 DEF EnterWorld
    <2>3. UNCHANGED <<link, writer, clock, wire>> /\ rpc' = "installed"
      BY <1>5 DEF EnterWorld, wvars
    <2>4. \A i \in DOMAIN swaps' : ~swaps'[i].fresh /\ swaps'[i].op = "Install"
                                   /\ swaps'[i].writer.link = link
             => \A j \in DOMAIN clock.ring : clock.ring[j] = link
      BY <1>t, <2>1, <2>2
    <2> QED  BY <2>3, <2>4
  <1>6. CASE Announce     BY <1>6 DEF Announce, wvars
  <1>7. CASE ReadPong
    <2>1. link \in Links  BY <1>7 DEF ReadPong, HandoffInv, TypeOK, Numbered, Links
    <2>2. /\ \A i \in DOMAIN wire' : i + 1 \in DOMAIN wire /\ wire'[i] = wire[i + 1]
          /\ Head(wire) = wire[1] /\ 1 \in DOMAIN wire /\ wire[1] \in 0..MaxPings
      BY <1>7, <1>t, TailFacts DEF ReadPong
    <2>3. /\ clock' = RecordPong(clock, wire[1], link)
          /\ clock'.sequence = clock.sequence /\ clock'.sent = clock.sent
          /\ clock'.ring = IF clock.sent /\ clock.sequence = wire[1]
                           THEN Filed(clock.ring, link) ELSE clock.ring
      <3>1. clock' = RecordPong(clock, wire[1], link)  BY <1>7, <2>2 DEF ReadPong
      <3> QED  BY <1>t, <2>1, <2>2, <3>1, ClockFacts
    <2>4. CASE clock.sent /\ clock.sequence = wire[1]
      <3>1. \A i \in DOMAIN clock.ring : clock.ring[i] = link
        BY <2>2, <2>4
      <3>2. \A i \in DOMAIN clock'.ring : clock'.ring[i] = link
        BY <1>t, <2>1, <2>3, <2>4, <3>1, FiledFacts DEF Clocks
      <3> QED  BY <1>7, <2>2, <2>3, <3>2 DEF ReadPong, rvars, wvars
    <2>5. CASE ~(clock.sent /\ clock.sequence = wire[1])
      BY <1>7, <2>2, <2>3, <2>5 DEF ReadPong, rvars, wvars
    <2> QED  BY <2>4, <2>5
  <1>8. CASE StrayPong
    <2>1. \A i \in DOMAIN wire' : i + 1 \in DOMAIN wire /\ wire'[i] = wire[i + 1]
      BY <1>8, <1>t, TailFacts DEF StrayPong
    <2> QED  BY <1>8, <2>1 DEF StrayPong, rvars, wvars
  <1>9. CASE EndWorld     BY <1>9 DEF EndWorld, wvars
  <1>10. CASE AnnounceEnd BY <1>10 DEF AnnounceEnd, wvars
  <1>11. CASE Reclaim
    <2>1. /\ DOMAIN swaps' = 1..(Len(swaps) + 1) /\ swaps' # <<>>
          /\ \A i \in DOMAIN swaps : swaps'[i] = swaps[i]
          /\ swaps'[Len(swaps) + 1].op = "Reclaim"
      BY <1>11, <1>t DEF Reclaim
    <2> QED  BY <1>11, <1>t, <2>1 DEF Reclaim, wvars
  <1>12. CASE Rejoin
    <2>1. swaps = <<>>
      BY <1>12, <1>t DEF Rejoin, Pending, HandoffInv, WriterInv, ReclaimIsLast, IsReclaim
    <2> QED  BY <1>12, <2>1 DEF Rejoin, wvars
  <1>13. CASE RejoinFails
    BY <1>13, <1>c DEF RejoinFails, wvars
  <1>14. ASSUME ApplySwap, UNCHANGED <<rvars, wire>>
         PROVE  RingInv'
    <2>1. /\ \A i \in DOMAIN swaps' : i + 1 \in DOMAIN swaps /\ swaps'[i] = swaps[i + 1]
          /\ Head(swaps) = swaps[1] /\ 1 \in DOMAIN swaps /\ swaps # <<>>
      BY <1>14, <1>t, TailFacts DEF ApplySwap
    <2>2. CASE Head(swaps).op = "Install" /\ Head(swaps).fresh
      <3>1. clock' = Cleared(clock)  BY <1>14, <2>2 DEF ApplySwap
      <3>2. rpc = "park" => fresh
        BY <2>1
      <3> QED  BY <1>14, <1>c, <2>1, <3>1, <3>2 DEF rvars
    <2>3. CASE Head(swaps).op = "Install" /\ ~Head(swaps).fresh
      <3>1. clock' = clock /\ writer' = Head(swaps).writer  BY <1>14, <2>3 DEF ApplySwap
      <3>2. writer'.link = link => \A i \in DOMAIN clock.ring : clock.ring[i] = link
        BY <2>1, <2>3, <3>1
      <3>3. rpc = "await" => swaps' # <<>>
        <4>1. rpc = "await" => swaps[Len(swaps)].op = "Reclaim"
          BY <2>1 DEF HandoffInv, WriterInv, IsReclaim
        <4>2. rpc = "await" => Len(swaps) > 1
          BY <1>t, <2>1, <2>3, <4>1
        <4>3. Len(swaps') = Len(swaps) - 1
          BY <1>14, <1>t, TailFacts DEF ApplySwap
        <4> QED  BY <1>t, <4>2, <4>3
      <3>4. rpc = "park" => fresh  BY <2>1
      <3> QED  BY <1>14, <2>1, <3>1, <3>2, <3>3, <3>4 DEF rvars
    <2>4. CASE Head(swaps).op = "Reclaim"
      <3>1. clock' = clock /\ writer' = NoWriter
        BY <1>14, <2>4 DEF ApplySwap
      <3>2. rpc = "await" /\ link >= 1 /\ Len(swaps) = 1 /\ writer.link = link
        <4>1. 1 = Len(swaps) /\ rpc = "await" /\ writer = OwnHalf
          BY <2>1, <2>4 DEF HandoffInv, ReclaimIsLast, IsReclaim
        <4> QED  BY <4>1 DEF OwnHalf, HandoffInv, Numbered
      <3>3. \A i \in DOMAIN clock.ring : clock.ring[i] = link
        BY <3>2
      <3> QED  BY <1>14, <2>1, <3>1, <3>2, <3>3 DEF rvars, NoWriter
    <2> QED  BY <1>14, <2>2, <2>3, <2>4 DEF ApplySwap
  <1>15. CASE TakeSwap    BY <1>14, <1>15 DEF TakeSwap
  <1>16. CASE TakeCommand BY <1>16 DEF TakeCommand, rvars
  <1>17. CASE DrainSwap   BY <1>14, <1>17 DEF DrainSwap
  <1>18. CASE Dispose     BY <1>18 DEF Dispose, rvars
  <1>19. CASE PingTick
    <2>1. CASE writer = NoWriter
      BY <1>19, <2>1 DEF PingTick, rvars
    <2>2. CASE writer # NoWriter
      <3>1. clock' = [sequence |-> clock.sequence + 1, sent |-> TRUE, ring |-> clock.ring]
        BY <1>19, <1>t, <2>2 DEF PingTick, Clocks
      <3>2. \A i \in DOMAIN wire : wire[i] <= clock.sequence + 1 /\ wire[i] # clock.sequence + 1
        BY <1>t
      <3>3. CASE writer.link = link /\ rpc # "away"
        <4>1. /\ DOMAIN wire' = 1..(Len(wire) + 1) /\ DOMAIN wire = 1..Len(wire)
              /\ Len(wire) \in Nat
              /\ \A i \in DOMAIN wire : wire'[i] = wire[i]
              /\ wire'[Len(wire) + 1] = clock.sequence + 1
          <5>1. wire' = Append(wire, clock.sequence + 1)
            BY <1>19, <2>2, <3>1, <3>3 DEF PingTick
          <5> QED  BY <1>t, <5>1
        <4>2. \A i \in DOMAIN wire' : wire'[i] <= clock.sequence + 1
          BY <1>t, <3>2, <4>1
        <4>3. UNCHANGED <<rpc, link, fresh, swaps, writer>>
          BY <1>19 DEF PingTick, rvars
        <4> QED  BY <3>1, <3>3, <4>2, <4>3
      <3>4. CASE ~(writer.link = link /\ rpc # "away")
        BY <1>19, <1>t, <2>2, <3>1, <3>2, <3>4 DEF PingTick, rvars
      <3> QED  BY <3>3, <3>4
    <2> QED  BY <2>1, <2>2
  <1>20. CASE Hear        BY <1>20 DEF Hear, rvars, wvars
  <1>21. CASE SendCommand BY <1>21 DEF SendCommand, rvars, wvars
  <1>22. CASE UNCHANGED vars  BY <1>22 DEF vars, rvars, wvars
  <1> QED
    BY <1>1, <1>2, <1>3, <1>4, <1>5, <1>6, <1>7, <1>8, <1>9, <1>10, <1>11, <1>12,
       <1>13, <1>15, <1>16, <1>17, <1>18, <1>19, <1>20, <1>21, <1>22
    DEF Next, ReadThread, WriteThread

\* The invariant the run checks: who holds which half of which link, what each swap in
\* the channel stands for and whose round trips the ring holds, at every step.
THEOREM InductiveInvariant == Spec => []IInv
  <1>1. Init => RingInv
    BY DEF Init, RingInv, RingOn, RingNeverMixesLinks, IsInstall, NoWriter
  <1>2. Spec => [](HandoffInv /\ RingInv)
    BY <1>1, RingInvStep, HandoffCorrect, PTL DEF Spec
  <1>3. HandoffInv /\ RingInv => IInv  BY DEF HandoffInv, IInv
  <1> QED  BY <1>2, <1>3, PTL

\* No mean of round trips is taken over two connections.
THEOREM RingSound == Spec => []RingNeverMixesLinks
  <1>1. IInv => RingNeverMixesLinks  BY DEF IInv, RingInv
  <1> QED  BY <1>1, InductiveInvariant, PTL

----------------------------------------------------------------------------
(* A later entry on the same link.                                         *)

InRing(ring, l) == \E i \in DOMAIN ring : ring[i] = l

\* The Install a link's first entry sends is the only one of that link to clear the ring, and
\* until it is applied no ping of the link was sent and no sample of it filed.
FreshInv ==
    /\ \A i \in DOMAIN clock.ring : clock.ring[i] <= link
    /\ fresh => rpc \in {"away", "park"}
    /\ fresh /\ rpc = "park" =>
          /\ ~InRing(clock.ring, link) /\ writer.link # link /\ wire = <<>>
          /\ \A i \in DOMAIN swaps : IsInstall(i) => swaps[i].writer.link # link
    /\ \A i \in DOMAIN swaps : IsInstall(i) /\ swaps[i].fresh =>
          /\ ~InRing(clock.ring, swaps[i].writer.link) /\ writer.link # swaps[i].writer.link
          /\ swaps[i].writer.link = link => wire = <<>>
    /\ \A i, j \in DOMAIN swaps :
          i < j /\ IsInstall(i) /\ IsInstall(j) /\ swaps[i].writer.link = swaps[j].writer.link
          => ~swaps[j].fresh

\* The ring an Install leaves holds no more than the ring it found.
LEMMA FreshInvSwaps ==
    ASSUME TypeOK, Numbered, NoneAhead, FreshInv, ApplySwap, UNCHANGED <<rvars, wire>>
    PROVE  FreshInv'
  <1> USE DEF IsInstall
  <1>1. /\ swaps \in Seq(Swaps) /\ swaps # <<>> /\ clock \in Clocks /\ writer \in Writers
        /\ link \in Nat
    BY DEF TypeOK, ApplySwap
  <1>2. /\ \A i \in DOMAIN swaps' : i + 1 \in DOMAIN swaps /\ swaps'[i] = swaps[i + 1]
                                     /\ i \in Nat /\ 1 < i + 1
        /\ Head(swaps) = swaps[1] /\ 1 \in DOMAIN swaps /\ Head(swaps) \in Swaps
    BY <1>1, TailFacts DEF ApplySwap
  <1>3. \A i \in DOMAIN swaps : IsInstall(i) => swaps[i].writer \in Halves
    BY <1>1 DEF Swaps
  <1>4. clock' = clock \/ clock' = Cleared(clock)
    BY DEF ApplySwap
  <1>5. \A i \in DOMAIN clock'.ring : i \in DOMAIN clock.ring /\ clock'.ring[i] = clock.ring[i]
    <2>1. clock' = Cleared(clock) => clock'.ring = <<>>
      BY DEF Cleared
    <2> QED  BY <1>4, <2>1
  <1>6. \A l : InRing(clock'.ring, l) => InRing(clock.ring, l)
    BY <1>5 DEF InRing
  <1>7. UNCHANGED <<rpc, link, fresh, wire>>
    BY DEF rvars
  <1>8. \A i \in DOMAIN clock'.ring : clock'.ring[i] <= link
    BY <1>5 DEF FreshInv
  <1>9. \A i, j \in DOMAIN swaps' :
          i < j /\ IsInstall(i)' /\ IsInstall(j)'
             /\ swaps'[i].writer.link = swaps'[j].writer.link
          => ~swaps'[j].fresh
    <2> SUFFICES ASSUME NEW i \in DOMAIN swaps', NEW j \in DOMAIN swaps', i < j,
                        swaps'[i].op = "Install", swaps'[j].op = "Install",
                        swaps'[i].writer.link = swaps'[j].writer.link
                 PROVE  ~swaps'[j].fresh
      OBVIOUS
    <2>1. i + 1 \in DOMAIN swaps /\ j + 1 \in DOMAIN swaps /\ i + 1 < j + 1
      BY <1>2
    <2> QED  BY <1>2, <2>1 DEF FreshInv
  <1>10. \A i \in DOMAIN swaps' : IsInstall(i)' /\ swaps'[i].fresh =>
            /\ ~InRing(clock'.ring, swaps'[i].writer.link)
            /\ writer'.link # swaps'[i].writer.link
            /\ swaps'[i].writer.link = link => wire = <<>>
    <2> SUFFICES ASSUME NEW i \in DOMAIN swaps', swaps'[i].op = "Install", swaps'[i].fresh
                 PROVE  /\ ~InRing(clock'.ring, swaps'[i].writer.link)
                        /\ writer'.link # swaps'[i].writer.link
                        /\ swaps'[i].writer.link = link => wire = <<>>
      OBVIOUS
    <2>1. /\ i + 1 \in DOMAIN swaps /\ 1 < i + 1 /\ swaps'[i] = swaps[i + 1]
      BY <1>2
    <2>2. ~InRing(clock.ring, swaps[i + 1].writer.link) /\ (swaps[i + 1].writer.link = link => wire = <<>>)
      BY <2>1 DEF FreshInv
    <2>3. swaps[i + 1].writer \in Halves
      BY <1>3, <2>1
    <2>4. CASE Head(swaps).op = "Install"
      <3>1. writer' = swaps[1].writer /\ swaps[1].op = "Install"
        BY <1>2, <2>4 DEF ApplySwap
      <3>2. swaps[1].writer.link # swaps[i + 1].writer.link
        BY <1>2, <2>1, <3>1 DEF FreshInv
      <3>3. swaps[1].writer \in Halves /\ swaps[1] \in Swaps
        BY <1>2, <1>3, <3>1
      <3> QED  BY <1>6, <2>1, <2>2, <3>1, <3>2, <3>3 DEF Halves, Swaps
    <2>5. CASE Head(swaps).op = "Reclaim"
      <3>1. writer' = NoWriter
        BY <2>5 DEF ApplySwap
      <3> QED  BY <1>2, <1>6, <2>1, <2>2, <2>3, <2>5, <3>1 DEF NoWriter, Halves, Links
    <2> QED  BY <2>4, <2>5 DEF ApplySwap
  <1>11. fresh /\ rpc = "park" =>
            /\ ~InRing(clock'.ring, link) /\ writer'.link # link /\ wire = <<>>
            /\ \A i \in DOMAIN swaps' : IsInstall(i)' => swaps'[i].writer.link # link
    <2> SUFFICES ASSUME fresh, rpc = "park"
                 PROVE  /\ ~InRing(clock'.ring, link) /\ writer'.link # link /\ wire = <<>>
                        /\ \A i \in DOMAIN swaps' : IsInstall(i)' => swaps'[i].writer.link # link
      OBVIOUS
    <2>1. /\ ~InRing(clock.ring, link) /\ wire = <<>> /\ link >= 1
          /\ \A i \in DOMAIN swaps : IsInstall(i) => swaps[i].writer.link # link
      BY DEF FreshInv, Numbered
    <2>2. writer'.link # link
      BY <1>1, <1>2, <2>1 DEF ApplySwap, NoWriter
    <2> QED  BY <1>2, <1>6, <2>1, <2>2
  <1> HIDE DEF IsInstall
  <1> QED  BY <1>7, <1>8, <1>9, <1>10, <1>11 DEF FreshInv

LEMMA FreshInvStep ==
    ASSUME TypeOK, Numbered, NoneAhead, FreshInv, [Next]_vars
    PROVE  FreshInv'
  <1>t. /\ swaps \in Seq(Swaps) /\ clock \in Clocks /\ Len(clock.ring) <= RttRing
        /\ writer \in Writers /\ link \in 0 .. MaxLinks /\ wire \in Seq(0 .. MaxPings)
        /\ MaxLinks \in Nat
    BY BoundsAssumption DEF TypeOK
  <1>c. Cleared(clock).ring = <<>>
    BY DEF Cleared
  <1>1. CASE Connect
    <2>1. link' = link + 1 /\ wire' = <<>> /\ UNCHANGED <<swaps, writer, clock>> /\ rpc' = "park"
      BY <1>1 DEF Connect, wvars
    <2>2. \A i \in DOMAIN clock.ring : clock.ring[i] <= link /\ clock.ring[i] \in Nat
      BY <1>t DEF FreshInv, Clocks, Links
    <2>3. /\ writer.link <= link /\ writer.link \in Nat
          /\ \A i \in DOMAIN swaps : IsInstall(i) =>
                swaps[i].writer.link <= link /\ swaps[i].writer.link \in Nat
      BY <1>t DEF NoneAhead, Writers, NoWriter, Halves, Swaps, Links, IsInstall
    <2>4. ~InRing(clock'.ring, link')
      BY <1>t, <2>1, <2>2 DEF InRing
    <2>5. writer'.link # link' /\ \A i \in DOMAIN swaps' : IsInstall(i)' => swaps'[i].writer.link # link'
      BY <1>t, <2>1, <2>3 DEF IsInstall
    <2>6. \A l : InRing(clock'.ring, l) = InRing(clock.ring, l)
      BY <2>1 DEF InRing
    <2>7. \A i \in DOMAIN clock'.ring : clock'.ring[i] <= link'
      BY <1>t, <2>1, <2>2
    <2> QED  BY <2>1, <2>4, <2>5, <2>6, <2>7 DEF FreshInv, IsInstall, InRing
  <1>2. CASE DropParked
    BY <1>2 DEF DropParked, wvars, FreshInv, InRing, IsInstall
  <1>3. CASE Repark
    BY <1>3, <1>c DEF Repark, wvars, FreshInv, InRing, IsInstall
  <1>4. CASE LoseLink
    BY <1>4, <1>c DEF LoseLink, wvars, FreshInv, InRing, IsInstall
  <1>5. CASE EnterWorld
    <2> DEFINE half == [link |-> link, entry |-> entry + 1]
               new  == [op |-> "Install", writer |-> half, fresh |-> fresh]
    <2>1. /\ rpc = "park" /\ ~fresh' /\ rpc' = "installed"
          /\ swaps' = Append(swaps, new)
          /\ UNCHANGED <<link, clock, writer, wire>>
      BY <1>5 DEF EnterWorld, wvars
    <2>2. /\ Len(swaps) \in Nat /\ DOMAIN swaps = 1 .. Len(swaps)
          /\ DOMAIN swaps' = 1 .. Len(swaps) + 1
          /\ \A i \in DOMAIN swaps : swaps'[i] = swaps[i]
          /\ swaps'[Len(swaps) + 1] = new
      BY <1>t, <2>1
    <2>3. new.op = "Install" /\ new.writer.link = link /\ new.fresh = fresh
      OBVIOUS
    <2> HIDE DEF new, half
    <2>4. \A l : InRing(clock'.ring, l) = InRing(clock.ring, l)
      BY <2>1 DEF InRing
    <2>5. ASSUME NEW i \in DOMAIN swaps', IsInstall(i)', swaps'[i].fresh
          PROVE  /\ ~InRing(clock.ring, swaps'[i].writer.link) /\ writer.link # swaps'[i].writer.link
                 /\ swaps'[i].writer.link = link => wire = <<>>
      <3>1. CASE i \in DOMAIN swaps
        BY <2>2, <2>5, <3>1 DEF FreshInv, IsInstall
      <3>2. CASE i = Len(swaps) + 1
        BY <2>1, <2>2, <2>3, <2>5, <3>2 DEF FreshInv
      <3> QED  BY <2>2, <3>1, <3>2
    <2>6. ASSUME NEW i \in DOMAIN swaps', NEW j \in DOMAIN swaps', i < j,
                 IsInstall(i)', IsInstall(j)', swaps'[i].writer.link = swaps'[j].writer.link
          PROVE  ~swaps'[j].fresh
      <3>1. i \in DOMAIN swaps /\ swaps'[i] = swaps[i] /\ IsInstall(i)
        BY <2>2, <2>6 DEF IsInstall
      <3>2. CASE j \in DOMAIN swaps
        BY <2>2, <2>6, <3>1, <3>2 DEF FreshInv, IsInstall
      <3>3. CASE j = Len(swaps) + 1
        BY <2>1, <2>2, <2>3, <2>6, <3>1, <3>3 DEF FreshInv
      <3> QED  BY <2>2, <3>2, <3>3
    <2> QED  BY <2>1, <2>4, <2>5, <2>6 DEF FreshInv
  <1>6. CASE Announce
    BY <1>6 DEF Announce, wvars, FreshInv, InRing, IsInstall
  <1>7. CASE ReadPong
    <2>1. /\ rpc = "stream" /\ wire # <<>> /\ UNCHANGED <<rpc, link, fresh, swaps, writer>>
          /\ wire' = Tail(wire)
      BY <1>7 DEF ReadPong, rvars, wvars
    <2>2. link \in Links /\ Head(wire) \in 0 .. MaxPings
      BY <1>t, <2>1, TailFacts, BoundsAssumption DEF Numbered, Links
    <2>3. \A i \in DOMAIN clock'.ring :
             clock'.ring[i] = link \/ \E j \in DOMAIN clock.ring : clock'.ring[i] = clock.ring[j]
      <3>1. clock'.ring = IF clock.sent /\ clock.sequence = Head(wire)
                          THEN Filed(clock.ring, link) ELSE clock.ring
        BY <1>7, <1>t, <2>2, ClockFacts DEF ReadPong
      <3>2. \A i \in DOMAIN Filed(clock.ring, link) :
               Filed(clock.ring, link)[i] = link
               \/ \E j \in DOMAIN clock.ring : Filed(clock.ring, link)[i] = clock.ring[j]
        BY <1>t, <2>2, FiledFacts DEF Clocks
      <3> QED  BY <3>1, <3>2
    <2>4. \A l : InRing(clock'.ring, l) => InRing(clock.ring, l) \/ l = link
      BY <2>3 DEF InRing
    <2>5. ~fresh /\ \A i \in DOMAIN swaps : IsInstall(i) /\ swaps[i].fresh
                                            => swaps[i].writer.link # link
      BY <2>1 DEF FreshInv
    <2>6. \A i \in DOMAIN clock'.ring : clock'.ring[i] <= link
      BY <1>t, <2>3 DEF FreshInv
    <2> QED  BY <2>1, <2>4, <2>5, <2>6 DEF FreshInv, IsInstall
  <1>8. CASE StrayPong
    <2>1. wire # <<>> /\ UNCHANGED <<rvars, swaps, clock, writer>>
      BY <1>8 DEF StrayPong, wvars
    <2> QED  BY <2>1 DEF FreshInv, InRing, IsInstall, rvars
  <1>9. CASE EndWorld
    BY <1>9 DEF EndWorld, wvars, FreshInv, InRing, IsInstall
  <1>10. CASE AnnounceEnd
    BY <1>10 DEF AnnounceEnd, wvars, FreshInv, InRing, IsInstall
  <1>11. CASE Reclaim
    <2>1. /\ rpc' = "await" /\ swaps' = Append(swaps, [op |-> "Reclaim"])
          /\ rpc = "reclaim" /\ UNCHANGED <<link, fresh, clock, writer, wire>>
      BY <1>11 DEF Reclaim, wvars
    <2>2. /\ Len(swaps) \in Nat /\ DOMAIN swaps = 1 .. Len(swaps)
          /\ DOMAIN swaps' = 1 .. Len(swaps) + 1
          /\ \A i \in DOMAIN swaps : swaps'[i] = swaps[i]
          /\ swaps'[Len(swaps) + 1].op = "Reclaim"
      BY <1>t, <2>1
    <2>3. \A i \in DOMAIN swaps' : IsInstall(i)' =>
             i \in DOMAIN swaps /\ IsInstall(i) /\ swaps'[i] = swaps[i]
      BY <2>2 DEF IsInstall
    <2>4. \A l : InRing(clock'.ring, l) = InRing(clock.ring, l)
      BY <2>1 DEF InRing
    <2>5. ~fresh
      BY <2>1 DEF FreshInv
    <2> QED  BY <2>1, <2>3, <2>4, <2>5 DEF FreshInv
  <1>12. CASE Rejoin
    BY <1>12 DEF Rejoin, wvars, FreshInv, InRing, IsInstall
  <1>13. CASE RejoinFails
    BY <1>13, <1>c DEF RejoinFails, wvars, FreshInv, InRing, IsInstall
  <1>14. CASE TakeSwap
    BY <1>14, FreshInvSwaps DEF TakeSwap
  <1>15. CASE DrainSwap
    BY <1>15, FreshInvSwaps DEF DrainSwap
  <1>16. CASE TakeCommand
    BY <1>16 DEF TakeCommand, rvars, FreshInv, InRing, IsInstall
  <1>17. CASE Dispose
    BY <1>17 DEF Dispose, rvars, FreshInv, InRing, IsInstall
  <1>18. CASE PingTick
    <2>1. /\ UNCHANGED <<rvars, swaps, writer>>
          /\ clock'.ring = clock.ring
          /\ wire' = wire \/ (writer.link = link /\ rpc # "away")
      BY <1>18, <1>t DEF PingTick, Clocks
    <2>2. \A l : InRing(clock'.ring, l) = InRing(clock.ring, l)
      BY <2>1 DEF InRing
    <2> QED  BY <2>1, <2>2 DEF FreshInv, IsInstall, rvars
  <1>19. CASE Hear
    BY <1>19 DEF Hear, rvars, wvars, FreshInv, InRing, IsInstall
  <1>20. CASE SendCommand
    BY <1>20 DEF SendCommand, rvars, wvars, FreshInv, InRing, IsInstall
  <1>21. CASE UNCHANGED vars
    BY <1>21 DEF vars, rvars, wvars, FreshInv, InRing, IsInstall
  <1> QED
    BY <1>1, <1>2, <1>3, <1>4, <1>5, <1>6, <1>7, <1>8, <1>9, <1>10, <1>11, <1>12, <1>13,
       <1>14, <1>15, <1>16, <1>17, <1>18, <1>19, <1>20, <1>21
    DEF Next, ReadThread, WriteThread

THEOREM FreshInvHolds == Spec => []FreshInv
  <1>1. Init => FreshInv
    BY DEF Init, FreshInv, InRing, NoWriter, IsInstall
  <1>2. IInv => TypeOK /\ Numbered /\ NoneAhead  BY DEF IInv
  <1>3. TypeOK /\ Numbered /\ NoneAhead /\ FreshInv /\ [Next]_vars => FreshInv'
    BY FreshInvStep
  <1> QED  BY <1>1, <1>2, <1>3, InductiveInvariant, PTL DEF Spec

\* A later entry on the same link keeps the connection's round trips, for every number of links,
\* entries and pings (SameLinkKeepsRing).
THEOREM RingKept == Spec => SameLinkKeepsRing
  <1>1. TypeOK /\ FreshInv /\ [Next]_vars =>
          [writer' \notin {writer, NoWriter}
              /\ (\E i \in DOMAIN clock.ring : clock.ring[i] = writer'.link)
           => clock' = clock]_vars
    <2> SUFFICES ASSUME TypeOK, FreshInv, Next, writer' \notin {writer, NoWriter},
                        InRing(clock.ring, writer'.link)
                 PROVE  clock' = clock
      BY DEF InRing
    <2>1. ApplySwap
      BY DEF Next, ReadThread, WriteThread, Connect, DropParked, Repark, LoseLink, EnterWorld,
             Announce, ReadPong, StrayPong, EndWorld, AnnounceEnd, Reclaim, Rejoin, RejoinFails,
             TakeSwap, TakeCommand, DrainSwap, Dispose, PingTick, Hear, SendCommand, wvars
    <2>2. Head(swaps).op = "Install" /\ writer' = Head(swaps).writer
      BY <2>1 DEF ApplySwap
    <2>3. 1 \in DOMAIN swaps /\ Head(swaps) = swaps[1]
      BY <2>1, TailFacts DEF ApplySwap, TypeOK
    <2>4. Head(swaps).fresh => ~InRing(clock.ring, writer'.link)
      BY <2>2, <2>3 DEF FreshInv, IsInstall
    <2>5. ~Head(swaps).fresh => clock' = clock
      BY <2>1, <2>2 DEF ApplySwap
    <2> QED  BY <2>4, <2>5
  <1>2. IInv => TypeOK  BY DEF IInv
  <1> QED  BY <1>1, <1>2, InductiveInvariant, FreshInvHolds, PTL DEF Spec, SameLinkKeepsRing

============================================================================
