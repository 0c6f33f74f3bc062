--------------------------- MODULE WriterHandoff ---------------------------
(***************************************************************************)
(* The two net threads of benilla-app (net/io.rs) and what they share: the *)
(* read thread parks on a link at character select, splits it at a world   *)
(* entry and hands the writing half to the write thread on the swap        *)
(* channel, and takes it back after a logout.  The write thread serves     *)
(* swaps, app commands and the keepalive with one select!.  The ping clock *)
(* is under one lock and touched by both.                                  *)
(*                                                                         *)
(* A link is a world connection, numbered; an entry is a world entry,      *)
(* numbered over all links.  A half pair is named by both.                 *)
(***************************************************************************)
EXTENDS Integers, Sequences

CONSTANTS MaxLinks,     \* bound: world connections made
          MaxEntries,   \* bound: world entries made
          MaxPings,     \* bound: keepalives sent
          CommandQueue, \* bound: commands waiting in the command channel
          RttRing       \* RTT_RING, the round trips the clock keeps

ASSUME BoundsAssumption ==
    /\ MaxLinks \in Nat /\ MaxEntries \in Nat /\ CommandQueue \in Nat
    /\ MaxPings \in Nat
    /\ RttRing \in Nat \ {0}

VARIABLES
    rpc,       \* where the read thread is
    link,      \* the link it holds or held last (WORLD_EPOCH)
    entry,     \* the last world entry
    fresh,     \* world()'s fresh_link: the link has made no entry yet
    swaps,     \* the swap channel, read thread to write thread
    reply,     \* the one-slot channel the last Reclaim carried
    wpc,       \* "select", or "draining" with a command in hand
    inHand,    \* the command the write thread took
    writer,    \* writer_loop's writer
    pingArmed, \* ping_tick is a timer, not never()
    clock,     \* PingClock
    wire,      \* pings of the current link the server has not answered
    cmds,      \* the command channel
    events,    \* the session events the app has not drained
    heard      \* the entry the app is in, 0 for none

rvars == <<rpc, link, entry, fresh>>
wvars == <<wpc, inHand, writer, pingArmed>>
avars == <<cmds, heard>>
vars  == <<rvars, swaps, reply, wvars, clock, wire, avars, events>>

----------------------------------------------------------------------------
Links    == 1..MaxLinks
Entries  == 1..MaxEntries
NoWriter == [link |-> 0, entry |-> 0]
Halves   == [link : Links, entry : Entries]
Writers  == Halves \cup {NoWriter}
Swaps    == [op : {"Install"}, writer : Halves, fresh : BOOLEAN]
                \cup [op : {"Reclaim"}]
\* The reply channel: whether its sender is still held, and the writer in its slot.
Replies  == [open : BOOLEAN, slot : Writers]
Pending  == [open |-> TRUE, slot |-> NoWriter]
Gone     == [open |-> FALSE, slot |-> NoWriter]
Events   == [kind : {"Connected"}, entry : Entries]
                \cup [kind : {"LoggedOut", "Disconnected"}]

Clocks   == [sequence : 0..MaxPings, sent : BOOLEAN, ring : Seq(Links)]

\* The halves into_split makes of the current link for the current entry.
OwnHalf == [link |-> link, entry |-> entry]

\* PingClock::clear: the round trips and the send stamp go, the sequence stays.
Cleared(c) == [sequence |-> c.sequence, sent |-> FALSE, ring |-> <<>>]

\* Mutant of Filed: a full ring keeps its oldest sample.
FiledUnbounded(ring, l) == Append(ring, l)

\* file_rtt: the oldest sample goes when the ring is full.
Filed(ring, l) ==
    Append(IF Len(ring) = RttRing THEN Tail(ring) ELSE ring, l)

\* record_pong, a sample named by the link it was read on.
RecordPong(c, sequence, l) ==
    IF c.sent /\ c.sequence = sequence THEN [c EXCEPT !.ring = Filed(@, l)]
                                       ELSE c

TypeOK ==
    /\ rpc \in {"away", "park", "installed", "stream", "ended", "reclaim", "await"}
    /\ link \in 0..MaxLinks
    /\ entry \in 0..MaxEntries
    /\ fresh \in BOOLEAN
    /\ swaps \in Seq(Swaps)
    /\ reply \in Replies
    /\ wpc \in {"select", "draining"}
    /\ inHand \in 0..MaxEntries
    /\ writer \in Writers
    /\ pingArmed \in BOOLEAN
    /\ clock \in Clocks
    /\ Len(clock.ring) <= RttRing
    /\ wire \in Seq(0..MaxPings)
    /\ cmds \in Seq(0..MaxEntries)
    /\ events \in Seq(Events)
    /\ heard \in 0..MaxEntries

Init ==
    /\ rpc = "away" /\ link = 0 /\ entry = 0 /\ fresh = TRUE
    /\ swaps = <<>> /\ reply = Gone
    /\ wpc = "select" /\ inHand = 0 /\ writer = NoWriter /\ pingArmed = FALSE
    /\ clock = [sequence |-> 0, sent |-> FALSE, ring |-> <<>>]
    /\ wire = <<>> /\ cmds = <<>> /\ events = <<>> /\ heard = 0

----------------------------------------------------------------------------
(* The read thread.                                                        *)

\* A world connect that was authenticated: the session parks at character select.
Connect ==
    /\ rpc = "away" /\ link < MaxLinks
    /\ rpc' = "park" /\ link' = link + 1 /\ fresh' = TRUE
    /\ wire' = <<>>
    /\ UNCHANGED <<entry, swaps, reply, wvars, clock, avars, events>>

\* Change Realm, Leave or a new login drops the parked session within the cycle.
DropParked ==
    /\ rpc = "park"
    /\ rpc' = "away"
    /\ UNCHANGED <<link, entry, fresh, swaps, reply, wvars, clock, wire, avars, events>>

\* Select's Back ends the cycle; the next cycle starts with no round trips.
Repark ==
    /\ rpc = "park"
    /\ rpc' = "away" /\ clock' = Cleared(clock)
    /\ UNCHANGED <<link, entry, fresh, swaps, reply, wvars, wire, avars, events>>

\* The socket failed at the park or under the stream: Disconnected{Lost}, a new cycle.
\* The writer of a streaming link stays where it is.
LoseLink ==
    /\ rpc \in {"park", "stream"}
    /\ rpc' = "away" /\ clock' = Cleared(clock)
    /\ events' = Append(events, [kind |-> "Disconnected"])
    /\ UNCHANGED <<link, entry, fresh, swaps, reply, wvars, wire, avars>>

\* Mutant of EnterWorld: no entry is the link's first.
EnterWorldNeverFresh ==
    /\ rpc = "park" /\ entry < MaxEntries
    /\ entry' = entry + 1 /\ fresh' = FALSE /\ rpc' = "installed"
    /\ swaps' = Append(swaps, [op |-> "Install",
                               writer |-> [link |-> link, entry |-> entry + 1],
                               fresh |-> FALSE])
    /\ UNCHANGED <<link, reply, wvars, clock, wire, avars, events>>

\* Mutant of EnterWorld: fresh_link is copied, not taken.
EnterWorldAlwaysFresh ==
    /\ rpc = "park" /\ entry < MaxEntries
    /\ entry' = entry + 1 /\ rpc' = "installed"
    /\ swaps' = Append(swaps, [op |-> "Install",
                               writer |-> [link |-> link, entry |-> entry + 1],
                               fresh |-> fresh])
    /\ UNCHANGED <<link, fresh, reply, wvars, clock, wire, avars, events>>

\* CMSG_PLAYER_LOGIN, into_split, and the Install ahead of the announcement.
EnterWorld ==
    /\ rpc = "park" /\ entry < MaxEntries
    /\ entry' = entry + 1 /\ fresh' = FALSE /\ rpc' = "installed"
    /\ swaps' = Append(swaps, [op |-> "Install",
                               writer |-> [link |-> link, entry |-> entry + 1],
                               fresh |-> fresh])
    /\ UNCHANGED <<link, reply, wvars, clock, wire, avars, events>>

Announce ==
    /\ rpc = "installed"
    /\ rpc' = "stream"
    /\ events' = Append(events, [kind |-> "Connected", entry |-> entry])
    /\ UNCHANGED <<link, entry, fresh, swaps, reply, wvars, clock, wire, avars>>

\* SMSG_PONG off the streaming socket, timed inline.
ReadPong ==
    /\ rpc = "stream" /\ wire # <<>>
    /\ clock' = RecordPong(clock, Head(wire), link)
    /\ wire' = Tail(wire)
    /\ UNCHANGED <<rvars, swaps, reply, wvars, avars, events>>

\* The parked session reads a pong left in flight past as a stray.
StrayPong ==
    /\ rpc = "park" /\ wire # <<>>
    /\ wire' = Tail(wire)
    /\ UNCHANGED <<rvars, swaps, reply, wvars, clock, avars, events>>

\* SMSG_LOGOUT_COMPLETE or a refused character login ends the stream.
EndWorld ==
    /\ rpc = "stream"
    /\ rpc' = "ended" /\ events' = Append(events, [kind |-> "LoggedOut"])
    /\ UNCHANGED <<link, entry, fresh, swaps, reply, wvars, clock, wire, avars>>

\* The app's teardown edge, Disconnected{LoggedOut}.
AnnounceEnd ==
    /\ rpc = "ended"
    /\ rpc' = "reclaim" /\ events' = Append(events, [kind |-> "Disconnected"])
    /\ UNCHANGED <<link, entry, fresh, swaps, reply, wvars, clock, wire, avars>>

\* reclaim(): the read thread asks, then blocks on the reply.
Reclaim ==
    /\ rpc = "reclaim"
    /\ rpc' = "await" /\ reply' = Pending
    /\ swaps' = Append(swaps, [op |-> "Reclaim"])
    /\ UNCHANGED <<link, entry, fresh, wvars, clock, wire, avars, events>>

\* The writer came back: the halves join and the link parks again.
Rejoin ==
    /\ rpc = "await" /\ reply.slot # NoWriter
    /\ rpc' = "park"
    /\ UNCHANGED <<link, entry, fresh, swaps, reply, wvars, clock, wire, avars, events>>

\* The reply was dropped ("the write thread held no world writer to return"), or
\* rejoin found the socket dead: the cycle ends as a lost link does.
RejoinFails ==
    /\ rpc = "await" /\ reply # Pending
    /\ rpc' = "away" /\ clock' = Cleared(clock)
    /\ events' = Append(events, [kind |-> "Disconnected"])
    /\ UNCHANGED <<link, entry, fresh, swaps, reply, wvars, wire, avars>>

ReadThread ==
    \/ Connect \/ DropParked \/ Repark \/ LoseLink \/ EnterWorld \/ Announce
    \/ ReadPong \/ StrayPong \/ EndWorld \/ AnnounceEnd \/ Reclaim
    \/ Rejoin \/ RejoinFails

----------------------------------------------------------------------------
(* The write thread.                                                       *)

\* Mutant of ApplySwap: an Install leaves a writer that is already there.
ApplySwapIfNone ==
    LET swap == Head(swaps) IN
    /\ swaps # <<>>
    /\ swaps' = Tail(swaps)
    /\ \/ /\ swap.op = "Install"
          /\ writer' = IF writer = NoWriter THEN swap.writer ELSE writer
          /\ clock' = IF swap.fresh THEN Cleared(clock) ELSE clock
          /\ pingArmed' = TRUE
          /\ UNCHANGED reply
       \/ /\ swap.op = "Reclaim"
          /\ writer' = NoWriter
          /\ reply' = [open |-> FALSE, slot |-> writer]
          /\ pingArmed' = FALSE
          /\ UNCHANGED clock

\* Mutant of ApplySwap: a Reclaim answers with the writer and keeps it.
ApplySwapClones ==
    LET swap == Head(swaps) IN
    /\ swaps # <<>>
    /\ swaps' = Tail(swaps)
    /\ \/ /\ swap.op = "Install"
          /\ writer' = swap.writer
          /\ clock' = IF swap.fresh THEN Cleared(clock) ELSE clock
          /\ pingArmed' = TRUE
          /\ UNCHANGED reply
       \/ /\ swap.op = "Reclaim"
          /\ reply' = [open |-> FALSE, slot |-> writer]
          /\ pingArmed' = FALSE
          /\ UNCHANGED <<writer, clock>>

\* apply_swap on the channel's head.
ApplySwap ==
    LET swap == Head(swaps) IN
    /\ swaps # <<>>
    /\ swaps' = Tail(swaps)
    /\ \/ /\ swap.op = "Install"
          /\ writer' = swap.writer
          /\ clock' = IF swap.fresh THEN Cleared(clock) ELSE clock
          /\ pingArmed' = TRUE
          /\ UNCHANGED reply
       \/ /\ swap.op = "Reclaim"
          /\ writer' = NoWriter
          /\ reply' = [open |-> FALSE, slot |-> writer]
          /\ pingArmed' = FALSE
          /\ UNCHANGED clock

\* The select! takes a swap.
TakeSwap ==
    /\ wpc = "select" /\ ApplySwap
    /\ UNCHANGED <<rvars, wpc, inHand, wire, avars, events>>

\* The select! takes a command.
TakeCommand ==
    /\ wpc = "select" /\ cmds # <<>>
    /\ wpc' = "draining" /\ inHand' = Head(cmds) /\ cmds' = Tail(cmds)
    /\ UNCHANGED <<rvars, swaps, reply, writer, pingArmed, clock, wire, heard, events>>

\* A command in hand, every swap already sent is applied first.
DrainSwap ==
    /\ wpc = "draining" /\ ApplySwap
    /\ UNCHANGED <<rvars, wpc, inHand, wire, avars, events>>

\* Mutant of Dispose: the command in hand does not wait for the swaps.
DisposeUndrained ==
    /\ wpc = "draining"
    /\ wpc' = "select"
    /\ UNCHANGED <<rvars, swaps, reply, inHand, writer, pingArmed, clock, wire, avars, events>>

\* try_recv found the channel empty: the command is sent on writer, or dropped
\* when there is none.
Dispose ==
    /\ wpc = "draining" /\ swaps = <<>>
    /\ wpc' = "select"
    /\ UNCHANGED <<rvars, swaps, reply, inHand, writer, pingArmed, clock, wire, avars, events>>

\* The keepalive: stamped, sent and re-armed with a writer, disarmed with none.  The
\* code's dword wraps; at one ping in 30 s no run reaches that.
PingTick ==
    /\ wpc = "select" /\ pingArmed
    /\ IF writer = NoWriter
       THEN pingArmed' = FALSE /\ UNCHANGED <<clock, wire>>
       ELSE /\ clock.sequence < MaxPings
            /\ clock' = [clock EXCEPT !.sequence = @ + 1, !.sent = TRUE]
            /\ wire' = IF writer.link = link /\ rpc # "away"
                       THEN Append(wire, clock'.sequence) ELSE wire
            /\ UNCHANGED pingArmed
    /\ UNCHANGED <<rvars, swaps, reply, wpc, inHand, writer, avars, events>>

WriteThread == TakeSwap \/ TakeCommand \/ DrainSwap \/ Dispose \/ PingTick

----------------------------------------------------------------------------
(* The app: it hears events in order and sends commands whenever it likes. *)

Hear ==
    /\ events # <<>>
    /\ events' = Tail(events)
    /\ heard' = CASE Head(events).kind = "Connected"    -> Head(events).entry
                  [] Head(events).kind = "Disconnected" -> 0
                  [] OTHER                              -> heard
    /\ UNCHANGED <<rvars, swaps, reply, wvars, clock, wire, cmds>>

\* A command carries, for the properties, the entry the app sent it in.
SendCommand ==
    /\ Len(cmds) < CommandQueue
    /\ cmds' = Append(cmds, heard)
    /\ UNCHANGED <<rvars, swaps, reply, wvars, clock, wire, heard, events>>

Next == ReadThread \/ WriteThread \/ Hear \/ SendCommand

Spec == Init /\ [][Next]_vars

\* Both threads run whenever they can: the write thread is never blocked for good
\* on a socket write, and the read thread's own steps past the stream need only it.
Fairness ==
    /\ WF_vars(WriteThread)
    /\ WF_vars(Announce \/ AnnounceEnd \/ Reclaim \/ Rejoin \/ RejoinFails)

FairSpec == Spec /\ Fairness

----------------------------------------------------------------------------
(* Properties.                                                             *)

\* A command the app sends on an entry's announcement is never written to the half
\* of an older entry, a lost link's dead one included, and no command is dropped for
\* want of a writer while an entry is streaming (writer_loop's drain before each
\* command, and the Install sent ahead of Connected).
CommandReachesItsEntry ==
    [][wpc = "draining" /\ wpc' = "select" =>
         IF writer = NoWriter THEN rpc # "stream"
                              ELSE writer.entry >= inHand]_vars

\* The reply a Reclaim waits for is the writer of the entry that just ended: never a
\* lost link's, and never a dropped sender (reclaim's "The install went ahead of this
\* on the same channel, so the writer is there to return").
ReclaimReturnsThisEntrysWriter ==
    rpc = "await" => reply = Pending \/ reply.slot = OwnHalf

\* While the read thread parks on a link, the write thread holds no half of it: the
\* character park's asks and the keepalive or a late command cannot interleave on
\* one socket and its cipher.
ParkedLinkHasNoWriter ==
    rpc = "park" => writer.link # link

\* The latency the app shows is never averaged over two connections, whichever way
\* the older one ended: the ring's round trips were all read on one link (PingClock's
\* clear at the cycle's start and at a fresh link's Install).
RingNeverMixesLinks ==
    \A i, j \in DOMAIN clock.ring : clock.ring[i] = clock.ring[j]

\* A later entry on the same link keeps the connection's ping block (WriterSwap's
\* fresh_link): installing a half of the link the ring was read on clears nothing.
SameLinkKeepsRing ==
    [][writer' \notin {writer, NoWriter}
          /\ (\E i \in DOMAIN clock.ring : clock.ring[i] = writer'.link)
       => clock' = clock]_vars

\* The read thread blocks in reclaim() with no timeout; it gets its writer, however
\* many commands and keepalives the write thread has to serve meanwhile.
ReclaimAnswered == rpc = "await" ~> rpc # "await"

----------------------------------------------------------------------------
(* The inductive invariant behind the safety properties.                   *)

IsInstall(i) == swaps[i].op = "Install"
IsReclaim(i) == swaps[i].op = "Reclaim"

\* The writer the write thread will hold once it has applied every swap sent.
Settled == IF swaps = <<>> THEN writer
           ELSE IF IsInstall(Len(swaps)) THEN swaps[Len(swaps)].writer
           ELSE NoWriter

RingOn(l) == \A i \in DOMAIN clock.ring : clock.ring[i] = l

\* Past its first link and its first entry, the read thread has one to name.
Numbered ==
    /\ rpc # "away" => link >= 1
    /\ rpc \notin {"away", "park"} => entry >= 1

\* No half names a link or an entry not made yet, and what the app heard, queued or
\* had taken is of an entry already made.
NoneAhead ==
    /\ writer.link <= link
    /\ \A i \in DOMAIN swaps : IsInstall(i) => swaps[i].writer.link <= link
    /\ heard <= entry /\ inHand <= entry
    /\ \A i \in DOMAIN cmds : cmds[i] <= entry
    /\ \A i \in DOMAIN events : events[i].kind = "Connected" => events[i].entry <= entry

\* A Reclaim is the last swap sent, the read thread is waiting for it, and it will find
\* the half of the entry that ended.
ReclaimIsLast ==
    \A i \in DOMAIN swaps : IsReclaim(i) =>
        /\ i = Len(swaps) /\ rpc = "await" /\ reply = Pending
        /\ IF i = 1 THEN writer = OwnHalf
                    ELSE IsInstall(i - 1) /\ swaps[i - 1].writer = OwnHalf

\* From the Install to the Reclaim the write thread holds, or is about to, this entry's
\* half; an answered Reclaim returned it and left none; no later half exists.
WriterInv ==
    /\ rpc \in {"installed", "stream", "ended", "reclaim"} => Settled = OwnHalf
    /\ rpc = "await" =>
          \/ swaps # <<>> /\ IsReclaim(Len(swaps))
          \/ swaps = <<>> /\ writer = NoWriter /\ reply.slot = OwnHalf
    /\ Settled # NoWriter => Settled.entry = entry
    /\ rpc = "park" =>
          /\ writer.link # link
          /\ \A i \in DOMAIN swaps : IsInstall(i) => swaps[i].writer.link # link

\* Only round trips of the current link are in the ring whenever its writer is held,
\* is coming without a clear, or has come back; and whenever a pong could be filed.
RingInv ==
    /\ RingNeverMixesLinks
    /\ writer.link = link => RingOn(link)
    /\ \A i \in DOMAIN swaps :
          IsInstall(i) /\ ~swaps[i].fresh /\ swaps[i].writer.link = link => RingOn(link)
    /\ rpc \in {"park", "await"} /\ ~fresh /\ swaps = <<>> => RingOn(link)
    /\ rpc = "park" /\ ~fresh => swaps = <<>>
    /\ \A i \in DOMAIN wire :
          /\ wire[i] <= clock.sequence
          /\ clock.sent /\ wire[i] = clock.sequence => RingOn(link)

IInv == TypeOK /\ Numbered /\ NoneAhead /\ ReclaimIsLast /\ WriterInv /\ RingInv

============================================================================
