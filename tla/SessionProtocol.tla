-------------------------- MODULE SessionProtocol --------------------------
(***************************************************************************)
(* What the app may rely on in the order of the read thread's session      *)
(* events (benilla-protocol's SessionEvent as net/io.rs sends it): a world *)
(* session is authenticated under a number never used before, its rosters  *)
(* carry that number, the world is entered only from a session parked at   *)
(* character select, a logout or a refused login leads back there, and the *)
(* loss of a session is told once, after everything else told of it.       *)
(*                                                                         *)
(* phase is what the events told so far leave standing; events is the      *)
(* channel, which the app empties as it pleases.                           *)
(***************************************************************************)
EXTENDS Naturals, Sequences

VARIABLES
    phase,   \* "none", "parked" at character select, or "world"
    link,    \* the number of the last session authenticated
    events,  \* told and not yet read
    dialGen  \* an input: the generation of the dial under way

protocolVars == <<phase, link, events>>

Tell(e) == events' = Append(events, e)

\* News of a logon or a dial, which makes no session and ends none in the world.
Asides == [kind : {"Stage"}, stage : {"Connecting", "Handshaking", "WorldConnected"}]
          \cup [kind : {"List"}, reply : {"ok", "failed", "emptied"}]
          \cup [kind : {"Failed"}, why : {"failed", "authFailed", "challenge0A", "proof0A"}]
          \cup [kind : {"Queued"}]

Init == phase = "none" /\ link = 0 /\ events = <<>>

Read == events' = <<>> /\ UNCHANGED <<phase, link>>

\* A session left behind, for a new logon or a new dial, is dropped without a word of its own.
Drop ==
    /\ phase = "parked" /\ phase' = "none"
    /\ UNCHANGED <<link, events>>

TellAside ==
    /\ phase # "world" /\ phase' \in {phase, "none"}
    /\ \E e \in Asides : Tell(e)
    /\ UNCHANGED link

Authenticate ==
    /\ phase = "none" /\ phase' = "parked" /\ link' = link + 1
    /\ Tell([kind |-> "Auth", epoch |-> link + 1, gen |-> dialGen])

Roster ==
    /\ phase = "parked"
    /\ \/ Tell([kind |-> "Roster", epoch |-> link])
       \/ Tell([kind |-> "RosterFailed", epoch |-> link, emptied |-> TRUE])
    /\ UNCHANGED <<phase, link>>

Enter ==
    /\ phase = "parked" /\ phase' = "world"
    /\ Tell([kind |-> "Connected"]) /\ UNCHANGED link

Return ==
    /\ phase = "world" /\ phase' = "parked"
    /\ \E kind \in {"LoggedOut", "Refused"} : Tell([kind |-> kind])
    /\ UNCHANGED link

\* The session is lost, under a roster ask or not.
Lose ==
    /\ phase \in {"parked", "world"} /\ phase' = "none"
    /\ \/ Tell([kind |-> "Lost"])
       \/ /\ phase = "parked"
          /\ events' = events \o <<[kind |-> "RosterFailed", epoch |-> link, emptied |-> FALSE],
                                   [kind |-> "Lost"]>>
    /\ UNCHANGED link

Next == Read \/ Drop \/ TellAside \/ Authenticate \/ Roster \/ Enter \/ Return \/ Lose

Spec == Init /\ [][Next]_protocolVars
=============================================================================
