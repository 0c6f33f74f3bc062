-------------------------- MODULE ReadThread_proofs --------------------------
(***************************************************************************)
(* ReadThread keeps SessionProtocol, whatever the app asks and whenever.   *)
(*                                                                         *)
(* The mapping is Phase, a function of pc alone, so no invariant of the    *)
(* thread is needed: every step of it tells at most one thing, from a      *)
(* place where the protocol allows it.  One step of the proof per action.  *)
(***************************************************************************)
EXTENDS ReadThread, TLAPS

ProtocolStep == Protocol!Next \/ UNCHANGED <<Phase, epoch, events>>

\* What each place of the thread leaves standing.
LEMMA PhaseNow ==
    /\ pc = "charPark" => Phase = "parked"
    /\ pc \in InWorld => Phase = "world"
    /\ pc # "charPark" /\ pc \notin InWorld => Phase = "none"
  BY DEF Phase, InWorld

LEMMA PhaseNext ==
    /\ pc' = "charPark" => Phase' = "parked"
    /\ pc' \in InWorld => Phase' = "world"
    /\ pc' # "charPark" /\ pc' \notin InWorld => Phase' = "none"
  BY DEF Phase, InWorld

\* The news of a logon or a dial is an aside of the protocol.
LEMMA StageIsAside ==
    \A s \in {"Connecting", "Handshaking", "WorldConnected"} : Stage(s) \in Protocol!Asides
  BY DEF Stage, Protocol!Asides

LEMMA ListIsAside == \A r \in Replies : List(r) \in Protocol!Asides
  BY DEF List, Replies, Protocol!Asides

\* An aside told while no world is entered, the session kept or dropped, is a protocol step.
LEMMA AsideStep ==
    ASSUME NEW e \in Protocol!Asides, events' = Append(events, e), epoch' = epoch,
           Phase # "world", Phase' \in {Phase, "none"}
    PROVE  ProtocolStep
  BY DEF ProtocolStep, Protocol!Next, Protocol!TellAside, Protocol!Tell

\* A step that tells nothing keeps what stands, or drops a parked session.
LEMMA SilentStep ==
    ASSUME UNCHANGED <<epoch, events>>,
           Phase' = Phase \/ (Phase = "parked" /\ Phase' = "none")
    PROVE  ProtocolStep
  <1>1. CASE Phase' = Phase
    BY <1>1 DEF ProtocolStep
  <1>2. CASE Phase = "parked" /\ Phase' = "none"
    BY <1>2 DEF ProtocolStep, Protocol!Next, Protocol!Drop
  <1> QED BY <1>1, <1>2

LEMMA IgnoreStep ==
    ASSUME NEW asks, Ignore(asks)
    PROVE  ProtocolStep
  <1>1. UNCHANGED <<epoch, events>> /\ pc' = pc
    BY DEF Ignore, threadVars
  <1>2. Phase' = Phase
    BY <1>1 DEF Phase
  <1> QED BY <1>1, <1>2, SilentStep

LEMMA CheckStep ==
    ASSUME NEW from, NEW onward, CheckDial(from, onward),
           from \in Dialling, onward \subseteq Dialling
    PROVE  ProtocolStep
  <1>1. UNCHANGED <<epoch, events>>
    BY DEF CheckDial, channels
  <1>2. pc \in Dialling /\ pc' \in Dialling \cup {"park"}
    BY DEF CheckDial, Goto, Dialling
  <1>3. Phase = "none" /\ Phase' = "none"
    BY <1>2, PhaseNow, PhaseNext DEF Dialling, InWorld
  <1> QED BY <1>1, <1>3, SilentStep

LEMMA ReadStepKeeps ==
    ASSUME ReadStep
    PROVE  ProtocolStep
  <1>1. CASE TakeLogin
    <2>1. Phase # "world" /\ Phase' = "none"
      BY <1>1, PhaseNow, PhaseNext DEF TakeLogin, Goto, InWorld
    <2>2. epoch' = epoch /\ events' = Append(events, Stage("Connecting"))
      BY <1>1 DEF TakeLogin, Emit
    <2> QED BY <2>1, <2>2, StageIsAside, AsideStep
  <1>2. CASE LoginPark
    <2>1. CASE \E asks : Ignore(asks)
      BY <2>1, IgnoreStep
    <2>2. CASE pc = "login" /\ Emit(List("failed")) /\ UNCHANGED threadVars
      <3>1. Phase = "none" /\ Phase' = Phase /\ epoch' = epoch
        BY <2>2, PhaseNow DEF Phase, threadVars, InWorld
      <3> QED BY <2>2, <3>1, ListIsAside, AsideStep DEF Emit, Replies
    <2> QED BY <1>2, <2>1, <2>2 DEF LoginPark
  <1>3. CASE LogonEnds
    <2>1. pc = "logon" /\ pc' \in {"login", "failLogon", "drainLogon"}
      BY <1>3 DEF LogonEnds, Goto
    <2>2. Phase' = Phase
      BY <2>1, PhaseNow, PhaseNext DEF InWorld
    <2>3. UNCHANGED <<epoch, events>>
      BY <1>3 DEF LogonEnds, channels
    <2> QED BY <2>2, <2>3, SilentStep
  <1>4. CASE FailLogon
    <2>1. Phase = "none" /\ Phase' = "none" /\ epoch' = epoch
      BY <1>4, PhaseNow, PhaseNext DEF FailLogon, Goto, InWorld
    <2>2. PICK why \in {"failed", "challenge0A", "proof0A"} : Emit([kind |-> "Failed", why |-> why])
      BY <1>4 DEF FailLogon
    <2>3. [kind |-> "Failed", why |-> why] \in Protocol!Asides
      BY DEF Protocol!Asides
    <2> QED BY <2>1, <2>2, <2>3, AsideStep DEF Emit
  <1>5. CASE DrainLogon
    <2>1. Phase = "none" /\ Phase' = "none"
      BY <1>5, PhaseNow, PhaseNext DEF DrainLogon, Goto, InWorld
    <2> QED BY <1>5, <2>1, SilentStep DEF DrainLogon
  <1>6. CASE Publish
    <2>1. Phase = "none" /\ Phase' = "none" /\ epoch' = epoch
      BY <1>6, PhaseNow, PhaseNext DEF Publish, Goto, InWorld
    <2>2. PICK r \in {"ok", "emptied"} : Emit(List(r))
      BY <1>6 DEF Publish
    <2> QED BY <2>1, <2>2, ListIsAside, AsideStep DEF Emit, Replies
  <1>7. CASE Query
    <2>1. pc' = pc /\ epoch' = epoch /\ pc \notin InWorld
      BY <1>7 DEF Query, threadVars, InWorld
    <2>2. Phase' = Phase /\ Phase # "world"
      BY <2>1, PhaseNow DEF Phase
    <2>3. PICK r \in Replies : Emit(List(r))
      BY <1>7 DEF Query
    <2> QED BY <2>1, <2>2, <2>3, ListIsAside, AsideStep DEF Emit
  <1>8. CASE TakeDial
    <2>1. Phase \in {"none", "parked"} /\ Phase' = "none"
      BY <1>8, PhaseNow, PhaseNext DEF TakeDial, Goto, InWorld
    <2>2. UNCHANGED <<epoch, events>>
      BY <1>8 DEF TakeDial
    <2> QED BY <2>1, <2>2, SilentStep
  <1>9. CASE LogonPark
    <2>1. CASE \E asks : Ignore(asks)
      BY <2>1, IgnoreStep
    <2>2. CASE pc = "park" /\ Goto("login") /\ UNCHANGED <<epoch, events>>
      <3>1. Phase = "none" /\ Phase' = "none"
        BY <2>2, PhaseNow, PhaseNext DEF Goto, InWorld
      <3> QED BY <2>2, <3>1, SilentStep
    <2> QED BY <1>9, <2>1, <2>2 DEF LogonPark
  <1>10. CASE BeginDial
    BY <1>10, CheckStep DEF BeginDial, Dialling
  <1>11. CASE Handshake
    <2>1. Phase = "none" /\ Phase' = "none" /\ epoch' = epoch
      BY <1>11, PhaseNow, PhaseNext DEF Handshake, Goto, InWorld
    <2> QED BY <1>11, <2>1, StageIsAside, AsideStep DEF Handshake, Emit
  <1>12. CASE SocketUp
    <2>1. Phase = "none" /\ Phase' = "none" /\ epoch' = epoch
      BY <1>12, PhaseNow, PhaseNext DEF SocketUp, Goto, InWorld
    <2> QED BY <1>12, <2>1, StageIsAside, AsideStep DEF SocketUp, Emit
  <1>13. CASE SocketFails
    BY <1>13, CheckStep DEF SocketFails, Dialling
  <1>14. CASE CheckQueue
    BY <1>14, CheckStep DEF CheckQueue, Dialling
  <1>15. CASE QueuePosition
    <2>1. Phase = "none" /\ Phase' = "none" /\ epoch' = epoch
      BY <1>15, PhaseNow, PhaseNext DEF QueuePosition, Goto, InWorld
    <2>2. [kind |-> "Queued"] \in Protocol!Asides
      BY DEF Protocol!Asides
    <2> QED BY <1>15, <2>1, <2>2, AsideStep DEF QueuePosition, Emit
  <1>16. CASE AuthEnds
    BY <1>16, CheckStep DEF AuthEnds, Dialling
  <1>17. CASE AuthRefused
    BY <1>17, CheckStep DEF AuthRefused, Dialling
  <1>18. CASE FailWorld
    <2>1. Phase = "none" /\ Phase' = "none" /\ epoch' = epoch
      BY <1>18, PhaseNow, PhaseNext DEF FailWorld, Goto, InWorld
    <2>2. PICK why \in {"failed", "authFailed"} : Emit([kind |-> "Failed", why |-> why])
      BY <1>18 DEF FailWorld
    <2>3. [kind |-> "Failed", why |-> why] \in Protocol!Asides
      BY DEF Protocol!Asides
    <2> QED BY <2>1, <2>2, <2>3, AsideStep DEF Emit
  <1>19. CASE DrainWorld
    <2>1. Phase = "none" /\ Phase' = "none"
      BY <1>19, PhaseNow, PhaseNext DEF DrainWorld, Goto, InWorld
    <2> QED BY <1>19, <2>1, SilentStep DEF DrainWorld
  <1>20. CASE Announce
    <2>1. Phase = "none" /\ Phase' = "parked"
      BY <1>20, PhaseNow, PhaseNext DEF Announce, Goto, InWorld
    <2>2. Protocol!Authenticate
      BY <1>20, <2>1 DEF Announce, Emit, Protocol!Authenticate, Protocol!Tell
    <2> QED BY <2>2 DEF ProtocolStep, Protocol!Next
  <1>21. CASE CharPark
    <2>1. CASE \E asks : Ignore(asks)
      BY <2>1, IgnoreStep
    <2>2. CASE LeaveSession
      <3>1. Phase = "parked" /\ Phase' = "none"
        BY <2>2, PhaseNow, PhaseNext DEF LeaveSession, Goto, InWorld
      <3> QED BY <2>2, <3>1, SilentStep DEF LeaveSession
    <2>3. CASE Enumerate
      <3>1. Phase = "parked" /\ UNCHANGED <<Phase, epoch>>
        BY <2>3, PhaseNow DEF Enumerate, threadVars, Phase
      <3>2. Protocol!Roster
        BY <2>3, <3>1 DEF Enumerate, Emit, Protocol!Roster, Protocol!Tell
      <3> QED BY <3>2 DEF ProtocolStep, Protocol!Next
    <2>4. CASE EnumerateLost
      <3>1. Phase = "parked" /\ Phase' = "none"
        BY <2>4, PhaseNow, PhaseNext DEF EnumerateLost, Goto, InWorld
      <3>2. Protocol!Lose
        BY <2>4, <3>1 DEF EnumerateLost, Lost, Protocol!Lose, Protocol!Tell
      <3> QED BY <3>2 DEF ProtocolStep, Protocol!Next
    <2>5. CASE Play
      <3>1. Phase = "parked" /\ Phase' = "world"
        BY <2>5, PhaseNow, PhaseNext DEF Play, Goto, InWorld
      <3>2. Protocol!Enter
        BY <2>5, <3>1 DEF Play, Emit, Protocol!Enter, Protocol!Tell
      <3> QED BY <3>2 DEF ProtocolStep, Protocol!Next
    <2> QED BY <1>21, <2>1, <2>2, <2>3, <2>4, <2>5 DEF CharPark
  <1>22. CASE BackToPark
    <2>1. Phase = "world" /\ Phase' = "parked"
      BY <1>22, PhaseNow, PhaseNext DEF BackToPark, Goto, InWorld
    <2>2. Protocol!Return
      BY <1>22, <2>1 DEF BackToPark, Emit, Protocol!Return, Protocol!Tell
    <2> QED BY <2>2 DEF ProtocolStep, Protocol!Next
  <1> QED BY <1>1, <1>2, <1>3, <1>4, <1>5, <1>6, <1>7, <1>8, <1>9, <1>10, <1>11, <1>12,
             <1>13, <1>14, <1>15, <1>16, <1>17, <1>18, <1>19, <1>20, <1>21, <1>22
          DEF ReadStep

LEMMA ServerStepKeeps ==
    ASSUME ServerStep(TRUE)
    PROVE  ProtocolStep
  <1>1. CASE LoseLink
    <2>1. Phase \in {"parked", "world"} /\ Phase' = "none"
      BY <1>1, PhaseNow, PhaseNext DEF LoseLink, Goto, InWorld
    <2>2. Protocol!Lose
      BY <1>1, <2>1 DEF LoseLink, Emit, Lost, Protocol!Lose, Protocol!Tell
    <2> QED BY <2>2 DEF ProtocolStep, Protocol!Next
  <1>2. CASE \E to \in {"loggedOut", "refused"} : DrainBack(to)
    <2>1. Phase = "world" /\ Phase' = "world"
      BY <1>2, PhaseNow, PhaseNext DEF DrainBack, Goto, InWorld
    <2> QED BY <1>2, <2>1, SilentStep DEF DrainBack
  <1> QED BY <1>1, <1>2 DEF ServerStep

LEMMA AppStepKeeps ==
    ASSUME AppStep
    PROVE  ProtocolStep
  <1>1. Phase' = Phase /\ epoch' = epoch
    BY DEF AppStep, threadVars, Phase
  <1> QED BY <1>1 DEF AppStep, ProtocolStep, Protocol!Next, Protocol!Read

\* Under any app, the thread's session events keep the session protocol: numbers never reused,
\* rosters of the standing link, entry only from the park, the loss told once and last.
THEOREM ProtocolKept == ThreadSpec => KeepsProtocol
  <1>1. ReadInit => Protocol!Init
    BY DEF ReadInit, Protocol!Init, Phase, InWorld
  <1>2. [ReadStep \/ ServerStep(TRUE) \/ AppStep]_readVars
        => [Protocol!Next]_<<Phase, epoch, events>>
    <2>1. ASSUME UNCHANGED readVars
          PROVE  UNCHANGED <<Phase, epoch, events>>
      BY <2>1 DEF readVars, threadVars, channels, Phase
    <2> QED BY <2>1, ReadStepKeeps, ServerStepKeeps, AppStepKeeps DEF ProtocolStep
  <1> QED BY <1>1, <1>2, PTL DEF ThreadSpec, KeepsProtocol, Protocol!Spec, Protocol!protocolVars
=============================================================================
