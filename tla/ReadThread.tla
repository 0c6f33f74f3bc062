----------------------------- MODULE ReadThread -----------------------------
(***************************************************************************)
(* The read thread of benilla-app's net bridge (net/io.rs: run, world,     *)
(* login_park, logon_park): one connection cycle after another, parked for *)
(* credentials, at the realm list or at character select, or streaming.    *)
(* It shares with the app the two request channels, the event channel and  *)
(* the abandon generation a Cancel bumps.                                  *)
(*                                                                         *)
(* The generation is read at stage boundaries and the request channel is   *)
(* drained at three places; each is a step of its own, so the app may act  *)
(* between any two.  A request taken off a channel and its answer are one  *)
(* step, the app being unable to tell them apart.  Left out: the keypad,   *)
(* character create, delete and rename, addon and guild news, the writer's *)
(* hand-over (WriterHandoff), the thread's end with the app.               *)
(***************************************************************************)
EXTENDS Integers, Sequences

CONSTANTS MaxLinks \* bound: world sessions authenticated (WORLD_EPOCH)

ASSUME MaxLinksAssumption == MaxLinks \in Nat

VARIABLES
    pc,       \* where the thread is
    logonGen, \* the generation the login request it serves was stamped with
    dialGen,  \* the generation the realm it dials was asked under
    queued,   \* this dial was told of the realm's queue
    epoch,    \* WORLD_EPOCH: the number of the last world session
    returns,  \* times a logout or a refusal brought the session back to the park
    gen,      \* the abandon generation
    loginQ,   \* the credentials channel, each request its generation
    parkQ,    \* the park channel
    events    \* the event channel

threadVars == <<pc, logonGen, dialGen, queued, epoch, returns>>
channels   == <<loginQ, parkQ, events>>
readVars   == <<threadVars, gen, channels>>

Dialling == {"dial", "handshake", "connecting", "asked", "queue", "failWorld",
             "drainWorld", "announce"}
InWorld  == {"stream", "loggedOut", "refused"}
AtLogon  == {"logon", "failLogon", "drainLogon", "publish"}

ReadInit ==
    /\ pc = "login" /\ logonGen = 0 /\ dialGen = 0 /\ queued = FALSE
    /\ epoch = 0 /\ returns = 0
    /\ gen = 0 /\ loginQ = <<>> /\ parkQ = <<>> /\ events = <<>>

----------------------------------------------------------------------------
Stage(s) == [kind |-> "Stage", stage |-> s]
List(r)  == [kind |-> "List", reply |-> r]
Lost     == [kind |-> "Lost"]

Goto(where) == pc' = where
Emit(e)     == events' = Append(events, e)
NextAsk     == Head(parkQ)
TakeAsk(a)  == parkQ # <<>> /\ NextAsk.ask = a /\ parkQ' = Tail(parkQ)
Drain       == parkQ' = <<>>

Canceled(g) == gen # g

\* query: the list, no answer on a link that stands, or a failure that empties it.
Replies == {"ok", "failed", "emptied"}

\* A request that has nothing to act on where the thread parks is dropped.
Ignore(asks) ==
    /\ \E a \in asks : TakeAsk(a)
    /\ UNCHANGED <<threadVars, gen, loginQ, events>>

\* A login request, at any park: the next logon begins, telling its first stage.
TakeLogin ==
    /\ pc \in {"login", "park", "charPark"}
    /\ loginQ # <<>>
    /\ logonGen' = Head(loginQ) /\ loginQ' = Tail(loginQ)
    /\ Emit(Stage("Connecting")) /\ Goto("logon")
    /\ UNCHANGED <<dialGen, queued, epoch, returns, gen, parkQ>>

\* login_park: a list query fails at once, anything else is dropped.
LoginPark ==
    /\ pc = "login"
    /\ \/ /\ TakeAsk("Refresh") /\ Emit(List("failed"))
          /\ UNCHANGED <<threadVars, gen, loginQ>>
       \/ Ignore({"Dial", "Close", "Leave", "Play", "Abandon", "Enumerate"})

\* The logon against realmd ends; a cancelled one is dropped, a failed one is told.
LogonEnds ==
    /\ pc = "logon"
    /\ IF Canceled(logonGen) THEN Goto("login")
       ELSE \E to \in {"failLogon", "drainLogon"} : Goto(to)
    /\ UNCHANGED <<logonGen, dialGen, queued, epoch, returns, gen, channels>>

\* realmd refuses, its challenge or its proof asking for a patch (0x0A) or not, or is lost.
FailLogon ==
    /\ pc = "failLogon"
    /\ \E why \in {"failed", "challenge0A", "proof0A"} : Emit([kind |-> "Failed", why |-> why])
    /\ Goto("login")
    /\ UNCHANGED <<logonGen, dialGen, queued, epoch, returns, gen, loginQ, parkQ>>

\* An answer queued during a dead cycle must not answer this list.
DrainLogon ==
    /\ pc = "drainLogon"
    /\ Drain /\ Goto("publish")
    /\ UNCHANGED <<logonGen, dialGen, queued, epoch, returns, gen, loginQ, events>>

Publish ==
    /\ pc = "publish"
    /\ \E r \in {"ok", "emptied"} : Emit(List(r))
    /\ Goto("park")
    /\ UNCHANGED <<logonGen, dialGen, queued, epoch, returns, gen, loginQ, parkQ>>

\* A list query at either park over a realmd link.
Query ==
    /\ pc \in {"park", "charPark"}
    /\ TakeAsk("Refresh")
    /\ \E r \in Replies : Emit(List(r))
    /\ UNCHANGED <<threadVars, gen, loginQ>>

\* The app's realm, under the generation it asked with; from the character park the
\* session standing there is dropped for it.
TakeDial ==
    /\ pc \in {"park", "charPark"}
    /\ TakeAsk("Dial")
    /\ dialGen' = NextAsk.gen /\ queued' = FALSE /\ Goto("dial")
    /\ UNCHANGED <<logonGen, epoch, returns, gen, loginQ, events>>

LogonPark ==
    /\ pc = "park"
    /\ \/ /\ TakeAsk("Close") /\ Goto("login")
          /\ UNCHANGED <<logonGen, dialGen, queued, epoch, returns, gen, loginQ, events>>
       \/ Ignore({"Leave", "Play", "Abandon", "Enumerate"})

----------------------------------------------------------------------------
(* The world half.                                                         *)

\* A check of the generation: a cancelled dial goes back to the logon park in silence.
CheckDial(from, onward) ==
    /\ pc = from
    /\ IF Canceled(dialGen) THEN Goto("park") ELSE \E to \in onward : Goto(to)
    /\ UNCHANGED <<logonGen, dialGen, queued, epoch, returns, gen, channels>>

BeginDial == CheckDial("dial", {"handshake"})

Handshake ==
    /\ pc = "handshake"
    /\ Emit(Stage("Handshaking")) /\ Goto("connecting")
    /\ UNCHANGED <<logonGen, dialGen, queued, epoch, returns, gen, loginQ, parkQ>>

\* connect_queued's socket opens and on_queue is told, or the dial fails.
SocketUp ==
    /\ pc = "connecting"
    /\ Emit(Stage("WorldConnected")) /\ Goto("asked")
    /\ UNCHANGED <<logonGen, dialGen, queued, epoch, returns, gen, loginQ, parkQ>>

SocketFails == CheckDial("connecting", {"failWorld"})

\* on_queue's answer: a cancelled dial is abandoned in the queue.
CheckQueue == CheckDial("asked", {"queue"})

\* Bound: one queue packet a dial.
QueuePosition ==
    /\ pc = "queue" /\ ~queued
    /\ Emit([kind |-> "Queued"]) /\ queued' = TRUE /\ Goto("asked")
    /\ UNCHANGED <<logonGen, dialGen, epoch, returns, gen, loginQ, parkQ>>

\* The authentication's end, refused or accepted; a cancel must not be overtaken.
AuthEnds ==
    /\ epoch < MaxLinks
    /\ CheckDial("queue", {"failWorld", "drainWorld"})

\* The last link the bound allows has been made: the dial can only fail.
AuthRefused ==
    /\ epoch = MaxLinks
    /\ CheckDial("queue", {"failWorld"})

FailWorld ==
    /\ pc = "failWorld"
    /\ \E why \in {"failed", "authFailed"} : Emit([kind |-> "Failed", why |-> why])
    /\ Goto("park")
    /\ UNCHANGED <<logonGen, dialGen, queued, epoch, returns, gen, loginQ, parkQ>>

\* A request queued during a dead cycle must not answer this roster.
DrainWorld ==
    /\ pc = "drainWorld"
    /\ Drain /\ Goto("announce")
    /\ UNCHANGED <<logonGen, dialGen, queued, epoch, returns, gen, loginQ, events>>

\* Mutant of Announce: the session carries the number of the one before it.
AnnounceOldNumber ==
    /\ pc = "announce"
    /\ epoch' = epoch + 1
    /\ Emit([kind |-> "Auth", epoch |-> epoch, gen |-> dialGen])
    /\ Goto("charPark")
    /\ UNCHANGED <<logonGen, dialGen, queued, returns, gen, loginQ, parkQ>>

Announce ==
    /\ pc = "announce"
    /\ epoch' = epoch + 1
    /\ Emit([kind |-> "Auth", epoch |-> epoch + 1, gen |-> dialGen])
    /\ Goto("charPark")
    /\ UNCHANGED <<logonGen, dialGen, queued, returns, gen, loginQ, parkQ>>

\* Back and Leave drop the session, to the login park and to the logon park.
LeaveSession ==
    /\ pc = "charPark"
    /\ \/ TakeAsk("Abandon") /\ Goto("login")
       \/ TakeAsk("Leave") /\ Goto("park")
    /\ UNCHANGED <<logonGen, dialGen, queued, epoch, returns, gen, loginQ, events>>

\* The roster asked for: it comes, or the reply fails it on a link that stays up.
Enumerate ==
    /\ pc = "charPark"
    /\ TakeAsk("Enumerate")
    /\ \/ Emit([kind |-> "Roster", epoch |-> epoch])
       \/ Emit([kind |-> "RosterFailed", epoch |-> epoch, emptied |-> TRUE])
    /\ UNCHANGED <<threadVars, gen, loginQ>>

\* The socket failed under the ask: the query fails and the session ends.
EnumerateLost ==
    /\ pc = "charPark"
    /\ TakeAsk("Enumerate")
    /\ events' = events \o <<[kind |-> "RosterFailed", epoch |-> epoch, emptied |-> FALSE],
                             Lost>>
    /\ Goto("login")
    /\ UNCHANGED <<logonGen, dialGen, queued, epoch, returns, gen, loginQ>>

\* The pick: the login goes out, the writer is installed and the entry is announced.
Play ==
    /\ pc = "charPark"
    /\ TakeAsk("Play")
    /\ Emit([kind |-> "Connected"]) /\ Goto("stream")
    /\ UNCHANGED <<logonGen, dialGen, queued, epoch, returns, gen, loginQ>>

CharPark ==
    \/ LeaveSession \/ Enumerate \/ EnumerateLost \/ Play
    \/ pc = "charPark" /\ Ignore({"Close"})

\* Mutant of LoseLink: the end of the link is not told.
LoseLinkSilently ==
    /\ pc \in {"charPark", "stream"}
    /\ Goto("login")
    /\ UNCHANGED <<logonGen, dialGen, queued, epoch, returns, gen, channels>>

\* The server drops the link, at the park or under the stream.
LoseLink ==
    /\ pc \in {"charPark", "stream"}
    /\ Emit(Lost) /\ Goto("login")
    /\ UNCHANGED <<logonGen, dialGen, queued, epoch, returns, gen, loginQ, parkQ>>

\* A logout or a refused login read off the stream: the asks made in the world go first.
DrainBack(to) ==
    /\ pc = "stream"
    /\ Drain /\ Goto(to)
    /\ UNCHANGED <<logonGen, dialGen, queued, epoch, returns, gen, loginQ, events>>

\* The app hears of the return, then the session is joined again at the park.
BackToPark ==
    /\ pc \in {"loggedOut", "refused"}
    /\ Emit([kind |-> IF pc = "loggedOut" THEN "LoggedOut" ELSE "Refused"])
    /\ returns' = returns + 1 /\ Goto("charPark")
    /\ UNCHANGED <<logonGen, dialGen, queued, epoch, gen, loginQ, parkQ>>

----------------------------------------------------------------------------
\* What the thread does of itself once a request or the server's answer is there.
ReadStep ==
    \/ TakeLogin \/ LoginPark \/ LogonEnds \/ FailLogon \/ DrainLogon \/ Publish
    \/ Query \/ TakeDial \/ LogonPark
    \/ BeginDial \/ Handshake \/ SocketUp \/ SocketFails \/ CheckQueue \/ QueuePosition
    \/ AuthEnds \/ AuthRefused \/ FailWorld \/ DrainWorld \/ Announce
    \/ CharPark \/ BackToPark

\* What the server may do and need not; a logout is an answer to the app's, asked in the world.
ServerStep(inWorld) ==
    \/ LoseLink
    \/ DrainBack("refused")
    \/ inWorld /\ DrainBack("loggedOut")

----------------------------------------------------------------------------
(* The thread under any app: requests of any kind and number may come at   *)
(* any time, the generation may move, and the events are read as a whole.  *)

AppStep == UNCHANGED threadVars /\ events' \in {events, <<>>}

ThreadSpec == ReadInit /\ [][ReadStep \/ ServerStep(TRUE) \/ AppStep]_readVars

\* What the events told leave standing: no world session, one parked, or one in the world.
Phase == IF pc = "charPark" THEN "parked" ELSE IF pc \in InWorld THEN "world" ELSE "none"

\* Whatever the app asks and whenever, the thread's events keep the session protocol.
Protocol == INSTANCE SessionProtocol WITH phase <- Phase, link <- epoch
KeepsProtocol == Protocol!Spec
=============================================================================
