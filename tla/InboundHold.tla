------------------------------ MODULE InboundHold ------------------------------
(***************************************************************************)
(* The frame's inbound bridge (net/apply.rs): the world session's events   *)
(* wait, from its Connected, behind the interface load its entry owes      *)
(* (ui_script/lifecycle.rs), while the read thread keeps posting and the   *)
(* session may end at any moment.                                          *)
(*                                                                         *)
(* A frame is First and PreUpdate (Load), StateTransition, the drain of    *)
(* the channel, the admission of each event in turn, and the dispatch with *)
(* the session edges behind it.  Only the read thread runs between them.   *)
(* Pongs never reach the channel (net/io.rs answers them itself).          *)
(***************************************************************************)
EXTENDS Integers, Sequences

CONSTANTS MaxPosts,     \* bound: events the read thread posts
          CoverFrames   \* COVER_PRESENT_FRAMES

ASSUME HoldBounds == MaxPosts \in Nat /\ CoverFrames \in Nat \ {0}

VARIABLES
    \* The read thread.
    link,      \* "down", "park", "world", or "ended" between a logout and its Disconnected
    asked,     \* the app's request not yet taken: "dial", "play" or "none"
    posts,     \* events posted
    chan,      \* the event channel
    \* The app.
    at,        \* the frame's next system
    client,    \* State<ClientState>
    next,      \* NextState<ClientState>, "none" when no transition is owed
    load,      \* PendingEntryUiLoad stands
    cover,     \* EntryCover's frames, counted no further than CoverFrames
    hold,      \* InboundHold
    arrived,   \* the drain's events not yet admitted
    out,       \* the frame's dispatch
    handled    \* everything dispatched so far (history)

readVars == <<link, asked, posts, chan>>
appVars  == <<at, client, next, load, cover, hold, arrived, out, handled>>
vars     == <<readVars, appVars>>

Kinds == {"Auth", "Connected", "Packet", "LoggedOut", "Refused", "Gone", "Lost"}
Posted == [kind : Kinds, n : 1 .. MaxPosts]

\* Disconnected (a lost session's or a logout's), LoggedOut, CharacterLoginFailed.
Ends == {"LoggedOut", "Refused", "Gone", "Lost"}

Hold == [holding |-> FALSE, armed |-> FALSE, held |-> <<>>]

Init ==
    /\ link = "down" /\ asked = "none" /\ posts = 0 /\ chan = <<>>
    /\ at = "load" /\ client = "Login" /\ next = "none"
    /\ load = FALSE /\ cover = 0
    /\ hold = Hold /\ arrived = <<>> /\ out = <<>> /\ handled = <<>>

----------------------------------------------------------------------------
(* The read thread: the session's life as net/io.rs posts it.              *)

Post(kind) ==
    /\ posts < MaxPosts
    /\ posts' = posts + 1
    /\ chan' = Append(chan, [kind |-> kind, n |-> posts + 1])
    /\ UNCHANGED appVars

\* A realm is dialled, from the parked session of another too: a session authenticates.
Authenticate ==
    /\ link \in {"down", "park"} /\ asked = "dial" /\ Post("Auth")
    /\ link' = "park" /\ asked' = "none"

\* The login goes out and is announced with it.
Connect ==
    /\ link = "park" /\ asked = "play" /\ Post("Connected")
    /\ link' = "world" /\ asked' = "none"

Packet ==
    /\ link = "world" /\ Post("Packet")
    /\ UNCHANGED <<link, asked>>

\* SMSG_CHARACTER_LOGIN_FAILED may come any time; a logout is the interface's ask.  Requests
\* made of the world just left are drained.
EndWorld ==
    /\ link = "world"
    /\ \/ Post("Refused")
       \/ client = "InWorld" /\ ~load /\ Post("LoggedOut")
    /\ link' = "ended" /\ asked' = "none"

\* The teardown edge of a kept link, Disconnected{LoggedOut}.
Teardown ==
    /\ link = "ended" /\ Post("Gone")
    /\ link' = "park" /\ UNCHANGED asked

Lose ==
    /\ link # "down" /\ Post("Lost")
    /\ link' = "down" /\ asked' = "none"

ReadThread == Authenticate \/ Connect \/ Packet \/ EndWorld \/ Teardown \/ Lose

----------------------------------------------------------------------------
(* The app's frame.                                                        *)

\* EntryCover::presented.
Presented(frames) == frames = 0 \/ frames = CoverFrames

\* count_entry_cover, then run_pending_entry_load: the armed load runs once the cover is on
\* the glass, and is dropped when the world was left first.
Load ==
    /\ at = "load" /\ at' = "transition"
    /\ \E covering \in BOOLEAN :
          cover' = IF covering /\ client = "InWorld"
                   THEN IF cover = CoverFrames THEN cover ELSE cover + 1
                   ELSE 0
    /\ load' = (load /\ client = "InWorld" /\ ~Presented(cover'))
    /\ UNCHANGED <<readVars, client, next, hold, arrived, out, handled>>

\* StateTransition: leaving the world drops an armed load (close_ui_session), entering it
\* arms one (arm_entry_ui_load).
Transition ==
    /\ at = "transition" /\ at' = "drain"
    /\ client' = IF next = "none" THEN client ELSE next
    /\ load' = (next = "InWorld" \/ (load /\ (next = "none" \/ client # "InWorld")))
    /\ next' = "none"
    /\ UNCHANGED <<readVars, cover, hold, arrived, out, handled>>

\* Mutant of Drain: the hold lets go as soon as no transition is owed.
DrainEarly ==
    LET entering == next = "InWorld" /\ ~hold.armed
        released == hold.holding /\ ~entering
    IN /\ at = "drain" /\ at' = "admit"
       /\ arrived' = chan /\ chan' = <<>>
       /\ out' = IF released THEN hold.held ELSE <<>>
       /\ hold' = IF released THEN Hold ELSE hold
       /\ UNCHANGED <<link, asked, posts, client, next, load, cover, handled>>

\* Mutant of Drain: the hold waits for a load that is not coming.
DrainArmedOnly ==
    LET released == hold.holding /\ ~load /\ hold.armed
    IN /\ at = "drain" /\ at' = "admit"
       /\ arrived' = chan /\ chan' = <<>>
       /\ out' = IF released THEN hold.held ELSE <<>>
       /\ hold' = IF released THEN Hold
                  ELSE IF hold.holding /\ load THEN [hold EXCEPT !.armed = TRUE] ELSE hold
       /\ UNCHANGED <<link, asked, posts, client, next, load, cover, handled>>

\* try_iter over the channel and release: held events go out once the load has run, or once
\* none is coming.
Drain ==
    LET entering == next = "InWorld" /\ ~hold.armed
        released == hold.holding /\ ~load /\ ~entering
    IN /\ at = "drain" /\ at' = "admit"
       /\ arrived' = chan /\ chan' = <<>>
       /\ out' = IF released THEN hold.held ELSE <<>>
       /\ hold' = IF released THEN Hold
                  ELSE IF hold.holding /\ load THEN [hold EXCEPT !.armed = TRUE] ELSE hold
       /\ UNCHANGED <<link, asked, posts, client, next, load, cover, handled>>

\* Mutant of AdmitEnd: the end overtakes what is held.
AdmitEndFirst(e) ==
    /\ e.kind \in Ends /\ hold.holding
    /\ out' = Append(out, e) \o hold.held /\ hold' = Hold

\* Mutant of AdmitEnd: what is held is sent on and kept.
AdmitEndKeeps(e) ==
    /\ e.kind \in Ends /\ hold.holding
    /\ out' = Append(out \o hold.held, e) /\ hold' = [hold EXCEPT !.holding = FALSE]

\* admit: the next event joins the dispatch or the held ones.
AdmitEnd(e) ==
    /\ e.kind \in Ends /\ hold.holding
    /\ out' = Append(out \o hold.held, e) /\ hold' = Hold

AdmitHeld(e) ==
    /\ e.kind \notin Ends /\ hold.holding
    /\ hold' = [hold EXCEPT !.held = Append(@, e)] /\ out' = out

AdmitPast(e) ==
    /\ ~hold.holding
    /\ out' = Append(out, e)
    /\ hold' = [hold EXCEPT !.holding = (e.kind = "Connected")]

Admit ==
    /\ at = "admit" /\ arrived # <<>> /\ arrived' = Tail(arrived)
    /\ \/ AdmitEnd(Head(arrived))
       \/ AdmitHeld(Head(arrived))
       \/ AdmitPast(Head(arrived))
    /\ UNCHANGED <<readVars, at, client, next, load, cover, handled>>

Some(kind) == \E i \in DOMAIN out : out[i].kind = kind

\* session_edges, the later of the chain's systems last.
EdgesNext ==
    IF Some("Lost") THEN "Login"
    ELSE IF Some("Refused") THEN "CharSelect"
    ELSE IF Some("Connected") THEN "InWorld"
    ELSE IF Some("LoggedOut") THEN "CharSelect"
    ELSE "none"

\* LoginPolicy: an authentication at the login screen, or the player's Disconnect at
\* character select.
PolicyNexts ==
    {"none"} \cup (IF client = "Login" /\ Some("Auth") THEN {"CharSelect"} ELSE {})
             \cup (IF client = "CharSelect" THEN {"Login"} ELSE {})

\* dispatch, then the edges and the policy in either order.
Dispatch ==
    /\ at = "admit" /\ arrived = <<>> /\ at' = "load"
    /\ handled' = handled \o out /\ out' = <<>>
    /\ \E policy \in PolicyNexts :
          \/ next' = IF policy = "none" THEN EdgesNext ELSE policy
          \/ next' = IF EdgesNext = "none" THEN policy ELSE EdgesNext
    /\ UNCHANGED <<readVars, client, load, cover, hold, arrived>>

\* The player dials a realm, or enters the world from character select.
Ask ==
    /\ at = "load" /\ next = "none" /\ asked = "none"
    /\ \/ client # "InWorld" /\ asked' = "dial"
       \/ client = "CharSelect" /\ asked' = "play"
    /\ UNCHANGED <<link, posts, chan, appVars>>

AppFrame == Load \/ Transition \/ Drain \/ Admit \/ Dispatch

Next == ReadThread \/ AppFrame \/ Ask

Spec == Init /\ [][Next]_vars

\* The frames keep coming.
FairSpec == Spec /\ WF_vars(AppFrame)

----------------------------------------------------------------------------
(* Properties.                                                             *)

Clients == {"Login", "CharSelect", "InWorld"}

\* Types; nothing is held and no arm remembered without a hold, and a dispatch is under way only
\* between the drain and its end.
TypeOK ==
    /\ link \in {"down", "park", "world", "ended"} 
    /\ asked \in {"none", "dial", "play"}
    /\ posts \in 0 .. MaxPosts /\ chan \in Seq(Posted)
    /\ at \in {"load", "transition", "drain", "admit"}
    /\ client \in Clients /\ next \in Clients \cup {"none"}
    /\ load \in BOOLEAN /\ cover \in 0 .. CoverFrames
    /\ hold \in [holding : BOOLEAN, armed : BOOLEAN, held : Seq(Posted)]
    /\ arrived \in Seq(Posted) /\ out \in Seq(Posted) /\ handled \in Seq(Posted)
    /\ ~hold.holding => hold = Hold
    /\ at # "admit" => arrived = <<>> /\ out = <<>>

\* Events are dispatched once and in wire order, the held ones among them.
InOrder == INSTANCE WireOrder WITH Events    <- Posted,
                                   pending   <- out \o hold.held \o arrived \o chan,
                                   delivered <- handled

KeepsWireOrder == InOrder!OrderSpec

\* The world entry that a dispatched packet belongs to still owes its interface load: the load
\* stands armed, or the entry's Connected goes out in this very dispatch.
Owed(i) == load \/ \E j \in 1 .. i - 1 : out[j].kind = "Connected"

\* No world packet is handled ahead of its entry's interface (InboundHold): one dispatched
\* while the load is owed has its session's end behind it in the same dispatch.
HeldBehindLoad ==
    [][handled' # handled =>
         \A i \in DOMAIN out : out[i].kind = "Packet" /\ Owed(i)
             => \E j \in i + 1 .. Len(out) : out[j].kind \in Ends]_vars

\* Whatever is held is let go: the load runs, or none is coming, or the session ends.
HoldEnds == hold.holding ~> ~hold.holding
=============================================================================
