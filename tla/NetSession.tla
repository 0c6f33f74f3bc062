----------------------------- MODULE NetSession -----------------------------
(***************************************************************************)
(* A player's session, from the login screen to the world and back: the    *)
(* read thread (ReadThread), the glue manager behind the screens           *)
(* (GlueManager) and the app's systems between them (drive_glue_mgr,       *)
(* login.rs, edges.rs, roster.rs).                                         *)
(*                                                                         *)
(* One Frame drains the event channel, takes at most one press of the      *)
(* player's, runs the manager and the login engine over the news and       *)
(* leaves what they send in out; Send makes those sends and generation     *)
(* bumps one by one, the read thread free to run between them, and the     *)
(* next frame comes after the last.  The run is an attended one: nothing   *)
(* resubmits a login or reconnects by itself.                              *)
(***************************************************************************)
EXTENDS ReadThread, GlueManager, FiniteSets

CONSTANTS MaxPresses,  \* bound: presses the player makes
          Presses,     \* bound: which presses
          Races        \* bound: which of the frame's two order races may happen, see Raced

ASSUME PressesAssumption ==
    /\ MaxPresses \in Nat
    /\ Presses \subseteq {"Login", "Cancel", "Dismiss", "Back", "ShowRealms", "Refresh", "CloseList",
                          "PickRealm", "EnterWorld"}

ASSUME RacesAssumption == Races \subseteq {"pick", "auth"}

VARIABLES
    m,        \* the glue manager
    client,   \* ClientState
    next,     \* NextState, "none" when no transition is owed
    pick,     \* Roster::pending_pick, as the request it is sent in, or NoPick
    heard,    \* logouts and refusals the app has heard of
    out,      \* the sends and bumps the frame has still to make
    presses   \* presses made

appVars == <<m, client, next, pick, heard, out, presses>>
vars    == <<readVars, appVars>>

NoPick  == [ask |-> "None"]
Clients == {"Login", "CharSelect", "InWorld"}

Init ==
    /\ ReadInit
    /\ m = Manager /\ client = "Login" /\ next = "none"
    /\ pick = NoPick /\ heard = 0 /\ out = <<>> /\ presses = 0

\* The frame's news of some kinds.
Of(news, kinds)  == {i \in DOMAIN news : news[i].kind \in kinds}
Some(news, kind) == Of(news, {kind}) # {}
Returned(news)   == Cardinality(Of(news, {"LoggedOut", "Refused"}))

----------------------------------------------------------------------------
(* The player, through the stock Lua: which presses a screen offers.  A    *)
(* Dismiss is the Cancel of a logon dialog that stands and waits for none. *)

\* A status dialog covers the screen; the entry (state 8) shows none.
Dialog(mgr) == mgr.state \in {"Logon", "Connect", "CharList", "RealmList"}
\* The logon dialog that a 0x0A left up, the logon over.
DialogStands(mgr) == mgr.state = "Logon" /\ mgr.stands
AtSelect(mgr) == mgr.screen = "charselect" /\ ~mgr.list /\ mgr.state \in {"Idle", "EnterWorld"}

Offered(mgr, press) ==
    CASE press = "Login"      -> mgr.screen = "login" /\ ~mgr.list /\ mgr.state = "Idle"
      [] press = "Cancel"     -> Dialog(mgr)
      [] press = "Dismiss"    -> DialogStands(mgr)
      [] press = "Back"       -> AtSelect(mgr)
      [] press = "ShowRealms" -> AtSelect(mgr)
      [] press = "Refresh"    -> mgr.list /\ mgr.state = "Idle"
      [] press = "CloseList"  -> mgr.list /\ mgr.state = "Idle"
      [] press = "PickRealm"  -> mgr.list /\ mgr.holder /\ mgr.state = "Idle"
      [] press = "EnterWorld" -> AtSelect(mgr) /\ mgr.rows # 0

\* The realm list's frame hides, its query cancelled.
Hidden(mgr) == [CancelRealmListQuery(mgr) EXCEPT !.list = FALSE]

Pressed(mgr, press) ==
    Pump(CASE press = "none"       -> mgr
           [] press = "Login"      -> Login(mgr)
           [] press \in {"Cancel", "Dismiss"} -> StatusDialogClick(mgr)
           [] press = "Back"       -> [DisconnectFromServer(mgr) EXCEPT !.screen = "login"]
           [] press = "ShowRealms" -> RequestRealmList(mgr)
           [] press = "Refresh"    -> RequestRealmList(mgr)
           [] press = "CloseList"  -> IF mgr.screen = "login"
                                      THEN AskLogin(Hidden(mgr), "Abandon") ELSE Hidden(mgr)
           [] press = "PickRealm"  -> ConnectToRealm(Hidden(mgr))
           [] press = "EnterWorld" -> EnterWorld(mgr, heard + Returned(events)))

----------------------------------------------------------------------------
(* The frame.                                                              *)

\* The manager hears a piece of news; an authentication passed over by a Cancel is none.
Hear(mgr, e) ==
    CASE e.kind = "Stage"        -> OnStage(mgr, e.stage, client # "InWorld")
      [] e.kind = "Queued"       -> OnQueued(mgr)
      [] e.kind = "List"         -> OnList(mgr, e.reply)
      [] e.kind = "Failed"       -> OnFailed(mgr, e.why)
      [] e.kind = "Auth"         -> IF e.gen = gen THEN OnWorldAuthenticated(mgr, e.epoch)
                                                   ELSE mgr
      [] e.kind = "RosterFailed" -> OnRosterFailed(mgr, e.epoch, e.emptied)
      [] e.kind = "Roster"       -> OnRoster(mgr, e.epoch)
      [] e.kind = "Lost"         -> OnLost(mgr)

\* The frame's news of one kind, in their order.
Told(mgr, news, kind) ==
    LET told[i \in 0 .. Len(news)] == IF i = 0 THEN mgr
                                      ELSE IF news[i].kind = kind THEN Hear(told[i - 1], news[i])
                                      ELSE told[i - 1]
    IN told[Len(news)]

\* The head of the frame: the world is no screen, a refusal is taken, a connect put off begins.
BeginFrame(mgr, news, glueUp) ==
    LET heeded == [mgr EXCEPT !.refused = @ \/ Some(news, "Refused")]
    IN Reconnect(IF glueUp THEN TakeRefusal(heeded) ELSE [heeded EXCEPT !.state = "Idle"])

\* A realm list ends the logon that asked for it.
HearLogon(mgr, news) ==
    LET staged == Told(mgr, news, "Stage")
    IN IF Some(news, "List") THEN OnLogonDone(staged) ELSE staged

\* A logon latched final runs its arm ahead of the list it brought.
Latched(mgr) == IF mgr.authFinal THEN Pump(Tick(mgr)) ELSE mgr

HearDial(mgr, news) ==
    FinishAuth(Told(Told(Told(mgr, news, "List"), news, "Failed"), news, "Auth"))

HearSession(mgr, news) ==
    Told(Told(Told(mgr, news, "RosterFailed"), news, "Roster"), news, "Lost")

\* drive_glue_mgr over the frame's news, in its order; in the world the state is 0.
DriveGlueMgr(mgr, news) ==
    LET begun == BeginFrame(mgr, news, client # "InWorld")
        logon == Told(HearLogon(begun, news), news, "Queued")
    IN Pump(Tick(Pump(HearSession(HearDial(Latched(logon), news), news))))

\* send_asks: the realm asks stamped with the generation as it stands.
Sent(asks) ==
    [i \in DOMAIN asks |-> IF asks[i].ask = "Dial" THEN [ask |-> "Dial", gen |-> gen]
                                                   ELSE asks[i]]

Bump   == [ask |-> "Bump"]
Submit == [ask |-> "Submit"]
Close  == [ask |-> "Close"]

\* answer_glue: what each ask of the login engine sends.
Answer(a) ==
    CASE a = "Submit"      -> <<Submit>>
      [] a = "Abandon"     -> <<Bump, Close>>
      [] a = "CancelWorld" -> <<Bump>>
      [] a = "CloseLink"   -> <<Close>>
      [] a = "Disconnect"  -> <<Bump, Close>> \o
                              IF client = "CharSelect" THEN <<[ask |-> "Abandon"]>> ELSE <<>>

Answers(logins) ==
    LET sends[i \in 0 .. Len(logins)] == IF i = 0 THEN <<>>
                                         ELSE sends[i - 1] \o Answer(logins[i])
    IN sends[Len(logins)]

Bumps(sends) == Cardinality({i \in DOMAIN sends : sends[i].ask = "Bump"})

\* Mutant of Abandons: the stale session is left where it parked.
AbandonsNone(news, now) == <<>>

\* to_select_on_auth, after the bumps: a session of a passed attempt is abandoned.
Abandons(news, now) ==
    IF client = "Login" /\ \E i \in DOMAIN news : news[i].kind = "Auth" /\ news[i].gen # now
    THEN <<[ask |-> "Abandon"]>> ELSE <<>>

\* LoginPolicy's transition, "none" for none.
PolicyNext(logins, news, now) ==
    CASE client = "CharSelect" /\ (\E i \in DOMAIN logins : logins[i] = "Disconnect") -> "Login"
      [] client = "Login" /\ (\E i \in DOMAIN news :
                                 news[i].kind = "Auth" /\ news[i].gen = now) -> "CharSelect"
      [] OTHER -> "none"

\* Mutant of EdgesNext: the entry has the last word.
EdgesNextEntryLast(news) ==
    CASE Some(news, "Connected") -> "InWorld"
      [] ~Some(news, "Connected") /\ Some(news, "Lost") -> "Login"
      [] ~Some(news, "Connected") /\ ~Some(news, "Lost") /\ Returned(news) > 0 -> "CharSelect"
      [] OTHER -> "none"

\* The session edges' transition, the later of the chain's systems last.
EdgesNext(news) ==
    CASE Some(news, "Lost")      -> "Login"
      [] ~Some(news, "Lost") /\ Some(news, "Refused") -> "CharSelect"
      [] ~Some(news, "Lost") /\ ~Some(news, "Refused") /\ Some(news, "Connected") -> "InWorld"
      [] ~Some(news, "Lost") /\ ~Some(news, "Refused") /\ ~Some(news, "Connected")
            /\ Some(news, "LoggedOut") -> "CharSelect"
      [] OTHER -> "none"

\* Mutant of KeptPick: a logout or a refusal keeps the pick.
KeptPickThrough(kept, news) == kept

\* The pick the roster policy reads, and what it sends again.
KeptPick(kept, news) == IF Returned(news) > 0 THEN NoPick ELSE kept
Repicks(kept, news)  ==
    IF KeptPick(kept, news) = NoPick THEN <<>>
    ELSE [i \in 1 .. Cardinality(Of(news, {"Roster"})) |-> KeptPick(kept, news)]

\* Mutant of PickAfter: the loss of the session keeps the pick.
PickAfterLoss(kept, news) == KeptPick(kept, news)

PickAfter(kept, news) == IF Some(news, "Lost") THEN NoPick ELSE KeptPick(kept, news)

\* The pick a frame's sends leave pending (send_pick).
PickSent(asks, kept) ==
    LET plays == {i \in DOMAIN asks : asks[i].ask = "Play"}
    IN IF plays = {} THEN kept ELSE asks[CHOOSE i \in plays : \A j \in plays : j <= i]

\* answer_reconnect, in every state: a kept pick answers a realm list with its realm and asks
\* a new session for its roster.
Redials(kept, news, now) ==
    IF kept = NoPick THEN <<>>
    ELSE LET answered == {i \in Of(news, {"List"}) : news[i].reply = "ok"}
         IN [i \in 1 .. Cardinality(answered) |-> [ask |-> "Dial", gen |-> now]]
            \o IF Some(news, "Auth") THEN <<[ask |-> "Enumerate"]>> ELSE <<>>

Overridden(first, last) == IF last = "none" THEN first ELSE last

\* StateTransition, ahead of the frame: leaving the world builds the glue VM again.
Transition ==
    /\ out = <<>> /\ next # "none"
    /\ client' = next /\ next' = "none"
    /\ m' = IF client = "InWorld" /\ next # "InWorld"
            THEN Seat(m, IF next = "CharSelect" THEN "charselect" ELSE "login") ELSE m
    /\ UNCHANGED <<readVars, pick, heard, out, presses>>

\* SessionEdges and answer_reconnect behind it are ordered against the manager and LoginPolicy
\* by nothing: 0 is ahead of the manager, 1 between the two and 2 behind both.
Places == 0 .. 2

\* Bound: the frames where that order tells, a pick made or a session authenticated in the frame
\* that drains a loss.  The code leaves their order open; without the race among Races the
\* frame runs the edges last.
Raced(press) == Some(events, "Lost") /\ (\/ press = "EnterWorld" /\ "pick" \notin Races
                                         \/ Some(events, "Auth") /\ "auth" \notin Races)

\* One frame, the manager driven and the engine's answers known: edges and redial are the
\* places the edges and answer_reconnect run in.
Conclude(driven, logins, edges, redial) ==
    LET now    == gen + Bumps(logins)
        policy == PolicyNext(driven.logins, events, now)
        kept   == IF edges = 0 THEN PickAfter(pick, events) ELSE pick
        asked  == PickSent(driven.asks, kept)
        left   == IF edges = 0 THEN asked ELSE PickAfter(asked, events)
        Edges(place)  == IF edges # place THEN <<>>
                         ELSE Repicks(IF place = 0 THEN pick ELSE asked, events)
        Redial(place) == IF redial # place THEN <<>>
                         ELSE Redials(IF place = 0 THEN kept ELSE left, events,
                                      IF place = 2 THEN now ELSE gen)
    IN /\ m' = [driven EXCEPT !.logins = <<>>, !.asks = <<>>]
       /\ next' = IF edges = 2 THEN Overridden(policy, EdgesNext(events))
                               ELSE Overridden(EdgesNext(events), policy)
       /\ pick' = left
       /\ out' = Edges(0) \o Redial(0) \o Sent(driven.asks) \o Edges(1) \o Redial(1)
                 \o logins \o Abandons(events, now) \o Edges(2) \o Redial(2)
       /\ heard' = heard + Returned(events) /\ events' = <<>>
       /\ UNCHANGED <<threadVars, gen, loginQ, parkQ, client>>

Frame(press) ==
    /\ out = <<>> /\ next = "none"
    /\ \E driven \in {DriveGlueMgr(Pressed(m, press), events)}, edges, redial \in Places :
          /\ edges <= redial
          /\ Raced(press) => edges = 2
          /\ Conclude(driven, Answers(driven.logins), edges, redial)

\* A frame without a press, and one with.
IdleFrame ==
    /\ presses' = presses
    /\ Frame("none")

PressFrame ==
    /\ presses < MaxPresses /\ presses' = presses + 1
    /\ client # "InWorld"
    /\ \E press \in Presses : Offered(m, press) /\ Frame(press)

\* The next of the frame's sends, or a Cancel's bump of the generation.
Send ==
    /\ out # <<>> /\ out' = Tail(out)
    /\ CASE Head(out).ask = "Bump"   -> gen' = gen + 1 /\ UNCHANGED channels
         [] Head(out).ask = "Submit" -> loginQ' = Append(loginQ, gen)
                                        /\ UNCHANGED <<gen, parkQ, events>>
         [] OTHER -> parkQ' = Append(parkQ, Head(out)) /\ UNCHANGED <<gen, loginQ, events>>
    /\ UNCHANGED <<threadVars, m, client, next, pick, heard, presses>>

ReadThreadStep == (ReadStep \/ ServerStep(client = "InWorld")) /\ UNCHANGED appVars

Next == Transition \/ IdleFrame \/ PressFrame \/ Send \/ ReadThreadStep

Spec == Init /\ [][Next]_vars

----------------------------------------------------------------------------
(* Types.                                                                  *)

Links == 0 .. epoch
Plays == [ask : {"Play"}, epoch : Links, era : 0 .. returns]

\* What the manager asks, and what reaches the read thread by generation g: a dial stamped.
MgrAsks     == Plays \cup [ask : {"Dial", "Enumerate", "Refresh", "Leave"}]
Requests(g) == Plays \cup [ask : {"Dial"}, gen : 0 .. g]
                     \cup [ask : {"Enumerate", "Refresh", "Leave", "Abandon", "Close"}]

News ==
    [kind : {"Stage"}, stage : {"Connecting", "Handshaking", "WorldConnected"}]
    \cup [kind : {"List"}, reply : Replies]
    \cup [kind : {"Failed"}, why : {"failed", "authFailed", "challenge0A", "proof0A"}]
    \cup [kind : {"Auth"}, epoch : 1 .. epoch, gen : 0 .. gen]
    \cup [kind : {"Roster"}, epoch : 1 .. epoch]
    \cup [kind : {"RosterFailed"}, epoch : 1 .. epoch, emptied : BOOLEAN]
    \cup [kind : {"Queued", "Connected", "LoggedOut", "Refused", "Lost"}]

Managers ==
    [state : States, cells : {"none", "connecting", "authenticated", "failed", "patch"},
     stands : BOOLEAN, authFinal : BOOLEAN, authWaits : {FALSE}, connected : BOOLEAN, reconnect : BOOLEAN,
     op : [kind : OpKinds, status : Statuses, awaiting : BOOLEAN],
     holder : BOOLEAN, selected : BOOLEAN, link : Links, roster : Links, rows : Links,
     refused : BOOLEAN, outbox : {<<>>}, logins : Seq(LoginAsks), asks : Seq(MgrAsks),
     screen : {"login", "charselect"}, list : BOOLEAN]

\* Types, and the bounds between the two sides: the app numbers no link the thread has not
\* announced, and no request is stamped with a generation yet to come.
TypeOK ==
    /\ m \in Managers
    /\ client \in Clients /\ next \in Clients \cup {"none"}
    /\ pick \in Plays \cup {NoPick} /\ heard \in 0 .. returns
    /\ presses \in 0 .. MaxPresses
    /\ out \in Seq(Requests(gen + Bumps(out)) \cup {Bump, Submit})
    /\ pc \in {"login"} \cup AtLogon \cup {"park"} \cup Dialling \cup {"charPark"} \cup InWorld
    /\ queued \in BOOLEAN /\ epoch \in 0 .. MaxLinks
    /\ logonGen \in 0 .. gen /\ dialGen \in 0 .. gen
    /\ loginQ \in Seq(0 .. gen) /\ parkQ \in Seq(Requests(gen)) /\ events \in Seq(News)

----------------------------------------------------------------------------
(* Safety.                                                                 *)

\* A frame without a press would change something.
FrameOwed == events # <<>> \/ m.asks # <<>> \/ m.logins # <<>> \/ DriveGlueMgr(m, <<>>) # m

\* Every request is taken and answered and the app's frame has nothing left to do: only the
\* player or the server can move the session on.
Settled ==
    /\ parkQ = <<>> /\ loginQ = <<>> /\ out = <<>> /\ next = "none"
    /\ pc \in {"login", "park", "charPark", "stream"}
    /\ ~FrameOwed

\* No dialog waits for an answer that nobody will give: with every queue empty and the thread
\* parked, the manager is back in state 0, or it shows the logon dialog that a 0x0A leaves up
\* for the player to dismiss (on_failed, realmd_result).
NoDialogLeftWaiting == Settled => m.state = "Idle" \/ DialogStands(m)

\* No logon dialog waits for a logon that no longer runs (GlueLogin::Abandon), but the one
\* that a 0x0A leaves up.
NoLogonLeftWaiting == Settled => m.state # "Logon" \/ DialogStands(m)

\* The manager's link flag (IsConnectedToServer) says what the read thread holds.
LinkFlagIsTrue == Settled => (m.connected <=> pc \in {"charPark", "stream"})

\* No world session stands at the character park that the screens know nothing of.
ParkedSessionIsKnown == Settled /\ pc = "charPark" => m.connected

\* No session of an attempt the player has called off stands behind the login screen: the frame
\* that hears it authenticated abandons it (to_select_on_auth), however the Cancel was timed.
NoStaleSessionBehindLogin ==
    Settled /\ pc = "charPark" /\ dialGen # gen => client # "Login"

\* The app is in the world exactly while the thread streams it (session_edges).
WorldIsStreamed == Settled => (client = "InWorld" <=> pc = "stream")

\* A kept pick belongs to a world being streamed: "a kept pick would auto-answer the next roster"
\* (back_on_disconnect).  With the edges ahead of a pick made in the frame of the loss it is kept.
PickEndsWithItsWorld == Settled /\ pc # "stream" => pick = NoPick

----------------------------------------------------------------------------
(* Action properties.                                                      *)

Entering == pc = "charPark" /\ pc' = "stream"

\* The world is entered only by a pick made off the roster of the link it is entered on.
PlayOfThisLink == [][Entering => NextAsk.epoch = epoch]_vars

\* A pick made before a logout or a refusal was heard of never enters the world behind it.
PlayAfterReturn == [][Entering => NextAsk.era = returns]_vars

Drained == events # <<>> /\ events' = <<>>

\* A logout, a refusal or a loss ends the pick that led to it: none is kept past the frame that
\* drains one (back_on_disconnect, back_on_logout, back_on_refused), but by a press in that very
\* frame, whichever place the edges run in.
KeptPickEnds ==
    [][Drained /\ (Some(events, "Lost") \/ Returned(events) > 0) /\ presses' = presses
       => pick' = NoPick]_vars

\* A frame that drains a lost session moves to the login screen whatever else it drains:
\* "the dead session must be the last word".
LostIsLastWord == [][Drained /\ Some(events, "Lost") => next' = "Login"]_vars

----------------------------------------------------------------------------
(* Liveness.                                                               *)

\* The frames keep coming, the app's sends are plain code, and the read thread's waits end:
\* a socket's by its answer or its timeout.  The player and the server's ends are not owed.
\* The frame's weak fairness is written out: IdleFrame can change the state just when FrameOwed.
Fairness ==
    /\ WF_vars(Transition) /\ WF_vars(Send) /\ WF_vars(ReadStep /\ UNCHANGED appVars)
    /\ []<>~(out = <<>> /\ next = "none" /\ FrameOwed) \/ []<><<IdleFrame>>_vars

FairSpec == Spec /\ Fairness

\* An attempt ends, well or not: whatever the screens wait for, state 0 comes back, or a 0x0A
\* leaves the logon dialog to the player.
WaitsEnd == m.state # "Idle" ~> m.state = "Idle" \/ DialogStands(m)
=============================================================================
