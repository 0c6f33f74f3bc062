---------------------------- MODULE GlueManager ----------------------------
(***************************************************************************)
(* The glue manager of benilla-app (ui_script/glue_mgr.rs): the machine    *)
(* behind the login and character screens.  A manager is a record m; each  *)
(* function of GlueMgr is an operator from managers to managers, and the   *)
(* session's frame (NetSession) composes them in drive_glue_mgr's order.   *)
(*                                                                         *)
(* What a call raises waits in the outbox: steps, and the signals whose    *)
(* stock Lua handlers call back into the manager.  Left out: the PIN       *)
(* keypad, create, delete and rename (states 5 to 7), dialog texts, the    *)
(* queue estimate, addon and alert news.                                   *)
(***************************************************************************)
EXTENDS Naturals, Sequences

CONSTANTS RealmKnown \* realmName, or WOW_REALM, names a listed realm

ASSUME RealmKnownAssumption == RealmKnown \in BOOLEAN

States   == {"Idle", "Logon", "Connect", "CharList", "RealmList", "EnterWorld",
             "LoginRefused"}
OpKinds  == {"Connect", "Auth", "GetRealms", "CharList", "Login"}
\* An operation's status: running, completed well, or completed failed and how.
Statuses == {"run", "ok", "cancelled", "failed", "authFailed"}

\* A signal into the Lua ("Okay" and on), or a step (Step in the code).
Steps == {"Logon", "CharList", "RealmList", "Connect", "Idle", "LogonPastDialog",
          "BeginAuth", "Authenticated", "WorldFailed", "WorldCancelled",
          "WorldAuthFailed", "RaiseRealmList", "RequestRealmList",
          "Okay", "Teardown", "CharSelect", "LoginFromSelect", "Disconnected",
          "Roster", "Rebuild"}
LoginAsks == {"Submit", "Abandon", "CancelWorld", "Disconnect", "CloseLink"}

\* Operation::begin: a connect or a realm query awaits a realm list.
Begun(kind) == [kind |-> kind, status |-> "run",
                awaiting |-> kind \in {"Connect", "GetRealms"}]
DefaultOp   == [kind |-> "Connect", status |-> "run", awaiting |-> FALSE]

Begin(m, kind)      == [m EXCEPT !.op = Begun(kind)]
Complete(m, status) == [m EXCEPT !.op.status = status]
Done(op)            == op.status # "run"

Raise(m, items) == [m EXCEPT !.outbox = @ \o items]
AskLogin(m, a)  == [m EXCEPT !.logins = Append(@, a)]
AskPark(m, a)   == [m EXCEPT !.asks = Append(@, a)]

\* The manager at startup.  stands is history: the last word on the logon under way was a
\* patch asked for (0x0A), which leaves its dialog up.
Manager == [state |-> "Idle", cells |-> "none", stands |-> FALSE, authFinal |-> FALSE,
            authWaits |-> FALSE, connected |-> FALSE, reconnect |-> FALSE,
            op |-> DefaultOp, holder |-> FALSE, selected |-> FALSE, link |-> 0,
            roster |-> 0, rows |-> 0, refused |-> FALSE, outbox |-> <<>>,
            logins |-> <<>>, asks |-> <<>>, screen |-> "login", list |-> FALSE]

----------------------------------------------------------------------------
(* Calls.                                                                  *)

BeginLogon(m) == [m EXCEPT !.cells = "none", !.stands = FALSE, !.authFinal = FALSE,
                           !.state = "Logon"]

Login(m) ==
    IF m.state = "Idle" THEN Raise(BeginLogon(m), <<"Logon">>) ELSE m

\* Asking for the list clears the rows the select screen shows.
GetCharacterList(m) ==
    IF m.state = "LoginRefused" THEN m
    ELSE Raise([m EXCEPT !.state = "CharList", !.rows = 0], <<"CharList">>)

RequestRealmList(m) == Raise([m EXCEPT !.state = "RealmList"], <<"RealmList">>)

CancelRealmListQuery(m) ==
    IF m.state = "RealmList" THEN [Complete(m, "cancelled") EXCEPT !.state = "Idle"] ELSE m

StatusDialogClick(m) ==
    CASE m.state = "Idle" -> m
      [] m.state = "Logon" ->
            [AskLogin(m, IF m.cells = "failed" THEN "CloseLink" ELSE "Abandon")
                EXCEPT !.state = "Idle"]
      [] m.state \in {"Connect", "CharList"} -> Raise(Complete(m, "cancelled"), <<"Teardown">>)
      [] m.state \in {"RealmList", "EnterWorld"} ->
            [Complete(m, "cancelled") EXCEPT !.state = "Idle"]
      [] m.state = "LoginRefused" -> GetCharacterList([m EXCEPT !.state = "Idle"])

DisconnectFromServer(m) ==
    AskLogin(IF m.connected
             THEN [m EXCEPT !.connected = FALSE, !.state = "Idle", !.op = DefaultOp]
             ELSE m,
             "Disconnect")

BeginConnect(m) == Raise([m EXCEPT !.state = "Connect"], <<"Connect">>)

\* Mutant of ConnectToRealm: the session standing is not left.
ConnectToRealmStays(m) ==
    LET chosen == [m EXCEPT !.selected = @ \/ m.holder]
    IN IF m.connected THEN [chosen EXCEPT !.connected = FALSE, !.reconnect = TRUE]
       ELSE BeginConnect(chosen)

\* ChangeRealm: with a link up the drop is asked and the connect waits for the next frame.
ConnectToRealm(m) ==
    LET chosen == [m EXCEPT !.selected = @ \/ m.holder]
    IN IF m.connected
       THEN [AskPark(chosen, [ask |-> "Leave"]) EXCEPT !.connected = FALSE,
                                                       !.reconnect = TRUE]
       ELSE BeginConnect(chosen)

Reconnect(m) ==
    IF m.reconnect THEN BeginConnect([m EXCEPT !.reconnect = FALSE]) ELSE m

\* One pick leaves per frame and state 8: era is the number of world returns heard.
EnterWorld(m, era) ==
    IF ~m.selected \/ ~m.connected THEN m
    ELSE LET pick == [ask |-> "Play", epoch |-> m.rows, era |-> era]
             queued == {i \in DOMAIN m.asks : m.asks[i].ask = "Play"}
         IN [m EXCEPT !.state = "EnterWorld",
                      !.asks = IF queued # {} THEN [i \in DOMAIN @ |->
                                      IF i \in queued THEN pick ELSE @[i]]
                               ELSE IF m.state # "EnterWorld" THEN Append(@, pick)
                               ELSE @]

TakeRefusal(m) ==
    IF m.refused
    THEN [Complete(Begin(m, "Login"), "failed") EXCEPT !.refused = FALSE,
                                                       !.state = "LoginRefused"]
    ELSE m

----------------------------------------------------------------------------
(* Steps, and the stock handlers of the signals.                           *)

WorldFailedPastDialog(m, status) ==
    LET idle == [m EXCEPT !.state = "Idle", !.connected = FALSE]
        said == IF status = "cancelled" THEN AskLogin(idle, "CancelWorld") ELSE idle
    IN IF status = "authFailed" THEN Raise(said, <<"LoginFromSelect">>)
       ELSE Raise(said, <<"Teardown", "RaiseRealmList">>)

LogonPastDialog(m) ==
    IF m.authFinal
    THEN [Begin(m, "Connect") EXCEPT !.state = "Connect", !.authFinal = FALSE]
    ELSE IF m.cells = "failed"
    THEN [AskLogin(m, "CloseLink") EXCEPT !.state = "Idle"]
    ELSE m

BeginCharList(m) ==
    IF m.connected THEN AskPark(Begin(m, "CharList"), [ask |-> "Enumerate"])
    ELSE Complete(Begin(m, "CharList"), "failed")

RunStep(m, step) ==
    CASE step = "Logon"           -> AskLogin(m, "Submit")
      [] step = "CharList"        -> BeginCharList(m)
      [] step = "RealmList"       -> AskPark(Begin(m, "GetRealms"), [ask |-> "Refresh"])
      [] step = "Connect"         -> AskPark(Begin(m, "Connect"), [ask |-> "Refresh"])
      [] step = "Idle"            -> [m EXCEPT !.state = "Idle"]
      [] step = "LogonPastDialog" -> LogonPastDialog(m)
      [] step = "BeginAuth"       -> Begin(m, "Auth")
      [] step = "Authenticated"   -> [m EXCEPT !.state = "Idle", !.op = DefaultOp]
      [] step = "WorldFailed"     -> WorldFailedPastDialog(m, "failed")
      [] step = "WorldCancelled"  -> WorldFailedPastDialog(m, "cancelled")
      [] step = "WorldAuthFailed" -> WorldFailedPastDialog(m, "authFailed")
      [] step = "RaiseRealmList"  -> IF m.holder THEN Raise(m, <<"Rebuild">>)
                                                 ELSE RequestRealmList(m)
      [] step = "RequestRealmList" -> RequestRealmList(m)

\* The stock Lua: OKAY's OnShow presses its own button, the select screen's OnShow asks for
\* the list on a link that is up, a rebuilt list shows, a change of screen hides it.
Handle(m, signal) ==
    CASE signal = "Okay"       -> StatusDialogClick(m)
      [] signal = "Teardown"   -> [m EXCEPT !.rows = 0]
      [] signal = "Roster"     -> [m EXCEPT !.rows = m.roster]
      [] signal = "Rebuild"    -> [m EXCEPT !.list = TRUE]
      [] signal = "CharSelect" ->
            LET shown == [m EXCEPT !.screen = "charselect", !.list = FALSE]
            IN IF m.connected THEN GetCharacterList(shown) ELSE shown
      [] signal = "LoginFromSelect" ->
            IF m.screen = "charselect" THEN [m EXCEPT !.screen = "login", !.list = FALSE]
                                       ELSE m
      [] signal = "Disconnected" -> [m EXCEPT !.screen = "login", !.list = FALSE]

Signals == {"Okay", "Teardown", "Roster", "Rebuild", "CharSelect", "LoginFromSelect",
            "Disconnected"}

Do(m, item) == IF item \in Signals THEN Handle(m, item) ELSE RunStep(m, item)

\* Runs the outbox's first item, what it raises going ahead of the rest (at_front).
Turn(m) ==
    IF m.outbox = <<>> THEN m
    ELSE LET done == Do([m EXCEPT !.outbox = <<>>], Head(m.outbox))
         IN [done EXCEPT !.outbox = @ \o Tail(m.outbox)]

\* An item and what it raises, which are four at most: a world that failed, the teardown, the
\* realm list raised and its showing.
RunOut(m, item) == Turn(Turn(Turn(Do(m, item))))

\* Runs the outbox out.
Pump(m) ==
    LET ran[i \in 0 .. Len(m.outbox)] == IF i = 0 THEN [m EXCEPT !.outbox = <<>>]
                                         ELSE RunOut(ran[i - 1], m.outbox[i])
    IN ran[Len(m.outbox)]

----------------------------------------------------------------------------
(* News off the read thread.                                               *)

OnLogonDone(m) ==
    IF m.state = "Logon" THEN [m EXCEPT !.cells = "authenticated", !.authFinal = TRUE] ELSE m

OnStage(m, stage, glueUp) ==
    CASE stage = "Connecting" ->
            LET shown == IF m.state = "Idle" /\ glueUp THEN BeginLogon(m) ELSE m
            IN IF shown.state = "Logon"
               THEN [shown EXCEPT !.cells = "connecting", !.stands = FALSE] ELSE shown
      [] stage = "Handshaking" -> OnLogonDone(m)
      [] stage = "WorldConnected" ->
            IF m.state = "Connect" /\ m.op.kind = "Connect"
            THEN [Complete(m, "ok") EXCEPT !.connected = TRUE] ELSE m

OnQueued(m) == IF m.state = "Connect" THEN Begin(m, "Auth") ELSE m

Awaiting(m) == m.op.awaiting /\ ~Done(m.op)
Answered(m) == [m EXCEPT !.op.awaiting = FALSE]

OnRealmListEmptied(m) ==
    LET emptied == [m EXCEPT !.holder = FALSE]
    IN IF Awaiting(m) THEN Complete(Answered(emptied), "failed") ELSE emptied

OnRealmList(m, failed) ==
    LET filled == IF failed THEN m ELSE [m EXCEPT !.holder = TRUE]
        heard  == Answered(filled)
    IN CASE ~Awaiting(m)               -> filled
         [] Awaiting(m) /\ failed      -> Complete(heard, "failed")
         [] Awaiting(m) /\ ~failed /\ m.op.kind = "GetRealms" -> Complete(heard, "ok")
         [] Awaiting(m) /\ ~failed /\ m.op.kind = "Connect"   ->
               IF m.selected \/ RealmKnown
               THEN AskPark([heard EXCEPT !.selected = TRUE], [ask |-> "Dial"])
               ELSE Complete(heard, "failed")

OnList(m, reply) ==
    IF reply = "emptied" THEN OnRealmListEmptied(m) ELSE OnRealmList(m, reply = "failed")

\* realmd_result: a challenge's 0x0A is the patch state and a proof's changes no cell, and
\* neither ends the logon screen; any other refusal, and a lost connection, is a failure.
OnLogonFailed(m, why) ==
    CASE why = "proof0A"     -> [m EXCEPT !.stands = TRUE]
      [] why = "challenge0A" -> [m EXCEPT !.stands = TRUE, !.cells = "patch"]
      [] OTHER               -> [m EXCEPT !.cells = "failed"]

\* Mutant of OnFailed: it hears only what ends a dial.
OnFailedOfDial(m, why) == IF m.state = "Connect" THEN Complete(m, "failed") ELSE m

OnFailed(m, why) ==
    CASE m.state = "Logon"   -> OnLogonFailed(m, why)
      [] m.state = "Connect" -> Complete(m, IF why = "authFailed" THEN why ELSE "failed")
      [] OTHER -> m

OnRoster(m, epoch) ==
    IF epoch = m.link /\ m.state = "CharList" /\ m.op.kind = "CharList"
    THEN Complete([m EXCEPT !.roster = epoch], "ok") ELSE m

OnRosterFailed(m, epoch, emptied) ==
    IF epoch = m.link /\ m.state = "CharList" /\ m.op.kind = "CharList"
    THEN Complete(IF emptied THEN [m EXCEPT !.roster = 0] ELSE m, "failed") ELSE m

CompleteAuth(m) ==
    IF m.state = "Connect" THEN Complete(Begin(m, "Auth"), "ok") ELSE m

\* Mutant of OnLost: the link's flag stays up.
OnLostKeepsFlag(m) ==
    Raise([m EXCEPT !.refused = FALSE, !.state = "Idle", !.op = DefaultOp],
          IF m.state = "Connect" /\ Done(m.op) /\ m.op.status # "ok"
          THEN <<"Okay">> ELSE <<"Disconnected">>)

\* The session over: state 0, and either the failed connect's text or DISCONNECTED.
OnLost(m) ==
    Raise([m EXCEPT !.connected = FALSE, !.refused = FALSE, !.state = "Idle",
                    !.op = DefaultOp],
          IF m.state = "Connect" /\ Done(m.op) /\ m.op.status # "ok"
          THEN <<"Okay">> ELSE <<"Disconnected">>)

----------------------------------------------------------------------------
(* The frame's arms.                                                       *)

TickConnect(m) ==
    CASE m.op.status = "run"        -> m
      [] m.op.status = "cancelled"  -> Raise(m, <<"WorldCancelled">>)
      [] m.op.status = "failed"     -> Raise(m, <<"Okay", "WorldFailed">>)
      [] m.op.status = "authFailed" -> Raise(m, <<"Okay", "WorldAuthFailed">>)
      [] m.op.status = "ok" ->
            Raise(m, IF m.op.kind = "Connect" THEN <<"BeginAuth">>
                     ELSE <<"Authenticated", "Teardown", "CharSelect">>)

\* Mutant of TickCharList: a failed list has no arm.
TickCharListNoFailure(m) ==
    CASE m.op.status = "ok"        -> Raise(m, <<"Idle", "Roster">>)
      [] m.op.status = "cancelled" -> Raise(m, <<"Teardown", "RequestRealmList">>)
      [] OTHER                     -> m

TickCharList(m) ==
    CASE m.op.status = "run"       -> m
      [] m.op.status = "ok"        -> Raise(m, <<"Idle", "Roster">>)
      [] m.op.status = "cancelled" -> Raise(m, <<"Teardown", "RequestRealmList">>)
      [] OTHER                     -> Raise(m, <<"Okay", "Idle">>)

TickRealmList(m) ==
    CASE m.op.status = "run" -> m
      [] m.op.status = "ok"  -> Raise(m, <<"Idle", "Rebuild">>)
      [] OTHER               -> Raise(m, <<"Okay", "Idle">>)

Tick(m) ==
    CASE m.state = "Logon" ->
            Raise(m, IF m.cells = "failed" THEN <<"Okay", "LogonPastDialog">>
                     ELSE <<"LogonPastDialog">>)
      [] m.state = "Connect"      -> TickConnect(m)
      [] m.state = "CharList"     -> TickCharList(m)
      [] m.state = "RealmList"    -> TickRealmList(m)
      [] m.state = "LoginRefused" -> Raise(m, <<"Okay">>)
      [] OTHER -> m

\* The authentication heard: in the logon's own frame it waits on the logon's arm.
OnWorldAuthenticated(m, epoch) ==
    LET up == [m EXCEPT !.connected = TRUE, !.link = epoch, !.selected = TRUE]
    IN IF m.state = "Logon" THEN [Tick(OnLogonDone(up)) EXCEPT !.authWaits = TRUE]
       ELSE CompleteAuth(up)

FinishAuth(m) ==
    IF m.authWaits THEN CompleteAuth([Pump(m) EXCEPT !.authWaits = FALSE]) ELSE m

\* seat_glue on a rebuilt VM, then the screen it is put up on.
Seat(m, screen) ==
    LET built == TakeRefusal([m EXCEPT !.state = "Idle", !.cells = "none",
                                       !.authFinal = FALSE, !.rows = 0])
    IN Pump(IF screen = "charselect" THEN Raise(built, <<"CharSelect">>)
            ELSE [built EXCEPT !.screen = "login", !.list = FALSE])
=============================================================================
