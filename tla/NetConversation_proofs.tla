----------------------- MODULE NetConversation_proofs -----------------------
(***************************************************************************)
(* The conversation of the app and the read thread: no dialog waits for    *)
(* what will not come, and no pick enters a world it was not made for.     *)
(*                                                                         *)
(* Neither is inductive. That a dialog's answer comes needs to be known of *)
(* every step on the way: the ask put off by the manager, sent, queued,    *)
(* taken, at work in the thread, told, and at last drained. Talk is that   *)
(* conversation by stages, each of them a mode of the manager, the news    *)
(* not drained yet, the asks on their way and the place of the thread. The *)
(* stages of the login screen are Offline, those of a session Online; a    *)
(* session lost and not heard of yet is SessionOver, whatever its stage    *)
(* was, as the thread falls back while the app still works with the rest   *)
(* of the session's news.                                                  *)
(*                                                                         *)
(* A frame, a press, a send, a transition and every step of the thread     *)
(* lead from a stage to a stage as long as the presses are Ordinary. Each  *)
(* press left out (Cancel, Back, and the realm list asked for at the       *)
(* character selection) breaks some of the properties in a small instance, *)
(* and so does a pick that races the edges in the frame of a loss. A loss  *)
(* that an authentication races leaves the app at the wrong screen, where  *)
(* no stage is.                                                            *)
(***************************************************************************)
EXTENDS NetSession_proofs

----------------------------------------------------------------------------
(* The manager's modes.                                                    *)

\* A manager between two frames, and what a frame makes of one: the arm of its state, run.
Mgrs   == Rested(Links, Eras, {FALSE})
Run(x) == Pump(Tick(x))

\* Nothing put off: no ask of the login engine, no reconnect and no logon latched final.
Resting(x) == x.logins = <<>> /\ ~x.reconnect /\ ~x.authFinal

\* y asks and puts off what x does.
SameAsks(x, y) == /\ y.logins = x.logins /\ y.asks = x.asks /\ y.reconnect = x.reconnect
                  /\ y.authFinal = x.authFinal /\ y.refused = x.refused

Asks(x, y, ask) == /\ y.logins = x.logins /\ y.asks = Append(x.asks, [ask |-> ask])
                   /\ y.reconnect = x.reconnect /\ y.authFinal = x.authFinal
                   /\ y.refused = x.refused

\* In state 0 off any link; a realm list asked for; a character list asked for at the selection.
Down(y)    == y.state = "Idle" /\ ~y.connected
Realms(y)  == y.state = "RealmList" /\ y.op = Begun("GetRealms") /\ ~y.connected
Selects(x, y) == /\ y.connected /\ y.screen = "charselect" /\ ~y.list
                 /\ y.selected = x.selected /\ y.link = x.link
Roster0(y) == y.state = "CharList" /\ y.op = Begun("CharList") /\ y.rows = 0

LEMMA AppendIs ==
    ASSUME NEW S, NEW s \in Seq(S), NEW b \in S
    PROVE  /\ Append(s, b) \in Seq(S) /\ Len(Append(s, b)) = Len(s) + 1
           /\ \A i \in 1 .. Len(s) : Append(s, b)[i] = s[i]
           /\ Append(s, b)[Len(s) + 1] = b
  BY AppendProperties

\* A list of one, and of two, as they are appended.
LEMMA Appended ==
    ASSUME NEW a, NEW b
    PROVE  Append(<<>>, a) = <<a>> /\ Append(<<a>>, b) = <<a, b>>
  <1> DEFINE S == {a, b}
             s == <<a>>
             t == <<a, b>>
  <1>0. b \in S
    OBVIOUS
  <1>1. s \in Seq(S)
    OBVIOUS
  <1>2. Len(s) = 1 /\ s[1] = a
    OBVIOUS
  <1>3. t \in Seq(S) /\ Len(t) = 2 /\ t[1] = a /\ t[2] = b
    OBVIOUS
  <1> HIDE DEF s, t, S
  <1>4. /\ Append(s, b) \in Seq(S) /\ Len(Append(s, b)) = Len(s) + 1
        /\ \A i \in 1 .. Len(s) : Append(s, b)[i] = s[i]
        /\ Append(s, b)[Len(s) + 1] = b
    BY <1>0, <1>1, AppendIs
  <1>5. \A i \in 1 .. Len(t) : Append(s, b)[i] = t[i]
    BY <1>2, <1>3, <1>4
  <1>6. Append(s, b) = t
    BY <1>2, <1>3, <1>4, <1>5, SeqEqual
  <1>7. Append(<<>>, a) = <<a>>
    OBVIOUS
  <1> QED BY <1>6, <1>7 DEF s, t

LEMMA MgrsAre ==
    ASSUME NEW x \in Mgrs
    PROVE  x \in Rested(Links, Eras, {FALSE}) /\ x \in Working(Links, Eras, {FALSE}) /\ x.outbox = <<>>
  BY DEF Mgrs, Rested

LEMMA CompletedIs ==
    ASSUME NEW L, NEW E, NEW W, NEW y \in Working(L, E, W), NEW s \in Statuses
    PROVE  Complete(y, s).op.kind = y.op.kind /\ Complete(y, s).op.status = s
  <1>1. y.op \in Ops /\ Complete(y, s).op = [y.op EXCEPT !.status = s]
    BY DEF Working, Complete
  <1>2. \A op \in Ops : [op EXCEPT !.status = s].kind = op.kind /\ [op EXCEPT !.status = s].status = s
    BY DEF Ops
  <1> QED BY <1>1, <1>2

LEMMA RunRests ==
    ASSUME NEW x \in Mgrs, 0 \in Links
    PROVE  Run(x) \in Mgrs
  <1>1. Tick(x) \in Working(Links, Eras, {FALSE})
    BY MgrsAre, TickTyped
  <1> QED BY <1>1, PumpRests DEF Mgrs, Run

\* An arm that raises nothing, or a logon's that finds nothing to end.
LEMMA RunQuiet ==
    ASSUME NEW x \in Mgrs, 0 \in Links,
           \/ x.state \in {"Idle", "EnterWorld"}
           \/ x.state \in {"Connect", "CharList", "RealmList"} /\ x.op.status = "run"
           \/ x.state = "Logon" /\ ~x.authFinal /\ x.cells # "failed"
    PROVE  Run(x) = x
  <1>x. x \in Rested(Links, Eras, {FALSE}) /\ x.outbox = <<>>
    BY MgrsAre
  <1>1. CASE x.state = "Logon" /\ ~x.authFinal /\ x.cells # "failed"
    <2>1. Tick(x) = Boxed(x, <<"LogonPastDialog">>)
      BY <1>1, <1>x, RaisedBoxed DEF Tick
    <2>2. RunOut(x, "LogonPastDialog") = x
      BY <1>1, <1>x, LogonPastDialogRuns
    <2> QED BY <1>x, <2>1, <2>2, PumpOne, Names DEF Run
  <1>2. CASE x.state # "Logon"
    <2>1. CASE x.state \in {"Idle", "EnterWorld"}
      <3>1. Tick(x) = x
        BY <2>1 DEF Tick
      <3> QED BY <1>x, <3>1, PumpNone DEF Run
    <2>2. CASE x.state \in {"Connect", "CharList", "RealmList"} /\ x.op.status = "run"
      <3>1. Tick(x) = x
        BY <2>2 DEF Tick, TickConnect, TickCharList, TickRealmList
      <3> QED BY <1>x, <3>1, PumpNone DEF Run
    <2> QED BY <1>2, <2>1, <2>2
  <1> QED BY <1>1, <1>2

LEMMA RunLoggedOn ==
    ASSUME NEW x \in Mgrs, 0 \in Links, x.state = "Logon", x.authFinal, x.cells # "failed"
    PROVE  Run(x) = LoggedOn(x)
  <1>x. x \in Rested(Links, Eras, {FALSE}) /\ x.outbox = <<>>
    BY MgrsAre
  <1>1. Tick(x) = Boxed(x, <<"LogonPastDialog">>)
    BY <1>x, RaisedBoxed DEF Tick
  <1> QED BY <1>x, <1>1, PumpOne, LogonPastDialogRuns, Names DEF Run

LEMMA RunLogonFailed ==
    ASSUME NEW x \in Mgrs, 0 \in Links, x.state = "Logon", ~x.authFinal, x.cells = "failed"
    PROVE  Run(x) = Closes(Closes(x))
  <1>x. x \in Rested(Links, Eras, {FALSE}) /\ x.outbox = <<>>
    BY MgrsAre
  <1>1. Tick(x) = Boxed(x, <<"Okay", "LogonPastDialog">>)
    BY <1>x, RaisedBoxed DEF Tick
  <1>2. RunOut(x, "Okay") = Closes(x) /\ Closes(x) \in Rested(Links, Eras, {FALSE})
    BY <1>x, OkayRuns, MadeRests
  <1>3. ~Closes(x).authFinal /\ Closes(x).cells = "failed"
    BY <1>x DEF Closes, Rested, Working
  <1>4. RunOut(Closes(x), "LogonPastDialog") = Closes(Closes(x))
    BY <1>2, <1>3, LogonPastDialogRuns
  <1> QED BY <1>x, <1>1, <1>2, <1>4, PumpTwo, Names DEF Run

LEMMA RunConnected ==
    ASSUME NEW x \in Mgrs, 0 \in Links, x.state = "Connect", x.op.status = "ok", x.op.kind = "Connect"
    PROVE  Run(x) = OpIs(x, Begun("Auth"))
  <1>x. x \in Rested(Links, Eras, {FALSE}) /\ x.outbox = <<>>
    BY MgrsAre
  <1>1. Tick(x) = Raise(x, <<"BeginAuth">>)
    BY DEF Tick, TickConnect
  <1>2. Tick(x) = Boxed(x, <<"BeginAuth">>)
    BY <1>x, <1>1, RaisedBoxed
  <1> QED BY <1>x, <1>2, PumpOne, PlainItems, Names DEF Run

\* The session authenticated: the selection's screen, its list asked for.
LEMMA RunAuthenticated ==
    ASSUME NEW x \in Mgrs, 0 \in Links, x.state = "Connect", x.op.status = "ok", x.op.kind # "Connect",
           x.connected
    PROVE  Asks(x, Run(x), "Enumerate") /\ Selects(x, Run(x)) /\ Roster0(Run(x))
  <1> DEFINE a == OpIs(AtState(x, "Idle"), DefaultOp)
             b == NoRows(a)
             c == AtSelection(b)
  <1>x. x \in Rested(Links, Eras, {FALSE}) /\ x.outbox = <<>>
    BY MgrsAre
  <1>1. Tick(x) = Raise(x, <<"Authenticated", "Teardown", "CharSelect">>)
    BY DEF Tick, TickConnect
  <1>2. Tick(x) = Boxed(x, <<"Authenticated", "Teardown", "CharSelect">>)
    BY <1>x, <1>1, RaisedBoxed
  <1>3. /\ a \in Rested(Links, Eras, {FALSE}) /\ b \in Rested(Links, Eras, {FALSE})
        /\ c \in Rested(Links, Eras, {FALSE})
    BY <1>x, MadeRests, OpTyped, Names
  <1>4. b.connected /\ b.state # "LoginRefused"
    BY <1>x DEF OpIs, AtState, NoRows, Rested, Working
  <1>5. RunOut(x, "Authenticated") = a /\ RunOut(a, "Teardown") = b
    BY <1>x, <1>3, PlainItems
  <1>6. SameAsks(x, c) /\ Selects(x, c)
    BY <1>x DEF OpIs, AtState, NoRows, AtSelection, Rested, Working, SameAsks, Selects
  <1> HIDE DEF a, b, c
  <1>7. RunOut(b, "CharSelect") = Enumerating(c)
    BY <1>3, <1>4, CharSelectRuns DEF c
  <1>8. Run(x) = Enumerating(c)
    BY <1>x, <1>2, <1>5, <1>7, PumpThree, Names DEF Run
  <1>9. Asks(c, Enumerating(c), "Enumerate") /\ Selects(c, Enumerating(c)) /\ Roster0(Enumerating(c))
    BY <1>3, <1>6 DEF Enumerating, Asking, AtState, NoRows, Rested, Working, Asks, Selects, Roster0
  <1> QED BY <1>6, <1>8, <1>9 DEF SameAsks, Asks, Selects

\* The dial failed, or the list it stood on: the realm list is shown, or asked for.
LEMMA RunConnectFailed ==
    ASSUME NEW x \in Mgrs, 0 \in Links, x.state = "Connect", x.op.status = "failed"
    PROVE  \/ Down(Run(x)) /\ SameAsks(x, Run(x))
           \/ Realms(Run(x)) /\ Asks(x, Run(x), "Refresh")
  <1> DEFINE a == NoRows(Complete(x, "cancelled"))
             b == NoRows(Dropped(a))
  <1>x. x \in Rested(Links, Eras, {FALSE}) /\ x \in Working(Links, Eras, {FALSE}) /\ x.outbox = <<>>
    BY MgrsAre
  <1>1. Tick(x) = Raise(x, <<"Okay", "WorldFailed">>)
    BY DEF Tick, TickConnect
  <1>2. Tick(x) = Boxed(x, <<"Okay", "WorldFailed">>)
    BY <1>x, <1>1, RaisedBoxed
  <1>3. RunOut(x, "Okay") = a
    BY <1>x, OkayRuns
  <1>4. a \in Rested(Links, Eras, {FALSE}) /\ SameAsks(x, a)
    <2>1. Complete(x, "cancelled").outbox = <<>>
      BY <1>x DEF Complete, Working
    <2>2. Complete(x, "cancelled") \in Rested(Links, Eras, {FALSE})
      BY <1>x, <2>1, CompleteTyped, Names DEF Rested
    <2>3. SameAsks(x, a)
      BY <1>x DEF Complete, NoRows, Working, SameAsks
    <2> QED BY <2>2, <2>3, MadeRests
  <1> HIDE DEF a
  <1>5. b \in Rested(Links, Eras, {FALSE}) /\ SameAsks(a, b) /\ Down(b)
    <2>1. SameAsks(a, b) /\ Down(b)
      BY <1>4 DEF Dropped, NoRows, Rested, Working, SameAsks, Down
    <2> QED BY <1>4, <2>1, WorldFailedRuns
  <1>6. Run(x) = IF a.holder THEN Shown(b) ELSE RealmsAsked(b)
    BY <1>x, <1>2, <1>3, <1>4, PumpTwo, WorldFailedRuns, Names DEF Run
  <1> HIDE DEF b
  <1>7. SameAsks(b, Shown(b)) /\ Down(Shown(b))
    BY <1>5 DEF Shown, Rested, Working, SameAsks, Down
  <1>8. Asks(b, RealmsAsked(b), "Refresh") /\ Realms(RealmsAsked(b))
    BY <1>5 DEF RealmsAsked, Asking, AtState, Rested, Working, Asks, Realms, Down
  <1> QED BY <1>4, <1>5, <1>6, <1>7, <1>8 DEF SameAsks, Asks

LEMMA RunAuthFailed ==
    ASSUME NEW x \in Mgrs, 0 \in Links, x.state = "Connect", x.op.status = "authFailed"
    PROVE  Down(Run(x)) /\ SameAsks(x, Run(x))
  <1> DEFINE a == NoRows(Complete(x, "cancelled"))
             b == Dropped(a)
  <1>x. x \in Rested(Links, Eras, {FALSE}) /\ x \in Working(Links, Eras, {FALSE}) /\ x.outbox = <<>>
    BY MgrsAre
  <1>1. Tick(x) = Raise(x, <<"Okay", "WorldAuthFailed">>)
    BY DEF Tick, TickConnect
  <1>2. Tick(x) = Boxed(x, <<"Okay", "WorldAuthFailed">>)
    BY <1>x, <1>1, RaisedBoxed
  <1>3. RunOut(x, "Okay") = a
    BY <1>x, OkayRuns
  <1>4. a \in Rested(Links, Eras, {FALSE}) /\ SameAsks(x, a)
    <2>1. Complete(x, "cancelled").outbox = <<>>
      BY <1>x DEF Complete, Working
    <2>2. Complete(x, "cancelled") \in Rested(Links, Eras, {FALSE})
      BY <1>x, <2>1, CompleteTyped, Names DEF Rested
    <2>3. SameAsks(x, a)
      BY <1>x DEF Complete, NoRows, Working, SameAsks
    <2> QED BY <2>2, <2>3, MadeRests
  <1> HIDE DEF a
  <1>5. b \in Rested(Links, Eras, {FALSE}) /\ SameAsks(a, b) /\ Down(b)
    <2>1. SameAsks(a, b) /\ Down(b)
      BY <1>4 DEF Dropped, Rested, Working, SameAsks, Down
    <2> QED BY <1>4, <2>1, MadeRests
  <1>6. Run(x) = IF a.screen = "charselect" THEN AtLogin(b) ELSE b
    BY <1>x, <1>2, <1>3, <1>4, PumpTwo, WorldAuthFailedRuns, Names DEF Run
  <1> HIDE DEF b
  <1>7. SameAsks(b, AtLogin(b)) /\ Down(AtLogin(b))
    BY <1>5 DEF AtLogin, Rested, Working, SameAsks, Down
  <1> QED BY <1>4, <1>5, <1>6, <1>7 DEF SameAsks

LEMMA RunRoster ==
    ASSUME NEW x \in Mgrs, 0 \in Links, x.state = "CharList", x.op.status = "ok"
    PROVE  /\ SameAsks(x, Run(x)) /\ Run(x).state = "Idle" /\ Run(x).rows = x.roster
           /\ Run(x).connected = x.connected /\ Run(x).screen = x.screen /\ Run(x).list = x.list
           /\ Run(x).selected = x.selected /\ Run(x).link = x.link
  <1> DEFINE a == AtState(x, "Idle")
  <1>x. x \in Rested(Links, Eras, {FALSE}) /\ x.outbox = <<>>
    BY MgrsAre
  <1>1. Tick(x) = Raise(x, <<"Idle", "Roster">>)
    BY DEF Tick, TickCharList
  <1>2. Tick(x) = Boxed(x, <<"Idle", "Roster">>)
    BY <1>x, <1>1, RaisedBoxed
  <1>3. a \in Rested(Links, Eras, {FALSE}) /\ RunOut(x, "Idle") = a
    BY <1>x, PlainItems, MadeRests, Names
  <1>4. RunOut(a, "Roster") = Filled(a)
    BY <1>3, PlainItems
  <1>5. Run(x) = Filled(a)
    BY <1>x, <1>2, <1>3, <1>4, PumpTwo, Names DEF Run
  <1> QED BY <1>x, <1>5 DEF Filled, AtState, SameAsks, Rested, Working

LEMMA RunListFailed ==
    ASSUME NEW x \in Mgrs, 0 \in Links, x.state = "CharList", x.op.status = "failed"
    PROVE  /\ SameAsks(x, Run(x)) /\ Run(x).state = "Idle" /\ Run(x).rows = 0
           /\ Run(x).connected = x.connected /\ Run(x).screen = x.screen /\ Run(x).list = x.list
           /\ Run(x).selected = x.selected /\ Run(x).link = x.link
  <1> DEFINE a == NoRows(Complete(x, "cancelled"))
  <1>x. x \in Rested(Links, Eras, {FALSE}) /\ x \in Working(Links, Eras, {FALSE}) /\ x.outbox = <<>>
    BY MgrsAre
  <1>1. Tick(x) = Raise(x, <<"Okay", "Idle">>)
    BY DEF Tick, TickCharList
  <1>2. Tick(x) = Boxed(x, <<"Okay", "Idle">>)
    BY <1>x, <1>1, RaisedBoxed
  <1>3. a \in Rested(Links, Eras, {FALSE})
    <2>1. Complete(x, "cancelled").outbox = <<>>
      BY <1>x DEF Complete, Working
    <2>2. Complete(x, "cancelled") \in Rested(Links, Eras, {FALSE})
      BY <1>x, <2>1, CompleteTyped, Names DEF Rested
    <2> QED BY <2>2, MadeRests
  <1>4. RunOut(x, "Okay") = a
    BY <1>x, OkayRuns
  <1>5. Run(x) = AtState(a, "Idle")
    BY <1>x, <1>2, <1>3, <1>4, PumpTwo, PlainItems, Names DEF Run
  <1> QED BY <1>x, <1>5 DEF NoRows, Complete, AtState, SameAsks, Working

LEMMA RunRealms ==
    ASSUME NEW x \in Mgrs, 0 \in Links, x.state = "RealmList", x.op.status \in {"ok", "failed"}
    PROVE  SameAsks(x, Run(x)) /\ Run(x).state = "Idle" /\ Run(x).connected = x.connected
  <1>x. x \in Rested(Links, Eras, {FALSE}) /\ x \in Working(Links, Eras, {FALSE}) /\ x.outbox = <<>>
    BY MgrsAre
  <1>1. CASE x.op.status = "ok"
    <2> DEFINE a == AtState(x, "Idle")
    <2>1. Tick(x) = Raise(x, <<"Idle", "Rebuild">>)
      BY <1>1 DEF Tick, TickRealmList
    <2>2. Tick(x) = Boxed(x, <<"Idle", "Rebuild">>)
      BY <1>x, <2>1, RaisedBoxed
    <2>3. a \in Rested(Links, Eras, {FALSE}) /\ RunOut(x, "Idle") = a
      BY <1>x, PlainItems, MadeRests, Names
    <2>4. Run(x) = Shown(a)
      BY <1>x, <2>2, <2>3, PumpTwo, PlainItems, Names DEF Run
    <2> QED BY <1>x, <2>4 DEF Shown, AtState, SameAsks, Working
  <1>2. CASE x.op.status = "failed"
    <2> DEFINE a == AtState(Complete(x, "cancelled"), "Idle")
    <2>1. Tick(x) = Raise(x, <<"Okay", "Idle">>)
      BY <1>2 DEF Tick, TickRealmList
    <2>2. Tick(x) = Boxed(x, <<"Okay", "Idle">>)
      BY <1>x, <2>1, RaisedBoxed
    <2>3. a \in Rested(Links, Eras, {FALSE})
      <3>1. Complete(x, "cancelled").outbox = <<>>
        BY <1>x DEF Complete, Working
      <3>2. Complete(x, "cancelled") \in Rested(Links, Eras, {FALSE})
        BY <1>x, <3>1, CompleteTyped, Names DEF Rested
      <3> QED BY <3>2, MadeRests, Names
    <2>4. RunOut(x, "Okay") = a
      BY <1>x, OkayRuns
    <2>5. Run(x) = AtState(a, "Idle")
      BY <1>x, <2>2, <2>3, <2>4, PumpTwo, PlainItems, Names DEF Run
    <2> QED BY <1>x, <2>5 DEF Complete, AtState, SameAsks, Working
  <1> QED BY <1>1, <1>2

\* A refused login's screen asks for the list again.
LEMMA RunRefused ==
    ASSUME NEW x \in Mgrs, 0 \in Links, x.state = "LoginRefused", x.connected
    PROVE  /\ Asks(x, Run(x), "Enumerate") /\ Roster0(Run(x)) /\ Run(x).connected
           /\ Run(x).screen = x.screen /\ Run(x).list = x.list
           /\ Run(x).selected = x.selected /\ Run(x).link = x.link
  <1>x. x \in Rested(Links, Eras, {FALSE}) /\ x.outbox = <<>>
    BY MgrsAre
  <1>1. Tick(x) = Raise(x, <<"Okay">>)
    BY DEF Tick
  <1>2. Tick(x) = Boxed(x, <<"Okay">>)
    BY <1>x, <1>1, RaisedBoxed
  <1>3. Run(x) = Asking(NoRows(AtState(x, "CharList")), "CharList", "Enumerate")
    BY <1>x, <1>2, PumpOne, OkayRuns, Names DEF Run
  <1> QED BY <1>x, <1>3 DEF Asking, NoRows, AtState, Rested, Working, Asks, Roster0

\* The session lost: state 0 off the link, whatever stood before.
LEMMA RunLost ==
    ASSUME NEW x \in Mgrs, 0 \in Links
    PROVE  LET y == Run(Pump(OnLost(x)))
           IN /\ Pump(OnLost(x)) \in Mgrs
              /\ Down(y) /\ ~y.refused /\ y.logins = x.logins /\ y.asks = x.asks
              /\ y.reconnect = x.reconnect /\ y.authFinal = x.authFinal
              /\ (x.state = "Connect" => x.op.status \in {"run", "ok"}) => ~y.list
  <1> DEFINE a == [x EXCEPT !.connected = FALSE, !.refused = FALSE, !.state = "Idle", !.op = DefaultOp]
             z == IF x.state = "Connect" /\ Done(x.op) /\ x.op.status # "ok" THEN a ELSE AtLogin(a)
  <1>x. x \in Rested(Links, Eras, {FALSE}) /\ x.outbox = <<>>
    BY MgrsAre
  <1>1. a \in Rested(Links, Eras, {FALSE})
    BY <1>x, OpTyped, Names DEF Rested, Working
  <1>2. /\ Down(a) /\ ~a.refused /\ a.logins = x.logins /\ a.asks = x.asks
        /\ a.reconnect = x.reconnect /\ a.authFinal = x.authFinal
    BY <1>x DEF Down, Rested, Working
  <1>3. OnLost(x) = Raise(a, IF x.state = "Connect" /\ Done(x.op) /\ x.op.status # "ok"
                             THEN <<"Okay">> ELSE <<"Disconnected">>)
    BY DEF OnLost
  <1> HIDE DEF a
  <1>4. a.outbox = <<>> /\ a.state = "Idle"
    BY <1>1, <1>2 DEF Rested, Down
  <1>5. Pump(OnLost(x)) = z
    <2>1. RunOut(a, "Okay") = a /\ RunOut(a, "Disconnected") = AtLogin(a)
      BY <1>1, <1>4, OkayRuns, PlainItems
    <2>2. OnLost(x) = Boxed(a, <<"Okay">>) \/ OnLost(x) = Boxed(a, <<"Disconnected">>)
      BY <1>3, <1>4, RaisedBoxed
    <2>3. CASE x.state = "Connect" /\ Done(x.op) /\ x.op.status # "ok"
      BY <1>1, <1>3, <1>4, <2>1, <2>3, RaisedBoxed, PumpOne, Names
    <2>4. CASE ~(x.state = "Connect" /\ Done(x.op) /\ x.op.status # "ok")
      BY <1>1, <1>3, <1>4, <2>1, <2>4, RaisedBoxed, PumpOne, Names
    <2> QED BY <2>3, <2>4
  <1>6. /\ z \in Rested(Links, Eras, {FALSE}) /\ z.state = "Idle"
        /\ Down(z) /\ ~z.refused /\ z.logins = x.logins /\ z.asks = x.asks
        /\ z.reconnect = x.reconnect /\ z.authFinal = x.authFinal
        /\ (x.state = "Connect" => x.op.status \in {"run", "ok"}) => ~z.list
    <2>1. AtLogin(a) \in Rested(Links, Eras, {FALSE})
      BY <1>1, MadeRests
    <2>2. /\ Down(AtLogin(a)) /\ ~AtLogin(a).refused /\ AtLogin(a).logins = x.logins
          /\ AtLogin(a).asks = x.asks
          /\ AtLogin(a).reconnect = x.reconnect /\ AtLogin(a).authFinal = x.authFinal
          /\ AtLogin(a).state = "Idle" /\ ~AtLogin(a).list
      BY <1>1, <1>2 DEF AtLogin, Down, Rested, Working
    <2>3. (x.state = "Connect" => x.op.status \in {"run", "ok"}) => z = AtLogin(a)
      BY DEF Done
    <2> QED BY <1>1, <1>2, <1>4, <2>1, <2>2, <2>3
  <1> HIDE DEF z
  <1>7. Run(z) = z
    BY <1>6, RunQuiet DEF Mgrs
  <1> QED BY <1>5, <1>6, <1>7 DEF Mgrs

----------------------------------------------------------------------------
(* What the manager hears.                                                 *)

\* The events not drained yet, as a set; a loss, if there is one, comes last and once.
Unheard  == {events[i] : i \in DOMAIN events}
LostLast == \A i \in DOMAIN events : events[i] = Lost => i = Len(events)

Silent(kinds) == \A e \in Unheard : e.kind \notin kinds

LEMMA UnheardTyped ==
    ASSUME events \in Seq(News)
    PROVE  /\ Unheard \subseteq News
           /\ \A i \in 1 .. Len(events) : events[i] \in Unheard
           /\ \A e \in Unheard : \E i \in 1 .. Len(events) : events[i] = e
  BY DEF Unheard

\* The manager told of one kind of news, item by item.
Along(f, x, kind) ==
    /\ f[0] = x
    /\ \A i \in 1 .. Len(events) :
          f[i] = IF events[i].kind = kind THEN Hear(f[i - 1], events[i]) ELSE f[i - 1]
    /\ Told(x, events, kind) = f[Len(events)]

LEMMA ToldAlong ==
    ASSUME NEW x \in Mgrs, 0 \in Links, events \in Seq(News), NEW kind \in Heard
    PROVE  \E f : Along(f, x, kind)
  <1>1. x \in Working(Links, Eras, BOOLEAN)
    BY MgrsAre DEF Working
  <1> QED BY <1>1, ToldChain DEF Along

\* What each news of a kind keeps is kept by them all.
LEMMA ToldStays ==
    ASSUME NEW S, NEW x \in S, x \in Mgrs, 0 \in Links, events \in Seq(News), NEW kind \in Heard,
           \A y \in S : \A e \in Unheard : e.kind = kind => Hear(y, e) \in S
    PROVE  Told(x, events, kind) \in S
  <1>1. kind \in Heard
    OBVIOUS
  <1>0. PICK f : Along(f, x, kind)
    BY <1>1, ToldAlong
  <1>2. /\ f[0] = x /\ Told(x, events, kind) = f[Len(events)]
        /\ \A i \in 1 .. Len(events) :
              f[i] = IF events[i].kind = kind THEN Hear(f[i - 1], events[i]) ELSE f[i - 1]
    BY <1>0 DEF Along
  <1>3. \A i \in 1 .. Len(events) : f[i - 1] \in S => f[i] \in S
    BY <1>2, UnheardTyped
  <1>4. Len(events) \in Nat
    OBVIOUS
  <1>5. \A i \in 0 .. Len(events) : f[i] \in S
    BY <1>2, <1>3, <1>4, ChainStays
  <1> QED BY <1>2, <1>4, <1>5

\* Of a kind that is not there, nothing is heard.
LEMMA ToldNone ==
    ASSUME NEW x \in Mgrs, 0 \in Links, events \in Seq(News), NEW kind \in Heard, Silent({kind})
    PROVE  Told(x, events, kind) = x
  <1>1. Told(x, events, kind) \in {x}
    BY ToldStays DEF Silent
  <1> QED BY <1>1

\* What one news of a kind brings about and the others of its kind keep is so when they are told.
LEMMA ToldReaches ==
    ASSUME NEW S, NEW Q, NEW x \in S, x \in Mgrs, 0 \in Links, events \in Seq(News), NEW kind \in Heard,
           \A y \in S : \A e \in Unheard : e.kind = kind => Hear(y, e) \in S,
           \A y \in Q : \A e \in Unheard : e.kind = kind => Hear(y, e) \in Q,
           NEW d \in Unheard, d.kind = kind, \A y \in S : Hear(y, d) \in Q
    PROVE  Told(x, events, kind) \in Q
  <1> DEFINE N == Len(events)
  <1>1. kind \in Heard
    OBVIOUS
  <1>0. PICK f : Along(f, x, kind)
    BY <1>1, ToldAlong
  <1>2. /\ f[0] = x /\ Told(x, events, kind) = f[Len(events)]
        /\ \A i \in 1 .. Len(events) :
              f[i] = IF events[i].kind = kind THEN Hear(f[i - 1], events[i]) ELSE f[i - 1]
    BY <1>0 DEF Along
  <1>3. N \in Nat
    OBVIOUS
  <1>4. \A i \in 0 .. N : f[i] \in S
    <2>1. \A i \in 1 .. N : f[i - 1] \in S => f[i] \in S
      BY <1>2, UnheardTyped
    <2> HIDE DEF N
    <2> QED BY <1>2, <1>3, <2>1, ChainStays
  <1>5. PICK j \in 1 .. N : events[j] = d
    BY UnheardTyped
  <1>6. f[j] \in Q
    <2>1. f[j] = Hear(f[j - 1], d) /\ f[j - 1] \in S
      BY <1>2, <1>3, <1>4, <1>5
    <2> QED BY <2>1
  <1> DEFINE g == [k \in 0 .. N - j |-> f[j + k]]
  <1>7. \A k \in 1 .. N - j : g[k - 1] \in Q => g[k] \in Q
    <2> SUFFICES ASSUME NEW k \in 1 .. N - j, g[k - 1] \in Q
                 PROVE  g[k] \in Q
      OBVIOUS
    <2>1. j + k \in 1 .. N /\ (j + k) - 1 = j + (k - 1) /\ k - 1 \in 0 .. N - j
      BY <1>3
    <2>2. g[k - 1] = f[(j + k) - 1] /\ g[k] = f[j + k]
      BY <2>1
    <2>3. f[j + k] = IF events[j + k].kind = kind THEN Hear(f[(j + k) - 1], events[j + k])
                     ELSE f[(j + k) - 1]
      BY <1>2, <2>1
    <2>4. events[j + k] \in Unheard
      BY <2>1, UnheardTyped
    <2> QED BY <2>2, <2>3, <2>4
  <1>8. N - j \in Nat /\ g[0] \in Q
    BY <1>3, <1>6
  <1>9. g[N - j] \in Q
    <2> HIDE DEF g, N
    <2>1. \A k \in 0 .. N - j : g[k] \in Q
      BY <1>7, <1>8, ChainStays
    <2> QED BY <1>8, <2>1
  <1>10. g[N - j] = f[N]
    BY <1>3
  <1> QED BY <1>2, <1>9, <1>10

\* The loss is heard of last, and once.
LEMMA ToldLost ==
    ASSUME NEW x \in Mgrs, 0 \in Links, events \in Seq(News), Lost \in Unheard, LostLast
    PROVE  Told(x, events, "Lost") = OnLost(x)
  <1> DEFINE N == Len(events)
  <1>1. "Lost" \in Heard
    BY DEF Heard
  <1>0. PICK f : Along(f, x, "Lost")
    BY <1>1, ToldAlong
  <1>2. /\ f[0] = x /\ Told(x, events, "Lost") = f[Len(events)]
        /\ \A i \in 1 .. Len(events) :
              f[i] = IF events[i].kind = "Lost" THEN Hear(f[i - 1], events[i]) ELSE f[i - 1]
    BY <1>0 DEF Along
  <1>3. \A i \in 1 .. N : events[i].kind = "Lost" => events[i] = Lost
    <2> SUFFICES ASSUME NEW e \in News, e.kind = "Lost"
                 PROVE  e = Lost
      OBVIOUS
    <2> QED BY DEF News, Lost
  <1>4. N \in Nat /\ N >= 1 /\ events[N] = Lost
    <2>1. PICK i \in 1 .. Len(events) : events[i] = Lost
      BY UnheardTyped
    <2>2. i \in DOMAIN events
      OBVIOUS
    <2> QED BY <2>1, <2>2 DEF LostLast
  <1>5. \A i \in 1 .. N - 1 : f[i - 1] \in {x} => f[i] \in {x}
    BY <1>2, <1>3, <1>4 DEF LostLast
  <1>6. \A i \in 0 .. N - 1 : f[i] \in {x}
    <2>1. N - 1 \in Nat /\ f[0] \in {x}
      BY <1>2, <1>4
    <2> QED BY <1>5, <2>1, ChainStays
  <1>7. f[N - 1] = x /\ f[N] = Hear(f[N - 1], Lost)
    BY <1>2, <1>4, <1>6 DEF Lost
  <1> QED BY <1>2, <1>7 DEF Hear, Lost

LEMMA SilentSome ==
    ASSUME NEW kind, Silent({kind})
    PROVE  ~Some(events, kind)
  BY DEF Silent, Some, Of, Unheard

LEMMA UnheardSome ==
    ASSUME NEW e \in Unheard
    PROVE  Some(events, e.kind)
  BY DEF Some, Of, Unheard

----------------------------------------------------------------------------
(* A frame's halves.                                                       *)

Heads(x)  == BeginFrame(x, events, client # "InWorld")
Logons(x) == Latched(Told(HearLogon(x, events), events, "Queued"))

LEMMA DriveIs ==
    ASSUME NEW x
    PROVE  DriveGlueMgr(x, events) = Run(Pump(HearSession(HearDial(Logons(Heads(x)), events), events)))
  BY DEF DriveGlueMgr, Run, Logons, Heads

\* A frame at the screens that no refusal begins, and one that a refusal does; one in the world.
LEMMA HeadsQuiet ==
    ASSUME NEW x \in Mgrs, client # "InWorld", ~x.refused, ~x.reconnect, Silent({"Refused"})
    PROVE  Heads(x) = x
  <1>1. ~Some(events, "Refused")
    BY SilentSome
  <1>2. [x EXCEPT !.refused = x.refused \/ Some(events, "Refused")] = x
    BY <1>1, MgrsAre DEF Working
  <1>3. TakeRefusal(x) = x /\ Reconnect(x) = x
    BY DEF TakeRefusal, Reconnect
  <1> QED BY <1>2, <1>3 DEF Heads, BeginFrame

LEMMA HeadsRefused ==
    ASSUME NEW x \in Mgrs, client # "InWorld", ~x.reconnect, Some(events, "Refused")
    PROVE  /\ Heads(x) \in Mgrs /\ Heads(x).state = "LoginRefused" /\ ~Heads(x).refused
           /\ ~Heads(x).reconnect
           /\ Heads(x).logins = x.logins /\ Heads(x).asks = x.asks /\ Heads(x).authFinal = x.authFinal
           /\ Heads(x).connected = x.connected /\ Heads(x).screen = x.screen /\ Heads(x).list = x.list
           /\ Heads(x).selected = x.selected /\ Heads(x).link = x.link /\ Heads(x).rows = x.rows
  <1> DEFINE a == [x EXCEPT !.refused = TRUE]
             b == [Complete(Begin(a, "Login"), "failed") EXCEPT !.refused = FALSE, !.state = "LoginRefused"]
  <1>x. x \in Working(Links, Eras, {FALSE}) /\ x.outbox = <<>>
    BY MgrsAre
  <1>1. [x EXCEPT !.refused = x.refused \/ Some(events, "Refused")] = a /\ a.refused
    BY <1>x DEF Working
  <1>2. a \in Working(Links, Eras, {FALSE})
    BY <1>x DEF Working
  <1>3. TakeRefusal(a) = b
    BY <1>1 DEF TakeRefusal
  <1>4. b \in Working(Links, Eras, {FALSE})
    BY <1>2, <1>3, TakeRefusalTyped
  <1>5. /\ b.state = "LoginRefused" /\ ~b.refused /\ ~b.reconnect /\ b.outbox = <<>>
        /\ b.logins = x.logins /\ b.asks = x.asks /\ b.authFinal = x.authFinal
        /\ b.connected = x.connected /\ b.screen = x.screen /\ b.list = x.list
        /\ b.selected = x.selected /\ b.link = x.link /\ b.rows = x.rows
    BY <1>x DEF Working, Complete, Begin
  <1> HIDE DEF a, b
  <1>6. Heads(x) = b
    BY <1>1, <1>3, <1>5 DEF Heads, BeginFrame, Reconnect
  <1> QED BY <1>4, <1>5, <1>6 DEF Mgrs, Rested

LEMMA HeadsInWorld ==
    ASSUME NEW x \in Mgrs, client = "InWorld", ~x.reconnect
    PROVE  /\ Heads(x) \in Mgrs /\ Heads(x).state = "Idle"
           /\ Heads(x).refused = (x.refused \/ Some(events, "Refused"))
           /\ Heads(x).reconnect = x.reconnect
           /\ Heads(x).logins = x.logins /\ Heads(x).asks = x.asks /\ Heads(x).authFinal = x.authFinal
           /\ Heads(x).connected = x.connected /\ Heads(x).screen = x.screen /\ Heads(x).list = x.list
           /\ Heads(x).selected = x.selected /\ Heads(x).link = x.link /\ Heads(x).rows = x.rows
  <1> DEFINE a == [x EXCEPT !.refused = x.refused \/ Some(events, "Refused")]
             b == [a EXCEPT !.state = "Idle"]
  <1>x. x \in Working(Links, Eras, {FALSE}) /\ x.outbox = <<>>
    BY MgrsAre
  <1>0. (x.refused \/ Some(events, "Refused")) \in BOOLEAN
    OBVIOUS
  <1>1. a \in Working(Links, Eras, {FALSE})
    BY <1>x, <1>0, FieldTyped
  <1>2. b \in Working(Links, Eras, {FALSE})
    <2> HIDE DEF a
    <2> QED BY <1>1, FieldTyped, Names
  <1>3. /\ b.state = "Idle" /\ b.outbox = <<>>
        /\ b.refused = (x.refused \/ Some(events, "Refused"))
        /\ b.reconnect = x.reconnect
        /\ b.logins = x.logins /\ b.asks = x.asks /\ b.authFinal = x.authFinal
        /\ b.connected = x.connected /\ b.screen = x.screen /\ b.list = x.list
        /\ b.selected = x.selected /\ b.link = x.link /\ b.rows = x.rows
    BY <1>x DEF Working
  <1>4. Heads(x) = Reconnect(b)
    BY DEF Heads, BeginFrame
  <1> HIDE DEF b
  <1>5. Heads(x) = b
    BY <1>3, <1>4 DEF Reconnect
  <1> QED BY <1>2, <1>3, <1>5 DEF Mgrs, Rested

\* No news of the logon, of the dial, or of the session.
LEMMA LogonsQuiet ==
    ASSUME NEW x \in Mgrs, 0 \in Links, events \in Seq(News), ~x.authFinal,
           Silent({"Stage", "List", "Queued"})
    PROVE  Logons(x) = x
  <1>1. Silent({"Stage"}) /\ Silent({"List"}) /\ Silent({"Queued"})
    BY DEF Silent
  <1>2. HearLogon(x, events) = x
    BY <1>1, ToldNone, SilentSome DEF HearLogon, Heard
  <1>3. Told(x, events, "Queued") = x
    BY <1>1, ToldNone DEF Heard
  <1> QED BY <1>2, <1>3 DEF Logons, Latched

LEMMA DialQuiet ==
    ASSUME NEW x \in Mgrs, 0 \in Links, events \in Seq(News), Silent({"List", "Failed", "Auth"})
    PROVE  HearDial(x, events) = x
  <1>1. Silent({"List"}) /\ Silent({"Failed"}) /\ Silent({"Auth"})
    BY DEF Silent
  <1>2. /\ Told(x, events, "List") = x /\ Told(x, events, "Failed") = x
        /\ Told(x, events, "Auth") = x
    BY <1>1, ToldNone DEF Heard
  <1>3. ~x.authWaits
    BY MgrsAre DEF Working
  <1> QED BY <1>2, <1>3 DEF HearDial, FinishAuth

LEMMA SessionQuiet ==
    ASSUME NEW x \in Mgrs, 0 \in Links, events \in Seq(News), Silent({"RosterFailed", "Roster", "Lost"})
    PROVE  Pump(HearSession(x, events)) = x
  <1>1. Silent({"RosterFailed"}) /\ Silent({"Roster"}) /\ Silent({"Lost"})
    BY DEF Silent
  <1>2. /\ Told(x, events, "RosterFailed") = x /\ Told(x, events, "Roster") = x
        /\ Told(x, events, "Lost") = x
    BY <1>1, ToldNone DEF Heard
  <1> QED BY <1>2, PumpNone, MgrsAre DEF HearSession

\* A frame that hears nothing runs the arm of the manager's state.
LEMMA DriveSilent ==
    ASSUME NEW x \in Mgrs, 0 \in Links, events \in Seq(News), Heads(x) \in Mgrs, ~Heads(x).authFinal,
           Silent(Heard)
    PROVE  DriveGlueMgr(x, events) = Run(Heads(x))
  <1>1. /\ Silent({"Stage", "List", "Queued"}) /\ Silent({"List", "Failed", "Auth"})
        /\ Silent({"RosterFailed", "Roster", "Lost"})
    BY DEF Silent, Heard
  <1> QED BY <1>1, DriveIs, LogonsQuiet, DialQuiet, SessionQuiet

----------------------------------------------------------------------------
(* The loss of a session.                                                  *)

\* Managers past their logon that ask what x does, no connect of theirs failed.
Past(x) == {y \in Mgrs : /\ y.logins = x.logins /\ y.asks = x.asks
                         /\ ~y.reconnect /\ ~y.authFinal /\ y.state # "Logon"
                         /\ y.state = "Connect" => y.op.status \in {"run", "ok"}}

\* The news a session over may share its frame with.
LateNews == {e \in News : e.kind \notin {"List", "Failed"} /\ e # Stage("Connecting")}

LEMMA HearPast ==
    ASSUME NEW x, NEW y \in Past(x), 0 \in Links, NEW e \in LateNews, e.kind \notin {"Auth", "Lost"},
           e.kind \in Heard
    PROVE  Hear(y, e) \in Past(x)
  <1>y. /\ y \in Mgrs /\ y.logins = x.logins /\ y.asks = x.asks
        /\ ~y.reconnect /\ ~y.authFinal /\ y.state # "Logon"
        /\ y.state = "Connect" => y.op.status \in {"run", "ok"}
        /\ y \in Working(Links, Eras, {FALSE}) /\ y.outbox = <<>>
    BY MgrsAre DEF Past
  <1>e. e \in News /\ e # Stage("Connecting")
    BY DEF LateNews
  <1>1. Hear(y, e) \in Working(Links, Eras, {FALSE})
    BY <1>y, <1>e, HearTyped
  \* A roster's answer moves nothing but the operation and the roster's number.
  <1>c. ASSUME NEW n, NEW s, y.state = "CharList",
               Complete([y EXCEPT !.roster = n], s) \in Working(Links, Eras, {FALSE})
        PROVE  Complete([y EXCEPT !.roster = n], s) \in Past(x)
    <2> DEFINE z == Complete([y EXCEPT !.roster = n], s)
    <2>1. /\ z.outbox = y.outbox /\ z.logins = y.logins /\ z.asks = y.asks /\ z.state = y.state
          /\ z.reconnect = y.reconnect /\ z.authFinal = y.authFinal
      BY <1>y DEF Complete, Working
    <2>2. z \in Working(Links, Eras, {FALSE})
      BY <1>c
    <2> HIDE DEF z
    <2> QED BY <1>y, <1>c, <2>1, <2>2 DEF Past, Mgrs, Rested, z
  <1>2. CASE e.kind = "Stage"
    <2>1. e.stage \in {"Handshaking", "WorldConnected"}
      <3>1. e.stage \in {"Connecting", "Handshaking", "WorldConnected"}
        BY <1>2, <1>e, NewsTyped
      <3>2. e \in [kind : {"Stage"}, stage : {"Connecting", "Handshaking", "WorldConnected"}]
        BY <1>2, <1>e DEF News
      <3>3. e.stage # "Connecting"
        BY <1>e, <3>2 DEF Stage
      <3> QED BY <3>1, <3>3
    <2>2. Hear(y, e) = OnStage(y, e.stage, client # "InWorld")
      BY <1>2 DEF Hear
    <2>3. \/ Hear(y, e) = y
          \/ Hear(y, e) = [Complete(y, "ok") EXCEPT !.connected = TRUE]
      BY <1>y, <2>1, <2>2 DEF OnStage, OnLogonDone
    <2>4. Complete(y, "ok").op.status = "ok" /\ Complete(y, "ok") \in Working(Links, Eras, {FALSE})
      BY <1>y, CompletedIs, CompleteTyped, Names
    <2>5. [Complete(y, "ok") EXCEPT !.connected = TRUE].op.status = "ok"
      BY <2>4 DEF Working
    <2>6. CASE Hear(y, e) = y
      BY <2>6
    <2>7. CASE Hear(y, e) = [Complete(y, "ok") EXCEPT !.connected = TRUE]
      <3> DEFINE z == [Complete(y, "ok") EXCEPT !.connected = TRUE]
      <3>1. /\ z.outbox = <<>> /\ z.logins = x.logins /\ z.asks = x.asks
            /\ ~z.reconnect /\ ~z.authFinal /\ z.state # "Logon"
        BY <1>y DEF Complete, Working
      <3> QED BY <1>1, <2>5, <2>7, <3>1 DEF Past, Mgrs, Rested
    <2> QED BY <2>3, <2>6, <2>7
  <1>3. CASE e.kind = "Queued"
    <2>1. Hear(y, e) = y \/ Hear(y, e) = Begin(y, "Auth")
      BY <1>3 DEF Hear, OnQueued
    <2>2. Begin(y, "Auth").op = Begun("Auth") /\ Begun("Auth").status = "run"
      BY <1>y DEF Begin, Begun, Working
    <2>3. /\ Begin(y, "Auth").outbox = <<>> /\ Begin(y, "Auth").logins = x.logins
          /\ Begin(y, "Auth").asks = x.asks /\ Begin(y, "Auth").state = y.state
          /\ ~Begin(y, "Auth").reconnect /\ ~Begin(y, "Auth").authFinal
      BY <1>y DEF Begin, Working
    <2>4. CASE Hear(y, e) = Begin(y, "Auth")
      <3>1. Begin(y, "Auth") \in Mgrs
        BY <1>1, <2>3, <2>4 DEF Mgrs, Rested
      <3>2. Begin(y, "Auth").op.status = "run"
        BY <2>2
      <3> QED BY <1>y, <2>3, <2>4, <3>1, <3>2 DEF Past
    <2> QED BY <2>1, <2>4
  <1>4. CASE e.kind = "Roster"
    <2>1. \/ Hear(y, e) = y
          \/ y.state = "CharList" /\ Hear(y, e) = Complete([y EXCEPT !.roster = e.epoch], "ok")
      BY <1>4 DEF Hear, OnRoster
    <2> QED BY <1>1, <1>c, <2>1
  <1>5. CASE e.kind = "RosterFailed"
    <2>1. \/ Hear(y, e) = y
          \/ y.state = "CharList" /\ Hear(y, e) = Complete([y EXCEPT !.roster = 0], "failed")
          \/ y.state = "CharList" /\ Hear(y, e) = Complete(y, "failed")
      BY <1>5 DEF Hear, OnRosterFailed
    <2>2. CASE y.state = "CharList" /\ Hear(y, e) = Complete([y EXCEPT !.roster = 0], "failed")
      BY <1>1, <1>c, <2>2
    <2>3. CASE y.state = "CharList" /\ Hear(y, e) = Complete(y, "failed")
      <3>1. /\ Complete(y, "failed").outbox = <<>> /\ Complete(y, "failed").logins = x.logins
            /\ Complete(y, "failed").asks = x.asks /\ Complete(y, "failed").state = "CharList"
            /\ ~Complete(y, "failed").reconnect /\ ~Complete(y, "failed").authFinal
        BY <1>y, <2>3 DEF Complete, Working
      <3> QED BY <1>1, <2>3, <3>1 DEF Past, Mgrs, Rested
    <2> QED BY <2>1, <2>2, <2>3
  <1> QED BY <1>2, <1>3, <1>4, <1>5 DEF Heard, LateNews

LEMMA BegunIs ==
    /\ \A k \in OpKinds : Begun(k).kind = k /\ Begun(k).status = "run" /\ Begun(k) \in Ops
    /\ Begun("Connect").awaiting /\ Begun("GetRealms").awaiting /\ ~Begun("Auth").awaiting
    /\ \A k \in OpKinds, s \in Statuses : /\ [Begun(k) EXCEPT !.status = s].kind = k
                                          /\ [Begun(k) EXCEPT !.status = s].status = s
  <1>1. \A k \in OpKinds : Begun(k).kind = k /\ Begun(k).status = "run"
    BY DEF Begun
  <1>2. Begun("Connect").awaiting /\ Begun("GetRealms").awaiting /\ ~Begun("Auth").awaiting
    BY DEF Begun
  <1>3. \A k \in OpKinds : Begun(k) \in Ops
    BY OpTyped
  <1>4. \A op \in Ops, s \in Statuses : /\ [op EXCEPT !.status = s].kind = op.kind
                                        /\ [op EXCEPT !.status = s].status = s
    BY DEF Ops
  <1> QED BY <1>1, <1>2, <1>3, <1>4

\* The authentication heard, past the logon.
LEMMA HearAuth ==
    ASSUME NEW y \in Mgrs, 0 \in Links, y.state # "Logon", NEW n \in Links
    PROVE  /\ OnWorldAuthenticated(y, n) \in Mgrs
           /\ OnWorldAuthenticated(y, n).logins = y.logins /\ OnWorldAuthenticated(y, n).asks = y.asks
           /\ OnWorldAuthenticated(y, n).reconnect = y.reconnect
           /\ OnWorldAuthenticated(y, n).authFinal = y.authFinal
           /\ OnWorldAuthenticated(y, n).refused = y.refused
           /\ OnWorldAuthenticated(y, n).state = y.state
           /\ OnWorldAuthenticated(y, n).connected /\ OnWorldAuthenticated(y, n).selected
           /\ OnWorldAuthenticated(y, n).link = n
           /\ y.state = "Connect" => /\ OnWorldAuthenticated(y, n).op.kind = "Auth"
                                     /\ OnWorldAuthenticated(y, n).op.status = "ok"
  <1> DEFINE up == [y EXCEPT !.connected = TRUE, !.link = n, !.selected = TRUE]
             z  == CompleteAuth(up)
  <1>y. y \in Working(Links, Eras, {FALSE}) /\ y.outbox = <<>>
    BY MgrsAre
  <1>1. up \in Working(Links, Eras, {FALSE})
    BY <1>y DEF Working
  <1>2. z \in Working(Links, Eras, {FALSE})
    <2> HIDE DEF up
    <2> QED BY <1>1, CompleteAuthTyped
  <1>3. OnWorldAuthenticated(y, n) = z
    BY <1>y DEF OnWorldAuthenticated, Working
  <1>4. z = up \/ (y.state = "Connect" /\ z = Complete(Begin(up, "Auth"), "ok"))
    BY <1>y DEF CompleteAuth, Working
  <1>5. y.state = "Connect" => z = Complete(Begin(up, "Auth"), "ok")
    BY <1>y DEF CompleteAuth, Working
  <1> HIDE DEF z
  <1>6. /\ z.outbox = <<>> /\ z.logins = y.logins /\ z.asks = y.asks /\ z.reconnect = y.reconnect
        /\ z.authFinal = y.authFinal /\ z.refused = y.refused /\ z.state = y.state
        /\ z.connected /\ z.selected /\ z.link = n
    <2>1. CASE z = up
      BY <1>y, <2>1 DEF Working
    <2>2. CASE z = Complete(Begin(up, "Auth"), "ok")
      BY <1>y, <2>2 DEF Working, Complete, Begin
    <2> QED BY <1>4, <2>1, <2>2
  <1>7. y.state = "Connect" => z.op.kind = "Auth" /\ z.op.status = "ok"
    <2> HIDE DEF up
    <2>1. Begin(up, "Auth").op = Begun("Auth")
      BY <1>1 DEF Working, Begin
    <2>2. Begin(up, "Auth") \in Working(Links, Eras, {FALSE})
      BY <1>1, BeginTyped, Names
    <2>3. Complete(Begin(up, "Auth"), "ok").op = [Begun("Auth") EXCEPT !.status = "ok"]
      BY <2>1, <2>2 DEF Working, Complete
    <2>4. [Begun("Auth") EXCEPT !.status = "ok"].kind = "Auth" /\ [Begun("Auth") EXCEPT !.status = "ok"].status = "ok"
      BY BegunIs, Names
    <2> QED BY <1>5, <2>3, <2>4
  <1> QED BY <1>2, <1>3, <1>6, <1>7 DEF Mgrs, Rested

LEMMA HearPastAuth ==
    ASSUME NEW x, NEW y \in Past(x), 0 \in Links, NEW e \in News, e.kind = "Auth"
    PROVE  Hear(y, e) \in Past(x)
  <1>1. e.epoch \in Links
    BY NewsTyped
  <1>2. Hear(y, e) = y \/ Hear(y, e) = OnWorldAuthenticated(y, e.epoch)
    BY DEF Hear
  <1>3. OnWorldAuthenticated(y, e.epoch) \in Past(x)
    BY <1>1, HearAuth DEF Past
  <1> QED BY <1>2, <1>3

\* A session's loss among the news of its frame leaves a manager in state 0 off the link.
LEMMA DriveLost ==
    ASSUME NEW x \in Mgrs, 0 \in Links, events \in Seq(News), Lost \in Unheard, LostLast,
           Unheard \subseteq LateNews,
           ~x.reconnect, ~x.authFinal, x.state # "Logon", client # "InWorld" => ~x.refused,
           x.state = "Connect" => x.op.status \in {"run", "ok"}
    PROVE  LET y == DriveGlueMgr(x, events)
           IN Down(y) /\ ~y.list /\ ~y.refused /\ y.logins = x.logins /\ y.asks = x.asks /\ ~y.reconnect /\ ~y.authFinal
  <1> DEFINE a == Heads(x)
             b == Logons(a)
             c == HearDial(b, events)
             d == Told(Told(c, events, "RosterFailed"), events, "Roster")
  <1>1. a \in Past(x)
    <2>1. CASE client # "InWorld" /\ Silent({"Refused"})
      BY <2>1, HeadsQuiet DEF Past
    <2>2. CASE client # "InWorld" /\ ~Silent({"Refused"})
      <3>1. Some(events, "Refused")
        BY <2>2, UnheardSome DEF Silent
      <3> QED BY <2>2, <3>1, HeadsRefused DEF Past
    <2>3. CASE client = "InWorld"
      BY <2>3, HeadsInWorld DEF Past
    <2> QED BY <2>1, <2>2, <2>3
  <1>2. \A k \in {"Stage", "Queued", "RosterFailed", "Roster", "Auth"} : k \in Heard
    BY DEF Heard
  <1>3. ASSUME NEW z \in Past(x), NEW k \in {"Stage", "Queued", "RosterFailed", "Roster", "Auth"}
        PROVE  Told(z, events, k) \in Past(x)
    <2>1. \A y \in Past(x) : \A e \in Unheard : e.kind = k => Hear(y, e) \in Past(x)
      BY <1>2, HearPast, HearPastAuth DEF LateNews
    <2>2. z \in Mgrs
      BY DEF Past
    <2> QED BY <1>2, <2>1, <2>2, ToldStays
  <1> HIDE DEF a
  <1>4. Silent({"List"}) /\ Silent({"Failed"})
    BY DEF Silent, LateNews
  <1>5. b \in Past(x)
    <2>1. HearLogon(a, events) \in Past(x)
      BY <1>1, <1>3, <1>4, SilentSome DEF HearLogon
    <2>2. Told(HearLogon(a, events), events, "Queued") \in Past(x)
      BY <1>3, <2>1
    <2> QED BY <2>2 DEF Logons, Latched, Past
  <1> HIDE DEF b
  <1>6. c \in Past(x)
    <2>1. b \in Mgrs
      BY <1>5 DEF Past
    <2>2. Told(b, events, "List") = b /\ Told(b, events, "Failed") = b
      BY <1>4, <2>1, ToldNone DEF Heard
    <2>3. Told(b, events, "Auth") \in Past(x)
      BY <1>3, <1>5
    <2>4. ~Told(b, events, "Auth").authWaits
      BY <2>3, MgrsAre DEF Past, Working
    <2> QED BY <2>2, <2>3, <2>4 DEF HearDial, FinishAuth
  <1> HIDE DEF c
  <1>7. d \in Past(x)
    <2>1. Told(c, events, "RosterFailed") \in Past(x)
      BY <1>3, <1>6
    <2> QED BY <1>3, <2>1
  <1>8. HearSession(c, events) = OnLost(d)
    BY <1>7, ToldLost DEF HearSession, Past
  <1> HIDE DEF d
  <1>9. DriveGlueMgr(x, events) = Run(Pump(OnLost(d)))
    BY <1>8, DriveIs DEF a, b, c
  <1> QED BY <1>7, <1>9, RunLost DEF Past

----------------------------------------------------------------------------
(* The logon, and the realm list that ends it.                             *)

Began        == Stage("Connecting")
LogonFailures == {[kind |-> "Failed", why |-> w] : w \in {"failed", "challenge0A", "proof0A"}}

\* The logon dialog up, its logon not failed.
LogonUp(x) == /\ x.state = "Logon" /\ x.cells # "failed" /\ ~x.list
              /\ ~x.connected /\ ~x.refused
LoggingOn(x) == LogonUp(x) /\ ~x.stands
\* The one that a 0x0A left up.
StandsUp(x) == LogonUp(x) /\ x.stands

\* A realm list awaited, for a connect or for the list's own screen.
Listing(x) == /\ ~x.connected /\ ~x.refused /\ x.op.awaiting /\ x.op.status = "run"
              /\ \/ x.state = "Connect" /\ x.op.kind = "Connect"
                 \/ x.state = "RealmList" /\ x.op.kind = "GetRealms"

\* A realm dialled, its socket not up yet.
Calling(x) == /\ x.state = "Connect" /\ ~x.connected /\ ~x.refused
              /\ x.op.kind = "Connect" /\ x.op.status = "run" /\ ~x.op.awaiting

\* A frame that hears at most that the logon began.
LEMMA StagesLogging ==
    ASSUME NEW x \in Mgrs, 0 \in Links, events \in Seq(News), LoggingOn(x),
           \A e \in Unheard : e.kind = "Stage" => e = Began
    PROVE  LET y == Told(x, events, "Stage") IN y \in Mgrs /\ LoggingOn(y) /\ SameAsks(x, y)
  <1> DEFINE S == {y \in Mgrs : LoggingOn(y) /\ SameAsks(x, y)}
  <1>1. x \in S
    BY DEF SameAsks
  <1>2. ASSUME NEW y \in S, NEW e \in Unheard, e.kind = "Stage"
        PROVE  Hear(y, e) \in S
    <2>y. y \in Working(Links, Eras, {FALSE}) /\ y.outbox = <<>> /\ y.state = "Logon"
      BY MgrsAre DEF LoggingOn, LogonUp
    <2>1. e.kind = "Stage" /\ e.stage = "Connecting"
      BY <1>2 DEF Began, Stage
    <2> DEFINE z == [y EXCEPT !.cells = "connecting", !.stands = FALSE]
    <2>2. Hear(y, e) = z
      BY <2>1, <2>y DEF Hear, OnStage
    <2>3. z \in Mgrs
      BY <2>y DEF Mgrs, Rested, Working, CellStates
    <2>4. LoggingOn(z) /\ SameAsks(x, z)
      BY <2>y DEF Working, LoggingOn, LogonUp, SameAsks
    <2> QED BY <2>2, <2>3, <2>4
  <1> HIDE DEF S
  <1>3. Told(x, events, "Stage") \in S
    BY <1>1, <1>2, ToldStays DEF Heard
  <1> QED BY <1>3 DEF S

LEMMA DriveLogging ==
    ASSUME NEW x \in Mgrs, 0 \in Links, events \in Seq(News), LoggingOn(x), ~x.reconnect, ~x.authFinal,
           client # "InWorld", Unheard \subseteq {Began}
    PROVE  LET y == DriveGlueMgr(x, events) IN LoggingOn(y) /\ SameAsks(x, y)
  <1> DEFINE y == Told(x, events, "Stage")
  <1>1. /\ Silent({"Refused"}) /\ Silent({"List"}) /\ Silent({"Queued"})
        /\ Silent({"List", "Failed", "Auth"}) /\ Silent({"RosterFailed", "Roster", "Lost"})
    BY DEF Silent, Began, Stage
  <1>2. Heads(x) = x
    BY <1>1, HeadsQuiet DEF LoggingOn, LogonUp
  <1>3. y \in Mgrs /\ LoggingOn(y) /\ SameAsks(x, y)
    BY StagesLogging
  <1> HIDE DEF y
  <1>4. Logons(x) = y
    <2>1. HearLogon(x, events) = y
      BY <1>1, SilentSome DEF HearLogon, y
    <2>2. Told(y, events, "Queued") = y
      BY <1>1, <1>3, ToldNone DEF Heard
    <2> QED BY <1>3, <2>1, <2>2 DEF Logons, Latched, SameAsks
  <1>5. DriveGlueMgr(x, events) = Run(y)
    BY <1>1, <1>2, <1>3, <1>4, DriveIs, DialQuiet, SessionQuiet
  <1>6. Run(y) = y
    BY <1>3, RunQuiet DEF LoggingOn, LogonUp, SameAsks
  <1> QED BY <1>3, <1>5, <1>6

\* A logon that failed is heard: a failure marks the cells, a 0x0A leaves the dialog up.
LEMMA HearLogonFailure ==
    ASSUME NEW x \in Mgrs, 0 \in Links, events \in Seq(News), LoggingOn(x), ~x.reconnect, ~x.authFinal,
           client # "InWorld", NEW f \in LogonFailures, f \in Unheard, Unheard \subseteq {Began, f}
    PROVE  \E z \in Mgrs : /\ DriveGlueMgr(x, events) = Run(z) /\ SameAsks(x, z)
                          /\ z.state = "Logon" /\ ~z.list /\ ~z.connected /\ ~z.refused
                          /\ IF f.why = "failed" THEN z.cells = "failed" ELSE StandsUp(z)
  <1> DEFINE y == Told(x, events, "Stage")
             Failing(z) == /\ z.state = "Logon" /\ ~z.list /\ ~z.connected /\ ~z.refused
                           /\ SameAsks(x, z) /\ (f.why # "failed" => z.cells # "failed")
             S == {z \in Mgrs : Failing(z)}
             Q == {z \in S : IF f.why = "failed" THEN z.cells = "failed" ELSE z.stands}
  <1>0. f.kind = "Failed" /\ f.why \in {"failed", "challenge0A", "proof0A"}
    BY DEF LogonFailures
  <1>1. /\ Silent({"Refused"}) /\ Silent({"List"}) /\ Silent({"Queued"}) /\ Silent({"Auth"})
        /\ Silent({"RosterFailed", "Roster", "Lost"})
    BY <1>0 DEF Silent, Began, Stage
  <1>2. Heads(x) = x
    BY <1>1, HeadsQuiet DEF LoggingOn, LogonUp
  <1>3. y \in Mgrs /\ LoggingOn(y) /\ SameAsks(x, y)
    BY <1>0, StagesLogging
  <1> HIDE DEF y
  <1>4. Logons(x) = y
    <2>1. HearLogon(x, events) = y
      BY <1>1, SilentSome DEF HearLogon, y
    <2>2. Told(y, events, "Queued") = y
      BY <1>1, <1>3, ToldNone DEF Heard
    <2> QED BY <1>3, <2>1, <2>2 DEF Logons, Latched, SameAsks
  <1> DEFINE z == Told(y, events, "Failed")
  <1>5. z \in Q
    <2>1. y \in S
      BY <1>3 DEF LoggingOn, LogonUp
    <2>2. ASSUME NEW w \in S, NEW e \in Unheard, e.kind = "Failed"
          PROVE  Hear(w, e) \in Q
      <3>w. w \in Working(Links, Eras, {FALSE}) /\ w.outbox = <<>> /\ Failing(w)
        BY MgrsAre
      <3>1. e = f
        BY <2>2 DEF Began, Stage
      <3>2. Hear(w, e) = OnLogonFailed(w, f.why)
        BY <1>0, <3>w, <3>1 DEF Hear, OnFailed
      <3> DEFINE v == OnLogonFailed(w, f.why)
      <3>3. v \in Mgrs
        BY <3>w DEF OnLogonFailed, Mgrs, Rested, Working, CellStates
      <3>4. Failing(v) /\ IF f.why = "failed" THEN v.cells = "failed" ELSE v.stands
        BY <1>0, <3>w DEF OnLogonFailed, Working, SameAsks
      <3> HIDE DEF Failing, v
      <3> QED BY <3>2, <3>3, <3>4 DEF v
    <2>3. Q \subseteq S
      OBVIOUS
    <2> HIDE DEF S, Q
    <2> QED BY <1>0, <1>3, <2>1, <2>2, <2>3, ToldReaches DEF Heard
  <1>6. HearDial(y, events) = z
    <2>1. Told(y, events, "List") = y
      BY <1>1, <1>3, ToldNone DEF Heard
    <2>2. z \in Mgrs /\ ~z.authWaits
      BY <1>5, MgrsAre DEF Working
    <2> HIDE DEF z
    <2>3. Told(z, events, "Auth") = z
      BY <1>1, <2>2, ToldNone DEF Heard
    <2> QED BY <2>1, <2>2, <2>3 DEF HearDial, FinishAuth, z
  <1> HIDE DEF z
  <1>7. /\ z \in Mgrs /\ SameAsks(x, z)
        /\ z.state = "Logon" /\ ~z.list /\ ~z.connected /\ ~z.refused
        /\ IF f.why = "failed" THEN z.cells = "failed" ELSE StandsUp(z)
    BY <1>5 DEF StandsUp, LogonUp
  <1>8. DriveGlueMgr(x, events) = Run(z)
    BY <1>1, <1>2, <1>4, <1>6, <1>7, DriveIs, SessionQuiet
  <1> QED BY <1>7, <1>8

\* A logon refused by a 0x0A: its dialog stands.
LEMMA DriveLogonStands ==
    ASSUME NEW x \in Mgrs, 0 \in Links, events \in Seq(News), LoggingOn(x), ~x.reconnect, ~x.authFinal,
           client # "InWorld", NEW f \in LogonFailures, f \in Unheard, Unheard \subseteq {Began, f},
           f.why # "failed"
    PROVE  LET y == DriveGlueMgr(x, events) IN StandsUp(y) /\ SameAsks(x, y)
  <1>1. PICK z \in Mgrs : DriveGlueMgr(x, events) = Run(z) /\ SameAsks(x, z) /\ StandsUp(z)
    BY HearLogonFailure
  <1>2. Run(z) = z
    BY <1>1, RunQuiet DEF StandsUp, LogonUp, SameAsks
  <1> QED BY <1>1, <1>2

\* A logon that failed: the dialog goes and its link is closed, by OKAY and by the arm.
LEMMA DriveLogonFailed ==
    ASSUME NEW x \in Mgrs, 0 \in Links, events \in Seq(News), LoggingOn(x), ~x.reconnect, ~x.authFinal,
           client # "InWorld", NEW f \in LogonFailures, f \in Unheard, Unheard \subseteq {Began, f},
           f.why = "failed", x.logins = <<>>
    PROVE  LET y == DriveGlueMgr(x, events)
           IN /\ Down(y) /\ ~y.list /\ ~y.refused /\ y.logins = <<"CloseLink", "CloseLink">>
              /\ y.asks = x.asks /\ ~y.reconnect /\ ~y.authFinal
  <1>0. PICK z \in Mgrs : /\ DriveGlueMgr(x, events) = Run(z) /\ SameAsks(x, z)
                          /\ z.state = "Logon" /\ ~z.list /\ ~z.connected /\ ~z.refused
                          /\ z.cells = "failed"
    BY HearLogonFailure
  <1>1. /\ z \in Mgrs /\ z.state = "Logon" /\ ~z.authFinal /\ z.cells = "failed" /\ ~z.list
        /\ ~z.connected /\ ~z.refused /\ z.logins = <<>> /\ z.asks = x.asks /\ ~z.reconnect
    BY <1>0 DEF SameAsks
  <1>2. DriveGlueMgr(x, events) = Closes(Closes(z))
    BY <1>0, <1>1, RunLogonFailed
  <1>3. Closes(z) \in Mgrs
    BY <1>1, MadeRests, MgrsAre DEF Mgrs
  <1>4. /\ Closes(z).state = "Idle" /\ ~Closes(z).connected /\ ~Closes(z).list /\ ~Closes(z).refused
         /\ Closes(z).asks = x.asks /\ ~Closes(z).reconnect /\ ~Closes(z).authFinal
         /\ Closes(z).logins = Append(z.logins, "CloseLink")
    BY <1>1, MgrsAre DEF Closes, Working
  <1>5. /\ Down(Closes(Closes(z))) /\ ~Closes(Closes(z)).list /\ ~Closes(Closes(z)).refused
        /\ Closes(Closes(z)).asks = x.asks
        /\ ~Closes(Closes(z)).reconnect /\ ~Closes(Closes(z)).authFinal
        /\ Closes(Closes(z)).logins = Append(Append(z.logins, "CloseLink"), "CloseLink")
    <2> DEFINE w == Closes(z)
    <2>1. /\ w \in Working(Links, Eras, {FALSE}) /\ ~w.connected /\ ~w.list /\ ~w.refused
          /\ w.asks = x.asks /\ ~w.reconnect /\ ~w.authFinal
          /\ w.logins = Append(z.logins, "CloseLink")
      BY <1>3, <1>4, MgrsAre
    <2> HIDE DEF w
    <2>2. /\ Closes(w).state = "Idle" /\ ~Closes(w).connected /\ ~Closes(w).list /\ ~Closes(w).refused
          /\ Closes(w).asks = x.asks /\ ~Closes(w).reconnect /\ ~Closes(w).authFinal
          /\ Closes(w).logins = Append(w.logins, "CloseLink")
      BY <2>1 DEF Closes, Working
    <2> QED BY <2>1, <2>2 DEF Down, w
  <1>6. Append(Append(z.logins, "CloseLink"), "CloseLink") = <<"CloseLink", "CloseLink">>
    <2>1. z.logins = <<>>
      BY <1>1
    <2> QED BY <2>1, Appended
  <1> QED BY <1>2, <1>5, <1>6

\* What became of the list: the realm dialled, the screens back in state 0, or a list of its own
\* asked for.
ListEnds(x, y) == \/ Calling(y) /\ Asks(x, y, "Dial")
                  \/ Down(y) /\ SameAsks(x, y)
                  \/ Realms(y) /\ Asks(x, y, "Refresh")

\* The manager the list has answered, its arm still to run.
Heeded(x) == {y \in Mgrs : /\ ~y.connected /\ ~Awaiting(y)
                           /\ \/ Calling(y) /\ Asks(x, y, "Dial")
                              \/ y.state = "Connect" /\ y.op.status = "failed" /\ SameAsks(x, y)
                              \/ y.state = "RealmList" /\ y.op.status \in {"ok", "failed"} /\ SameAsks(x, y)}

LEMMA HearList ==
    ASSUME NEW x \in Mgrs, 0 \in Links, Listing(x), NEW r \in Replies
    PROVE  OnList(x, r) \in Heeded(x)
  <1>x. x \in Working(Links, Eras, {FALSE}) /\ x.outbox = <<>> /\ x.op \in Ops
    BY MgrsAre DEF Working
  <1>1. OnList(x, r) \in Working(Links, Eras, {FALSE})
    BY <1>x, OnListTyped
  <1>2. Awaiting(x)
    BY DEF Listing, Awaiting, Done
  <1> DEFINE e == [x EXCEPT !.holder = FALSE]
             h == [x EXCEPT !.holder = TRUE]
  <1>3. \A op \in Ops, s \in Statuses : /\ ~[[op EXCEPT !.awaiting = FALSE] EXCEPT !.status = s].awaiting
                                        /\ [[op EXCEPT !.awaiting = FALSE] EXCEPT !.status = s].status = s
    BY DEF Ops
  <1>4. ASSUME NEW y \in Working(Links, Eras, {FALSE}), y.op = x.op, y.state = x.state, y.outbox = <<>>,
               ~y.connected, ~y.refused, SameAsks(x, y), NEW s \in {"ok", "failed"},
               x.state = "Connect" => s = "failed"
        PROVE  Complete(Answered(y), s) \in Heeded(x)
    <2> DEFINE z == Complete(Answered(y), s)
    <2>1. z \in Working(Links, Eras, {FALSE})
      BY AnsweredTyped, CompleteTyped, Names
    <2>2. z.op = [[x.op EXCEPT !.awaiting = FALSE] EXCEPT !.status = s]
      BY <1>4 DEF Complete, Answered, Working
    <2>3. /\ z.outbox = <<>> /\ z.state = x.state /\ ~z.connected /\ SameAsks(x, z)
      BY <1>4 DEF Complete, Answered, Working, SameAsks
    <2>4. ~z.op.awaiting /\ z.op.status = s
      BY <1>x, <1>3, <2>2, Names
    <2> HIDE DEF z
    <2>5. ~Awaiting(z)
      BY <2>4 DEF Awaiting
    <2>6. x.state \in {"Connect", "RealmList"}
      BY DEF Listing
    <2> QED BY <1>4, <2>1, <2>3, <2>4, <2>5, <2>6 DEF Heeded, Mgrs, Rested, z
  <1>5. /\ e \in Working(Links, Eras, {FALSE}) /\ e.op = x.op /\ e.state = x.state /\ e.outbox = <<>>
        /\ ~e.connected /\ ~e.refused /\ SameAsks(x, e)
    BY <1>x DEF Working, SameAsks, Listing
  <1>6. /\ h \in Working(Links, Eras, {FALSE}) /\ h.op = x.op /\ h.state = x.state /\ h.outbox = <<>>
        /\ ~h.connected /\ ~h.refused /\ SameAsks(x, h)
    BY <1>x DEF Working, SameAsks, Listing
  <1>7. ~x.connected /\ ~x.refused /\ SameAsks(x, x)
    BY DEF Listing, SameAsks
  <1>8. CASE r = "emptied"
    <2>1. OnList(x, r) = Complete(Answered(e), "failed")
      BY <1>2, <1>8 DEF OnList, OnRealmListEmptied
    <2> HIDE DEF e
    <2> QED BY <1>4, <1>5, <2>1
  <1>9. CASE r = "failed"
    <2>1. OnList(x, r) = Complete(Answered(x), "failed")
      BY <1>2, <1>9 DEF OnList, OnRealmList
    <2> QED BY <1>x, <1>4, <1>7, <2>1
  <1>10. CASE r = "ok" /\ x.op.kind = "GetRealms"
    <2>1. OnList(x, r) = Complete(Answered(h), "ok")
      BY <1>2, <1>10 DEF OnList, OnRealmList
    <2>2. x.state # "Connect"
      BY <1>10 DEF Listing
    <2> HIDE DEF h
    <2> QED BY <1>4, <1>6, <2>1, <2>2
  <1>11. CASE r = "ok" /\ x.op.kind = "Connect" /\ ~(x.selected \/ RealmKnown)
    <2>1. OnList(x, r) = Complete(Answered(h), "failed")
      BY <1>2, <1>11 DEF OnList, OnRealmList
    <2> HIDE DEF h
    <2> QED BY <1>4, <1>6, <2>1
  <1>12. CASE r = "ok" /\ x.op.kind = "Connect" /\ (x.selected \/ RealmKnown)
    <2> DEFINE a == [Answered(h) EXCEPT !.selected = TRUE]
               z == AskPark(a, [ask |-> "Dial"])
    <2>1. OnList(x, r) = z
      BY <1>2, <1>12 DEF OnList, OnRealmList
    <2>2. a \in Working(Links, Eras, {FALSE})
      <3>1. Answered(h) \in Working(Links, Eras, {FALSE})
        BY <1>6, AnsweredTyped
      <3> QED BY <3>1, FieldTyped
    <2>3. a.op = [x.op EXCEPT !.awaiting = FALSE]
      BY <1>x DEF Answered, Working
    <2>4. /\ a.outbox = <<>> /\ a.state = x.state /\ ~a.connected /\ ~a.refused /\ SameAsks(x, a)
      BY <1>x, <1>7 DEF Answered, Working, SameAsks
    <2>5. ~a.op.awaiting /\ a.op.status = "run" /\ a.op.kind = "Connect"
      BY <1>x, <1>12, <2>3 DEF Ops, Listing
    <2>6. x.state = "Connect"
      BY <1>12 DEF Listing
    <2> HIDE DEF a
    <2>7. /\ z.outbox = <<>> /\ Calling(z) /\ Asks(x, z, "Dial") /\ ~Awaiting(z) /\ ~z.connected
      BY <2>2, <2>4, <2>5, <2>6 DEF AskPark, Working, SameAsks, Asks, Calling, Awaiting
    <2>8. z \in Working(Links, Eras, {FALSE})
      BY <1>1, <2>1
    <2> HIDE DEF z
    <2> QED BY <2>1, <2>7, <2>8 DEF Heeded, Mgrs, Rested
  <1>13. x.op.kind \in {"Connect", "GetRealms"}
    BY DEF Listing
  <1> QED BY <1>8, <1>9, <1>10, <1>11, <1>12, <1>13 DEF Replies

\* A list that answers nobody only fills the holder or empties it.
LEMMA HearListAgain ==
    ASSUME NEW x, NEW y \in Heeded(x), 0 \in Links, NEW r \in Replies
    PROVE  OnList(y, r) \in Heeded(x)
  <1>y. y \in Mgrs /\ y \in Working(Links, Eras, {FALSE}) /\ y.outbox = <<>> /\ ~Awaiting(y)
    BY MgrsAre DEF Heeded
  <1>1. \/ OnList(y, r) = y
        \/ \E b \in BOOLEAN : OnList(y, r) = [y EXCEPT !.holder = b]
    BY <1>y DEF OnList, OnRealmList, OnRealmListEmptied
  <1>2. ASSUME NEW b \in BOOLEAN
        PROVE  [y EXCEPT !.holder = b] \in Heeded(x)
    <2> DEFINE z == [y EXCEPT !.holder = b]
    <2>1. z \in Mgrs
      BY <1>y DEF Mgrs, Rested, Working
    <2>2. /\ z.state = y.state /\ z.op = y.op /\ z.connected = y.connected /\ z.refused = y.refused
          /\ SameAsks(y, z)
      BY <1>y DEF Working, SameAsks
    <2> HIDE DEF z
    <2>3. z \in Heeded(x)
      BY <2>1, <2>2 DEF Heeded, Awaiting, Calling, Asks, SameAsks
    <2> QED BY <2>3 DEF z
  <1> QED BY <1>1, <1>2

\* The rest of the frame of a list heard.
LEMMA RunHeeded ==
    ASSUME NEW x, NEW y \in Heeded(x), 0 \in Links
    PROVE  ListEnds(x, Run(y))
  <1>y. y \in Mgrs
    BY DEF Heeded
  <1>1. CASE Calling(y) /\ Asks(x, y, "Dial")
    <2>1. Run(y) = y
      BY <1>y, <1>1, RunQuiet DEF Calling
    <2> QED BY <1>1, <2>1 DEF ListEnds
  <1>2. CASE y.state = "Connect" /\ y.op.status = "failed" /\ SameAsks(x, y)
    <2>1. \/ Down(Run(y)) /\ SameAsks(y, Run(y))
          \/ Realms(Run(y)) /\ Asks(y, Run(y), "Refresh")
      BY <1>y, <1>2, RunConnectFailed
    <2> QED BY <1>2, <2>1 DEF ListEnds, SameAsks, Asks
  <1>3. CASE y.state = "RealmList" /\ y.op.status \in {"ok", "failed"} /\ SameAsks(x, y)
    <2>1. SameAsks(y, Run(y)) /\ Run(y).state = "Idle" /\ Run(y).connected = y.connected
      BY <1>y, <1>3, RunRealms
    <2> QED BY <1>3, <2>1 DEF ListEnds, SameAsks, Down, Heeded
  <1> QED BY <1>1, <1>2, <1>3 DEF Heeded

LEMMA ListHeard ==
    ASSUME NEW x \in Mgrs, 0 \in Links, events \in Seq(News), Listing(x), NEW r \in Replies, List(r) \in Unheard,
           \A e \in Unheard : e.kind = "List" => e = List(r),
           Silent({"Failed", "Auth", "RosterFailed", "Roster", "Lost"})
    PROVE  ListEnds(x, Run(Pump(HearSession(HearDial(x, events), events))))
  <1> DEFINE S == {x} \cup Heeded(x)
             y == Told(x, events, "List")
  <1>1. \A z \in S : OnList(z, r) \in Heeded(x)
    BY HearList, HearListAgain
  <1>2. \A z : Hear(z, List(r)) = OnList(z, r)
    BY DEF Hear, List
  <1>3. List(r).kind = "List"
    BY DEF List
  <1>4. y \in Heeded(x)
    <2>1. \A z \in S : \A e \in Unheard : e.kind = "List" => Hear(z, e) \in S
      BY <1>1, <1>2
    <2>2. \A z \in Heeded(x) : \A e \in Unheard : e.kind = "List" => Hear(z, e) \in Heeded(x)
      BY <1>1, <1>2
    <2>3. \A z \in S : Hear(z, List(r)) \in Heeded(x)
      BY <1>1, <1>2
    <2>4. x \in S
      OBVIOUS
    <2> HIDE DEF S
    <2> QED BY <1>3, <2>1, <2>2, <2>3, <2>4, ToldReaches DEF Heard
  <1> HIDE DEF y
  <1>5. y \in Mgrs /\ ~y.authWaits
    BY <1>4, MgrsAre DEF Heeded, Working
  <1>6. /\ Silent({"Failed"}) /\ Silent({"Auth"}) /\ Silent({"RosterFailed", "Roster", "Lost"})
    BY DEF Silent
  <1>7. HearDial(x, events) = y
    BY <1>5, <1>6, ToldNone DEF HearDial, FinishAuth, Heard, y
  <1>8. Pump(HearSession(y, events)) = y
    BY <1>5, <1>6, SessionQuiet
  <1> QED BY <1>4, <1>7, <1>8, RunHeeded

LEMMA DriveListing ==
    ASSUME NEW x \in Mgrs, 0 \in Links, events \in Seq(News), Listing(x), ~x.reconnect, ~x.authFinal,
           client # "InWorld", NEW r \in Replies, Unheard = {List(r)}
    PROVE  ListEnds(x, DriveGlueMgr(x, events))
  <1>1. /\ Silent({"Refused"}) /\ Silent({"Failed", "Auth", "RosterFailed", "Roster", "Lost"})
        /\ Silent({"Stage"}) /\ Silent({"Queued"})
    BY DEF Silent, List
  <1>2. Heads(x) = x
    BY <1>1, HeadsQuiet DEF Listing
  <1>3. Logons(x) = x
    <2>1. x.state # "Logon"
      BY DEF Listing
    <2>2. Told(x, events, "Stage") = x /\ Told(x, events, "Queued") = x
      BY <1>1, ToldNone DEF Heard
    <2>3. HearLogon(x, events) = x
      BY <2>1, <2>2 DEF HearLogon, OnLogonDone
    <2> QED BY <2>2, <2>3 DEF Logons, Latched
  <1> QED BY <1>1, <1>2, <1>3, DriveIs, ListHeard

\* The logon's own list: its arm begins the connect the list then answers.
LEMMA DriveListed ==
    ASSUME NEW x \in Mgrs, 0 \in Links, events \in Seq(News), LoggingOn(x), ~x.reconnect, ~x.authFinal,
           client # "InWorld", NEW r \in Replies, List(r) \in Unheard, Unheard \subseteq {Began, List(r)}
    PROVE  \E l \in Mgrs : SameAsks(x, l) /\ ListEnds(l, DriveGlueMgr(x, events))
  <1> DEFINE y == Told(x, events, "Stage")
             z == [y EXCEPT !.cells = "authenticated", !.authFinal = TRUE]
             l == LoggedOn(z)
  <1>1. /\ Silent({"Refused"}) /\ Silent({"Failed", "Auth", "RosterFailed", "Roster", "Lost"})
        /\ Silent({"Queued"})
    BY DEF Silent, List, Began, Stage
  <1>2. Heads(x) = x
    BY <1>1, HeadsQuiet DEF LoggingOn, LogonUp
  <1>3. y \in Mgrs /\ LoggingOn(y) /\ SameAsks(x, y)
    BY StagesLogging DEF List
  <1>4. HearLogon(x, events) = z
    <2>1. Some(events, "List")
      BY UnheardSome DEF List
    <2> HIDE DEF y
    <2>2. OnLogonDone(y) = z
      BY <1>3 DEF OnLogonDone, LoggingOn, LogonUp
    <2> QED BY <2>1, <2>2 DEF HearLogon, y
  <1> HIDE DEF y
  <1>5. /\ z \in Mgrs /\ z.state = "Logon" /\ z.authFinal /\ z.cells # "failed"
        /\ z.logins = x.logins /\ z.asks = x.asks /\ ~z.reconnect /\ ~z.refused /\ ~z.connected
    BY <1>3 DEF Mgrs, Rested, Working, CellStates, LoggingOn, LogonUp, SameAsks
  <1> HIDE DEF z
  <1>6. Told(z, events, "Queued") = z
    BY <1>1, <1>5, ToldNone DEF Heard
  <1>7. Logons(x) = l
    <2>1. Run(z) = l
      BY <1>5, RunLoggedOn
    <2> QED BY <1>4, <1>5, <1>6, <2>1 DEF Logons, Latched, Run
  <1>8. l \in Mgrs
    BY <1>5, LogonPastDialogRuns DEF Mgrs
  <1>9. /\ l.state = "Connect" /\ ~l.authFinal /\ l.op = Begun("Connect")
        /\ l.logins = x.logins /\ l.asks = x.asks /\ ~l.reconnect /\ ~l.refused /\ ~l.connected
    BY <1>5, MgrsAre DEF LoggedOn, OpIs, Working
  <1> HIDE DEF l
  <1>10. Listing(l)
    BY <1>9, BegunIs, Names DEF Listing
  <1>11. SameAsks(x, l)
    <2>1. l \in Working(Links, Eras, {FALSE}) /\ x \in Working(Links, Eras, {FALSE})
      BY <1>8, MgrsAre
    <2> QED BY <1>9, <2>1 DEF SameAsks, LoggingOn, LogonUp, Working
  <1>12. ListEnds(l, Run(Pump(HearSession(HearDial(l, events), events))))
    <2>1. Began.kind # "List"
      BY DEF Began, Stage
    <2>2. \A e \in Unheard : e.kind = "List" => e = List(r)
      BY <2>1
    <2>3. \A k \in {l} : ListEnds(k, Run(Pump(HearSession(HearDial(k, events), events))))
      BY <1>1, <1>8, <1>10, <2>2, ListHeard
    <2> QED BY <2>3
  <1>13. DriveGlueMgr(x, events) = Run(Pump(HearSession(HearDial(l, events), events)))
    BY <1>2, <1>7, DriveIs
  <1> QED BY <1>8, <1>11, <1>12, <1>13

----------------------------------------------------------------------------
(* The dial, and the session's authentication.                             *)

Hands  == Stage("Handshaking")
Linked == Stage("WorldConnected")
Waits  == [kind |-> "Queued"]
DialFailures == {[kind |-> "Failed", why |-> w] : w \in {"failed", "authFailed"}}
AuthOf == [kind |-> "Auth", epoch |-> epoch, gen |-> gen]

\* The socket up, the connect's arm still to run; and the authentication awaited.
Linking(x)  == /\ x.state = "Connect" /\ x.connected /\ ~x.refused
               /\ x.op.kind = "Connect" /\ x.op.status = "ok"
Queueing(x) == /\ x.state = "Connect" /\ x.connected /\ ~x.refused
               /\ x.op.kind = "Auth" /\ x.op.status = "run"
SocketIsUp(x) == Linking(x) \/ Queueing(x)

\* The manager x of a dial whose socket is up by the news of N, and of any dial.
Reached(x, N) == \/ Calling(x) /\ Linked \in N /\ N \subseteq {Hands, Linked, Waits}
                 \/ Queueing(x) /\ N \subseteq {Waits}
Dialled(x, N) == (Calling(x) /\ N \subseteq {Hands}) \/ Reached(x, N)

\* The stages of a dial and its queue's news, as the manager hears them.
LEMMA HearStages ==
    ASSUME NEW x, 0 \in Links
    PROVE  /\ \A y \in Mgrs : y.state # "Logon" => Hear(y, Hands) = y
           /\ \A y \in Mgrs : (Calling(y) \/ Linking(y)) /\ SameAsks(x, y) =>
                 /\ Hear(y, Linked) \in Mgrs /\ Linking(Hear(y, Linked))
                 /\ SameAsks(x, Hear(y, Linked))
           /\ \A y \in Mgrs : SocketIsUp(y) /\ SameAsks(x, y) =>
                 Hear(y, Waits) \in Mgrs /\ Queueing(Hear(y, Waits)) /\ SameAsks(x, Hear(y, Waits))
  <1>1. ASSUME NEW y \in Mgrs, y.state # "Logon"
        PROVE  Hear(y, Hands) = y
    <2>1. Hands.kind = "Stage" /\ Hands.stage = "Handshaking"
      BY DEF Hands, Stage
    <2> QED BY <1>1, <2>1 DEF Hear, OnStage, OnLogonDone
  <1>2. ASSUME NEW y \in Mgrs, Calling(y) \/ Linking(y), SameAsks(x, y)
        PROVE  /\ Hear(y, Linked) \in Mgrs /\ Linking(Hear(y, Linked))
               /\ SameAsks(x, Hear(y, Linked))
    <2> DEFINE z == [Complete(y, "ok") EXCEPT !.connected = TRUE]
    <2>y. y \in Working(Links, Eras, {FALSE}) /\ y.outbox = <<>>
      BY MgrsAre
    <2>1. Linked.kind = "Stage" /\ Linked.stage = "WorldConnected"
      BY DEF Linked, Stage
    <2>2. y.state = "Connect" /\ y.op.kind = "Connect" /\ ~y.refused
      BY <1>2 DEF Calling, Linking
    <2>3. Hear(y, Linked) = z
      BY <2>1, <2>2 DEF Hear, OnStage
    <2>4. Complete(y, "ok") \in Working(Links, Eras, {FALSE})
      BY <2>y, CompleteTyped, Names
    <2>5. Complete(y, "ok").op.kind = "Connect" /\ Complete(y, "ok").op.status = "ok"
      BY <2>y, <2>2, CompletedIs, Names
    <2>6. z.op = Complete(y, "ok").op
      BY <2>4 DEF Working
    <2>7. z \in Mgrs
      BY <2>y, <2>4 DEF Mgrs, Rested, Working, Complete
    <2>8. z.state = "Connect" /\ z.connected /\ ~z.refused /\ SameAsks(x, z)
      BY <1>2, <2>y, <2>2 DEF Working, Complete, SameAsks
    <2> HIDE DEF z
    <2> QED BY <2>3, <2>5, <2>6, <2>7, <2>8 DEF Linking
  <1>3. ASSUME NEW y \in Mgrs, SocketIsUp(y), SameAsks(x, y)
        PROVE  Hear(y, Waits) \in Mgrs /\ Queueing(Hear(y, Waits)) /\ SameAsks(x, Hear(y, Waits))
    <2> DEFINE z == Begin(y, "Auth")
    <2>y. y \in Working(Links, Eras, {FALSE}) /\ y.outbox = <<>>
      BY MgrsAre
    <2>1. Waits.kind = "Queued" /\ y.state = "Connect" /\ y.connected /\ ~y.refused
      BY <1>3 DEF Waits, SocketIsUp, Linking, Queueing
    <2>2. Hear(y, Waits) = z
      BY <2>1 DEF Hear, OnQueued
    <2>3. z \in Working(Links, Eras, {FALSE})
      BY <2>y, BeginTyped, Names
    <2>o. z.op = Begun("Auth")
      BY <2>y DEF Begin, Working
    <2>4. z.state = "Connect" /\ z.connected /\ ~z.refused /\ SameAsks(x, z) /\ z.outbox = <<>>
      BY <1>3, <2>y, <2>1 DEF Working, Begin, SameAsks
    <2> HIDE DEF z
    <2>5. z.op.kind = "Auth" /\ z.op.status = "run"
      BY <2>o, BegunIs, Names
    <2> QED BY <2>2, <2>3, <2>4, <2>5 DEF Mgrs, Rested, Queueing
  <1> QED BY <1>1, <1>2, <1>3

\* A dial heard of: its socket comes up, or is still awaited.
LEMMA LogonsReached ==
    ASSUME NEW x \in Mgrs, 0 \in Links, events \in Seq(News), ~x.authFinal, Silent({"List"}),
           NEW N, N \subseteq Unheard, Reached(x, N),
           \A e \in Unheard : e.kind \in {"Stage", "Queued"} => e \in N
    PROVE  Logons(x) \in Mgrs /\ SocketIsUp(Logons(x)) /\ SameAsks(x, Logons(x))
  <1> DEFINE y == Told(x, events, "Stage")
             S == {z \in Mgrs : (Calling(z) \/ Linking(z)) /\ SameAsks(x, z)}
             Q == {z \in Mgrs : Linking(z) /\ SameAsks(x, z)}
             U == {z \in Mgrs : SocketIsUp(z) /\ SameAsks(x, z)}
  <1>1. Hands.kind = "Stage" /\ Linked.kind = "Stage" /\ Waits.kind = "Queued" /\ Hands # Linked
    BY DEF Hands, Linked, Waits, Stage
  <1>2. SameAsks(x, x)
    BY DEF SameAsks
  <1>3. y \in U
    <2>1. CASE Calling(x) /\ Linked \in N /\ N \subseteq {Hands, Linked, Waits}
      <3>1. \A e \in Unheard : e.kind = "Stage" => e \in {Hands, Linked}
        BY <1>1, <2>1
      <3>2. \A z \in S : z \in Mgrs /\ z.state # "Logon"
        BY DEF Calling, Linking
      <3>3. \A z \in S : Hear(z, Hands) = z /\ Hear(z, Linked) \in Q
        BY <3>2, HearStages
      <3>4. Q \subseteq S
        OBVIOUS
      <3>5. x \in S /\ Linked \in Unheard
        BY <1>2, <2>1
      <3>6. Q \subseteq U
        BY DEF SocketIsUp
      <3> HIDE DEF S, Q, U
      <3>7. \A z \in S : \A e \in Unheard : e.kind = "Stage" => Hear(z, e) \in S
        BY <3>1, <3>3, <3>4
      <3>8. \A z \in Q : \A e \in Unheard : e.kind = "Stage" => Hear(z, e) \in Q
        BY <3>1, <3>3, <3>4
      <3>9. y \in Q
        BY <1>1, <3>3, <3>5, <3>7, <3>8, ToldReaches DEF Heard
      <3> QED BY <3>6, <3>9
    <2>2. CASE Queueing(x) /\ N \subseteq {Waits}
      <3>1. Silent({"Stage"})
        BY <1>1, <2>2 DEF Silent
      <3>2. y = x
        BY <3>1, ToldNone DEF Heard
      <3> QED BY <1>2, <2>2, <3>2 DEF SocketIsUp
    <2> QED BY <2>1, <2>2 DEF Reached
  <1> HIDE DEF y
  <1>4. HearLogon(x, events) = y
    <2>1. ~Some(events, "List")
      BY SilentSome
    <2> QED BY <2>1 DEF HearLogon, y
  <1>5. Told(y, events, "Queued") \in U
    <2>1. \A z \in U : \A e \in Unheard : e.kind = "Queued" => Hear(z, e) \in U
      <3>1. \A e \in Unheard : e.kind = "Queued" => e = Waits
        BY <1>1 DEF Reached
      <3>2. \A z \in U : Hear(z, Waits) \in U
        BY HearStages DEF SocketIsUp
      <3> QED BY <3>1, <3>2
    <2>2. y \in Mgrs
      BY <1>3
    <2> HIDE DEF U
    <2> QED BY <1>3, <2>1, <2>2, ToldStays DEF Heard
  <1>6. Logons(x) = Told(y, events, "Queued")
    BY <1>4, <1>5 DEF Logons, Latched, SameAsks
  <1> QED BY <1>5, <1>6

LEMMA LogonsCalling ==
    ASSUME NEW x \in Mgrs, 0 \in Links, events \in Seq(News), ~x.authFinal, Silent({"List", "Queued"}),
           Calling(x), \A e \in Unheard : e.kind = "Stage" => e = Hands
    PROVE  Logons(x) = x
  <1>1. Told(x, events, "Stage") \in {x}
    <2>1. x.state # "Logon"
      BY DEF Calling
    <2>2. \A z \in {x} : \A e \in Unheard : e.kind = "Stage" => Hear(z, e) \in {x}
      BY <2>1, HearStages
    <2>3. x \in {x}
      OBVIOUS
    <2> QED BY <2>2, <2>3, ToldStays DEF Heard
  <1>2. Silent({"List"}) /\ Silent({"Queued"})
    BY DEF Silent
  <1>3. HearLogon(x, events) = x
    BY <1>1, <1>2, SilentSome DEF HearLogon
  <1>4. Told(x, events, "Queued") = x
    BY <1>2, ToldNone DEF Heard
  <1> QED BY <1>3, <1>4 DEF Logons, Latched

LEMMA DriveCalling ==
    ASSUME NEW x \in Mgrs, 0 \in Links, events \in Seq(News), ~x.authFinal, ~x.reconnect,
           client # "InWorld", Calling(x), Unheard \subseteq {Hands}
    PROVE  DriveGlueMgr(x, events) = x
  <1>1. /\ Silent({"Refused"}) /\ Silent({"List", "Queued"})
        /\ Silent({"List", "Failed", "Auth"}) /\ Silent({"RosterFailed", "Roster", "Lost"})
    BY DEF Silent, Hands, Stage
  <1>2. Heads(x) = x
    BY <1>1, HeadsQuiet DEF Calling
  <1>3. Logons(x) = x
    BY <1>1, LogonsCalling
  <1>4. Run(x) = x
    BY RunQuiet DEF Calling
  <1> QED BY <1>1, <1>2, <1>3, <1>4, DriveIs, DialQuiet, SessionQuiet

LEMMA DriveReached ==
    ASSUME NEW x \in Mgrs, 0 \in Links, events \in Seq(News), ~x.authFinal, ~x.reconnect,
           client # "InWorld", Reached(x, Unheard)
    PROVE  LET y == DriveGlueMgr(x, events) IN Queueing(y) /\ SameAsks(x, y)
  <1> DEFINE y == Logons(x)
  <1>1. /\ Silent({"Refused"}) /\ Silent({"List"})
        /\ Silent({"List", "Failed", "Auth"}) /\ Silent({"RosterFailed", "Roster", "Lost"})
    <2>1. Unheard \subseteq {Hands, Linked, Waits}
      BY DEF Reached
    <2> QED BY <2>1 DEF Silent, Hands, Linked, Waits, Stage
  <1>2. Heads(x) = x
    BY <1>1, HeadsQuiet DEF Reached, Calling, Queueing
  <1>3. y \in Mgrs /\ SocketIsUp(y) /\ SameAsks(x, y)
    BY <1>1, LogonsReached
  <1> HIDE DEF y
  <1>4. DriveGlueMgr(x, events) = Run(y)
    BY <1>1, <1>2, <1>3, DriveIs, DialQuiet, SessionQuiet DEF y
  <1>5. CASE Linking(y)
    <2>1. Run(y) = OpIs(y, Begun("Auth"))
      BY <1>3, <1>5, RunConnected DEF Linking
    <2>2. OpIs(y, Begun("Auth")).op = Begun("Auth")
      BY <1>3, MgrsAre DEF OpIs, Working
    <2>3. OpIs(y, Begun("Auth")).op.kind = "Auth" /\ OpIs(y, Begun("Auth")).op.status = "run"
      BY <2>2, BegunIs, Names
    <2>4. /\ OpIs(y, Begun("Auth")).state = "Connect" /\ OpIs(y, Begun("Auth")).connected
          /\ ~OpIs(y, Begun("Auth")).refused /\ SameAsks(x, OpIs(y, Begun("Auth")))
      BY <1>3, <1>5, MgrsAre DEF OpIs, Working, SameAsks, Linking
    <2> QED BY <1>4, <2>1, <2>3, <2>4 DEF Queueing
  <1>6. CASE Queueing(y)
    <2>1. Run(y) = y
      BY <1>3, <1>6, RunQuiet DEF Queueing
    <2> QED BY <1>3, <1>4, <1>6, <2>1
  <1> QED BY <1>3, <1>5, <1>6 DEF SocketIsUp

\* A dial that failed: its dialog goes, the realm list shown or asked for.
LEMMA DriveDialFailed ==
    ASSUME NEW x \in Mgrs, 0 \in Links, events \in Seq(News), ~x.authFinal, ~x.reconnect,
           client # "InWorld", NEW f \in DialFailures, f \in Unheard, Dialled(x, Unheard \ {f})
    PROVE  ListEnds(x, DriveGlueMgr(x, events))
  <1> DEFINE y == Logons(x)
             S == {z \in Mgrs : z.state = "Connect" /\ SameAsks(x, z)}
             Q == {z \in S : z.op.status = f.why}
             z == Told(y, events, "Failed")
  <1>0. f.kind = "Failed" /\ f.why \in {"failed", "authFailed"}
    BY DEF DialFailures
  <1>1. Unheard \ {f} \subseteq {Hands, Linked, Waits}
    BY DEF Dialled, Reached
  <1>2. /\ Silent({"Refused"}) /\ Silent({"List"}) /\ Silent({"Auth"})
        /\ Silent({"RosterFailed", "Roster", "Lost"})
    BY <1>0, <1>1 DEF Silent, Hands, Linked, Waits, Stage
  <1>3. x.state = "Connect" /\ ~x.refused
    BY DEF Dialled, Reached, Calling, Queueing
  <1>4. Heads(x) = x
    BY <1>2, <1>3, HeadsQuiet
  <1>5. y \in S
    <2>1. CASE Calling(x) /\ Unheard \ {f} \subseteq {Hands}
      <3>1. Silent({"List", "Queued"})
        BY <1>0, <2>1 DEF Silent, Hands, Stage
      <3>2. \A e \in Unheard : e.kind = "Stage" => e = Hands
        BY <1>0, <2>1
      <3>3. y = x
        BY <2>1, <3>1, <3>2, LogonsCalling
      <3> QED BY <1>3, <3>3 DEF SameAsks
    <2>2. CASE Reached(x, Unheard \ {f})
      <3>1. \A e \in Unheard : e.kind \in {"Stage", "Queued"} => e \in Unheard \ {f}
        BY <1>0
      <3> DEFINE N == Unheard \ {f}
      <3>2. N \subseteq Unheard /\ Reached(x, N)
        BY <2>2
      <3> HIDE DEF N
      <3>3. \A e \in Unheard : e.kind \in {"Stage", "Queued"} => e \in N
        BY <3>1 DEF N
      <3>4. y \in Mgrs /\ SocketIsUp(y) /\ SameAsks(x, y)
        BY <1>2, <3>2, <3>3, LogonsReached
      <3> QED BY <3>4 DEF SocketIsUp, Linking, Queueing
    <2> QED BY <2>1, <2>2 DEF Dialled
  <1>6. z \in Q
    <2>1. ASSUME NEW w \in S, NEW e \in Unheard, e.kind = "Failed"
          PROVE  Hear(w, e) \in Q
      <3>1. e = f
        BY <1>1, <2>1 DEF Hands, Linked, Waits, Stage
      <3>2. Hear(w, e) = Complete(w, f.why)
        BY <1>0, <3>1 DEF Hear, OnFailed
      <3>3. w \in Working(Links, Eras, {FALSE}) /\ w.outbox = <<>> /\ f.why \in Statuses
        BY <1>0, MgrsAre, Names
      <3>4. Complete(w, f.why) \in Working(Links, Eras, {FALSE})
        BY <3>3, CompleteTyped
      <3>5. Complete(w, f.why).op.status = f.why
        BY <3>3, CompletedIs
      <3>6. /\ Complete(w, f.why).outbox = <<>> /\ Complete(w, f.why).state = "Connect"
            /\ SameAsks(x, Complete(w, f.why))
        BY <3>3 DEF Complete, Working, SameAsks
      <3> QED BY <3>2, <3>4, <3>5, <3>6 DEF Mgrs, Rested
    <2>2. Q \subseteq S /\ S \subseteq Mgrs
      OBVIOUS
    <2> HIDE DEF S, Q, y
    <2>3. \A w \in S : \A e \in Unheard : e.kind = "Failed" => Hear(w, e) \in S
      BY <2>1, <2>2
    <2>4. \A w \in Q : \A e \in Unheard : e.kind = "Failed" => Hear(w, e) \in Q
      BY <2>1, <2>2
    <2>5. \A w \in S : Hear(w, f) \in Q
      BY <1>0, <2>1
    <2>6. y \in Mgrs
      BY <1>5, <2>2
    <2> QED BY <1>0, <1>5, <2>3, <2>4, <2>5, <2>6, ToldReaches DEF Heard
  <1> HIDE DEF y
  <1>7. HearDial(y, events) = z
    <2>1. Told(y, events, "List") = y
      BY <1>2, <1>5, ToldNone DEF Heard
    <2>2. z \in Mgrs /\ ~z.authWaits
      BY <1>6, MgrsAre DEF Working
    <2> HIDE DEF z
    <2>3. Told(z, events, "Auth") = z
      BY <1>2, <2>2, ToldNone DEF Heard
    <2> QED BY <2>1, <2>2, <2>3 DEF HearDial, FinishAuth, z
  <1> HIDE DEF z
  <1>8. DriveGlueMgr(x, events) = Run(z)
    BY <1>2, <1>4, <1>6, <1>7, DriveIs, SessionQuiet DEF y
  <1>9. z \in Mgrs /\ z.state = "Connect" /\ SameAsks(x, z) /\ z.op.status \in {"failed", "authFailed"}
    BY <1>0, <1>6
  <1>10. \/ Down(Run(z)) /\ SameAsks(z, Run(z))
         \/ Realms(Run(z)) /\ Asks(z, Run(z), "Refresh")
    BY <1>9, RunConnectFailed, RunAuthFailed
  <1> QED BY <1>8, <1>9, <1>10 DEF ListEnds, SameAsks, Asks

\* A manager on the link numbered n, its rows none or that link's; its list asked for.
Joined(x, n)   == /\ x.connected /\ x.screen = "charselect" /\ ~x.list /\ x.selected
                  /\ x.link = n /\ x.rows \in {0, n}
CharListing(x) == x.state = "CharList" /\ x.op.kind = "CharList" /\ x.op.status = "run"

LEMMA RosterAsked ==
    ASSUME NEW y, Roster0(y)
    PROVE  CharListing(y) /\ y.rows = 0
  <1>1. Begun("CharList").kind = "CharList" /\ Begun("CharList").status = "run"
    BY BegunIs, Names
  <1> QED BY <1>1 DEF Roster0, CharListing

\* The session authenticated: the selection shown, its list asked for.
LEMMA DriveAuth ==
    ASSUME NEW x \in Mgrs, 0 \in Links, epoch \in Links, events \in Seq(News), ~x.authFinal, ~x.reconnect,
           client # "InWorld", AuthOf \in Unheard, Reached(x, Unheard \ {AuthOf})
    PROVE  LET y == DriveGlueMgr(x, events)
           IN Asks(x, y, "Enumerate") /\ Joined(y, epoch) /\ CharListing(y)
  <1> DEFINE y == Logons(x)
             S == {z \in Mgrs : /\ z.state = "Connect" /\ SameAsks(x, z)}
             Q == {z \in S : /\ z.op.kind = "Auth" /\ z.op.status = "ok"
                             /\ z.connected /\ z.selected /\ z.link = epoch}
             z == Told(y, events, "Auth")
  <1>0. AuthOf.kind = "Auth" /\ AuthOf.epoch = epoch /\ AuthOf.gen = gen
    BY DEF AuthOf
  <1>1. Unheard \ {AuthOf} \subseteq {Hands, Linked, Waits}
    BY DEF Reached
  <1>2. /\ Silent({"Refused"}) /\ Silent({"List"}) /\ Silent({"Failed"})
        /\ Silent({"RosterFailed", "Roster", "Lost"})
    BY <1>0, <1>1 DEF Silent, Hands, Linked, Waits, Stage
  <1>3. ~x.refused
    BY DEF Reached, Calling, Queueing
  <1>4. Heads(x) = x
    BY <1>2, <1>3, HeadsQuiet
  <1>5. y \in S
    <2> DEFINE N == Unheard \ {AuthOf}
    <2>1. N \subseteq Unheard /\ Reached(x, N) /\ \A e \in Unheard : e.kind \in {"Stage", "Queued"} => e \in N
      BY <1>0
    <2> HIDE DEF N
    <2>2. y \in Mgrs /\ SocketIsUp(y) /\ SameAsks(x, y)
      BY <1>2, <2>1, LogonsReached
    <2> QED BY <2>2 DEF SocketIsUp, Linking, Queueing
  <1>6. z \in Q
    <2>1. ASSUME NEW w \in S, NEW e \in Unheard, e.kind = "Auth"
          PROVE  Hear(w, e) \in Q
      <3>1. e = AuthOf
        BY <1>1, <2>1 DEF Hands, Linked, Waits, Stage
      <3>2. Hear(w, e) = OnWorldAuthenticated(w, epoch)
        BY <1>0, <3>1 DEF Hear
      <3>3. w \in Mgrs /\ w.state = "Connect" /\ SameAsks(x, w)
        OBVIOUS
      <3>4. /\ OnWorldAuthenticated(w, epoch) \in Mgrs
            /\ OnWorldAuthenticated(w, epoch).state = "Connect"
            /\ SameAsks(x, OnWorldAuthenticated(w, epoch))
            /\ OnWorldAuthenticated(w, epoch).connected /\ OnWorldAuthenticated(w, epoch).selected
            /\ OnWorldAuthenticated(w, epoch).link = epoch
            /\ OnWorldAuthenticated(w, epoch).op.kind = "Auth"
            /\ OnWorldAuthenticated(w, epoch).op.status = "ok"
        BY <3>3, HearAuth DEF SameAsks
      <3> QED BY <3>2, <3>4
    <2>2. Q \subseteq S /\ S \subseteq Mgrs
      OBVIOUS
    <2> HIDE DEF S, Q, y
    <2>3. \A w \in S : \A e \in Unheard : e.kind = "Auth" => Hear(w, e) \in S
      BY <2>1, <2>2
    <2>4. \A w \in Q : \A e \in Unheard : e.kind = "Auth" => Hear(w, e) \in Q
      BY <2>1, <2>2
    <2>5. \A w \in S : Hear(w, AuthOf) \in Q
      BY <1>0, <2>1
    <2>6. y \in Mgrs
      BY <1>5, <2>2
    <2> QED BY <1>0, <1>5, <2>3, <2>4, <2>5, <2>6, ToldReaches DEF Heard
  <1> HIDE DEF y
  <1>7. HearDial(y, events) = z
    <2>1. Told(y, events, "List") = y /\ Told(y, events, "Failed") = y
      BY <1>2, <1>5, ToldNone DEF Heard
    <2>2. ~z.authWaits
      BY <1>6, MgrsAre DEF Working
    <2> HIDE DEF z
    <2> QED BY <2>1, <2>2 DEF HearDial, FinishAuth, z
  <1> HIDE DEF z
  <1>8. DriveGlueMgr(x, events) = Run(z)
    BY <1>2, <1>4, <1>6, <1>7, DriveIs, SessionQuiet DEF y
  <1>9. Asks(z, Run(z), "Enumerate") /\ Selects(z, Run(z)) /\ Roster0(Run(z))
    BY <1>6, RunAuthenticated
  <1>10. SameAsks(x, z) /\ z.selected /\ z.link = epoch
    BY <1>6
  <1>11. CharListing(Run(z)) /\ Run(z).rows = 0
    BY <1>9, RosterAsked
  <1>12. Run(z).link = epoch /\ Run(z).selected /\ Joined(Run(z), epoch)
    BY <1>9, <1>10, <1>11 DEF Selects, Joined
  <1>13. Asks(x, Run(z), "Enumerate")
    BY <1>9, <1>10 DEF SameAsks, Asks
  <1> QED BY <1>8, <1>11, <1>12, <1>13

----------------------------------------------------------------------------
(* The selection and the world.                                            *)

Rosters == {[kind |-> "Roster", epoch |-> epoch]}
           \cup [kind : {"RosterFailed"}, epoch : {epoch}, emptied : BOOLEAN]
Entry   == [kind |-> "Connected"]
Refusal == [kind |-> "Refused"]
Logged  == [kind |-> "LoggedOut"]

\* The roster, or its failure, answers the list.
LEMMA DriveRoster ==
    ASSUME NEW x \in Mgrs, 0 \in Links, epoch \in Links, events \in Seq(News), ~x.authFinal, ~x.reconnect,
           client # "InWorld", ~x.refused, CharListing(x), Joined(x, epoch),
           NEW r \in Rosters, Unheard = {r}
    PROVE  LET y == DriveGlueMgr(x, events)
           IN SameAsks(x, y) /\ Joined(y, epoch) /\ y.state = "Idle"
  <1> DEFINE S == {z \in Mgrs : /\ z.state = "CharList" /\ SameAsks(x, z) /\ Joined(z, epoch)
                                /\ z.op.kind = "CharList"
                                /\ \/ z.op.status = "run"
                                   \/ z.op.status = "ok" /\ z.roster = epoch
                                   \/ z.op.status = "failed"}
             Q == {z \in S : z.op.status # "run"}
             y == Told(x, events, "RosterFailed")
             z == Told(y, events, "Roster")
  <1>0. r.kind \in {"Roster", "RosterFailed"} /\ r.epoch = epoch
    BY DEF Rosters
  <1>1. /\ Silent({"Refused"}) /\ Silent({"Stage", "List", "Queued"})
        /\ Silent({"List", "Failed", "Auth"}) /\ Silent({"Lost"})
    BY <1>0 DEF Silent
  <1>2. Heads(x) = x
    BY <1>1, HeadsQuiet
  <1>3. Logons(x) = x /\ HearDial(x, events) = x
    BY <1>1, LogonsQuiet, DialQuiet
  <1>4. x \in S
    BY DEF SameAsks, CharListing
  <1>5. ASSUME NEW w \in S
        PROVE  Hear(w, r) \in Q
    <2>w. /\ w \in Working(Links, Eras, {FALSE}) /\ w.outbox = <<>> /\ w.state = "CharList"
          /\ SameAsks(x, w) /\ Joined(w, epoch) /\ w.op.kind = "CharList" /\ w.link = epoch
      BY MgrsAre DEF Joined
    <2>1. ASSUME NEW v \in Working(Links, Eras, {FALSE}), v.outbox = <<>>, v.state = "CharList",
                 SameAsks(x, v), Joined(v, epoch), v.op.kind = "CharList", NEW s \in {"ok", "failed"},
                 s = "ok" => v.roster = epoch
          PROVE  Complete(v, s) \in Q
      <3>1. Complete(v, s) \in Working(Links, Eras, {FALSE}) /\ s \in Statuses
        BY CompleteTyped, Names
      <3>2. Complete(v, s).op.kind = "CharList" /\ Complete(v, s).op.status = s
        BY <2>1, <3>1, CompletedIs
      <3>3. /\ Complete(v, s).outbox = <<>> /\ Complete(v, s).state = "CharList"
            /\ SameAsks(x, Complete(v, s)) /\ Joined(Complete(v, s), epoch)
            /\ Complete(v, s).roster = v.roster
        BY <2>1 DEF Complete, Working, SameAsks, Joined
      <3> QED BY <2>1, <3>1, <3>2, <3>3 DEF Mgrs, Rested
    <2> DEFINE a == [w EXCEPT !.roster = epoch]
               b == [w EXCEPT !.roster = 0]
    <2>2. /\ a \in Working(Links, Eras, {FALSE}) /\ a.outbox = <<>> /\ a.state = "CharList"
          /\ SameAsks(x, a) /\ Joined(a, epoch) /\ a.op.kind = "CharList" /\ a.roster = epoch
      BY <2>w DEF Working, SameAsks, Joined
    <2>3. /\ b \in Working(Links, Eras, {FALSE}) /\ b.outbox = <<>> /\ b.state = "CharList"
          /\ SameAsks(x, b) /\ Joined(b, epoch) /\ b.op.kind = "CharList"
      BY <2>w DEF Working, SameAsks, Joined
    <2>4. \/ Hear(w, r) = Complete(a, "ok") \/ Hear(w, r) = Complete(b, "failed")
          \/ Hear(w, r) = Complete(w, "failed")
      BY <1>0, <2>w DEF Hear, OnRoster, OnRosterFailed
    <2> HIDE DEF a, b, S, Q
    <2> QED BY <2>w, <2>1, <2>2, <2>3, <2>4
  <1>6. z \in Q
    <2>1. Q \subseteq S /\ S \subseteq Mgrs
      OBVIOUS
    <2>2. \A e \in Unheard : e = r
      OBVIOUS
    <2> HIDE DEF S, Q
    <2>3. \A k, w : w \in S => \A e \in Unheard : e.kind = k => Hear(w, e) \in S
      BY <1>5, <2>1, <2>2
    <2>4. \A k, w : w \in Q => \A e \in Unheard : e.kind = k => Hear(w, e) \in Q
      BY <1>5, <2>1, <2>2
    <2>5. \A w \in S : Hear(w, r) \in Q
      BY <1>5
    <2>6. r \in Unheard
      OBVIOUS
    <2>7. CASE r.kind = "RosterFailed"
      <3>1. y \in Q
        BY <1>4, <2>1, <2>3, <2>4, <2>5, <2>6, <2>7, ToldReaches DEF Heard
      <3>2. y \in Mgrs
        BY <2>1, <3>1
      <3> HIDE DEF y
      <3> QED BY <2>4, <3>1, <3>2, ToldStays DEF Heard
    <2>8. CASE r.kind = "Roster"
      <3>1. y \in S
        BY <1>4, <2>1, <2>3, ToldStays DEF Heard
      <3>2. y \in Mgrs
        BY <2>1, <3>1
      <3> HIDE DEF y
      <3> QED BY <2>1, <2>3, <2>4, <2>5, <2>6, <2>8, <3>1, <3>2, ToldReaches DEF Heard
    <2> QED BY <1>0, <2>7, <2>8
  <1> HIDE DEF y
  <1>7. HearSession(x, events) = z
    <2>1. z \in Mgrs
      BY <1>6
    <2> HIDE DEF z
    <2>2. Told(z, events, "Lost") = z
      BY <1>1, <2>1, ToldNone DEF Heard
    <2> QED BY <2>2 DEF HearSession, y, z
  <1> HIDE DEF z
  <1>8. z \in Mgrs /\ Pump(z) = z
    BY <1>6, PumpNone, MgrsAre
  <1>9. DriveGlueMgr(x, events) = Run(z)
    BY <1>2, <1>3, <1>7, <1>8, DriveIs
  <1>10. /\ SameAsks(z, Run(z)) /\ Run(z).state = "Idle" /\ Run(z).rows \in {0, epoch}
         /\ Run(z).connected = z.connected /\ Run(z).screen = z.screen /\ Run(z).list = z.list
         /\ Run(z).selected = z.selected /\ Run(z).link = z.link
    <2>1. CASE z.op.status = "ok"
      BY <1>6, <1>8, <2>1, RunRoster
    <2>2. CASE z.op.status = "failed"
      BY <1>6, <1>8, <2>2, RunListFailed
    <2> QED BY <1>6, <2>1, <2>2
  <1> QED BY <1>6, <1>9, <1>10 DEF SameAsks, Joined

\* A frame at the screens that hears at most of the entry runs the arm of the manager's state;
\* one that hears of a refused login too shows it, and asks for the list again.
LEMMA DriveStill ==
    ASSUME NEW x \in Mgrs, 0 \in Links, events \in Seq(News), ~x.authFinal, ~x.reconnect,
           client # "InWorld", ~x.refused, Unheard \subseteq {Entry}
    PROVE  DriveGlueMgr(x, events) = Run(x)
  <1>1. Silent({"Refused"}) /\ Silent(Heard)
    BY DEF Silent, Entry, Heard
  <1>2. Heads(x) = x
    BY <1>1, HeadsQuiet
  <1> QED BY <1>1, <1>2, DriveSilent

LEMMA DriveRefusal ==
    ASSUME NEW x \in Mgrs, 0 \in Links, epoch \in Links, events \in Seq(News), ~x.authFinal, ~x.reconnect,
           client # "InWorld", Joined(x, epoch), Refusal \in Unheard, Unheard \subseteq {Entry, Refusal}
    PROVE  LET y == DriveGlueMgr(x, events)
           IN /\ y.logins = x.logins /\ y.asks = Append(x.asks, [ask |-> "Enumerate"])
              /\ ~y.reconnect /\ ~y.authFinal /\ ~y.refused
              /\ Joined(y, epoch) /\ CharListing(y)
  <1> DEFINE z == Heads(x)
  <1>1. Silent(Heard)
    BY DEF Silent, Entry, Refusal, Heard
  <1>2. Some(events, "Refused")
    BY UnheardSome DEF Refusal
  <1>3. /\ z \in Mgrs /\ z.state = "LoginRefused" /\ ~z.refused
        /\ ~z.reconnect
        /\ z.logins = x.logins /\ z.asks = x.asks /\ ~z.authFinal
        /\ z.connected /\ z.screen = "charselect" /\ ~z.list
        /\ z.selected /\ z.link = epoch
    BY <1>2, HeadsRefused DEF Joined
  <1> HIDE DEF z
  <1>4. DriveGlueMgr(x, events) = Run(z)
    BY <1>1, <1>3, DriveSilent DEF z
  <1>5. /\ Asks(z, Run(z), "Enumerate") /\ Roster0(Run(z)) /\ Run(z).connected
        /\ Run(z).screen = z.screen /\ Run(z).list = z.list
        /\ Run(z).selected = z.selected /\ Run(z).link = z.link
    BY <1>3, RunRefused
  <1>6. CharListing(Run(z)) /\ Run(z).rows = 0
    BY <1>5, RosterAsked
  <1> QED BY <1>3, <1>4, <1>5, <1>6 DEF Joined, Asks

\* The arm of a login refused at the screens.
LEMMA RefusedAsks ==
    ASSUME NEW x \in Mgrs, 0 \in Links, ~x.authFinal, ~x.reconnect, ~x.refused,
           Joined(x, epoch), x.state = "LoginRefused"
    PROVE  Asks(x, Run(x), "Enumerate") /\ Joined(Run(x), epoch) /\ CharListing(Run(x))
  <1>1. /\ Asks(x, Run(x), "Enumerate") /\ Roster0(Run(x)) /\ Run(x).connected
        /\ Run(x).screen = x.screen /\ Run(x).list = x.list
        /\ Run(x).selected = x.selected /\ Run(x).link = x.link
    BY RunRefused DEF Joined
  <1>2. CharListing(Run(x)) /\ Run(x).rows = 0
    BY <1>1, RosterAsked
  <1> QED BY <1>1, <1>2 DEF Joined

\* A frame in the world: the screens' state is 0, a refusal waits for the screens.
LEMMA DriveWorld ==
    ASSUME NEW x \in Mgrs, 0 \in Links, events \in Seq(News), ~x.authFinal, ~x.reconnect,
           client = "InWorld", Joined(x, epoch), Unheard \subseteq {Refusal, Logged}
    PROVE  LET y == DriveGlueMgr(x, events)
           IN /\ y.logins = x.logins /\ y.asks = x.asks
              /\ ~y.reconnect /\ ~y.authFinal /\ y.refused = (x.refused \/ Refusal \in Unheard)
              /\ Joined(y, epoch) /\ y.state = "Idle"
  <1> DEFINE z == Heads(x)
  <1>1. Silent(Heard)
    BY DEF Silent, Logged, Refusal, Heard
  <1>2. Some(events, "Refused") <=> Refusal \in Unheard
    <2>1. Refusal \in Unheard => Some(events, "Refused")
      BY UnheardSome DEF Refusal
    <2>2. Refusal \notin Unheard => Silent({"Refused"})
      BY DEF Silent, Logged
    <2> QED BY <2>1, <2>2, SilentSome
  <1>3. /\ z \in Mgrs /\ z.state = "Idle" /\ z.refused = (x.refused \/ Some(events, "Refused"))
        /\ z.reconnect = x.reconnect
        /\ z.logins = x.logins /\ z.asks = x.asks /\ z.authFinal = x.authFinal
        /\ z.connected = x.connected /\ z.screen = x.screen /\ z.list = x.list
        /\ z.selected = x.selected /\ z.link = x.link /\ z.rows = x.rows
    BY HeadsInWorld
  <1> HIDE DEF z
  <1>4. ~z.authFinal
    BY <1>3
  <1>5. DriveGlueMgr(x, events) = Run(z)
    BY <1>1, <1>3, <1>4, DriveSilent DEF z
  <1>6. Run(z) = z
    BY <1>3, RunQuiet
  <1>7. z.refused = (x.refused \/ Refusal \in Unheard)
    BY <1>2, <1>3
  <1>8. Joined(z, epoch)
    BY <1>3 DEF Joined
  <1>9. ~z.reconnect
    BY <1>3
  <1> QED BY <1>3, <1>4, <1>5, <1>6, <1>7, <1>8, <1>9

\* The glue VM built again behind the world: the selection, its list asked for or the refusal
\* shown; and the login screen.
LEMMA SeatSelection ==
    ASSUME NEW x \in Mgrs, 0 \in Links, ~x.reconnect, Joined(x, epoch)
    PROVE  LET y == Seat(x, "charselect")
           IN /\ y \in Mgrs /\ y.logins = x.logins /\ ~y.reconnect /\ ~y.authFinal /\ ~y.refused
              /\ Joined(y, epoch)
              /\ \/ y.state = "LoginRefused" /\ y.asks = x.asks
                 \/ CharListing(y) /\ y.asks = Append(x.asks, [ask |-> "Enumerate"])
  <1> DEFINE bare  == [x EXCEPT !.state = "Idle", !.cells = "none", !.authFinal = FALSE, !.rows = 0]
             built == TakeRefusal(bare)
             a     == AtSelection(built)
  <1>x. x \in Rested(Links, Eras, {FALSE}) /\ x \in Working(Links, Eras, {FALSE}) /\ x.outbox = <<>>
    BY MgrsAre
  <1>1. bare \in Working(Links, Eras, {FALSE})
    BY <1>x, FieldTyped, Names
  <1>2. /\ bare.outbox = <<>> /\ bare.logins = x.logins /\ bare.asks = x.asks /\ ~bare.reconnect
        /\ ~bare.authFinal /\ bare.refused = x.refused /\ Joined(bare, epoch) /\ bare.state = "Idle"
    BY <1>x DEF Working, Joined
  <1> HIDE DEF bare
  <1>3. built \in Working(Links, Eras, {FALSE})
    BY <1>1, TakeRefusalTyped
  <1>4. /\ built.outbox = <<>> /\ built.logins = x.logins /\ built.asks = x.asks /\ ~built.reconnect
        /\ ~built.authFinal /\ ~built.refused /\ Joined(built, epoch)
        /\ built.state \in {"Idle", "LoginRefused"}
    <2>1. CASE bare.refused
      <3>1. built = [Complete(Begin(bare, "Login"), "failed") EXCEPT !.refused = FALSE,
                                                                    !.state = "LoginRefused"]
        BY <2>1 DEF TakeRefusal
      <3> QED BY <1>1, <1>2, <3>1 DEF Working, Complete, Begin, Joined
    <2>2. CASE ~bare.refused
      BY <1>2, <2>2 DEF TakeRefusal
    <2> QED BY <2>1, <2>2
  <1> HIDE DEF built
  <1>5. built \in Rested(Links, Eras, {FALSE}) /\ a \in Rested(Links, Eras, {FALSE})
    BY <1>3, <1>4, MadeRests DEF Rested
  <1>6. Seat(x, "charselect") = RunOut(built, "CharSelect")
    <2>1. Seat(x, "charselect") = Pump(Raise(built, <<"CharSelect">>))
      BY DEF Seat, built, bare
    <2>2. Raise(built, <<"CharSelect">>) = Boxed(built, <<"CharSelect">>)
      BY <1>4, RaisedBoxed
    <2>3. Pump(Boxed(built, <<"CharSelect">>)) = RunOut(built, "CharSelect")
      BY <1>5, PumpOne, Names
    <2> QED BY <2>1, <2>2, <2>3
  <1>7. /\ a.logins = x.logins /\ a.asks = x.asks /\ ~a.reconnect /\ ~a.authFinal /\ ~a.refused
        /\ Joined(a, epoch) /\ a.state = built.state
    BY <1>3, <1>4 DEF AtSelection, Working, Joined
  <1>8. CASE built.state = "LoginRefused"
    <2>1. Seat(x, "charselect") = a
      BY <1>5, <1>6, <1>8, CharSelectRuns
    <2> HIDE DEF a
    <2> QED BY <1>5, <1>7, <1>8, <2>1 DEF Mgrs
  <1>9. CASE built.state = "Idle"
    <2>1. Seat(x, "charselect") = Enumerating(a)
      BY <1>4, <1>5, <1>6, <1>9, CharSelectRuns DEF Joined
    <2> HIDE DEF a
    <2>2. Enumerating(a) \in Mgrs
      BY <1>5, EnumeratingRests DEF Mgrs
    <2>3. a \in Working(Links, Eras, {FALSE})
      BY <1>5 DEF Rested
    <2>4. /\ Enumerating(a).logins = x.logins /\ ~Enumerating(a).reconnect /\ ~Enumerating(a).authFinal
          /\ ~Enumerating(a).refused /\ Joined(Enumerating(a), epoch) /\ Roster0(Enumerating(a))
          /\ Enumerating(a).asks = Append(x.asks, [ask |-> "Enumerate"])
      BY <1>7, <2>3 DEF Enumerating, Asking, AtState, NoRows, Working, Joined, Roster0
    <2> QED BY <2>1, <2>2, <2>4, RosterAsked
  <1> QED BY <1>4, <1>8, <1>9

LEMMA SeatLogin ==
    ASSUME NEW x \in Mgrs, 0 \in Links, ~x.reconnect, ~x.refused
    PROVE  LET y == Seat(x, "login")
           IN /\ y \in Mgrs /\ y.logins = x.logins /\ y.asks = x.asks /\ ~y.reconnect /\ ~y.authFinal
              /\ ~y.refused /\ ~y.list /\ y.state = "Idle" /\ y.connected = x.connected
  <1> DEFINE bare == [x EXCEPT !.state = "Idle", !.cells = "none", !.authFinal = FALSE, !.rows = 0]
             y    == [bare EXCEPT !.screen = "login", !.list = FALSE]
  <1>x. x \in Working(Links, Eras, {FALSE}) /\ x.outbox = <<>>
    BY MgrsAre
  <1>1. bare \in Working(Links, Eras, {FALSE})
    BY <1>x, FieldTyped, Names
  <1>2. /\ bare.outbox = <<>> /\ bare.logins = x.logins /\ bare.asks = x.asks /\ ~bare.reconnect
        /\ ~bare.authFinal /\ ~bare.refused /\ bare.state = "Idle" /\ bare.connected = x.connected
    BY <1>x DEF Working
  <1>3. Seat(x, "login") = Pump([TakeRefusal(bare) EXCEPT !.screen = "login", !.list = FALSE])
    BY DEF Seat
  <1> HIDE DEF bare
  <1>4. TakeRefusal(bare) = bare
    BY <1>2 DEF TakeRefusal
  <1>5. y \in Working(Links, Eras, {FALSE})
    BY <1>1 DEF Working
  <1>6. /\ y.outbox = <<>> /\ y.logins = x.logins /\ y.asks = x.asks /\ ~y.reconnect
        /\ ~y.authFinal /\ ~y.refused /\ y.state = "Idle" /\ ~y.list /\ y.connected = x.connected
    BY <1>1, <1>2 DEF Working
  <1>7. Seat(x, "login") = Pump(y)
    BY <1>3, <1>4
  <1> HIDE DEF y
  <1>8. Seat(x, "login") = y
    BY <1>5, <1>6, <1>7, PumpNone DEF Rested
  <1> QED BY <1>5, <1>6, <1>8 DEF Mgrs, Rested

----------------------------------------------------------------------------
(* What a frame leaves.                                                    *)

Dial       == [ask |-> "Dial", gen |-> gen]
Cleared(y) == [y EXCEPT !.logins = <<>>, !.asks = <<>>]

LEMMA ClearedIs ==
    ASSUME NEW y \in Mgrs
    PROVE  /\ Cleared(y) \in Mgrs /\ Cleared(y).logins = <<>> /\ Cleared(y).asks = <<>>
           /\ Cleared(y).state = y.state /\ Cleared(y).cells = y.cells /\ Cleared(y).stands = y.stands
           /\ Cleared(y).authFinal = y.authFinal /\ Cleared(y).connected = y.connected
           /\ Cleared(y).reconnect = y.reconnect /\ Cleared(y).op = y.op
           /\ Cleared(y).selected = y.selected /\ Cleared(y).link = y.link
           /\ Cleared(y).rows = y.rows /\ Cleared(y).refused = y.refused
           /\ Cleared(y).screen = y.screen /\ Cleared(y).list = y.list
  <1>1. y \in Working(Links, Eras, {FALSE}) /\ y.outbox = <<>>
    BY MgrsAre
  <1>2. <<>> \in Seq(LoginAsks) /\ <<>> \in Seq(ParkAsks(Links, Eras))
    OBVIOUS
  <1>3. Cleared(y) \in Working(Links, Eras, {FALSE}) /\ Cleared(y).outbox = <<>>
    BY <1>1, <1>2 DEF Cleared, Working
  <1>4. /\ Cleared(y).logins = <<>> /\ Cleared(y).asks = <<>>
        /\ Cleared(y).state = y.state /\ Cleared(y).cells = y.cells /\ Cleared(y).stands = y.stands
        /\ Cleared(y).authFinal = y.authFinal /\ Cleared(y).connected = y.connected
        /\ Cleared(y).reconnect = y.reconnect /\ Cleared(y).op = y.op
        /\ Cleared(y).selected = y.selected /\ Cleared(y).link = y.link
        /\ Cleared(y).rows = y.rows /\ Cleared(y).refused = y.refused
        /\ Cleared(y).screen = y.screen /\ Cleared(y).list = y.list
    BY <1>1 DEF Cleared, Working
  <1> QED BY <1>3, <1>4 DEF Mgrs, Rested

\* The asks of the login engine in a conversation.
FrameLogins == {<<>>, <<"Submit">>, <<"Abandon">>, <<"CloseLink", "CloseLink">>}

LEMMA AnswersAre ==
    /\ FrameLogins \subseteq Seq(LoginAsks)
    /\ Answers(<<>>) = <<>> /\ Answers(<<"Submit">>) = <<Submit>>
    /\ Answers(<<"Abandon">>) = <<Bump, Close>>
    /\ Answers(<<"CloseLink", "CloseLink">>) = <<Close, Close>>
    /\ \A logins \in FrameLogins : Bumps(Answers(logins)) = 0 \/ logins = <<"Abandon">>
  <1>1. FrameLogins \subseteq Seq(LoginAsks)
    <2>1. "Submit" \in LoginAsks /\ "CloseLink" \in LoginAsks /\ "Abandon" \in LoginAsks
      BY DEF LoginAsks
    <2> HIDE DEF LoginAsks
    <2>2. \A a, b \in LoginAsks : <<>> \in Seq(LoginAsks) /\ <<a>> \in Seq(LoginAsks)
                                  /\ <<a, b>> \in Seq(LoginAsks)
      OBVIOUS
    <2> QED BY <2>1, <2>2 DEF FrameLogins
  <1>2. \A s \in Seq({Submit, Close}) : <<>> \o s = s
    BY ConcatEmptySeq
  <1>3. <<Submit>> \in Seq({Submit, Close}) /\ <<Close>> \in Seq({Submit, Close})
    OBVIOUS
  <1>4. Answer("Submit") = <<Submit>> /\ Answer("CloseLink") = <<Close>>
    BY DEF Answer
  <1>5. Answers(<<>>) = <<>>
    <2>1. PICK f : Sending(f, <<>>)
      BY <1>1, AnswersChain DEF FrameLogins
    <2>2. Len(<<>>) = 0
      OBVIOUS
    <2> QED BY <2>1, <2>2 DEF Sending
  <1>6. Answers(<<"Submit">>) = <<Submit>>
    <2> DEFINE s == <<"Submit">>
    <2>0. s \in Seq(LoginAsks)
      BY <1>1 DEF FrameLogins
    <2>1. Len(s) = 1 /\ s[1] = "Submit"
      OBVIOUS
    <2> HIDE DEF s
    <2>2. PICK f : Sending(f, s)
      BY <2>0, AnswersChain
    <2>3. f[0] = <<>> /\ f[1] = f[0] \o Answer(s[1]) /\ Answers(s) = f[1]
      <3>1. 1 \in 1 .. Len(s) /\ 1 - 1 = 0
        BY <2>1
      <3>2. \A i \in 1 .. Len(s) : f[i] = f[i - 1] \o Answer(s[i])
        BY <2>2 DEF Sending
      <3> QED BY <2>1, <2>2, <3>1, <3>2 DEF Sending
    <2>4. Answers(s) = <<>> \o Answer("Submit")
      BY <2>1, <2>3
    <2> QED BY <1>2, <1>3, <1>4, <2>4 DEF s
  <1>a. Answers(<<"Abandon">>) = <<Bump, Close>>
    <2> DEFINE s == <<"Abandon">>
               t == <<Bump, Close>>
    <2>0. s \in Seq(LoginAsks)
      BY <1>1 DEF FrameLogins
    <2>1. Len(s) = 1 /\ s[1] = "Abandon"
      OBVIOUS
    <2>t. <<>> \o t = t
      OBVIOUS
    <2> HIDE DEF s, t
    <2>2. PICK f : Sending(f, s)
      BY <2>0, AnswersChain
    <2>3. f[0] = <<>> /\ f[1] = f[0] \o Answer(s[1]) /\ Answers(s) = f[1]
      <3>1. 1 \in 1 .. Len(s) /\ 1 - 1 = 0
        BY <2>1
      <3>2. \A i \in 1 .. Len(s) : f[i] = f[i - 1] \o Answer(s[i])
        BY <2>2 DEF Sending
      <3> QED BY <2>1, <2>2, <3>1, <3>2 DEF Sending
    <2>4. Answer("Abandon") = t
      BY DEF Answer, t
    <2>5. Answers(s) = <<>> \o t
      BY <2>1, <2>3, <2>4
    <2> QED BY <2>t, <2>5 DEF s, t
  <1>7. Answers(<<"CloseLink", "CloseLink">>) = <<Close, Close>>
    <2> DEFINE s == <<"CloseLink", "CloseLink">>
    <2>0. s \in Seq(LoginAsks)
      BY <1>1 DEF FrameLogins
    <2>1. Len(s) = 2 /\ s[1] = "CloseLink" /\ s[2] = "CloseLink"
      OBVIOUS
    <2> HIDE DEF s
    <2>2. PICK f : Sending(f, s)
      BY <2>0, AnswersChain
    <2>3. /\ f[0] = <<>> /\ f[1] = f[0] \o Answer(s[1]) /\ f[2] = f[1] \o Answer(s[2])
          /\ Answers(s) = f[2]
      <3>1. 1 \in 1 .. Len(s) /\ 1 - 1 = 0 /\ 2 \in 1 .. Len(s) /\ 2 - 1 = 1
        BY <2>1
      <3>2. \A i \in 1 .. Len(s) : f[i] = f[i - 1] \o Answer(s[i])
        BY <2>2 DEF Sending
      <3> QED BY <2>1, <2>2, <3>1, <3>2 DEF Sending
    <2>4. f[1] = <<>> \o Answer("CloseLink")
      BY <2>1, <2>3
    <2>5. f[1] = <<Close>>
      BY <1>2, <1>3, <1>4, <2>4
    <2>6. Answers(s) = <<Close>> \o <<Close>>
      BY <1>4, <2>1, <2>3, <2>5
    <2>7. <<Close>> \o <<Close>> = <<Close, Close>>
      <3> DEFINE X == {Close}
                 t == <<Close>>
      <3>1. t \in Seq(X) /\ Close \in X
        OBVIOUS
      <3> HIDE DEF X, t
      <3>2. Append(t, Close) = t \o <<Close>>
        BY <3>1, AppendIsConcat
      <3> QED BY <3>2, Appended DEF t
    <2> QED BY <2>6, <2>7 DEF s
  <1>8. \A logins \in FrameLogins : Bumps(Answers(logins)) = 0 \/ logins = <<"Abandon">>
    <2> DEFINE S == {Submit, Close}
    <2>1. \A x \in S : x.ask # "Bump"
      BY DEF Submit, Close
    <2>2. <<>> \in Seq(S) /\ <<Submit>> \in Seq(S) /\ <<Close, Close>> \in Seq(S)
      OBVIOUS
    <2> HIDE DEF S
    <2>3. \A s \in Seq(S) : Bumps(s) = 0
      BY <2>1, NoBumps
    <2> QED BY <1>5, <1>6, <1>7, <2>2, <2>3 DEF FrameLogins
  <1> QED BY <1>1, <1>5, <1>6, <1>a, <1>7, <1>8

\* What the asks of a frame's end send.
LEMMA SendsAre ==
    /\ Sent(<<>>) \o Answers(<<>>) = <<>>
    /\ Sent(<<>>) \o Answers(<<"Submit">>) = <<Submit>>
    /\ Sent(<<>>) \o Answers(<<"Abandon">>) = <<Bump, Close>>
    /\ Sent(<<>>) \o Answers(<<"CloseLink", "CloseLink">>) = <<Close, Close>>
    /\ Sent(<<[ask |-> "Dial"]>>) \o Answers(<<>>) = <<Dial>>
    /\ \A a \in {"Enumerate", "Refresh"} : Sent(<<[ask |-> a]>>) \o Answers(<<>>) = <<[ask |-> a]>>
    /\ \A p \in Plays : Sent(<<p>>) \o Answers(<<>>) = <<p>>
  <1>1. Sent(<<>>) = <<>>
    BY DEF Sent
  <1>2. \A a : Sent(<<a>>) = <<IF a.ask = "Dial" THEN Dial ELSE a>>
    BY DEF Sent, Dial
  <1>3. \A p \in Plays : p.ask = "Play"
    BY DEF Plays
  <1>4. \A a : <<a>> \o <<>> = <<a>>
    OBVIOUS
  <1>5. <<>> \o <<>> = <<>> /\ <<>> \o <<Submit>> = <<Submit>> /\ <<>> \o <<Close, Close>> = <<Close, Close>>
        /\ <<>> \o <<Bump, Close>> = <<Bump, Close>>
    OBVIOUS
  <1> QED BY <1>1, <1>2, <1>3, <1>4, <1>5, AnswersAre

\* The asks of the park channel in a conversation: at most one, a pick only by its press.
FrameAsks(asks, press) ==
    \/ asks = <<>>
    \/ \E a \in {"Dial", "Enumerate", "Refresh"} : asks = <<[ask |-> a]>>
    \/ /\ press = "EnterWorld" /\ Silent({"List", "Roster", "Auth", "LoggedOut", "Refused"})
       /\ \E p \in Plays : asks = <<p>>

LEMMA PickSentIs ==
    /\ \A kept : PickSent(<<>>, kept) = kept
    /\ \A kept, a : a # "Play" => PickSent(<<[ask |-> a]>>, kept) = kept
    /\ \A kept, p : p.ask = "Play" => PickSent(<<p>>, kept) = p
  <1>1. ASSUME NEW kept
        PROVE  PickSent(<<>>, kept) = kept
    <2>1. {i \in DOMAIN <<>> : <<>>[i].ask = "Play"} = {}
      OBVIOUS
    <2> QED BY <2>1 DEF PickSent
  <1>2. ASSUME NEW kept, NEW a, a # "Play"
        PROVE  PickSent(<<[ask |-> a]>>, kept) = kept
    <2> DEFINE s == <<[ask |-> a]>>
    <2>1. {i \in DOMAIN s : s[i].ask = "Play"} = {}
      BY <1>2
    <2> QED BY <2>1 DEF PickSent
  <1>3. ASSUME NEW kept, NEW p, p.ask = "Play"
        PROVE  PickSent(<<p>>, kept) = p
    <2> DEFINE s == <<p>>
               plays == {i \in DOMAIN s : s[i].ask = "Play"}
    <2>1. DOMAIN s = {1} /\ s[1] = p
      OBVIOUS
    <2> HIDE DEF s
    <2>2. plays = {1}
      BY <1>3, <2>1
    <2> HIDE DEF plays
    <2>3. (CHOOSE i \in plays : \A j \in plays : j <= i) = 1
      BY <2>2
    <2>4. PickSent(s, kept) = s[CHOOSE i \in plays : \A j \in plays : j <= i]
      BY <2>2 DEF PickSent, plays
    <2> QED BY <2>1, <2>3, <2>4 DEF s
  <1> QED BY <1>1, <1>2, <1>3

\* Nothing to pick again and nothing to dial again.
LEMMA NothingAgain ==
    ASSUME NEW kept, kept = NoPick \/ Silent({"List", "Roster", "Auth"}), events \in Seq(News)
    PROVE  Repicks(kept, events) = <<>> /\ \A now : Redials(kept, events, now) = <<>>
  <1>1. CASE kept = NoPick
    BY <1>1 DEF Repicks, Redials, KeptPick
  <1>2. CASE Silent({"List", "Roster", "Auth"})
    <2>1. Silent({"List"}) /\ Silent({"Roster"}) /\ Silent({"Auth"})
      BY <1>2 DEF Silent
    <2>2. Of(events, {"List"}) = {} /\ Of(events, {"Roster"}) = {} /\ ~Some(events, "Auth")
      BY <2>1, SilentSome DEF Some
    <2>3. Cardinality(Of(events, {"Roster"})) = 0
      BY <2>2, FS_EmptySet
    <2>4. Repicks(kept, events) = <<>>
      <3>1. \A x : [i \in 1 .. 0 |-> x] = <<>>
        OBVIOUS
      <3> QED BY <2>3, <3>1 DEF Repicks
    <2>5. ASSUME NEW now
          PROVE  Redials(kept, events, now) = <<>>
      <3> DEFINE answered == {i \in Of(events, {"List"}) : events[i].reply = "ok"}
      <3>1. answered = {}
        BY <2>2
      <3>2. Cardinality(answered) = 0
        BY <3>1, FS_EmptySet
      <3> HIDE DEF answered
      <3>3. [i \in 1 .. Cardinality(answered) |-> [ask |-> "Dial", gen |-> now]] = <<>>
        BY <3>2
      <3>4. <<>> \o <<>> = <<>>
        OBVIOUS
      <3> QED BY <2>2, <3>3, <3>4 DEF Redials, answered
    <2> QED BY <2>4, <2>5
  <1> QED BY <1>1, <1>2

LEMMA SilentReturned ==
    ASSUME events \in Seq(News)
    PROVE  Returned(events) \in Nat /\ (Returned(events) = 0 <=> Silent({"LoggedOut", "Refused"}))
  <1> DEFINE S == Of(events, {"LoggedOut", "Refused"})
  <1>1. IsFiniteSet(S) /\ Cardinality(S) \in Nat
    BY OfCounts
  <1>2. S = {} <=> Silent({"LoggedOut", "Refused"})
    BY DEF Of, Silent, Unheard
  <1> HIDE DEF S
  <1>3. Cardinality(S) = 0 <=> S = {}
    BY <1>1, FS_EmptySet
  <1> QED BY <1>1, <1>2, <1>3 DEF Returned, S

\* The loss, and then the authentication, decides the transition of a frame.
FrameNext == CASE Some(events, "Lost") -> "Login"
               [] ~Some(events, "Lost") /\ client = "Login" /\ Some(events, "Auth") -> "CharSelect"
               [] OTHER -> EdgesNext(events)

\* What a frame that drives the manager to y does to the rest of the session.
Framed(y) ==
    /\ m' = Cleared(y) /\ out' = Sent(y.asks) \o Answers(y.logins) /\ events' = <<>>
    /\ next' = FrameNext
    /\ pick' = IF Some(events, "Lost") \/ Returned(events) > 0 THEN NoPick ELSE PickSent(y.asks, pick)
    /\ UNCHANGED <<pc, logonGen, dialGen, queued, epoch, returns, gen, loginQ, parkQ, client>>

\* A frame of a conversation: no news of a passed attempt, no pick to make again, and of the
\* two races none.
LEMMA FrameIs ==
    ASSUME TypeInv, Races = {}, NEW press \in Presses \cup {"none"}, Frame(press),
           NEW y \in Mgrs, y = DriveGlueMgr(Pressed(m, press), events),
           y.logins \in FrameLogins, FrameAsks(y.asks, press),
           \A e \in Unheard : e.kind = "Auth" => e.gen = gen,
           pick = NoPick \/ Silent({"List", "Roster", "Auth"}),
           ~Silent({"Auth"}) => Silent({"Connected", "Refused", "LoggedOut"}) /\ y.logins # <<"Abandon">>
    PROVE  Framed(y)
  <1> DEFINE logins == Answers(y.logins)
             now    == gen + Bumps(logins)
             policy == PolicyNext(y.logins, events, now)
             kept(edges)  == IF edges = 0 THEN PickAfter(pick, events) ELSE pick
             asked(edges) == PickSent(y.asks, kept(edges))
             left(edges)  == IF edges = 0 THEN asked(edges) ELSE PickAfter(asked(edges), events)
             Edges(edges, place)  == IF edges # place THEN <<>>
                                     ELSE Repicks(IF place = 0 THEN pick ELSE asked(edges), events)
             Redial(edges, redial, place) == IF redial # place THEN <<>>
                                     ELSE Redials(IF place = 0 THEN kept(edges) ELSE left(edges), events,
                                                  IF place = 2 THEN now ELSE gen)
  <1>1. PICK edges \in Places, redial \in Places :
           (Raced(press) => edges = 2) /\ Conclude(y, Answers(y.logins), edges, redial)
    BY DEF Frame
  <1>2. /\ m' = Cleared(y) /\ pick' = left(edges) /\ events' = <<>>
        /\ out' = Edges(edges, 0) \o Redial(edges, redial, 0) \o Sent(y.asks) \o Edges(edges, 1)
                     \o Redial(edges, redial, 1)
                       \o logins \o Abandons(events, now) \o Edges(edges, 2) \o Redial(edges, redial, 2)
        /\ next' = IF edges = 2 THEN Overridden(policy, EdgesNext(events))
                   ELSE Overridden(EdgesNext(events), policy)
        /\ UNCHANGED <<pc, logonGen, dialGen, queued, epoch, returns, gen, loginQ, parkQ, client>>
    BY <1>1 DEF Conclude, threadVars, Cleared
  <1>e. events \in Seq(News) /\ gen \in Nat
    BY DEF TypeInv, ThreadInv
  <1>3. Bumps(logins) = 0 \/ Silent({"Auth"})
    BY AnswersAre
  <1>4. now = gen \/ ~Some(events, "Auth")
    BY <1>e, <1>3, SilentSome
  <1>5. y.asks \in Seq(MgrAsks) /\ y.logins \in Seq(LoginAsks)
    BY AsksAreRequests, MgrsAre DEF Working
  <1>6. /\ y.asks = <<>> => \A k : PickSent(y.asks, k) = k
        /\ \A a \in {"Dial", "Enumerate", "Refresh"} : y.asks = <<[ask |-> a]>> => \A k : PickSent(y.asks, k) = k
        /\ \A p \in Plays : y.asks = <<p>> => \A k : PickSent(y.asks, k) = p
    <2>1. \A k : PickSent(<<>>, k) = k
      BY PickSentIs
    <2>2. \A a \in {"Dial", "Enumerate", "Refresh"} : \A k : PickSent(<<[ask |-> a]>>, k) = k
      <3>1. \A a \in {"Dial", "Enumerate", "Refresh"} : a # "Play"
        OBVIOUS
      <3> QED BY <3>1, PickSentIs
    <2>3. \A p \in Plays : \A k : PickSent(<<p>>, k) = p
      <3>1. \A p \in Plays : p.ask = "Play"
        BY DEF Plays
      <3> QED BY <3>1, PickSentIs
    <2> DEFINE s == y.asks
    <2> HIDE DEF s
    <2>4. s = <<>> => \A k : PickSent(s, k) = k
      BY <2>1
    <2>5. \A a \in {"Dial", "Enumerate", "Refresh"} : s = <<[ask |-> a]>> => \A k : PickSent(s, k) = k
      BY <2>2
    <2>6. \A p \in Plays : s = <<p>> => \A k : PickSent(s, k) = p
      BY <2>3
    <2> QED BY <2>4, <2>5, <2>6 DEF s
  <1>7. \A k : PickSent(y.asks, k) = k \/ Silent({"List", "Roster", "Auth"})
    BY <1>6 DEF FrameAsks, Silent
  <1>8. PickAfter(NoPick, events) = NoPick
    BY DEF PickAfter, KeptPick
  <1>9. /\ kept(edges) = NoPick \/ Silent({"List", "Roster", "Auth"})
        /\ asked(edges) = NoPick \/ Silent({"List", "Roster", "Auth"})
        /\ left(edges) = NoPick \/ Silent({"List", "Roster", "Auth"})
    BY <1>7, <1>8
  <1>10. \A place : Edges(edges, place) = <<>> /\ Redial(edges, redial, place) = <<>>
    BY <1>9, <1>e, NothingAgain
  <1>11. Abandons(events, now) = <<>>
    <2>1. \A i \in DOMAIN events : events[i] \in Unheard
      BY DEF Unheard
    <2>2. ~Some(events, "Auth") => \A i \in DOMAIN events : events[i].kind # "Auth"
      BY DEF Some, Of
    <2> HIDE DEF now
    <2> QED BY <1>4, <2>1, <2>2 DEF Abandons
  <1>12. out' = Sent(y.asks) \o logins
    <2> DEFINE S == Requests(gen) \cup LoginSends
               a == Sent(y.asks)
    <2>1. a \in Seq(S)
      BY <1>e, <1>5, SentTyped
    <2>2. logins \in Seq(S)
      BY <1>5, AnswersTyped
    <2> HIDE DEF S, a, logins
    <2>3. a \o logins \in Seq(S)
      BY <2>1, <2>2
    <2>4. <<>> \o <<>> = <<>>
      OBVIOUS
    <2>c. \A s \in Seq(S) : <<>> \o s = s /\ s \o <<>> = s
      BY ConcatEmptySeq
    <2>5. <<>> \o a = a /\ a \o <<>> = a /\ (a \o logins) \o <<>> = a \o logins
      BY <2>1, <2>3, <2>c
    <2> HIDE DEF Edges, Redial, kept, asked, left, now, policy
    <2>6. out' = (((((((<<>> \o <<>>) \o a) \o <<>>) \o <<>>) \o logins) \o <<>>) \o <<>>) \o <<>>
      BY <1>2, <1>10, <1>11 DEF a
    <2> QED BY <2>4, <2>5, <2>6 DEF a
  <1>13. policy = IF client = "Login" /\ Some(events, "Auth") THEN "CharSelect" ELSE "none"
    <2>1. \A i \in DOMAIN y.logins : y.logins[i] # "Disconnect"
      BY DEF FrameLogins
    <2>2. (\E i \in DOMAIN events : events[i].kind = "Auth" /\ events[i].gen = now) <=> Some(events, "Auth")
      <3>1. Some(events, "Auth") <=> \E i \in DOMAIN events : events[i].kind = "Auth"
        BY DEF Some, Of
      <3>2. \A i \in DOMAIN events : events[i].kind = "Auth" => events[i].gen = gen
        BY DEF Unheard
      <3> HIDE DEF now
      <3> QED BY <1>4, <3>1, <3>2
    <2> HIDE DEF now
    <2> QED BY <2>1, <2>2 DEF PolicyNext
  <1>14. Some(events, "Auth") <=> ~Silent({"Auth"})
    BY DEF Some, Of, Unheard, Silent
  <1>15. next' = FrameNext
    <2>1. CASE Some(events, "Lost")
      <3>1. EdgesNext(events) = "Login"
        BY <2>1 DEF EdgesNext
      <3>2. edges # 2 => policy = "none"
        BY <1>1, <1>13, <2>1 DEF Raced
      <3> HIDE DEF policy
      <3> QED BY <1>2, <2>1, <3>1, <3>2 DEF Overridden, FrameNext
    <2>2. CASE ~Some(events, "Lost") /\ client = "Login" /\ Some(events, "Auth")
      <3>1. Silent({"Connected"}) /\ Silent({"Refused"}) /\ Silent({"LoggedOut"})
        BY <1>14, <2>2 DEF Silent
      <3>2. ~Some(events, "Connected") /\ ~Some(events, "Refused") /\ ~Some(events, "LoggedOut")
        BY <3>1, SilentSome
      <3>3. EdgesNext(events) = "none"
        BY <2>2, <3>2 DEF EdgesNext
      <3>4. policy = "CharSelect"
        BY <1>13, <2>2
      <3> HIDE DEF policy
      <3> QED BY <1>2, <2>2, <3>3, <3>4 DEF Overridden, FrameNext
    <2>3. CASE ~Some(events, "Lost") /\ ~(client = "Login" /\ Some(events, "Auth"))
      <3>1. policy = "none"
        BY <1>13, <2>3
      <3> HIDE DEF policy
      <3> QED BY <1>2, <2>3, <3>1 DEF Overridden, FrameNext
    <2> QED BY <2>1, <2>2, <2>3
  <1>16. pick' = IF Some(events, "Lost") \/ Returned(events) > 0 THEN NoPick ELSE PickSent(y.asks, pick)
    <2>r. Returned(events) \in Nat /\ (Returned(events) = 0 <=> Silent({"LoggedOut", "Refused"}))
      BY <1>e, SilentReturned
    <2>1. \A k : Some(events, "Lost") \/ Returned(events) > 0 => PickAfter(k, events) = NoPick
      BY DEF PickAfter, KeptPick
    <2>2. \A k : ~Some(events, "Lost") /\ ~(Returned(events) > 0) => PickAfter(k, events) = k
      BY DEF PickAfter, KeptPick
    <2>3. CASE edges # 0
      BY <1>2, <2>1, <2>2, <2>3
    <2>4. CASE edges = 0
      <3>1. CASE ~Some(events, "Lost") /\ ~(Returned(events) > 0)
        BY <1>2, <2>2, <2>4, <3>1
      <3>2. CASE Some(events, "Lost") \/ Returned(events) > 0
        <4>1. press # "EnterWorld" \/ ~Silent({"LoggedOut", "Refused"})
          BY <1>1, <2>r, <2>4, <3>2 DEF Raced
        <4>2. \A k : PickSent(y.asks, k) = k
          BY <1>6, <4>1 DEF FrameAsks, Silent
        <4> QED BY <1>2, <2>1, <2>4, <3>2, <4>2
      <3> QED BY <3>1, <3>2
    <2> QED BY <2>3, <2>4
  <1> HIDE DEF Edges, Redial, kept, asked, left, now, policy
  <1> QED BY <1>2, <1>12, <1>15, <1>16 DEF Framed, logins

----------------------------------------------------------------------------
(* The stages of a conversation: what the manager waits for is asked, or   *)
(* being answered, or told and not drained yet.                            *)

Idling(x) == Down(x) /\ ~x.refused

\* Asks nobody answers at the login screen's park, and a single one on its way or queued.
Leftover(s) == \A i \in DOMAIN s : s[i].ask \in {"Enumerate", "Play", "Close"}
OneAsked(r) == (parkQ = <<r>> /\ out = <<>>) \/ (parkQ = <<>> /\ out = <<r>>)
NoAsk       == parkQ = <<>> /\ out = <<>>
RosterAsk     == [ask |-> "Enumerate"]
PickOf      == [ask |-> "Play", epoch |-> epoch, era |-> returns]

\* At the login screen, no pick pending.
Home == pick = NoPick /\ client = "Login" /\ next = "none"

\* Nothing is waited for, on the login screen's link or on none; the list closed, the link may
\* still be to be dropped.
Rest ==
    /\ Idling(m) /\ m.asks = <<>> /\ pick = NoPick
    /\ next = "Login" \/ (client = "Login" /\ next = "none")
    /\ Unheard = {} /\ loginQ = <<>>
    /\ \/ /\ pc \in {"login", "park"} /\ ~m.list
          /\ Leftover(parkQ) /\ (Leftover(out) \/ out = <<Bump, Close>>)
       \/ pc = "park" /\ NoAsk

\* A logon is asked for; it runs; it has failed, and a 0x0A has left its dialog to the player;
\* it has brought its list.
LogonAsked ==
    /\ LoggingOn(m) /\ m.asks = <<>> /\ Home /\ Unheard = {}
    /\ pc \in {"login", "park"} /\ Leftover(parkQ)
    /\ (out = <<Submit>> /\ loginQ = <<>>) \/ (out = <<>> /\ loginQ = <<gen>>)
LogonRuns ==
    /\ LoggingOn(m) /\ m.asks = <<>> /\ Home /\ Unheard \subseteq {Began}
    /\ pc \in AtLogon /\ logonGen = gen /\ out = <<>> /\ loginQ = <<>>
    /\ Leftover(parkQ) /\ (pc = "publish" => parkQ = <<>>)
LogonFailed ==
    /\ LoggingOn(m) /\ m.asks = <<>> /\ Home
    /\ \E f \in LogonFailures : f \in Unheard /\ Unheard \subseteq {Began, f}
    /\ pc = "login" /\ out = <<>> /\ loginQ = <<>> /\ Leftover(parkQ)
LogonStands ==
    /\ StandsUp(m) /\ m.asks = <<>> /\ Home /\ Unheard = {}
    /\ pc = "login" /\ out = <<>> /\ loginQ = <<>> /\ Leftover(parkQ)
LogonListed ==
    /\ LoggingOn(m) /\ m.asks = <<>> /\ Home
    /\ \E r \in Replies : List(r) \in Unheard /\ Unheard \subseteq {Began, List(r)}
    /\ pc = "park" /\ NoAsk /\ loginQ = <<>>

\* A realm list is asked for; it is told.
ListAsked ==
    /\ Listing(m) /\ m.asks = <<>> /\ Home /\ Unheard = {}
    /\ pc = "park" /\ OneAsked([ask |-> "Refresh"]) /\ loginQ = <<>>
ListTold ==
    /\ Listing(m) /\ m.asks = <<>> /\ Home /\ \E r \in Replies : Unheard = {List(r)}
    /\ pc = "park" /\ NoAsk /\ loginQ = <<>>

\* A realm is to be dialled; the dial runs; it has failed; its session is told.
DialAsked ==
    /\ Calling(m) /\ m.asks = <<>> /\ Home /\ Unheard = {}
    /\ pc = "park" /\ OneAsked(Dial) /\ loginQ = <<>>
DialRuns ==
    /\ m.asks = <<>> /\ Home /\ dialGen = gen /\ NoAsk /\ loginQ = <<>>
    /\ \/ pc \in {"dial", "handshake"} /\ Calling(m) /\ Unheard = {}
       \/ pc = "connecting" /\ Calling(m) /\ Unheard \subseteq {Hands}
       \/ pc = "failWorld" /\ Dialled(m, Unheard)
       \/ pc \in {"asked", "queue", "drainWorld", "announce"} /\ Reached(m, Unheard)
DialFailed ==
    /\ \E f \in DialFailures : f \in Unheard /\ Dialled(m, Unheard \ {f})
    /\ m.asks = <<>> /\ Home /\ pc = "park" /\ NoAsk /\ loginQ = <<>>
AuthTold ==
    /\ AuthOf \in Unheard /\ Reached(m, Unheard \ {AuthOf})
    /\ m.asks = <<>> /\ Home /\ pc = "charPark" /\ NoAsk /\ loginQ = <<>>

\* At the character selection, or a transition ahead of it: the roster is asked for; it is
\* told; it stands, or a refused login does.
Choosing ==
    /\ Joined(m, epoch) /\ ~m.refused /\ pick = NoPick
    /\ \/ client = "CharSelect" /\ next \in {"none", "CharSelect"}
       \/ client = "Login" /\ next = "CharSelect"
    /\ pc = "charPark" /\ loginQ = <<>>
RosterAwaited ==
    /\ Choosing /\ CharListing(m) /\ Unheard = {}
    /\ (m.asks = <<>> /\ OneAsked(RosterAsk)) \/ (m.asks = <<RosterAsk>> /\ NoAsk)
RosterTold ==
    /\ Choosing /\ CharListing(m) /\ \E r \in Rosters : Unheard = {r}
    /\ m.asks = <<>> /\ NoAsk
Selecting ==
    /\ Choosing /\ m.state \in {"Idle", "LoginRefused"} /\ Unheard = {}
    /\ m.asks = <<>> /\ NoAsk

\* A pick is made: it is on its way; it is taken; it is taken and refused.
PickMade ==
    /\ Joined(m, epoch) /\ ~m.refused /\ m.state = "EnterWorld" /\ m.asks = <<>>
    /\ client = "CharSelect" /\ next = "none" /\ loginQ = <<>>
PickAsked   == PickMade /\ OneAsked(PickOf) /\ pc = "charPark" /\ Unheard = {}
PickTaken   == PickMade /\ NoAsk /\ pc \in {"stream", "refused"} /\ Unheard = {Entry}
PickRefused == PickMade /\ NoAsk /\ pc = "charPark" /\ Unheard = {Entry, Refusal}

\* In the world, or a transition ahead of it: it is streamed or just over, or its return told.
Playing ==
    /\ Joined(m, epoch) /\ ~m.refused /\ m.state \in {"EnterWorld", "Idle"} /\ m.asks = <<>>
    /\ (client = "CharSelect" /\ next = "InWorld") \/ (client = "InWorld" /\ next = "none")
    /\ NoAsk /\ loginQ = <<>>
Streamed == Playing /\ pc \in InWorld /\ Unheard = {}
WorldLeft == Playing /\ pc = "charPark" /\ \E r \in {Refusal, Logged} : Unheard = {r}
\* Its return heard, the transition to the selection ahead.
Leaving ==
    /\ Joined(m, epoch) /\ m.state = "Idle" /\ m.asks = <<>> /\ pick = NoPick
    /\ client = "InWorld" /\ next = "CharSelect" /\ NoAsk /\ loginQ = <<>>
    /\ pc = "charPark" /\ Unheard = {}

\* The session is lost and the loss not drained.
SessionOver ==
    /\ pc = "login" /\ Lost \in Unheard /\ Unheard \subseteq LateNews
    /\ \A e \in Unheard : e.kind = "Auth" => e.gen = gen
    /\ pick = NoPick \/ Silent({"List", "Roster", "Auth"})
    /\ Silent({"Auth"}) \/ Silent({"Connected", "Refused", "LoggedOut"})
    /\ \/ m.state = "Connect" /\ m.op.status = "run"
       \/ Joined(m, epoch) /\ m.state \in {"Idle", "LoginRefused", "EnterWorld"}
       \/ Joined(m, epoch) /\ CharListing(m)
    /\ m.refused => client = "InWorld" /\ next = "CharSelect"
    /\ client = "InWorld" \/ next = "InWorld" => Joined(m, epoch) /\ m.asks = <<>>
    /\ m.state = "Idle" /\ client # "InWorld" /\ next # "InWorld" =>
          Silent({"List", "Roster", "Auth", "LoggedOut", "Refused"})
    /\ m.asks = <<>> \/ (m.asks = <<RosterAsk>> /\ m.state = "CharList")
    /\ next # "Login" /\ loginQ = <<>> /\ Leftover(parkQ) /\ Leftover(out)

Offline ==
    \/ Rest \/ LogonAsked \/ LogonRuns \/ LogonFailed \/ LogonStands \/ LogonListed
    \/ ListAsked \/ ListTold \/ DialAsked \/ DialRuns \/ DialFailed
Online ==
    \/ AuthTold \/ RosterAwaited \/ RosterTold \/ Selecting
    \/ PickAsked \/ PickTaken \/ PickRefused \/ Streamed \/ WorldLeft \/ Leaving

\* What is said and unsaid between the app and the read thread.
Talk == Resting(m) /\ LostLast /\ (Offline \/ Online \/ SessionOver)

----------------------------------------------------------------------------
(* The channels, step by step.                                             *)

LEMMA UnheardNone ==
    ASSUME events \in Seq(News)
    PROVE  Unheard = {} <=> events = <<>>
  <1>1. Unheard = {} => Len(events) = 0
    BY UnheardTyped
  <1>2. Len(events) = 0 => events = <<>>
    OBVIOUS
  <1>3. events = <<>> => Unheard = {}
    BY DEF Unheard
  <1> QED BY <1>1, <1>2, <1>3

LEMMA DrainedChannel ==
    ASSUME events' = <<>>
    PROVE  Unheard' = {} /\ LostLast'
  BY DEF Unheard, LostLast

LEMMA SameChannel ==
    ASSUME events' = events
    PROVE  Unheard' = Unheard /\ (LostLast => LostLast')
  BY DEF Unheard, LostLast

LEMMA ToldOne ==
    ASSUME NEW S, events \in Seq(S), NEW e \in S, events' = Append(events, e)
    PROVE  /\ Unheard' = Unheard \cup {e}
           /\ LostLast /\ Lost \notin Unheard => LostLast'
  <1>1. /\ Len(events') = Len(events) + 1 /\ events' \in Seq(S)
        /\ \A i \in 1 .. Len(events) : events'[i] = events[i]
        /\ events'[Len(events) + 1] = e
    BY AppendIs
  <1>2. DOMAIN events = 1 .. Len(events) /\ DOMAIN events' = 1 .. Len(events') /\ Len(events) \in Nat
    BY <1>1
  <1>3. Unheard' = {events'[i] : i \in 1 .. Len(events) + 1}
    BY <1>1, <1>2 DEF Unheard
  <1>4. Unheard = {events[i] : i \in 1 .. Len(events)}
    BY <1>2 DEF Unheard
  <1>5. \A i \in 1 .. Len(events) + 1 : i \in 1 .. Len(events) \/ i = Len(events) + 1
    BY <1>2
  <1>6. \A i \in 1 .. Len(events) : i \in 1 .. Len(events) + 1
    BY <1>2
  <1>7. Len(events) + 1 \in 1 .. Len(events) + 1
    BY <1>2
  <1>8. Unheard' = Unheard \cup {e}
    BY <1>1, <1>3, <1>4, <1>5, <1>6, <1>7
  <1>9. ASSUME LostLast, Lost \notin Unheard
        PROVE  LostLast'
    <2>1. \A i \in 1 .. Len(events) : events[i] # Lost
      BY <1>4, <1>9
    <2> QED BY <1>1, <1>2, <1>5, <2>1 DEF LostLast
  <1> QED BY <1>8, <1>9

LEMMA LeftoverIs ==
    /\ Leftover(<<>>)
    /\ \A S : \A s \in Seq(S) : Leftover(s) /\ s # <<>> =>
          Leftover(Tail(s)) /\ Head(s).ask \in {"Enumerate", "Play", "Close"}
    /\ \A S : \A s \in Seq(S) : \A a \in S :
          Leftover(s) /\ a.ask \in {"Enumerate", "Play", "Close"} => Leftover(Append(s, a))
    /\ \A a : a.ask \in {"Enumerate", "Play", "Close"} => Leftover(<<a>>)
    /\ Leftover(<<Close, Close>>)
  <1>1. ASSUME NEW S, NEW s \in Seq(S), Leftover(s), s # <<>>
        PROVE  Leftover(Tail(s)) /\ Head(s).ask \in {"Enumerate", "Play", "Close"}
    <2>1. /\ Len(Tail(s)) = Len(s) - 1 /\ Tail(s) \in Seq(S)
          /\ \A i \in 1 .. Len(s) - 1 : Tail(s)[i] = s[i + 1]
          /\ Head(s) = s[1] /\ Len(s) >= 1 /\ Len(s) \in Nat
      BY <1>1, HeadTailProperties
    <2>2. DOMAIN s = 1 .. Len(s) /\ DOMAIN Tail(s) = 1 .. Len(s) - 1
      BY <2>1
    <2>3. \A i \in 1 .. Len(s) - 1 : i + 1 \in 1 .. Len(s)
      BY <2>1
    <2> QED BY <1>1, <2>1, <2>2, <2>3 DEF Leftover
  <1>2. ASSUME NEW S, NEW s \in Seq(S), NEW a \in S, Leftover(s), a.ask \in {"Enumerate", "Play", "Close"}
        PROVE  Leftover(Append(s, a))
    <2>1. /\ Len(Append(s, a)) = Len(s) + 1 /\ Append(s, a) \in Seq(S)
          /\ \A i \in 1 .. Len(s) : Append(s, a)[i] = s[i]
          /\ Append(s, a)[Len(s) + 1] = a
      BY AppendIs
    <2>2. DOMAIN s = 1 .. Len(s) /\ DOMAIN Append(s, a) = 1 .. Len(s) + 1 /\ Len(s) \in Nat
      BY <2>1
    <2>3. \A i \in 1 .. Len(s) + 1 : i \in 1 .. Len(s) \/ i = Len(s) + 1
      BY <2>2
    <2> QED BY <1>2, <2>1, <2>2, <2>3 DEF Leftover
  <1>3. Leftover(<<>>) /\ \A a : a.ask \in {"Enumerate", "Play", "Close"} => Leftover(<<a>>)
    BY DEF Leftover
  <1>4. Leftover(<<Close, Close>>)
    <2>1. Close.ask = "Close"
      BY DEF Close
    <2> QED BY <2>1 DEF Leftover
  <1> QED BY <1>1, <1>2, <1>3, <1>4

----------------------------------------------------------------------------
(* A send.                                                                 *)

LEMMA SendIs ==
    ASSUME TypeInv, Send
    PROVE  /\ out # <<>> /\ out' = Tail(out)
           /\ Head(out).ask \notin {"Bump", "Submit"} =>
                 parkQ' = Append(parkQ, Head(out)) /\ loginQ' = loginQ /\ gen' = gen
           /\ Head(out).ask = "Submit" => loginQ' = Append(loginQ, gen) /\ parkQ' = parkQ /\ gen' = gen
           /\ events' = events
           /\ UNCHANGED <<pc, logonGen, dialGen, queued, epoch, returns, m, client, next, pick, heard, presses>>
  BY DEF Send, channels, threadVars

\* A single ask goes out.
LEMMA SendsAsk ==
    ASSUME TypeInv, Send, NEW r, OneAsked(r), r.ask \notin {"Bump", "Submit"}
    PROVE  parkQ' = <<r>> /\ out' = <<>> /\ loginQ' = loginQ /\ gen' = gen
  <1>1. out # <<>>
    BY SendIs
  <1>2. parkQ = <<>> /\ out = <<r>>
    BY <1>1 DEF OneAsked
  <1>3. Head(out) = r /\ Tail(out) = <<>>
    BY <1>2
  <1>4. Append(parkQ, r) = <<r>>
    BY <1>2, Appended
  <1> QED BY <1>3, <1>4, SendIs

\* What is left over goes out, one by one.
LEMMA SendsLeftover ==
    ASSUME TypeInv, Send, Leftover(parkQ), Leftover(out)
    PROVE  Leftover(parkQ') /\ Leftover(out') /\ loginQ' = loginQ /\ gen' = gen
  <1> DEFINE S == Requests(gen + Bumps(out)) \cup {Bump, Submit} \cup Requests(gen)
             h == Head(out)
  <1>1. out # <<>> /\ out \in Seq(S) /\ parkQ \in Seq(S)
    BY SendIs DEF TypeInv, AppInv, ThreadInv
  <1>2. h \in S
    BY <1>1, HeadTailProperties
  <1> HIDE DEF S
  <1>3. Leftover(Tail(out)) /\ h.ask \in {"Enumerate", "Play", "Close"}
    BY <1>1, LeftoverIs
  <1> HIDE DEF h
  <1>4. Leftover(Append(parkQ, h))
    BY <1>1, <1>2, <1>3, LeftoverIs
  <1> QED BY <1>3, <1>4, SendIs DEF h

LEMMA SendKeepsTalk ==
    ASSUME TypeInv, Talk, Send
    PROVE  Talk'
  <1>1. /\ out # <<>> /\ out' = Tail(out) /\ Unheard' = Unheard /\ LostLast'
        /\ UNCHANGED <<pc, logonGen, dialGen, queued, epoch, returns, m, client, next, pick, heard, presses>>
    BY SendIs, SameChannel DEF Talk
  <1>2. Resting(m') /\ LostLast'
    BY <1>1 DEF Talk
  <1>s. Silent({"List", "Roster", "Auth"})' = Silent({"List", "Roster", "Auth"})
    BY <1>1 DEF Silent
  <1>t. /\ Silent({"Auth"})' = Silent({"Auth"})
        /\ Silent({"Connected", "Refused", "LoggedOut"})' = Silent({"Connected", "Refused", "LoggedOut"})
        /\ Silent({"List", "Roster", "Auth", "LoggedOut", "Refused"})' =
              Silent({"List", "Roster", "Auth", "LoggedOut", "Refused"})
    BY <1>1 DEF Silent
  <1>3. CASE Rest
    <2>1. Leftover(parkQ) /\ (Leftover(out) \/ out = <<Bump, Close>>) /\ pc \in {"login", "park"} /\ ~m.list
      BY <1>1, <1>3 DEF Rest, NoAsk
    <2>2. Leftover(parkQ') /\ Leftover(out') /\ loginQ' = loginQ
      <3>1. CASE Leftover(out)
        BY <2>1, <3>1, SendsLeftover
      <3>2. CASE out = <<Bump, Close>>
        <4>1. Head(out).ask = "Bump" /\ Tail(out) = <<Close>>
          BY <3>2 DEF Bump
        <4>2. parkQ' = parkQ /\ loginQ' = loginQ
          BY <4>1 DEF Send, channels
        <4>3. Leftover(<<Close>>)
          BY LeftoverIs DEF Close
        <4> QED BY <1>1, <2>1, <4>1, <4>2, <4>3
      <3> QED BY <2>1, <3>1, <3>2
    <2>3. Rest'
      BY <1>1, <1>3, <2>1, <2>2 DEF Rest
    <2> QED BY <1>2, <2>3 DEF Talk, Offline
  <1>4. CASE LogonAsked
    <2>1. out = <<Submit>> /\ loginQ = <<>>
      BY <1>1, <1>4 DEF LogonAsked
    <2>2. Head(out).ask = "Submit" /\ Tail(out) = <<>> /\ Append(loginQ, gen) = <<gen>>
      BY <2>1, Appended DEF Submit
    <2>3. out' = <<>> /\ loginQ' = <<gen>> /\ parkQ' = parkQ /\ gen' = gen
      BY <1>1, <2>2, SendIs
    <2>4. LogonAsked'
      BY <1>1, <1>4, <2>3 DEF LogonAsked, Home
    <2> QED BY <1>2, <2>4 DEF Talk, Offline
  <1>5. CASE ListAsked
    <2> DEFINE r == [ask |-> "Refresh"]
    <2>1. OneAsked(r)
      BY <1>5 DEF ListAsked
    <2>2. parkQ' = <<r>> /\ out' = <<>> /\ loginQ' = loginQ /\ gen' = gen
      BY <2>1, SendsAsk
    <2>3. ListAsked'
      BY <1>1, <1>5, <2>2 DEF ListAsked, Home, OneAsked
    <2> QED BY <1>2, <2>3 DEF Talk, Offline
  <1>6. CASE DialAsked
    <2>1. OneAsked(Dial) /\ Dial.ask = "Dial"
      BY <1>6 DEF DialAsked, Dial
    <2>2. parkQ' = <<Dial>> /\ out' = <<>> /\ loginQ' = loginQ /\ gen' = gen
      BY <2>1, SendsAsk
    <2>3. DialAsked'
      BY <1>1, <1>6, <2>2 DEF DialAsked, Home, OneAsked, Dial
    <2> QED BY <1>2, <2>3 DEF Talk, Offline
  <1>7. CASE RosterAwaited
    <2>1. OneAsked(RosterAsk) /\ m.asks = <<>>
      BY <1>1, <1>7 DEF RosterAwaited, NoAsk
    <2>2. parkQ' = <<RosterAsk>> /\ out' = <<>> /\ loginQ' = loginQ /\ gen' = gen
      BY <2>1, SendsAsk DEF RosterAsk
    <2>3. RosterAwaited'
      BY <1>1, <1>7, <2>1, <2>2 DEF RosterAwaited, Choosing, OneAsked
    <2> QED BY <1>2, <2>3 DEF Talk, Online
  <1>8. CASE PickAsked
    <2>1. OneAsked(PickOf) /\ PickOf.ask = "Play"
      BY <1>8 DEF PickAsked, PickOf
    <2>2. parkQ' = <<PickOf>> /\ out' = <<>> /\ loginQ' = loginQ /\ gen' = gen
      BY <2>1, SendsAsk
    <2>3. PickAsked'
      BY <1>1, <1>8, <2>2 DEF PickAsked, PickMade, OneAsked, PickOf
    <2> QED BY <1>2, <2>3 DEF Talk, Online
  <1>9. CASE SessionOver
    <2>1. Leftover(parkQ) /\ Leftover(out)
      BY <1>9 DEF SessionOver
    <2>2. Leftover(parkQ') /\ Leftover(out') /\ loginQ' = loginQ /\ gen' = gen
      BY <2>1, SendsLeftover
    <2>3. LateNews' = LateNews
      BY <1>1, <2>2 DEF LateNews, News
    <2>4. SessionOver'
      BY <1>1, <1>9, <1>s, <1>t, <2>2, <2>3 DEF SessionOver
    <2> QED BY <1>2, <2>4 DEF Talk
  <1>10. CASE \/ LogonRuns \/ LogonFailed \/ LogonStands \/ LogonListed \/ ListTold
              \/ DialRuns \/ DialFailed
    BY <1>1, <1>10 DEF LogonRuns, LogonFailed, LogonStands, LogonListed, ListTold, DialRuns, DialFailed, NoAsk
  <1>11. CASE \/ AuthTold \/ RosterTold \/ Selecting \/ PickTaken \/ PickRefused
              \/ Streamed \/ WorldLeft \/ Leaving
    BY <1>1, <1>11 DEF AuthTold, RosterTold, Selecting, PickTaken, PickRefused, Streamed, WorldLeft,
                       Leaving, NoAsk, Playing
  <1> QED BY <1>3, <1>4, <1>5, <1>6, <1>7, <1>8, <1>9, <1>10, <1>11 DEF Talk, Offline, Online

----------------------------------------------------------------------------
(* A transition.                                                           *)

LEMMA TransitionKeepsTalk ==
    ASSUME TypeInv, Talk, Transition
    PROVE  Talk'
  <1> DEFINE y == IF client = "InWorld" /\ next # "InWorld"
                  THEN Seat(m, IF next = "CharSelect" THEN "charselect" ELSE "login") ELSE m
  <1>0. m \in Mgrs /\ 0 \in Links /\ m.logins = <<>> /\ ~m.reconnect /\ ~m.authFinal
    BY DEF TypeInv, AppInv, ThreadInv, Mgrs, Links, Talk, Resting
  <1>1. /\ out = <<>> /\ next # "none" /\ client' = next /\ next' = "none" /\ m' = y
        /\ UNCHANGED <<pc, logonGen, dialGen, queued, epoch, returns, gen, loginQ, parkQ, events,
                       pick, heard, out, presses>>
    BY DEF Transition, readVars, threadVars, channels
  <1>2. Unheard' = Unheard /\ LostLast'
    BY <1>1, SameChannel DEF Talk
  <1>3. CASE Rest
    <2>1. next = "Login" /\ Idling(m) /\ m.asks = <<>>
      BY <1>1, <1>3 DEF Rest
    <2>2. CASE client = "InWorld"
      <3> DEFINE z == Seat(m, "login")
      <3>1. y = z
        BY <2>1, <2>2
      <3>2. /\ z \in Mgrs /\ z.logins = m.logins /\ z.asks = m.asks /\ ~z.reconnect /\ ~z.authFinal
            /\ ~z.refused /\ ~z.list /\ z.state = "Idle" /\ z.connected = m.connected
        BY <1>0, <2>1, SeatLogin DEF Idling
      <3> HIDE DEF z, y
      <3>3. Resting(m') /\ Idling(m') /\ m'.asks = <<>> /\ ~m'.list
        BY <1>0, <1>1, <2>1, <3>1, <3>2 DEF Resting, Idling, Down
      <3>4. Rest'
        BY <1>1, <1>2, <1>3, <2>1, <3>3 DEF Rest, NoAsk
      <3> QED BY <1>2, <3>3, <3>4 DEF Talk, Offline
    <2>3. CASE client # "InWorld"
      <3>1. m' = m
        BY <1>1, <2>3
      <3>2. Rest'
        BY <1>1, <1>2, <1>3, <2>1, <3>1 DEF Rest, NoAsk
      <3> QED BY <1>2, <3>1, <3>2 DEF Talk, Offline
    <2> QED BY <2>2, <2>3
  <1>4. CASE RosterAwaited \/ RosterTold \/ Selecting
    <2>1. Choosing /\ client # "InWorld" /\ next = "CharSelect"
      BY <1>1, <1>4 DEF RosterAwaited, RosterTold, Selecting, Choosing
    <2>2. m' = m
      BY <1>1, <2>1
    <2>3. Choosing'
      BY <1>1, <2>1, <2>2 DEF Choosing
    <2>4. RosterAwaited' \/ RosterTold' \/ Selecting'
      BY <1>1, <1>2, <1>4, <2>2, <2>3 DEF RosterAwaited, RosterTold, Selecting, OneAsked, NoAsk, Rosters
    <2> QED BY <1>2, <2>2, <2>4 DEF Talk, Online
  <1>5. CASE Streamed \/ WorldLeft
    <2>1. Playing /\ client = "CharSelect" /\ next = "InWorld"
      BY <1>1, <1>5 DEF Streamed, WorldLeft, Playing
    <2>2. m' = m
      BY <1>1, <2>1
    <2>3. Playing'
      BY <1>1, <2>1, <2>2 DEF Playing, NoAsk
    <2>4. Streamed' \/ WorldLeft'
      BY <1>1, <1>2, <1>5, <2>3 DEF Streamed, WorldLeft
    <2> QED BY <1>2, <2>2, <2>4 DEF Talk, Online
  <1>6. ASSUME client = "InWorld", next = "CharSelect", Joined(m, epoch), m.asks = <<>>
        PROVE  /\ Resting(m') /\ Joined(m', epoch) /\ ~m'.refused
               /\ \/ m'.state = "LoginRefused" /\ m'.asks = <<>>
                  \/ CharListing(m') /\ m'.asks = <<RosterAsk>>
    <2> DEFINE z == Seat(m, "charselect")
    <2>1. y = z
      BY <1>6
    <2>2. /\ z \in Mgrs /\ z.logins = m.logins /\ ~z.reconnect /\ ~z.authFinal /\ ~z.refused
          /\ Joined(z, epoch)
          /\ \/ z.state = "LoginRefused" /\ z.asks = m.asks
             \/ CharListing(z) /\ z.asks = Append(m.asks, [ask |-> "Enumerate"])
      BY <1>0, <1>6, SeatSelection
    <2> HIDE DEF z, y
    <2>3. Append(<<>>, [ask |-> "Enumerate"]) = <<RosterAsk>>
      BY Appended DEF RosterAsk
    <2> QED BY <1>0, <1>1, <1>6, <2>1, <2>2, <2>3 DEF Resting
  <1>7. CASE Leaving
    <2>1. /\ Resting(m') /\ Joined(m', epoch) /\ ~m'.refused
          /\ \/ m'.state = "LoginRefused" /\ m'.asks = <<>>
             \/ CharListing(m') /\ m'.asks = <<RosterAsk>>
      BY <1>6, <1>7 DEF Leaving
    <2> HIDE DEF y
    <2>2. Choosing'
      BY <1>1, <1>7, <2>1 DEF Leaving, Choosing
    <2>3. NoAsk' /\ Unheard' = {}
      BY <1>1, <1>2, <1>7 DEF Leaving, NoAsk
    <2>4. RosterAwaited' \/ Selecting'
      BY <2>1, <2>2, <2>3 DEF RosterAwaited, Selecting
    <2> QED BY <1>2, <2>1, <2>4 DEF Talk, Online
  <1>8. CASE SessionOver
    <2>s. /\ Silent({"List", "Roster", "Auth"})' = Silent({"List", "Roster", "Auth"})
          /\ Silent({"Auth"})' = Silent({"Auth"})
          /\ Silent({"Connected", "Refused", "LoggedOut"})' = Silent({"Connected", "Refused", "LoggedOut"})
          /\ Silent({"List", "Roster", "Auth", "LoggedOut", "Refused"})' =
                Silent({"List", "Roster", "Auth", "LoggedOut", "Refused"})
          /\ LateNews' = LateNews
      BY <1>1, <1>2 DEF Silent, LateNews, News
    <2>1. next # "Login"
      BY <1>8 DEF SessionOver
    <2>n. next \in {"InWorld", "CharSelect"}
      BY <1>1, <2>1 DEF TypeInv, AppInv, Clients
    <2>2. CASE client = "InWorld" /\ next = "CharSelect" /\ Joined(m, epoch) /\ m.asks = <<>>
      <3>1. /\ Resting(m') /\ Joined(m', epoch) /\ ~m'.refused
            /\ \/ m'.state = "LoginRefused" /\ m'.asks = <<>>
               \/ CharListing(m') /\ m'.asks = <<RosterAsk>>
        BY <1>6, <2>2
      <3> HIDE DEF y
      <3>2. CharListing(m') => m'.state = "CharList"
        BY DEF CharListing
      <3>3. client' = "CharSelect" /\ next' = "none"
        BY <1>1, <2>2
      <3>4. SessionOver'
        BY <1>1, <1>2, <1>8, <2>s, <3>1, <3>2, <3>3 DEF SessionOver
      <3> QED BY <1>2, <3>1, <3>4 DEF Talk
    <2>3. CASE ~(client = "InWorld" /\ next = "CharSelect")
      <3>1. m' = m /\ ~m.refused
        BY <1>1, <1>8, <2>n, <2>3 DEF SessionOver
      <3> HIDE DEF y
      <3>2. client' # "InWorld" => client # "InWorld" /\ next # "InWorld"
        BY <1>1, <2>n, <2>3
      <3>3. m.state = "Idle" /\ client' # "InWorld" =>
               Silent({"List", "Roster", "Auth", "LoggedOut", "Refused"})
        BY <1>8, <3>2 DEF SessionOver
      <3>4. SessionOver'
        BY <1>1, <1>2, <1>8, <2>s, <3>1, <3>3 DEF SessionOver
      <3> QED BY <1>2, <3>1, <3>4 DEF Talk
    <2>4. client = "InWorld" => Joined(m, epoch) /\ m.asks = <<>>
      BY <1>8 DEF SessionOver
    <2> QED BY <2>2, <2>3, <2>4
  <1>9. ~(\/ LogonAsked \/ LogonRuns \/ LogonFailed \/ LogonStands \/ LogonListed
          \/ ListAsked \/ ListTold \/ DialAsked \/ DialRuns \/ DialFailed \/ AuthTold)
    BY <1>1 DEF LogonAsked, LogonRuns, LogonFailed, LogonStands, LogonListed, ListAsked, ListTold,
                DialAsked, DialRuns, DialFailed, AuthTold, Home
  <1>10. ~(PickAsked \/ PickTaken \/ PickRefused)
    BY <1>1 DEF PickAsked, PickTaken, PickRefused, PickMade
  <1> HIDE DEF y
  <1> QED BY <1>3, <1>4, <1>5, <1>7, <1>8, <1>9, <1>10 DEF Talk, Offline, Online

----------------------------------------------------------------------------
(* The presses of a conversation.                                          *)

\* The presses a player may make without leaving what the screens wait for: none of them is
\* offered while a dialog waits for an answer, or leaves a session that stands.
OrdinaryPresses == {"Login", "Dismiss", "Refresh", "CloseList", "PickRealm", "EnterWorld"}
Ordinary == Presses \subseteq OrdinaryPresses /\ Races = {}

\* A frame without a press, or with one that is offered.
Pressing(press) == press = "none" \/ (press \in Presses /\ Offered(m, press) /\ client # "InWorld")

LEMMA MgrIs ==
    ASSUME TypeInv
    PROVE  /\ m \in Mgrs /\ 0 \in Links /\ epoch \in Links /\ events \in Seq(News)
           /\ Pressed(m, "none") = m
  <1>1. m \in Mgrs /\ 0 \in Links /\ epoch \in Links /\ events \in Seq(News)
    BY DEF TypeInv, AppInv, ThreadInv, Mgrs, Links
  <1>2. Pump(m) = m
    BY <1>1, PumpNone DEF Mgrs
  <1> QED BY <1>1, <1>2 DEF Pressed

LEMMA DrivenIs ==
    ASSUME TypeInv, NEW press, press \in Presses \cup {"none"}
    PROVE  Pressed(m, press) \in Mgrs /\ DriveGlueMgr(Pressed(m, press), events) \in Mgrs
  <1>1. Pressed(m, press) \in Rested(Links, Eras, {FALSE})
    BY PressedTyped
  <1>2. Pressed(m, press) \in Working(Links, Eras, {FALSE})
    BY <1>1 DEF Rested
  <1> QED BY <1>1, <1>2, MgrIs, DriveRests DEF Mgrs

\* Which presses a screen offers in a conversation.
LEMMA PressesAre ==
    ASSUME Ordinary, NEW press, Pressing(press)
    PROVE  /\ press \in Presses \cup {"none"}
           /\ press \in {"none"} \cup OrdinaryPresses
           /\ press = "Dismiss" => m.state = "Logon" /\ m.stands
           /\ press = "Login" => m.screen = "login" /\ ~m.list /\ m.state = "Idle"
           /\ press \in {"Refresh", "CloseList", "PickRealm"} => m.list /\ m.state = "Idle"
           /\ press = "EnterWorld" => m.state \in {"Idle", "EnterWorld"} /\ m.rows # 0 /\ m.screen = "charselect"
           /\ press # "none" => client # "InWorld"
  <1>1. /\ press \in Presses \cup {"none"}
        /\ press \in {"none"} \cup OrdinaryPresses
    BY DEF Ordinary, Pressing
  <1>2. press # "none" => client # "InWorld" /\ Offered(m, press)
    BY DEF Pressing
  <1>3. press = "Login" => m.screen = "login" /\ ~m.list /\ m.state = "Idle"
    BY <1>2 DEF Offered
  <1>4. press \in {"Refresh", "CloseList", "PickRealm"} => m.list /\ m.state = "Idle"
    BY <1>2 DEF Offered
  <1>5. press = "EnterWorld" => m.state \in {"Idle", "EnterWorld"} /\ m.rows # 0 /\ m.screen = "charselect"
    BY <1>2 DEF Offered, AtSelect
  <1>6. press = "Dismiss" => m.state = "Logon" /\ m.stands
    BY <1>2 DEF Offered, DialogStands
  <1> QED BY <1>1, <1>2, <1>3, <1>4, <1>5, <1>6

LEMMA PressLogin ==
    ASSUME m \in Mgrs, 0 \in Links, Idling(m), ~m.list, Resting(m)
    PROVE  LET x == Pressed(m, "Login")
           IN /\ x \in Mgrs /\ LoggingOn(x) /\ x.logins = <<"Submit">> /\ x.asks = m.asks
              /\ ~x.reconnect /\ ~x.authFinal
  <1> DEFINE b == BeginLogon(m)
  <1>m. m \in Working(Links, Eras, {FALSE}) /\ m.outbox = <<>>
    BY MgrsAre
  <1>1. b \in Working(Links, Eras, {FALSE})
    BY <1>m, FieldTyped, Names DEF BeginLogon
  <1>2. /\ b.outbox = <<>> /\ LoggingOn(b) /\ b.logins = <<>> /\ b.asks = m.asks /\ ~b.reconnect
        /\ ~b.authFinal
    BY <1>m DEF BeginLogon, Working, LoggingOn, LogonUp, Idling, Down, Resting
  <1>3. Pressed(m, "Login") = Pump(Raise(b, <<"Logon">>))
    BY DEF Pressed, Login, Idling, Down
  <1> HIDE DEF b
  <1>4. b \in Rested(Links, Eras, {FALSE})
    BY <1>1, <1>2 DEF Rested
  <1>5. Raise(b, <<"Logon">>) = Boxed(b, <<"Logon">>)
    BY <1>2, RaisedBoxed
  <1>6. Pressed(m, "Login") = Submits(b)
    BY <1>3, <1>4, <1>5, PumpOne, PlainItems, Names
  <1>7. Submits(b) \in Mgrs
    BY <1>4, MadeRests DEF Mgrs
  <1>8. Append(<<>>, "Submit") = <<"Submit">>
    BY Appended
  <1>9. /\ LoggingOn(Submits(b)) /\ Submits(b).logins = <<"Submit">> /\ Submits(b).asks = m.asks
        /\ ~Submits(b).reconnect /\ ~Submits(b).authFinal
    BY <1>1, <1>2, <1>8 DEF Submits, Working, LoggingOn, LogonUp
  <1> QED BY <1>6, <1>7, <1>9

LEMMA PressPickRealm ==
    ASSUME m \in Mgrs, 0 \in Links, Idling(m), Resting(m)
    PROVE  LET x == Pressed(m, "PickRealm")
           IN /\ x \in Mgrs /\ Listing(x) /\ x.logins = <<>> /\ x.asks = Append(m.asks, [ask |-> "Refresh"])
              /\ ~x.reconnect /\ ~x.authFinal
  <1> DEFINE h == [m EXCEPT !.list = FALSE]
             c == [h EXCEPT !.selected = @ \/ h.holder]
             d == [c EXCEPT !.state = "Connect"]
             e == Asking(d, "Connect", "Refresh")
  <1>m. m \in Working(Links, Eras, {FALSE}) /\ m.outbox = <<>>
    BY MgrsAre
  <1>1. h \in Working(Links, Eras, {FALSE}) /\ Hidden(m) = h
    BY <1>m, FieldTyped DEF Hidden, CancelRealmListQuery, Idling, Down
  <1>2. h.outbox = <<>> /\ h.logins = <<>> /\ h.asks = m.asks /\ ~h.reconnect /\ ~h.authFinal
        /\ ~h.connected /\ ~h.refused
    BY <1>m DEF Working, Idling, Down, Resting
  <1> HIDE DEF h
  <1>3. c \in Working(Links, Eras, {FALSE})
    <2>1. h \in Working(Links, Eras, {FALSE})
      BY <1>1
    <2> QED BY <2>1 DEF Working
  <1>4. c.outbox = <<>> /\ c.logins = <<>> /\ c.asks = m.asks /\ ~c.reconnect /\ ~c.authFinal
        /\ ~c.connected /\ ~c.refused
    BY <1>1, <1>2 DEF Working
  <1>5. ConnectToRealm(h) = BeginConnect(c)
    BY <1>2 DEF ConnectToRealm
  <1> HIDE DEF c
  <1>6. d \in Working(Links, Eras, {FALSE})
    BY <1>3, FieldTyped, Names
  <1>7. d.outbox = <<>> /\ d.logins = <<>> /\ d.asks = m.asks /\ ~d.reconnect /\ ~d.authFinal
        /\ ~d.connected /\ ~d.refused /\ d.state = "Connect"
    BY <1>3, <1>4 DEF Working
  <1>8. BeginConnect(c) = Raise(d, <<"Connect">>)
    BY DEF BeginConnect
  <1> HIDE DEF d
  <1>9. d \in Rested(Links, Eras, {FALSE})
    BY <1>6, <1>7 DEF Rested
  <1>10. Raise(d, <<"Connect">>) = Boxed(d, <<"Connect">>)
    BY <1>7, RaisedBoxed
  <1>11. Pump(Raise(d, <<"Connect">>)) = e
    BY <1>9, <1>10, PumpOne, PlainItems, Names
  <1>12. Pressed(m, "PickRealm") = e
    BY <1>1, <1>5, <1>8, <1>11 DEF Pressed
  <1>13. e \in Mgrs
    BY <1>9, MadeRests, Names DEF Mgrs
  <1>14. e.op = Begun("Connect") /\ e.state = "Connect" /\ ~e.connected /\ ~e.refused
         /\ e.logins = <<>> /\ ~e.reconnect /\ ~e.authFinal
    BY <1>6, <1>7 DEF Asking, Working
  <1>15. e.asks = Append(m.asks, [ask |-> "Refresh"])
    BY <1>6, <1>7 DEF Asking, Working
  <1> HIDE DEF e
  <1>16. Listing(e)
    BY <1>14, BegunIs, Names DEF Listing
  <1> QED BY <1>12, <1>13, <1>14, <1>15, <1>16

\* The list is asked for again.
LEMMA PressRefresh ==
    ASSUME m \in Mgrs, 0 \in Links, Idling(m), Resting(m)
    PROVE  LET x == Pressed(m, "Refresh")
           IN /\ x \in Mgrs /\ Listing(x) /\ x.logins = <<>> /\ x.asks = Append(m.asks, [ask |-> "Refresh"])
              /\ ~x.reconnect /\ ~x.authFinal
  <1> DEFINE d == [m EXCEPT !.state = "RealmList"]
             e == Asking(d, "GetRealms", "Refresh")
  <1>m. m \in Working(Links, Eras, {FALSE}) /\ m.outbox = <<>>
    BY MgrsAre
  <1>1. d \in Working(Links, Eras, {FALSE})
    BY <1>m, FieldTyped, Names
  <1>2. d.outbox = <<>> /\ d.logins = <<>> /\ d.asks = m.asks /\ ~d.reconnect /\ ~d.authFinal
        /\ ~d.connected /\ ~d.refused /\ d.state = "RealmList"
    BY <1>m DEF Working, Idling, Down, Resting
  <1>3. Pressed(m, "Refresh") = Pump(Raise(d, <<"RealmList">>))
    BY DEF Pressed, RequestRealmList
  <1> HIDE DEF d
  <1>4. d \in Rested(Links, Eras, {FALSE})
    BY <1>1, <1>2 DEF Rested
  <1>5. Raise(d, <<"RealmList">>) = Boxed(d, <<"RealmList">>)
    BY <1>2, RaisedBoxed
  <1>6. Pressed(m, "Refresh") = e
    BY <1>3, <1>4, <1>5, PumpOne, PlainItems, Names
  <1>7. e \in Mgrs
    BY <1>4, MadeRests, Names DEF Mgrs
  <1>8. e.op = Begun("GetRealms") /\ e.state = "RealmList" /\ ~e.connected /\ ~e.refused
        /\ e.logins = <<>> /\ ~e.reconnect /\ ~e.authFinal
    BY <1>1, <1>2 DEF Asking, Working
  <1>9. e.asks = Append(m.asks, [ask |-> "Refresh"])
    BY <1>1, <1>2 DEF Asking, Working
  <1> HIDE DEF e
  <1>10. Listing(e)
    BY <1>8, BegunIs, Names DEF Listing
  <1> QED BY <1>6, <1>7, <1>8, <1>9, <1>10

\* The list closes: at the login screen its link is dropped.
LEMMA PressDismiss ==
    ASSUME m \in Mgrs, 0 \in Links, StandsUp(m), Resting(m)
    PROVE  LET x == Pressed(m, "Dismiss")
           IN /\ x \in Mgrs /\ Idling(x) /\ ~x.list /\ x.logins = <<"Abandon">> /\ x.asks = m.asks
              /\ ~x.reconnect /\ ~x.authFinal
  <1> DEFINE a == AskLogin(m, "Abandon")
             x == [a EXCEPT !.state = "Idle"]
  <1>m. m \in Working(Links, Eras, {FALSE}) /\ m.outbox = <<>> /\ m.logins = <<>>
    BY MgrsAre DEF Resting
  <1>1. Append(<<>>, "Abandon") = <<"Abandon">>
    BY Appended
  <1>2. a \in Working(Links, Eras, {FALSE})
    <2>1. Append(m.logins, "Abandon") \in Seq(LoginAsks)
      BY <1>m, <1>1 DEF LoginAsks
    <2> QED BY <1>m, <2>1 DEF AskLogin, Working
  <1>3. /\ a.outbox = <<>> /\ a.logins = <<"Abandon">> /\ a.asks = m.asks /\ ~a.reconnect /\ ~a.authFinal
        /\ ~a.list /\ ~a.connected /\ ~a.refused
    BY <1>m, <1>1 DEF AskLogin, Working, StandsUp, LogonUp, Resting
  <1>4. StatusDialogClick(m) = x
    BY DEF StatusDialogClick, StandsUp, LogonUp
  <1> HIDE DEF a
  <1>5. x \in Working(Links, Eras, {FALSE})
    BY <1>2, FieldTyped, Names
  <1>6. /\ x.outbox = <<>> /\ x.logins = <<"Abandon">> /\ x.asks = m.asks /\ ~x.reconnect /\ ~x.authFinal
        /\ ~x.list /\ Idling(x)
    BY <1>2, <1>3 DEF Working, Idling, Down
  <1> HIDE DEF x
  <1>7. Pressed(m, "Dismiss") = Pump(x)
    BY <1>4 DEF Pressed
  <1>8. x \in Rested(Links, Eras, {FALSE})
    BY <1>5, <1>6 DEF Rested
  <1>9. Pump(x) = x
    BY <1>8, PumpNone
  <1> QED BY <1>6, <1>7, <1>8, <1>9 DEF Mgrs

LEMMA PressCloseList ==
    ASSUME m \in Mgrs, 0 \in Links, Idling(m), Resting(m)
    PROVE  LET x == Pressed(m, "CloseList")
           IN /\ x \in Mgrs /\ Idling(x) /\ ~x.list /\ x.logins \in {<<>>, <<"Abandon">>} /\ x.asks = m.asks
              /\ ~x.reconnect /\ ~x.authFinal
  <1> DEFINE h == [m EXCEPT !.list = FALSE]
             a == AskLogin(h, "Abandon")
             x == IF m.screen = "login" THEN a ELSE h
  <1>m. m \in Working(Links, Eras, {FALSE}) /\ m.outbox = <<>>
    BY MgrsAre
  <1>1. h \in Working(Links, Eras, {FALSE}) /\ Hidden(m) = h
    BY <1>m, FieldTyped DEF Hidden, CancelRealmListQuery, Idling, Down
  <1>2. /\ h.outbox = <<>> /\ h.logins = <<>> /\ h.asks = m.asks /\ ~h.reconnect /\ ~h.authFinal
        /\ ~h.list /\ Idling(h)
    BY <1>m DEF Working, Idling, Down, Resting
  <1> HIDE DEF h
  <1>3. Append(<<>>, "Abandon") = <<"Abandon">>
    BY Appended
  <1>4. a \in Working(Links, Eras, {FALSE})
    <2>1. Append(h.logins, "Abandon") \in Seq(LoginAsks)
      BY <1>2, <1>3 DEF LoginAsks
    <2> QED BY <1>1, <2>1 DEF AskLogin, Working
  <1>5. /\ a.outbox = <<>> /\ a.logins = <<"Abandon">> /\ a.asks = m.asks /\ ~a.reconnect /\ ~a.authFinal
        /\ ~a.list /\ Idling(a)
    BY <1>1, <1>2, <1>3 DEF AskLogin, Working, Idling, Down
  <1> HIDE DEF a
  <1>6. /\ x \in Working(Links, Eras, {FALSE}) /\ x.outbox = <<>> /\ x.logins \in {<<>>, <<"Abandon">>}
        /\ x.asks = m.asks /\ ~x.reconnect /\ ~x.authFinal /\ ~x.list /\ Idling(x)
    BY <1>1, <1>2, <1>4, <1>5
  <1>7. Pressed(m, "CloseList") = Pump(x)
    BY <1>1 DEF Pressed, a
  <1> HIDE DEF x
  <1>8. x \in Rested(Links, Eras, {FALSE})
    BY <1>6 DEF Rested
  <1>9. Pressed(m, "CloseList") = x /\ x \in Mgrs
    BY <1>7, <1>8, PumpNone DEF Mgrs
  <1> QED BY <1>6, <1>9

\* A pick is made where the link is up, and only ahead of the entry's own dialog.
LEMMA PressEnterWorld ==
    ASSUME m \in Mgrs, 0 \in Links, Resting(m), m.asks = <<>>, heard + Returned(events) \in Eras
    PROVE  LET x == Pressed(m, "EnterWorld")
               p == [ask |-> "Play", epoch |-> m.rows, era |-> heard + Returned(events)]
           IN /\ ~m.connected => x = m
              /\ m.connected /\ m.selected /\ m.state = "EnterWorld" => x = m
              /\ m.connected /\ m.selected /\ m.state = "Idle" =>
                    /\ x \in Mgrs /\ x.state = "EnterWorld" /\ x.asks = <<p>>
                    /\ x.logins = m.logins /\ x.reconnect = m.reconnect /\ x.authFinal = m.authFinal
                    /\ x.refused = m.refused /\ x.connected = m.connected /\ x.screen = m.screen
                    /\ x.list = m.list /\ x.selected = m.selected /\ x.link = m.link /\ x.rows = m.rows
  <1> DEFINE era == heard + Returned(events)
             p == [ask |-> "Play", epoch |-> m.rows, era |-> era]
             e == EnterWorld(m, era)
  <1>m. m \in Working(Links, Eras, {FALSE}) /\ m.outbox = <<>>
    BY MgrsAre
  <1>0. Pressed(m, "EnterWorld") = Pump(e)
    BY DEF Pressed
  <1>1. e \in Working(Links, Eras, {FALSE})
    BY <1>m, EnterWorldTyped
  <1>2. {i \in DOMAIN m.asks : m.asks[i].ask = "Play"} = {}
    OBVIOUS
  <1>3. ~m.connected => e = m
    BY DEF EnterWorld
  <1>4. m.connected /\ m.selected /\ m.state = "EnterWorld" => e = m
    <2>1. ASSUME m.connected, m.selected, m.state = "EnterWorld"
          PROVE  e = m
      <3>1. e = [m EXCEPT !.state = "EnterWorld", !.asks = @]
        BY <1>2, <2>1 DEF EnterWorld
      <3> HIDE DEF e
      <3> QED BY <1>m, <2>1, <3>1 DEF Working
    <2> QED BY <2>1
  <1>5. ASSUME m.connected, m.selected, m.state = "Idle"
        PROVE  e = [m EXCEPT !.state = "EnterWorld", !.asks = <<p>>]
    <2>1. Append(m.asks, p) = <<p>>
      BY Appended
    <2>2. e = [m EXCEPT !.state = "EnterWorld", !.asks = Append(@, p)]
      BY <1>2, <1>5 DEF EnterWorld
    <2> HIDE DEF e, p
    <2> QED BY <2>1, <2>2
  <1> HIDE DEF e, p
  <1>6. ASSUME m.connected, m.selected, m.state = "Idle"
        PROVE  /\ e.outbox = <<>> /\ e.state = "EnterWorld" /\ e.asks = <<p>>
               /\ e.logins = m.logins /\ e.reconnect = m.reconnect /\ e.authFinal = m.authFinal
               /\ e.refused = m.refused /\ e.connected = m.connected /\ e.screen = m.screen
               /\ e.list = m.list /\ e.selected = m.selected /\ e.link = m.link /\ e.rows = m.rows
    <2>1. e = [m EXCEPT !.state = "EnterWorld", !.asks = <<p>>]
      BY <1>5, <1>6
    <2> QED BY <1>m, <2>1 DEF Working
  <1>7. e.outbox = <<>> => Pump(e) = e /\ e \in Mgrs
    BY <1>1, PumpNone DEF Rested, Mgrs
  <1> QED BY <1>m, <1>0, <1>3, <1>4, <1>6, <1>7 DEF p

----------------------------------------------------------------------------
(* The frames of an attempt.                                               *)

\* What a frame does ahead of any session: the manager moves and its asks go out.
FrameStays(y) ==
    /\ m' = Cleared(y) /\ out' = Sent(y.asks) \o Answers(y.logins)
    /\ Unheard' = {} /\ LostLast'
    /\ pick' = NoPick /\ client' = "Login" /\ next' = "none"
    /\ UNCHANGED <<pc, logonGen, dialGen, epoch, returns, gen, loginQ, parkQ>>

LEMMA FrameOffline ==
    ASSUME TypeInv, Ordinary, NEW press, Pressing(press), Frame(press), Home,
           Silent({"Auth", "Lost", "Refused", "Connected", "LoggedOut"}),
           NEW y, y = DriveGlueMgr(Pressed(m, press), events),
           y.logins \in FrameLogins,
           y.asks = <<>> \/ \E a \in {"Dial", "Enumerate", "Refresh"} : y.asks = <<[ask |-> a]>>
    PROVE  FrameStays(y) /\ y \in Mgrs /\ out = <<>>
  <1>1. press \in Presses \cup {"none"} /\ Races = {}
    BY PressesAre DEF Ordinary
  <1>2. y \in Mgrs
    BY <1>1, DrivenIs
  <1>3. pick = NoPick /\ client = "Login" /\ next = "none"
    BY DEF Home
  <1>4. FrameAsks(y.asks, press)
    BY DEF FrameAsks
  <1>5. \A e \in Unheard : e.kind # "Auth"
    BY DEF Silent
  <1>6. Silent({"Auth"})
    BY <1>5 DEF Silent
  <1>7. Framed(y)
    BY <1>1, <1>2, <1>3, <1>4, <1>5, <1>6, FrameIs
  <1>8. /\ ~Some(events, "Auth") /\ ~Some(events, "Lost") /\ ~Some(events, "Refused")
        /\ ~Some(events, "Connected") /\ ~Some(events, "LoggedOut")
    <2>1. /\ Silent({"Auth"}) /\ Silent({"Lost"}) /\ Silent({"Refused"}) /\ Silent({"Connected"})
          /\ Silent({"LoggedOut"})
      BY DEF Silent
    <2> QED BY <2>1, SilentSome
  <1>9. FrameNext = "none"
    BY <1>8 DEF FrameNext, EdgesNext
  <1>10. pick' = NoPick
    <2>1. PickSent(y.asks, NoPick) = NoPick
      <3>1. \A a \in {"Dial", "Enumerate", "Refresh"} : a # "Play"
        OBVIOUS
      <3>2. PickSent(<<>>, NoPick) = NoPick
        BY PickSentIs
      <3>3. \A a \in {"Dial", "Enumerate", "Refresh"} : PickSent(<<[ask |-> a]>>, NoPick) = NoPick
        BY <3>1, PickSentIs
      <3> QED BY <3>2, <3>3
    <2> QED BY <1>3, <1>7, <2>1 DEF Framed
  <1>11. events' = <<>>
    BY <1>7 DEF Framed
  <1>12. Unheard' = {} /\ LostLast'
    BY <1>11, DrainedChannel
  <1> QED BY <1>2, <1>3, <1>7, <1>9, <1>10, <1>12 DEF Framed, FrameStays, Frame

\* The realm list's outcome is the realm dialled, rest, or a list asked for.
LEMMA ListEndsTalk ==
    ASSUME TypeInv, Ordinary, NEW press, Pressing(press), Frame(press), Home,
           Silent({"Auth", "Lost", "Refused", "Connected", "LoggedOut"}),
           NEW l, l.logins = <<>>, l.asks = <<>>, ~l.reconnect, ~l.authFinal, ~l.refused,
           ListEnds(l, DriveGlueMgr(Pressed(m, press), events)),
           pc = "park", parkQ = <<>>, loginQ = <<>>
    PROVE  Talk'
  <1> DEFINE y == DriveGlueMgr(Pressed(m, press), events)
  <1>0. y = DriveGlueMgr(Pressed(m, press), events) /\ ListEnds(l, y)
    OBVIOUS
  <1> HIDE DEF y
  <1>1. \A a : Append(<<>>, a) = <<a>>
    BY Appended
  <1>2. /\ y.logins = <<>> /\ ~y.reconnect /\ ~y.authFinal /\ ~y.refused /\ ~y.connected
        /\ \/ Calling(y) /\ y.asks = <<[ask |-> "Dial"]>>
           \/ y.state = "Idle" /\ y.asks = <<>>
           \/ Realms(y) /\ y.asks = <<[ask |-> "Refresh"]>>
    BY <1>0, <1>1 DEF ListEnds, Asks, SameAsks, Down, Realms, Calling
  <1>3. y.logins \in FrameLogins
    BY <1>2 DEF FrameLogins
  <1>4. y.asks = <<>> \/ \E a \in {"Dial", "Enumerate", "Refresh"} : y.asks = <<[ask |-> a]>>
    BY <1>2
  <1>5. FrameStays(y) /\ y \in Mgrs /\ out = <<>>
    BY <1>0, <1>3, <1>4, FrameOffline
  <1> DEFINE z == Cleared(y)
  <1>6. /\ z.logins = <<>> /\ z.asks = <<>> /\ z.state = y.state /\ z.authFinal = y.authFinal
        /\ z.connected = y.connected /\ z.reconnect = y.reconnect /\ z.op = y.op
        /\ z.refused = y.refused
    BY <1>5, ClearedIs
  <1>7. m' = z
    BY <1>5 DEF FrameStays
  <1> HIDE DEF z
  <1>8. Resting(m') /\ LostLast' /\ Home' /\ Unheard' = {}
    BY <1>2, <1>5, <1>6, <1>7 DEF Resting, FrameStays, Home
  <1>9. CASE Calling(y) /\ y.asks = <<[ask |-> "Dial"]>>
    <2>1. out' = <<Dial>>
      BY <1>2, <1>5, <1>9, SendsAre DEF FrameStays
    <2>2. Calling(m')
      BY <1>6, <1>7, <1>9 DEF Calling
    <2>3. DialAsked'
      BY <1>5, <1>6, <1>7, <1>8, <2>1, <2>2 DEF DialAsked, FrameStays, OneAsked, Dial
    <2> QED BY <1>8, <2>3 DEF Talk, Offline
  <1>10. CASE y.state = "Idle" /\ y.asks = <<>>
    <2>1. out' = <<>>
      BY <1>2, <1>5, <1>10, SendsAre DEF FrameStays
    <2>2. Idling(m')
      BY <1>2, <1>6, <1>7, <1>10 DEF Idling, Down
    <2>3. Rest'
      BY <1>5, <1>6, <1>7, <1>8, <2>1, <2>2 DEF Rest, FrameStays, NoAsk
    <2> QED BY <1>8, <2>3 DEF Talk, Offline
  <1>11. CASE Realms(y) /\ y.asks = <<[ask |-> "Refresh"]>>
    <2>1. out' = <<[ask |-> "Refresh"]>>
      BY <1>2, <1>5, <1>11, SendsAre DEF FrameStays
    <2>2. Listing(m')
      <3>1. m'.op = Begun("GetRealms") /\ m'.state = "RealmList" /\ ~m'.connected /\ ~m'.refused
        BY <1>2, <1>6, <1>7, <1>11 DEF Realms
      <3> QED BY <3>1, BegunIs, Names DEF Listing
    <2>3. ListAsked'
      BY <1>5, <1>6, <1>7, <1>8, <2>1, <2>2 DEF ListAsked, FrameStays, OneAsked
    <2> QED BY <1>8, <2>3 DEF Talk, Offline
  <1> QED BY <1>2, <1>9, <1>10, <1>11

\* A manager that stays what it is, asking nothing.
LEMMA FrameSame ==
    ASSUME TypeInv, Ordinary, NEW press, Pressing(press), Frame(press), Home,
           Silent({"Auth", "Lost", "Refused", "Connected", "LoggedOut"}),
           NEW y, y = DriveGlueMgr(Pressed(m, press), events), y.logins = <<>>, y.asks = <<>>,
           ~y.reconnect, ~y.authFinal
    PROVE  /\ out' = <<>> /\ out = <<>> /\ y \in Mgrs /\ m' = Cleared(y) /\ Resting(m') /\ m'.asks = <<>>
           /\ LostLast' /\ Home' /\ Unheard' = {}
           /\ m'.state = y.state /\ m'.cells = y.cells /\ m'.connected = y.connected /\ m'.op = y.op
           /\ m'.refused = y.refused /\ m'.list = y.list /\ m'.stands = y.stands
           /\ UNCHANGED <<pc, logonGen, dialGen, epoch, returns, gen, loginQ, parkQ>>
  <1>1. y.logins \in FrameLogins
    BY DEF FrameLogins
  <1>2. FrameStays(y) /\ y \in Mgrs /\ out = <<>>
    BY <1>1, FrameOffline
  <1> DEFINE z == Cleared(y)
  <1>3. /\ z.logins = <<>> /\ z.asks = <<>> /\ z.state = y.state /\ z.authFinal = y.authFinal
        /\ z.connected = y.connected /\ z.reconnect = y.reconnect /\ z.op = y.op /\ z.cells = y.cells
        /\ z.refused = y.refused /\ z.list = y.list /\ z.stands = y.stands
    BY <1>2, ClearedIs
  <1>4. m' = z
    BY <1>2 DEF FrameStays
  <1> HIDE DEF z
  <1>5. out' = <<>>
    BY <1>2, SendsAre DEF FrameStays
  <1>6. Resting(m') /\ Home'
    BY <1>2, <1>3, <1>4 DEF Resting, FrameStays, Home
  <1> QED BY <1>2, <1>3, <1>4, <1>5, <1>6 DEF FrameStays, z

LEMMA FrameAtRest ==
    ASSUME TypeInv, Ordinary, Talk, Rest, NEW press, Pressing(press), Frame(press)
    PROVE  Talk'
  <1>1. m \in Mgrs /\ 0 \in Links /\ events \in Seq(News) /\ Pressed(m, "none") = m /\ epoch \in Links
    BY MgrIs
  <1>2. Home /\ out = <<>>
    BY DEF Rest, Frame, Home
  <1>3. client # "InWorld"
    BY <1>2 DEF Home
  <1>4. /\ Silent({"Auth", "Lost", "Refused", "Connected", "LoggedOut"})
        /\ Unheard \subseteq {Began} /\ Unheard \subseteq {Entry}
    BY DEF Rest, Silent
  <1>5. /\ Idling(m) /\ Resting(m) /\ m.asks = <<>> /\ m.state = "Idle" /\ ~m.connected /\ ~m.refused
        /\ ~m.reconnect /\ ~m.authFinal /\ m.logins = <<>>
    BY DEF Rest, Talk, Idling, Down, Resting
  <1>6. CASE press \in {"none", "EnterWorld"}
    <2>1. Pressed(m, press) = m
      <3>1. heard + Returned(events) \in Eras
        BY DEF TypeInv, AppInv, ThreadInv, Eras
      <3> QED BY <1>1, <1>5, <1>6, <3>1, PressEnterWorld
    <2>2. DriveGlueMgr(m, events) = Run(m)
      BY <1>1, <1>3, <1>4, <1>5, DriveStill
    <2>3. Run(m) = m
      BY <1>1, <1>5, RunQuiet
    <2>4. m = DriveGlueMgr(Pressed(m, press), events)
      BY <2>1, <2>2, <2>3
    <2>5. /\ out' = <<>> /\ Resting(m') /\ m'.asks = <<>>
          /\ LostLast' /\ Home' /\ Unheard' = {}
          /\ m'.state = m.state /\ m'.connected = m.connected
          /\ m'.refused = m.refused /\ m'.list = m.list
          /\ UNCHANGED <<pc, logonGen, dialGen, epoch, returns, gen, loginQ, parkQ>>
      BY <1>2, <1>4, <1>5, <2>4, FrameSame
    <2>6. Leftover(<<>>)
      BY LeftoverIs
    <2>7. Rest'
      BY <1>2, <1>5, <2>5, <2>6 DEF Rest, Home, NoAsk, Idling, Down
    <2> QED BY <2>5, <2>7 DEF Talk, Offline
  <1>7. CASE press = "Login"
    <2> DEFINE x == Pressed(m, "Login")
               y == DriveGlueMgr(x, events)
    <2>1. ~m.list
      BY <1>7, PressesAre
    <2>2. /\ x \in Mgrs /\ LoggingOn(x) /\ x.logins = <<"Submit">> /\ x.asks = m.asks
          /\ ~x.reconnect /\ ~x.authFinal
      BY <1>1, <1>5, <2>1, PressLogin
    <2>3. y = DriveGlueMgr(Pressed(m, press), events)
      BY <1>7
    <2> HIDE DEF x
    <2>4. LoggingOn(y) /\ SameAsks(x, y)
      BY <1>1, <1>3, <1>4, <2>2, DriveLogging
    <2> HIDE DEF y
    <2>5. y.logins = <<"Submit">> /\ y.asks = <<>> /\ ~y.reconnect /\ ~y.authFinal
      BY <1>5, <2>2, <2>4 DEF SameAsks
    <2>6. y.logins \in FrameLogins
      BY <2>5 DEF FrameLogins
    <2>7. FrameStays(y) /\ y \in Mgrs /\ out = <<>>
      BY <1>2, <1>4, <2>3, <2>5, <2>6, FrameOffline
    <2> DEFINE z == Cleared(y)
    <2>8. /\ z.logins = <<>> /\ z.asks = <<>> /\ z.state = y.state /\ z.authFinal = y.authFinal
          /\ z.connected = y.connected /\ z.reconnect = y.reconnect /\ z.cells = y.cells
          /\ z.refused = y.refused /\ z.list = y.list /\ z.stands = y.stands
      BY <2>7, ClearedIs
    <2>9. m' = z
      BY <2>7 DEF FrameStays
    <2> HIDE DEF z
    <2>10. out' = <<Submit>>
      BY <2>5, <2>7, SendsAre DEF FrameStays
    <2>11. LoggingOn(m') /\ Resting(m') /\ m'.asks = <<>>
      BY <2>4, <2>5, <2>8, <2>9 DEF LoggingOn, LogonUp, Resting
    <2>12. LogonAsked'
      <3>1. pc \in {"login", "park"} /\ Leftover(parkQ) /\ loginQ = <<>>
        BY LeftoverIs DEF Rest, NoAsk
      <3> QED BY <2>7, <2>10, <2>11, <3>1 DEF LogonAsked, FrameStays, Home
    <2> QED BY <2>7, <2>11, <2>12 DEF Talk, Offline, FrameStays
  <1>8. CASE press \in {"Refresh", "PickRealm"}
    <2> DEFINE y == Pressed(m, press)
    <2>1. /\ y \in Mgrs /\ Listing(y) /\ y.logins = <<>> /\ y.asks = Append(m.asks, [ask |-> "Refresh"])
          /\ ~y.reconnect /\ ~y.authFinal
      BY <1>1, <1>5, <1>8, PressRefresh, PressPickRealm
    <2>2. pc = "park" /\ NoAsk
      BY <1>8, PressesAre DEF Rest
    <2> HIDE DEF y
    <2>3. ~y.refused /\ y.state \in {"Connect", "RealmList"} /\ y.op.status = "run"
      BY <2>1 DEF Listing
    <2>4. DriveGlueMgr(y, events) = Run(y)
      BY <1>1, <1>3, <1>4, <2>1, <2>3, DriveStill
    <2>5. Run(y) = y
      BY <1>1, <2>1, <2>3, RunQuiet
    <2>6. y = DriveGlueMgr(Pressed(m, press), events)
      BY <1>8, <2>4, <2>5 DEF y
    <2>7. y.logins \in FrameLogins /\ y.asks = <<[ask |-> "Refresh"]>>
      BY <1>5, <2>1, Appended DEF FrameLogins
    <2>8. FrameStays(y)
      BY <1>2, <1>4, <2>6, <2>7, FrameOffline
    <2> DEFINE z == Cleared(y)
    <2>9. /\ z.logins = <<>> /\ z.asks = <<>> /\ z.state = y.state /\ z.authFinal = y.authFinal
          /\ z.connected = y.connected /\ z.reconnect = y.reconnect /\ z.op = y.op
          /\ z.refused = y.refused
      BY <2>1, ClearedIs
    <2>10. m' = z
      BY <2>8 DEF FrameStays
    <2> HIDE DEF z
    <2>11. out' = <<[ask |-> "Refresh"]>>
      BY <2>1, <2>7, <2>8, SendsAre DEF FrameStays
    <2>12. Listing(m') /\ Resting(m') /\ m'.asks = <<>>
      BY <2>1, <2>9, <2>10 DEF Listing, Resting
    <2>13. ListAsked'
      BY <2>2, <2>8, <2>11, <2>12 DEF ListAsked, FrameStays, Rest, NoAsk, Home, OneAsked
    <2> QED BY <2>8, <2>12, <2>13 DEF Talk, Offline, FrameStays
  <1>9. CASE press = "CloseList"
    <2> DEFINE y == Pressed(m, "CloseList")
    <2>1. /\ y \in Mgrs /\ Idling(y) /\ ~y.list /\ y.logins \in {<<>>, <<"Abandon">>} /\ y.asks = <<>>
          /\ ~y.reconnect /\ ~y.authFinal
      BY <1>1, <1>5, PressCloseList
    <2>2. pc = "park" /\ parkQ = <<>> /\ loginQ = <<>>
      BY <1>9, PressesAre DEF Rest, NoAsk
    <2> HIDE DEF y
    <2>3. DriveGlueMgr(y, events) = Run(y)
      BY <1>1, <1>3, <1>4, <2>1, DriveStill DEF Idling
    <2>4. Run(y) = y
      BY <1>1, <2>1, RunQuiet DEF Idling, Down
    <2>5. y = DriveGlueMgr(Pressed(m, press), events)
      BY <1>9, <2>3, <2>4 DEF y
    <2>6. y.logins \in FrameLogins
      BY <2>1 DEF FrameLogins
    <2>7. FrameStays(y)
      BY <1>2, <1>4, <2>1, <2>5, <2>6, FrameOffline
    <2> DEFINE z == Cleared(y)
    <2>8. /\ z.logins = <<>> /\ z.asks = <<>> /\ z.state = y.state /\ z.authFinal = y.authFinal
          /\ z.connected = y.connected /\ z.reconnect = y.reconnect /\ z.refused = y.refused
          /\ z.list = y.list
      BY <2>1, ClearedIs
    <2>9. m' = z
      BY <2>7 DEF FrameStays
    <2> HIDE DEF z
    <2>10. out' \in {<<>>, <<Bump, Close>>}
      BY <2>1, <2>7, SendsAre DEF FrameStays
    <2>11. Idling(m') /\ ~m'.list /\ Resting(m') /\ m'.asks = <<>>
      BY <2>1, <2>8, <2>9 DEF Idling, Down, Resting
    <2>12. Leftover(<<>>)
      BY LeftoverIs
    <2>13. Rest'
      BY <2>2, <2>7, <2>10, <2>11, <2>12 DEF Rest, FrameStays
    <2> QED BY <2>7, <2>11, <2>13 DEF Talk, Offline, FrameStays
  <1> QED BY <1>5, <1>6, <1>7, <1>8, <1>9, PressesAre DEF OrdinaryPresses

\* A dialog up that waits for an answer: no press of a conversation is offered.
LEMMA FrameWaits ==
    ASSUME TypeInv, Ordinary, NEW press, Pressing(press), m.state \notin {"Idle", "EnterWorld"},
           m.state = "Logon" => ~m.stands
    PROVE  press = "none" /\ Pressed(m, press) = m
  BY PressesAre, MgrIs DEF OrdinaryPresses

LEMMA FrameOfLogon ==
    ASSUME TypeInv, Ordinary, Talk, LogonAsked \/ LogonRuns, NEW press, Pressing(press), Frame(press)
    PROVE  Talk'
  <1>1. m \in Mgrs /\ 0 \in Links /\ events \in Seq(News)
    BY MgrIs
  <1>2. Home /\ LoggingOn(m) /\ Unheard \subseteq {Began} /\ m.asks = <<>>
    BY DEF LogonAsked, LogonRuns
  <1>3. client # "InWorld"
    BY <1>2 DEF Home
  <1>4. Pressed(m, press) = m
    BY <1>2, FrameWaits DEF LoggingOn, LogonUp
  <1>5. ~m.reconnect /\ ~m.authFinal /\ m.logins = <<>>
    BY DEF Talk, Resting
  <1>6. Silent({"Auth", "Lost", "Refused", "Connected", "LoggedOut"})
    BY <1>2 DEF Silent, Began, Stage
  <1> DEFINE y == DriveGlueMgr(m, events)
  <1>7. LoggingOn(y) /\ SameAsks(m, y)
    BY <1>1, <1>2, <1>3, <1>5, DriveLogging
  <1>8. y = DriveGlueMgr(Pressed(m, press), events)
    BY <1>4
  <1> HIDE DEF y
  <1>9. y.logins = <<>> /\ y.asks = <<>> /\ ~y.reconnect /\ ~y.authFinal
    BY <1>2, <1>5, <1>7 DEF SameAsks
  <1>10. /\ out' = <<>> /\ out = <<>> /\ Resting(m') /\ m'.asks = <<>>
         /\ LostLast' /\ Home' /\ Unheard' = {}
         /\ m'.state = y.state /\ m'.cells = y.cells /\ m'.connected = y.connected
         /\ m'.refused = y.refused /\ m'.list = y.list /\ m'.stands = y.stands
         /\ UNCHANGED <<pc, logonGen, dialGen, epoch, returns, gen, loginQ, parkQ>>
    BY <1>2, <1>6, <1>8, <1>9, FrameSame
  <1>11. LoggingOn(m')
    BY <1>7, <1>10 DEF LoggingOn, LogonUp
  <1>12. LogonAsked' \/ LogonRuns'
    BY <1>10, <1>11 DEF LogonAsked, LogonRuns
  <1> QED BY <1>10, <1>12 DEF Talk, Offline

\* A frame that leaves the logon dialog standing, its logon over.
LEMMA FrameStands ==
    ASSUME TypeInv, Ordinary, NEW press, Pressing(press), Frame(press), Home,
           Silent({"Auth", "Lost", "Refused", "Connected", "LoggedOut"}),
           ~m.reconnect, ~m.authFinal, m.logins = <<>>, m.asks = <<>>,
           pc = "login", loginQ = <<>>, Leftover(parkQ),
           NEW y, y = DriveGlueMgr(Pressed(m, press), events), StandsUp(y), SameAsks(m, y)
    PROVE  LogonStands' /\ Resting(m') /\ LostLast'
  <1>1. y.logins = <<>> /\ y.asks = <<>> /\ ~y.reconnect /\ ~y.authFinal
    BY DEF SameAsks
  <1>2. /\ out' = <<>> /\ Resting(m') /\ m'.asks = <<>> /\ LostLast' /\ Home' /\ Unheard' = {}
        /\ m'.state = y.state /\ m'.cells = y.cells /\ m'.connected = y.connected
        /\ m'.refused = y.refused /\ m'.list = y.list /\ m'.stands = y.stands
        /\ UNCHANGED <<pc, loginQ, parkQ>>
    BY <1>1, FrameSame
  <1>3. StandsUp(m')
    BY <1>2 DEF StandsUp, LogonUp
  <1> QED BY <1>2, <1>3 DEF LogonStands

LEMMA FrameOfLogonFailed ==
    ASSUME TypeInv, Ordinary, Talk, LogonFailed, NEW press, Pressing(press), Frame(press)
    PROVE  Talk'
  <1>1. m \in Mgrs /\ 0 \in Links /\ events \in Seq(News)
    BY MgrIs
  <1>f. PICK f \in LogonFailures : f \in Unheard /\ Unheard \subseteq {Began, f}
    BY DEF LogonFailed
  <1>2. Home /\ LoggingOn(m) /\ m.asks = <<>> /\ f.kind = "Failed"
        /\ pc = "login" /\ out = <<>> /\ loginQ = <<>> /\ Leftover(parkQ)
    BY DEF LogonFailed, LogonFailures
  <1>3. client # "InWorld"
    BY <1>2 DEF Home
  <1>4. Pressed(m, press) = m
    BY <1>2, FrameWaits DEF LoggingOn, LogonUp
  <1>5. ~m.reconnect /\ ~m.authFinal /\ m.logins = <<>>
    BY DEF Talk, Resting
  <1>6. Silent({"Auth", "Lost", "Refused", "Connected", "LoggedOut"})
    BY <1>f, <1>2 DEF Silent, Began, Stage
  <1> DEFINE y == DriveGlueMgr(m, events)
  <1>7. y = DriveGlueMgr(Pressed(m, press), events)
    BY <1>4
  <1>8. CASE f.why = "failed"
    <2>1. /\ Down(y) /\ ~y.list /\ ~y.refused /\ y.logins = <<"CloseLink", "CloseLink">>
          /\ y.asks = m.asks /\ ~y.reconnect /\ ~y.authFinal
      BY <1>f, <1>1, <1>2, <1>3, <1>5, <1>8, DriveLogonFailed
    <2> HIDE DEF y
    <2>2. y.logins \in FrameLogins
      BY <2>1 DEF FrameLogins
    <2>3. FrameStays(y) /\ y \in Mgrs
      BY <1>2, <1>6, <1>7, <2>1, <2>2, FrameOffline
    <2> DEFINE z == Cleared(y)
    <2>4. /\ z.logins = <<>> /\ z.asks = <<>> /\ z.state = y.state /\ z.authFinal = y.authFinal
          /\ z.connected = y.connected /\ z.reconnect = y.reconnect
          /\ z.refused = y.refused /\ z.list = y.list
      BY <2>3, ClearedIs
    <2>5. m' = z
      BY <2>3 DEF FrameStays
    <2> HIDE DEF z
    <2>6. out' = <<Close, Close>>
      BY <1>2, <2>1, <2>3, SendsAre DEF FrameStays
    <2>7. Leftover(out')
      BY <2>6, LeftoverIs
    <2>8. Idling(m') /\ Resting(m') /\ m'.asks = <<>> /\ ~m'.list
      BY <2>1, <2>4, <2>5 DEF Idling, Down, Resting
    <2>9. Rest'
      BY <1>2, <2>3, <2>7, <2>8 DEF Rest, FrameStays
    <2> QED BY <2>3, <2>8, <2>9 DEF Talk, Offline, FrameStays
  <1>9. CASE f.why # "failed"
    <2>1. StandsUp(y) /\ SameAsks(m, y)
      BY <1>f, <1>1, <1>2, <1>3, <1>5, <1>9, DriveLogonStands
    <2> HIDE DEF y
    <2>2. LogonStands' /\ Resting(m') /\ LostLast'
      BY <1>2, <1>5, <1>6, <1>7, <2>1, FrameStands
    <2> QED BY <2>2 DEF Talk, Offline
  <1> QED BY <1>8, <1>9

\* The dialog that stands does so until the player dismisses it.
LEMMA FrameOfStands ==
    ASSUME TypeInv, Ordinary, Talk, LogonStands, NEW press, Pressing(press), Frame(press)
    PROVE  Talk'
  <1>1. m \in Mgrs /\ 0 \in Links /\ events \in Seq(News) /\ Pressed(m, "none") = m
    BY MgrIs
  <1>2. Home /\ StandsUp(m) /\ m.asks = <<>> /\ Unheard = {}
        /\ pc = "login" /\ out = <<>> /\ loginQ = <<>> /\ Leftover(parkQ)
    BY DEF LogonStands
  <1>3. client # "InWorld"
    BY <1>2 DEF Home
  <1>5. ~m.reconnect /\ ~m.authFinal /\ m.logins = <<>> /\ Resting(m)
    BY DEF Talk, Resting
  <1>6. Silent({"Auth", "Lost", "Refused", "Connected", "LoggedOut"}) /\ Unheard \subseteq {Entry}
    BY <1>2 DEF Silent
  <1>7. press \in {"none", "Dismiss"}
    BY <1>2, PressesAre DEF StandsUp, LogonUp, OrdinaryPresses
  <1>8. CASE press = "none"
    <2>1. DriveGlueMgr(m, events) = Run(m)
      BY <1>1, <1>2, <1>3, <1>5, <1>6, DriveStill DEF StandsUp, LogonUp
    <2>2. Run(m) = m
      BY <1>1, <1>2, <1>5, RunQuiet DEF StandsUp, LogonUp
    <2>3. m = DriveGlueMgr(Pressed(m, press), events)
      BY <1>1, <1>8, <2>1, <2>2
    <2>4. SameAsks(m, m)
      BY DEF SameAsks
    <2>5. LogonStands' /\ Resting(m') /\ LostLast'
      BY <1>2, <1>5, <1>6, <2>3, <2>4, FrameStands
    <2> QED BY <2>5 DEF Talk, Offline
  <1>9. CASE press = "Dismiss"
    <2> DEFINE y == Pressed(m, "Dismiss")
    <2>1. /\ y \in Mgrs /\ Idling(y) /\ ~y.list /\ y.logins = <<"Abandon">> /\ y.asks = <<>>
          /\ ~y.reconnect /\ ~y.authFinal
      BY <1>1, <1>2, <1>5, PressDismiss
    <2> HIDE DEF y
    <2>3. DriveGlueMgr(y, events) = Run(y)
      BY <1>1, <1>3, <1>6, <2>1, DriveStill DEF Idling
    <2>4. Run(y) = y
      BY <1>1, <2>1, RunQuiet DEF Idling, Down
    <2>5. y = DriveGlueMgr(Pressed(m, press), events)
      BY <1>9, <2>3, <2>4 DEF y
    <2>6. y.logins \in FrameLogins
      BY <2>1 DEF FrameLogins
    <2>7. FrameStays(y)
      BY <1>2, <1>6, <2>1, <2>5, <2>6, FrameOffline
    <2> DEFINE z == Cleared(y)
    <2>8. /\ z.logins = <<>> /\ z.asks = <<>> /\ z.state = y.state /\ z.authFinal = y.authFinal
          /\ z.connected = y.connected /\ z.reconnect = y.reconnect /\ z.refused = y.refused
          /\ z.list = y.list
      BY <2>1, ClearedIs
    <2>9. m' = z
      BY <2>7 DEF FrameStays
    <2> HIDE DEF z
    <2>10. out' = <<Bump, Close>>
      BY <2>1, <2>7, SendsAre DEF FrameStays
    <2>11. Idling(m') /\ ~m'.list /\ Resting(m') /\ m'.asks = <<>>
      BY <2>1, <2>8, <2>9 DEF Idling, Down, Resting
    <2>12. Rest'
      BY <1>2, <2>7, <2>10, <2>11 DEF Rest, FrameStays
    <2> QED BY <2>7, <2>11, <2>12 DEF Talk, Offline, FrameStays
  <1> QED BY <1>7, <1>8, <1>9

LEMMA FrameOfList ==
    ASSUME TypeInv, Ordinary, Talk, LogonListed \/ ListTold, NEW press, Pressing(press), Frame(press)
    PROVE  Talk'
  <1>1. m \in Mgrs /\ 0 \in Links /\ events \in Seq(News)
    BY MgrIs
  <1>2. Home /\ m.asks = <<>> /\ pc = "park" /\ parkQ = <<>> /\ loginQ = <<>>
    BY DEF LogonListed, ListTold, NoAsk
  <1>3. client # "InWorld"
    BY <1>2 DEF Home
  <1>4. ~m.reconnect /\ ~m.authFinal /\ m.logins = <<>>
    BY DEF Talk, Resting
  <1>5. Began.kind = "Stage" /\ \A r : List(r).kind = "List"
    BY DEF Began, Stage, List
  <1>6. CASE LogonListed
    <2>1. LoggingOn(m)
      BY <1>6 DEF LogonListed
    <2>2. PICK r \in Replies : List(r) \in Unheard /\ Unheard \subseteq {Began, List(r)}
      BY <1>6 DEF LogonListed
    <2>3. Silent({"Auth", "Lost", "Refused", "Connected", "LoggedOut"})
      BY <1>5, <2>2 DEF Silent
    <2>4. Pressed(m, press) = m /\ ~m.refused
      BY <2>1, FrameWaits DEF LoggingOn, LogonUp
    <2>5. PICK l \in Mgrs : SameAsks(m, l) /\ ListEnds(l, DriveGlueMgr(m, events))
      BY <1>1, <1>3, <1>4, <2>1, <2>2, DriveListed
    <2>6. l.logins = <<>> /\ l.asks = <<>> /\ ~l.reconnect /\ ~l.authFinal /\ ~l.refused
      BY <1>2, <1>4, <2>4, <2>5 DEF SameAsks
    <2> QED BY <1>2, <2>3, <2>4, <2>5, <2>6, ListEndsTalk
  <1>7. CASE ListTold
    <2>1. Listing(m)
      BY <1>7 DEF ListTold
    <2>2. PICK r \in Replies : Unheard = {List(r)}
      BY <1>7 DEF ListTold
    <2>3. Silent({"Auth", "Lost", "Refused", "Connected", "LoggedOut"})
      BY <1>5, <2>2 DEF Silent
    <2>4. Pressed(m, press) = m /\ ~m.refused
      BY <2>1, FrameWaits DEF Listing
    <2>5. ListEnds(m, DriveGlueMgr(m, events))
      BY <1>1, <1>3, <1>4, <2>1, <2>2, DriveListing
    <2> QED BY <1>2, <1>4, <2>3, <2>4, <2>5, ListEndsTalk
  <1> QED BY <1>6, <1>7

LEMMA FrameOfListAsked ==
    ASSUME TypeInv, Ordinary, Talk, ListAsked, NEW press, Pressing(press), Frame(press)
    PROVE  Talk'
  <1>1. m \in Mgrs /\ 0 \in Links /\ events \in Seq(News)
    BY MgrIs
  <1>2. Home /\ Listing(m) /\ m.asks = <<>> /\ Unheard \subseteq {Entry}
    BY DEF ListAsked
  <1>3. client # "InWorld" /\ m.state \in {"Connect", "RealmList"} /\ m.op.status = "run" /\ ~m.refused
    BY <1>2 DEF Home, Listing
  <1>4. Pressed(m, press) = m
    BY <1>3, FrameWaits
  <1>5. ~m.reconnect /\ ~m.authFinal /\ m.logins = <<>>
    BY DEF Talk, Resting
  <1>6. Silent({"Auth", "Lost", "Refused", "Connected", "LoggedOut"})
    BY DEF ListAsked, Silent
  <1>7. DriveGlueMgr(m, events) = Run(m) /\ Run(m) = m
    BY <1>1, <1>2, <1>3, <1>5, DriveStill, RunQuiet
  <1>8. /\ out' = <<>> /\ out = <<>> /\ Resting(m') /\ m'.asks = <<>>
        /\ LostLast' /\ Home' /\ Unheard' = {}
        /\ m'.state = m.state /\ m'.connected = m.connected /\ m'.op = m.op
        /\ m'.refused = m.refused
        /\ UNCHANGED <<pc, logonGen, dialGen, epoch, returns, gen, loginQ, parkQ>>
    BY <1>2, <1>4, <1>5, <1>6, <1>7, FrameSame
  <1>9. ListAsked'
    BY <1>2, <1>8 DEF ListAsked, OneAsked, Listing
  <1> QED BY <1>8, <1>9 DEF Talk, Offline

LEMMA FrameOfCall ==
    ASSUME TypeInv, Ordinary, Talk, Calling(m), Home, m.asks = <<>>, Unheard \subseteq {Hands},
           NEW press, Pressing(press), Frame(press)
    PROVE  /\ out' = <<>> /\ out = <<>> /\ Resting(m') /\ m'.asks = <<>> /\ Calling(m')
           /\ LostLast' /\ Home' /\ Unheard' = {}
           /\ UNCHANGED <<pc, logonGen, dialGen, epoch, returns, gen, loginQ, parkQ>>
  <1>1. m \in Mgrs /\ 0 \in Links /\ events \in Seq(News)
    BY MgrIs
  <1>2. client # "InWorld" /\ m.state = "Connect"
    BY DEF Home, Calling
  <1>3. Pressed(m, press) = m
    BY <1>2, FrameWaits
  <1>4. ~m.reconnect /\ ~m.authFinal /\ m.logins = <<>>
    BY DEF Talk, Resting
  <1>5. Silent({"Auth", "Lost", "Refused", "Connected", "LoggedOut"})
    BY DEF Silent, Hands, Stage
  <1>6. DriveGlueMgr(m, events) = m
    BY <1>1, <1>2, <1>4, DriveCalling
  <1>7. /\ out' = <<>> /\ out = <<>> /\ Resting(m') /\ m'.asks = <<>>
        /\ LostLast' /\ Home' /\ Unheard' = {}
        /\ m'.state = m.state /\ m'.connected = m.connected /\ m'.op = m.op
        /\ m'.refused = m.refused
        /\ UNCHANGED <<pc, logonGen, dialGen, epoch, returns, gen, loginQ, parkQ>>
    BY <1>3, <1>4, <1>5, <1>6, FrameSame
  <1>8. Calling(m')
    BY <1>7 DEF Calling
  <1> QED BY <1>7, <1>8

LEMMA FrameOfReached ==
    ASSUME TypeInv, Ordinary, Talk, Reached(m, Unheard), Home, m.asks = <<>>,
           NEW press, Pressing(press), Frame(press)
    PROVE  /\ out' = <<>> /\ out = <<>> /\ Resting(m') /\ m'.asks = <<>> /\ Queueing(m')
           /\ LostLast' /\ Home' /\ Unheard' = {}
           /\ UNCHANGED <<pc, logonGen, dialGen, epoch, returns, gen, loginQ, parkQ>>
  <1>1. m \in Mgrs /\ 0 \in Links /\ events \in Seq(News)
    BY MgrIs
  <1>2. client # "InWorld" /\ m.state = "Connect"
    BY DEF Home, Calling, Reached, Queueing
  <1>3. Pressed(m, press) = m
    BY <1>2, FrameWaits
  <1>4. ~m.reconnect /\ ~m.authFinal /\ m.logins = <<>>
    BY DEF Talk, Resting
  <1>5. Silent({"Auth", "Lost", "Refused", "Connected", "LoggedOut"})
    BY DEF Silent, Reached, Hands, Linked, Waits, Stage
  <1> DEFINE y == DriveGlueMgr(m, events)
  <1>6. Queueing(y) /\ SameAsks(m, y)
    BY <1>1, <1>2, <1>4, DriveReached
  <1>7. y = DriveGlueMgr(Pressed(m, press), events)
    BY <1>3
  <1> HIDE DEF y
  <1>8. y.logins = <<>> /\ y.asks = <<>> /\ ~y.reconnect /\ ~y.authFinal
    BY <1>4, <1>6 DEF SameAsks
  <1>9. /\ out' = <<>> /\ out = <<>> /\ Resting(m') /\ m'.asks = <<>>
        /\ LostLast' /\ Home' /\ Unheard' = {}
        /\ m'.state = y.state /\ m'.connected = y.connected /\ m'.op = y.op
        /\ m'.refused = y.refused
        /\ UNCHANGED <<pc, logonGen, dialGen, epoch, returns, gen, loginQ, parkQ>>
    BY <1>5, <1>7, <1>8, FrameSame
  <1>10. Queueing(m')
    BY <1>6, <1>9 DEF Queueing
  <1> QED BY <1>9, <1>10

LEMMA FrameOfDial ==
    ASSUME TypeInv, Ordinary, Talk, DialAsked \/ DialRuns, NEW press, Pressing(press), Frame(press)
    PROVE  Talk'
  <1>1. Home /\ m.asks = <<>>
    BY DEF DialAsked, DialRuns
  <1>2. CASE Calling(m) /\ Unheard \subseteq {Hands}
    <2>1. /\ out' = <<>> /\ out = <<>> /\ Resting(m') /\ m'.asks = <<>> /\ Calling(m')
          /\ LostLast' /\ Home' /\ Unheard' = {}
          /\ UNCHANGED <<pc, logonGen, dialGen, epoch, returns, gen, loginQ, parkQ>>
      BY <1>1, <1>2, FrameOfCall
    <2>2. CASE DialAsked
      <3>1. DialAsked'
        BY <2>1, <2>2 DEF DialAsked, OneAsked, Dial
      <3> QED BY <2>1, <3>1 DEF Talk, Offline
    <2>3. CASE DialRuns /\ pc \in {"dial", "handshake", "connecting", "failWorld"}
      <3>1. Dialled(m', {})
        BY <2>1 DEF Dialled
      <3>2. Dialled(m', Unheard')
        BY <2>1, <3>1
      <3> HIDE DEF Unheard
      <3>3. DialRuns'
        BY <2>1, <2>3, <3>2 DEF DialRuns, NoAsk
      <3> QED BY <2>1, <3>3 DEF Talk, Offline
    <2>4. CASE DialRuns /\ pc \notin {"dial", "handshake", "connecting", "failWorld"}
      <3>1. Reached(m, Unheard)
        BY <2>4 DEF DialRuns
      <3>2. FALSE
        BY <1>2, <3>1 DEF Reached, Calling, Queueing, Hands, Linked, Stage
      <3> QED BY <3>2
    <2> QED BY <2>2, <2>3, <2>4
  <1>3. CASE Reached(m, Unheard)
    <2>1. /\ out' = <<>> /\ out = <<>> /\ Resting(m') /\ m'.asks = <<>> /\ Queueing(m')
          /\ LostLast' /\ Home' /\ Unheard' = {}
          /\ UNCHANGED <<pc, logonGen, dialGen, epoch, returns, gen, loginQ, parkQ>>
      BY <1>1, <1>3, FrameOfReached
    <2>2. DialRuns /\ pc \in {"failWorld", "asked", "queue", "drainWorld", "announce"}
      BY <1>3 DEF DialAsked, DialRuns, Reached, Queueing, Calling, Hands, Linked, Stage
    <2>3. Reached(m', {}) /\ Dialled(m', {})
      BY <2>1 DEF Dialled, Reached
    <2>4. Reached(m', Unheard') /\ Dialled(m', Unheard')
      BY <2>1, <2>3
    <2>5. DialRuns'
      BY <2>1, <2>2, <2>4 DEF DialRuns, NoAsk
    <2> QED BY <2>1, <2>5 DEF Talk, Offline
  <1> QED BY <1>2, <1>3 DEF DialAsked, DialRuns, Dialled

LEMMA FrameOfDialFailed ==
    ASSUME TypeInv, Ordinary, Talk, DialFailed, NEW press, Pressing(press), Frame(press)
    PROVE  Talk'
  <1>1. m \in Mgrs /\ 0 \in Links /\ events \in Seq(News)
    BY MgrIs
  <1>2. Home /\ m.asks = <<>> /\ pc = "park" /\ parkQ = <<>> /\ loginQ = <<>>
    BY DEF DialFailed, NoAsk
  <1>3. PICK f \in DialFailures : f \in Unheard /\ Dialled(m, Unheard \ {f})
    BY DEF DialFailed
  <1>4. client # "InWorld" /\ m.state = "Connect" /\ ~m.refused
    BY <1>2, <1>3 DEF Home, Dialled, Reached, Calling, Queueing
  <1>5. Pressed(m, press) = m
    BY <1>4, FrameWaits
  <1>6. ~m.reconnect /\ ~m.authFinal /\ m.logins = <<>>
    BY DEF Talk, Resting
  <1>7. Silent({"Auth", "Lost", "Refused", "Connected", "LoggedOut"})
    <2>1. \A e \in Unheard : e = f \/ e \in {Hands, Linked, Waits}
      BY <1>3 DEF Dialled, Reached
    <2>2. f.kind = "Failed"
      BY DEF DialFailures
    <2> QED BY <2>1, <2>2 DEF Silent, Hands, Linked, Waits, Stage
  <1>8. ListEnds(m, DriveGlueMgr(m, events))
    BY <1>1, <1>3, <1>4, <1>6, DriveDialFailed
  <1> QED BY <1>2, <1>4, <1>5, <1>6, <1>7, <1>8, ListEndsTalk

----------------------------------------------------------------------------
(* The frames of a session.                                                *)

\* What a frame of a session that stands does, its manager driven to y.
FrameGoes(y) ==
    /\ Resting(m') /\ m'.asks = <<>> /\ m'.state = y.state /\ m'.op = y.op /\ m'.refused = y.refused
    /\ m'.connected = y.connected /\ m'.screen = y.screen /\ m'.list = y.list
    /\ m'.selected = y.selected /\ m'.link = y.link /\ m'.rows = y.rows
    /\ Unheard' = {} /\ LostLast' /\ out' = Sent(y.asks) \o Answers(<<>>)
    /\ UNCHANGED <<pc, logonGen, dialGen, epoch, returns, gen, loginQ, parkQ, client>>

LEMMA EdgesAre ==
    /\ Silent({"Lost", "Refused", "Connected", "LoggedOut"}) => EdgesNext(events) = "none"
    /\ Silent({"Lost", "Refused"}) /\ Entry \in Unheard => EdgesNext(events) = "InWorld"
    /\ Silent({"Lost"}) /\ Refusal \in Unheard => EdgesNext(events) = "CharSelect"
    /\ Silent({"Lost", "Refused", "Connected"}) /\ Logged \in Unheard => EdgesNext(events) = "CharSelect"
  <1>1. \A kind : Silent({kind}) => ~Some(events, kind)
    BY SilentSome
  <1>2. \A e \in Unheard : Some(events, e.kind)
    BY UnheardSome
  <1>3. Entry.kind = "Connected" /\ Refusal.kind = "Refused" /\ Logged.kind = "LoggedOut"
    BY DEF Entry, Refusal, Logged
  <1>4. /\ Entry \in Unheard => Some(events, "Connected")
        /\ Refusal \in Unheard => Some(events, "Refused")
        /\ Logged \in Unheard => Some(events, "LoggedOut")
    BY <1>2, <1>3
  <1>5. ASSUME NEW kinds, Silent(kinds), NEW kind \in kinds
        PROVE  ~Some(events, kind)
    <2>1. Silent({kind})
      BY <1>5 DEF Silent
    <2> QED BY <1>1, <2>1
  <1>6. Silent({"Lost", "Refused", "Connected", "LoggedOut"}) => EdgesNext(events) = "none"
    BY <1>5 DEF EdgesNext
  <1>7. Silent({"Lost", "Refused"}) /\ Entry \in Unheard => EdgesNext(events) = "InWorld"
    BY <1>4, <1>5 DEF EdgesNext
  <1>8. Silent({"Lost"}) /\ Refusal \in Unheard => EdgesNext(events) = "CharSelect"
    BY <1>4, <1>5 DEF EdgesNext
  <1>9. Silent({"Lost", "Refused", "Connected"}) /\ Logged \in Unheard => EdgesNext(events) = "CharSelect"
    BY <1>4, <1>5 DEF EdgesNext
  <1> QED BY <1>6, <1>7, <1>8, <1>9

LEMMA FrameOnline ==
    ASSUME TypeInv, Ordinary, NEW press, Pressing(press), Frame(press),
           NEW y, y = DriveGlueMgr(Pressed(m, press), events),
           y.logins = <<>>, ~y.reconnect, ~y.authFinal, FrameAsks(y.asks, press),
           Silent({"Lost"}), \A e \in Unheard : e.kind = "Auth" => e.gen = gen,
           pick = NoPick \/ Silent({"List", "Roster", "Auth"}),
           ~Silent({"Auth"}) => Silent({"Connected", "Refused", "LoggedOut"})
    PROVE  /\ FrameGoes(y) /\ out = <<>> /\ next = "none" /\ y \in Mgrs
           /\ next' = IF client = "Login" /\ ~Silent({"Auth"}) THEN "CharSelect" ELSE EdgesNext(events)
           /\ pick' = IF Silent({"LoggedOut", "Refused"}) THEN PickSent(y.asks, pick) ELSE NoPick
  <1>1. press \in Presses \cup {"none"} /\ Races = {}
    BY PressesAre DEF Ordinary
  <1>2. y \in Mgrs
    BY <1>1, DrivenIs
  <1>3. y.logins \in FrameLogins
    BY DEF FrameLogins
  <1>4. Framed(y)
    BY <1>1, <1>2, <1>3, FrameIs
  <1>5. ~Some(events, "Lost") /\ (Some(events, "Auth") <=> ~Silent({"Auth"}))
    <2>1. ~Some(events, "Lost") /\ (Silent({"Auth"}) => ~Some(events, "Auth"))
      BY SilentSome
    <2>2. ASSUME ~Silent({"Auth"})
          PROVE  Some(events, "Auth")
      <3>1. PICK e \in Unheard : e.kind = "Auth"
        BY <2>2 DEF Silent
      <3> QED BY <3>1, UnheardSome
    <2> QED BY <2>1, <2>2
  <1>6. FrameNext = IF client = "Login" /\ ~Silent({"Auth"}) THEN "CharSelect" ELSE EdgesNext(events)
    BY <1>5 DEF FrameNext
  <1>7. Returned(events) > 0 <=> ~Silent({"LoggedOut", "Refused"})
    <2>1. events \in Seq(News)
      BY MgrIs
    <2>2. Returned(events) \in Nat /\ (Returned(events) = 0 <=> Silent({"LoggedOut", "Refused"}))
      BY <2>1, SilentReturned
    <2> QED BY <2>2
  <1>8. pick' = IF Silent({"LoggedOut", "Refused"}) THEN PickSent(y.asks, pick) ELSE NoPick
    BY <1>4, <1>5, <1>7 DEF Framed
  <1>9. Unheard' = {} /\ LostLast'
    BY <1>4, DrainedChannel DEF Framed
  <1> DEFINE z == Cleared(y)
  <1>10. /\ z.logins = <<>> /\ z.asks = <<>> /\ z.state = y.state /\ z.authFinal = y.authFinal
         /\ z.connected = y.connected /\ z.reconnect = y.reconnect /\ z.op = y.op
         /\ z.selected = y.selected /\ z.link = y.link /\ z.rows = y.rows
         /\ z.refused = y.refused /\ z.list = y.list /\ z.screen = y.screen
    BY <1>2, ClearedIs
  <1>11. m' = z
    BY <1>4 DEF Framed
  <1> HIDE DEF z
  <1>12. FrameGoes(y)
    BY <1>4, <1>9, <1>10, <1>11 DEF FrameGoes, Resting, Framed
  <1> QED BY <1>2, <1>4, <1>6, <1>8, <1>12 DEF Framed, Frame

\* What a manager that stays on its link becomes.
LEMMA GoesJoined ==
    ASSUME NEW y, FrameGoes(y), Joined(y, epoch)
    PROVE  /\ Joined(m', epoch') /\ epoch' = epoch
           /\ CharListing(y) => CharListing(m')
           /\ y.asks = <<>> => out' = <<>>
           /\ y.asks = <<RosterAsk>> => out' = <<RosterAsk>>
  <1>1. epoch' = epoch /\ Joined(m', epoch) /\ (CharListing(y) => CharListing(m'))
    BY DEF FrameGoes, Joined, CharListing
  <1>2. Sent(<<>>) \o Answers(<<>>) = <<>> /\ Sent(<<RosterAsk>>) \o Answers(<<>>) = <<RosterAsk>>
    BY SendsAre DEF RosterAsk
  <1>3. out' = Sent(y.asks) \o Answers(<<>>)
    BY DEF FrameGoes
  <1>4. (y.asks = <<>> => out' = <<>>) /\ (y.asks = <<RosterAsk>> => out' = <<RosterAsk>>)
    BY <1>2, <1>3
  <1> QED BY <1>1, <1>4

LEMMA NoPickSent ==
    ASSUME NEW asks, asks = <<>> \/ \E a \in {"Dial", "Enumerate", "Refresh"} : asks = <<[ask |-> a]>>, NEW kept
    PROVE  PickSent(asks, kept) = kept
  BY PickSentIs

\* The session's authentication: the roster is asked for.
LEMMA FrameOfAuth ==
    ASSUME TypeInv, Ordinary, Talk, AuthTold, NEW press, Pressing(press), Frame(press)
    PROVE  Talk'
  <1>1. m \in Mgrs /\ 0 \in Links /\ events \in Seq(News) /\ epoch \in Links
    BY MgrIs
  <1>2. /\ Home /\ m.asks = <<>> /\ pc = "charPark" /\ parkQ = <<>> /\ loginQ = <<>>
        /\ AuthOf \in Unheard /\ Reached(m, Unheard \ {AuthOf})
    BY DEF AuthTold, NoAsk
  <1>3. client = "Login" /\ m.state = "Connect" /\ ~m.refused /\ pick = NoPick
    BY <1>2 DEF Home, Reached, Calling, Queueing
  <1>4. Pressed(m, press) = m
    BY <1>3, FrameWaits
  <1>5. ~m.reconnect /\ ~m.authFinal /\ m.logins = <<>>
    BY DEF Talk, Resting
  <1>6. AuthOf.kind = "Auth" /\ AuthOf.gen = gen
    BY DEF AuthOf
  <1>7. \A e \in Unheard : e = AuthOf \/ e.kind \in {"Stage", "Queued"}
    BY <1>2 DEF Reached, Hands, Linked, Waits, Stage
  <1>8. /\ Silent({"Lost"}) /\ Silent({"Connected", "Refused", "LoggedOut"}) /\ ~Silent({"Auth"})
        /\ Silent({"LoggedOut", "Refused"})
        /\ \A e \in Unheard : e.kind = "Auth" => e.gen = gen
    BY <1>2, <1>6, <1>7 DEF Silent
  <1> DEFINE y == DriveGlueMgr(m, events)
  <1>9. Asks(m, y, "Enumerate") /\ Joined(y, epoch) /\ CharListing(y)
    BY <1>1, <1>2, <1>3, <1>5, DriveAuth
  <1>10. y = DriveGlueMgr(Pressed(m, press), events)
    BY <1>4
  <1> HIDE DEF y
  <1>11. y.logins = <<>> /\ ~y.reconnect /\ ~y.authFinal /\ ~y.refused /\ y.asks = <<RosterAsk>>
    BY <1>2, <1>3, <1>5, <1>9, Appended DEF Asks, RosterAsk
  <1>12. FrameAsks(y.asks, press)
    BY <1>11 DEF FrameAsks, RosterAsk
  <1>13. /\ FrameGoes(y) /\ out = <<>> /\ next = "none" /\ y \in Mgrs /\ next' = "CharSelect"
         /\ pick' = PickSent(y.asks, pick)
    BY <1>3, <1>8, <1>10, <1>11, <1>12, FrameOnline
  <1>14. pick' = NoPick
    BY <1>3, <1>11, <1>13, NoPickSent DEF RosterAsk
  <1>15. /\ Joined(m', epoch') /\ epoch' = epoch /\ CharListing(m') /\ out' = <<RosterAsk>>
    BY <1>9, <1>11, <1>13, GoesJoined
  <1>16. RosterAwaited'
    BY <1>2, <1>3, <1>11, <1>13, <1>14, <1>15 DEF RosterAwaited, Choosing, OneAsked, FrameGoes
  <1> QED BY <1>13, <1>16 DEF Talk, Online, FrameGoes

\* At the selection the only press of a conversation is a pick, and it does nothing once made.
LEMMA PressesJoined ==
    ASSUME TypeInv, Ordinary, Talk, NEW press, Pressing(press), Joined(m, epoch), m.asks = <<>>,
           m.state # "Logon"
    PROVE  /\ press \in {"none", "EnterWorld"}
           /\ press = "none" \/ m.state \notin {"Idle"} => Pressed(m, press) = m
           /\ press = "EnterWorld" => client # "InWorld" /\ m.rows = epoch /\ m.state \in {"Idle", "EnterWorld"}
           /\ press = "EnterWorld" /\ m.state = "Idle" =>
                 LET x == Pressed(m, press)
                 IN /\ x \in Mgrs /\ x.state = "EnterWorld" /\ x.asks = <<PickOf>> /\ x.logins = <<>>
                    /\ ~x.reconnect /\ ~x.authFinal /\ x.refused = m.refused /\ Joined(x, epoch)
  <1>1. m \in Mgrs /\ 0 \in Links /\ epoch \in Links /\ Pressed(m, "none") = m
    BY MgrIs
  <1>2. Resting(m) /\ m.logins = <<>> /\ ~m.reconnect /\ ~m.authFinal
    BY DEF Talk, Resting
  <1>3. heard + Returned(events) = returns /\ returns \in Eras /\ heard + Returned(events) \in Eras
    BY DEF TypeInv, AppInv, ThreadInv, Eras
  <1>4. /\ m.connected /\ m.screen = "charselect" /\ ~m.list /\ m.selected
        /\ m.link = epoch /\ m.rows \in {0, epoch}
    BY DEF Joined
  <1>5. press \in {"none", "EnterWorld"}
    BY <1>4, PressesAre DEF OrdinaryPresses
  <1>6. press = "EnterWorld" => client # "InWorld" /\ m.rows = epoch /\ m.state \in {"Idle", "EnterWorld"}
    BY <1>4, PressesAre
  <1> DEFINE x == Pressed(m, "EnterWorld")
             p == [ask |-> "Play", epoch |-> m.rows, era |-> heard + Returned(events)]
  <1>7. /\ m.state = "EnterWorld" => x = m
        /\ m.state = "Idle" =>
              /\ x \in Mgrs /\ x.state = "EnterWorld" /\ x.asks = <<p>>
              /\ x.logins = m.logins /\ x.reconnect = m.reconnect /\ x.authFinal = m.authFinal
              /\ x.refused = m.refused /\ x.connected = m.connected /\ x.screen = m.screen
              /\ x.list = m.list /\ x.selected = m.selected /\ x.link = m.link /\ x.rows = m.rows
    BY <1>1, <1>2, <1>3, <1>4, PressEnterWorld
  <1>8. press = "EnterWorld" => p = PickOf
    BY <1>3, <1>6 DEF PickOf
  <1> HIDE DEF x, p
  <1>9. press = "none" \/ m.state \notin {"Idle"} => Pressed(m, press) = m
    BY <1>1, <1>5, <1>6, <1>7 DEF x
  <1>10. ASSUME press = "EnterWorld", m.state = "Idle"
         PROVE  /\ x \in Mgrs /\ x.state = "EnterWorld" /\ x.asks = <<PickOf>> /\ x.logins = <<>>
                /\ ~x.reconnect /\ ~x.authFinal /\ x.refused = m.refused /\ Joined(x, epoch)
                /\ x = Pressed(m, press)
    <2>1. x.asks = <<PickOf>>
      BY <1>7, <1>8, <1>10
    <2>2. Joined(x, epoch)
      BY <1>4, <1>7, <1>10 DEF Joined
    <2>3. x = Pressed(m, press)
      BY <1>10 DEF x
    <2> QED BY <1>2, <1>7, <1>10, <2>1, <2>2, <2>3
  <1> QED BY <1>5, <1>6, <1>9, <1>10

\* A quiet frame of the selection, its manager driven to y.
LEMMA FrameChooses ==
    ASSUME TypeInv, Ordinary, Talk, Choosing, Silent({"Lost", "Auth", "Refused", "Connected", "LoggedOut"}),
           NEW press, Pressing(press), Frame(press),
           NEW y, y = DriveGlueMgr(Pressed(m, press), events), y.logins = <<>>, ~y.reconnect, ~y.authFinal,
           ~y.refused, Joined(y, epoch),
           y.asks \in {<<>>, <<RosterAsk>>}
    PROVE  /\ FrameGoes(y) /\ out = <<>> /\ y \in Mgrs /\ Choosing'
           /\ y.asks = <<>> => out' = <<>>
           /\ y.asks = <<RosterAsk>> => out' = <<RosterAsk>>
           /\ CharListing(y) => CharListing(m')
  <1>1. FrameAsks(y.asks, press)
    BY DEF FrameAsks, RosterAsk
  <1>2. pick = NoPick /\ next = "none" /\ client = "CharSelect"
    BY DEF Choosing, Frame
  <1>3. /\ Silent({"Lost"}) /\ Silent({"Auth"}) /\ Silent({"LoggedOut", "Refused"})
        /\ Silent({"Lost", "Refused", "Connected", "LoggedOut"})
        /\ \A e \in Unheard : e.kind = "Auth" => e.gen = gen
    BY DEF Silent
  <1>4. /\ FrameGoes(y) /\ out = <<>> /\ y \in Mgrs /\ next' = EdgesNext(events)
        /\ pick' = PickSent(y.asks, pick)
    BY <1>1, <1>2, <1>3, FrameOnline
  <1>5. next' = "none"
    BY <1>3, <1>4, EdgesAre
  <1>6. pick' = NoPick
    BY <1>2, <1>4, NoPickSent DEF RosterAsk
  <1>7. /\ Joined(m', epoch') /\ epoch' = epoch /\ (CharListing(y) => CharListing(m'))
        /\ y.asks = <<>> => out' = <<>>
        /\ y.asks = <<RosterAsk>> => out' = <<RosterAsk>>
    BY <1>4, GoesJoined
  <1>8. Choosing'
    BY <1>2, <1>4, <1>5, <1>6, <1>7 DEF Choosing, FrameGoes
  <1> QED BY <1>4, <1>7, <1>8

LEMMA FrameOfRoster ==
    ASSUME TypeInv, Ordinary, Talk, RosterAwaited \/ RosterTold, NEW press, Pressing(press), Frame(press)
    PROVE  Talk'
  <1>1. m \in Mgrs /\ 0 \in Links /\ events \in Seq(News) /\ epoch \in Links
    BY MgrIs
  <1>2. Choosing /\ CharListing(m)
    BY DEF RosterAwaited, RosterTold
  <1>3. client # "InWorld" /\ m.state = "CharList" /\ m.op.status = "run" /\ ~m.refused /\ Joined(m, epoch)
    BY <1>2 DEF Choosing, CharListing, Frame
  <1>4. Pressed(m, press) = m
    BY <1>3, FrameWaits
  <1>5. ~m.reconnect /\ ~m.authFinal /\ m.logins = <<>>
    BY DEF Talk, Resting
  <1>6. CASE RosterAwaited
    <2>1. Unheard = {} /\ m.asks \in {<<>>, <<RosterAsk>>}
      BY <1>6 DEF RosterAwaited
    <2>2. Silent({"Lost", "Auth", "Refused", "Connected", "LoggedOut"})
      BY <2>1 DEF Silent
    <2>3. DriveGlueMgr(m, events) = Run(m) /\ Run(m) = m
      BY <1>1, <1>3, <1>5, <2>1, DriveStill, RunQuiet
    <2>4. /\ FrameGoes(m) /\ out = <<>> /\ Choosing' /\ CharListing(m')
          /\ m.asks = <<>> => out' = <<>>
          /\ m.asks = <<RosterAsk>> => out' = <<RosterAsk>>
      BY <1>2, <1>3, <1>4, <1>5, <2>1, <2>2, <2>3, FrameChooses
    <2>5. (m.asks = <<>> /\ parkQ = <<RosterAsk>>) \/ (m.asks = <<RosterAsk>> /\ parkQ = <<>>)
      BY <1>6, <2>4 DEF RosterAwaited, OneAsked, NoAsk
    <2>6. RosterAwaited'
      BY <2>4, <2>5 DEF RosterAwaited, FrameGoes, OneAsked
    <2> QED BY <2>4, <2>6 DEF Talk, Online, FrameGoes
  <1>7. CASE RosterTold
    <2>1. PICK r \in Rosters : Unheard = {r}
      BY <1>7 DEF RosterTold
    <2>2. Silent({"Lost", "Auth", "Refused", "Connected", "LoggedOut"})
      BY <2>1 DEF Silent, Rosters
    <2> DEFINE y == DriveGlueMgr(m, events)
    <2>3. SameAsks(m, y) /\ Joined(y, epoch) /\ y.state = "Idle"
      BY <1>1, <1>2, <1>3, <1>5, <2>1, DriveRoster
    <2>4. y = DriveGlueMgr(Pressed(m, press), events)
      BY <1>4
    <2> HIDE DEF y
    <2>5. m.asks = <<>> /\ parkQ = <<>>
      BY <1>7 DEF RosterTold, NoAsk
    <2>6. y.logins = <<>> /\ ~y.reconnect /\ ~y.authFinal /\ ~y.refused /\ y.asks = <<>>
      BY <1>3, <1>5, <2>3, <2>5 DEF SameAsks
    <2>7. FrameGoes(y) /\ Choosing' /\ out' = <<>>
      BY <1>2, <2>2, <2>3, <2>4, <2>6, FrameChooses
    <2>8. Selecting'
      BY <2>3, <2>5, <2>7 DEF Selecting, NoAsk, FrameGoes
    <2> QED BY <2>7, <2>8 DEF Talk, Online, FrameGoes
  <1> QED BY <1>6, <1>7

LEMMA FrameOfSelection ==
    ASSUME TypeInv, Ordinary, Talk, Selecting, NEW press, Pressing(press), Frame(press)
    PROVE  Talk'
  <1>1. m \in Mgrs /\ 0 \in Links /\ events \in Seq(News) /\ epoch \in Links
    BY MgrIs
  <1>2. /\ Choosing /\ Unheard = {} /\ m.asks = <<>> /\ parkQ = <<>> /\ Joined(m, epoch) /\ ~m.refused
        /\ m.state \in {"Idle", "LoginRefused"}
    BY DEF Selecting, Choosing, NoAsk
  <1>3. client = "CharSelect" /\ next = "none" /\ pick = NoPick /\ pc = "charPark" /\ loginQ = <<>>
    BY <1>2 DEF Choosing, Frame
  <1>4. ~m.reconnect /\ ~m.authFinal /\ m.logins = <<>>
    BY DEF Talk, Resting
  <1>5. /\ Silent({"Lost", "Auth", "Refused", "Connected", "LoggedOut"})
        /\ Unheard \subseteq {Entry}
    BY <1>2 DEF Silent
  <1>6. CASE press = "none" \/ m.state # "Idle"
    <2>1. Pressed(m, press) = m
      BY <1>2, <1>6, PressesJoined
    <2> DEFINE y == Run(m)
    <2>2. y = DriveGlueMgr(Pressed(m, press), events)
      BY <1>1, <1>2, <1>3, <1>4, <1>5, <2>1, DriveStill
    <2>3. CASE m.state = "Idle"
      <3>1. y = m
        BY <1>1, <2>3, RunQuiet
      <3> HIDE DEF y
      <3>2. FrameGoes(m) /\ Choosing' /\ out' = <<>>
        BY <1>2, <1>4, <1>5, <2>2, <3>1, FrameChooses
      <3>3. Selecting'
        BY <1>2, <3>2 DEF Selecting, NoAsk, FrameGoes
      <3> QED BY <3>2, <3>3 DEF Talk, Online, FrameGoes
    <2>4. CASE m.state = "LoginRefused"
      <3>1. Asks(m, y, "Enumerate") /\ Joined(y, epoch) /\ CharListing(y)
        BY <1>1, <1>2, <1>4, <2>4, RefusedAsks
      <3> HIDE DEF y
      <3>2. y.logins = <<>> /\ ~y.reconnect /\ ~y.authFinal /\ ~y.refused /\ y.asks = <<RosterAsk>>
        BY <1>2, <1>4, <3>1, Appended DEF Asks, RosterAsk
      <3>3. FrameGoes(y) /\ Choosing' /\ out' = <<RosterAsk>> /\ CharListing(m')
        BY <1>2, <1>5, <2>2, <3>1, <3>2, FrameChooses
      <3>4. RosterAwaited'
        BY <1>2, <3>3 DEF RosterAwaited, OneAsked, FrameGoes
      <3> QED BY <3>3, <3>4 DEF Talk, Online, FrameGoes
    <2> QED BY <1>2, <2>3, <2>4
  <1>7. CASE press # "none" /\ m.state = "Idle"
    <2>1. press = "EnterWorld"
      BY <1>2, <1>7, PressesJoined
    <2> DEFINE x == Pressed(m, press)
    <2>2. /\ x \in Mgrs /\ x.state = "EnterWorld" /\ x.asks = <<PickOf>> /\ x.logins = <<>>
          /\ ~x.reconnect /\ ~x.authFinal /\ x.refused = m.refused /\ Joined(x, epoch)
      BY <1>2, <1>7, <2>1, PressesJoined
    <2>3. x = Pressed(m, press)
      OBVIOUS
    <2> HIDE DEF x
    <2>4. DriveGlueMgr(x, events) = Run(x) /\ Run(x) = x
      BY <1>1, <1>2, <1>3, <1>5, <2>2, DriveStill, RunQuiet
    <2>5. x = DriveGlueMgr(Pressed(m, press), events)
      BY <2>3, <2>4
    <2>6. PickOf \in Plays /\ PickOf.ask = "Play"
      BY <1>1 DEF PickOf, Plays, TypeInv, ThreadInv
    <2>7. Silent({"List", "Roster", "Auth", "LoggedOut", "Refused"}) /\ Silent({"Lost"})
          /\ Silent({"Auth"}) /\ Silent({"LoggedOut", "Refused"})
          /\ Silent({"Lost", "Refused", "Connected", "LoggedOut"})
          /\ \A e \in Unheard : e.kind = "Auth" => e.gen = gen
      BY <1>2 DEF Silent
    <2>8. FrameAsks(x.asks, press)
      BY <2>1, <2>2, <2>6, <2>7 DEF FrameAsks
    <2>9. /\ FrameGoes(x) /\ next' = EdgesNext(events) /\ pick' = PickSent(x.asks, pick)
      BY <1>3, <2>2, <2>5, <2>7, <2>8, FrameOnline
    <2>10. next' = "none"
      BY <2>7, <2>9, EdgesAre
    <2>11. out' = <<PickOf>>
      <3>1. Sent(<<PickOf>>) \o Answers(<<>>) = <<PickOf>>
        BY <2>6, SendsAre
      <3> QED BY <2>2, <2>9, <3>1 DEF FrameGoes
    <2>12. Joined(m', epoch') /\ epoch' = epoch /\ returns' = returns
      BY <2>2, <2>9, GoesJoined DEF FrameGoes
    <2>13. PickAsked'
      BY <1>2, <1>3, <2>2, <2>9, <2>10, <2>11, <2>12 DEF PickAsked, PickMade, OneAsked, PickOf, FrameGoes
    <2> QED BY <2>9, <2>13 DEF Talk, Online, FrameGoes
  <1> QED BY <1>6, <1>7

\* The pick is on its way, or taken and not heard of.
LEMMA FrameOfPick ==
    ASSUME TypeInv, Ordinary, Talk, PickAsked \/ PickTaken, NEW press, Pressing(press), Frame(press)
    PROVE  Talk'
  <1>1. m \in Mgrs /\ 0 \in Links /\ events \in Seq(News) /\ epoch \in Links
    BY MgrIs
  <1>2. /\ PickMade /\ Unheard \subseteq {Entry} /\ m.asks = <<>> /\ Joined(m, epoch) /\ ~m.refused
        /\ m.state = "EnterWorld" /\ client = "CharSelect" /\ next = "none" /\ loginQ = <<>>
    BY DEF PickAsked, PickTaken, PickMade
  <1>3. ~m.reconnect /\ ~m.authFinal /\ m.logins = <<>>
    BY DEF Talk, Resting
  <1>4. Pressed(m, press) = m
    BY <1>2, PressesJoined
  <1>5. DriveGlueMgr(m, events) = Run(m) /\ Run(m) = m
    BY <1>1, <1>2, <1>3, DriveStill, RunQuiet
  <1>6. /\ Silent({"Lost"}) /\ Silent({"Auth"}) /\ Silent({"LoggedOut", "Refused"})
        /\ Silent({"List", "Roster", "Auth"}) /\ Silent({"Lost", "Refused"})
        /\ \A e \in Unheard : e.kind = "Auth" => e.gen = gen
    BY <1>2 DEF Silent, Entry
  <1>7. FrameAsks(m.asks, press)
    BY <1>2 DEF FrameAsks
  <1>8. FrameGoes(m) /\ next' = EdgesNext(events) /\ out = <<>>
    BY <1>2, <1>3, <1>4, <1>5, <1>6, <1>7, FrameOnline
  <1>9. Joined(m', epoch') /\ epoch' = epoch /\ out' = <<>> /\ returns' = returns
    BY <1>2, <1>8, GoesJoined DEF FrameGoes
  <1>10. CASE PickAsked
    <2>1. Unheard = {} /\ parkQ = <<PickOf>> /\ pc = "charPark"
      BY <1>8, <1>10 DEF PickAsked, OneAsked
    <2>2. Silent({"Lost", "Refused", "Connected", "LoggedOut"})
      BY <2>1 DEF Silent
    <2>3. next' = "none"
      BY <1>8, <2>2, EdgesAre
    <2>4. PickAsked'
      BY <1>2, <1>8, <1>9, <2>1, <2>3 DEF PickAsked, PickMade, OneAsked, PickOf, FrameGoes
    <2> QED BY <1>8, <2>4 DEF Talk, Online, FrameGoes
  <1>11. CASE PickTaken
    <2>1. Entry \in Unheard /\ parkQ = <<>> /\ pc \in InWorld
      BY <1>11 DEF PickTaken, NoAsk, InWorld
    <2>2. next' = "InWorld"
      BY <1>6, <1>8, <2>1, EdgesAre
    <2>3. Streamed'
      BY <1>2, <1>8, <1>9, <2>1, <2>2 DEF Streamed, Playing, NoAsk, FrameGoes
    <2> QED BY <1>8, <2>3 DEF Talk, Online, FrameGoes
  <1> QED BY <1>10, <1>11

LEMMA FrameOfRefusal ==
    ASSUME TypeInv, Ordinary, Talk, PickRefused, NEW press, Pressing(press), Frame(press)
    PROVE  Talk'
  <1>1. m \in Mgrs /\ 0 \in Links /\ events \in Seq(News) /\ epoch \in Links
    BY MgrIs
  <1>2. /\ Unheard = {Entry, Refusal} /\ m.asks = <<>> /\ Joined(m, epoch) /\ ~m.refused
        /\ m.state = "EnterWorld" /\ client = "CharSelect" /\ next = "none" /\ loginQ = <<>>
        /\ pc = "charPark" /\ parkQ = <<>>
    BY DEF PickRefused, PickMade, NoAsk
  <1>3. ~m.reconnect /\ ~m.authFinal /\ m.logins = <<>>
    BY DEF Talk, Resting
  <1>4. Pressed(m, press) = m
    BY <1>2, PressesJoined
  <1> DEFINE y == DriveGlueMgr(m, events)
  <1>5. /\ y.logins = m.logins /\ y.asks = Append(m.asks, [ask |-> "Enumerate"])
        /\ ~y.reconnect /\ ~y.authFinal /\ ~y.refused /\ Joined(y, epoch) /\ CharListing(y)
    BY <1>1, <1>2, <1>3, DriveRefusal
  <1>6. y = DriveGlueMgr(Pressed(m, press), events)
    BY <1>4
  <1> HIDE DEF y
  <1>7. y.logins = <<>> /\ y.asks = <<RosterAsk>>
    BY <1>2, <1>3, <1>5, Appended DEF RosterAsk
  <1>8. /\ Silent({"Lost"}) /\ Silent({"Auth"}) /\ ~Silent({"LoggedOut", "Refused"})
        /\ Silent({"List", "Roster", "Auth"})
        /\ \A e \in Unheard : e.kind = "Auth" => e.gen = gen
    BY <1>2 DEF Silent, Entry, Refusal
  <1>9. FrameAsks(y.asks, press)
    BY <1>7 DEF FrameAsks, RosterAsk
  <1>10. FrameGoes(y) /\ next' = EdgesNext(events) /\ pick' = NoPick
    BY <1>2, <1>5, <1>6, <1>7, <1>8, <1>9, FrameOnline
  <1>11. next' = "CharSelect"
    BY <1>2, <1>8, <1>10, EdgesAre
  <1>12. Joined(m', epoch') /\ epoch' = epoch /\ out' = <<RosterAsk>> /\ CharListing(m')
    BY <1>5, <1>7, <1>10, GoesJoined
  <1>13. RosterAwaited'
    BY <1>2, <1>5, <1>10, <1>11, <1>12 DEF RosterAwaited, Choosing, OneAsked, FrameGoes
  <1> QED BY <1>10, <1>13 DEF Talk, Online, FrameGoes

\* In the world, or just out of it.
LEMMA FrameOfWorld ==
    ASSUME TypeInv, Ordinary, Talk, Streamed \/ WorldLeft \/ Leaving, NEW press, Pressing(press), Frame(press)
    PROVE  Talk'
  <1>1. m \in Mgrs /\ 0 \in Links /\ events \in Seq(News) /\ epoch \in Links
    BY MgrIs
  <1>2. next = "none"
    BY DEF Frame
  <1>3. /\ client = "InWorld" /\ Joined(m, epoch) /\ ~m.refused /\ m.asks = <<>>
        /\ parkQ = <<>> /\ loginQ = <<>>
    BY <1>2 DEF Streamed, WorldLeft, Leaving, Playing, NoAsk
  <1>4. ~m.reconnect /\ ~m.authFinal /\ m.logins = <<>>
    BY DEF Talk, Resting
  <1>5. press = "none" /\ Pressed(m, press) = m
    BY <1>3, MgrIs, PressesAre
  <1>6. (Streamed /\ Unheard = {}) \/ (WorldLeft /\ pc = "charPark" /\ \E r \in {Refusal, Logged} : Unheard = {r})
    BY <1>2 DEF Streamed, WorldLeft, Leaving
  <1>7. Unheard \subseteq {Refusal, Logged}
    BY <1>6
  <1> DEFINE y == DriveGlueMgr(m, events)
  <1>8. /\ y.logins = m.logins /\ y.asks = m.asks
        /\ ~y.reconnect /\ ~y.authFinal /\ y.refused = (m.refused \/ Refusal \in Unheard)
        /\ Joined(y, epoch) /\ y.state = "Idle"
    BY <1>1, <1>3, <1>4, <1>7, DriveWorld
  <1>9. y = DriveGlueMgr(Pressed(m, press), events)
    BY <1>5
  <1> HIDE DEF y
  <1>10. y.logins = <<>> /\ y.asks = <<>> /\ ~y.reconnect /\ ~y.authFinal
    BY <1>3, <1>4, <1>8
  <1>11. /\ Silent({"Lost"}) /\ Silent({"Auth"}) /\ Silent({"List", "Roster", "Auth"})
         /\ \A e \in Unheard : e.kind = "Auth" => e.gen = gen
    BY <1>7 DEF Silent, Logged, Refusal
  <1>12. FrameAsks(y.asks, press)
    BY <1>10 DEF FrameAsks
  <1>13. /\ FrameGoes(y) /\ next' = EdgesNext(events)
         /\ pick' = IF Silent({"LoggedOut", "Refused"}) THEN PickSent(y.asks, pick) ELSE NoPick
    BY <1>3, <1>9, <1>10, <1>11, <1>12, FrameOnline
  <1>14. Joined(m', epoch') /\ epoch' = epoch /\ out' = <<>>
    BY <1>8, <1>10, <1>13, GoesJoined
  <1>15. CASE Streamed /\ Unheard = {}
    <2>1. Silent({"Lost", "Refused", "Connected", "LoggedOut"}) /\ pc \in InWorld
      BY <1>15 DEF Silent, Streamed
    <2>2. next' = "none"
      BY <1>13, <2>1, EdgesAre
    <2>3. ~y.refused
      BY <1>3, <1>8, <1>15
    <2>4. Streamed'
      BY <1>3, <1>8, <1>13, <1>14, <2>1, <2>2, <2>3 DEF Streamed, Playing, NoAsk, FrameGoes
    <2> QED BY <1>13, <2>4 DEF Talk, Online, FrameGoes
  <1>16. CASE WorldLeft /\ pc = "charPark" /\ \E r \in {Refusal, Logged} : Unheard = {r}
    <2>1. next' = "CharSelect" /\ ~Silent({"LoggedOut", "Refused"})
      <3>1. CASE Unheard = {Refusal}
        <4>1. ~Silent({"LoggedOut", "Refused"}) /\ Refusal \in Unheard
          BY <3>1 DEF Silent, Refusal
        <4> QED BY <1>11, <1>13, <4>1, EdgesAre
      <3>2. CASE Unheard = {Logged}
        <4>1. ~Silent({"LoggedOut", "Refused"}) /\ Logged \in Unheard
              /\ Silent({"Lost", "Refused", "Connected"})
          BY <3>2 DEF Silent, Logged
        <4> QED BY <1>13, <4>1, EdgesAre
      <3> QED BY <1>16, <3>1, <3>2
    <2>2. pick' = NoPick
      BY <1>13, <2>1
    <2>3. Leaving'
      BY <1>3, <1>8, <1>13, <1>14, <1>16, <2>1, <2>2 DEF Leaving, NoAsk, FrameGoes
    <2> QED BY <1>13, <2>3 DEF Talk, Online, FrameGoes
  <1> QED BY <1>6, <1>15, <1>16

\* The loss drained: back at the login screen, at rest.
LEMMA FrameOfLoss ==
    ASSUME TypeInv, Ordinary, Talk, SessionOver, NEW press, Pressing(press), Frame(press)
    PROVE  Talk'
  <1>1. m \in Mgrs /\ 0 \in Links /\ events \in Seq(News) /\ epoch \in Links /\ Pressed(m, "none") = m
    BY MgrIs
  <1>2. /\ pc = "login" /\ Lost \in Unheard /\ Unheard \subseteq LateNews
        /\ \A e \in Unheard : e.kind = "Auth" => e.gen = gen
        /\ pick = NoPick \/ Silent({"List", "Roster", "Auth"})
        /\ Silent({"Auth"}) \/ Silent({"Connected", "Refused", "LoggedOut"})
        /\ loginQ = <<>> /\ Leftover(parkQ)
        /\ m.asks = <<>> \/ (m.asks = <<RosterAsk>> /\ m.state = "CharList")
    BY DEF SessionOver
  <1>3. /\ next = "none" /\ out = <<>> /\ ~m.refused /\ LostLast
    BY DEF SessionOver, Frame, Talk
  <1>4. ~m.reconnect /\ ~m.authFinal /\ m.logins = <<>>
    BY DEF Talk, Resting
  <1>5. /\ m.state \in {"Connect", "Idle", "LoginRefused", "EnterWorld", "CharList"}
        /\ m.state = "Connect" => m.op.status = "run"
        /\ m.state # "Connect" => Joined(m, epoch)
    BY DEF SessionOver, CharListing
  <1> DEFINE x == Pressed(m, press)
  <1>6. /\ x \in Mgrs /\ ~x.reconnect /\ ~x.authFinal /\ ~x.refused /\ x.logins = <<>>
        /\ x.state # "Logon" /\ (x.state = "Connect" => x.op.status \in {"run", "ok"})
        /\ FrameAsks(x.asks, press)
        /\ x.asks = <<>> \/ \E a : x.asks = <<a>> /\ a.ask \in {"Enumerate", "Play"}
    <2>1. CASE press = "none" \/ m.state # "Idle"
      <3>1. Pressed(m, press) = m
        <4>1. CASE press = "none"
          BY <1>1, <4>1
        <4>2. CASE m.state = "EnterWorld"
          BY <1>2, <1>5, <4>2, PressesJoined
        <4>3. CASE m.state \notin {"Idle", "EnterWorld"}
          BY <1>5, <4>3, FrameWaits
        <4> QED BY <2>1, <4>1, <4>2, <4>3
      <3>2. FrameAsks(m.asks, press)
        BY <1>2 DEF FrameAsks, RosterAsk
      <3>3. m.asks = <<>> \/ \E a : m.asks = <<a>> /\ a.ask \in {"Enumerate", "Play"}
        BY <1>2 DEF RosterAsk
      <3> QED BY <1>1, <1>3, <1>4, <1>5, <3>1, <3>2, <3>3
    <2>2. CASE press # "none" /\ m.state = "Idle"
      <3>1. m.asks = <<>> /\ Joined(m, epoch)
        BY <1>2, <1>5, <2>2
      <3>2. press = "EnterWorld" /\ client # "InWorld"
        BY <2>2, <3>1, PressesJoined
      <3>3. /\ x \in Mgrs /\ x.state = "EnterWorld" /\ x.asks = <<PickOf>> /\ x.logins = <<>>
            /\ ~x.reconnect /\ ~x.authFinal /\ x.refused = m.refused
        BY <2>2, <3>1, <3>2, PressesJoined
      <3> HIDE DEF x
      <3>4. Silent({"List", "Roster", "Auth", "LoggedOut", "Refused"})
        BY <1>3, <2>2, <3>2 DEF SessionOver
      <3>5. PickOf \in Plays /\ PickOf.ask = "Play"
        BY <1>1 DEF PickOf, Plays, TypeInv, ThreadInv
      <3>6. FrameAsks(x.asks, press)
        BY <3>2, <3>3, <3>4, <3>5 DEF FrameAsks
      <3>7. \E a : x.asks = <<a>> /\ a.ask \in {"Enumerate", "Play"}
        BY <3>3, <3>5
      <3> QED BY <1>3, <3>3, <3>6, <3>7
    <2> QED BY <2>1, <2>2
  <1>7. x = Pressed(m, press)
    OBVIOUS
  <1> HIDE DEF x
  <1> DEFINE y == DriveGlueMgr(x, events)
  <1>8. Down(y) /\ ~y.list /\ ~y.refused /\ y.logins = x.logins /\ y.asks = x.asks /\ ~y.reconnect
        /\ ~y.authFinal
    BY <1>1, <1>2, <1>3, <1>6, DriveLost
  <1>9. y = DriveGlueMgr(Pressed(m, press), events)
    BY <1>7
  <1> HIDE DEF y
  <1>10. press \in Presses \cup {"none"} /\ Races = {}
    BY PressesAre DEF Ordinary
  <1>11. y \in Mgrs
    BY <1>9, <1>10, DrivenIs
  <1>12. y.logins \in FrameLogins /\ y.logins = <<>> /\ FrameAsks(y.asks, press)
    BY <1>6, <1>8 DEF FrameLogins
  <1>13. Framed(y)
    BY <1>2, <1>9, <1>10, <1>11, <1>12, FrameIs
  <1>14. Some(events, "Lost")
    <2>1. Lost.kind = "Lost"
      BY DEF Lost
    <2> QED BY <1>2, <2>1, UnheardSome
  <1>15. next' = "Login" /\ pick' = NoPick
    BY <1>13, <1>14 DEF Framed, FrameNext
  <1>16. Unheard' = {} /\ LostLast'
    BY <1>13, DrainedChannel DEF Framed
  <1> DEFINE z == Cleared(y)
  <1>17. /\ z.logins = <<>> /\ z.asks = <<>> /\ z.state = y.state /\ z.authFinal = y.authFinal
         /\ z.connected = y.connected /\ z.reconnect = y.reconnect
         /\ z.refused = y.refused /\ z.list = y.list
    BY <1>11, ClearedIs
  <1>18. m' = z
    BY <1>13 DEF Framed
  <1> HIDE DEF z
  <1>19. Leftover(out')
    <2>1. out' = Sent(y.asks) \o Answers(<<>>)
      BY <1>12, <1>13 DEF Framed
    <2>2. FrameAsks(y.asks, press) /\ (y.asks = <<>> \/ \E a : y.asks = <<a>> /\ a.ask \in {"Enumerate", "Play"})
      BY <1>6, <1>8
    <2>3. CASE y.asks = <<>>
      <3>1. out' = <<>>
        BY <2>1, <2>3, SendsAre
      <3> QED BY <3>1, LeftoverIs
    <2>4. CASE y.asks # <<>>
      <3>1. PICK a : y.asks = <<a>> /\ a.ask \in {"Enumerate", "Play"}
        BY <2>2, <2>4
      <3>2. a = [ask |-> "Enumerate"] \/ a \in Plays
        <4>1. (\E b \in {"Dial", "Enumerate", "Refresh"} : <<a>> = <<[ask |-> b]>>) \/ \E p \in Plays : <<a>> = <<p>>
          BY <2>2, <2>4, <3>1 DEF FrameAsks
        <4>2. \A b : <<a>> = <<b>> => a = b
          OBVIOUS
        <4>3. (\E b \in {"Dial", "Enumerate", "Refresh"} : a = [ask |-> b]) \/ a \in Plays
          BY <4>1, <4>2
        <4> QED BY <3>1, <4>3
      <3>3. Sent(<<a>>) \o Answers(<<>>) = <<a>>
        BY <3>2, SendsAre
      <3>4. out' = <<a>>
        BY <2>1, <3>1, <3>3
      <3> QED BY <3>1, <3>4, LeftoverIs
    <2> QED BY <2>3, <2>4
  <1>20. Idling(m') /\ Resting(m') /\ m'.asks = <<>> /\ ~m'.list
    BY <1>8, <1>17, <1>18 DEF Idling, Down, Resting
  <1>21. UNCHANGED <<pc, loginQ, parkQ>>
    BY <1>13 DEF Framed
  <1>22. Rest'
    BY <1>2, <1>15, <1>16, <1>19, <1>20, <1>21 DEF Rest
  <1> QED BY <1>16, <1>20, <1>22 DEF Talk, Offline

LEMMA FrameKeepsTalk ==
    ASSUME TypeInv, Ordinary, Talk, NEW press, Pressing(press), Frame(press)
    PROVE  Talk'
  <1>1. Offline \/ Online \/ SessionOver
    BY DEF Talk
  <1>2. CASE Offline
    BY <1>2, FrameAtRest, FrameOfLogon, FrameOfLogonFailed, FrameOfStands, FrameOfList, FrameOfListAsked, FrameOfDial,
       FrameOfDialFailed DEF Offline
  <1>3. CASE Online
    BY <1>3, FrameOfAuth, FrameOfRoster, FrameOfSelection, FrameOfPick, FrameOfRefusal, FrameOfWorld DEF Online
  <1> QED BY <1>1, <1>2, <1>3, FrameOfLoss

----------------------------------------------------------------------------
(* The read thread's steps.                                                *)

\* What the thread may do where it stands.
LEMMA PlacesAre ==
    /\ TakeLogin => pc \in {"login", "park", "charPark"}
    /\ LoginPark => pc = "login"
    /\ LogonEnds => pc = "logon"
    /\ FailLogon => pc = "failLogon"
    /\ DrainLogon => pc = "drainLogon"
    /\ Publish => pc = "publish"
    /\ Query \/ TakeDial => pc \in {"park", "charPark"}
    /\ LogonPark => pc = "park"
    /\ BeginDial => pc = "dial"
    /\ Handshake => pc = "handshake"
    /\ SocketUp \/ SocketFails => pc = "connecting"
    /\ CheckQueue => pc = "asked"
    /\ QueuePosition \/ AuthEnds \/ AuthRefused => pc = "queue"
    /\ FailWorld => pc = "failWorld"
    /\ DrainWorld => pc = "drainWorld"
    /\ Announce => pc = "announce"
    /\ CharPark => pc = "charPark"
    /\ BackToPark => pc \in {"loggedOut", "refused"}
    /\ LoseLink => pc \in {"charPark", "stream"}
    /\ \A to : DrainBack(to) => pc = "stream"
  <1>1. (TakeLogin => pc \in {"login", "park", "charPark"}) /\ (LoginPark => pc = "login")
    BY DEF TakeLogin, LoginPark
  <1>2. /\ LogonEnds => pc = "logon"
        /\ FailLogon => pc = "failLogon"
        /\ DrainLogon => pc = "drainLogon"
        /\ Publish => pc = "publish"
    BY DEF LogonEnds, FailLogon, DrainLogon, Publish
  <1>3. (Query \/ TakeDial => pc \in {"park", "charPark"}) /\ (LogonPark => pc = "park")
    BY DEF Query, TakeDial, LogonPark
  <1>4. /\ BeginDial => pc = "dial"
        /\ Handshake => pc = "handshake"
        /\ SocketUp \/ SocketFails => pc = "connecting"
        /\ CheckQueue => pc = "asked"
    BY DEF BeginDial, Handshake, SocketUp, SocketFails, CheckQueue, CheckDial
  <1>5. /\ QueuePosition \/ AuthEnds \/ AuthRefused => pc = "queue"
        /\ FailWorld => pc = "failWorld"
        /\ DrainWorld => pc = "drainWorld"
        /\ Announce => pc = "announce"
    BY DEF QueuePosition, AuthEnds, AuthRefused, CheckDial, FailWorld, DrainWorld, Announce
  <1>6. CharPark => pc = "charPark"
    BY DEF CharPark, LeaveSession, Enumerate, EnumerateLost, Play
  <1>7. /\ BackToPark => pc \in {"loggedOut", "refused"}
        /\ LoseLink => pc \in {"charPark", "stream"}
        /\ \A to : DrainBack(to) => pc = "stream"
    BY DEF BackToPark, LoseLink, DrainBack
  <1> QED BY <1>1, <1>2, <1>3, <1>4, <1>5, <1>6, <1>7

LEMMA StepsAre ==
    ASSUME ReadThreadStep
    PROVE  /\ UNCHANGED appVars
           /\ pc = "login" => TakeLogin \/ LoginPark
           /\ pc = "logon" => LogonEnds
           /\ pc = "failLogon" => FailLogon
           /\ pc = "drainLogon" => DrainLogon
           /\ pc = "publish" => Publish
           /\ pc = "park" => TakeLogin \/ Query \/ TakeDial \/ LogonPark
           /\ pc = "dial" => BeginDial
           /\ pc = "handshake" => Handshake
           /\ pc = "connecting" => SocketUp \/ SocketFails
           /\ pc = "asked" => CheckQueue
           /\ pc = "queue" => QueuePosition \/ AuthEnds \/ AuthRefused
           /\ pc = "failWorld" => FailWorld
           /\ pc = "drainWorld" => DrainWorld
           /\ pc = "announce" => Announce
           /\ pc = "charPark" => TakeLogin \/ Query \/ TakeDial \/ CharPark \/ LoseLink
           /\ pc = "stream" => LoseLink \/ DrainBack("refused") \/ (client = "InWorld" /\ DrainBack("loggedOut"))
           /\ pc \in {"loggedOut", "refused"} => BackToPark
  <1>1. UNCHANGED appVars /\ (ReadStep \/ ServerStep(client = "InWorld"))
    BY DEF ReadThreadStep
  <1>2. CASE ReadStep
    BY <1>1, <1>2, PlacesAre DEF ReadStep
  <1>3. CASE ServerStep(client = "InWorld")
    BY <1>1, <1>3, PlacesAre DEF ServerStep
  <1> QED BY <1>1, <1>2, <1>3

\* An ask taken off an empty channel, and off one that holds a single ask.
LEMMA TakesOne ==
    /\ parkQ = <<>> => \A a : ~TakeAsk(a)
    /\ \A r, a : parkQ = <<r>> /\ TakeAsk(a) => r.ask = a /\ NextAsk = r /\ parkQ' = <<>>
  <1>1. parkQ = <<>> => \A a : ~TakeAsk(a)
    BY DEF TakeAsk
  <1>2. ASSUME NEW r, NEW a, parkQ = <<r>>, TakeAsk(a)
        PROVE  r.ask = a /\ NextAsk = r /\ parkQ' = <<>>
    <2>1. Head(<<r>>) = r /\ Tail(<<r>>) = <<>>
      OBVIOUS
    <2> QED BY <1>2, <2>1 DEF TakeAsk, NextAsk
  <1> QED BY <1>1, <1>2

LEMMA IgnoresOne ==
    ASSUME NEW asks, Ignore(asks)
    PROVE  /\ parkQ # <<>> /\ parkQ' = Tail(parkQ) /\ NextAsk.ask \in asks
           /\ UNCHANGED <<threadVars, gen, loginQ, events>>
  BY DEF Ignore, TakeAsk

\* A park with nothing to take stands still, but for the loss of its link.
LEMMA QuietParks ==
    ASSUME ReadThreadStep, loginQ = <<>>, parkQ = <<>>
    PROVE  pc # "park" /\ (pc = "charPark" => LoseLink)
  <1>1. ~TakeLogin
    BY DEF TakeLogin
  <1>2. \A a : ~TakeAsk(a)
    BY TakesOne
  <1>3. \A asks : ~Ignore(asks)
    BY <1>2 DEF Ignore
  <1>4. ~Query /\ ~TakeDial /\ ~LogonPark
    BY <1>2, <1>3 DEF Query, TakeDial, LogonPark
  <1>5. ~CharPark
    BY <1>2, <1>3 DEF CharPark, LeaveSession, Enumerate, EnumerateLost, Play
  <1> QED BY <1>1, <1>4, <1>5, StepsAre

\* What is left over is dropped at the login screen's park.
LEMMA DropsLeftover ==
    ASSUME TypeInv, ReadThreadStep, pc = "login", ~TakeLogin, Leftover(parkQ)
    PROVE  Leftover(parkQ') /\ UNCHANGED <<threadVars, gen, loginQ, events, appVars>>
  <1>1. LoginPark /\ UNCHANGED appVars
    BY StepsAre
  <1>2. parkQ \in Seq(Requests(gen))
    BY DEF TypeInv, ThreadInv
  <1>3. parkQ # <<>> => Leftover(Tail(parkQ)) /\ Head(parkQ).ask \in {"Enumerate", "Play", "Close"}
    BY <1>2, LeftoverIs
  <1>4. ~TakeAsk("Refresh")
    BY <1>3 DEF TakeAsk, NextAsk
  <1>5. Ignore({"Dial", "Close", "Leave", "Play", "Abandon", "Enumerate"})
    BY <1>1, <1>4 DEF LoginPark
  <1>6. /\ parkQ # <<>> /\ parkQ' = Tail(parkQ)
        /\ UNCHANGED <<threadVars, gen, loginQ, events>>
    BY <1>5, IgnoresOne
  <1> QED BY <1>1, <1>3, <1>6

LEMMA ParkDrops ==
    ASSUME TypeInv, ReadThreadStep, pc = "park", ~TakeLogin, Leftover(parkQ)
    PROVE  /\ Leftover(parkQ') /\ pc' \in {"login", "park"}
           /\ UNCHANGED <<logonGen, dialGen, epoch, returns, gen, loginQ, events, appVars>>
  <1>1. parkQ \in Seq(Requests(gen))
    BY DEF TypeInv, ThreadInv
  <1>2. parkQ # <<>> => Leftover(Tail(parkQ)) /\ Head(parkQ).ask \in {"Enumerate", "Play", "Close"}
    BY <1>1, LeftoverIs
  <1>3. ~TakeAsk("Refresh") /\ ~TakeAsk("Dial")
    BY <1>2 DEF TakeAsk, NextAsk
  <1>4. LogonPark /\ UNCHANGED appVars
    BY <1>3, StepsAre DEF Query, TakeDial
  <1>5. CASE TakeAsk("Close") /\ Goto("login")
                /\ UNCHANGED <<logonGen, dialGen, queued, epoch, returns, gen, loginQ, events>>
    BY <1>2, <1>4, <1>5 DEF TakeAsk, Goto
  <1>6. CASE Ignore({"Leave", "Play", "Abandon", "Enumerate"})
    <2>1. /\ parkQ # <<>> /\ parkQ' = Tail(parkQ)
          /\ UNCHANGED <<threadVars, gen, loginQ, events>>
      BY <1>6, IgnoresOne
    <2> QED BY <1>2, <1>4, <2>1 DEF threadVars
  <1> QED BY <1>4, <1>5, <1>6 DEF LogonPark

\* The thread tells one thing.
LEMMA TellsOne ==
    ASSUME TypeInv, NEW e, e \in News, Emit(e)
    PROVE  /\ Unheard' = Unheard \cup {e}
           /\ LostLast /\ Lost \notin Unheard => LostLast'
  <1>1. events \in Seq(News)
    BY MgrIs
  <1>2. events' = Append(events, e)
    BY DEF Emit
  <1> QED BY <1>1, <1>2, ToldOne

\* The login screen's park, and a logon asked for.
LEMMA ReadAtLogin ==
    ASSUME TypeInv, Talk, ReadThreadStep, pc = "login",
           Rest \/ LogonAsked \/ LogonFailed \/ LogonStands \/ SessionOver
    PROVE  Talk'
  <1>1. Leftover(parkQ)
    BY DEF Rest, LogonAsked, LogonFailed, LogonStands, SessionOver
  <1>2. Resting(m) /\ LostLast
    BY DEF Talk
  <1>3. CASE TakeLogin
    <2>1. LogonAsked /\ out = <<>> /\ loginQ = <<gen>> /\ Home /\ Unheard = {}
      BY <1>3 DEF TakeLogin, Rest, LogonAsked, LogonFailed, LogonStands, SessionOver
    <2>2. /\ logonGen' = Head(loginQ) /\ loginQ' = Tail(loginQ) /\ Emit(Began) /\ pc' = "logon"
          /\ UNCHANGED <<gen, parkQ, appVars>>
      BY <1>3, StepsAre DEF TakeLogin, Began, Goto
    <2>3. Head(<<gen>>) = gen /\ Tail(<<gen>>) = <<>>
      OBVIOUS
    <2>4. logonGen' = gen /\ loginQ' = <<>>
      BY <2>1, <2>2, <2>3
    <2>5. Began \in News
      BY ToldIsNews DEF Began, TypeInv
    <2>6. Unheard' = {Began} /\ LostLast'
      <3>1. Unheard' = Unheard \cup {Began} /\ (LostLast /\ Lost \notin Unheard => LostLast')
        BY <2>2, <2>5, TellsOne
      <3> QED BY <1>2, <2>1, <3>1
    <2>7. LogonRuns'
      <3>1. pc' \in AtLogon /\ pc' # "publish"
        BY <2>2 DEF AtLogon
      <3> QED BY <1>1, <2>1, <2>2, <2>4, <2>6, <3>1 DEF LogonAsked, LogonRuns, Home, appVars
    <2> QED BY <1>2, <2>2, <2>6, <2>7 DEF Talk, Offline, appVars
  <1>4. CASE ~TakeLogin
    <2>1. Leftover(parkQ') /\ UNCHANGED <<threadVars, gen, loginQ, events, appVars>>
      BY <1>1, <1>4, DropsLeftover
    <2>2. Unheard' = Unheard /\ LostLast'
      BY <1>2, <2>1, SameChannel
    <2>3. CASE Rest
      <3>1. Rest'
        BY <2>1, <2>2, <2>3 DEF Rest, threadVars, appVars
      <3> QED BY <1>2, <2>1, <2>2, <3>1 DEF Talk, Offline, appVars
    <2>4. CASE LogonAsked
      <3>1. LogonAsked'
        BY <2>1, <2>2, <2>4 DEF LogonAsked, Home, threadVars, appVars
      <3> QED BY <1>2, <2>1, <2>2, <3>1 DEF Talk, Offline, appVars
    <2>5. CASE LogonFailed
      <3>1. LogonFailed'
        BY <2>1, <2>2, <2>5 DEF LogonFailed, Home, threadVars, appVars
      <3> QED BY <1>2, <2>1, <2>2, <3>1 DEF Talk, Offline, appVars
    <2>7. CASE LogonStands
      <3>1. LogonStands'
        BY <2>1, <2>2, <2>7 DEF LogonStands, Home, threadVars, appVars
      <3> QED BY <1>2, <2>1, <2>2, <3>1 DEF Talk, Offline, appVars
    <2>6. CASE SessionOver
      <3>1. /\ Silent({"List", "Roster", "Auth"})' = Silent({"List", "Roster", "Auth"})
            /\ Silent({"Auth"})' = Silent({"Auth"})
            /\ Silent({"Connected", "Refused", "LoggedOut"})' = Silent({"Connected", "Refused", "LoggedOut"})
            /\ Silent({"List", "Roster", "Auth", "LoggedOut", "Refused"})' =
                  Silent({"List", "Roster", "Auth", "LoggedOut", "Refused"})
        BY <2>2 DEF Silent
      <3>2. LateNews' = LateNews
        BY <2>1 DEF LateNews, News, threadVars
      <3>3. /\ m' = m /\ client' = client /\ next' = next /\ pick' = pick /\ out' = out /\ pc' = pc
            /\ epoch' = epoch /\ gen' = gen /\ loginQ' = loginQ
        BY <2>1 DEF threadVars, appVars
      <3>4. SessionOver'
        BY <2>1, <2>2, <2>6, <3>1, <3>2, <3>3 DEF SessionOver
      <3> QED BY <1>2, <2>2, <3>3, <3>4 DEF Talk
    <2> QED BY <2>3, <2>4, <2>5, <2>6, <2>7
  <1> QED BY <1>3, <1>4

LEMMA ReadOfLogon ==
    ASSUME TypeInv, Talk, ReadThreadStep, LogonRuns
    PROVE  Talk'
  <1>1. /\ LoggingOn(m) /\ m.asks = <<>> /\ Home /\ Unheard \subseteq {Began} /\ Resting(m) /\ LostLast
        /\ logonGen = gen /\ out = <<>> /\ loginQ = <<>> /\ Leftover(parkQ)
        /\ pc = "publish" => parkQ = <<>>
        /\ pc \in {"logon", "failLogon", "drainLogon", "publish"}
    BY DEF LogonRuns, Talk, AtLogon
  <1>2. Lost \notin Unheard
    BY <1>1 DEF Began, Lost, Stage
  <1>3. CASE pc = "logon"
    <2>1. LogonEnds /\ UNCHANGED appVars
      BY <1>3, StepsAre
    <2>2. pc' \in {"failLogon", "drainLogon"} /\ UNCHANGED <<logonGen, gen, loginQ, parkQ, events>>
      BY <1>1, <2>1 DEF LogonEnds, Canceled, Goto, channels
    <2>3. Unheard' = Unheard /\ LostLast'
      BY <1>1, <2>2, SameChannel
    <2>4. LogonRuns'
      BY <1>1, <2>1, <2>2, <2>3 DEF LogonRuns, Home, appVars, AtLogon
    <2> QED BY <1>1, <2>1, <2>3, <2>4 DEF Talk, Offline, appVars
  <1>4. CASE pc = "failLogon"
    <2>1. FailLogon /\ UNCHANGED appVars
      BY <1>4, StepsAre
    <2>2. PICK f \in LogonFailures : Emit(f)
      BY <2>1 DEF FailLogon, LogonFailures
    <2>s. pc' = "login" /\ UNCHANGED <<logonGen, gen, loginQ, parkQ>>
      BY <2>1 DEF FailLogon, Goto
    <2>3. f \in News
      BY ToldIsNews DEF LogonFailures, FailWords, TypeInv
    <2>4. Unheard' = Unheard \cup {f} /\ LostLast'
      BY <1>1, <1>2, <2>2, <2>3, TellsOne
    <2>5. LogonFailed'
      BY <1>1, <2>1, <2>s, <2>4 DEF LogonFailed, Home, appVars
    <2> QED BY <1>1, <2>1, <2>4, <2>5 DEF Talk, Offline, appVars
  <1>5. CASE pc = "drainLogon"
    <2>1. DrainLogon /\ UNCHANGED appVars
      BY <1>5, StepsAre
    <2>2. pc' = "publish" /\ parkQ' = <<>> /\ UNCHANGED <<logonGen, gen, loginQ, events>>
      BY <2>1 DEF DrainLogon, Drain, Goto
    <2>3. Unheard' = Unheard /\ LostLast'
      BY <1>1, <2>2, SameChannel
    <2>4. Leftover(parkQ')
      BY <2>2, LeftoverIs
    <2>5. LogonRuns'
      BY <1>1, <2>1, <2>2, <2>3, <2>4 DEF LogonRuns, Home, appVars, AtLogon
    <2> QED BY <1>1, <2>1, <2>3, <2>5 DEF Talk, Offline, appVars
  <1>6. CASE pc = "publish"
    <2>1. Publish /\ UNCHANGED appVars
      BY <1>6, StepsAre
    <2>2. PICK r \in {"ok", "emptied"} : Emit(List(r))
      BY <2>1 DEF Publish
    <2>3. pc' = "park" /\ UNCHANGED <<logonGen, gen, loginQ, parkQ>>
      BY <2>1 DEF Publish, Goto
    <2>4. List(r) \in News /\ r \in Replies
      BY ToldIsNews DEF TypeInv, Replies
    <2>5. Unheard' = Unheard \cup {List(r)} /\ LostLast'
      BY <1>1, <1>2, <2>2, <2>4, TellsOne
    <2>6. \E q \in Replies : List(q) \in Unheard' /\ Unheard' \subseteq {Began, List(q)}
      BY <1>1, <2>4, <2>5
    <2>7. LogonListed'
      BY <1>1, <1>6, <2>1, <2>3, <2>6 DEF LogonListed, Home, appVars, NoAsk
    <2> QED BY <1>1, <2>1, <2>5, <2>7 DEF Talk, Offline, appVars
  <1> QED BY <1>1, <1>3, <1>4, <1>5, <1>6

\* The logon's park: a list is told, a dial begins.
LEMMA ReadAtPark ==
    ASSUME TypeInv, Talk, ReadThreadStep, pc = "park", Offline
    PROVE  Talk'
  <1>1. Resting(m) /\ LostLast
    BY DEF Talk
  <1>2. CASE parkQ = <<>> /\ loginQ = <<>>
    BY <1>2, QuietParks
  <1>3. CASE LogonAsked /\ TakeLogin
    <2>1. Leftover(parkQ) /\ LoggingOn(m) /\ m.asks = <<>> /\ Home /\ Unheard = {}
          /\ ((out = <<Submit>> /\ loginQ = <<>>) \/ (out = <<>> /\ loginQ = <<gen>>))
      BY <1>3 DEF LogonAsked
    <2>3. TakeLogin
      BY <1>3
    <2>4. out = <<>> /\ loginQ = <<gen>>
      BY <2>1, <2>3 DEF TakeLogin
    <2>5. /\ logonGen' = Head(loginQ) /\ loginQ' = Tail(loginQ) /\ Emit(Began) /\ pc' = "logon"
          /\ UNCHANGED <<gen, parkQ, appVars>>
      BY <2>3, StepsAre DEF TakeLogin, Began, Goto
    <2>6. Head(<<gen>>) = gen /\ Tail(<<gen>>) = <<>>
      OBVIOUS
    <2>7. logonGen' = gen /\ loginQ' = <<>>
      BY <2>4, <2>5, <2>6
    <2>8. Began \in News
      BY ToldIsNews DEF Began, TypeInv
    <2>9. Unheard' = {Began} /\ LostLast'
      <3>1. Unheard' = Unheard \cup {Began} /\ (LostLast /\ Lost \notin Unheard => LostLast')
        BY <2>5, <2>8, TellsOne
      <3> QED BY <1>1, <2>1, <3>1
    <2>10. LogonRuns'
      <3>1. pc' \in AtLogon /\ pc' # "publish" /\ Leftover(parkQ')
        BY <2>1, <2>5 DEF AtLogon
      <3> QED BY <2>1, <2>4, <2>5, <2>7, <2>9, <3>1 DEF LogonRuns, Home, appVars
    <2> QED BY <1>1, <2>5, <2>9, <2>10 DEF Talk, Offline, appVars
  <1>4. CASE ListAsked /\ parkQ # <<>>
    <2> DEFINE r == [ask |-> "Refresh"]
    <2>1. /\ parkQ = <<r>> /\ out = <<>> /\ loginQ = <<>> /\ Listing(m) /\ m.asks = <<>> /\ Home
          /\ Unheard = {}
      BY <1>4 DEF ListAsked, OneAsked
    <2>2. \A a : TakeAsk(a) => a = "Refresh" /\ parkQ' = <<>>
      BY <2>1, TakesOne
    <2>3. Query /\ UNCHANGED appVars
      <3>1. ~TakeLogin /\ ~TakeDial /\ ~LogonPark
        BY <2>1, <2>2 DEF TakeLogin, TakeDial, LogonPark, Ignore
      <3> QED BY <1>4, <3>1, StepsAre
    <2>4. PICK q \in Replies : Emit(List(q))
      BY <2>3 DEF Query
    <2>5. parkQ' = <<>> /\ UNCHANGED <<pc, gen, loginQ>>
      BY <2>2, <2>3 DEF Query, threadVars
    <2>6. List(q) \in News
      BY ToldIsNews DEF TypeInv
    <2>7. Unheard' = {List(q)} /\ LostLast'
      <3>1. Unheard' = Unheard \cup {List(q)} /\ (LostLast /\ Lost \notin Unheard => LostLast')
        BY <2>4, <2>6, TellsOne
      <3> QED BY <1>1, <2>1, <3>1
    <2>8. ListTold'
      BY <2>1, <2>3, <2>5, <2>7 DEF ListTold, Home, NoAsk, appVars
    <2> QED BY <1>1, <2>3, <2>7, <2>8 DEF Talk, Offline, appVars
  <1>5. CASE DialAsked /\ parkQ # <<>>
    <2>1. /\ parkQ = <<Dial>> /\ out = <<>> /\ loginQ = <<>> /\ Calling(m) /\ m.asks = <<>> /\ Home
          /\ Unheard = {}
      BY <1>5 DEF DialAsked, OneAsked
    <2>2. \A a : TakeAsk(a) => a = "Dial" /\ NextAsk = Dial /\ parkQ' = <<>>
      <3>1. Dial.ask = "Dial"
        BY DEF Dial
      <3> QED BY <2>1, <3>1, TakesOne
    <2>3. TakeDial /\ UNCHANGED appVars
      <3>1. ~TakeLogin /\ ~Query /\ ~LogonPark
        BY <2>1, <2>2 DEF TakeLogin, Query, LogonPark, Ignore
      <3> QED BY <1>5, <3>1, StepsAre
    <2>4. parkQ' = <<>> /\ dialGen' = gen /\ pc' = "dial" /\ UNCHANGED <<gen, loginQ, events>>
      BY <2>2, <2>3 DEF TakeDial, Goto, Dial
    <2>5. Unheard' = {} /\ LostLast'
      BY <1>1, <2>1, <2>4, SameChannel
    <2>6. DialRuns'
      BY <2>1, <2>3, <2>4, <2>5 DEF DialRuns, Home, NoAsk, appVars
    <2> QED BY <1>1, <2>3, <2>5, <2>6 DEF Talk, Offline, appVars
  <1>r. CASE (Rest /\ parkQ # <<>>) \/ (LogonAsked /\ ~TakeLogin)
    <2>1. Leftover(parkQ) /\ ~TakeLogin
      BY <1>r DEF Rest, LogonAsked, NoAsk, TakeLogin
    <2>2. /\ Leftover(parkQ') /\ pc' \in {"login", "park"}
          /\ UNCHANGED <<logonGen, dialGen, epoch, returns, gen, loginQ, events, appVars>>
      BY <2>1, ParkDrops
    <2>3. Unheard' = Unheard /\ LostLast'
      BY <1>1, <2>2, SameChannel
    <2>4. Rest /\ parkQ # <<>> => Rest'
      BY <2>2, <2>3 DEF Rest, NoAsk, appVars
    <2>5. LogonAsked => LogonAsked'
      BY <2>2, <2>3 DEF LogonAsked, Home, appVars
    <2> QED BY <1>1, <1>r, <2>2, <2>3, <2>4, <2>5 DEF Talk, Offline, appVars
  <1>6. \/ LogonAsked \/ (ListAsked /\ parkQ # <<>>) \/ (DialAsked /\ parkQ # <<>>)
        \/ (Rest /\ parkQ # <<>>) \/ (parkQ = <<>> /\ loginQ = <<>>)
    <2>1. /\ Rest => loginQ = <<>>
          /\ LogonListed \/ ListTold \/ DialFailed => parkQ = <<>> /\ loginQ = <<>>
      BY DEF Rest, LogonListed, ListTold, DialFailed, NoAsk
    <2>2. ListAsked \/ DialAsked => loginQ = <<>>
      BY DEF ListAsked, DialAsked
    <2>3. ~LogonRuns /\ ~LogonFailed /\ ~LogonStands /\ ~DialRuns
      BY DEF LogonRuns, AtLogon, LogonFailed, LogonStands, DialRuns
    <2> QED BY <2>1, <2>2, <2>3 DEF Offline
  <1> QED BY <1>2, <1>3, <1>r, <1>4, <1>5, <1>6

\* A dial's steps: a check of the generation never cancels it.
LEMMA CheckGoes ==
    ASSUME NEW from, NEW onward, CheckDial(from, onward), dialGen = gen
    PROVE  pc' \in onward /\ UNCHANGED <<dialGen, gen, loginQ, parkQ, events, epoch>>
  BY DEF CheckDial, Canceled, Goto, channels

LEMMA ReadOfDial ==
    ASSUME TypeInv, Talk, ReadThreadStep, DialRuns
    PROVE  Talk'
  <1>1. /\ m.asks = <<>> /\ Home /\ dialGen = gen /\ parkQ = <<>> /\ out = <<>> /\ loginQ = <<>>
        /\ Resting(m) /\ LostLast
    BY DEF DialRuns, Talk, NoAsk
  <1>2. UNCHANGED appVars
    BY StepsAre
  <1>3. ~(Linked = Hands) /\ ~(Waits = Hands) /\ \A e \in {Hands, Linked, Waits} : e # Lost /\ e \notin DialFailures
    BY DEF Linked, Hands, Waits, Stage, Lost, DialFailures
  <1>4. Unheard \subseteq {Hands, Linked, Waits} /\ Lost \notin Unheard
    BY <1>3 DEF DialRuns, Dialled, Reached
  <1>5. Hands \in News /\ Linked \in News /\ Waits \in News /\ DialFailures \subseteq News
    BY ToldIsNews DEF Hands, Linked, Waits, DialFailures, FailWords, TypeInv
  <1>q. ASSUME events' = events
        PROVE  Unheard' = Unheard /\ LostLast'
    BY <1>1, <1>q, SameChannel
  <1>t. ASSUME NEW e \in News, Emit(e)
        PROVE  Unheard' = Unheard \cup {e} /\ LostLast'
    BY <1>1, <1>4, <1>t, TellsOne
  <1>s. ASSUME DialRuns', LostLast'
        PROVE  Talk'
    BY <1>1, <1>2, <1>s DEF Talk, Offline, appVars
  \* The thread moves on in silence.
  <1>m. ASSUME events' = events, UNCHANGED <<dialGen, gen, loginQ>>, parkQ' = <<>>,
               \/ Dialled(m, Unheard) /\ pc' = "failWorld"
               \/ Reached(m, Unheard) /\ pc' \in {"failWorld", "asked", "queue", "drainWorld", "announce"}
        PROVE  Talk'
    <2>1. Unheard' = Unheard /\ LostLast'
      BY <1>m, <1>q
    <2>2. Dialled(m, Unheard)
      BY <1>m DEF Dialled
    <2>3. (pc' = "failWorld" /\ Dialled(m', Unheard')) \/
          (pc' \in {"asked", "queue", "drainWorld", "announce"} /\ Reached(m', Unheard'))
      BY <1>2, <1>m, <2>1, <2>2 DEF appVars
    <2>4. DialRuns'
      BY <1>1, <1>2, <1>m, <2>3 DEF DialRuns, Home, NoAsk, appVars
    <2> QED BY <1>s, <2>1, <2>4
  \* It tells that the link is up, or of the queue.
  <1>u. ASSUME NEW e \in {Linked, Waits}, Emit(e), UNCHANGED <<dialGen, gen, loginQ, parkQ>>, pc' = "asked",
               Reached(m, Unheard \cup {e})
        PROVE  Talk'
    <2>1. Unheard' = Unheard \cup {e} /\ LostLast'
      BY <1>5, <1>t, <1>u
    <2>2. Reached(m', Unheard')
      BY <1>2, <1>u, <2>1 DEF appVars
    <2>3. DialRuns'
      BY <1>1, <1>2, <1>u, <2>2 DEF DialRuns, Home, NoAsk, appVars
    <2> QED BY <1>s, <2>1, <2>3
  <1>6. CASE pc = "dial"
    <2>1. BeginDial /\ Calling(m) /\ Unheard = {}
      BY <1>6, StepsAre DEF DialRuns
    <2>2. pc' = "handshake" /\ UNCHANGED <<dialGen, gen, loginQ, parkQ, events>>
      BY <1>1, <2>1, CheckGoes DEF BeginDial
    <2>3. Unheard' = {} /\ LostLast'
      BY <1>q, <2>1, <2>2
    <2>4. DialRuns'
      BY <1>1, <1>2, <2>1, <2>2, <2>3 DEF DialRuns, Home, NoAsk, appVars
    <2> QED BY <1>s, <2>3, <2>4
  <1>7. CASE pc = "handshake"
    <2>1. Handshake /\ Calling(m) /\ Unheard = {}
      BY <1>7, StepsAre DEF DialRuns
    <2>2. pc' = "connecting" /\ UNCHANGED <<dialGen, gen, loginQ, parkQ>> /\ Emit(Hands)
      BY <2>1 DEF Handshake, Goto, Hands
    <2>3. Unheard' \subseteq {Hands} /\ LostLast'
      BY <1>5, <1>t, <2>1, <2>2
    <2>4. DialRuns'
      BY <1>1, <1>2, <2>1, <2>2, <2>3 DEF DialRuns, Home, NoAsk, appVars
    <2> QED BY <1>s, <2>3, <2>4
  <1>8. CASE pc = "connecting"
    <2>1. Calling(m) /\ Unheard \subseteq {Hands}
      BY <1>8 DEF DialRuns
    <2>2. CASE SocketUp
      <3>1. pc' = "asked" /\ UNCHANGED <<dialGen, gen, loginQ, parkQ>> /\ Emit(Linked)
        BY <2>2 DEF SocketUp, Goto, Linked
      <3>2. Reached(m, Unheard \cup {Linked})
        BY <2>1 DEF Reached
      <3> QED BY <1>u, <3>1, <3>2
    <2>3. CASE SocketFails
      <3>1. pc' = "failWorld" /\ UNCHANGED <<dialGen, gen, loginQ, parkQ, events>>
        BY <1>1, <2>3, CheckGoes DEF SocketFails
      <3>2. Dialled(m, Unheard)
        BY <2>1 DEF Dialled
      <3> QED BY <1>1, <1>m, <3>1, <3>2
    <2> QED BY <1>8, <2>2, <2>3, StepsAre
  <1>9. CASE pc = "asked"
    <2>1. CheckQueue /\ Reached(m, Unheard)
      BY <1>9, StepsAre DEF DialRuns
    <2>2. pc' = "queue" /\ UNCHANGED <<dialGen, gen, loginQ, parkQ, events>>
      BY <1>1, <2>1, CheckGoes DEF CheckQueue
    <2> QED BY <1>1, <1>m, <2>1, <2>2
  <1>10. CASE pc = "queue"
    <2>1. Reached(m, Unheard)
      BY <1>10 DEF DialRuns
    <2>2. CASE QueuePosition
      <3>1. pc' = "asked" /\ UNCHANGED <<dialGen, gen, loginQ, parkQ>> /\ Emit(Waits)
        BY <2>2 DEF QueuePosition, Goto, Waits
      <3>2. Reached(m, Unheard \cup {Waits})
        BY <2>1 DEF Reached
      <3> QED BY <1>u, <3>1, <3>2
    <2>3. CASE AuthEnds \/ AuthRefused
      <3>1. pc' \in {"failWorld", "drainWorld"} /\ UNCHANGED <<dialGen, gen, loginQ, parkQ, events>>
        BY <1>1, <2>3, CheckGoes DEF AuthEnds, AuthRefused
      <3> QED BY <1>1, <1>m, <2>1, <3>1
    <2> QED BY <1>10, <2>2, <2>3, StepsAre
  <1>11. CASE pc = "drainWorld"
    <2>1. DrainWorld /\ Reached(m, Unheard)
      BY <1>11, StepsAre DEF DialRuns
    <2>2. pc' = "announce" /\ UNCHANGED <<dialGen, gen, loginQ, events>> /\ parkQ' = <<>>
      BY <2>1 DEF DrainWorld, Goto, Drain
    <2> QED BY <1>m, <2>1, <2>2
  <1>12. CASE pc = "failWorld"
    <2>1. FailWorld /\ Dialled(m, Unheard)
      BY <1>12, StepsAre DEF DialRuns
    <2>2. PICK f \in DialFailures : Emit(f)
      BY <2>1 DEF FailWorld, DialFailures
    <2>3. pc' = "park" /\ UNCHANGED <<gen, loginQ, parkQ>>
      BY <2>1 DEF FailWorld, Goto
    <2>4. Unheard' = Unheard \cup {f} /\ LostLast'
      BY <1>5, <1>t, <2>2
    <2>5. f \notin Unheard /\ (Unheard \cup {f}) \ {f} = Unheard
      BY <1>3, <1>4
    <2>6. Unheard' \ {f} = Unheard
      BY <2>4, <2>5
    <2>7. f \in Unheard' /\ Dialled(m', Unheard' \ {f})
      BY <1>2, <2>1, <2>4, <2>6 DEF appVars
    <2>8. DialFailures' = DialFailures
      BY DEF DialFailures
    <2>9. DialFailed'
      BY <1>1, <1>2, <2>3, <2>7, <2>8 DEF DialFailed, Home, NoAsk, appVars
    <2> QED BY <1>1, <1>2, <2>4, <2>9 DEF Talk, Offline, appVars
  <1>13. CASE pc = "announce"
    <2> DEFINE a == [kind |-> "Auth", epoch |-> epoch + 1, gen |-> gen]
    <2>1. Announce /\ Reached(m, Unheard)
      BY <1>13, StepsAre DEF DialRuns
    <2>2. /\ pc' = "charPark" /\ epoch' = epoch + 1 /\ events' = Append(events, a)
          /\ UNCHANGED <<gen, loginQ, parkQ>>
      BY <1>1, <2>1 DEF Announce, Goto, Emit
    <2>3. a = AuthOf'
      BY <2>2 DEF AuthOf
    <2>4. events \in Seq(News \cup {a}) /\ a \in News \cup {a}
      <3>1. events \in Seq(News)
        BY MgrIs
      <3>2. ASSUME NEW S, NEW T, S \subseteq T, NEW s \in Seq(S)
            PROVE  s \in Seq(T)
        BY <3>2
      <3> HIDE DEF a
      <3> QED BY <3>1, <3>2
    <2>5. a # Lost /\ a \notin Unheard
      BY <1>4 DEF Lost, Hands, Linked, Waits, Stage
    <2> HIDE DEF a
    <2>6. Unheard' = Unheard \cup {a} /\ LostLast'
      BY <1>1, <1>4, <2>2, <2>4, ToldOne
    <2>7. Unheard' \ {a} = Unheard /\ a \in Unheard'
      BY <2>5, <2>6
    <2>8. AuthOf' \in Unheard' /\ Reached(m', Unheard' \ {AuthOf'})
      <3>1. Reached(m', Unheard' \ {a})
        BY <1>2, <2>1, <2>7 DEF appVars
      <3> QED BY <2>3, <2>7, <3>1
    <2>9. AuthTold'
      BY <1>1, <1>2, <2>2, <2>8 DEF AuthTold, Home, NoAsk, appVars
    <2> QED BY <1>1, <1>2, <2>6, <2>9 DEF Talk, Online, appVars
  <1>14. pc \in {"dial", "handshake", "connecting", "asked", "queue", "failWorld", "drainWorld", "announce"}
    BY DEF DialRuns
  <1> QED BY <1>6, <1>7, <1>8, <1>9, <1>10, <1>11, <1>12, <1>13, <1>14

\* A session that may be lost at any moment: what its loss then finds.
Losable ==
    /\ Unheard \subseteq LateNews /\ Lost \notin Unheard
    /\ \A e \in Unheard : e.kind = "Auth" => e.gen = gen
    /\ pick = NoPick \/ Silent({"List", "Roster", "Auth"})
    /\ Silent({"Auth"}) \/ Silent({"Connected", "Refused", "LoggedOut"})
    /\ \/ m.state = "Connect" /\ m.op.status = "run"
       \/ Joined(m, epoch) /\ m.state \in {"Idle", "LoginRefused", "EnterWorld"}
       \/ Joined(m, epoch) /\ CharListing(m)
    /\ m.refused => client = "InWorld" /\ next = "CharSelect"
    /\ client = "InWorld" \/ next = "InWorld" => Joined(m, epoch) /\ m.asks = <<>>
    /\ m.state = "Idle" /\ client # "InWorld" /\ next # "InWorld" =>
          Silent({"List", "Roster", "Auth", "LoggedOut", "Refused"})
    /\ m.asks = <<>> \/ (m.asks = <<RosterAsk>> /\ m.state = "CharList")
    /\ next # "Login" /\ loginQ = <<>> /\ Leftover(parkQ) /\ Leftover(out)

\* News of some kinds only, none of them a session's loss.
LEMMA QuietNews ==
    ASSUME TypeInv, Unheard \subseteq {Hands, Linked, Waits, AuthOf, Entry, Refusal, Logged} \cup Rosters
    PROVE  /\ Unheard \subseteq LateNews /\ Lost \notin Unheard
           /\ \A e \in Unheard : e.kind = "Auth" => e.gen = gen
  <1>1. Unheard \subseteq News
    BY MgrIs, UnheardTyped
  <1>2. ASSUME NEW e \in Unheard
        PROVE  /\ e.kind \notin {"List", "Failed", "Lost"} /\ e # Stage("Connecting")
               /\ e.kind = "Auth" => e.gen = gen
    <2>1. CASE e \in {Hands, Linked}
      BY <2>1 DEF Hands, Linked, Stage
    <2>2. CASE e \in {Waits, AuthOf, Entry, Refusal, Logged} \cup Rosters
      BY <2>2 DEF Waits, AuthOf, Entry, Refusal, Logged, Rosters, Stage
    <2> QED BY <1>2, <2>1, <2>2
  <1>3. Lost.kind = "Lost"
    BY DEF Lost
  <1> QED BY <1>1, <1>2, <1>3 DEF LateNews

LEMMA OnlineIsLosable ==
    ASSUME TypeInv, Online
    PROVE  Losable
  <1> DEFINE Quiet == {Hands, Linked, Waits, AuthOf, Entry, Refusal, Logged} \cup Rosters
  <1>1. Leftover(<<>>) /\ Leftover(<<RosterAsk>>) /\ Leftover(<<PickOf>>)
    BY LeftoverIs DEF RosterAsk, PickOf
  <1>2. ASSUME Unheard \subseteq Quiet
        PROVE  /\ Unheard \subseteq LateNews /\ Lost \notin Unheard
               /\ \A e \in Unheard : e.kind = "Auth" => e.gen = gen
    BY <1>2, QuietNews
  <1>3. CASE AuthTold
    <2>1. /\ AuthOf \in Unheard /\ Reached(m, Unheard \ {AuthOf}) /\ m.asks = <<>>
          /\ pick = NoPick /\ client = "Login" /\ next = "none" /\ parkQ = <<>> /\ out = <<>> /\ loginQ = <<>>
      BY <1>3 DEF AuthTold, Home, NoAsk
    <2>2. Unheard \subseteq Quiet /\ m.state = "Connect" /\ m.op.status = "run" /\ ~m.refused
      BY <2>1 DEF Reached, Calling, Queueing
    <2>3. Silent({"Connected", "Refused", "LoggedOut"})
      <3>1. \A e \in Unheard : e \in {AuthOf, Hands, Linked, Waits}
        BY <2>1 DEF Reached
      <3> QED BY <3>1 DEF Silent, AuthOf, Hands, Linked, Waits, Stage
    <2>4. m.state # "Idle" /\ next # "Login" /\ next # "InWorld" /\ client # "InWorld"
      BY <2>1, <2>2
    <2>5. Leftover(parkQ) /\ Leftover(out)
      BY <1>1, <2>1
    <2> QED BY <1>2, <2>1, <2>2, <2>3, <2>4, <2>5 DEF Losable
  <1>4. CASE RosterAwaited \/ RosterTold \/ Selecting
    <2>1. /\ Joined(m, epoch) /\ ~m.refused /\ pick = NoPick /\ loginQ = <<>>
          /\ client # "InWorld" /\ next \notin {"InWorld", "Login"}
      BY <1>4 DEF RosterAwaited, RosterTold, Selecting, Choosing
    <2>2. Unheard \subseteq Quiet
      BY <1>4 DEF RosterAwaited, RosterTold, Selecting
    <2>3. /\ CharListing(m) \/ m.state \in {"Idle", "LoginRefused"}
          /\ m.state = "Idle" => Unheard = {}
          /\ m.asks = <<>> \/ (m.asks = <<RosterAsk>> /\ m.state = "CharList")
      BY <1>4 DEF RosterAwaited, RosterTold, Selecting, CharListing
    <2>4. (parkQ = <<>> \/ parkQ = <<RosterAsk>>) /\ (out = <<>> \/ out = <<RosterAsk>>)
      BY <1>4 DEF RosterAwaited, RosterTold, Selecting, OneAsked, NoAsk
    <2>5. Leftover(parkQ) /\ Leftover(out)
      BY <1>1, <2>4
    <2>6. Silent({"Auth"}) /\ (m.state = "Idle" => Silent({"List", "Roster", "Auth", "LoggedOut", "Refused"}))
      <3>1. Unheard = {} \/ \E r \in Rosters : Unheard = {r}
        BY <1>4 DEF RosterAwaited, RosterTold, Selecting
      <3>2. \A r \in Rosters : r.kind # "Auth"
        BY DEF Rosters
      <3>3. Silent({"Auth"})
        BY <3>1, <3>2 DEF Silent
      <3> QED BY <2>3, <3>3 DEF Silent
    <2> QED BY <1>2, <2>1, <2>2, <2>3, <2>5, <2>6 DEF Losable
  <1>5. CASE PickAsked \/ PickTaken \/ PickRefused
    <2>1. /\ Joined(m, epoch) /\ ~m.refused /\ loginQ = <<>> /\ m.state = "EnterWorld" /\ m.asks = <<>>
          /\ client # "InWorld" /\ next \notin {"InWorld", "Login"}
      BY <1>5 DEF PickAsked, PickTaken, PickRefused, PickMade
    <2>2. Unheard \subseteq {Entry, Refusal}
      BY <1>5 DEF PickAsked, PickTaken, PickRefused
    <2>3. (parkQ = <<>> \/ parkQ = <<PickOf>>) /\ (out = <<>> \/ out = <<PickOf>>)
      BY <1>5 DEF PickAsked, PickTaken, PickRefused, OneAsked, NoAsk
    <2>4. Leftover(parkQ) /\ Leftover(out)
      BY <1>1, <2>3
    <2>5. Silent({"Auth"}) /\ Silent({"List", "Roster", "Auth"})
      BY <2>2 DEF Silent, Entry, Refusal
    <2>6. Unheard \subseteq Quiet
      BY <2>2
    <2> QED BY <1>2, <2>1, <2>4, <2>5, <2>6 DEF Losable
  <1>6. CASE Streamed \/ WorldLeft \/ Leaving
    <2>1. /\ Joined(m, epoch) /\ loginQ = <<>> /\ m.state \in {"EnterWorld", "Idle"} /\ m.asks = <<>>
          /\ next # "Login" /\ (m.refused => client = "InWorld" /\ next = "CharSelect")
          /\ client = "InWorld" \/ next = "InWorld"
          /\ parkQ = <<>> /\ out = <<>>
      BY <1>6 DEF Streamed, WorldLeft, Leaving, Playing, NoAsk
    <2>2. Unheard \subseteq {Logged, Refusal}
      BY <1>6 DEF Streamed, WorldLeft, Leaving
    <2>3. Leftover(parkQ) /\ Leftover(out)
      BY <1>1, <2>1
    <2>4. Silent({"Auth"}) /\ Silent({"List", "Roster", "Auth"})
      BY <2>2 DEF Silent, Logged, Refusal
    <2>5. Unheard \subseteq Quiet
      BY <2>2
    <2> QED BY <1>2, <2>1, <2>3, <2>4, <2>5 DEF Losable
  <1> QED BY <1>3, <1>4, <1>5, <1>6 DEF Online

\* The session's end told, after a failed query or not.
LEMMA LossIsTold ==
    ASSUME TypeInv, Talk, Losable, UNCHANGED <<appVars, epoch, gen, returns, loginQ>>,
           pc' = "login", Leftover(parkQ'), LostLast',
           NEW N, N \subseteq News, Unheard' = Unheard \cup N, Lost \in N,
           \A e \in N : e.kind \in {"Lost", "RosterFailed"}
    PROVE  Talk'
  <1>1. /\ m' = m /\ client' = client /\ next' = next /\ pick' = pick /\ out' = out
        /\ epoch' = epoch /\ gen' = gen /\ loginQ' = loginQ
    BY DEF appVars
  <1>2. \A kinds : kinds \cap {"Lost", "RosterFailed"} = {} =>
           ((\A e \in Unheard : e.kind \notin kinds) => \A e \in Unheard \cup N : e.kind \notin kinds)
    OBVIOUS
  <1>3. /\ Silent({"List", "Roster", "Auth"}) => Silent({"List", "Roster", "Auth"})'
        /\ Silent({"Auth"}) => Silent({"Auth"})'
        /\ Silent({"Connected", "Refused", "LoggedOut"}) => Silent({"Connected", "Refused", "LoggedOut"})'
        /\ Silent({"List", "Roster", "Auth", "LoggedOut", "Refused"}) =>
              Silent({"List", "Roster", "Auth", "LoggedOut", "Refused"})'
    BY <1>2 DEF Silent
  <1>4. LateNews' = LateNews
    BY <1>1 DEF LateNews, News
  <1>5. Stage("Connecting").kind = "Stage"
    BY DEF Stage
  <1>6. N \subseteq LateNews
    BY <1>5 DEF LateNews
  <1>7. \A e \in Unheard' : e.kind = "Auth" => e.gen = gen
    BY DEF Losable
  <1>8. Lost \in Unheard' /\ Unheard' \subseteq LateNews'
    BY <1>4, <1>6 DEF Losable
  <1>9. SessionOver'
    BY <1>1, <1>3, <1>7, <1>8 DEF Losable, SessionOver
  <1> QED BY <1>1, <1>9 DEF Talk

LEMMA LoseLinkTold ==
    ASSUME TypeInv, Talk, Online, LoseLink, UNCHANGED appVars
    PROVE  Talk'
  <1>1. Losable
    BY OnlineIsLosable
  <1>2. pc' = "login" /\ Emit(Lost) /\ UNCHANGED <<epoch, gen, returns, loginQ, parkQ>>
    BY DEF LoseLink, Goto
  <1>3. {Lost} \subseteq News /\ Lost \in {Lost} /\ \A e \in {Lost} : e.kind \in {"Lost", "RosterFailed"}
    BY ToldIsNews DEF Lost, TypeInv
  <1>4. Unheard' = Unheard \cup {Lost} /\ LostLast'
    BY <1>1, <1>2, <1>3, TellsOne DEF Losable, Talk
  <1>5. Leftover(parkQ')
    BY <1>1, <1>2 DEF Losable
  <1> QED BY <1>1, <1>2, <1>3, <1>4, <1>5, LossIsTold

\* The character park: the roster is told, the pick is taken, or the link is lost.
LEMMA ReadAtCharPark ==
    ASSUME TypeInv, Talk, ReadThreadStep, pc = "charPark", Online
    PROVE  Talk'
  <1>1. Resting(m) /\ LostLast /\ UNCHANGED appVars
    BY StepsAre DEF Talk
  <1>2. loginQ = <<>>
    BY OnlineIsLosable DEF Losable
  <1>3. CASE LoseLink
    BY <1>1, <1>3, LoseLinkTold
  <1>4. CASE parkQ = <<>>
    BY <1>1, <1>2, <1>4, QuietParks, LoseLinkTold
  <1>5. CASE RosterAwaited /\ parkQ # <<>> /\ ~LoseLink
    <2>1. /\ parkQ = <<RosterAsk>> /\ out = <<>> /\ m.asks = <<>> /\ Unheard = {} /\ Choosing /\ CharListing(m)
      BY <1>5 DEF RosterAwaited, OneAsked, NoAsk
    <2>2. \A a : TakeAsk(a) => a = "Enumerate" /\ parkQ' = <<>>
      <3>1. RosterAsk.ask = "Enumerate"
        BY DEF RosterAsk
      <3> QED BY <2>1, <3>1, TakesOne
    <2>3. Enumerate \/ EnumerateLost
      <3>1. ~TakeLogin /\ ~Query /\ ~TakeDial /\ ~LeaveSession /\ ~Play /\ ~Ignore({"Close"})
        BY <1>2, <2>2 DEF TakeLogin, Query, TakeDial, LeaveSession, Play, Ignore
      <3>2. CharPark
        BY <1>5, <3>1, StepsAre
      <3> QED BY <3>1, <3>2 DEF CharPark
    <2>4. CASE Enumerate
      <3>1. \E r \in Rosters : Emit(r)
        BY <2>4 DEF Enumerate, Rosters
      <3>2. PICK r \in Rosters : Emit(r)
        BY <3>1
      <3>3. parkQ' = <<>> /\ UNCHANGED <<pc, epoch, gen, loginQ>>
        BY <2>2, <2>4 DEF Enumerate, threadVars
      <3>4. r \in News /\ Rosters' = Rosters
        BY <3>3, ToldIsNews DEF Rosters, TypeInv
      <3>5. Unheard' = {r} /\ LostLast'
        BY <1>1, <2>1, <3>2, <3>4, TellsOne
      <3>6. Choosing'
        BY <1>1, <2>1, <3>3 DEF Choosing, appVars
      <3>7. RosterTold'
        BY <1>1, <2>1, <3>3, <3>4, <3>5, <3>6 DEF RosterTold, NoAsk, appVars
      <3> QED BY <1>1, <3>5, <3>7 DEF Talk, Online, appVars
    <2>5. CASE EnumerateLost
      <3> DEFINE f == [kind |-> "RosterFailed", epoch |-> epoch, emptied |-> FALSE]
      <3>1. /\ parkQ' = <<>> /\ pc' = "login" /\ events' = events \o <<f, Lost>>
            /\ UNCHANGED <<epoch, gen, returns, loginQ>>
        BY <2>2, <2>5 DEF EnumerateLost, Goto
      <3>2. f \in News /\ Lost \in News /\ f # Lost
        BY ToldIsNews DEF Lost, TypeInv
      <3>3. events = <<>>
        BY <2>1, MgrIs, UnheardNone
      <3>4. f.kind = "RosterFailed" /\ Lost.kind = "Lost"
        BY DEF Lost
      <3> HIDE DEF f
      <3>5. events' = <<f, Lost>>
        BY <3>1, <3>3
      <3>6. Unheard' = {f, Lost} /\ LostLast'
        <4> DEFINE s == <<f, Lost>>
        <4>1. DOMAIN s = {1, 2} /\ Len(s) = 2 /\ s[1] = f /\ s[2] = Lost
          OBVIOUS
        <4>2. events' = s
          BY <3>5
        <4> HIDE DEF s
        <4>3. DOMAIN events' = {1, 2} /\ Len(events') = 2 /\ events'[1] = f /\ events'[2] = Lost
          BY <4>1, <4>2
        <4>4. Unheard' = {f, Lost}
          BY <4>3 DEF Unheard
        <4>5. LostLast'
          BY <3>2, <4>3 DEF LostLast, Lost
        <4> QED BY <4>4, <4>5
      <3>7. Leftover(parkQ')
        BY <3>1, LeftoverIs
      <3>8. {f, Lost} \subseteq News /\ Unheard' = Unheard \cup {f, Lost}
            /\ \A e \in {f, Lost} : e.kind \in {"Lost", "RosterFailed"}
        BY <2>1, <3>2, <3>4, <3>6
      <3> QED BY <1>1, <3>1, <3>6, <3>7, <3>8, OnlineIsLosable, LossIsTold
    <2> QED BY <2>3, <2>4, <2>5
  <1>6. CASE PickAsked /\ parkQ # <<>> /\ ~LoseLink
    <2>1. parkQ = <<PickOf>> /\ out = <<>> /\ PickMade /\ Unheard = {}
      BY <1>6 DEF PickAsked, OneAsked
    <2>2. \A a : TakeAsk(a) => a = "Play" /\ parkQ' = <<>>
      <3>1. PickOf.ask = "Play"
        BY DEF PickOf
      <3> QED BY <2>1, <3>1, TakesOne
    <2>3. Play
      <3>1. /\ ~TakeLogin /\ ~Query /\ ~TakeDial /\ ~LeaveSession /\ ~Enumerate /\ ~EnumerateLost
            /\ ~Ignore({"Close"})
        BY <1>2, <2>2 DEF TakeLogin, Query, TakeDial, LeaveSession, Enumerate, EnumerateLost, Ignore
      <3>2. CharPark
        BY <1>6, <3>1, StepsAre
      <3> QED BY <3>1, <3>2 DEF CharPark
    <2>4. pc' = "stream" /\ parkQ' = <<>> /\ Emit(Entry) /\ UNCHANGED <<epoch, gen, loginQ>>
      BY <2>2, <2>3 DEF Play, Goto, Entry
    <2>5. Entry \in News
      BY ToldIsNews DEF Entry, TypeInv
    <2>6. Unheard' = {Entry} /\ LostLast'
      <3>1. Unheard' = Unheard \cup {Entry} /\ (LostLast /\ Lost \notin Unheard => LostLast')
        BY <2>4, <2>5, TellsOne
      <3> QED BY <1>1, <2>1, <3>1
    <2>7. PickTaken'
      BY <1>1, <2>1, <2>4, <2>6 DEF PickTaken, PickMade, NoAsk, appVars
    <2> QED BY <1>1, <2>6, <2>7 DEF Talk, Online, appVars
  <1>7. parkQ # <<>> => RosterAwaited \/ PickAsked
    BY DEF Online, AuthTold, RosterTold, Selecting, PickTaken, PickRefused, Streamed, WorldLeft, Leaving,
           Playing, NoAsk
  <1> QED BY <1>3, <1>4, <1>5, <1>6, <1>7

\* The world's stream, and the return behind it.
LEMMA ReadInWorld ==
    ASSUME TypeInv, Talk, ReadThreadStep, pc \in InWorld, PickTaken \/ Streamed
    PROVE  Talk'
  <1>1. Resting(m) /\ LostLast /\ UNCHANGED appVars
    BY StepsAre DEF Talk
  <1>2. Online /\ (PickTaken => client # "InWorld" /\ pc \in {"stream", "refused"})
    BY DEF Online, PickTaken, PickMade
  <1>3. Unheard \subseteq {Entry} /\ Lost \notin Unheard /\ parkQ = <<>>
    BY DEF PickTaken, Streamed, Playing, NoAsk, Entry, Lost
  <1>4. CASE LoseLink
    BY <1>1, <1>2, <1>4, LoseLinkTold
  <1>5. CASE pc = "stream" /\ ~LoseLink
    <2>1. PICK to \in {"refused", "loggedOut"} : DrainBack(to) /\ (to = "loggedOut" => client = "InWorld")
      BY <1>5, StepsAre
    <2>2. pc' = to /\ parkQ' = <<>> /\ UNCHANGED <<epoch, gen, loginQ, events>>
      BY <2>1 DEF DrainBack, Drain, Goto
    <2>3. Unheard' = Unheard /\ LostLast'
      BY <1>1, <2>2, SameChannel
    <2>4. PickTaken' \/ Streamed'
      <3>1. CASE PickTaken
        <4>1. pc' = "refused"
          BY <1>2, <2>1, <2>2, <3>1
        <4>2. PickTaken'
          BY <1>1, <2>2, <2>3, <3>1, <4>1 DEF PickTaken, PickMade, NoAsk, appVars
        <4> QED BY <4>2
      <3>2. CASE Streamed
        <4>1. Streamed'
          BY <1>1, <2>1, <2>2, <2>3, <3>2 DEF Streamed, Playing, NoAsk, appVars, InWorld
        <4> QED BY <4>1
      <3> QED BY <3>1, <3>2
    <2> QED BY <1>1, <2>3, <2>4 DEF Talk, Online, appVars
  <1>6. CASE pc \in {"loggedOut", "refused"}
    <2>1. BackToPark
      BY <1>6, StepsAre
    <2> DEFINE e == IF pc = "loggedOut" THEN Logged ELSE Refusal
    <2>2. pc' = "charPark" /\ Emit(e) /\ UNCHANGED <<epoch, gen, loginQ, parkQ>>
      BY <2>1 DEF BackToPark, Goto, Logged, Refusal
    <2>3. e \in News /\ e \in {Refusal, Logged}
      BY ToldIsNews DEF Logged, Refusal, TypeInv
    <2>4. PickTaken => e = Refusal
      BY <1>2, <1>6
    <2> HIDE DEF e
    <2>5. Unheard' = Unheard \cup {e} /\ LostLast'
      BY <1>1, <1>3, <2>2, <2>3, TellsOne
    <2>6. CASE PickTaken
      <3>1. PickRefused'
        BY <1>1, <2>2, <2>4, <2>5, <2>6 DEF PickTaken, PickRefused, PickMade, NoAsk, appVars
      <3> QED BY <1>1, <2>5, <3>1 DEF Talk, Online, appVars
    <2>7. CASE Streamed
      <3>1. Unheard' = {e}
        BY <2>5, <2>7 DEF Streamed
      <3>2. Playing'
        BY <1>1, <2>2, <2>7 DEF Streamed, Playing, NoAsk, appVars
      <3>3. WorldLeft'
        <4>1. \E r \in {Refusal, Logged} : Unheard' = {r}
          BY <2>3, <3>1
        <4> QED BY <2>2, <3>2, <4>1 DEF WorldLeft, Refusal, Logged
      <3> QED BY <1>1, <2>5, <3>3 DEF Talk, Online, appVars
    <2> QED BY <2>6, <2>7
  <1>7. pc \in {"stream", "loggedOut", "refused"}
    BY DEF InWorld
  <1> QED BY <1>4, <1>5, <1>6, <1>7

LEMMA ReadKeepsTalk ==
    ASSUME TypeInv, Talk, ReadThreadStep
    PROVE  Talk'
  <1>1. Offline \/ Online \/ SessionOver
    BY DEF Talk
  <1>2. CASE SessionOver
    <2>1. pc = "login"
      BY <1>2 DEF SessionOver
    <2> QED BY <1>2, <2>1, ReadAtLogin
  <1>3. CASE Offline
    <2>1. CASE pc = "login"
      <3>1. Rest \/ LogonAsked \/ LogonFailed \/ LogonStands
        BY <1>3, <2>1 DEF Offline, LogonRuns, AtLogon, LogonListed, ListAsked, ListTold, DialAsked, DialRuns,
                          DialFailed
      <3> QED BY <2>1, <3>1, ReadAtLogin
    <2>2. CASE pc = "park"
      BY <1>3, <2>2, ReadAtPark
    <2>3. CASE pc \notin {"login", "park"}
      <3>1. LogonRuns \/ DialRuns
        BY <1>3, <2>3 DEF Offline, Rest, LogonAsked, LogonFailed, LogonStands, LogonListed, ListAsked,
                          ListTold, DialAsked, DialFailed
      <3> QED BY <3>1, ReadOfLogon, ReadOfDial
    <2> QED BY <2>1, <2>2, <2>3
  <1>4. CASE Online
    <2>1. CASE pc = "charPark"
      BY <1>4, <2>1, ReadAtCharPark
    <2>2. CASE pc # "charPark"
      <3>1. PickTaken \/ Streamed
        BY <1>4, <2>2 DEF Online, AuthTold, RosterAwaited, RosterTold, Selecting, Choosing, PickAsked, PickRefused,
                          WorldLeft, Leaving
      <3>2. pc \in InWorld
        BY <3>1 DEF PickTaken, Streamed, InWorld
      <3> QED BY <3>1, <3>2, ReadInWorld
    <2> QED BY <2>1, <2>2
  <1> QED BY <1>1, <1>2, <1>3, <1>4

----------------------------------------------------------------------------
(* The conversation is kept.                                               *)

LEMMA InitTalks ==
    ASSUME Init
    PROVE  Talk
  <1>1. /\ pc = "login" /\ loginQ = <<>> /\ parkQ = <<>> /\ events = <<>> /\ out = <<>>
        /\ m = Manager /\ client = "Login" /\ next = "none" /\ pick = NoPick
    BY DEF Init, ReadInit
  <1>2. Idling(Manager) /\ Resting(Manager) /\ Manager.asks = <<>> /\ ~Manager.list
    BY DEF Manager, Idling, Down, Resting
  <1>3. Unheard = {} /\ LostLast
    BY <1>1 DEF Unheard, LostLast
  <1>4. Leftover(<<>>)
    BY LeftoverIs
  <1>5. Rest
    BY <1>1, <1>2, <1>3, <1>4 DEF Rest
  <1> QED BY <1>1, <1>2, <1>3, <1>5 DEF Talk, Offline

\* A step that changes nothing.
LEMMA SameTalk ==
    ASSUME Talk, UNCHANGED vars
    PROVE  Talk'
  <1>1. /\ pc' = pc /\ logonGen' = logonGen /\ dialGen' = dialGen /\ epoch' = epoch /\ returns' = returns
        /\ gen' = gen /\ loginQ' = loginQ /\ parkQ' = parkQ /\ events' = events
        /\ m' = m /\ client' = client /\ next' = next /\ pick' = pick /\ out' = out
    BY DEF vars, readVars, threadVars, channels, appVars
  <1>2. Unheard' = Unheard /\ (LostLast => LostLast')
    BY <1>1, SameChannel
  <1>3. Dial' = Dial /\ PickOf' = PickOf /\ AuthOf' = AuthOf /\ Rosters' = Rosters
    BY <1>1 DEF Dial, PickOf, AuthOf, Rosters
  <1>4. News' = News
    BY <1>1 DEF News
  <1>5. LateNews' = LateNews
    BY <1>4 DEF LateNews
  <1>6. \A kinds : (\A e \in Unheard : e.kind \notin kinds) => \A e \in Unheard' : e.kind \notin kinds
    BY <1>2
  <1>7. /\ Rest => Rest'
        /\ LogonAsked => LogonAsked'
        /\ LogonRuns => LogonRuns'
    BY <1>1, <1>2 DEF Rest, LogonAsked, LogonRuns, NoAsk, Home
  <1>8. /\ LogonFailed => LogonFailed'
        /\ LogonStands => LogonStands'
        /\ LogonListed => LogonListed'
        /\ ListAsked => ListAsked'
        /\ ListTold => ListTold'
    BY <1>1, <1>2 DEF LogonFailed, LogonStands, LogonListed, ListAsked, ListTold, NoAsk, OneAsked, Home
  <1>9. /\ DialAsked => DialAsked'
        /\ DialRuns => DialRuns'
        /\ AuthTold => AuthTold'
    <2>1. DialAsked => DialAsked'
      BY <1>1, <1>2, <1>3 DEF DialAsked, NoAsk, OneAsked, Home
    <2>2. DialRuns => DialRuns'
      BY <1>1, <1>2 DEF DialRuns, NoAsk, Home
    <2>3. AuthTold => AuthTold'
      <3>1. ASSUME AuthTold
            PROVE  AuthOf' \in Unheard' /\ Reached(m', Unheard' \ {AuthOf'})
        <4>1. AuthOf \in Unheard /\ Reached(m, Unheard \ {AuthOf})
          BY <3>1 DEF AuthTold
        <4> QED BY <1>1, <1>2, <1>3, <4>1
      <3> QED BY <1>1, <3>1 DEF AuthTold, NoAsk, Home
    <2> QED BY <2>1, <2>2, <2>3
  <1>10. DialFailed => DialFailed'
    <2>1. DialFailures' = DialFailures
      BY DEF DialFailures
    <2> QED BY <1>1, <1>2, <2>1 DEF DialFailed, NoAsk, Home
  <1>11. /\ RosterAwaited => RosterAwaited'
         /\ RosterTold => RosterTold'
         /\ Selecting => Selecting'
    BY <1>1, <1>2, <1>3 DEF RosterAwaited, RosterTold, Selecting, Choosing, NoAsk, OneAsked
  <1>12. /\ PickAsked => PickAsked'
         /\ PickTaken => PickTaken'
         /\ PickRefused => PickRefused'
    BY <1>1, <1>2, <1>3 DEF PickAsked, PickTaken, PickRefused, PickMade, NoAsk, OneAsked
  <1>13. /\ Streamed => Streamed'
         /\ WorldLeft => WorldLeft'
         /\ Leaving => Leaving'
    BY <1>1, <1>2 DEF Streamed, WorldLeft, Leaving, Playing, NoAsk
  <1>14. SessionOver => SessionOver'
    <2>1. /\ Silent({"List", "Roster", "Auth"}) => Silent({"List", "Roster", "Auth"})'
          /\ Silent({"Auth"}) => Silent({"Auth"})'
          /\ Silent({"Connected", "Refused", "LoggedOut"}) => Silent({"Connected", "Refused", "LoggedOut"})'
          /\ Silent({"List", "Roster", "Auth", "LoggedOut", "Refused"}) =>
                Silent({"List", "Roster", "Auth", "LoggedOut", "Refused"})'
      BY <1>6 DEF Silent
    <2> QED BY <1>1, <1>2, <1>5, <2>1 DEF SessionOver
  <1>15. Resting(m) => Resting(m)'
    BY <1>1
  <1> QED BY <1>2, <1>7, <1>8, <1>9, <1>10, <1>11, <1>12, <1>13, <1>14, <1>15 DEF Talk, Offline, Online

LEMMA NextKeepsTalk ==
    ASSUME TypeInv, Ordinary, Talk, [Next]_vars
    PROVE  Talk'
  <1>1. CASE Transition
    BY <1>1, TransitionKeepsTalk
  <1>2. CASE IdleFrame
    BY <1>2, FrameKeepsTalk DEF IdleFrame, Pressing
  <1>3. CASE PressFrame
    BY <1>3, FrameKeepsTalk DEF PressFrame, Pressing
  <1>4. CASE Send
    BY <1>4, SendKeepsTalk
  <1>5. CASE ReadThreadStep
    BY <1>5, ReadKeepsTalk
  <1>6. CASE UNCHANGED vars
    BY <1>6, SameTalk
  <1> QED BY <1>1, <1>2, <1>3, <1>4, <1>5, <1>6 DEF Next

\* The conversation stays in its stages: behind every ask of the manager stands the ask on its
\* way, the thread's work on it, or the answer told (glue_session/, net/io.rs::run and world).
THEOREM TalkHolds ==
    ASSUME Ordinary
    PROVE  Spec => [](TypeInv /\ Talk)
  <1>1. Init => Talk
    BY InitTalks
  <1>2. TypeInv /\ Talk /\ [Next]_vars => Talk'
    BY NextKeepsTalk
  <1>3. Spec => []TypeInv
    BY TypeInvHolds
  <1> QED BY <1>1, <1>2, <1>3, PTL DEF Spec

----------------------------------------------------------------------------
(* What holds when a conversation rests.                                   *)

\* Nothing asked, told or owed: the session is at rest, at the selection or in the world, or its
\* logon dialog stands.
LEMMA SettledIs ==
    ASSUME TypeInv, Talk, Settled
    PROVE  /\ m.state = "Idle" \/ DialogStands(m)
           /\ Rest \/ LogonStands \/ Selecting \/ (Streamed /\ pc = "stream" /\ client = "InWorld")
  <1>1. /\ parkQ = <<>> /\ loginQ = <<>> /\ out = <<>> /\ next = "none" /\ events = <<>> /\ m.asks = <<>>
        /\ pc \in {"login", "park", "charPark", "stream"} /\ DriveGlueMgr(m, <<>>) = m
    BY DEF Settled, FrameOwed
  <1>2. Unheard = {}
    BY <1>1, MgrIs, UnheardNone
  <1>3. DriveGlueMgr(m, events) = m
    BY <1>1
  <1>4. m \in Mgrs /\ 0 \in Links /\ events \in Seq(News)
    BY MgrIs
  <1>5. ~m.reconnect /\ ~m.authFinal
    BY DEF Talk, Resting
  <1>6. Rest \/ LogonStands \/ Selecting \/ Streamed
    <2>1. ~LogonAsked /\ ~LogonRuns /\ ~LogonFailed /\ ~LogonListed
      BY <1>1, <1>2 DEF LogonAsked, LogonRuns, LogonFailed, LogonListed, AtLogon
    <2>2. ~ListAsked /\ ~ListTold /\ ~DialAsked
      BY <1>1, <1>2 DEF ListAsked, ListTold, DialAsked, OneAsked
    <2>3. ~DialRuns /\ ~DialFailed /\ ~AuthTold
      BY <1>1, <1>2 DEF DialRuns, DialFailed, AuthTold
    <2>4. ~RosterAwaited /\ ~RosterTold
      BY <1>1, <1>2 DEF RosterAwaited, RosterTold, OneAsked
    <2>5. ~PickAsked /\ ~PickTaken /\ ~PickRefused
      BY <1>1, <1>2 DEF PickAsked, PickTaken, PickRefused, OneAsked
    <2>6. ~WorldLeft /\ ~Leaving /\ ~SessionOver
      BY <1>1, <1>2 DEF WorldLeft, Leaving, SessionOver
    <2> QED BY <2>1, <2>2, <2>3, <2>4, <2>5, <2>6 DEF Talk, Offline, Online
  <1>7. CASE Rest
    BY <1>7 DEF Rest, Idling, Down
  <1>8. CASE Selecting
    <2>1. client # "InWorld" /\ ~m.refused /\ Joined(m, epoch) /\ m.state \in {"Idle", "LoginRefused"}
      BY <1>1, <1>8 DEF Selecting, Choosing
    <2>u. Unheard \subseteq {Entry}
      BY <1>2
    <2>2. DriveGlueMgr(m, events) = Run(m)
      BY <1>4, <1>5, <2>u, <2>1, DriveStill
    <2>3. m.state # "LoginRefused"
      <3>1. ASSUME m.state = "LoginRefused"
            PROVE  CharListing(Run(m))
        BY <1>4, <1>5, <2>1, <3>1, RefusedAsks
      <3>2. Run(m) = m
        BY <1>3, <2>2
      <3> QED BY <3>1, <3>2 DEF CharListing
    <2> QED BY <1>8, <2>1, <2>3
  <1>9. CASE Streamed
    <2>1. client = "InWorld" /\ Joined(m, epoch) /\ pc = "stream"
      BY <1>1, <1>9 DEF Streamed, Playing, InWorld
    <2>2. epoch \in Links
      BY MgrIs
    <2>3. DriveGlueMgr(m, events).state = "Idle"
      BY <1>2, <1>4, <1>5, <2>1, <2>2, DriveWorld
    <2> QED BY <1>3, <1>9, <2>1, <2>3
  <1>10. CASE LogonStands
    BY <1>10 DEF LogonStands, StandsUp, LogonUp, DialogStands
  <1> QED BY <1>6, <1>7, <1>8, <1>9, <1>10

LEMMA SettledTells ==
    ASSUME TypeInv, Talk
    PROVE  NoDialogLeftWaiting /\ LinkFlagIsTrue /\ ParkedSessionIsKnown /\ WorldIsStreamed
           /\ PickEndsWithItsWorld
  <1>1. ASSUME Settled
        PROVE  /\ m.state = "Idle" \/ DialogStands(m)
               /\ next = "none"
               /\ Rest \/ LogonStands \/ Selecting \/ (Streamed /\ pc = "stream" /\ client = "InWorld")
    BY <1>1, SettledIs DEF Settled
  <1>2. Rest /\ next = "none" => ~m.connected /\ pc \in {"login", "park"} /\ client = "Login" /\ pick = NoPick
    BY DEF Rest, Idling, Down
  <1>3. Selecting /\ next = "none" => m.connected /\ pc = "charPark" /\ client = "CharSelect" /\ pick = NoPick
    BY DEF Selecting, Choosing, Joined
  <1>4. Streamed => m.connected
    BY DEF Streamed, Playing, Joined
  <1>5. LogonStands => ~m.connected /\ pc = "login" /\ client = "Login" /\ pick = NoPick
    BY DEF LogonStands, StandsUp, LogonUp, Home
  <1> QED BY <1>1, <1>2, <1>3, <1>4, <1>5
          DEF NoDialogLeftWaiting, LinkFlagIsTrue, ParkedSessionIsKnown, WorldIsStreamed, PickEndsWithItsWorld

\* The pick that enters the world is the one made off the roster that stands.
LEMMA EntersByItsPick ==
    ASSUME TypeInv, Talk, [Next]_vars, Entering
    PROVE  NextAsk = PickOf
  <1>1. pc = "charPark" /\ pc' = "stream"
    BY DEF Entering
  <1>2. ReadThreadStep
    <2>1. ~Transition /\ ~IdleFrame /\ ~PressFrame /\ ~Send /\ ~UNCHANGED vars
      <3>1. AppStep \/ UNCHANGED readVars => pc' = pc
        BY DEF AppStep, readVars, threadVars
      <3>2. UNCHANGED vars => pc' = pc
        BY DEF vars, readVars, threadVars
      <3> QED BY <1>1, <3>1, <3>2, AppActs
    <2> QED BY <2>1 DEF Next
  <1>3. TakeLogin \/ Query \/ TakeDial \/ CharPark \/ LoseLink
    BY <1>1, <1>2, StepsAre
  <1>4. ~TakeLogin /\ ~Query /\ ~TakeDial /\ ~LoseLink
    BY <1>1 DEF TakeLogin, Query, TakeDial, LoseLink, Goto, threadVars
  <1>5. ~LeaveSession /\ ~Enumerate /\ ~EnumerateLost /\ ~Ignore({"Close"})
    BY <1>1 DEF LeaveSession, Enumerate, EnumerateLost, Ignore, Goto, threadVars
  <1>6. Play
    BY <1>3, <1>4, <1>5 DEF CharPark
  <1>7. TakeAsk("Play")
    BY <1>6 DEF Play
  <1>8. Online
    BY <1>1 DEF Talk, SessionOver, Offline, Rest, LogonAsked, LogonRuns, AtLogon, LogonFailed, LogonStands,
                LogonListed, ListAsked, ListTold, DialAsked, DialRuns, DialFailed
  <1>9. parkQ # <<>>
    BY <1>7, TakesOne
  <1>10. RosterAwaited \/ PickAsked
    BY <1>8, <1>9 DEF Online, AuthTold, RosterTold, Selecting, PickTaken, PickRefused, Streamed, WorldLeft, Leaving,
                      Playing, NoAsk
  <1>11. CASE RosterAwaited
    <2>1. parkQ = <<RosterAsk>> /\ RosterAsk.ask = "Enumerate"
      BY <1>9, <1>11 DEF RosterAwaited, OneAsked, NoAsk, RosterAsk
    <2> QED BY <1>7, <2>1, TakesOne
  <1>12. CASE PickAsked
    <2>1. parkQ = <<PickOf>>
      BY <1>9, <1>12 DEF PickAsked, OneAsked
    <2> QED BY <1>7, <2>1, TakesOne
  <1> QED BY <1>10, <1>11, <1>12

----------------------------------------------------------------------------
(* For every bound on the links and the presses, whether the realm is      *)
(* known or not, as long as the player presses nothing but what logs on,   *)
(* what ends a logon dialog left standing, what the realm list of the      *)
(* login screen offers, and what enters the world, and no frame that       *)
(* drains a loss races another of its systems.                             *)

\* With every request answered and the thread parked, no dialog waits but the one that a 0x0A
\* left to the player: what a screen waits for is always asked, being answered, or told.
THEOREM DialogsAreAnswered ==
    ASSUME Ordinary
    PROVE  Spec => []NoDialogLeftWaiting
  <1>1. TypeInv /\ Talk => NoDialogLeftWaiting
    BY SettledTells
  <1> QED BY <1>1, TalkHolds, PTL

\* The manager's link flag (IsConnectedToServer) says what the read thread holds.
THEOREM LinkFlagHolds ==
    ASSUME Ordinary
    PROVE  Spec => []LinkFlagIsTrue
  <1>1. TypeInv /\ Talk => LinkFlagIsTrue
    BY SettledTells
  <1> QED BY <1>1, TalkHolds, PTL

\* No world session stands at the character park that the screens know nothing of.
THEOREM ParkedSessionShows ==
    ASSUME Ordinary
    PROVE  Spec => []ParkedSessionIsKnown
  <1>1. TypeInv /\ Talk => ParkedSessionIsKnown
    BY SettledTells
  <1> QED BY <1>1, TalkHolds, PTL

\* The app is in the world exactly while the thread streams it.
THEOREM WorldStreams ==
    ASSUME Ordinary
    PROVE  Spec => []WorldIsStreamed
  <1>1. TypeInv /\ Talk => WorldIsStreamed
    BY SettledTells
  <1> QED BY <1>1, TalkHolds, PTL

\* With no pick made in the frame of the loss (Ordinary leaves that race out), a pick outlives
\* no world: behind a return or a loss none is left to answer the next roster with.
THEOREM PickEnds ==
    ASSUME Ordinary
    PROVE  Spec => []PickEndsWithItsWorld
  <1>1. TypeInv /\ Talk => PickEndsWithItsWorld
    BY SettledTells
  <1> QED BY <1>1, TalkHolds, PTL

\* The world is entered only by a pick made off the roster of the link it is entered on,
\* however many links were made and lost before it.
THEOREM EntersItsLink ==
    ASSUME Ordinary
    PROVE  Spec => PlayOfThisLink
  <1>1. TypeInv /\ Talk /\ [Next]_vars => [Entering => NextAsk.epoch = epoch]_vars
    BY EntersByItsPick DEF PickOf
  <1> QED BY <1>1, TalkHolds, PTL DEF Spec, PlayOfThisLink

\* A pick made before a logout or a refusal was heard of enters no world behind it.
THEOREM EntersOnItsReturn ==
    ASSUME Ordinary
    PROVE  Spec => PlayAfterReturn
  <1>1. TypeInv /\ Talk /\ [Next]_vars => [Entering => NextAsk.era = returns]_vars
    BY EntersByItsPick DEF PickOf
  <1> QED BY <1>1, TalkHolds, PTL DEF Spec, PlayAfterReturn
====
