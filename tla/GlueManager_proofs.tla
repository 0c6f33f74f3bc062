------------------------- MODULE GlueManager_proofs -------------------------
(***************************************************************************)
(* Every operator of the glue manager keeps a manager's types, and a       *)
(* manager pumped has nothing left to run.                                 *)
(*                                                                         *)
(* The type of a manager is stated over the links it may name, the world   *)
(* returns it may have counted and the values authWaits may have; a frame  *)
(* changes none of them.  The outbox is run by a recursive function, whose *)
(* existence is shown by induction (ChainExists); what holds of every      *)
(* manager along it follows from ChainStays.                               *)
(***************************************************************************)
EXTENDS GlueManager, NaturalsInduction, WellFoundedInduction, TLAPS

----------------------------------------------------------------------------
(* Recursion over a list.                                                  *)

\* A set that holds 0 and every number's successor holds every number.
LEMMA NatSetInduction ==
    ASSUME NEW S, 0 \in S, \A n \in Nat : n \in S => n + 1 \in S
    PROVE  Nat \subseteq S
  <1> SUFFICES ASSUME NEW k \in Nat, k \notin S
               PROVE  FALSE
    OBVIOUS
  <1> DEFINE R    == OpToRel(<, Nat)
             rest == Nat \ S
  <1>1. IsWellFoundedOn(R, Nat)
    BY NatLessThanWellFounded
  <1>2. \A i, j \in Nat : <<j, i>> \in R <=> j < i
    BY DEF OpToRel
  <1> HIDE DEF R
  <1>3. rest \subseteq Nat /\ rest # {}
    OBVIOUS
  <1>4. PICK least \in rest : \A j \in rest : ~(<<j, least>> \in R)
    BY <1>1, <1>3, WFMin
  <1>5. \A j \in rest : ~(j < least)
    BY <1>2, <1>4
  <1>6. least # 0 /\ least - 1 \in Nat /\ least - 1 \in S
    BY <1>5
  <1> QED BY <1>6

\* What each step of a chain keeps holds all along it.
LEMMA ChainStays ==
    ASSUME NEW N \in Nat, NEW f, NEW X, f[0] \in X,
           \A i \in 1 .. N : f[i - 1] \in X => f[i] \in X
    PROVE  \A i \in 0 .. N : f[i] \in X
  <1> DEFINE S == {n \in Nat : n <= N => f[n] \in X}
  <1>1. 0 \in S
    OBVIOUS
  <1>2. ASSUME NEW n \in Nat, n \in S
        PROVE  n + 1 \in S
    <2> SUFFICES ASSUME n + 1 <= N
                 PROVE  f[n + 1] \in X
      OBVIOUS
    <2>1. n + 1 \in 1 .. N /\ (n + 1) - 1 = n /\ f[n] \in X
      BY <1>2
    <2> QED BY <2>1
  <1>3. Nat \subseteq S
    BY <1>1, <1>2, NatSetInduction
  <1> QED BY <1>3

\* f runs a list of functions over X, from x.
IsChain(f, N, X, x, s) ==
    f \in [0 .. N -> X] /\ f[0] = x /\ \A i \in 1 .. N : f[i] = s[i][f[i - 1]]

\* The chain of a list of functions exists.
LEMMA ChainExists ==
    ASSUME NEW N \in Nat, NEW X, NEW x \in X, NEW s \in [1 .. N -> [X -> X]]
    PROVE  \E f : IsChain(f, N, X, x, s)
  <1> DEFINE Chain(f, n) == f[0] = x /\ \A i \in 1 .. n : f[i] = s[i][f[i - 1]]
             S == {n \in Nat : n <= N => \E f \in [0 .. n -> X] : Chain(f, n)}
  <1>1. 0 \in S
    <2>1. [i \in 0 .. 0 |-> x] \in [0 .. 0 -> X] /\ Chain([i \in 0 .. 0 |-> x], 0)
      OBVIOUS
    <2> QED BY <2>1
  <1>2. ASSUME NEW n \in Nat, n \in S
        PROVE  n + 1 \in S
    <2> SUFFICES ASSUME n + 1 <= N
                 PROVE  \E f \in [0 .. n + 1 -> X] : Chain(f, n + 1)
      OBVIOUS
    <2>1. PICK g \in [0 .. n -> X] : Chain(g, n)
      BY <1>2
    <2> DEFINE f == [i \in 0 .. n + 1 |-> IF i = n + 1 THEN s[n + 1][g[n]] ELSE g[i]]
    <2>2. s[n + 1] \in [X -> X] /\ g[n] \in X
      OBVIOUS
    <2>3. s[n + 1][g[n]] \in X
      BY <2>2
    <2>4. f \in [0 .. n + 1 -> X]
      BY <2>3
    <2>5. f[0] = x
      BY <2>1
    <2>6. ASSUME NEW i \in 1 .. n + 1
          PROVE  f[i] = s[i][f[i - 1]]
      <3>1. CASE i = n + 1
        <4>1. f[i - 1] = g[n]
          BY <3>1
        <4> QED BY <3>1, <4>1
      <3>2. CASE i # n + 1
        <4>1. i \in 1 .. n /\ i - 1 \in 0 .. n /\ i - 1 # n + 1 /\ i - 1 \in 0 .. n + 1
          BY <3>2
        <4>2. f[i] = g[i] /\ f[i - 1] = g[i - 1]
          BY <4>1, <3>2
        <4>3. g[i] = s[i][g[i - 1]]
          BY <2>1, <4>1
        <4> QED BY <4>2, <4>3
      <3> QED BY <3>1, <3>2
    <2> QED BY <2>4, <2>5, <2>6
  <1>3. Nat \subseteq S
    BY <1>1, <1>2, NatSetInduction
  <1> QED BY <1>3 DEF IsChain

----------------------------------------------------------------------------
(* The type of a manager at work.                                          *)

ParkAsks(L, E) == [ask : {"Play"}, epoch : L, era : E]
                  \cup [ask : {"Dial", "Enumerate", "Refresh", "Leave"}]

\* An operation: only a connect and a realm query await a realm list.
Ops == {op \in [kind : OpKinds, status : Statuses, awaiting : BOOLEAN] :
           op.awaiting => op.kind \in {"Connect", "GetRealms"}}

CellStates == {"none", "connecting", "authenticated", "failed", "patch"}

\* L: the links it may name; E: the world returns it may count; W: what authWaits may be.
Working(L, E, W) ==
    [state : States, cells : CellStates, stands : BOOLEAN,
     authFinal : BOOLEAN, authWaits : W, connected : BOOLEAN, reconnect : BOOLEAN,
     op : Ops, holder : BOOLEAN, selected : BOOLEAN, link : L, roster : L, rows : L,
     refused : BOOLEAN, outbox : Seq(Steps), logins : Seq(LoginAsks),
     asks : Seq(ParkAsks(L, E)), screen : {"login", "charselect"}, list : BOOLEAN]

\* A manager whose outbox has been run out.
Rested(L, E, W) == {x \in Working(L, E, W) : x.outbox = <<>>}

\* A field of its type put into a manager leaves it one.
LEMMA FieldTyped ==
    ASSUME NEW L, NEW E, NEW W, NEW x \in Working(L, E, W)
    PROVE  /\ \A v \in States : [x EXCEPT !.state = v] \in Working(L, E, W)
           /\ \A v \in CellStates : [x EXCEPT !.cells = v] \in Working(L, E, W)
           /\ \A v \in BOOLEAN : [x EXCEPT !.authFinal = v] \in Working(L, E, W)
           /\ \A v \in W : [x EXCEPT !.authWaits = v] \in Working(L, E, W)
           /\ \A v \in BOOLEAN : [x EXCEPT !.connected = v] \in Working(L, E, W)
           /\ \A v \in BOOLEAN : [x EXCEPT !.reconnect = v] \in Working(L, E, W)
           /\ \A v \in Ops : [x EXCEPT !.op = v] \in Working(L, E, W)
           /\ \A v \in BOOLEAN : [x EXCEPT !.holder = v] \in Working(L, E, W)
           /\ \A v \in BOOLEAN : [x EXCEPT !.selected = v] \in Working(L, E, W)
           /\ \A v \in L : [x EXCEPT !.link = v] \in Working(L, E, W)
           /\ \A v \in L : [x EXCEPT !.roster = v] \in Working(L, E, W)
           /\ \A v \in L : [x EXCEPT !.rows = v] \in Working(L, E, W)
           /\ \A v \in BOOLEAN : [x EXCEPT !.refused = v] \in Working(L, E, W)
           /\ \A v \in Seq(Steps) : [x EXCEPT !.outbox = v] \in Working(L, E, W)
           /\ \A v \in Seq(LoginAsks) : [x EXCEPT !.logins = v] \in Working(L, E, W)
           /\ \A v \in Seq(ParkAsks(L, E)) : [x EXCEPT !.asks = v] \in Working(L, E, W)
           /\ \A v \in {"login", "charselect"} : [x EXCEPT !.screen = v] \in Working(L, E, W)
           /\ \A v \in BOOLEAN : [x EXCEPT !.list = v] \in Working(L, E, W)
           /\ \A v \in BOOLEAN : [x EXCEPT !.stands = v] \in Working(L, E, W)
  <1>1. \A v \in States : [x EXCEPT !.state = v] \in Working(L, E, W)
    BY DEF Working
  <1>2. \A v \in CellStates : [x EXCEPT !.cells = v] \in Working(L, E, W)
    BY DEF Working
  <1>3. \A v \in BOOLEAN : [x EXCEPT !.authFinal = v] \in Working(L, E, W)
    BY DEF Working
  <1>4. \A v \in W : [x EXCEPT !.authWaits = v] \in Working(L, E, W)
    BY DEF Working
  <1>5. \A v \in BOOLEAN : [x EXCEPT !.connected = v] \in Working(L, E, W)
    BY DEF Working
  <1>6. \A v \in BOOLEAN : [x EXCEPT !.reconnect = v] \in Working(L, E, W)
    BY DEF Working
  <1>7. \A v \in Ops : [x EXCEPT !.op = v] \in Working(L, E, W)
    BY DEF Working
  <1>8. \A v \in BOOLEAN : [x EXCEPT !.holder = v] \in Working(L, E, W)
    BY DEF Working
  <1>9. \A v \in BOOLEAN : [x EXCEPT !.selected = v] \in Working(L, E, W)
    BY DEF Working
  <1>10. \A v \in L : [x EXCEPT !.link = v] \in Working(L, E, W)
    BY DEF Working
  <1>11. \A v \in L : [x EXCEPT !.roster = v] \in Working(L, E, W)
    BY DEF Working
  <1>12. \A v \in L : [x EXCEPT !.rows = v] \in Working(L, E, W)
    BY DEF Working
  <1>13. \A v \in BOOLEAN : [x EXCEPT !.refused = v] \in Working(L, E, W)
    BY DEF Working
  <1>14. \A v \in Seq(Steps) : [x EXCEPT !.outbox = v] \in Working(L, E, W)
    BY DEF Working
  <1>15. \A v \in Seq(LoginAsks) : [x EXCEPT !.logins = v] \in Working(L, E, W)
    BY DEF Working
  <1>16. \A v \in Seq(ParkAsks(L, E)) : [x EXCEPT !.asks = v] \in Working(L, E, W)
    BY DEF Working
  <1>17. \A v \in {"login", "charselect"} : [x EXCEPT !.screen = v] \in Working(L, E, W)
    BY DEF Working
  <1>18. \A v \in BOOLEAN : [x EXCEPT !.list = v] \in Working(L, E, W)
    BY DEF Working
  <1>19. \A v \in BOOLEAN : [x EXCEPT !.stands = v] \in Working(L, E, W)
    BY DEF Working
  <1> QED BY <1>1, <1>2, <1>3, <1>4, <1>5, <1>6, <1>7, <1>8, <1>9,
             <1>10, <1>11, <1>12, <1>13, <1>14, <1>15, <1>16, <1>17, <1>18, <1>19

\* The names by which a manager's fields are set.
LEMMA Names ==
    /\ {"none", "connecting", "authenticated", "failed", "patch"} \subseteq CellStates
    /\ {"Idle", "Logon", "Connect", "CharList", "RealmList", "EnterWorld", "LoginRefused"} \subseteq States
    /\ {"Connect", "Auth", "GetRealms", "CharList", "Login"} \subseteq OpKinds
    /\ {"run", "ok", "cancelled", "failed", "authFailed"} \subseteq Statuses
    /\ {"Submit", "Abandon", "CancelWorld", "Disconnect", "CloseLink"} \subseteq LoginAsks
    /\ {"Logon", "CharList", "RealmList", "Connect", "Idle", "LogonPastDialog", "BeginAuth",
        "Authenticated", "WorldFailed", "WorldCancelled", "WorldAuthFailed", "RaiseRealmList",
        "RequestRealmList", "Okay", "Teardown", "CharSelect", "LoginFromSelect",
        "Disconnected", "Roster", "Rebuild"} \subseteq Steps
  BY DEF States, OpKinds, Statuses, LoginAsks, Steps, CellStates

LEMMA OpTyped ==
    /\ \A k \in OpKinds : Begun(k) \in Ops
    /\ DefaultOp \in Ops
    /\ \A op \in Ops, s \in Statuses : [op EXCEPT !.status = s] \in Ops
    /\ \A op \in Ops : [op EXCEPT !.awaiting = FALSE] \in Ops
  <1>1. \A k \in OpKinds : Begun(k) \in Ops
    <2> SUFFICES ASSUME NEW k \in OpKinds
                 PROVE  Begun(k) \in Ops
      OBVIOUS
    <2>1. (k \in {"Connect", "GetRealms"}) \in BOOLEAN
      OBVIOUS
    <2>2. "run" \in Statuses
      BY DEF Statuses
    <2> QED BY <2>1, <2>2, Zenon DEF Begun, Ops
  <1>2. DefaultOp \in Ops
    BY DEF DefaultOp, Ops, OpKinds, Statuses
  <1>3. \A op \in Ops, s \in Statuses : [op EXCEPT !.status = s] \in Ops
    BY DEF Ops
  <1>4. \A op \in Ops : [op EXCEPT !.awaiting = FALSE] \in Ops
    BY DEF Ops
  <1> QED BY <1>1, <1>2, <1>3, <1>4

\* What a manager at work may raise, and what it asks the login engine and the read thread.
LEMMA ListsTyped ==
    ASSUME NEW L, NEW E
    PROVE  /\ \A a \in Steps : <<a>> \in Seq(Steps)
           /\ \A a, b \in Steps : <<a, b>> \in Seq(Steps)
           /\ \A a, b, c \in Steps : <<a, b, c>> \in Seq(Steps)
           /\ \A a \in {"Dial", "Enumerate", "Refresh", "Leave"} : [ask |-> a] \in ParkAsks(L, E)
           /\ \A l \in L, e \in E : [ask |-> "Play", epoch |-> l, era |-> e] \in ParkAsks(L, E)
  BY DEF ParkAsks

LEMMA RaiseTyped ==
    ASSUME NEW L, NEW E, NEW W, NEW x \in Working(L, E, W), NEW s \in Seq(Steps)
    PROVE  Raise(x, s) \in Working(L, E, W)
  <1>1. x.outbox \o s \in Seq(Steps)
    BY DEF Working
  <1> QED BY <1>1, FieldTyped DEF Raise

LEMMA RaisesTyped ==
    ASSUME NEW L, NEW E, NEW W, NEW x \in Working(L, E, W)
    PROVE  /\ \A a \in Steps : Raise(x, <<a>>) \in Working(L, E, W)
           /\ \A a, b \in Steps : Raise(x, <<a, b>>) \in Working(L, E, W)
           /\ \A a, b, c \in Steps : Raise(x, <<a, b, c>>) \in Working(L, E, W)
  BY RaiseTyped, ListsTyped

LEMMA AskLoginTyped ==
    ASSUME NEW L, NEW E, NEW W, NEW x \in Working(L, E, W), NEW a \in LoginAsks
    PROVE  AskLogin(x, a) \in Working(L, E, W)
  <1>1. Append(x.logins, a) \in Seq(LoginAsks)
    BY DEF Working
  <1> QED BY <1>1, FieldTyped DEF AskLogin

LEMMA AskParkTyped ==
    ASSUME NEW L, NEW E, NEW W, NEW x \in Working(L, E, W), NEW a \in ParkAsks(L, E)
    PROVE  AskPark(x, a) \in Working(L, E, W)
  <1>1. Append(x.asks, a) \in Seq(ParkAsks(L, E))
    BY DEF Working
  <1> QED BY <1>1, FieldTyped DEF AskPark

LEMMA CompleteTyped ==
    ASSUME NEW L, NEW E, NEW W, NEW x \in Working(L, E, W), NEW s \in Statuses
    PROVE  Complete(x, s) \in Working(L, E, W)
  <1> DEFINE op == [x.op EXCEPT !.status = s]
  <1>1. x.op \in Ops
    BY DEF Working
  <1>2. op \in Ops
    BY <1>1, OpTyped
  <1>3. Complete(x, s) = [x EXCEPT !.op = op]
    BY DEF Complete
  <1> HIDE DEF op
  <1> QED BY <1>2, <1>3 DEF Working

LEMMA BeginTyped ==
    ASSUME NEW L, NEW E, NEW W, NEW x \in Working(L, E, W), NEW k \in OpKinds
    PROVE  Begin(x, k) \in Working(L, E, W)
  BY FieldTyped, OpTyped DEF Begin

LEMMA AnsweredTyped ==
    ASSUME NEW L, NEW E, NEW W, NEW x \in Working(L, E, W)
    PROVE  Answered(x) \in Working(L, E, W)
  <1> DEFINE op == [x.op EXCEPT !.awaiting = FALSE]
  <1>1. x.op \in Ops
    BY DEF Working
  <1>2. op \in Ops
    BY <1>1, OpTyped
  <1>3. Answered(x) = [x EXCEPT !.op = op]
    BY DEF Answered
  <1> HIDE DEF op
  <1> QED BY <1>2, <1>3 DEF Working

----------------------------------------------------------------------------
(* Calls.                                                                  *)

LEMMA BeginLogonTyped ==
    ASSUME NEW L, NEW E, NEW W, NEW x \in Working(L, E, W)
    PROVE  BeginLogon(x) \in Working(L, E, W)
  <1>1. [x EXCEPT !.cells = "none", !.stands = FALSE] \in Working(L, E, W)
    BY FieldTyped, Names
  <1> QED BY <1>1, FieldTyped, Names DEF BeginLogon

LEMMA LoginTyped ==
    ASSUME NEW L, NEW E, NEW W, NEW x \in Working(L, E, W)
    PROVE  Login(x) \in Working(L, E, W)
  BY BeginLogonTyped, RaisesTyped, Names DEF Login

LEMMA GetCharacterListTyped ==
    ASSUME NEW L, NEW E, NEW W, NEW x \in Working(L, E, W), 0 \in L
    PROVE  GetCharacterList(x) \in Working(L, E, W)
  BY FieldTyped, RaisesTyped, Names DEF GetCharacterList

LEMMA RequestRealmListTyped ==
    ASSUME NEW L, NEW E, NEW W, NEW x \in Working(L, E, W)
    PROVE  RequestRealmList(x) \in Working(L, E, W)
  BY FieldTyped, RaisesTyped, Names DEF RequestRealmList

LEMMA CancelRealmListQueryTyped ==
    ASSUME NEW L, NEW E, NEW W, NEW x \in Working(L, E, W)
    PROVE  CancelRealmListQuery(x) \in Working(L, E, W)
  BY FieldTyped, CompleteTyped, Names DEF CancelRealmListQuery

LEMMA StatusDialogClickTyped ==
    ASSUME NEW L, NEW E, NEW W, NEW x \in Working(L, E, W), 0 \in L
    PROVE  StatusDialogClick(x) \in Working(L, E, W)
  <1>1. [x EXCEPT !.state = "Idle"] \in Working(L, E, W)
    BY FieldTyped, Names
  <1>7. x.state \in States
    BY DEF Working
  <1>2. Complete(x, "cancelled") \in Working(L, E, W)
    BY CompleteTyped, Names
  <1>3. [Complete(x, "cancelled") EXCEPT !.state = "Idle"] \in Working(L, E, W)
    BY <1>2, FieldTyped, Names
  <1>4. \A a \in {"CloseLink", "Abandon"} :
           [AskLogin(x, a) EXCEPT !.state = "Idle"] \in Working(L, E, W)
    BY AskLoginTyped, FieldTyped, Names
  <1>5. Raise(Complete(x, "cancelled"), <<"Teardown">>) \in Working(L, E, W)
    BY <1>2, RaisesTyped, Names
  <1>6. GetCharacterList([x EXCEPT !.state = "Idle"]) \in Working(L, E, W)
    BY <1>1, GetCharacterListTyped
  <1> QED BY <1>1, <1>3, <1>4, <1>5, <1>6, <1>7 DEF StatusDialogClick, States

LEMMA DisconnectFromServerTyped ==
    ASSUME NEW L, NEW E, NEW W, NEW x \in Working(L, E, W)
    PROVE  DisconnectFromServer(x) \in Working(L, E, W)
  BY FieldTyped, OpTyped, AskLoginTyped, Names DEF DisconnectFromServer

LEMMA BeginConnectTyped ==
    ASSUME NEW L, NEW E, NEW W, NEW x \in Working(L, E, W)
    PROVE  BeginConnect(x) \in Working(L, E, W)
  BY FieldTyped, RaisesTyped, Names DEF BeginConnect

LEMMA ConnectToRealmTyped ==
    ASSUME NEW L, NEW E, NEW W, NEW x \in Working(L, E, W)
    PROVE  ConnectToRealm(x) \in Working(L, E, W)
  <1> DEFINE chosen == [x EXCEPT !.selected = @ \/ x.holder]
  <1>1. chosen \in Working(L, E, W)
    BY DEF Working
  <1>2. BeginConnect(chosen) \in Working(L, E, W)
    BY <1>1, BeginConnectTyped
  <1>3. AskPark(chosen, [ask |-> "Leave"]) \in Working(L, E, W)
    BY <1>1, AskParkTyped, ListsTyped
  <1> HIDE DEF chosen
  <1>4. [AskPark(chosen, [ask |-> "Leave"]) EXCEPT !.connected = FALSE, !.reconnect = TRUE]
           \in Working(L, E, W)
    BY <1>3, FieldTyped
  <1> QED BY <1>2, <1>4 DEF ConnectToRealm, chosen

LEMMA ReconnectTyped ==
    ASSUME NEW L, NEW E, NEW W, NEW x \in Working(L, E, W)
    PROVE  Reconnect(x) \in Working(L, E, W)
  BY FieldTyped, BeginConnectTyped DEF Reconnect

LEMMA EnterWorldTyped ==
    ASSUME NEW L, NEW E, NEW W, NEW x \in Working(L, E, W), NEW e \in E
    PROVE  EnterWorld(x, e) \in Working(L, E, W)
  <1> DEFINE pick == [ask |-> "Play", epoch |-> x.rows, era |-> e]
             queued == {i \in DOMAIN x.asks : x.asks[i].ask = "Play"}
             again == [i \in DOMAIN x.asks |-> IF i \in queued THEN pick ELSE x.asks[i]]
             asks == IF queued # {} THEN again
                     ELSE IF x.state # "EnterWorld" THEN Append(x.asks, pick) ELSE x.asks
  <1>1. pick \in ParkAsks(L, E) /\ x.asks \in Seq(ParkAsks(L, E))
    BY ListsTyped DEF Working
  <1> HIDE DEF pick
  <1>2. again \in Seq(ParkAsks(L, E)) /\ Append(x.asks, pick) \in Seq(ParkAsks(L, E))
    BY <1>1
  <1>3. asks \in Seq(ParkAsks(L, E))
    BY <1>1, <1>2
  <1> HIDE DEF asks
  <1>4. [x EXCEPT !.state = "EnterWorld", !.asks = asks] \in Working(L, E, W)
    BY <1>3, FieldTyped, Names
  <1>5. CASE x.selected /\ x.connected
    <2>1. EnterWorld(x, e) = [x EXCEPT !.state = "EnterWorld", !.asks = asks]
      BY <1>5 DEF EnterWorld, asks, pick
    <2> QED BY <1>4, <2>1
  <1> QED BY <1>5 DEF EnterWorld

LEMMA TakeRefusalTyped ==
    ASSUME NEW L, NEW E, NEW W, NEW x \in Working(L, E, W)
    PROVE  TakeRefusal(x) \in Working(L, E, W)
  BY FieldTyped, BeginTyped, CompleteTyped, Names DEF TakeRefusal

----------------------------------------------------------------------------
(* Steps, and the stock handlers of the signals.                           *)

LEMMA WorldFailedPastDialogTyped ==
    ASSUME NEW L, NEW E, NEW W, NEW x \in Working(L, E, W), NEW s \in Statuses
    PROVE  WorldFailedPastDialog(x, s) \in Working(L, E, W)
  <1> DEFINE idle == [x EXCEPT !.state = "Idle", !.connected = FALSE]
             said == IF s = "cancelled" THEN AskLogin(idle, "CancelWorld") ELSE idle
  <1>1. idle \in Working(L, E, W)
    BY FieldTyped, Names
  <1> HIDE DEF idle
  <1>2. said \in Working(L, E, W)
    BY <1>1, AskLoginTyped, Names
  <1> HIDE DEF said
  <1>3. Raise(said, <<"LoginFromSelect">>) \in Working(L, E, W)
    BY <1>2, RaisesTyped, Names
  <1>4. Raise(said, <<"Teardown", "RaiseRealmList">>) \in Working(L, E, W)
    BY <1>2, RaisesTyped, Names
  <1> QED BY <1>3, <1>4 DEF WorldFailedPastDialog, said, idle

LEMMA LogonPastDialogTyped ==
    ASSUME NEW L, NEW E, NEW W, NEW x \in Working(L, E, W)
    PROVE  LogonPastDialog(x) \in Working(L, E, W)
  BY FieldTyped, BeginTyped, AskLoginTyped, Names DEF LogonPastDialog

LEMMA BeginCharListTyped ==
    ASSUME NEW L, NEW E, NEW W, NEW x \in Working(L, E, W)
    PROVE  BeginCharList(x) \in Working(L, E, W)
  BY BeginTyped, CompleteTyped, AskParkTyped, ListsTyped, Names DEF BeginCharList

LEMMA RunStepTyped ==
    ASSUME NEW L, NEW E, NEW W, NEW x \in Working(L, E, W), NEW step \in Steps \ Signals
    PROVE  RunStep(x, step) \in Working(L, E, W)
  <1>1. AskLogin(x, "Submit") \in Working(L, E, W)
    BY AskLoginTyped, Names
  <1>2. BeginCharList(x) \in Working(L, E, W)
    BY BeginCharListTyped
  <1>3. /\ AskPark(Begin(x, "GetRealms"), [ask |-> "Refresh"]) \in Working(L, E, W)
        /\ AskPark(Begin(x, "Connect"), [ask |-> "Refresh"]) \in Working(L, E, W)
    BY BeginTyped, AskParkTyped, ListsTyped, Names
  <1>4. [x EXCEPT !.state = "Idle"] \in Working(L, E, W)
    BY FieldTyped, Names
  <1>5. LogonPastDialog(x) \in Working(L, E, W)
    BY LogonPastDialogTyped
  <1>6. Begin(x, "Auth") \in Working(L, E, W)
    BY BeginTyped, Names
  <1>7. [x EXCEPT !.state = "Idle", !.op = DefaultOp] \in Working(L, E, W)
    BY FieldTyped, OpTyped, Names
  <1>8. \A s \in {"failed", "cancelled", "authFailed"} :
           WorldFailedPastDialog(x, s) \in Working(L, E, W)
    BY WorldFailedPastDialogTyped, Names
  <1>9. RequestRealmList(x) \in Working(L, E, W)
    BY RequestRealmListTyped
  <1>10. Raise(x, <<"Rebuild">>) \in Working(L, E, W)
    BY RaisesTyped, Names
  <1>11. step \in {"Logon", "CharList", "RealmList", "Connect", "Idle", "LogonPastDialog",
                   "BeginAuth", "Authenticated", "WorldFailed", "WorldCancelled",
                   "WorldAuthFailed", "RaiseRealmList", "RequestRealmList"}
    BY DEF Steps, Signals
  <1> QED BY <1>1, <1>2, <1>3, <1>4, <1>5, <1>6, <1>7, <1>8, <1>9, <1>10, <1>11 DEF RunStep

LEMMA HandleTyped ==
    ASSUME NEW L, NEW E, NEW W, NEW x \in Working(L, E, W), 0 \in L, NEW signal \in Signals
    PROVE  Handle(x, signal) \in Working(L, E, W)
  <1>1. StatusDialogClick(x) \in Working(L, E, W)
    BY StatusDialogClickTyped
  <1>2. [x EXCEPT !.rows = 0] \in Working(L, E, W)
    BY FieldTyped
  <1>8. x.roster \in L
    BY DEF Working
  <1>3. [x EXCEPT !.rows = x.roster] \in Working(L, E, W)
    BY <1>8, FieldTyped
  <1>4. [x EXCEPT !.list = TRUE] \in Working(L, E, W)
    BY FieldTyped
  <1>5. [x EXCEPT !.screen = "charselect", !.list = FALSE] \in Working(L, E, W)
    BY FieldTyped
  <1>6. GetCharacterList([x EXCEPT !.screen = "charselect", !.list = FALSE]) \in Working(L, E, W)
    BY <1>5, GetCharacterListTyped
  <1>7. [x EXCEPT !.screen = "login", !.list = FALSE] \in Working(L, E, W)
    BY FieldTyped
  <1> QED BY <1>1, <1>2, <1>3, <1>4, <1>5, <1>6, <1>7 DEF Handle, Signals

LEMMA DoTyped ==
    ASSUME NEW L, NEW E, NEW W, NEW x \in Working(L, E, W), 0 \in L, NEW item \in Steps
    PROVE  Do(x, item) \in Working(L, E, W)
  BY RunStepTyped, HandleTyped DEF Do

LEMMA TurnTyped ==
    ASSUME NEW L, NEW E, NEW W, NEW x \in Working(L, E, W), 0 \in L
    PROVE  Turn(x) \in Working(L, E, W)
  <1> SUFFICES ASSUME x.outbox # <<>>
               PROVE  Turn(x) \in Working(L, E, W)
    BY DEF Turn
  <1> DEFINE done == Do([x EXCEPT !.outbox = <<>>], Head(x.outbox))
  <1>0. x.outbox \in Seq(Steps)
    BY DEF Working
  <1>1. Head(x.outbox) \in Steps /\ Tail(x.outbox) \in Seq(Steps)
    BY <1>0
  <1>7. <<>> \in Seq(Steps)
    OBVIOUS
  <1>2. [x EXCEPT !.outbox = <<>>] \in Working(L, E, W)
    BY <1>7 DEF Working
  <1>3. done \in Working(L, E, W)
    BY <1>1, <1>2, DoTyped
  <1> DEFINE left == done.outbox \o Tail(x.outbox)
  <1>4. Turn(x) = [done EXCEPT !.outbox = left]
    BY DEF Turn
  <1> HIDE DEF done
  <1>5. done.outbox \in Seq(Steps)
    BY <1>3 DEF Working
  <1>6. left \in Seq(Steps)
    BY <1>1, <1>5
  <1> HIDE DEF left
  <1> QED BY <1>3, <1>4, <1>6 DEF Working

----------------------------------------------------------------------------
(* News off the read thread.                                               *)

LEMMA OnLogonDoneTyped ==
    ASSUME NEW L, NEW E, NEW W, NEW x \in Working(L, E, W)
    PROVE  OnLogonDone(x) \in Working(L, E, W)
  BY FieldTyped, Names DEF OnLogonDone

LEMMA OnStageTyped ==
    ASSUME NEW L, NEW E, NEW W, NEW x \in Working(L, E, W), NEW up,
           NEW s \in {"Connecting", "Handshaking", "WorldConnected"}
    PROVE  OnStage(x, s, up) \in Working(L, E, W)
  <1> DEFINE shown == IF x.state = "Idle" /\ up THEN BeginLogon(x) ELSE x
  <1>1. shown \in Working(L, E, W)
    BY BeginLogonTyped
  <1> HIDE DEF shown
  <1>2. [shown EXCEPT !.cells = "connecting", !.stands = FALSE] \in Working(L, E, W)
    BY <1>1, FieldTyped, Names
  <1>3. OnLogonDone(x) \in Working(L, E, W)
    BY OnLogonDoneTyped
  <1>4. [Complete(x, "ok") EXCEPT !.connected = TRUE] \in Working(L, E, W)
    BY CompleteTyped, FieldTyped, Names
  <1> QED BY <1>1, <1>2, <1>3, <1>4 DEF OnStage, shown

LEMMA OnQueuedTyped ==
    ASSUME NEW L, NEW E, NEW W, NEW x \in Working(L, E, W)
    PROVE  OnQueued(x) \in Working(L, E, W)
  BY BeginTyped, Names DEF OnQueued

LEMMA OnRealmListEmptiedTyped ==
    ASSUME NEW L, NEW E, NEW W, NEW x \in Working(L, E, W)
    PROVE  OnRealmListEmptied(x) \in Working(L, E, W)
  BY FieldTyped, AnsweredTyped, CompleteTyped, Names DEF OnRealmListEmptied

LEMMA OnRealmListTyped ==
    ASSUME NEW L, NEW E, NEW W, NEW x \in Working(L, E, W), NEW failed \in BOOLEAN
    PROVE  OnRealmList(x, failed) \in Working(L, E, W)
  <1> DEFINE filled == IF failed THEN x ELSE [x EXCEPT !.holder = TRUE]
             heard  == Answered(filled)
  <1>1. filled \in Working(L, E, W)
    BY FieldTyped
  <1> HIDE DEF filled
  <1>2. heard \in Working(L, E, W)
    BY <1>1, AnsweredTyped
  <1> HIDE DEF heard
  <1>3. Complete(heard, "failed") \in Working(L, E, W) /\ Complete(heard, "ok") \in Working(L, E, W)
    BY <1>2, CompleteTyped, Names
  <1>4. [heard EXCEPT !.selected = TRUE] \in Working(L, E, W)
    BY <1>2, FieldTyped
  <1>5. AskPark([heard EXCEPT !.selected = TRUE], [ask |-> "Dial"]) \in Working(L, E, W)
    BY <1>4, AskParkTyped, ListsTyped
  <1>6. CASE ~Awaiting(x)
    BY <1>1, <1>6 DEF OnRealmList, filled
  <1>7. CASE Awaiting(x) /\ failed
    BY <1>3, <1>7 DEF OnRealmList, heard, filled
  <1>8. CASE Awaiting(x) /\ ~failed
    <2>1. x.op.kind \in {"GetRealms", "Connect"}
        BY <1>8 DEF Awaiting, Working, Ops
    <2> QED BY <1>3, <1>5, <1>8, <2>1 DEF OnRealmList, heard, filled
  <1> QED BY <1>6, <1>7, <1>8

LEMMA OnListTyped ==
    ASSUME NEW L, NEW E, NEW W, NEW x \in Working(L, E, W), NEW r
    PROVE  OnList(x, r) \in Working(L, E, W)
  BY OnRealmListTyped, OnRealmListEmptiedTyped DEF OnList

LEMMA OnFailedTyped ==
    ASSUME NEW L, NEW E, NEW W, NEW x \in Working(L, E, W), NEW why
    PROVE  OnFailed(x, why) \in Working(L, E, W)
  <1>1. \A s \in {"failed", "authFailed"} : Complete(x, s) \in Working(L, E, W)
    BY CompleteTyped, Names
  <1>2. OnLogonFailed(x, why) \in Working(L, E, W)
    <2>1. [x EXCEPT !.stands = TRUE, !.cells = "patch"] \in Working(L, E, W)
      BY FieldTyped, Names
    <2> QED BY <2>1, FieldTyped, Names DEF OnLogonFailed
  <1> QED BY <1>1, <1>2 DEF OnFailed

LEMMA OnRosterTyped ==
    ASSUME NEW L, NEW E, NEW W, NEW x \in Working(L, E, W), NEW l \in L
    PROVE  OnRoster(x, l) \in Working(L, E, W)
  <1>1. [x EXCEPT !.roster = l] \in Working(L, E, W)
    BY FieldTyped
  <1>2. Complete([x EXCEPT !.roster = l], "ok") \in Working(L, E, W)
    BY <1>1, CompleteTyped, Names
  <1> QED BY <1>2 DEF OnRoster

LEMMA OnRosterFailedTyped ==
    ASSUME NEW L, NEW E, NEW W, NEW x \in Working(L, E, W), 0 \in L, NEW l, NEW emptied
    PROVE  OnRosterFailed(x, l, emptied) \in Working(L, E, W)
  <1>1. [x EXCEPT !.roster = 0] \in Working(L, E, W)
    BY FieldTyped
  <1>2. \A y \in {x, [x EXCEPT !.roster = 0]} : Complete(y, "failed") \in Working(L, E, W)
    BY <1>1, CompleteTyped, Names
  <1> QED BY <1>2 DEF OnRosterFailed

LEMMA CompleteAuthTyped ==
    ASSUME NEW L, NEW E, NEW W, NEW x \in Working(L, E, W)
    PROVE  CompleteAuth(x) \in Working(L, E, W)
  BY BeginTyped, CompleteTyped, Names DEF CompleteAuth

LEMMA OnLostTyped ==
    ASSUME NEW L, NEW E, NEW W, NEW x \in Working(L, E, W)
    PROVE  OnLost(x) \in Working(L, E, W)
  <1> DEFINE over == [x EXCEPT !.connected = FALSE, !.refused = FALSE, !.state = "Idle",
                               !.op = DefaultOp]
  <1>1. over \in Working(L, E, W)
    BY FieldTyped, OpTyped, Names
  <1> HIDE DEF over
  <1>2. Raise(over, <<"Okay">>) \in Working(L, E, W)
    BY <1>1, RaisesTyped, Names
  <1>3. Raise(over, <<"Disconnected">>) \in Working(L, E, W)
    BY <1>1, RaisesTyped, Names
  <1> QED BY <1>2, <1>3 DEF OnLost, over

----------------------------------------------------------------------------
(* The frame's arms.                                                       *)

LEMMA TickTyped ==
    ASSUME NEW L, NEW E, NEW W, NEW x \in Working(L, E, W)
    PROVE  Tick(x) \in Working(L, E, W)
  <1>1. x.op.status \in Statuses
    BY DEF Working, Ops
  <1>2. TickConnect(x) \in Working(L, E, W)
    <2>1. \A a \in {"WorldCancelled", "BeginAuth"} : Raise(x, <<a>>) \in Working(L, E, W)
      BY RaisesTyped, Names
    <2>2. \A a \in {"WorldFailed", "WorldAuthFailed"} :
             Raise(x, <<"Okay", a>>) \in Working(L, E, W)
      BY RaisesTyped, Names
    <2>3. Raise(x, <<"Authenticated", "Teardown", "CharSelect">>) \in Working(L, E, W)
      BY RaisesTyped, Names
    <2> QED BY <1>1, <2>1, <2>2, <2>3 DEF TickConnect, Statuses
  <1>3. TickCharList(x) \in Working(L, E, W)
    <2>1. Raise(x, <<"Idle", "Roster">>) \in Working(L, E, W)
      BY RaisesTyped, Names
    <2>2. Raise(x, <<"Teardown", "RequestRealmList">>) \in Working(L, E, W)
      BY RaisesTyped, Names
    <2>3. Raise(x, <<"Okay", "Idle">>) \in Working(L, E, W)
      BY RaisesTyped, Names
    <2> QED BY <2>1, <2>2, <2>3 DEF TickCharList
  <1>4. TickRealmList(x) \in Working(L, E, W)
    <2>1. Raise(x, <<"Idle", "Rebuild">>) \in Working(L, E, W)
      BY RaisesTyped, Names
    <2>2. Raise(x, <<"Okay", "Idle">>) \in Working(L, E, W)
      BY RaisesTyped, Names
    <2> QED BY <2>1, <2>2 DEF TickRealmList
  <1>5. /\ Raise(x, <<"Okay", "LogonPastDialog">>) \in Working(L, E, W)
        /\ Raise(x, <<"LogonPastDialog">>) \in Working(L, E, W)
        /\ Raise(x, <<"Okay">>) \in Working(L, E, W)
    BY RaisesTyped, Names
  <1> QED BY <1>2, <1>3, <1>4, <1>5 DEF Tick

----------------------------------------------------------------------------
(* A pump runs the outbox out.                                             *)

\* Handlers and steps that raise nothing.
Final == {"Teardown", "CharList", "RealmList", "Rebuild", "LoginFromSelect"}

LEMMA FinalRaisesNothing ==
    ASSUME NEW L, NEW E, NEW W, NEW x \in Rested(L, E, W), NEW item \in Final
    PROVE  Do(x, item).outbox = <<>>
  <1> USE DEF Rested, Final, Do, Signals
  <1>1. CASE item \in {"Teardown", "Rebuild", "LoginFromSelect"}
    BY <1>1 DEF Handle, Working
  <1>2. CASE item = "CharList"
    BY <1>2 DEF RunStep, BeginCharList, AskPark, Complete, Begin, Working
  <1>3. CASE item = "RealmList"
    BY <1>3 DEF RunStep, AskPark, Begin, Working
  <1> QED BY <1>1, <1>2, <1>3

\* What is raised into an empty outbox is all there is in it.
LEMMA RaisedAlone ==
    ASSUME NEW L, NEW E, NEW W, NEW x \in Working(L, E, W), x.outbox = <<>>
    PROVE  /\ \A a \in Steps : Raise(x, <<a>>).outbox = <<a>>
           /\ \A a, b \in Steps : Raise(x, <<a, b>>).outbox = <<a, b>>
  <1>1. \A a \in Steps : x.outbox \o <<a>> = <<a>>
    OBVIOUS
  <1>2. \A a, b \in Steps : x.outbox \o <<a, b>> = <<a, b>>
    OBVIOUS
  <1> QED BY <1>1, <1>2 DEF Raise, Working

LEMMA AskedAlone ==
    ASSUME NEW L, NEW E, NEW W, NEW x \in Working(L, E, W), x.outbox = <<>>, 0 \in L
    PROVE  GetCharacterList(x).outbox = IF x.state = "LoginRefused" THEN <<>> ELSE <<"CharList">>
  <1> DEFINE asking == [x EXCEPT !.state = "CharList", !.rows = 0]
  <1>1. asking \in Working(L, E, W)
    BY FieldTyped, Names
  <1>2. asking.outbox = <<>>
    BY DEF Working
  <1> HIDE DEF asking
  <1>3. Raise(asking, <<"CharList">>).outbox = <<"CharList">>
    BY <1>1, <1>2, RaisedAlone, Names
  <1> QED BY <1>3 DEF GetCharacterList, asking

LEMMA FailedAlone ==
    ASSUME NEW L, NEW E, NEW W, NEW x \in Working(L, E, W), x.outbox = <<>>, NEW s
    PROVE  WorldFailedPastDialog(x, s).outbox =
              IF s = "authFailed" THEN <<"LoginFromSelect">> ELSE <<"Teardown", "RaiseRealmList">>
  <1> DEFINE idle == [x EXCEPT !.state = "Idle", !.connected = FALSE]
             said == IF s = "cancelled" THEN AskLogin(idle, "CancelWorld") ELSE idle
  <1>1. idle \in Working(L, E, W) /\ AskLogin(idle, "CancelWorld") \in Working(L, E, W)
    BY FieldTyped, AskLoginTyped, Names
  <1>2. idle.outbox = <<>>
    BY DEF Working
  <1> HIDE DEF idle
  <1>3. AskLogin(idle, "CancelWorld").outbox = <<>>
    BY <1>1, <1>2 DEF AskLogin, Working
  <1>4. said \in Working(L, E, W) /\ said.outbox = <<>>
    BY <1>1, <1>2, <1>3
  <1> HIDE DEF said
  <1>5. /\ Raise(said, <<"LoginFromSelect">>).outbox = <<"LoginFromSelect">>
        /\ Raise(said, <<"Teardown", "RaiseRealmList">>).outbox = <<"Teardown", "RaiseRealmList">>
    BY <1>4, RaisedAlone, Names
  <1> QED BY <1>5 DEF WorldFailedPastDialog, said, idle

\* What a single item raises.
LEMMA ItemRaises ==
    ASSUME NEW L, NEW E, NEW W, NEW x \in Rested(L, E, W), 0 \in L, NEW item \in Steps
    PROVE  Do(x, item).outbox \in {<<>>, <<"Teardown", "RaiseRealmList">>}
                                  \cup {<<a>> : a \in Final}
  <1>1. x \in Working(L, E, W) /\ x.outbox = <<>> /\ x.state \in States
    BY DEF Rested, Working
  <1>2. CASE item \in Final
    BY <1>2, FinalRaisesNothing
  <1>3. CASE item = "Okay"
    <2>1. \A a \in {"CloseLink", "Abandon"} : [AskLogin(x, a) EXCEPT !.state = "Idle"].outbox = <<>>
      BY <1>1 DEF AskLogin, Working
    <2>6. Complete(x, "cancelled") \in Working(L, E, W) /\ Complete(x, "cancelled").outbox = <<>>
      <3>1. Complete(x, "cancelled").outbox = x.outbox
        BY <1>1 DEF Complete, Working
      <3> QED BY <1>1, <3>1, CompleteTyped, Names
    <2>2. Raise(Complete(x, "cancelled"), <<"Teardown">>).outbox = <<"Teardown">>
      BY <2>6, RaisedAlone, Names
    <2>3. [Complete(x, "cancelled") EXCEPT !.state = "Idle"].outbox = <<>>
      BY <2>6 DEF Working
    <2>4. GetCharacterList([x EXCEPT !.state = "Idle"]).outbox = <<"CharList">>
      <3>1. [x EXCEPT !.state = "Idle"] \in Working(L, E, W)
        BY <1>1, FieldTyped, Names
      <3>2. [x EXCEPT !.state = "Idle"].outbox = <<>> /\ [x EXCEPT !.state = "Idle"].state = "Idle"
        BY <1>1 DEF Working
      <3> QED BY <3>1, <3>2, AskedAlone
    <2>5. Do(x, item) = StatusDialogClick(x)
      BY <1>3 DEF Do, Handle, Signals
    <2> QED BY <1>1, <2>1, <2>2, <2>3, <2>4, <2>5 DEF StatusDialogClick, States, Final
  <1>4. CASE item = "CharSelect"
    <2> DEFINE shown == [x EXCEPT !.screen = "charselect", !.list = FALSE]
    <2>3. shown \in Working(L, E, W)
      BY <1>1, FieldTyped
    <2>4. shown.outbox = <<>>
      BY <1>1 DEF Working
    <2> HIDE DEF shown
    <2>1. GetCharacterList(shown).outbox \in {<<>>, <<"CharList">>}
      BY <2>3, <2>4, AskedAlone
    <2>2. Do(x, item) = IF x.connected THEN GetCharacterList(shown) ELSE shown
      BY <1>4 DEF Do, Handle, Signals, shown
    <2> QED BY <2>1, <2>2, <2>4 DEF Final
  <1>5. CASE item \in {"Roster", "Disconnected"}
    BY <1>1, <1>5 DEF Do, Handle, Signals, Working
  <1>6. CASE item \in {"WorldFailed", "WorldCancelled", "WorldAuthFailed"}
    <2>1. \A s \in {"failed", "cancelled"} :
             WorldFailedPastDialog(x, s).outbox = <<"Teardown", "RaiseRealmList">>
      BY <1>1, FailedAlone
    <2>2. WorldFailedPastDialog(x, "authFailed").outbox = <<"LoginFromSelect">>
      BY <1>1, FailedAlone
    <2>3. \E s \in {"failed", "cancelled", "authFailed"} : Do(x, item) = WorldFailedPastDialog(x, s)
      BY <1>6 DEF Do, RunStep, Signals
    <2> QED BY <2>1, <2>2, <2>3 DEF Final
  <1>7. CASE item \in {"RaiseRealmList", "RequestRealmList"}
    <2> DEFINE asking == [x EXCEPT !.state = "RealmList"]
    <2>4. asking \in Working(L, E, W)
      BY <1>1, FieldTyped, Names
    <2>5. asking.outbox = <<>>
      BY <1>1 DEF Working
    <2>6. RequestRealmList(x) = Raise(asking, <<"RealmList">>)
      BY DEF RequestRealmList
    <2> HIDE DEF asking
    <2>1. RequestRealmList(x).outbox = <<"RealmList">>
      BY <2>4, <2>5, <2>6, RaisedAlone, Names
    <2>2. Raise(x, <<"Rebuild">>).outbox = <<"Rebuild">>
      BY <1>1, RaisedAlone, Names
    <2>3. Do(x, item) \in {RequestRealmList(x), Raise(x, <<"Rebuild">>)}
      BY <1>7 DEF Do, RunStep, Signals
    <2> QED BY <2>1, <2>2, <2>3 DEF Final
  <1>8. CASE item \in {"Logon", "Connect", "Idle", "BeginAuth", "Authenticated"}
    BY <1>1, <1>8 DEF Do, RunStep, Signals, AskLogin, AskPark, Begin, Working
  <1>9. CASE item = "LogonPastDialog"
    BY <1>1, <1>9 DEF Do, RunStep, Signals, LogonPastDialog, AskLogin, Begin, Working
  <1> QED BY <1>2, <1>3, <1>4, <1>5, <1>6, <1>7, <1>8, <1>9 DEF Steps, Final

\* What is left of the item's own raising after one, two and three more turns.
LEMMA TurnFinal ==
    ASSUME NEW L, NEW E, NEW W, NEW x \in Working(L, E, W), 0 \in L,
           NEW a \in Final, x.outbox = <<a>>
    PROVE  Turn(x).outbox = <<>>
  <1> DEFINE bare == [x EXCEPT !.outbox = <<>>]
             done == Do(bare, a)
  <1>0. <<>> \in Seq(Steps)
    OBVIOUS
  <1>1. bare \in Rested(L, E, W)
    BY <1>0 DEF Rested, Working
  <1>2. Head(x.outbox) = a /\ Tail(x.outbox) = <<>> /\ x.outbox # <<>>
    OBVIOUS
  <1>3. done \in Working(L, E, W) /\ done.outbox = <<>>
    <2>1. a \in Steps /\ a \in Signals \cup (Steps \ Signals)
      BY DEF Final, Steps
    <2> QED BY <1>1, <2>1, FinalRaisesNothing, DoTyped DEF Rested
  <1>4. Turn(x) = [done EXCEPT !.outbox = done.outbox \o <<>>]
    BY <1>2 DEF Turn
  <1> HIDE DEF done
  <1>5. done.outbox \o <<>> = <<>>
    BY <1>3
  <1> QED BY <1>3, <1>4, <1>5 DEF Working

LEMMA TurnFailed ==
    ASSUME NEW L, NEW E, NEW W, NEW x \in Working(L, E, W), 0 \in L,
           x.outbox = <<"Teardown", "RaiseRealmList">>
    PROVE  Turn(x).outbox = <<"RaiseRealmList">>
  <1> DEFINE bare == [x EXCEPT !.outbox = <<>>]
             done == Do(bare, "Teardown")
  <1>1. bare \in Rested(L, E, W)
    BY <<>> \in Seq(Steps) DEF Rested, Working
  <1>2. Head(x.outbox) = "Teardown" /\ Tail(x.outbox) = <<"RaiseRealmList">> /\ x.outbox # <<>>
    OBVIOUS
  <1>3. done \in Working(L, E, W) /\ done.outbox = <<>>
    <2>1. "Teardown" \in Final /\ "Teardown" \in Steps /\ bare \in Working(L, E, W)
      BY <1>1 DEF Rested, Final, Steps
    <2> HIDE DEF bare
    <2> QED BY <1>1, <2>1, FinalRaisesNothing, DoTyped
  <1>4. Turn(x) = [done EXCEPT !.outbox = done.outbox \o <<"RaiseRealmList">>]
    BY <1>2 DEF Turn
  <1> HIDE DEF done
  <1>5. done.outbox \o <<"RaiseRealmList">> = <<"RaiseRealmList">>
    BY <1>3
  <1> QED BY <1>3, <1>4, <1>5 DEF Working

LEMMA TurnRaiseRealmList ==
    ASSUME NEW L, NEW E, NEW W, NEW x \in Working(L, E, W), 0 \in L,
           x.outbox = <<"RaiseRealmList">>
    PROVE  \E a \in Final : Turn(x).outbox = <<a>>
  <1> DEFINE bare == [x EXCEPT !.outbox = <<>>]
             done == Do(bare, "RaiseRealmList")
             asking == [bare EXCEPT !.state = "RealmList"]
  <1>1. bare \in Working(L, E, W) /\ bare.outbox = <<>>
    BY <<>> \in Seq(Steps) DEF Working
  <1>2. Head(x.outbox) = "RaiseRealmList" /\ Tail(x.outbox) = <<>> /\ x.outbox # <<>>
    OBVIOUS
  <1>4. Turn(x) = [done EXCEPT !.outbox = done.outbox \o <<>>]
    BY <1>2 DEF Turn
  <1> HIDE DEF bare
  <1>5. done \in {Raise(bare, <<"Rebuild">>), Raise(asking, <<"RealmList">>)}
    BY DEF Do, RunStep, Signals, RequestRealmList
  <1>6. asking \in Working(L, E, W)
    BY <1>1, FieldTyped, Names
  <1>7. asking.outbox = <<>>
    BY <1>1 DEF Working
  <1> HIDE DEF asking
  <1>8. /\ Raise(bare, <<"Rebuild">>).outbox = <<"Rebuild">>
        /\ Raise(asking, <<"RealmList">>).outbox = <<"RealmList">>
    BY <1>1, <1>6, <1>7, RaisedAlone, Names
  <1>9. done \in Working(L, E, W) /\ done.outbox \in {<<"Rebuild">>, <<"RealmList">>}
    <2>1. /\ Raise(bare, <<"Rebuild">>) \in Working(L, E, W)
          /\ Raise(asking, <<"RealmList">>) \in Working(L, E, W)
      BY <1>1, <1>6, RaisesTyped, Names
    <2> QED BY <1>5, <1>8, <2>1
  <1> HIDE DEF done
  <1>10. done.outbox \o <<>> = done.outbox
    BY <1>9
  <1> QED BY <1>4, <1>9, <1>10 DEF Working, Final

\* So an item is run out, with all it raises, in its turn and three more.
LEMMA ItemRunOut ==
    ASSUME NEW L, NEW E, NEW W, NEW x \in Rested(L, E, W), 0 \in L, NEW item \in Steps
    PROVE  RunOut(x, item) \in Rested(L, E, W)
  <1> DEFINE first  == Do(x, item)
             second == Turn(first)
             third  == Turn(second)
  <1>1. first \in Working(L, E, W)
    BY DoTyped DEF Rested
  <1>2. first.outbox \in {<<>>, <<"Teardown", "RaiseRealmList">>} \cup {<<a>> : a \in Final}
    BY ItemRaises
  <1> HIDE DEF first
  <1>3. second \in Working(L, E, W)
    BY <1>1, TurnTyped
  <1>4. second.outbox \in {<<>>, <<"RaiseRealmList">>}
    BY <1>1, <1>2, TurnFinal, TurnFailed DEF Turn
  <1> HIDE DEF second
  <1>5. third \in Working(L, E, W)
    BY <1>3, TurnTyped
  <1>6. third.outbox \in {<<>>} \cup {<<a>> : a \in Final}
    <2>1. CASE second.outbox = <<>>
      BY <2>1 DEF Turn
    <2>2. CASE second.outbox = <<"RaiseRealmList">>
      <3>1. \E a \in Final : Turn(second).outbox = <<a>>
        BY <1>3, <2>2, TurnRaiseRealmList
      <3> QED BY <3>1
    <2> QED BY <1>4, <2>1, <2>2
  <1> HIDE DEF third
  <1>7. Turn(third) \in Working(L, E, W)
    BY <1>5, TurnTyped
  <1>8. Turn(third).outbox = <<>>
    BY <1>5, <1>6, TurnFinal DEF Turn
  <1> QED BY <1>7, <1>8 DEF RunOut, Rested, first, second, third

\* A pump is a chain over the outbox's items.
LEMMA PumpChain ==
    ASSUME NEW L, NEW E, NEW W, NEW x \in Working(L, E, W), 0 \in L
    PROVE  \E f : /\ f[0] = [x EXCEPT !.outbox = <<>>]
                  /\ \A i \in 1 .. Len(x.outbox) : f[i] = RunOut(f[i - 1], x.outbox[i])
                  /\ Pump(x) = f[Len(x.outbox)]
  <1> DEFINE N    == Len(x.outbox)
             X    == Rested(L, E, W)
             bare == [x EXCEPT !.outbox = <<>>]
             s    == [i \in 1 .. N |-> [y \in X |-> RunOut(y, x.outbox[i])]]
             Run(f) == [i \in 0 .. N |-> IF i = 0 THEN bare ELSE RunOut(f[i - 1], x.outbox[i])]
  <1>1. x.outbox \in Seq(Steps)
    BY DEF Working
  <1>2. N \in Nat /\ \A i \in 1 .. N : x.outbox[i] \in Steps
    BY <1>1
  <1>3. bare \in X
    BY <<>> \in Seq(Steps) DEF Rested, Working
  <1> HIDE DEF bare, N
  <1>4. s \in [1 .. N -> [X -> X]]
    BY <1>2, ItemRunOut
  <1> HIDE DEF X
  <1>5. PICK g \in [0 .. N -> X] : g[0] = bare /\ \A i \in 1 .. N : g[i] = s[i][g[i - 1]]
    <2> HIDE DEF s
    <2>1. N \in Nat
      BY <1>2
    <2>2. \E f : IsChain(f, N, X, bare, s)
      BY <1>3, <1>4, <2>1, ChainExists
    <2> QED BY <2>2 DEF IsChain
  <1>6. g = Run(g)
    <2>1. \A i \in 1 .. N : i - 1 \in 0 .. N /\ g[i - 1] \in X
      BY <1>2
    <2>2. \A i \in 1 .. N : g[i] = RunOut(g[i - 1], x.outbox[i])
      BY <1>5, <2>1
    <2>3. \A i \in 0 .. N : g[i] = Run(g)[i]
      BY <1>2, <1>5, <2>2
    <2> QED BY <2>3
  <1> DEFINE ran == CHOOSE f : f = Run(f)
  <1>7. ran = Run(ran)
    BY <1>6
  <1>8. Pump(x) = ran[N]
    BY DEF Pump, N, bare
  <1> HIDE DEF ran
  <1>9. ran[0] = bare /\ \A i \in 1 .. N : ran[i] = RunOut(ran[i - 1], x.outbox[i])
    BY <1>2, <1>7
  <1> QED BY <1>8, <1>9 DEF N, bare

\* Running the outbox out (at_front, next_out) leaves nothing in it and every field of its type:
\* what a step or a signal raises, and what that raises in turn, has run when the pump returns,
\* so a frame's arm always starts from an empty outbox.
THEOREM PumpRests ==
    ASSUME NEW L, NEW E, NEW W, NEW x \in Working(L, E, W), 0 \in L
    PROVE  Pump(x) \in Rested(L, E, W)
  <1>1. PICK f : /\ f[0] = [x EXCEPT !.outbox = <<>>]
                 /\ \A i \in 1 .. Len(x.outbox) : f[i] = RunOut(f[i - 1], x.outbox[i])
                 /\ Pump(x) = f[Len(x.outbox)]
    BY PumpChain
  <1>2. x.outbox \in Seq(Steps)
    BY DEF Working
  <1>3. f[0] \in Rested(L, E, W)
    BY <1>1, <<>> \in Seq(Steps) DEF Rested, Working
  <1>4. \A i \in 1 .. Len(x.outbox) : x.outbox[i] \in Steps
    BY <1>2
  <1>5. \A i \in 0 .. Len(x.outbox) : f[i] \in Rested(L, E, W)
    BY <1>1, <1>2, <1>3, <1>4, ItemRunOut, ChainStays
  <1> QED BY <1>1, <1>2, <1>5

LEMMA OnWorldAuthenticatedTyped ==
    ASSUME NEW L, NEW E, NEW x \in Working(L, E, BOOLEAN), NEW l \in L
    PROVE  OnWorldAuthenticated(x, l) \in Working(L, E, BOOLEAN)
  <1> DEFINE up == [x EXCEPT !.connected = TRUE, !.link = l, !.selected = TRUE]
  <1>1. up \in Working(L, E, BOOLEAN)
    BY FieldTyped
  <1> HIDE DEF up
  <1>2. Tick(OnLogonDone(up)) \in Working(L, E, BOOLEAN)
    BY <1>1, TickTyped, OnLogonDoneTyped
  <1>3. [Tick(OnLogonDone(up)) EXCEPT !.authWaits = TRUE] \in Working(L, E, BOOLEAN)
    BY <1>2, FieldTyped
  <1>4. CompleteAuth(up) \in Working(L, E, BOOLEAN)
    BY <1>1, CompleteAuthTyped
  <1> QED BY <1>3, <1>4 DEF OnWorldAuthenticated, up

LEMMA FinishAuthTyped ==
    ASSUME NEW L, NEW E, NEW x \in Working(L, E, BOOLEAN), 0 \in L
    PROVE  FinishAuth(x) \in Working(L, E, {FALSE})
  <1>1. CASE x.authWaits
    <2>1. Pump(x) \in Working(L, E, BOOLEAN)
      BY PumpRests DEF Rested
    <2>2. [Pump(x) EXCEPT !.authWaits = FALSE] \in Working(L, E, {FALSE})
      BY <2>1 DEF Working
    <2> QED BY <1>1, <2>2, CompleteAuthTyped DEF FinishAuth
  <1>2. CASE ~x.authWaits
    <2>1. x \in Working(L, E, {FALSE})
      BY <1>2 DEF Working
    <2> QED BY <1>2, <2>1 DEF FinishAuth
  <1> QED BY <1>1, <1>2

LEMMA SeatRests ==
    ASSUME NEW L, NEW E, NEW W, NEW x \in Working(L, E, W), 0 \in L, NEW screen
    PROVE  Seat(x, screen) \in Rested(L, E, W)
  <1> DEFINE bare  == [x EXCEPT !.state = "Idle", !.cells = "none", !.authFinal = FALSE, !.rows = 0]
             built == TakeRefusal(bare)
  <1>1. bare \in Working(L, E, W)
    BY FieldTyped, Names
  <1> HIDE DEF bare
  <1>2. built \in Working(L, E, W)
    BY <1>1, TakeRefusalTyped
  <1> HIDE DEF built
  <1>3. Raise(built, <<"CharSelect">>) \in Working(L, E, W)
    BY <1>2, RaisesTyped, Names
  <1>4. [built EXCEPT !.screen = "login", !.list = FALSE] \in Working(L, E, W)
    BY <1>2, FieldTyped
  <1>5. \A y \in Working(L, E, W) : Pump(y) \in Rested(L, E, W)
    BY PumpRests
  <1> QED BY <1>3, <1>4, <1>5 DEF Seat, built, bare

----------------------------------------------------------------------------
(* What an item run out makes of a manager.                                *)

Boxed(x, items)   == [x EXCEPT !.outbox = items]
AtState(x, state) == [x EXCEPT !.state = state]
NoRows(x)         == [x EXCEPT !.rows = 0]
Filled(x)         == [x EXCEPT !.rows = x.roster]
Shown(x)          == [x EXCEPT !.list = TRUE]
AtLogin(x)        == [x EXCEPT !.screen = "login", !.list = FALSE]
AtSelection(x)    == [x EXCEPT !.screen = "charselect", !.list = FALSE]
Dropped(x)        == [x EXCEPT !.state = "Idle", !.connected = FALSE]
OpIs(x, op)       == [x EXCEPT !.op = op]
Asking(x, kind, ask) == [x EXCEPT !.op = Begun(kind), !.asks = Append(@, [ask |-> ask])]
Submits(x)        == [x EXCEPT !.logins = Append(@, "Submit")]
Closes(x)         == [x EXCEPT !.logins = Append(@, "CloseLink"), !.state = "Idle"]

\* Each of them keeps a manager at rest.
LEMMA MadeRests ==
    ASSUME NEW L, NEW E, NEW W, NEW x \in Rested(L, E, W), 0 \in L
    PROVE  /\ \A s \in States : AtState(x, s) \in Rested(L, E, W)
           /\ NoRows(x) \in Rested(L, E, W) /\ Filled(x) \in Rested(L, E, W)
           /\ Shown(x) \in Rested(L, E, W) /\ AtLogin(x) \in Rested(L, E, W)
           /\ AtSelection(x) \in Rested(L, E, W) /\ Dropped(x) \in Rested(L, E, W)
           /\ \A op \in Ops : OpIs(x, op) \in Rested(L, E, W)
           /\ \A kind \in OpKinds, ask \in {"Dial", "Enumerate", "Refresh", "Leave"} :
                 Asking(x, kind, ask) \in Rested(L, E, W)
           /\ Submits(x) \in Rested(L, E, W) /\ Closes(x) \in Rested(L, E, W)
  <1>x. x \in Working(L, E, W) /\ x.outbox = <<>>
    BY DEF Rested
  <1>1. \A s \in States : AtState(x, s) \in Rested(L, E, W)
    BY <1>x DEF AtState, Rested, Working
  <1>2. NoRows(x) \in Rested(L, E, W) /\ Filled(x) \in Rested(L, E, W)
    BY <1>x DEF NoRows, Filled, Rested, Working
  <1>3. Shown(x) \in Rested(L, E, W) /\ AtLogin(x) \in Rested(L, E, W)
    BY <1>x DEF Shown, AtLogin, Rested, Working
  <1>4. AtSelection(x) \in Rested(L, E, W) /\ Dropped(x) \in Rested(L, E, W)
    BY <1>x, Names DEF AtSelection, Dropped, Rested, Working
  <1>5. \A op \in Ops : OpIs(x, op) \in Rested(L, E, W)
    BY <1>x DEF OpIs, Rested, Working
  <1>6. ASSUME NEW kind \in OpKinds, NEW ask \in {"Dial", "Enumerate", "Refresh", "Leave"}
        PROVE  Asking(x, kind, ask) \in Rested(L, E, W)
    <2>1. Append(x.asks, [ask |-> ask]) \in Seq(ParkAsks(L, E))
      BY <1>x, ListsTyped DEF Working
    <2>2. Begun(kind) \in Ops
      BY OpTyped
    <2> QED BY <1>x, <2>1, <2>2 DEF Asking, Rested, Working
  <1>7. Submits(x) \in Rested(L, E, W) /\ Closes(x) \in Rested(L, E, W)
    <2>1. Append(x.logins, "Submit") \in Seq(LoginAsks) /\ Append(x.logins, "CloseLink") \in Seq(LoginAsks)
      BY <1>x, Names DEF Working
    <2>2. "Idle" \in States
      BY Names
    <2> QED BY <1>x, <2>1, <2>2 DEF Submits, Closes, Rested, Working
  <1> QED BY <1>1, <1>2, <1>3, <1>4, <1>5, <1>6, <1>7

LEMMA RaisedBoxed ==
    ASSUME NEW x, x.outbox = <<>>
    PROVE  /\ \A a : Raise(x, <<a>>) = Boxed(x, <<a>>)
           /\ \A a, b : Raise(x, <<a, b>>) = Boxed(x, <<a, b>>)
           /\ \A a, b, c : Raise(x, <<a, b, c>>) = Boxed(x, <<a, b, c>>)
  <1>2. /\ \A a : x.outbox \o <<a>> = <<a>>
        /\ \A a, b : x.outbox \o <<a, b>> = <<a, b>>
        /\ \A a, b, c : x.outbox \o <<a, b, c>> = <<a, b, c>>
    OBVIOUS
  <1> QED BY <1>2 DEF Raise, Boxed

LEMMA TurnNone == \A x : x.outbox = <<>> => Turn(x) = x
  BY DEF Turn

\* A turn of an outbox of one item, and of two.
LEMMA TurnOne ==
    ASSUME NEW L, NEW E, NEW W, NEW x \in Rested(L, E, W), NEW a \in Steps, 0 \in L
    PROVE  Turn(Boxed(x, <<a>>)) = Do(x, a)
  <1> DEFINE y == Boxed(x, <<a>>)
             d == Do(x, a)
  <1>1. y.outbox = <<a>> /\ [y EXCEPT !.outbox = <<>>] = x
    BY DEF Rested, Working, Boxed
  <1>2. d \in Working(L, E, W)
    BY DoTyped DEF Rested
  <1> HIDE DEF y
  <1>3. Head(y.outbox) = a /\ Tail(y.outbox) = <<>> /\ y.outbox # <<>>
    BY <1>1
  <1>4. Turn(y) = [d EXCEPT !.outbox = d.outbox \o <<>>]
    BY <1>1, <1>3 DEF Turn
  <1> HIDE DEF d
  <1>5. d.outbox \o <<>> = d.outbox
    BY <1>2 DEF Working
  <1> QED BY <1>2, <1>4, <1>5 DEF Working, d, y

LEMMA TurnTwo ==
    ASSUME NEW L, NEW E, NEW W, NEW x \in Rested(L, E, W), NEW a \in Steps, NEW b \in Steps, 0 \in L,
           Do(x, a).outbox = <<>>
    PROVE  Turn(Boxed(x, <<a, b>>)) = Boxed(Do(x, a), <<b>>)
  <1> DEFINE y == Boxed(x, <<a, b>>)
             d == Do(x, a)
  <1>1. y.outbox = <<a, b>> /\ [y EXCEPT !.outbox = <<>>] = x
    BY DEF Rested, Working, Boxed
  <1> HIDE DEF y
  <1>3. Head(y.outbox) = a /\ Tail(y.outbox) = <<b>> /\ y.outbox # <<>>
    BY <1>1
  <1>4. Turn(y) = [d EXCEPT !.outbox = d.outbox \o <<b>>]
    BY <1>1, <1>3 DEF Turn
  <1> HIDE DEF d
  <1>5. d.outbox \o <<b>> = <<b>>
    BY DEF d
  <1> QED BY <1>4, <1>5 DEF d, y, Boxed

\* An item that raises nothing has run when it is done; one that raises one more, which raises
\* nothing, when both are.
LEMMA RunOutQuiet ==
    ASSUME NEW x, NEW a, NEW y, Do(x, a) = y, y.outbox = <<>>
    PROVE  RunOut(x, a) = y
  BY TurnNone DEF RunOut

LEMMA RunOutOne ==
    ASSUME NEW L, NEW E, NEW W, NEW x, NEW y \in Rested(L, E, W), 0 \in L, NEW a, NEW b \in Steps,
           NEW z, Do(x, a) = Raise(y, <<b>>), Do(y, b) = z, z.outbox = <<>>
    PROVE  RunOut(x, a) = z
  <1>1. Do(x, a) = Boxed(y, <<b>>)
    BY RaisedBoxed DEF Rested
  <1>2. Turn(Do(x, a)) = z
    BY <1>1, TurnOne
  <1> QED BY <1>2, TurnNone DEF RunOut

LEMMA DoneItems ==
    ASSUME NEW x
    PROVE  /\ Do(x, "Teardown") = NoRows(x) /\ Do(x, "Roster") = Filled(x)
           /\ Do(x, "Rebuild") = Shown(x) /\ Do(x, "Disconnected") = AtLogin(x)
           /\ Do(x, "Idle") = AtState(x, "Idle") /\ Do(x, "BeginAuth") = OpIs(x, Begun("Auth"))
           /\ Do(x, "Authenticated") = OpIs(AtState(x, "Idle"), DefaultOp)
           /\ Do(x, "Logon") = Submits(x)
  <1>1. /\ Do(x, "Teardown") = NoRows(x) /\ Do(x, "Roster") = Filled(x)
        /\ Do(x, "Rebuild") = Shown(x) /\ Do(x, "Disconnected") = AtLogin(x)
    BY DEF Do, Handle, Signals, NoRows, Filled, Shown, AtLogin
  <1>2. /\ Do(x, "Idle") = AtState(x, "Idle") /\ Do(x, "BeginAuth") = OpIs(x, Begun("Auth"))
        /\ Do(x, "Logon") = Submits(x)
    BY DEF Do, RunStep, Signals, Begin, AskLogin, AtState, OpIs, Submits
  <1>3. Do(x, "Authenticated") = OpIs(AtState(x, "Idle"), DefaultOp)
    BY DEF Do, RunStep, Signals, OpIs, AtState
  <1> QED BY <1>1, <1>2, <1>3

LEMMA AskingItems ==
    ASSUME NEW L, NEW E, NEW W, NEW x \in Rested(L, E, W)
    PROVE  /\ Do(x, "Connect") = Asking(x, "Connect", "Refresh")
           /\ Do(x, "RealmList") = Asking(x, "GetRealms", "Refresh")
           /\ x.connected => Do(x, "CharList") = Asking(x, "CharList", "Enumerate")
  BY DEF Do, RunStep, Signals, Begin, AskPark, BeginCharList, Rested, Working, Asking

\* So these have run when they are done.
LEMMA PlainItems ==
    ASSUME NEW L, NEW E, NEW W, NEW x \in Rested(L, E, W), 0 \in L
    PROVE  /\ RunOut(x, "Teardown") = NoRows(x) /\ RunOut(x, "Roster") = Filled(x)
           /\ RunOut(x, "Rebuild") = Shown(x) /\ RunOut(x, "Disconnected") = AtLogin(x)
           /\ RunOut(x, "Idle") = AtState(x, "Idle") /\ RunOut(x, "BeginAuth") = OpIs(x, Begun("Auth"))
           /\ RunOut(x, "Authenticated") = OpIs(AtState(x, "Idle"), DefaultOp)
           /\ RunOut(x, "Logon") = Submits(x)
           /\ RunOut(x, "Connect") = Asking(x, "Connect", "Refresh")
           /\ RunOut(x, "RealmList") = Asking(x, "GetRealms", "Refresh")
  <1>1. \A y \in Rested(L, E, W) : y.outbox = <<>>
    BY DEF Rested
  <1>2. Begun("Auth") \in Ops /\ DefaultOp \in Ops /\ "Idle" \in States
    BY OpTyped, Names
  <1>3. AtState(x, "Idle") \in Rested(L, E, W)
    BY <1>2, MadeRests
  <1>4. OpIs(AtState(x, "Idle"), DefaultOp) \in Rested(L, E, W)
    BY <1>2, <1>3, MadeRests
  <1>5. /\ RunOut(x, "Teardown") = NoRows(x) /\ RunOut(x, "Roster") = Filled(x)
        /\ RunOut(x, "Rebuild") = Shown(x) /\ RunOut(x, "Disconnected") = AtLogin(x)
    BY <1>1, MadeRests, DoneItems, RunOutQuiet
  <1>6. RunOut(x, "Idle") = AtState(x, "Idle") /\ RunOut(x, "BeginAuth") = OpIs(x, Begun("Auth"))
    BY <1>1, <1>2, <1>3, MadeRests, DoneItems, RunOutQuiet
  <1>7. RunOut(x, "Authenticated") = OpIs(AtState(x, "Idle"), DefaultOp) /\ RunOut(x, "Logon") = Submits(x)
    BY <1>1, <1>4, MadeRests, DoneItems, RunOutQuiet
  <1>8. /\ RunOut(x, "Connect") = Asking(x, "Connect", "Refresh")
        /\ RunOut(x, "RealmList") = Asking(x, "GetRealms", "Refresh")
    BY <1>1, MadeRests, AskingItems, RunOutQuiet, Names
  <1> QED BY <1>5, <1>6, <1>7, <1>8

\* OKAY, where a dialog shows and where none does.
LEMMA OkayRuns ==
    ASSUME NEW L, NEW E, NEW W, NEW x \in Rested(L, E, W), 0 \in L
    PROVE  /\ x.state = "Idle" => RunOut(x, "Okay") = x
           /\ x.state = "Logon" /\ x.cells = "failed" => RunOut(x, "Okay") = Closes(x)
           /\ x.state \in {"Connect", "CharList"} => RunOut(x, "Okay") = NoRows(Complete(x, "cancelled"))
           /\ x.state \in {"RealmList", "EnterWorld"} => RunOut(x, "Okay") = AtState(Complete(x, "cancelled"), "Idle")
           /\ x.state = "LoginRefused" /\ x.connected =>
                 RunOut(x, "Okay") = Asking(NoRows(AtState(x, "CharList")), "CharList", "Enumerate")
  <1>0. Do(x, "Okay") = StatusDialogClick(x)
    BY DEF Do, Handle, Signals
  <1>x. x \in Working(L, E, W) /\ x.outbox = <<>>
    BY DEF Rested
  <1>b. \A y \in Rested(L, E, W) : y.outbox = <<>>
    BY DEF Rested
  <1>c. Complete(x, "cancelled") \in Rested(L, E, W)
    <2>1. Complete(x, "cancelled").outbox = <<>>
      BY <1>x DEF Complete, Working
    <2> QED BY <1>x, <2>1, CompleteTyped, Names DEF Rested
  <1>1. CASE x.state = "Idle"
    <2>1. Do(x, "Okay") = x
      BY <1>0, <1>1 DEF StatusDialogClick
    <2> QED BY <1>1, <1>x, <2>1, RunOutQuiet
  <1>2. ASSUME x.state = "Logon", x.cells = "failed"
        PROVE  RunOut(x, "Okay") = Closes(x)
    <2>1. Do(x, "Okay") = Closes(x)
      BY <1>0, <1>2 DEF StatusDialogClick, AskLogin, Closes
    <2> QED BY <2>1, <1>b, MadeRests, RunOutQuiet
  <1>3. ASSUME x.state \in {"Connect", "CharList"}
        PROVE  RunOut(x, "Okay") = NoRows(Complete(x, "cancelled"))
    <2> DEFINE y == Complete(x, "cancelled")
    <2>2. Do(x, "Okay") = Raise(y, <<"Teardown">>)
      BY <1>0, <1>3 DEF StatusDialogClick
    <2> HIDE DEF y
    <2>3. Do(y, "Teardown") = NoRows(y)
      BY DoneItems
    <2>4. y \in Rested(L, E, W) /\ NoRows(y).outbox = <<>>
      BY <1>b, <1>c, MadeRests DEF y
    <2>5. RunOut(x, "Okay") = NoRows(y)
      BY <2>2, <2>3, <2>4, RunOutOne, Names
    <2> QED BY <2>5 DEF y
  <1>4. ASSUME x.state \in {"RealmList", "EnterWorld"}
        PROVE  RunOut(x, "Okay") = AtState(Complete(x, "cancelled"), "Idle")
    <2> DEFINE y == Complete(x, "cancelled")
    <2>1. Do(x, "Okay") = AtState(y, "Idle")
      BY <1>0, <1>4 DEF StatusDialogClick, AtState
    <2> HIDE DEF y
    <2>2. AtState(y, "Idle").outbox = <<>>
      BY <1>b, <1>c, MadeRests, Names DEF y
    <2> QED BY <2>1, <2>2, RunOutQuiet DEF y
  <1>5. ASSUME x.state = "LoginRefused", x.connected
        PROVE  RunOut(x, "Okay") = Asking(NoRows(AtState(x, "CharList")), "CharList", "Enumerate")
    <2> DEFINE y == NoRows(AtState(x, "CharList"))
               z == [x EXCEPT !.state = "Idle"]
    <2>1. y \in Rested(L, E, W)
      BY MadeRests, Names
    <2>2. y.connected
      BY <1>x, <1>5 DEF Working, NoRows, AtState
    <2>3. [z EXCEPT !.state = "CharList", !.rows = 0] = y /\ z.state = "Idle"
      BY <1>x DEF Working, NoRows, AtState
    <2>4. Do(x, "Okay") = GetCharacterList(z)
      BY <1>0, <1>5 DEF StatusDialogClick
    <2> HIDE DEF z, y
    <2>5. Do(x, "Okay") = Raise(y, <<"CharList">>)
      BY <2>3, <2>4 DEF GetCharacterList
    <2>6. Do(y, "CharList") = Asking(y, "CharList", "Enumerate")
      BY <2>1, <2>2, AskingItems
    <2>7. Asking(y, "CharList", "Enumerate").outbox = <<>>
      BY <1>b, <2>1, MadeRests, Names
    <2>8. RunOut(x, "Okay") = Asking(y, "CharList", "Enumerate")
      BY <2>1, <2>5, <2>6, <2>7, RunOutOne, Names
    <2> QED BY <2>8 DEF y
  <1> QED BY <1>1, <1>2, <1>3, <1>4, <1>5, <1>x

\* What raises one item, and that one nothing, at the head of an outbox or alone in it.
LEMMA PumpNone ==
    ASSUME NEW L, NEW E, NEW W, NEW x \in Rested(L, E, W), 0 \in L
    PROVE  Pump(x) = x
  <1>1. x \in Working(L, E, W) /\ x.outbox = <<>> /\ Len(x.outbox) = 0
    BY DEF Rested
  <1>2. [x EXCEPT !.outbox = <<>>] = x
    BY <1>1 DEF Working
  <1> QED BY <1>1, <1>2, PumpChain

LEMMA BoxedTyped ==
    ASSUME NEW L, NEW E, NEW W, NEW x \in Rested(L, E, W), NEW items \in Seq(Steps)
    PROVE  /\ Boxed(x, items) \in Working(L, E, W) /\ Boxed(x, items).outbox = items
           /\ [Boxed(x, items) EXCEPT !.outbox = <<>>] = x
  BY DEF Boxed, Rested, Working

\* An outbox of one item, of two and of three.
LEMMA PumpOne ==
    ASSUME NEW L, NEW E, NEW W, NEW x \in Rested(L, E, W), 0 \in L, NEW a \in Steps
    PROVE  Pump(Boxed(x, <<a>>)) = RunOut(x, a)
  <1> DEFINE y == Boxed(x, <<a>>)
  <1>1. y \in Working(L, E, W) /\ y.outbox = <<a>> /\ [y EXCEPT !.outbox = <<>>] = x
    BY BoxedTyped, ListsTyped
  <1>0. y \in Working(L, E, W)
    BY <1>1
  <1> HIDE DEF y
  <1>2. Len(y.outbox) = 1 /\ y.outbox[1] = a
    BY <1>1
  <1>3. PICK f : /\ f[0] = [y EXCEPT !.outbox = <<>>]
                 /\ \A i \in 1 .. Len(y.outbox) : f[i] = RunOut(f[i - 1], y.outbox[i])
                 /\ Pump(y) = f[Len(y.outbox)]
    BY <1>0, PumpChain
  <1>4. f[1] = RunOut(f[0], y.outbox[1])
    BY <1>2, <1>3
  <1> QED BY <1>1, <1>2, <1>3, <1>4 DEF y

LEMMA PumpTwo ==
    ASSUME NEW L, NEW E, NEW W, NEW x \in Rested(L, E, W), 0 \in L, NEW a \in Steps, NEW b \in Steps
    PROVE  Pump(Boxed(x, <<a, b>>)) = RunOut(RunOut(x, a), b)
  <1> DEFINE y == Boxed(x, <<a, b>>)
  <1>1. y \in Working(L, E, W) /\ y.outbox = <<a, b>> /\ [y EXCEPT !.outbox = <<>>] = x
    BY BoxedTyped, ListsTyped
  <1>0. y \in Working(L, E, W)
    BY <1>1
  <1> HIDE DEF y
  <1>2. Len(y.outbox) = 2 /\ y.outbox[1] = a /\ y.outbox[2] = b
    BY <1>1
  <1>3. PICK f : /\ f[0] = [y EXCEPT !.outbox = <<>>]
                 /\ \A i \in 1 .. Len(y.outbox) : f[i] = RunOut(f[i - 1], y.outbox[i])
                 /\ Pump(y) = f[Len(y.outbox)]
    BY <1>0, PumpChain
  <1>4. f[1] = RunOut(f[0], y.outbox[1]) /\ f[2] = RunOut(f[1], y.outbox[2])
    BY <1>2, <1>3
  <1> QED BY <1>1, <1>2, <1>3, <1>4 DEF y

LEMMA PumpThree ==
    ASSUME NEW L, NEW E, NEW W, NEW x \in Rested(L, E, W), 0 \in L,
           NEW a \in Steps, NEW b \in Steps, NEW c \in Steps
    PROVE  Pump(Boxed(x, <<a, b, c>>)) = RunOut(RunOut(RunOut(x, a), b), c)
  <1> DEFINE y == Boxed(x, <<a, b, c>>)
  <1>1. y \in Working(L, E, W) /\ y.outbox = <<a, b, c>> /\ [y EXCEPT !.outbox = <<>>] = x
    BY BoxedTyped, ListsTyped
  <1>0. y \in Working(L, E, W)
    BY <1>1
  <1> HIDE DEF y
  <1>2. Len(y.outbox) = 3 /\ y.outbox[1] = a /\ y.outbox[2] = b /\ y.outbox[3] = c
    BY <1>1
  <1>3. PICK f : /\ f[0] = [y EXCEPT !.outbox = <<>>]
                 /\ \A i \in 1 .. Len(y.outbox) : f[i] = RunOut(f[i - 1], y.outbox[i])
                 /\ Pump(y) = f[Len(y.outbox)]
    BY <1>0, PumpChain
  <1>4. f[1] = RunOut(f[0], y.outbox[1]) /\ f[2] = RunOut(f[1], y.outbox[2]) /\ f[3] = RunOut(f[2], y.outbox[3])
    BY <1>2, <1>3
  <1> QED BY <1>1, <1>2, <1>3, <1>4 DEF y

\* A character list asked for on the selection's ground, and the selection shown.
Enumerating(x) == Asking(NoRows(AtState(x, "CharList")), "CharList", "Enumerate")

LEMMA EnumeratingRests ==
    ASSUME NEW L, NEW E, NEW W, NEW x \in Rested(L, E, W), 0 \in L
    PROVE  /\ NoRows(AtState(x, "CharList")) \in Rested(L, E, W)
           /\ Enumerating(x) \in Rested(L, E, W)
  BY MadeRests, Names DEF Enumerating

LEMMA CharSelectRuns ==
    ASSUME NEW L, NEW E, NEW W, NEW x \in Rested(L, E, W), 0 \in L
    PROVE  /\ x.connected /\ x.state # "LoginRefused" =>
                 RunOut(x, "CharSelect") = Enumerating(AtSelection(x))
           /\ x.state = "LoginRefused" => RunOut(x, "CharSelect") = AtSelection(x)
  <1> DEFINE y == AtSelection(x)
             z == NoRows(AtState(y, "CharList"))
  <1>1. Do(x, "CharSelect") = IF x.connected THEN GetCharacterList(y) ELSE y
    BY DEF Do, Handle, Signals, AtSelection
  <1>2. y \in Rested(L, E, W) /\ z \in Rested(L, E, W)
    BY MadeRests, Names
  <1>3. y.connected = x.connected /\ y.state = x.state /\ z.connected = x.connected
    BY DEF AtSelection, NoRows, AtState, Rested, Working
  <1>4. [y EXCEPT !.state = "CharList", !.rows = 0] = z
    BY DEF NoRows, AtState
  <1> HIDE DEF y, z
  <1>5. \A t \in Rested(L, E, W) : t.outbox = <<>>
    BY DEF Rested
  <1>6. ASSUME x.connected, x.state # "LoginRefused"
        PROVE  RunOut(x, "CharSelect") = Enumerating(y)
    <2>1. Do(x, "CharSelect") = Raise(z, <<"CharList">>)
      BY <1>1, <1>3, <1>4, <1>6 DEF GetCharacterList
    <2>2. Do(z, "CharList") = Asking(z, "CharList", "Enumerate")
      BY <1>2, <1>3, <1>6, AskingItems
    <2>3. Asking(z, "CharList", "Enumerate").outbox = <<>>
      BY <1>2, <1>5, MadeRests, Names
    <2>4. RunOut(x, "CharSelect") = Asking(z, "CharList", "Enumerate")
      BY <1>2, <2>1, <2>2, <2>3, RunOutOne, Names
    <2> QED BY <2>4 DEF Enumerating, z
  <1>7. ASSUME x.state = "LoginRefused"
        PROVE  RunOut(x, "CharSelect") = y
    <2>1. Do(x, "CharSelect") = y
      BY <1>1, <1>3, <1>7 DEF GetCharacterList
    <2> QED BY <1>2, <1>5, <2>1, RunOutQuiet
  <1> QED BY <1>6, <1>7 DEF y

\* The logon's arm.
LoggedOn(x) == [OpIs(x, Begun("Connect")) EXCEPT !.state = "Connect", !.authFinal = FALSE]

LEMMA LogonPastDialogRuns ==
    ASSUME NEW L, NEW E, NEW W, NEW x \in Rested(L, E, W), 0 \in L
    PROVE  /\ LoggedOn(x) \in Rested(L, E, W)
           /\ x.authFinal => RunOut(x, "LogonPastDialog") = LoggedOn(x)
           /\ ~x.authFinal /\ x.cells = "failed" => RunOut(x, "LogonPastDialog") = Closes(x)
           /\ ~x.authFinal /\ x.cells # "failed" => RunOut(x, "LogonPastDialog") = x
  <1>1. OpIs(x, Begun("Connect")) \in Rested(L, E, W)
    BY MadeRests, OpTyped, Names
  <1>2. LoggedOn(x) \in Rested(L, E, W)
    BY <1>1, Names DEF LoggedOn, Rested, Working
  <1>3. Do(x, "LogonPastDialog") = LogonPastDialog(x)
    BY DEF Do, RunStep, Signals
  <1>4. \A y \in Rested(L, E, W) : y.outbox = <<>>
    BY DEF Rested
  <1>5. x.authFinal => Do(x, "LogonPastDialog") = LoggedOn(x)
    BY <1>3 DEF LogonPastDialog, LoggedOn, Begin, OpIs
  <1>6. ~x.authFinal /\ x.cells = "failed" => Do(x, "LogonPastDialog") = Closes(x)
    BY <1>3 DEF LogonPastDialog, Closes, AskLogin
  <1>7. ~x.authFinal /\ x.cells # "failed" => Do(x, "LogonPastDialog") = x
    BY <1>3 DEF LogonPastDialog
  <1>8. Closes(x) \in Rested(L, E, W)
    BY MadeRests
  <1> QED BY <1>2, <1>4, <1>5, <1>6, <1>7, <1>8, RunOutQuiet

\* A world dialled in vain: the realm list held is shown, or one is asked for.
RealmsAsked(x) == Asking(AtState(x, "RealmList"), "GetRealms", "Refresh")

LEMMA WorldFailedRuns ==
    ASSUME NEW L, NEW E, NEW W, NEW x \in Rested(L, E, W), 0 \in L
    PROVE  /\ NoRows(Dropped(x)) \in Rested(L, E, W)
           /\ x.holder => RunOut(x, "WorldFailed") = Shown(NoRows(Dropped(x)))
           /\ ~x.holder => RunOut(x, "WorldFailed") = RealmsAsked(NoRows(Dropped(x)))
  <1> DEFINE d == Dropped(x)
             y == NoRows(d)
             z == AtState(y, "RealmList")
  <1>1. d \in Rested(L, E, W) /\ y \in Rested(L, E, W) /\ z \in Rested(L, E, W)
    BY MadeRests, Names
  <1>2. y.holder = x.holder
    BY DEF NoRows, Dropped, Rested, Working
  <1>3. Do(x, "WorldFailed") = Raise(d, <<"Teardown", "RaiseRealmList">>)
    BY DEF Do, RunStep, Signals, WorldFailedPastDialog, Dropped
  <1>4. RequestRealmList(y) = Raise(z, <<"RealmList">>)
    BY DEF RequestRealmList, AtState
  <1>5. Do(y, "RaiseRealmList") = IF y.holder THEN Raise(y, <<"Rebuild">>) ELSE RequestRealmList(y)
    BY DEF Do, RunStep, Signals
  <1>6. Do(d, "Teardown") = y
    BY DoneItems
  <1> HIDE DEF d, y, z
  <1>7. \A t \in Rested(L, E, W) : t.outbox = <<>>
    BY DEF Rested
  <1>8. Turn(Do(x, "WorldFailed")) = Boxed(y, <<"RaiseRealmList">>)
    <2>1. Do(x, "WorldFailed") = Boxed(d, <<"Teardown", "RaiseRealmList">>)
      BY <1>1, <1>3, <1>7, RaisedBoxed
    <2>2. Do(d, "Teardown").outbox = <<>>
      BY <1>1, <1>6, <1>7
    <2> QED BY <1>1, <1>6, <2>1, <2>2, TurnTwo, Names
  <1>9. Turn(Turn(Do(x, "WorldFailed"))) = Do(y, "RaiseRealmList")
    BY <1>1, <1>8, TurnOne, Names
  <1>10. x.holder => RunOut(x, "WorldFailed") = Shown(y)
    <2> SUFFICES ASSUME x.holder
                 PROVE  RunOut(x, "WorldFailed") = Shown(y)
      OBVIOUS
    <2>1. Do(y, "RaiseRealmList") = Boxed(y, <<"Rebuild">>)
      BY <1>1, <1>2, <1>5, <1>7, RaisedBoxed
    <2> QED BY <1>1, <1>9, <2>1, TurnOne, DoneItems, Names DEF RunOut
  <1>11. ~x.holder => RunOut(x, "WorldFailed") = RealmsAsked(y)
    <2> SUFFICES ASSUME ~x.holder
                 PROVE  RunOut(x, "WorldFailed") = RealmsAsked(y)
      OBVIOUS
    <2>1. Do(y, "RaiseRealmList") = Boxed(z, <<"RealmList">>)
      BY <1>1, <1>2, <1>4, <1>5, <1>7, RaisedBoxed
    <2>2. Do(z, "RealmList") = Asking(z, "GetRealms", "Refresh")
      BY <1>1, AskingItems
    <2>3. RunOut(x, "WorldFailed") = Asking(z, "GetRealms", "Refresh")
      BY <1>1, <1>9, <2>1, <2>2, TurnOne, Names DEF RunOut
    <2> QED BY <2>3 DEF RealmsAsked, z
  <1> QED BY <1>1, <1>10, <1>11 DEF y, d

LEMMA WorldAuthFailedRuns ==
    ASSUME NEW L, NEW E, NEW W, NEW x \in Rested(L, E, W), 0 \in L
    PROVE  RunOut(x, "WorldAuthFailed") =
              IF x.screen = "charselect" THEN AtLogin(Dropped(x)) ELSE Dropped(x)
  <1> DEFINE d == Dropped(x)
  <1>1. d \in Rested(L, E, W) /\ AtLogin(d) \in Rested(L, E, W)
    BY MadeRests
  <1>2. d.screen = x.screen
    BY DEF Dropped, Rested, Working
  <1>3. Do(x, "WorldAuthFailed") = Raise(d, <<"LoginFromSelect">>)
    BY DEF Do, RunStep, Signals, WorldFailedPastDialog, Dropped
  <1>4. Do(d, "LoginFromSelect") = IF d.screen = "charselect" THEN AtLogin(d) ELSE d
    BY DEF Do, Handle, Signals, AtLogin
  <1> HIDE DEF d
  <1>5. d.outbox = <<>> /\ AtLogin(d).outbox = <<>>
    BY <1>1 DEF Rested
  <1>6. RunOut(x, "WorldAuthFailed") = Do(d, "LoginFromSelect")
    BY <1>1, <1>3, <1>4, <1>5, RunOutOne, Names
  <1> QED BY <1>2, <1>4, <1>6 DEF d
=============================================================================
