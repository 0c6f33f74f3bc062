-------------------------- MODULE NetSession_proofs --------------------------
(***************************************************************************)
(* The session: with the app's frames, sends and presses around it, the    *)
(* read thread still keeps SessionProtocol; types; the loss of a session   *)
(* has the last word wherever the login policy runs ahead of the session   *)
(* edges; and no pick is kept past the end of its world but by a press in  *)
(* the frame that drains it.                                               *)
(*                                                                         *)
(* The invariant the types need counts: heard trails the thread's returns  *)
(* by the returns still told in the event channel, and a dial the frame    *)
(* has still to send is stamped with the generation its own bumps lead to. *)
(***************************************************************************)
EXTENDS NetSession, ReadThread_proofs, GlueManager_proofs, FiniteSetTheorems, SequenceTheorems

----------------------------------------------------------------------------
(* The session protocol.                                                   *)

\* The app's side of a step, as the read thread's own specification allows it.
LEMMA AppActs ==
    ASSUME Transition \/ IdleFrame \/ PressFrame \/ Send
    PROVE  AppStep \/ UNCHANGED readVars
  <1>1. CASE Transition
    BY <1>1 DEF Transition
  <1>2. ASSUME NEW press, Frame(press)
        PROVE  AppStep
    BY <1>2 DEF Frame, Conclude, AppStep
  <1>3. CASE IdleFrame \/ PressFrame
    BY <1>2, <1>3 DEF IdleFrame, PressFrame
  <1>4. CASE Send
    BY <1>4 DEF Send, AppStep, channels
  <1> QED BY <1>1, <1>3, <1>4

\* Whatever the player presses and in whatever order the frame's systems run, the events the
\* read thread tells keep the session protocol.
THEOREM ProtocolStays == Spec => KeepsProtocol
  <1>1. Init => Protocol!Init
    BY DEF Init, ReadInit, Protocol!Init, Phase, InWorld
  <1>2. [Next]_vars => [Protocol!Next]_<<Phase, epoch, events>>
    <2> SUFFICES ASSUME [Next]_vars
                 PROVE  ProtocolStep
      BY DEF ProtocolStep
    <2>1. ASSUME UNCHANGED readVars
          PROVE  ProtocolStep
      BY <2>1 DEF readVars, threadVars, channels, Phase, ProtocolStep
    <2>2. CASE Transition \/ IdleFrame \/ PressFrame \/ Send
      BY <2>1, <2>2, AppActs, AppStepKeeps
    <2>3. CASE ReadThreadStep
      <3>1. ServerStep(client = "InWorld") => ServerStep(TRUE)
        BY DEF ServerStep
      <3> QED BY <2>3, <3>1, ReadStepKeeps, ServerStepKeeps DEF ReadThreadStep
    <2>4. CASE UNCHANGED vars
      BY <2>1, <2>4 DEF vars
    <2> QED BY <2>2, <2>3, <2>4 DEF Next
  <1> QED BY <1>1, <1>2, PTL DEF Spec, KeepsProtocol, Protocol!Spec, Protocol!protocolVars

----------------------------------------------------------------------------
(* The manager through a frame.                                            *)

Eras == 0 .. returns

\* What the manager hears of, and the news it hears nothing of.
Heard == {"Stage", "Queued", "List", "Failed", "Auth", "RosterFailed", "Roster", "Lost"}

LEMMA NewsTyped ==
    ASSUME NEW e \in News
    PROVE  /\ e.kind = "Stage" => e.stage \in {"Connecting", "Handshaking", "WorldConnected"}
           /\ e.kind \in {"Auth", "Roster"} => e.epoch \in Links
           /\ e.kind = "Auth" => e.gen \in 0 .. gen
  <1>1. CASE e.kind \in {"Queued", "Connected", "LoggedOut", "Refused", "Lost", "List", "Failed",
                         "RosterFailed"}
    BY <1>1
  <1>2. CASE e.kind = "Stage"
    BY <1>2 DEF News
  <1>4. CASE e.kind = "Auth"
    <2>1. e \in [kind : {"Auth"}, epoch : 1 .. epoch, gen : 0 .. gen]
      BY <1>4 DEF News
    <2> QED BY <1>4, <2>1 DEF Links
  <1>5. CASE e.kind = "Roster"
    <2>1. e \in [kind : {"Roster"}, epoch : 1 .. epoch]
      BY <1>5 DEF News
    <2> QED BY <1>5, <2>1 DEF Links
  <1> QED BY <1>1, <1>2, <1>4, <1>5 DEF News

LEMMA HearTyped ==
    ASSUME NEW E, NEW W, NEW x \in Working(Links, E, W), 0 \in Links, NEW e \in News,
           e.kind \in Heard, e.kind = "Auth" => W = BOOLEAN
    PROVE  Hear(x, e) \in Working(Links, E, W)
  <1> DEFINE X == Working(Links, E, W)
  <1>1. CASE e.kind = "Stage"
    <2>1. OnStage(x, e.stage, client # "InWorld") \in X
      BY <1>1, NewsTyped, OnStageTyped
    <2> QED BY <1>1, <2>1 DEF Hear
  <1>2. CASE e.kind = "Queued"
    <2>1. OnQueued(x) \in X
      BY OnQueuedTyped
    <2> QED BY <1>2, <2>1 DEF Hear
  <1>3. CASE e.kind = "List"
    <2>1. OnList(x, e.reply) \in X
      BY OnListTyped
    <2> QED BY <1>3, <2>1 DEF Hear
  <1>4. CASE e.kind = "Failed"
    <2>1. OnFailed(x, e.why) \in X
      BY OnFailedTyped
    <2> QED BY <1>4, <2>1 DEF Hear
  <1>5. CASE e.kind = "Auth"
    <2>1. OnWorldAuthenticated(x, e.epoch) \in X
      BY <1>5, NewsTyped, OnWorldAuthenticatedTyped
    <2> QED BY <1>5, <2>1 DEF Hear
  <1>6. CASE e.kind = "RosterFailed"
    <2>1. OnRosterFailed(x, e.epoch, e.emptied) \in X
      BY OnRosterFailedTyped
    <2> QED BY <1>6, <2>1 DEF Hear
  <1>7. CASE e.kind = "Roster"
    <2>1. OnRoster(x, e.epoch) \in X
      BY <1>7, NewsTyped, OnRosterTyped
    <2> QED BY <1>7, <2>1 DEF Hear
  <1>8. CASE e.kind = "Lost"
    <2>1. OnLost(x) \in X
      BY OnLostTyped
    <2> QED BY <1>8, <2>1 DEF Hear
  <1> QED BY <1>1, <1>2, <1>3, <1>4, <1>5, <1>6, <1>7, <1>8 DEF Heard

\* The manager told the news of a kind is a chain over the news.
LEMMA ToldChain ==
    ASSUME NEW E, NEW W, NEW x \in Working(Links, E, W), 0 \in Links, NEW news \in Seq(News),
           NEW kind \in Heard, kind = "Auth" => W = BOOLEAN
    PROVE  \E f : /\ f[0] = x
                  /\ \A i \in 1 .. Len(news) :
                        f[i] = IF news[i].kind = kind THEN Hear(f[i - 1], news[i]) ELSE f[i - 1]
                  /\ Told(x, news, kind) = f[Len(news)]
                  /\ \A i \in 0 .. Len(news) : f[i] \in Working(Links, E, W)
  <1> DEFINE N == Len(news)
             X == Working(Links, E, W)
             Next1(y, i) == IF news[i].kind = kind THEN Hear(y, news[i]) ELSE y
             s == [i \in 1 .. N |-> [y \in X |-> Next1(y, i)]]
             Run(f) == [i \in 0 .. N |-> IF i = 0 THEN x
                                         ELSE IF news[i].kind = kind THEN Hear(f[i - 1], news[i])
                                         ELSE f[i - 1]]
  <1>1. N \in Nat /\ \A i \in 1 .. N : news[i] \in News
    OBVIOUS
  <1> HIDE DEF N
  <1>2. \A y \in X : \A i \in 1 .. N : Next1(y, i) \in X
    BY <1>1, HearTyped
  <1> HIDE DEF X
  <1>3. s \in [1 .. N -> [X -> X]]
    <2> HIDE DEF Next1
    <2> QED BY <1>2
  <1>4. x \in X
    BY DEF X
  <1>5. PICK g : g \in [0 .. N -> X] /\ g[0] = x /\ \A i \in 1 .. N : g[i] = s[i][g[i - 1]]
    <2> HIDE DEF s
    <2>1. N \in Nat
      BY <1>1
    <2>2. \E f : IsChain(f, N, X, x, s)
      BY <1>3, <1>4, <2>1, ChainExists
    <2> QED BY <2>2 DEF IsChain
  <1>6. g = Run(g)
    <2>1. \A i \in 1 .. N : i - 1 \in 0 .. N /\ g[i - 1] \in X
      BY <1>1, <1>5
    <2>2. \A i \in 1 .. N : g[i] = Next1(g[i - 1], i)
      BY <1>5, <2>1
    <2>3. \A i \in 0 .. N : g[i] = Run(g)[i]
      BY <1>1, <1>5, <2>2
    <2> QED BY <1>5, <2>3
  <1> DEFINE told == CHOOSE f : f = Run(f)
  <1>7. told = Run(told)
    BY <1>6
  <1>8. Told(x, news, kind) = told[N]
    BY DEF Told, N
  <1> HIDE DEF told
  <1>9. /\ told[0] = x
        /\ \A i \in 1 .. N : told[i] = IF news[i].kind = kind THEN Hear(told[i - 1], news[i])
                                       ELSE told[i - 1]
    BY <1>1, <1>7
  <1>10. \A i \in 1 .. N : told[i - 1] \in X => told[i] \in X
    BY <1>2, <1>9
  <1>11. \A i \in 0 .. N : told[i] \in X
    BY <1>1, <1>4, <1>9, <1>10, ChainStays
  <1> QED BY <1>8, <1>9, <1>11 DEF N, X

LEMMA ToldTyped ==
    ASSUME NEW E, NEW W, NEW x \in Working(Links, E, W), 0 \in Links, NEW news \in Seq(News),
           NEW kind \in Heard, kind = "Auth" => W = BOOLEAN
    PROVE  Told(x, news, kind) \in Working(Links, E, W)
  <1>1. Len(news) \in 0 .. Len(news)
    OBVIOUS
  <1> QED BY <1>1, ToldChain

LEMMA DriveRests ==
    ASSUME NEW E, NEW x \in Working(Links, E, {FALSE}), 0 \in Links, NEW news \in Seq(News)
    PROVE  DriveGlueMgr(x, news) \in Rested(Links, E, {FALSE})
  <1> DEFINE X     == Working(Links, E, {FALSE})
             B     == Working(Links, E, BOOLEAN)
             begun == BeginFrame(x, news, client # "InWorld")
             logon == Told(HearLogon(begun, news), news, "Queued")
             dial  == HearDial(Latched(logon), news)
             over  == HearSession(dial, news)
  <1>1. begun \in X
    <2> DEFINE heeded == [x EXCEPT !.refused = @ \/ Some(news, "Refused")]
    <2>1. heeded \in X
      BY DEF Working
    <2> HIDE DEF heeded
    <2>2. TakeRefusal(heeded) \in X /\ [heeded EXCEPT !.state = "Idle"] \in X
      BY <2>1, TakeRefusalTyped, FieldTyped, Names
    <2> QED BY <2>2, ReconnectTyped DEF BeginFrame, heeded
  <1> HIDE DEF begun
  <1>2. logon \in X
    <2>1. Told(begun, news, "Stage") \in X
      BY <1>1, ToldTyped DEF Heard
    <2>2. HearLogon(begun, news) \in X
      BY <2>1, OnLogonDoneTyped DEF HearLogon
    <2> QED BY <2>2, ToldTyped DEF Heard
  <1> HIDE DEF logon
  <1>3. Latched(logon) \in B
    <2>1. Tick(logon) \in X
      BY <1>2, TickTyped
    <2>2. Pump(Tick(logon)) \in X
      BY <2>1, PumpRests DEF Rested
    <2>3. Latched(logon) \in X
      BY <1>2, <2>2 DEF Latched
    <2> QED BY <2>3 DEF Working
  <1>4. dial \in X
    <2> DEFINE y == Told(Told(Latched(logon), news, "List"), news, "Failed")
    <2>1. Told(Latched(logon), news, "List") \in B
      BY <1>3, ToldTyped DEF Heard
    <2>2. y \in B
      BY <2>1, ToldTyped DEF Heard
    <2> HIDE DEF y
    <2>3. Told(y, news, "Auth") \in B
      BY <2>2, ToldTyped DEF Heard
    <2>4. FinishAuth(Told(y, news, "Auth")) \in X
      BY <2>3, FinishAuthTyped
    <2> QED BY <2>4 DEF HearDial, y
  <1> HIDE DEF dial
  <1>5. over \in X
    <2>1. Told(dial, news, "RosterFailed") \in X
      BY <1>4, ToldTyped DEF Heard
    <2>2. Told(Told(dial, news, "RosterFailed"), news, "Roster") \in X
      BY <2>1, ToldTyped DEF Heard
    <2> QED BY <2>2, ToldTyped DEF HearSession, Heard
  <1> HIDE DEF over
  <1>6. Pump(over) \in X
    BY <1>5, PumpRests DEF Rested
  <1>7. Tick(Pump(over)) \in X
    BY <1>6, TickTyped
  <1>8. Pump(Tick(Pump(over))) \in Rested(Links, E, {FALSE})
    BY <1>7, PumpRests
  <1> QED BY <1>8 DEF DriveGlueMgr, over, dial, logon, begun

----------------------------------------------------------------------------
(* Counting.                                                               *)

\* The news of some kinds are finitely many, and one more of them is one more.
LEMMA OfCounts ==
    ASSUME NEW S, NEW news \in Seq(S), NEW kinds
    PROVE  /\ IsFiniteSet(Of(news, kinds)) /\ Cardinality(Of(news, kinds)) \in Nat
           /\ Of(news, kinds) \subseteq 1 .. Len(news)
  <1>1. Of(news, kinds) \subseteq 1 .. Len(news) /\ Len(news) \in Nat
    BY DEF Of
  <1>2. IsFiniteSet(1 .. Len(news))
    BY <1>1, FS_Interval
  <1>3. IsFiniteSet(Of(news, kinds))
    BY <1>1, <1>2, FS_Subset
  <1> QED BY <1>1, <1>3, FS_CardinalityType

LEMMA ReturnedAppends ==
    ASSUME NEW S, NEW news \in Seq(S), NEW e \in S
    PROVE  Returned(Append(news, e)) =
              IF e.kind \in {"LoggedOut", "Refused"} THEN Returned(news) + 1 ELSE Returned(news)
  <1> DEFINE kinds == {"LoggedOut", "Refused"}
             old   == Of(news, kinds)
  <1>1. Len(news) \in Nat /\ old \subseteq 1 .. Len(news) /\ IsFiniteSet(old)
    BY OfCounts
  <1>2. /\ DOMAIN Append(news, e) = 1 .. Len(news) + 1
        /\ \A i \in 1 .. Len(news) : Append(news, e)[i] = news[i]
        /\ Append(news, e)[Len(news) + 1] = e
    BY AppendProperties
  <1>3. CASE e.kind \in kinds
    <2>1. Of(Append(news, e), kinds) = old \cup {Len(news) + 1}
      BY <1>1, <1>2, <1>3 DEF Of
    <2>2. Len(news) + 1 \notin old
      BY <1>1
    <2>3. Cardinality(old \cup {Len(news) + 1}) = Cardinality(old) + 1
      BY <1>1, <2>2, FS_AddElement
    <2> QED BY <1>3, <2>1, <2>3 DEF Returned
  <1>4. CASE e.kind \notin kinds
    <2>1. Of(Append(news, e), kinds) = old
      BY <1>1, <1>2, <1>4 DEF Of
    <2> QED BY <1>4, <2>1 DEF Returned
  <1> QED BY <1>3, <1>4

LEMMA ReturnedCounts ==
    /\ Returned(<<>>) = 0
    /\ \A S : \A news \in Seq(S) : Returned(news) \in Nat
  <1>1. Of(<<>>, {"LoggedOut", "Refused"}) = {}
    BY DEF Of
  <1> QED BY <1>1, FS_EmptySet, OfCounts DEF Returned

Bumped(sends) == {i \in DOMAIN sends : sends[i].ask = "Bump"}

LEMMA BumpsCounts ==
    ASSUME NEW S, NEW sends \in Seq(S)
    PROVE  IsFiniteSet(Bumped(sends)) /\ Bumps(sends) \in Nat /\ Bumps(sends) = Cardinality(Bumped(sends))
  <1>1. Bumped(sends) \subseteq 1 .. Len(sends) /\ Len(sends) \in Nat
    BY DEF Bumped
  <1>2. IsFiniteSet(1 .. Len(sends))
    BY <1>1, FS_Interval
  <1>3. IsFiniteSet(Bumped(sends))
    BY <1>1, <1>2, FS_Subset
  <1>4. Bumps(sends) = Cardinality(Bumped(sends))
    BY DEF Bumped, Bumps
  <1> QED BY <1>3, <1>4, FS_CardinalityType

\* Sends one after another bump as often as the two together.
LEMMA BumpsAdd ==
    ASSUME NEW S, NEW a \in Seq(S), NEW b \in Seq(S)
    PROVE  Bumps(a \o b) = Bumps(a) + Bumps(b)
  <1> DEFINE far == {i + Len(a) : i \in Bumped(b)}
             shift == [i \in Bumped(b) |-> i + Len(a)]
  <1>1. Len(a) \in Nat /\ Len(b) \in Nat /\ Bumped(a) \subseteq 1 .. Len(a)
        /\ Bumped(b) \subseteq 1 .. Len(b)
    BY DEF Bumped
  <1>2. /\ DOMAIN (a \o b) = 1 .. Len(a) + Len(b)
        /\ \A i \in 1 .. Len(a) : (a \o b)[i] = a[i]
        /\ \A i \in 1 .. Len(b) : (a \o b)[i + Len(a)] = b[i]
    BY ConcatProperties
  <1>3. Bumped(a \o b) = Bumped(a) \cup far
    <2>1. ASSUME NEW i \in Bumped(a \o b)
          PROVE  i \in Bumped(a) \cup far
      <3>1. i \in 1 .. Len(a) + Len(b) /\ (a \o b)[i].ask = "Bump"
        BY <1>2 DEF Bumped
      <3>2. CASE i <= Len(a)
        BY <1>1, <1>2, <3>1, <3>2 DEF Bumped
      <3>3. CASE i > Len(a)
        <4>1. i - Len(a) \in 1 .. Len(b) /\ i = (i - Len(a)) + Len(a)
          BY <1>1, <3>1, <3>3
        <4>2. b[i - Len(a)].ask = "Bump"
          BY <1>2, <3>1, <4>1
        <4>3. i - Len(a) \in Bumped(b)
          BY <4>1, <4>2 DEF Bumped
        <4> QED BY <4>1, <4>3
      <3> QED BY <1>1, <3>1, <3>2, <3>3
    <2>2. Bumped(a) \subseteq Bumped(a \o b)
      BY <1>1, <1>2 DEF Bumped
    <2>3. ASSUME NEW i \in Bumped(b)
          PROVE  i + Len(a) \in Bumped(a \o b)
      <3>1. i \in 1 .. Len(b) /\ b[i].ask = "Bump"
        BY <1>1 DEF Bumped
      <3>2. i + Len(a) \in 1 .. Len(a) + Len(b) /\ (a \o b)[i + Len(a)] = b[i]
        BY <1>1, <1>2, <3>1
      <3> QED BY <1>2, <3>1, <3>2 DEF Bumped
    <2> QED BY <2>1, <2>2, <2>3
  <1>4. IsFiniteSet(far) /\ Cardinality(far) = Cardinality(Bumped(b))
    <2>1. shift \in Bijection(Bumped(b), far)
      <3>1. shift \in [Bumped(b) -> far]
        OBVIOUS
      <3>2. \A i, j \in Bumped(b) : shift[i] = shift[j] => i = j
        BY <1>1
      <3>3. \A k \in far : \E i \in Bumped(b) : shift[i] = k
        OBVIOUS
      <3> QED BY <3>1, <3>2, <3>3 DEF Bijection, Injection, Surjection, IsInjective
    <2> QED BY <2>1, BumpsCounts, FS_Bijection DEF ExistsBijection
  <1>5. Bumped(a) \cap far = {}
    BY <1>1
  <1>6. IsFiniteSet(Bumped(a)) /\ IsFiniteSet(Bumped(b))
        /\ Cardinality(Bumped(a)) \in Nat /\ Cardinality(Bumped(b)) \in Nat
    BY BumpsCounts
  <1>7. Cardinality(Bumped(a) \cup far) = Cardinality(Bumped(a)) + Cardinality(far)
    <2> HIDE DEF far
    <2>1. Cardinality(Bumped(a) \cup far)
             = Cardinality(Bumped(a)) + Cardinality(far) - Cardinality({})
      BY <1>4, <1>5, <1>6, FS_Union
    <2> QED BY <1>4, <1>6, <2>1, FS_EmptySet
  <1> QED BY <1>3, <1>4, <1>7 DEF Bumps, Bumped

LEMMA NoBumps ==
    ASSUME NEW S, NEW sends \in Seq(S), \A x \in S : x.ask # "Bump"
    PROVE  Bumps(sends) = 0
  <1>1. Bumped(sends) = {}
    BY DEF Bumped
  <1> QED BY <1>1, BumpsCounts, FS_EmptySet

LEMMA BumpsOfOne ==
    ASSUME NEW x
    PROVE  Bumps(<<x>>) = IF x.ask = "Bump" THEN 1 ELSE 0
  <1>1. DOMAIN <<x>> = {1} /\ <<x>>[1] = x
    OBVIOUS
  <1>2. CASE x.ask = "Bump"
    <2>1. Bumped(<<x>>) = {1}
      BY <1>1, <1>2 DEF Bumped
    <2> QED BY <1>2, <2>1, FS_Singleton DEF Bumps, Bumped
  <1>3. CASE x.ask # "Bump"
    <2>1. Bumped(<<x>>) = {}
      BY <1>1, <1>3 DEF Bumped
    <2> QED BY <1>3, <2>1, FS_EmptySet DEF Bumps, Bumped
  <1> QED BY <1>2, <1>3

\* The send made is one of the bumps there were, or none of them.
LEMMA BumpsTail ==
    ASSUME NEW S, NEW sends \in Seq(S), sends # <<>>
    PROVE  Bumps(sends) = (IF Head(sends).ask = "Bump" THEN 1 ELSE 0) + Bumps(Tail(sends))
  <1>1. sends = <<Head(sends)>> \o Tail(sends) /\ Head(sends) \in S /\ Tail(sends) \in Seq(S)
    OBVIOUS
  <1>2. <<Head(sends)>> \in Seq(S)
    BY <1>1
  <1> QED BY <1>1, <1>2, BumpsAdd, BumpsOfOne

----------------------------------------------------------------------------
(* What a frame sends.                                                     *)

LoginSends == {Submit, Bump, Close, [ask |-> "Abandon"]}

LEMMA AnswerTyped ==
    ASSUME NEW a \in LoginAsks
    PROVE  Answer(a) \in Seq(LoginSends)
  <1>1. <<Submit>> \in Seq(LoginSends) /\ <<Bump>> \in Seq(LoginSends)
        /\ <<Close>> \in Seq(LoginSends) /\ <<Bump, Close>> \in Seq(LoginSends)
        /\ <<[ask |-> "Abandon"]>> \in Seq(LoginSends) /\ <<>> \in Seq(LoginSends)
    BY DEF LoginSends
  <1> DEFINE left == IF client = "CharSelect" THEN <<[ask |-> "Abandon"]>> ELSE <<>>
  <1>2. <<Bump, Close>> \o left \in Seq(LoginSends)
    <2>1. left \in Seq(LoginSends)
      BY <1>1
    <2> HIDE DEF left, LoginSends
    <2> QED BY <1>1, <2>1
  <1> QED BY <1>1, <1>2 DEF Answer, LoginAsks

\* What the asks of a list send, ask by ask.
Sending(f, logins) ==
    /\ f[0] = <<>> /\ \A i \in 1 .. Len(logins) : f[i] = f[i - 1] \o Answer(logins[i])
    /\ Answers(logins) = f[Len(logins)]

LEMMA AnswersChain ==
    ASSUME NEW logins \in Seq(LoginAsks)
    PROVE  \E f : Sending(f, logins)
  <1> DEFINE N == Len(logins)
             X == Seq(LoginSends)
             s == [i \in 1 .. N |-> [y \in X |-> y \o Answer(logins[i])]]
             Run(f) == [i \in 0 .. N |-> IF i = 0 THEN <<>> ELSE f[i - 1] \o Answer(logins[i])]
  <1>1. N \in Nat /\ \A i \in 1 .. N : logins[i] \in LoginAsks
    OBVIOUS
  <1> HIDE DEF N
  <1>2. \A y \in X : \A i \in 1 .. N : y \o Answer(logins[i]) \in X
    BY <1>1, AnswerTyped
  <1>4. <<>> \in X
    OBVIOUS
  <1> HIDE DEF X
  <1>3. s \in [1 .. N -> [X -> X]]
    BY <1>2
  <1>5. PICK g : g \in [0 .. N -> X] /\ g[0] = <<>> /\ \A i \in 1 .. N : g[i] = s[i][g[i - 1]]
    <2> HIDE DEF s
    <2>1. N \in Nat
      BY <1>1
    <2>2. \E f : IsChain(f, N, X, <<>>, s)
      BY <1>3, <1>4, <2>1, ChainExists
    <2> QED BY <2>2 DEF IsChain
  <1>6. g = Run(g)
    <2>1. \A i \in 1 .. N : i - 1 \in 0 .. N /\ g[i - 1] \in X
      BY <1>1, <1>5
    <2>2. \A i \in 1 .. N : g[i] = g[i - 1] \o Answer(logins[i])
      BY <1>5, <2>1
    <2>3. ASSUME NEW i \in 0 .. N
          PROVE  g[i] = IF i = 0 THEN <<>> ELSE g[i - 1] \o Answer(logins[i])
      <3>1. i = 0 \/ i \in 1 .. N
        BY <1>1
      <3> QED BY <1>5, <2>2, <3>1
    <2> QED BY <1>5, <2>3
  <1> DEFINE sends == CHOOSE f : f = Run(f)
  <1>7. sends = Run(sends)
    BY <1>6
  <1>8. Answers(logins) = sends[N]
    BY DEF Answers, N
  <1> HIDE DEF sends
  <1>9. sends[0] = <<>> /\ \A i \in 1 .. N : sends[i] = sends[i - 1] \o Answer(logins[i])
    BY <1>1, <1>7
  <1>10. Sending(sends, logins)
    BY <1>8, <1>9 DEF Sending, N
  <1> QED BY <1>10

LEMMA AnswersTyped ==
    ASSUME NEW logins \in Seq(LoginAsks)
    PROVE  Answers(logins) \in Seq(LoginSends)
  <1> DEFINE N == Len(logins)
             X == Seq(LoginSends)
  <1>1. N \in Nat /\ \A i \in 1 .. N : logins[i] \in LoginAsks
    OBVIOUS
  <1>2. PICK sends : Sending(sends, logins)
    BY AnswersChain
  <1>3. \A y \in X : \A i \in 1 .. N : y \o Answer(logins[i]) \in X
    BY <1>1, AnswerTyped
  <1>4. <<>> \in X
    OBVIOUS
  <1> HIDE DEF X
  <1>5. \A i \in 1 .. N : sends[i - 1] \in X => sends[i] \in X
    BY <1>2, <1>3 DEF Sending
  <1>6. sends[0] \in X
    BY <1>2, <1>4 DEF Sending
  <1>7. Answers(logins) = sends[N]
    BY <1>2 DEF Sending
  <1> HIDE DEF N
  <1>8. \A i \in 0 .. N : sends[i] \in X
    BY <1>1, <1>5, <1>6, ChainStays
  <1> QED BY <1>1, <1>7, <1>8 DEF X

LEMMA AsksAreRequests ==
    /\ ParkAsks(Links, Eras) = MgrAsks
    /\ \A g : Plays \subseteq Requests(g)
    /\ \A g : \A a \in {"Enumerate", "Refresh", "Leave", "Abandon", "Close"} :
          [ask |-> a] \in Requests(g)
    /\ \A g \in Nat : \A h \in 0 .. g : [ask |-> "Dial", gen |-> h] \in Requests(g)
    /\ \A g \in Nat : \A h \in Nat : g <= h => Requests(g) \subseteq Requests(h)
  BY DEF ParkAsks, MgrAsks, Plays, Requests, Links, Eras

LEMMA RequestsAre ==
    ASSUME NEW g, NEW r \in Requests(g)
    PROVE  r.ask # "Bump" /\ r.ask # "Submit" /\ (r.ask = "Dial" => r.gen \in 0 .. g)
  <1>1. CASE r \in Plays
    BY <1>1 DEF Plays
  <1>2. CASE r \in [ask : {"Dial"}, gen : 0 .. g]
    BY <1>2
  <1>3. CASE r \in [ask : {"Enumerate", "Refresh", "Leave", "Abandon", "Close"}]
    BY <1>3
  <1> QED BY <1>1, <1>2, <1>3 DEF Requests

LEMMA SentTyped ==
    ASSUME NEW asks \in Seq(MgrAsks), gen \in Nat
    PROVE  Sent(asks) \in Seq(Requests(gen))
  <1>1. Len(asks) \in Nat /\ DOMAIN asks = 1 .. Len(asks)
    OBVIOUS
  <1>2. ASSUME NEW i \in 1 .. Len(asks)
        PROVE  (IF asks[i].ask = "Dial" THEN [ask |-> "Dial", gen |-> gen] ELSE asks[i])
                  \in Requests(gen)
    <2>1. asks[i] \in MgrAsks
      OBVIOUS
    <2>2. CASE asks[i] \in Plays
      <3>1. asks[i].ask # "Dial"
        BY <2>2 DEF Plays
      <3> QED BY <2>2, <3>1, AsksAreRequests
    <2>3. CASE asks[i] \in [ask : {"Dial", "Enumerate", "Refresh", "Leave"}]
      <3>1. asks[i].ask = "Dial" \/ asks[i] \in [ask : {"Enumerate", "Refresh", "Leave"}]
        BY <2>3
      <3>2. [ask |-> "Dial", gen |-> gen] \in Requests(gen)
        BY AsksAreRequests
      <3>3. [ask : {"Enumerate", "Refresh", "Leave"}] \subseteq Requests(gen)
        BY DEF Requests
      <3> QED BY <3>1, <3>2, <3>3
    <2> QED BY <2>1, <2>2, <2>3 DEF MgrAsks
  <1>3. Sent(asks) \in [1 .. Len(asks) -> Requests(gen)]
    BY <1>1, <1>2 DEF Sent
  <1> QED BY <1>1, <1>3, SeqDef

LEMMA RepicksTyped ==
    ASSUME NEW kept \in Plays \cup {NoPick}, NEW news \in Seq(News)
    PROVE  Repicks(kept, news) \in Seq(Plays)
  <1> DEFINE n == Cardinality(Of(news, {"Roster"}))
             again == KeptPick(kept, news)
  <1>1. n \in Nat
    BY OfCounts
  <1>2. again = NoPick \/ again \in Plays
    BY DEF KeptPick
  <1> HIDE DEF n, again
  <1>3. CASE again # NoPick
    <2>1. [i \in 1 .. n |-> again] \in [1 .. n -> Plays]
      BY <1>2, <1>3
    <2>2. [i \in 1 .. n |-> again] \in Seq(Plays)
      BY <1>1, <2>1, SeqDef
    <2> QED BY <1>3, <2>2 DEF Repicks, n, again
  <1>4. CASE again = NoPick
    <2>1. <<>> \in Seq(Plays)
      OBVIOUS
    <2> QED BY <1>4, <2>1 DEF Repicks, again
  <1> QED BY <1>3, <1>4

LEMMA RedialsTyped ==
    ASSUME NEW kept, NEW news \in Seq(News), NEW g \in Nat, NEW now \in 0 .. g
    PROVE  Redials(kept, news, now) \in Seq(Requests(g))
  <1> DEFINE answered == {i \in Of(news, {"List"}) : news[i].reply = "ok"}
             n     == Cardinality(answered)
             dials == [i \in 1 .. n |-> [ask |-> "Dial", gen |-> now]]
             asked == IF Some(news, "Auth") THEN <<[ask |-> "Enumerate"]>> ELSE <<>>
  <1>1. n \in Nat
    <2>1. IsFiniteSet(Of(news, {"List"})) /\ answered \subseteq Of(news, {"List"})
      BY OfCounts
    <2>2. IsFiniteSet(answered)
      BY <2>1, FS_Subset
    <2> QED BY <2>2, FS_CardinalityType
  <1> HIDE DEF n
  <1>2. dials \in Seq(Requests(g))
    <2>1. [ask |-> "Dial", gen |-> now] \in Requests(g)
      BY AsksAreRequests
    <2>2. dials \in [1 .. n -> Requests(g)]
      BY <2>1
    <2> QED BY <1>1, <2>2, SeqDef
  <1>3. asked \in Seq(Requests(g))
    <2>1. [ask |-> "Enumerate"] \in Requests(g)
      BY AsksAreRequests
    <2> QED BY <2>1
  <1>4. <<>> \in Seq(Requests(g))
    OBVIOUS
  <1> HIDE DEF dials, asked
  <1>5. dials \o asked \in Seq(Requests(g))
    BY <1>2, <1>3
  <1> QED BY <1>4, <1>5 DEF Redials, dials, n, asked

\* There is a last among the picks a frame asks.
LEMMA LastExists ==
    ASSUME NEW n \in Nat, NEW S \in SUBSET (1 .. n), S # {}
    PROVE  \E i \in S : \A j \in S : j <= i
  <1> DEFINE G == \E last \in S : \A j \in S : j <= last
  <1> SUFFICES ASSUME ~G
               PROVE  FALSE
    OBVIOUS
  <1> DEFINE U == {k \in Nat : \E i \in S : i >= k}
  <1>1. 0 \in U
    <2>1. PICK i \in S : TRUE
      OBVIOUS
    <2>2. i \in 1 .. n /\ i >= 0
      OBVIOUS
    <2> QED BY <2>2
  <1>2. ASSUME NEW k \in Nat, k \in U
        PROVE  k + 1 \in U
    <2>1. PICK i \in S : i >= k
      BY <1>2
    <2>2. PICK j \in S : ~(j <= i)
      OBVIOUS
    <2>3. j >= k + 1
      BY <2>1, <2>2
    <2> QED BY <2>3
  <1>3. n + 1 \in U
    BY <1>1, <1>2, NatSetInduction
  <1> QED BY <1>3

LEMMA PickSentTyped ==
    ASSUME NEW asks \in Seq(MgrAsks), NEW kept \in Plays \cup {NoPick}
    PROVE  PickSent(asks, kept) \in Plays \cup {NoPick}
  <1> DEFINE plays == {i \in DOMAIN asks : asks[i].ask = "Play"}
             last  == CHOOSE i \in plays : \A j \in plays : j <= i
  <1>1. CASE plays # {}
    <2>1. plays \in SUBSET (1 .. Len(asks)) /\ Len(asks) \in Nat
      OBVIOUS
    <2> HIDE DEF plays
    <2>2. last \in plays
      BY <1>1, <2>1, LastExists
    <2> HIDE DEF last
    <2>3. asks[last] \in MgrAsks /\ asks[last].ask = "Play"
      BY <2>2 DEF plays
    <2>4. asks[last] \in Plays
      BY <2>3 DEF MgrAsks
    <2> QED BY <1>1, <2>4 DEF PickSent, plays, last
  <1>2. CASE plays = {}
    BY <1>2 DEF PickSent
  <1> QED BY <1>1, <1>2

----------------------------------------------------------------------------
(* The inductive invariant, and what a step may grow.                      *)

\* The places of the read thread.
ReadPlaces == {"login"} \cup AtLogon \cup {"park"} \cup Dialling \cup {"charPark"} \cup InWorld

\* The thread's half: a dial past its authentication has a link left to number, and a session
\* that stands has been numbered.
ThreadInv ==
    /\ pc \in ReadPlaces /\ queued \in BOOLEAN
    /\ epoch \in 0 .. MaxLinks /\ returns \in Nat /\ gen \in Nat
    /\ logonGen \in 0 .. gen /\ dialGen \in 0 .. gen
    /\ loginQ \in Seq(0 .. gen) /\ parkQ \in Seq(Requests(gen)) /\ events \in Seq(News)
    /\ pc \in {"drainWorld", "announce"} => epoch < MaxLinks
    /\ pc \in {"charPark"} \cup InWorld => epoch >= 1

\* A dial among the sends is stamped with a generation reached, or with the one the frame's
\* bumps lead to and behind them all.
Stamped(sends, g) ==
    \A i \in DOMAIN sends : sends[i].ask = "Dial" =>
        \/ sends[i].gen <= g
        \/ /\ sends[i].gen <= g + Bumps(sends)
           /\ \A j \in i .. Len(sends) : sends[j].ask # "Bump"

\* The app's half: what it has heard of the returns and what it will are all there were.
AppInv ==
    /\ m \in Rested(Links, Eras, {FALSE})
    /\ client \in Clients /\ next \in Clients \cup {"none"}
    /\ pick \in Plays \cup {NoPick}
    /\ heard \in Nat /\ heard + Returned(events) = returns
    /\ presses \in 0 .. MaxPresses
    /\ out \in Seq(Requests(gen + Bumps(out)) \cup {Bump, Submit})
    /\ Stamped(out, gen)

TypeInv == ThreadInv /\ AppInv

\* Types only grow.
LEMMA TypesGrow ==
    ASSUME epoch \in Nat, epoch' \in Nat, epoch <= epoch', returns \in Nat, returns' \in Nat,
           returns <= returns', gen \in Nat, gen' \in Nat, gen <= gen'
    PROVE  /\ Links \subseteq Links' /\ Eras \subseteq Eras' /\ Plays \subseteq Plays'
           /\ News \subseteq News'
           /\ \A g : Requests(g) \subseteq Requests(g)'
           /\ Requests(gen) \subseteq Requests(gen)'
  <1>1. Links \subseteq Links' /\ Eras \subseteq Eras'
    BY DEF Links, Eras
  <1>2. Plays \subseteq Plays'
    BY DEF Plays, Links
  <1>3. News \subseteq News'
    <2>1. 1 .. epoch \subseteq 1 .. epoch' /\ 0 .. gen \subseteq 0 .. gen'
      OBVIOUS
    <2>2. [kind : {"Auth"}, epoch : 1 .. epoch, gen : 0 .. gen]
             \subseteq [kind : {"Auth"}, epoch : 1 .. epoch', gen : 0 .. gen']
      BY <2>1
    <2>3. [kind : {"Roster"}, epoch : 1 .. epoch] \subseteq [kind : {"Roster"}, epoch : 1 .. epoch']
      BY <2>1
    <2>4. [kind : {"RosterFailed"}, epoch : 1 .. epoch, emptied : BOOLEAN]
             \subseteq [kind : {"RosterFailed"}, epoch : 1 .. epoch', emptied : BOOLEAN]
      BY <2>1
    <2> QED BY <2>2, <2>3, <2>4, Zenon DEF News
  <1>4. \A g : Requests(g) \subseteq Requests(g)'
    BY <1>2 DEF Requests
  <1>5. Requests(gen) \subseteq Requests(gen)'
    <2>1. [ask : {"Dial"}, gen : 0 .. gen] \subseteq [ask : {"Dial"}, gen : 0 .. gen']
      OBVIOUS
    <2> QED BY <1>2, <2>1 DEF Requests
  <1> QED BY <1>1, <1>2, <1>3, <1>4, <1>5

LEMMA RestedGrows ==
    ASSUME NEW L, NEW K, NEW E, NEW F, NEW W, NEW x \in Rested(L, E, W), L \subseteq K, E \subseteq F
    PROVE  x \in Rested(K, F, W)
  <1>1. ParkAsks(L, E) \subseteq ParkAsks(K, F)
    BY DEF ParkAsks
  <1>2. x.asks \in Seq(ParkAsks(L, E))
    BY DEF Rested, Working
  <1>3. x.asks \in Seq(ParkAsks(K, F))
    BY <1>1, <1>2, SeqMonotonic
  <1> QED BY <1>3 DEF Rested, Working

FailWords == {"failed", "authFailed", "challenge0A", "proof0A"}

\* What the thread tells is news.
LEMMA ToldIsNews ==
    ASSUME ThreadInv
    PROVE  /\ \A s \in {"Connecting", "Handshaking", "WorldConnected"} : Stage(s) \in News
           /\ \A r \in Replies : List(r) \in News
           /\ \A why \in FailWords : [kind |-> "Failed", why |-> why] \in News
           /\ \A kind \in {"Queued", "Connected", "LoggedOut", "Refused", "Lost"} :
                 [kind |-> kind] \in News
           /\ pc = "charPark" =>
                 /\ [kind |-> "Roster", epoch |-> epoch] \in News
                 /\ \A b \in BOOLEAN : [kind |-> "RosterFailed", epoch |-> epoch, emptied |-> b] \in News
  <1>1. \A s \in {"Connecting", "Handshaking", "WorldConnected"} : Stage(s) \in News
    BY DEF Stage, News
  <1>2. \A r \in Replies : List(r) \in News
    BY DEF List, News
  <1>3. \A why \in FailWords : [kind |-> "Failed", why |-> why] \in News
    BY DEF News, FailWords
  <1>4. \A kind \in {"Queued", "Connected", "LoggedOut", "Refused", "Lost"} : [kind |-> kind] \in News
    BY DEF News
  <1>5. CASE pc = "charPark"
    <2>1. epoch \in 1 .. epoch
      BY <1>5 DEF ThreadInv
    <2>2. [kind |-> "Roster", epoch |-> epoch] \in News
      BY <2>1 DEF News
    <2>3. \A b \in BOOLEAN : [kind |-> "RosterFailed", epoch |-> epoch, emptied |-> b] \in News
      BY <2>1 DEF News
    <2> QED BY <1>1, <1>2, <1>3, <1>4, <2>2, <2>3
  <1> QED BY <1>1, <1>2, <1>3, <1>4, <1>5

----------------------------------------------------------------------------
(* The read thread's steps.                                                *)

\* A step that numbers no session and counts no return, and tells at most one thing.
Tells(e) == events' = Append(events, e) /\ e.kind \notin {"LoggedOut", "Refused"}

Plain ==
    /\ UNCHANGED <<epoch, returns, gen>>
    /\ pc' \in ReadPlaces /\ queued' \in BOOLEAN /\ logonGen' \in 0 .. gen /\ dialGen' \in 0 .. gen
    /\ loginQ' \in Seq(0 .. gen) /\ parkQ' \in Seq(Requests(gen))
    /\ events' \in Seq(News) /\ Returned(events') = Returned(events)
    /\ pc' \in {"drainWorld", "announce"} => epoch < MaxLinks
    /\ pc' \in {"charPark"} \cup InWorld => epoch >= 1

LEMMA TellsPlain ==
    ASSUME ThreadInv, NEW e \in News, Tells(e)
    PROVE  events' \in Seq(News) /\ Returned(events') = Returned(events)
  BY ReturnedAppends DEF Tells, ThreadInv

\* An ask taken leaves requests behind it.
LEMMA TakeAskPlain ==
    ASSUME ThreadInv, NEW a, TakeAsk(a)
    PROVE  /\ parkQ' \in Seq(Requests(gen)) /\ NextAsk \in Requests(gen)
           /\ a = "Dial" => NextAsk.gen \in 0 .. gen
  <1>1. parkQ \in Seq(Requests(gen)) /\ parkQ # <<>> /\ NextAsk = Head(parkQ) /\ NextAsk.ask = a
    BY DEF ThreadInv, TakeAsk, NextAsk
  <1>2. NextAsk \in Requests(gen) /\ Tail(parkQ) \in Seq(Requests(gen))
    BY <1>1
  <1> QED BY <1>1, <1>2, RequestsAre DEF TakeAsk

LEMMA IgnorePlain ==
    ASSUME ThreadInv, NEW asks, Ignore(asks)
    PROVE  Plain
  <1>1. parkQ' \in Seq(Requests(gen))
    BY TakeAskPlain DEF Ignore
  <1> QED BY <1>1 DEF Ignore, threadVars, ThreadInv, Plain

LEMMA CheckPlain ==
    ASSUME ThreadInv, NEW from, NEW onward, CheckDial(from, onward), onward \subseteq Dialling,
           onward \cap {"drainWorld", "announce"} # {} => epoch < MaxLinks
    PROVE  Plain
  <1>1. pc' \in onward \cup {"park"}
    BY DEF CheckDial, Goto
  <1>2. pc' \in Dialling \cup {"park"} /\ pc' \notin {"charPark"} \cup InWorld
    BY <1>1 DEF Dialling, InWorld
  <1>3. pc' \in {"drainWorld", "announce"} => epoch < MaxLinks
    BY <1>1
  <1> QED BY <1>2, <1>3 DEF CheckDial, channels, ThreadInv, Plain, ReadPlaces

LEMMA ReadStepPlain ==
    ASSUME ThreadInv, ReadStep, ~Announce, ~BackToPark
    PROVE  Plain
  <1> USE DEF Goto
  <1>0. /\ UNCHANGED <<epoch, returns, gen>> /\ pc' = pc
           => (pc' \in ReadPlaces /\ (pc' \in {"drainWorld", "announce"} => epoch < MaxLinks)
               /\ (pc' \in {"charPark"} \cup InWorld => epoch >= 1))
        /\ <<>> \in Seq(Requests(gen))
    BY DEF ThreadInv
  <1>1. CASE TakeLogin
    <2>1. events' \in Seq(News) /\ Returned(events') = Returned(events)
      BY <1>1, ToldIsNews, TellsPlain DEF TakeLogin, Emit, Tells, Stage
    <2>2. Head(loginQ) \in 0 .. gen /\ Tail(loginQ) \in Seq(0 .. gen)
      BY <1>1 DEF TakeLogin, ThreadInv
    <2> QED BY <1>1, <2>1, <2>2 DEF TakeLogin, ThreadInv, Plain, ReadPlaces, AtLogon, Dialling, InWorld
  <1>2. CASE LoginPark
    <2>1. CASE \E asks : Ignore(asks)
      BY <2>1, IgnorePlain
    <2>2. CASE pc = "login" /\ TakeAsk("Refresh") /\ Emit(List("failed"))
               /\ UNCHANGED <<threadVars, gen, loginQ>>
      <3>1. events' \in Seq(News) /\ Returned(events') = Returned(events)
        BY <2>2, ToldIsNews, TellsPlain DEF Emit, Tells, List, Replies
      <3>2. parkQ' \in Seq(Requests(gen))
        BY <2>2, TakeAskPlain
      <3> QED BY <2>2, <3>1, <3>2 DEF threadVars, ThreadInv, Plain
    <2> QED BY <1>2, <2>1, <2>2 DEF LoginPark
  <1>3. CASE LogonEnds
    <2>1. pc' \in {"login", "failLogon", "drainLogon"}
      BY <1>3 DEF LogonEnds
    <2> QED BY <1>3, <2>1 DEF LogonEnds, channels, ThreadInv, Plain, ReadPlaces, AtLogon, Dialling, InWorld
  <1>4. CASE FailLogon
    <2>1. events' \in Seq(News) /\ Returned(events') = Returned(events)
      BY <1>4, ToldIsNews, TellsPlain DEF FailLogon, Emit, Tells, FailWords
    <2> QED BY <1>4, <2>1 DEF FailLogon, ThreadInv, Plain, ReadPlaces, AtLogon, Dialling, InWorld
  <1>5. CASE DrainLogon
    BY <1>5, <1>0 DEF DrainLogon, Drain, ThreadInv, Plain, ReadPlaces, AtLogon, Dialling, InWorld
  <1>6. CASE Publish
    <2>1. events' \in Seq(News) /\ Returned(events') = Returned(events)
      BY <1>6, ToldIsNews, TellsPlain DEF Publish, Emit, Tells, List, Replies
    <2> QED BY <1>6, <2>1 DEF Publish, ThreadInv, Plain, ReadPlaces, AtLogon, Dialling, InWorld
  <1>7. CASE Query
    <2>1. events' \in Seq(News) /\ Returned(events') = Returned(events)
      BY <1>7, ToldIsNews, TellsPlain DEF Query, Emit, Tells, List
    <2>2. parkQ' \in Seq(Requests(gen))
      BY <1>7, TakeAskPlain DEF Query
    <2> QED BY <1>7, <2>1, <2>2 DEF Query, threadVars, ThreadInv, Plain
  <1>8. CASE TakeDial
    <2>1. parkQ' \in Seq(Requests(gen)) /\ NextAsk.gen \in 0 .. gen
      BY <1>8, TakeAskPlain DEF TakeDial
    <2> QED BY <1>8, <2>1 DEF TakeDial, ThreadInv, Plain, ReadPlaces, AtLogon, Dialling, InWorld
  <1>9. CASE LogonPark
    <2>1. CASE \E asks : Ignore(asks)
      BY <2>1, IgnorePlain
    <2>2. CASE TakeAsk("Close") /\ Goto("login")
               /\ UNCHANGED <<logonGen, dialGen, queued, epoch, returns, gen, loginQ, events>>
      <3>1. parkQ' \in Seq(Requests(gen))
        BY <2>2, TakeAskPlain
      <3> QED BY <2>2, <3>1 DEF ThreadInv, Plain, ReadPlaces, AtLogon, Dialling, InWorld
    <2> QED BY <1>9, <2>1, <2>2 DEF LogonPark
  <1>10. CASE BeginDial
    BY <1>10, CheckPlain DEF BeginDial, Dialling
  <1>11. CASE SocketFails
    BY <1>11, CheckPlain DEF SocketFails, Dialling
  <1>12. CASE CheckQueue
    BY <1>12, CheckPlain DEF CheckQueue, Dialling
  <1>13. CASE AuthRefused
    BY <1>13, CheckPlain DEF AuthRefused, Dialling
  <1>14. CASE AuthEnds
    <2>1. epoch < MaxLinks /\ CheckDial("queue", {"failWorld", "drainWorld"})
      BY <1>14 DEF AuthEnds
    <2> QED BY <2>1, CheckPlain DEF Dialling
  <1>15. CASE Handshake
    <2>1. events' \in Seq(News) /\ Returned(events') = Returned(events)
      BY <1>15, ToldIsNews, TellsPlain DEF Handshake, Emit, Tells, Stage
    <2> QED BY <1>15, <2>1 DEF Handshake, ThreadInv, Plain, ReadPlaces, AtLogon, Dialling, InWorld
  <1>16. CASE SocketUp
    <2>1. events' \in Seq(News) /\ Returned(events') = Returned(events)
      BY <1>16, ToldIsNews, TellsPlain DEF SocketUp, Emit, Tells, Stage
    <2> QED BY <1>16, <2>1 DEF SocketUp, ThreadInv, Plain, ReadPlaces, AtLogon, Dialling, InWorld
  <1>17. CASE QueuePosition
    <2>1. events' \in Seq(News) /\ Returned(events') = Returned(events)
      BY <1>17, ToldIsNews, TellsPlain DEF QueuePosition, Emit, Tells
    <2> QED BY <1>17, <2>1 DEF QueuePosition, ThreadInv, Plain, ReadPlaces, AtLogon, Dialling, InWorld
  <1>18. CASE FailWorld
    <2>1. events' \in Seq(News) /\ Returned(events') = Returned(events)
      BY <1>18, ToldIsNews, TellsPlain DEF FailWorld, Emit, Tells, FailWords
    <2> QED BY <1>18, <2>1 DEF FailWorld, ThreadInv, Plain, ReadPlaces, AtLogon, Dialling, InWorld
  <1>19. CASE DrainWorld
    <2>1. epoch < MaxLinks
      BY <1>19 DEF DrainWorld, ThreadInv
    <2> QED BY <1>19, <1>0, <2>1 DEF DrainWorld, Drain, ThreadInv, Plain, ReadPlaces, AtLogon, Dialling, InWorld
  <1>20. CASE CharPark
    <2>1. CASE \E asks : Ignore(asks)
      BY <2>1, IgnorePlain
    <2>2. CASE LeaveSession
      <3>1. parkQ' \in Seq(Requests(gen))
        BY <2>2, TakeAskPlain DEF LeaveSession
      <3> QED BY <2>2, <3>1 DEF LeaveSession, ThreadInv, Plain, ReadPlaces, AtLogon, Dialling, InWorld
    <2>3. CASE Enumerate
      <3>1. events' \in Seq(News) /\ Returned(events') = Returned(events)
        BY <2>3, ToldIsNews, TellsPlain DEF Enumerate, Emit, Tells
      <3>2. parkQ' \in Seq(Requests(gen))
        BY <2>3, TakeAskPlain DEF Enumerate
      <3> QED BY <2>3, <3>1, <3>2 DEF Enumerate, threadVars, ThreadInv, Plain
    <2>4. CASE EnumerateLost
      <3> DEFINE failed == [kind |-> "RosterFailed", epoch |-> epoch, emptied |-> FALSE]
      <3>1. events \in Seq(News) /\ failed \in News /\ Lost \in News
        BY <2>4, ToldIsNews DEF EnumerateLost, ThreadInv, Lost
      <3>2. failed.kind = "RosterFailed" /\ Lost.kind = "Lost" /\ events' = events \o <<failed, Lost>>
        BY <2>4 DEF EnumerateLost, Lost
      <3> HIDE DEF failed
      <3>3. events' = Append(Append(events, failed), Lost) /\ Append(events, failed) \in Seq(News)
        BY <3>1, <3>2
      <3>4. Append(Append(events, failed), Lost) \in Seq(News)
        BY <3>1, <3>3
      <3>5. Returned(Append(events, failed)) = Returned(events)
        BY <3>1, <3>2, ReturnedAppends
      <3>6. Returned(Append(Append(events, failed), Lost)) = Returned(Append(events, failed))
        BY <3>1, <3>2, <3>3, ReturnedAppends
      <3>7. parkQ' \in Seq(Requests(gen))
        BY <2>4, TakeAskPlain DEF EnumerateLost
      <3> QED BY <2>4, <3>3, <3>4, <3>5, <3>6, <3>7
              DEF EnumerateLost, ThreadInv, Plain, ReadPlaces, AtLogon, Dialling, InWorld
    <2>5. CASE Play
      <3>1. events' \in Seq(News) /\ Returned(events') = Returned(events)
        BY <2>5, ToldIsNews, TellsPlain DEF Play, Emit, Tells
      <3>2. parkQ' \in Seq(Requests(gen))
        BY <2>5, TakeAskPlain DEF Play
      <3> QED BY <2>5, <3>1, <3>2 DEF Play, ThreadInv, Plain, ReadPlaces, AtLogon, Dialling, InWorld
    <2> QED BY <1>20, <2>1, <2>2, <2>3, <2>4, <2>5 DEF CharPark
  <1> QED BY <1>1, <1>2, <1>3, <1>4, <1>5, <1>6, <1>7, <1>8, <1>9, <1>10, <1>11,
             <1>12, <1>13, <1>14, <1>15, <1>16, <1>17, <1>18, <1>19, <1>20
          DEF ReadStep

LEMMA ServerStepPlain ==
    ASSUME ThreadInv, NEW inWorld, ServerStep(inWorld)
    PROVE  Plain
  <1>1. CASE LoseLink
    <2>1. events' \in Seq(News) /\ Returned(events') = Returned(events)
      BY <1>1, ToldIsNews, TellsPlain DEF LoseLink, Emit, Tells, Lost
    <2> QED BY <1>1, <2>1 DEF LoseLink, Goto, ThreadInv, Plain, ReadPlaces, AtLogon, Dialling, InWorld
  <1>2. CASE \E to \in {"loggedOut", "refused"} : DrainBack(to)
    <2>1. <<>> \in Seq(Requests(gen))
      OBVIOUS
    <2> QED BY <1>2, <2>1 DEF DrainBack, Drain, Goto, ThreadInv, Plain, ReadPlaces, AtLogon, Dialling, InWorld
  <1> QED BY <1>1, <1>2 DEF ServerStep

\* Types are kept by a step of the read thread, the app standing still.
LEMMA PlainKeeps ==
    ASSUME TypeInv, Plain, UNCHANGED appVars
    PROVE  TypeInv'
  <1>1. /\ Links' = Links /\ Eras' = Eras /\ Plays' = Plays /\ News' = News
        /\ Requests(gen)' = Requests(gen)
        /\ Requests(gen + Bumps(out))' = Requests(gen + Bumps(out))
    BY DEF Plain, appVars, Links, Eras, Plays, News, Requests
  <1>2. ThreadInv'
    BY <1>1 DEF TypeInv, ThreadInv, Plain
  <1>3. AppInv'
    BY <1>1 DEF TypeInv, AppInv, Plain, appVars, Stamped
  <1> QED BY <1>2, <1>3 DEF TypeInv

\* The session's number goes up with the news of it.
LEMMA AnnounceKeeps ==
    ASSUME TypeInv, Announce, UNCHANGED appVars
    PROVE  TypeInv'
  <1> DEFINE e == [kind |-> "Auth", epoch |-> epoch + 1, gen |-> dialGen]
  <1>1. /\ pc = "announce" /\ pc' = "charPark" /\ epoch' = epoch + 1 /\ events' = Append(events, e)
        /\ UNCHANGED <<logonGen, dialGen, queued, returns, gen, loginQ, parkQ>>
    BY DEF Announce, Emit, Goto
  <1>2. /\ epoch \in 0 .. MaxLinks /\ epoch < MaxLinks /\ MaxLinks \in Nat /\ gen \in Nat
        /\ returns \in Nat /\ dialGen \in 0 .. gen
    BY <1>1, MaxLinksAssumption DEF TypeInv, ThreadInv
  <1>3. /\ Links \subseteq Links' /\ Eras \subseteq Eras' /\ Plays \subseteq Plays'
        /\ News \subseteq News' /\ Requests(gen) \subseteq Requests(gen)'
        /\ \A g : Requests(g) \subseteq Requests(g)'
    BY <1>1, <1>2, TypesGrow
  <1>4. events \in Seq(News') /\ parkQ \in Seq(Requests(gen)')
    BY <1>3, SeqMonotonic DEF TypeInv, ThreadInv
  <1>5. e \in News' /\ e.kind = "Auth"
    BY <1>1, <1>2 DEF News
  <1> HIDE DEF e
  <1>6. Append(events, e) \in Seq(News') /\ Returned(Append(events, e)) = Returned(events)
    BY <1>4, <1>5, ReturnedAppends
  <1>7. ThreadInv'
    BY <1>1, <1>2, <1>4, <1>6 DEF TypeInv, ThreadInv, ReadPlaces, InWorld
  <1>8. AppInv'
    <2>1. m \in Rested(Links', Eras', {FALSE})
      BY <1>3, RestedGrows DEF TypeInv, AppInv
    <2>2. out \in Seq(Requests(gen + Bumps(out))' \cup {Bump, Submit})
      <3> DEFINE old == Requests(gen + Bumps(out)) \cup {Bump, Submit}
      <3>1. out \in Seq(old)
        BY DEF TypeInv, AppInv
      <3>2. Requests(gen + Bumps(out))' = Requests(gen + Bumps(out))' /\ gen' = gen /\ out' = out
        BY <1>1 DEF appVars
      <3>3. old \subseteq Requests(gen + Bumps(out))' \cup {Bump, Submit}
        BY <1>3, <3>2 DEF Requests
      <3> HIDE DEF old
      <3> QED BY <3>1, <3>3, SeqMonotonic
    <2> QED BY <1>1, <1>3, <1>6, <2>1, <2>2 DEF TypeInv, AppInv, appVars, Stamped, Bump, Submit
  <1> QED BY <1>7, <1>8 DEF TypeInv

\* A return is counted as the news of it is told.
LEMMA BackToParkKeeps ==
    ASSUME TypeInv, BackToPark, UNCHANGED appVars
    PROVE  TypeInv'
  <1> DEFINE e == [kind |-> IF pc = "loggedOut" THEN "LoggedOut" ELSE "Refused"]
  <1>1. /\ pc \in {"loggedOut", "refused"} /\ pc' = "charPark" /\ returns' = returns + 1
        /\ events' = Append(events, e)
        /\ UNCHANGED <<logonGen, dialGen, queued, epoch, gen, loginQ, parkQ>>
    BY DEF BackToPark, Emit, Goto
  <1>2. epoch \in 0 .. MaxLinks /\ epoch \in Nat /\ epoch >= 1 /\ gen \in Nat /\ returns \in Nat
    BY <1>1, MaxLinksAssumption DEF TypeInv, ThreadInv, InWorld
  <1>3. /\ Links \subseteq Links' /\ Eras \subseteq Eras' /\ Plays \subseteq Plays'
        /\ News \subseteq News' /\ Requests(gen) \subseteq Requests(gen)'
        /\ \A g : Requests(g) \subseteq Requests(g)'
    BY <1>1, <1>2, TypesGrow
  <1>4. events \in Seq(News') /\ parkQ \in Seq(Requests(gen)')
    BY <1>3, SeqMonotonic DEF TypeInv, ThreadInv
  <1>5. e \in News' /\ e.kind \in {"LoggedOut", "Refused"}
    BY <1>3, ToldIsNews DEF TypeInv
  <1> HIDE DEF e
  <1>6. Append(events, e) \in Seq(News') /\ Returned(Append(events, e)) = Returned(events) + 1
    BY <1>4, <1>5, ReturnedAppends
  <1>7. ThreadInv'
    BY <1>1, <1>2, <1>4, <1>6 DEF TypeInv, ThreadInv, ReadPlaces, InWorld
  <1>8. AppInv'
    <2>1. m \in Rested(Links', Eras', {FALSE})
      BY <1>3, RestedGrows DEF TypeInv, AppInv
    <2>2. out \in Seq(Requests(gen + Bumps(out))' \cup {Bump, Submit})
      <3> DEFINE old == Requests(gen + Bumps(out)) \cup {Bump, Submit}
      <3>1. out \in Seq(old)
        BY DEF TypeInv, AppInv
      <3>2. gen' = gen /\ out' = out
        BY <1>1 DEF appVars
      <3>3. old \subseteq Requests(gen + Bumps(out))' \cup {Bump, Submit}
        BY <1>3, <3>2 DEF Requests
      <3> HIDE DEF old
      <3> QED BY <3>1, <3>3, SeqMonotonic
    <2>3. Returned(events) \in Nat
      BY ReturnedCounts DEF TypeInv, ThreadInv
    <2> QED BY <1>1, <1>3, <1>6, <2>1, <2>2, <2>3
            DEF TypeInv, AppInv, appVars, Stamped, Bump, Submit
  <1> QED BY <1>7, <1>8 DEF TypeInv

LEMMA ReadThreadStepKeeps ==
    ASSUME TypeInv, ReadThreadStep
    PROVE  TypeInv'
  <1>1. UNCHANGED appVars
    BY DEF ReadThreadStep
  <1>2. CASE Announce
    BY <1>1, <1>2, AnnounceKeeps
  <1>3. CASE BackToPark
    BY <1>1, <1>3, BackToParkKeeps
  <1>4. CASE ReadStep /\ ~Announce /\ ~BackToPark
    BY <1>1, <1>4, ReadStepPlain, PlainKeeps DEF TypeInv
  <1>5. CASE ServerStep(client = "InWorld")
    BY <1>1, <1>5, ServerStepPlain, PlainKeeps DEF TypeInv
  <1> QED BY <1>2, <1>3, <1>4, <1>5 DEF ReadThreadStep

----------------------------------------------------------------------------
(* The app's steps.                                                        *)

\* The types of both sides, the read thread's own variables standing still.
LEMMA SameTypes ==
    ASSUME UNCHANGED <<epoch, returns>>
    PROVE  /\ Links' = Links /\ Eras' = Eras /\ Plays' = Plays
           /\ \A g : Requests(g)' = Requests(g)
  BY DEF Links, Eras, Plays, Requests

LEMMA TransitionKeeps ==
    ASSUME TypeInv, Transition
    PROVE  TypeInv'
  <1>1. UNCHANGED <<threadVars, gen, loginQ, parkQ, events, pick, heard, out, presses>>
    BY DEF Transition, readVars, channels
  <1>2. ThreadInv'
    <2>1. UNCHANGED <<pc, logonGen, dialGen, queued, epoch, returns, gen, loginQ, parkQ, events>>
      BY <1>1 DEF threadVars
    <2> QED BY <2>1 DEF TypeInv, ThreadInv, Requests, Plays, Links, News
  <1>3. /\ Links' = Links /\ Eras' = Eras /\ Plays' = Plays
        /\ \A g : Requests(g)' = Requests(g)
    BY <1>1, SameTypes DEF threadVars
  <1>4. m' \in Rested(Links, Eras, {FALSE})
    <2>1. m \in Working(Links, Eras, {FALSE}) /\ m \in Rested(Links, Eras, {FALSE}) /\ 0 \in Links
      BY DEF TypeInv, AppInv, Rested, ThreadInv, Links
    <2>2. \A screen : Seat(m, screen) \in Rested(Links, Eras, {FALSE})
      BY <2>1, SeatRests
    <2> QED BY <2>1, <2>2 DEF Transition
  <1>5. client' \in Clients /\ next' \in Clients \cup {"none"}
    BY DEF Transition, TypeInv, AppInv
  <1>6. Requests(gen + Bumps(out))' = Requests(gen + Bumps(out))
    BY <1>1, <1>3 DEF Requests
  <1> QED BY <1>1, <1>2, <1>3, <1>4, <1>5, <1>6 DEF TypeInv, AppInv, threadVars, Stamped

LEMMA SendKeeps ==
    ASSUME TypeInv, Send
    PROVE  TypeInv'
  <1> DEFINE g     == gen + Bumps(out)
             sends == Requests(g) \cup {Bump, Submit}
             head  == Head(out)
             rest  == Tail(out)
  <1>1. /\ out \in Seq(sends) /\ out # <<>> /\ out' = rest /\ head \in sends /\ rest \in Seq(sends)
        /\ Bumps(out) \in Nat /\ Bumps(rest) \in Nat
    <2>1. out \in Seq(sends) /\ out # <<>> /\ out' = rest
      BY DEF Send, TypeInv, AppInv
    <2> HIDE DEF sends
    <2>2. head \in sends /\ rest \in Seq(sends)
      BY <2>1
    <2> QED BY <2>1, <2>2, BumpsCounts
  <1>2. Bumps(out) = (IF head.ask = "Bump" THEN 1 ELSE 0) + Bumps(rest)
    <2> HIDE DEF sends
    <2> QED BY <1>1, BumpsTail
  <1>3. UNCHANGED <<pc, logonGen, dialGen, queued, epoch, returns, events, m, client, next, pick,
                    heard, presses>>
    BY DEF Send, threadVars, channels
  <1>4. gen \in Nat /\ epoch \in 0 .. MaxLinks /\ returns \in Nat /\ Stamped(out, gen)
    BY DEF TypeInv, ThreadInv, AppInv
  <1>5. /\ Links' = Links /\ Eras' = Eras /\ Plays' = Plays
        /\ \A h : Requests(h)' = Requests(h)
    BY <1>3, SameTypes
  <1>6. /\ gen' = gen + (IF head.ask = "Bump" THEN 1 ELSE 0) /\ gen' \in Nat
        /\ gen' + Bumps(rest) = g
    BY <1>1, <1>2, <1>4 DEF Send, channels
  <1>7. Requests(gen + Bumps(out))' = Requests(g)
    BY <1>1, <1>5, <1>6 DEF Requests
  <1>8. /\ \A i \in 1 .. Len(rest) : rest[i] = out[i + 1] /\ i + 1 \in 1 .. Len(out)
        /\ DOMAIN rest = 1 .. Len(rest) /\ DOMAIN out = 1 .. Len(out)
        /\ Len(rest) \in Nat /\ Len(out) = Len(rest) + 1 /\ out[1] = head
    <2> HIDE DEF sends
    <2> QED BY <1>1
  <1>9. Stamped(rest, gen')
    <2> SUFFICES ASSUME NEW i \in 1 .. Len(rest), rest[i].ask = "Dial"
                 PROVE  \/ rest[i].gen <= gen'
                        \/ /\ rest[i].gen <= g
                           /\ \A j \in i .. Len(rest) : rest[j].ask # "Bump"
      BY <1>6, <1>8 DEF Stamped
    <2>0. rest[i].gen \in Int
      <3>1. rest[i] \in sends
        <4> HIDE DEF sends
        <4> QED BY <1>1
      <3> QED BY <1>1, <3>1, RequestsAre DEF Bump, Submit
    <2>1. CASE out[i + 1].gen <= gen
      BY <1>4, <1>6, <1>8, <2>0, <2>1
    <2>2. CASE out[i + 1].gen <= g /\ \A j \in i + 1 .. Len(out) : out[j].ask # "Bump"
      <3>1. \A j \in i .. Len(rest) : rest[j] = out[j + 1] /\ j + 1 \in i + 1 .. Len(out)
        BY <1>8
      <3> QED BY <1>8, <2>2, <3>1
    <2> QED BY <1>4, <1>8, <2>1, <2>2 DEF Stamped
  <1>10. AppInv'
    <2>1. /\ m' \in Rested(Links, Eras, {FALSE}) /\ client' \in Clients
          /\ next' \in Clients \cup {"none"} /\ pick' \in Plays \cup {NoPick}
          /\ heard' \in Nat /\ heard' + Returned(events') = returns' /\ presses' \in 0 .. MaxPresses
      BY <1>3 DEF TypeInv, AppInv
    <2>2. out' \in Seq(Requests(gen + Bumps(out))' \cup {Bump, Submit})
      BY <1>1, <1>7
    <2> QED BY <1>1, <1>5, <1>9, <2>1, <2>2 DEF AppInv, Bump, Submit
  <1>11. ThreadInv'
    <2>1. News \subseteq News' /\ Requests(gen) \subseteq Requests(gen)'
      BY <1>3, <1>4, <1>6, TypesGrow, MaxLinksAssumption
    <2>2. events' \in Seq(News')
      BY <1>3, <2>1, SeqMonotonic DEF TypeInv, ThreadInv
    <2>3. loginQ' \in Seq(0 .. gen')
      <3>1. loginQ \in Seq(0 .. gen) /\ 0 .. gen \subseteq 0 .. gen'
        BY <1>4, <1>6 DEF TypeInv, ThreadInv
      <3>2. loginQ \in Seq(0 .. gen')
        BY <3>1, SeqMonotonic
      <3>3. loginQ' = loginQ \/ loginQ' = Append(loginQ, gen)
        <4>1. CASE head.ask = "Bump"
          BY <4>1 DEF Send, channels
        <4>2. CASE head.ask = "Submit"
          BY <4>2 DEF Send
        <4>3. CASE head.ask \notin {"Bump", "Submit"}
          BY <4>3 DEF Send
        <4> QED BY <4>1, <4>2, <4>3
      <3>4. gen \in 0 .. gen'
        BY <1>4, <1>6
      <3>5. Append(loginQ, gen) \in Seq(0 .. gen')
        BY <3>2, <3>4
      <3> QED BY <3>2, <3>3, <3>5
    <2>4. parkQ' \in Seq(Requests(gen)')
      <3>1. parkQ \in Seq(Requests(gen)')
        BY <2>1, SeqMonotonic DEF TypeInv, ThreadInv
      <3>2. CASE head.ask \in {"Bump", "Submit"}
        BY <3>1, <3>2 DEF Send, channels
      <3>3. CASE head.ask \notin {"Bump", "Submit"}
        <4>1. head \in Requests(g) /\ parkQ' = Append(parkQ, head)
          BY <1>1, <3>3 DEF Send, Bump, Submit
        <4>2. head \in Requests(gen)
          <5>1. head.ask # "Dial" => head \in Requests(gen)
            BY <4>1 DEF Requests
          <5>2. ASSUME head.ask = "Dial"
                PROVE  head \in Requests(gen)
            <6>1. head.gen \in 0 .. g /\ 1 \in 1 .. Len(out)
              BY <1>8, <4>1, <5>2, RequestsAre
            <6>2. head.gen <= gen \/ Bumps(out) = 0
              <7>1. CASE \A j \in 1 .. Len(out) : out[j].ask # "Bump"
                <8>1. Bumped(out) = {}
                  BY <1>8, <7>1 DEF Bumped
                <8> QED BY <8>1, FS_EmptySet DEF Bumps, Bumped
              <7> QED BY <1>4, <1>8, <5>2, <6>1, <7>1 DEF Stamped
            <6>3. head.gen \in 0 .. gen
              BY <1>4, <6>1, <6>2
            <6> QED BY <4>1, <5>2, <6>3 DEF Requests, Plays
          <5> QED BY <5>1, <5>2
        <4> QED BY <2>1, <3>1, <4>1, <4>2
      <3> QED BY <3>2, <3>3
    <2>5. logonGen' \in 0 .. gen' /\ dialGen' \in 0 .. gen'
      BY <1>3, <1>4, <1>6 DEF TypeInv, ThreadInv
    <2> QED BY <1>3, <1>6, <2>2, <2>3, <2>4, <2>5 DEF TypeInv, ThreadInv
  <1> QED BY <1>10, <1>11 DEF TypeInv

\* Sends of a frame that bumps the generation n times, as Send takes them.
Sendable(sends, n) ==
    /\ sends \in Seq(Requests(gen + n) \cup {Bump, Submit})
    /\ Bumps(sends) = n /\ Stamped(sends, gen)

\* What is sent ahead of the login engine's answers belongs to the generation as it stands.
LEMMA AheadSendable ==
    ASSUME gen \in Nat, NEW logins \in Seq(LoginSends), NEW ahead \in Seq(Requests(gen))
    PROVE  Sendable(ahead \o logins, Bumps(logins))
  <1> DEFINE now   == gen + Bumps(logins)
             S     == Requests(now) \cup {Bump, Submit}
             sends == ahead \o logins
             a     == Len(ahead)
             l     == Len(logins)
  <1>1. Bumps(logins) \in Nat
    BY BumpsCounts
  <1>2. Requests(gen) \subseteq S /\ LoginSends \subseteq S
    <2>1. Requests(gen) \subseteq Requests(now)
      BY <1>1, AsksAreRequests
    <2>2. Close \in Requests(now) /\ [ask |-> "Abandon"] \in Requests(now)
      BY AsksAreRequests DEF Close
    <2> QED BY <2>1, <2>2 DEF LoginSends
  <1>3. ahead \in Seq(S) /\ logins \in Seq(S)
    <2> HIDE DEF S
    <2> QED BY <1>2, SeqMonotonic
  <1>4. Bumps(ahead) = 0
    <2>1. \A r \in Requests(gen) : r.ask # "Bump"
      BY RequestsAre
    <2> QED BY <2>1, NoBumps
  <1>5. sends \in Seq(S)
    <2> HIDE DEF S
    <2> QED BY <1>3
  <1>6. Bumps(sends) = Bumps(logins)
    <2>1. Bumps(sends) = Bumps(ahead) + Bumps(logins)
      BY <1>3, BumpsAdd
    <2> QED BY <1>1, <1>4, <2>1
  <1>7. /\ a \in Nat /\ l \in Nat /\ DOMAIN sends = 1 .. a + l
        /\ \A i \in 1 .. a : sends[i] = ahead[i] /\ ahead[i] \in Requests(gen)
        /\ \A i \in a + 1 .. a + l : sends[i] = logins[i - a] /\ logins[i - a] \in LoginSends
    BY ConcatProperties
  <1> HIDE DEF a, l, sends
  <1>8. Stamped(sends, gen)
    <2> SUFFICES ASSUME NEW i \in DOMAIN sends, sends[i].ask = "Dial"
                 PROVE  sends[i].gen <= gen
      BY DEF Stamped
    <2>1. CASE i \in 1 .. a
      <3>1. sends[i].gen \in 0 .. gen
        BY <1>7, <2>1, RequestsAre
      <3> QED BY <3>1
    <2>2. CASE i \in a + 1 .. a + l
      <3>1. sends[i] \in LoginSends
        BY <1>7, <2>2
      <3> QED BY <3>1 DEF LoginSends, Bump, Submit, Close
    <2>3. i \in 1 .. a \/ i \in a + 1 .. a + l
      BY <1>7
    <2> QED BY <2>1, <2>2, <2>3
  <1> QED BY <1>5, <1>6, <1>8 DEF Sendable, sends

\* What is sent behind them may be stamped with the generation they lead to.
LEMMA BehindSendable ==
    ASSUME gen \in Nat, NEW n \in Nat, NEW sends, Sendable(sends, n),
           NEW behind \in Seq(Requests(gen + n))
    PROVE  Sendable(sends \o behind, n)
  <1> DEFINE S   == Requests(gen + n) \cup {Bump, Submit}
             all == sends \o behind
             a   == Len(sends)
             b   == Len(behind)
  <1>1. sends \in Seq(S) /\ Bumps(sends) = n /\ Stamped(sends, gen)
    BY DEF Sendable
  <1>2. behind \in Seq(S)
    <2>1. Requests(gen + n) \subseteq S
      OBVIOUS
    <2> HIDE DEF S
    <2> QED BY <2>1, SeqMonotonic
  <1> HIDE DEF S
  <1>3. all \in Seq(S)
    BY <1>1, <1>2
  <1>4. Bumps(all) = n
    <2>1. \A r \in Requests(gen + n) : r.ask # "Bump"
      BY RequestsAre
    <2>2. Bumps(behind) = 0
      BY <2>1, NoBumps
    <2>3. Bumps(all) = Bumps(sends) + Bumps(behind)
      BY <1>1, <1>2, BumpsAdd
    <2> QED BY <1>1, <2>2, <2>3
  <1>5. /\ a \in Nat /\ b \in Nat /\ DOMAIN all = 1 .. a + b /\ Len(all) = a + b
        /\ DOMAIN sends = 1 .. a
        /\ \A i \in 1 .. a : all[i] = sends[i]
        /\ \A i \in a + 1 .. a + b : all[i] = behind[i - a] /\ behind[i - a] \in Requests(gen + n)
    BY <1>1, <1>2, ConcatProperties
  <1> HIDE DEF a, b, all
  <1>6. \A i \in a + 1 .. a + b :
            all[i].ask # "Bump" /\ (all[i].ask = "Dial" => all[i].gen \in 0 .. gen + n)
    BY <1>5, RequestsAre
  <1>7. Stamped(all, gen)
    <2> SUFFICES ASSUME NEW i \in DOMAIN all, all[i].ask = "Dial"
                 PROVE  \/ all[i].gen <= gen
                        \/ /\ all[i].gen <= gen + n
                           /\ \A j \in i .. Len(all) : all[j].ask # "Bump"
      BY <1>4 DEF Stamped
    <2>1. CASE i \in 1 .. a
      <3>1. \/ all[i].gen <= gen
            \/ /\ all[i].gen <= gen + n
               /\ \A j \in i .. a : sends[j].ask # "Bump"
        BY <1>1, <1>5, <2>1 DEF Stamped
      <3>2. CASE \A j \in i .. a : sends[j].ask # "Bump"
        <4>1. ASSUME NEW j \in i .. Len(all)
              PROVE  all[j].ask # "Bump"
          <5>1. CASE j <= a
            <6>1. j \in i .. a /\ j \in 1 .. a
              BY <1>5, <2>1, <5>1
            <6> QED BY <1>5, <3>2, <6>1
          <5>2. CASE j > a
            <6>1. j \in a + 1 .. a + b
              BY <1>5, <2>1, <5>2
            <6> QED BY <1>6, <6>1
          <5> QED BY <1>5, <2>1, <5>1, <5>2
        <4> QED BY <3>1, <4>1
      <3> QED BY <3>1, <3>2
    <2>2. CASE i \in a + 1 .. a + b
      <3>1. all[i].gen <= gen + n
        BY <1>6, <2>2
      <3>2. \A j \in i .. Len(all) : j \in a + 1 .. a + b
        BY <1>5, <2>2
      <3> QED BY <1>6, <3>1, <3>2
    <2>3. i \in 1 .. a \/ i \in a + 1 .. a + b
      BY <1>5
    <2> QED BY <2>1, <2>2, <2>3
  <1> QED BY <1>3, <1>4, <1>7 DEF Sendable, S, all

LEMMA PressedTyped ==
    ASSUME TypeInv, NEW press \in Presses \cup {"none"}
    PROVE  Pressed(m, press) \in Rested(Links, Eras, {FALSE})
  <1> DEFINE X == Working(Links, Eras, {FALSE})
             era == heard + Returned(events)
  <1>1. m \in X /\ 0 \in Links /\ era \in Eras
    BY DEF TypeInv, AppInv, ThreadInv, Rested, Links, Eras
  <1> HIDE DEF era
  <1>2. Login(m) \in X /\ StatusDialogClick(m) \in X /\ RequestRealmList(m) \in X
    BY <1>1, LoginTyped, StatusDialogClickTyped, RequestRealmListTyped
  <1>3. [DisconnectFromServer(m) EXCEPT !.screen = "login"] \in X
    <2>1. DisconnectFromServer(m) \in X
      BY <1>1, DisconnectFromServerTyped
    <2> QED BY <2>1, FieldTyped
  <1>4. Hidden(m) \in X
    <2>1. CancelRealmListQuery(m) \in X
      BY <1>1, CancelRealmListQueryTyped
    <2> QED BY <2>1, FieldTyped DEF Hidden
  <1>5. AskLogin(Hidden(m), "Abandon") \in X /\ ConnectToRealm(Hidden(m)) \in X
    BY <1>4, AskLoginTyped, ConnectToRealmTyped, Names
  <1>6. EnterWorld(m, era) \in X
    BY <1>1, EnterWorldTyped
  <1>7. \A y \in X : Pump(y) \in Rested(Links, Eras, {FALSE})
    BY <1>1, PumpRests
  <1> HIDE DEF X
  <1>8. press \in {"none", "Login", "Cancel", "Dismiss", "Back", "ShowRealms", "Refresh",
                   "CloseList", "PickRealm", "EnterWorld"}
    BY PressesAssumption
  <1>9. CASE press = "none"
    BY <1>1, <1>7, <1>9 DEF Pressed
  <1>10. CASE press = "Login"
    BY <1>2, <1>7, <1>10 DEF Pressed
  <1>11. CASE press \in {"Cancel", "Dismiss"}
    BY <1>2, <1>7, <1>11 DEF Pressed
  <1>12. CASE press = "Back"
    BY <1>3, <1>7, <1>12 DEF Pressed
  <1>13. CASE press \in {"ShowRealms", "Refresh"}
    BY <1>2, <1>7, <1>13 DEF Pressed
  <1>14. CASE press = "CloseList"
    BY <1>4, <1>5, <1>7, <1>14 DEF Pressed
  <1>15. CASE press = "PickRealm"
    BY <1>5, <1>7, <1>15 DEF Pressed
  <1>16. CASE press = "EnterWorld"
    BY <1>6, <1>7, <1>16 DEF Pressed, era
  <1> QED BY <1>8, <1>9, <1>10, <1>11, <1>12, <1>13, <1>14, <1>15, <1>16

LEMMA AbandonsTyped ==
    ASSUME NEW news, NEW now, NEW g
    PROVE  Abandons(news, now) \in Seq(Requests(g))
  <1>1. [ask |-> "Abandon"] \in Requests(g)
    BY AsksAreRequests
  <1>2. <<[ask |-> "Abandon"]>> \in Seq(Requests(g)) /\ <<>> \in Seq(Requests(g))
    BY <1>1
  <1> QED BY <1>2 DEF Abandons

LEMMA ConcludeKeeps ==
    ASSUME TypeInv, NEW driven \in Rested(Links, Eras, {FALSE}), NEW edges \in Places,
           NEW redial \in Places, Conclude(driven, Answers(driven.logins), edges, redial),
           presses' \in 0 .. MaxPresses
    PROVE  TypeInv'
  <1> DEFINE logins == Answers(driven.logins)
             now    == gen + Bumps(logins)
             policy == PolicyNext(driven.logins, events, now)
             kept   == IF edges = 0 THEN PickAfter(pick, events) ELSE pick
             asked  == PickSent(driven.asks, kept)
             left   == IF edges = 0 THEN asked ELSE PickAfter(asked, events)
             Edges(place)  == IF edges # place THEN <<>>
                              ELSE Repicks(IF place = 0 THEN pick ELSE asked, events)
             Redial(place) == IF redial # place THEN <<>>
                              ELSE Redials(IF place = 0 THEN kept ELSE left, events,
                                           IF place = 2 THEN now ELSE gen)
             moved  == [driven EXCEPT !.logins = <<>>, !.asks = <<>>]
             ahead  == Edges(0) \o Redial(0) \o Sent(driven.asks) \o Edges(1) \o Redial(1)
             sends  == Edges(0) \o Redial(0) \o Sent(driven.asks) \o Edges(1) \o Redial(1)
                       \o logins \o Abandons(events, now) \o Edges(2) \o Redial(2)
  <1>1. /\ m' = moved /\ pick' = left /\ out' = sends
        /\ heard' = heard + Returned(events) /\ events' = <<>>
        /\ next' = IF edges = 2 THEN Overridden(policy, EdgesNext(events))
                   ELSE Overridden(EdgesNext(events), policy)
        /\ UNCHANGED <<pc, logonGen, dialGen, queued, epoch, returns, gen, loginQ, parkQ, client>>
    BY DEF Conclude, threadVars
  <1>2. /\ gen \in Nat /\ events \in Seq(News) /\ pick \in Plays \cup {NoPick}
        /\ heard \in Nat /\ heard + Returned(events) = returns /\ Returned(events) \in Nat
    BY ReturnedCounts DEF TypeInv, ThreadInv, AppInv
  <1>3. driven.asks \in Seq(MgrAsks) /\ driven.logins \in Seq(LoginAsks)
    BY AsksAreRequests DEF Rested, Working
  <1>4. logins \in Seq(LoginSends) /\ Bumps(logins) \in Nat
    BY <1>3, AnswersTyped, BumpsCounts
  <1> HIDE DEF logins
  <1>5. now \in Nat /\ gen <= now
    BY <1>2, <1>4
  <1>6. \A p \in Plays \cup {NoPick} : PickAfter(p, events) \in Plays \cup {NoPick}
    BY DEF PickAfter, KeptPick
  <1>7. kept \in Plays \cup {NoPick}
    BY <1>2, <1>6
  <1>8. asked \in Plays \cup {NoPick}
    <2> HIDE DEF kept
    <2> QED BY <1>3, <1>7, PickSentTyped
  <1> HIDE DEF kept, asked
  <1>9. left \in Plays \cup {NoPick}
    BY <1>6, <1>8
  <1> HIDE DEF left
  <1>10. \A place : Edges(place) \in Seq(Plays)
    <2>1. Repicks(pick, events) \in Seq(Plays) /\ Repicks(asked, events) \in Seq(Plays)
      BY <1>2, <1>8, RepicksTyped
    <2> QED BY <2>1
  <1>11. /\ \A place \in {0, 1} : Redial(place) \in Seq(Requests(gen))
         /\ Redial(2) \in Seq(Requests(now))
    <2> HIDE DEF now
    <2>1. \A p : Redials(p, events, gen) \in Seq(Requests(gen))
      BY <1>2, RedialsTyped
    <2>2. Redials(left, events, now) \in Seq(Requests(now))
      BY <1>2, <1>5, RedialsTyped
    <2>3. \A g : <<>> \in Seq(Requests(g))
      OBVIOUS
    <2> QED BY <2>1, <2>2, <2>3
  <1>12. \A place, g : Edges(place) \in Seq(Requests(g))
    <2> HIDE DEF Edges
    <2> QED BY <1>10, SeqMonotonic, AsksAreRequests
  <1>13. Sent(driven.asks) \in Seq(Requests(gen))
    BY <1>2, <1>3, SentTyped
  <1>14. Abandons(events, now) \in Seq(Requests(now))
    BY AbandonsTyped
  <1> HIDE DEF Edges, Redial, now
  <1>15. ahead \in Seq(Requests(gen))
    <2>1. /\ Edges(0) \in Seq(Requests(gen)) /\ Redial(0) \in Seq(Requests(gen))
          /\ Edges(1) \in Seq(Requests(gen)) /\ Redial(1) \in Seq(Requests(gen))
      BY <1>11, <1>12
    <2> QED BY <1>13, <2>1
  <1>17. Sendable(sends, Bumps(logins))
    <2> DEFINE first  == Abandons(events, now)
               second == Edges(2)
               third  == Redial(2)
               n      == Bumps(logins)
    <2>1. sends = (((ahead \o logins) \o first) \o second) \o third
      OBVIOUS
    <2> HIDE DEF Edges, Redial
    <2>2. /\ first \in Seq(Requests(gen + n)) /\ second \in Seq(Requests(gen + n))
          /\ third \in Seq(Requests(gen + n))
      BY <1>11, <1>12, <1>14 DEF now
    <2> HIDE DEF ahead, sends, first, second, third, n
    <2>3. Sendable(ahead \o logins, n)
      BY <1>2, <1>4, <1>15, AheadSendable DEF n
    <2>4. n \in Nat
      BY <1>4 DEF n
    <2>5. Sendable((ahead \o logins) \o first, n)
      BY <1>2, <2>2, <2>3, <2>4, BehindSendable
    <2>6. Sendable(((ahead \o logins) \o first) \o second, n)
      BY <1>2, <2>2, <2>4, <2>5, BehindSendable
    <2>7. Sendable((((ahead \o logins) \o first) \o second) \o third, n)
      BY <1>2, <2>2, <2>4, <2>6, BehindSendable
    <2> QED BY <2>1, <2>7 DEF n
  <1> HIDE DEF sends
  <1>18. /\ Links' = Links /\ Eras' = Eras /\ Plays' = Plays
         /\ \A g : Requests(g)' = Requests(g)
    BY <1>1, SameTypes
  <1>19. Requests(gen + Bumps(out))' = Requests(now)
    <2>1. gen' + Bumps(out') = now
      BY <1>1, <1>17 DEF now, Sendable
    <2>2. Plays' = Plays
      BY <1>18
    <2> HIDE DEF now
    <2> QED BY <2>1, <2>2 DEF Requests
  <1>20. moved \in Rested(Links, Eras, {FALSE})
    <2>1. driven \in Working(Links, Eras, {FALSE}) /\ driven.outbox = <<>>
      BY DEF Rested
    <2>2. <<>> \in Seq(LoginAsks) /\ <<>> \in Seq(ParkAsks(Links, Eras))
      OBVIOUS
    <2>3. moved \in Working(Links, Eras, {FALSE})
      BY <2>1, <2>2 DEF Working
    <2>4. moved.outbox = <<>>
      BY <2>1 DEF Working
    <2> QED BY <2>3, <2>4 DEF Rested
  <1>21. next' \in Clients \cup {"none"}
    <2>1. policy \in Clients \cup {"none"} /\ EdgesNext(events) \in Clients \cup {"none"}
      BY DEF PolicyNext, EdgesNext, Clients
    <2> HIDE DEF policy
    <2> QED BY <1>1, <2>1 DEF Overridden
  <1> HIDE DEF moved, policy
  <1>22. AppInv'
    <2>1. heard' + Returned(events') = returns' /\ heard' \in Nat
      BY <1>1, <1>2, ReturnedCounts
    <2>2. client' \in Clients
      BY <1>1 DEF TypeInv, AppInv
    <2>3. out' \in Seq(Requests(gen + Bumps(out))' \cup {Bump, Submit}) /\ Stamped(out', gen')
      BY <1>1, <1>17, <1>19 DEF Sendable, now
    <2> QED BY <1>1, <1>9, <1>18, <1>20, <1>21, <2>1, <2>2, <2>3 DEF AppInv, Bump, Submit
  <1>23. ThreadInv'
    <2>1. events' \in Seq(News')
      BY <1>1
    <2>2. Requests(gen)' = Requests(gen)
      BY <1>1, <1>18 DEF Requests
    <2> QED BY <1>1, <2>1, <2>2 DEF TypeInv, ThreadInv
  <1> QED BY <1>22, <1>23 DEF TypeInv

LEMMA FrameKeeps ==
    ASSUME TypeInv, NEW press \in Presses \cup {"none"}, Frame(press),
           presses' \in 0 .. MaxPresses
    PROVE  TypeInv'
  <1> DEFINE driven == DriveGlueMgr(Pressed(m, press), events)
  <1>1. Pressed(m, press) \in Working(Links, Eras, {FALSE})
    BY PressedTyped DEF Rested
  <1>2. 0 \in Links /\ events \in Seq(News)
    BY DEF TypeInv, ThreadInv, Links
  <1>3. driven \in Rested(Links, Eras, {FALSE})
    BY <1>1, <1>2, DriveRests
  <1>4. PICK edges \in Places, redial \in Places :
              Conclude(driven, Answers(driven.logins), edges, redial)
    BY DEF Frame
  <1> HIDE DEF driven
  <1> QED BY <1>3, <1>4, ConcludeKeeps

LEMMA InitTyped ==
    ASSUME Init
    PROVE  TypeInv
  <1>1. /\ pc = "login" /\ logonGen = 0 /\ dialGen = 0 /\ queued = FALSE /\ epoch = 0
        /\ returns = 0 /\ gen = 0 /\ loginQ = <<>> /\ parkQ = <<>> /\ events = <<>>
        /\ m = Manager /\ client = "Login" /\ next = "none" /\ pick = NoPick /\ heard = 0
        /\ out = <<>> /\ presses = 0
    BY DEF Init, ReadInit
  <1>2. ThreadInv
    <2>1. loginQ \in Seq(0 .. gen) /\ parkQ \in Seq(Requests(gen)) /\ events \in Seq(News)
      <3> HIDE DEF Requests, News
      <3> QED BY <1>1
    <2>2. pc \in ReadPlaces /\ pc \notin {"drainWorld", "announce", "charPark"} \cup InWorld
      BY <1>1 DEF ReadPlaces, InWorld
    <2>3. epoch \in 0 .. MaxLinks /\ 0 \in 0 .. gen
      BY <1>1, MaxLinksAssumption
    <2> QED BY <1>1, <2>1, <2>2, <2>3 DEF ThreadInv
  <1>3. Manager \in Rested(Links, Eras, {FALSE})
    <2>1. 0 \in Links /\ DefaultOp \in Ops /\ "Idle" \in States
      BY <1>1, OpTyped, Names DEF Links
    <2>2. <<>> \in Seq(Steps) /\ <<>> \in Seq(LoginAsks) /\ <<>> \in Seq(ParkAsks(Links, Eras))
      OBVIOUS
    <2> QED BY <2>1, <2>2 DEF Manager, Rested, Working, CellStates
  <1>4. Bumps(out) = 0 /\ Returned(events) = 0
    <2>2. Bumps(<<>>) = 0
      <3>1. Bumped(<<>>) = {}
        BY DEF Bumped
      <3> QED BY <3>1, FS_EmptySet DEF Bumps, Bumped
    <2> QED BY <1>1, <2>2, ReturnedCounts
  <1>5. out \in Seq(Requests(gen + Bumps(out)) \cup {Bump, Submit}) /\ Stamped(out, gen)
    BY <1>1 DEF Stamped
  <1> QED BY <1>1, <1>2, <1>3, <1>4, <1>5, PressesAssumption DEF TypeInv, AppInv, Clients

LEMMA NextKeeps ==
    ASSUME TypeInv, [Next]_vars
    PROVE  TypeInv'
  <1>1. CASE UNCHANGED vars
    <2>1. Plain /\ UNCHANGED appVars
      BY <1>1 DEF vars, readVars, threadVars, channels, TypeInv, ThreadInv, Plain
    <2> QED BY <2>1, PlainKeeps
  <1>2. CASE Transition
    BY <1>2, TransitionKeeps
  <1>3. CASE IdleFrame
    <2>1. presses' \in 0 .. MaxPresses
      BY <1>3 DEF IdleFrame, TypeInv, AppInv
    <2> QED BY <1>3, <2>1, FrameKeeps DEF IdleFrame
  <1>4. CASE PressFrame
    <2>1. presses' \in 0 .. MaxPresses
      BY <1>4, PressesAssumption DEF PressFrame, TypeInv, AppInv
    <2> QED BY <1>4, <2>1, FrameKeeps DEF PressFrame
  <1>5. CASE Send
    BY <1>5, SendKeeps
  <1>6. CASE ReadThreadStep
    BY <1>6, ReadThreadStepKeeps
  <1> QED BY <1>1, <1>2, <1>3, <1>4, <1>5, <1>6 DEF Next

\* The inductive invariant of the types.
LEMMA TypeInvHolds == Spec => []TypeInv
  <1>1. Init => TypeInv
    BY InitTyped
  <1>2. TypeInv /\ [Next]_vars => TypeInv'
    BY NextKeeps
  <1> QED BY <1>1, <1>2, PTL DEF Spec

\* Every variable of the session keeps its type; the app numbers no link the thread has not
\* announced, has heard of no return there was not, and stamps no request with a generation
\* still to come, whatever the player presses, however often and in whichever order the frame
\* runs its edges.
THEOREM TypeCorrect == Spec => []TypeOK
  <1>1. TypeInv => TypeOK
    <2> SUFFICES ASSUME TypeInv
                 PROVE  TypeOK
      OBVIOUS
    <2>1. m \in Managers
      <3>1. m \in Working(Links, Eras, {FALSE}) /\ m.outbox = <<>>
        BY DEF TypeInv, AppInv, Rested
      <3>2. ParkAsks(Links, Eras) = MgrAsks
        BY AsksAreRequests
      <3>3. Ops \subseteq [kind : OpKinds, status : Statuses, awaiting : BOOLEAN]
        BY DEF Ops
      <3> QED BY <3>1, <3>2, <3>3 DEF Working, Managers, CellStates
    <2>2. heard \in 0 .. returns
      <3>1. Returned(events) \in Nat
        BY ReturnedCounts DEF TypeInv, ThreadInv
      <3> QED BY <3>1 DEF TypeInv, AppInv, ThreadInv
    <2> QED BY <2>1, <2>2 DEF TypeInv, ThreadInv, AppInv, TypeOK, ReadPlaces
  <1> QED BY <1>1, TypeInvHolds, PTL

----------------------------------------------------------------------------
(* The last word.                                                          *)

\* Only a frame takes news out of the channel.
LEMMA ThreadKeepsNews ==
    ASSUME ThreadInv, ReadThreadStep
    PROVE  events # <<>> => events' # <<>>
  <1>1. ASSUME NEW e
        PROVE  Append(events, e) # <<>>
    <2> DEFINE S == News \cup {e}
    <2>1. events \in Seq(News) /\ News \subseteq S /\ e \in S
      BY DEF ThreadInv
    <2> HIDE DEF S
    <2>2. events \in Seq(S)
      BY <2>1, SeqMonotonic
    <2> QED BY <2>1, <2>2, AppendProperties
  <1>2. ASSUME NEW d, NEW e
        PROVE  events \o <<d, e>> # <<>>
    <2> DEFINE S == News \cup {d, e}
    <2>1. events \in Seq(News) /\ News \subseteq S /\ <<d, e>> \in Seq(S)
      BY DEF ThreadInv
    <2> HIDE DEF S
    <2>2. events \in Seq(S)
      BY <2>1, SeqMonotonic
    <2>3. Len(events \o <<d, e>>) = Len(events) + 2 /\ Len(events) \in Nat
      BY <2>1, <2>2, ConcatProperties
    <2> QED BY <2>3
  <1>3. events' = events \/ (\E e : events' = Append(events, e))
        \/ \E d, e : events' = events \o <<d, e>>
    <2>1. CASE ServerStep(client = "InWorld")
      BY <2>1 DEF ServerStep, LoseLink, DrainBack, Emit
    <2>2. CASE TakeLogin \/ LoginPark \/ LogonEnds \/ FailLogon \/ DrainLogon \/ Publish
      BY <2>2 DEF TakeLogin, LoginPark, Ignore, LogonEnds, FailLogon, DrainLogon, Publish, Emit,
                  channels
    <2>3. CASE Query \/ TakeDial \/ LogonPark
      BY <2>3 DEF Query, TakeDial, LogonPark, Ignore, Emit
    <2>4. CASE \/ BeginDial \/ Handshake \/ SocketUp \/ SocketFails \/ CheckQueue \/ QueuePosition
               \/ AuthEnds \/ AuthRefused \/ FailWorld \/ DrainWorld \/ Announce
      <3>1. \A from, onward : CheckDial(from, onward) => events' = events
        BY DEF CheckDial, channels
      <3> QED BY <2>4, <3>1 DEF BeginDial, Handshake, SocketUp, SocketFails, CheckQueue,
                  QueuePosition, AuthEnds, AuthRefused, FailWorld, DrainWorld, Announce, Emit
    <2>5. CASE CharPark \/ BackToPark
      BY <2>5 DEF CharPark, LeaveSession, Enumerate, EnumerateLost, Play, Ignore, BackToPark, Emit
    <2> QED BY <2>1, <2>2, <2>3, <2>4, <2>5 DEF ReadThreadStep, ReadStep
  <1> QED BY <1>1, <1>2, <1>3

\* A frame that runs LoginPolicy ahead of the session edges, or drains no authentication.
LEMMA FrameHeedsLoss ==
    ASSUME "auth" \notin Races, NEW press, Frame(press), Some(events, "Lost")
    PROVE  next' = "Login"
  <1> DEFINE driven == DriveGlueMgr(Pressed(m, press), events)
  <1>1. PICK edges \in Places, redial \in Places :
           /\ Raced(press) => edges = 2
           /\ Conclude(driven, Answers(driven.logins), edges, redial)
    BY DEF Frame
  <1> HIDE DEF driven
  <1> DEFINE policy == PolicyNext(driven.logins, events, gen + Bumps(Answers(driven.logins)))
  <1>2. next' = IF edges = 2 THEN Overridden(policy, EdgesNext(events))
                ELSE Overridden(EdgesNext(events), policy)
    BY <1>1 DEF Conclude
  <1>3. EdgesNext(events) = "Login"
    BY DEF EdgesNext
  <1>4. CASE edges = 2
    <2> HIDE DEF policy
    <2> QED BY <1>2, <1>3, <1>4 DEF Overridden
  <1>5. CASE edges # 2
    <2>1. ~Some(events, "Auth")
      BY <1>1, <1>5 DEF Raced
    <2>2. ~\E i \in DOMAIN events : events[i].kind = "Auth" /\ events[i].gen =
              gen + Bumps(Answers(driven.logins))
      BY <2>1 DEF Some, Of
    <2>3. policy \in {"Login", "none"}
      BY <2>2 DEF PolicyNext
    <2> HIDE DEF policy
    <2> QED BY <1>2, <1>3, <1>5, <2>3 DEF Overridden
  <1> QED BY <1>4, <1>5

\* Where no authentication and no loss of the same session can be drained by one frame whose
\* edges run ahead of LoginPolicy ("auth" is not among the Races), a frame that drains a lost
\* session moves to the login screen, whatever else it drains and whatever the player pressed:
\* the dead session is the last word, of session_edges and of LoginPolicy.
THEOREM LostHasTheLastWord ==
    ASSUME "auth" \notin Races
    PROVE  Spec => LostIsLastWord
  <1>1. ASSUME TypeInv, [Next]_vars, Drained, Some(events, "Lost")
        PROVE  next' = "Login"
    <2>1. events # <<>> /\ events' = <<>>
      BY <1>1 DEF Drained
    <2>2. CASE UNCHANGED vars
      BY <2>1, <2>2 DEF vars, readVars, channels
    <2>3. CASE Transition
      BY <2>1, <2>3 DEF Transition, readVars, channels
    <2>4. CASE Send
      BY <2>1, <2>4 DEF Send, channels
    <2>5. CASE ReadThreadStep
      BY <1>1, <2>1, <2>5, ThreadKeepsNews DEF TypeInv
    <2>6. CASE IdleFrame \/ PressFrame
      BY <1>1, <2>6, FrameHeedsLoss DEF IdleFrame, PressFrame
    <2> QED BY <1>1, <2>2, <2>3, <2>4, <2>5, <2>6 DEF Next
  <1>2. TypeInv /\ [Next]_vars => [Drained /\ Some(events, "Lost") => next' = "Login"]_vars
    BY <1>1
  <1> QED BY <1>2, TypeInvHolds, PTL DEF Spec, LostIsLastWord

----------------------------------------------------------------------------
(* Picks.  Between the frames the manager asks for no world: only a press  *)
(* does, and its frame sends what it asks.                                 *)

AsksNoPlay == m \in Rested(Links, {}, {FALSE})

LEMMA FramePicksNothing ==
    ASSUME TypeInv, AsksNoPlay
    PROVE  \A kept : PickSent(DriveGlueMgr(Pressed(m, "none"), events).asks, kept) = kept
  <1> DEFINE driven == DriveGlueMgr(Pressed(m, "none"), events)
  <1>1. m \in Working(Links, {}, {FALSE}) /\ 0 \in Links /\ events \in Seq(News)
    BY DEF AsksNoPlay, Rested, TypeInv, ThreadInv, Links
  <1>2. Pressed(m, "none") \in Working(Links, {}, {FALSE})
    <2>1. Pump(m) \in Rested(Links, {}, {FALSE})
      BY <1>1, PumpRests
    <2> QED BY <2>1 DEF Pressed, Rested
  <1>3. driven \in Rested(Links, {}, {FALSE})
    BY <1>1, <1>2, DriveRests
  <1> HIDE DEF driven
  <1>4. driven.asks \in Seq(ParkAsks(Links, {}))
    BY <1>3 DEF Rested, Working
  <1>5. \A ask \in ParkAsks(Links, {}) : ask.ask # "Play"
    BY DEF ParkAsks
  <1>6. {i \in DOMAIN driven.asks : driven.asks[i].ask = "Play"} = {}
    BY <1>4, <1>5
  <1> QED BY <1>6 DEF PickSent, driven

LEMMA FrameAsksNoPlay ==
    ASSUME TypeInv, NEW press \in Presses \cup {"none"}, Frame(press)
    PROVE  AsksNoPlay'
  <1> DEFINE driven == DriveGlueMgr(Pressed(m, press), events)
  <1>1. Pressed(m, press) \in Working(Links, Eras, {FALSE})
    BY PressedTyped DEF Rested
  <1>2. 0 \in Links /\ events \in Seq(News)
    BY DEF TypeInv, ThreadInv, Links
  <1>3. driven \in Rested(Links, Eras, {FALSE})
    BY <1>1, <1>2, DriveRests
  <1>4. /\ m' = [driven EXCEPT !.logins = <<>>, !.asks = <<>>]
        /\ UNCHANGED epoch
    BY DEF Frame, Conclude, threadVars
  <1> HIDE DEF driven
  <1>5. [driven EXCEPT !.logins = <<>>, !.asks = <<>>] \in Rested(Links, {}, {FALSE})
    <2>1. <<>> \in Seq(LoginAsks) /\ <<>> \in Seq(ParkAsks(Links, {}))
      OBVIOUS
    <2> QED BY <1>3, <2>1 DEF Rested, Working
  <1>6. Links' = Links
    BY <1>4 DEF Links
  <1> QED BY <1>4, <1>5, <1>6 DEF AsksNoPlay

LEMMA EpochGrows ==
    ASSUME ThreadInv, ReadThreadStep, epoch \in Nat
    PROVE  epoch <= epoch'
  <1>1. CASE Announce
    BY <1>1 DEF Announce
  <1>2. CASE BackToPark
    BY <1>2 DEF BackToPark
  <1>3. CASE ReadStep /\ ~Announce /\ ~BackToPark
    BY <1>3, ReadStepPlain DEF Plain
  <1>4. CASE ServerStep(client = "InWorld")
    BY <1>4, ServerStepPlain DEF Plain
  <1> QED BY <1>1, <1>2, <1>3, <1>4 DEF ReadThreadStep

LEMMA NextAsksNoPlay ==
    ASSUME TypeInv, AsksNoPlay, [Next]_vars, TypeInv'
    PROVE  AsksNoPlay'
  <1>1. ASSUME m' = m, epoch <= epoch'
        PROVE  AsksNoPlay'
    <2>1. Links \subseteq Links'
      BY <1>1 DEF Links, TypeInv, ThreadInv
    <2>2. m \in Rested(Links', {}, {FALSE})
      BY <2>1, RestedGrows DEF AsksNoPlay
    <2> QED BY <1>1, <2>2 DEF AsksNoPlay
  <1>2. epoch \in Nat /\ epoch' \in Nat
    BY MaxLinksAssumption DEF TypeInv, ThreadInv
  <1>3. CASE UNCHANGED vars \/ Send
    BY <1>1, <1>2, <1>3 DEF Send, vars, appVars, readVars, threadVars
  <1>4. CASE ReadThreadStep
    <2>1. epoch <= epoch'
      BY <1>2, <1>4, EpochGrows DEF TypeInv
    <2> QED BY <1>1, <1>4, <2>1 DEF ReadThreadStep, appVars
  <1>5. CASE Transition
    <2>1. m \in Working(Links, {}, {FALSE}) /\ 0 \in Links
      BY DEF AsksNoPlay, Rested, TypeInv, ThreadInv, Links
    <2>2. \A screen : Seat(m, screen) \in Rested(Links, {}, {FALSE})
      BY <2>1, SeatRests
    <2>3. m' \in Rested(Links, {}, {FALSE}) /\ Links' = Links
      BY <1>5, <2>2 DEF Transition, AsksNoPlay, Links, readVars, threadVars
    <2> QED BY <2>3 DEF AsksNoPlay
  <1>6. CASE IdleFrame \/ PressFrame
    BY <1>6, FrameAsksNoPlay DEF IdleFrame, PressFrame
  <1> QED BY <1>3, <1>4, <1>5, <1>6 DEF Next

\* Whatever the player presses elsewhere, whatever the server does and in whichever place the
\* frame runs its session edges, a frame without a press that drains a loss, a logout or a
\* refusal keeps no pick behind it: a pick can outlive its world only by a press made in the very
\* frame that drains its end.
THEOREM KeptPicksEnd == Spec => KeptPickEnds
  <1> DEFINE Ends == Some(events, "Lost") \/ Returned(events) > 0
  <1>1. Init => AsksNoPlay
    <2> SUFFICES ASSUME Init
                 PROVE  AsksNoPlay
      OBVIOUS
    <2>1. m = Manager /\ 0 \in Links
      BY DEF Init, ReadInit, Links
    <2>2. DefaultOp \in Ops /\ "Idle" \in States
      BY OpTyped, Names
    <2>3. <<>> \in Seq(Steps) /\ <<>> \in Seq(LoginAsks) /\ <<>> \in Seq(ParkAsks(Links, {}))
      OBVIOUS
    <2> QED BY <2>1, <2>2, <2>3 DEF AsksNoPlay, Manager, Rested, Working, CellStates
  <1>2. TypeInv /\ AsksNoPlay /\ [Next]_vars /\ TypeInv' => AsksNoPlay'
    BY NextAsksNoPlay
  <1>3. ASSUME TypeInv, AsksNoPlay, [Next]_vars, Drained, Ends, presses' = presses
        PROVE  pick' = NoPick
    <2>1. events # <<>> /\ events' = <<>>
      BY <1>3 DEF Drained
    <2>2. CASE UNCHANGED vars \/ Transition \/ Send
      BY <2>1, <2>2 DEF Transition, Send, vars, readVars, channels
    <2>3. CASE ReadThreadStep
      BY <1>3, <2>1, <2>3, ThreadKeepsNews DEF TypeInv
    <2>4. CASE PressFrame
      BY <1>3, <2>4 DEF PressFrame, TypeInv, AppInv
    <2>5. CASE IdleFrame
      <3> DEFINE driven == DriveGlueMgr(Pressed(m, "none"), events)
      <3>1. \A kept : PickSent(driven.asks, kept) = kept
        BY <1>3, FramePicksNothing
      <3>2. PICK edges \in Places, redial \in Places :
               Conclude(driven, Answers(driven.logins), edges, redial)
        BY <2>5 DEF IdleFrame, Frame
      <3> HIDE DEF driven
      <3>3. \A kept : PickAfter(kept, events) = NoPick
        BY <1>3 DEF PickAfter, KeptPick
      <3> QED BY <3>1, <3>2, <3>3 DEF Conclude
    <2> QED BY <1>3, <2>2, <2>3, <2>4, <2>5 DEF Next
  <1>4. TypeInv /\ AsksNoPlay /\ [Next]_vars
        => [Drained /\ Ends /\ presses' = presses => pick' = NoPick]_vars
    BY <1>3
  <1> QED BY <1>1, <1>2, <1>4, TypeInvHolds, PTL DEF Spec, KeptPickEnds, Ends
=============================================================================
