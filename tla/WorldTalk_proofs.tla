--------------------------- MODULE WorldTalk_proofs ---------------------------
(***************************************************************************)
(* What a world session's handlers guarantee for every set of keys and     *)
(* every number of entries, verbs, asks and moves: the order in which a    *)
(* session's events reach the app, the asks on the wire, the freshness of  *)
(* names and the end every pending logout is owed.                         *)
(***************************************************************************)
EXTENDS WorldTalk, SequenceTheorems, TLAPS

----------------------------------------------------------------------------
(* Sequences: what an element more at the end, or one fewer at the front,  *)
(* leaves in place.                                                        *)

LEMMA Grown ==
    ASSUME NEW S, NEW s \in Seq(S), NEW e \in S
    PROVE  /\ Append(s, e) \in Seq(S)
           /\ Len(s) \in Nat /\ DOMAIN s = 1 .. Len(s)
           /\ DOMAIN Append(s, e) = 1 .. Len(s) + 1
           /\ \A i \in 1 .. Len(s) : Append(s, e)[i] = s[i]
           /\ Append(s, e)[Len(s) + 1] = e
<1>1. /\ Append(s, e) \in Seq(S) /\ Len(Append(s, e)) = Len(s) + 1
      /\ \A i \in 1 .. Len(s) : Append(s, e)[i] = s[i]
      /\ Append(s, e)[Len(s) + 1] = e
  BY AppendProperties
<1> QED
  BY <1>1, LenProperties

LEMMA Shrunk ==
    ASSUME NEW S, NEW s \in Seq(S), s # <<>>
    PROVE  /\ Tail(s) \in Seq(S) /\ Head(s) \in S /\ Head(s) = s[1]
           /\ Len(s) \in Nat \ {0} /\ DOMAIN s = 1 .. Len(s)
           /\ DOMAIN Tail(s) = 1 .. Len(s) - 1
           /\ \A i \in 1 .. Len(s) - 1 : Tail(s)[i] = s[i + 1]
<1>1. /\ Head(s) \in S /\ Tail(s) \in Seq(S) /\ Len(Tail(s)) = Len(s) - 1
      /\ \A i \in 1 .. Len(Tail(s)) : Tail(s)[i] = s[i + 1]
  BY HeadTailProperties
<1>2. Len(s) \in Nat /\ Len(s) # 0 /\ DOMAIN s = 1 .. Len(s)
  BY LenProperties, EmptySeq
<1>3. Head(s) = s[1]
  BY <1>2
<1> QED
  BY <1>1, <1>2, <1>3, LenProperties

LEMMA TwoMore ==
    ASSUME NEW S, NEW s \in Seq(S), NEW a \in S, NEW b \in S
    PROVE  s \o <<a, b>> = Append(Append(s, a), b)
  BY Z3

\* What is in a sequence that grew or shrank.
LEMMA GrownHas ==
    ASSUME NEW S, NEW s \in Seq(S), NEW e \in S, NEW kind
    PROVE  Has(Append(s, e), kind) <=> Has(s, kind) \/ e.kind = kind
  BY Grown DEF Has

LEMMA GrownHasOf ==
    ASSUME NEW S, NEW s \in Seq(S), NEW e \in S, NEW kind, NEW k
    PROVE  HasOf(Append(s, e), kind, k) <=> HasOf(s, kind, k) \/ (e.kind = kind /\ e.key = k)
  BY Grown DEF HasOf

LEMMA ShrunkHas ==
    ASSUME NEW S, NEW s \in Seq(S), s # <<>>, NEW kind
    PROVE  Has(s, kind) <=> Has(Tail(s), kind) \/ Head(s).kind = kind
<1>1. ASSUME NEW i \in DOMAIN s, s[i].kind = kind, i # 1
      PROVE  Has(Tail(s), kind)
  <2>1. i - 1 \in DOMAIN Tail(s) /\ Tail(s)[i - 1] = s[i]
    BY <1>1, Shrunk
  <2> QED
    BY <1>1, <2>1 DEF Has
<1>2. ASSUME NEW i \in DOMAIN Tail(s), Tail(s)[i].kind = kind
      PROVE  Has(s, kind)
  <2>1. i + 1 \in DOMAIN s /\ Tail(s)[i] = s[i + 1]
    BY Shrunk
  <2> QED
    BY <1>2, <2>1 DEF Has
<1>3. 1 \in DOMAIN s /\ Head(s) = s[1]
  BY Shrunk
<1> QED
  BY <1>1, <1>2, <1>3 DEF Has

LEMMA ShrunkHasOf ==
    ASSUME NEW S, NEW s \in Seq(S), s # <<>>, NEW kind, NEW k
    PROVE  HasOf(s, kind, k) <=> HasOf(Tail(s), kind, k) \/ (Head(s).kind = kind /\ Head(s).key = k)
<1>1. ASSUME NEW i \in DOMAIN s, s[i].kind = kind, s[i].key = k, i # 1
      PROVE  HasOf(Tail(s), kind, k)
  <2>1. i - 1 \in DOMAIN Tail(s) /\ Tail(s)[i - 1] = s[i]
    BY <1>1, Shrunk
  <2> QED
    BY <1>1, <2>1 DEF HasOf
<1>2. ASSUME NEW i \in DOMAIN Tail(s), Tail(s)[i].kind = kind, Tail(s)[i].key = k
      PROVE  HasOf(s, kind, k)
  <2>1. i + 1 \in DOMAIN s /\ Tail(s)[i] = s[i + 1]
    BY Shrunk
  <2> QED
    BY <1>2, <2>1 DEF HasOf
<1>3. 1 \in DOMAIN s /\ Head(s) = s[1]
  BY Shrunk
<1> QED
  BY <1>1, <1>2, <1>3 DEF HasOf

----------------------------------------------------------------------------
(* The session's events in the order the app reads them: what stands       *)
(* before an entry ends the session before, nothing but that end follows a *)
(* session's last word, and a link that lives has no end ahead.            *)

Ends == {"loggedOut", "loginFailed", "disconnected"}

Reopened(s, i) == \E m \in DOMAIN s : m > i /\ s[m].kind = "connected"

Session(s, st, l) ==
  /\ st # "glue" => ~Has(s, "connected")
  /\ st = "leaving" => l # "live" /\ \A i \in DOMAIN s : s[i].kind = "disconnected"
  /\ st = "glue" => \A i \in DOMAIN s :
       \/ s[i].kind \in {"disconnected", "connected"}
       \/ \E j \in DOMAIN s : j < i /\ s[j].kind = "connected"
  /\ \A i, j \in DOMAIN s :
       i < j /\ s[i].kind \in Ends /\ s[j].kind \notin {"disconnected", "connected"} => Reopened(s, i)
  /\ l = "live" => \A i \in DOMAIN s : s[i].kind \in Ends => Reopened(s, i)
  /\ \A i, j \in DOMAIN s : s[i].kind = "connected" /\ s[j].kind = "connected" => i = j
  /\ l = "live" /\ st = "glue" => Has(s, "connected")

LEMMA ReopenedGrows ==
    ASSUME NEW S, NEW s \in Seq(S), NEW e \in S, NEW i \in 1 .. Len(s), Reopened(s, i)
    PROVE  Reopened(Append(s, e), i)
  BY Grown DEF Reopened

\* A live session goes on.
LEMMA GoesOn ==
    ASSUME NEW S, NEW s \in Seq(S), NEW e \in S, NEW st, Session(s, st, "live"),
           e.kind \notin Ends \cup {"connected"}
    PROVE  Session(Append(s, e), st, "live")
<1> DEFINE t == Append(s, e)  n == Len(s) + 1
<1>1. /\ t \in Seq(S) /\ n \in Nat /\ DOMAIN s = 1 .. n - 1 /\ DOMAIN t = 1 .. n
      /\ \A i \in 1 .. n - 1 : t[i] = s[i]
      /\ t[n] = e
  BY Grown
<1>2. \A i \in 1 .. n - 1 : Reopened(s, i) => Reopened(t, i)
  BY <1>1, ReopenedGrows
<1>3. Has(t, "connected") <=> Has(s, "connected")
  BY GrownHas
<1>4. st = "glue" => \A i \in DOMAIN t :
       \/ t[i].kind \in {"disconnected", "connected"}
       \/ \E j \in DOMAIN t : j < i /\ t[j].kind = "connected"
  <2> SUFFICES ASSUME st = "glue", NEW i \in DOMAIN t
               PROVE  \/ t[i].kind \in {"disconnected", "connected"}
                      \/ \E j \in DOMAIN t : j < i /\ t[j].kind = "connected"
    OBVIOUS
  <2> HIDE DEF t
  <2>1. CASE i < n
    BY <1>1, <2>1 DEF Session
  <2>2. CASE i = n
    <3>1. PICK j \in DOMAIN s : s[j].kind = "connected"
      BY DEF Session, Has
    <3> QED
      BY <1>1, <2>2, <3>1
  <2> QED
    BY <1>1, <2>1, <2>2
<1>5. \A i, j \in DOMAIN t :
       i < j /\ t[i].kind \in Ends /\ t[j].kind \notin {"disconnected", "connected"} => Reopened(t, i)
  <2> HIDE DEF t
  <2> QED
    BY <1>1, <1>2 DEF Session
<1>6. \A i \in DOMAIN t : t[i].kind \in Ends => Reopened(t, i)
  <2> HIDE DEF t
  <2> QED
    BY <1>1, <1>2 DEF Session
<1>7. \A i, j \in DOMAIN t : t[i].kind = "connected" /\ t[j].kind = "connected" => i = j
  <2> HIDE DEF t
  <2> QED
    BY <1>1 DEF Session
<1>8. st # "leaving"
  BY DEF Session
<1> QED
  BY <1>3, <1>4, <1>5, <1>6, <1>7, <1>8 DEF Session

\* A session ends: its last word, or the disconnect that follows it.
LEMMA EndsNow ==
    ASSUME NEW S, NEW s \in Seq(S), NEW e \in S, NEW st, NEW l, Session(s, st, l),
           NEW d, d # "live", e.kind = "disconnected" \/ (l = "live" /\ e.kind \in Ends)
    PROVE  Session(Append(s, e), st, d)
<1> DEFINE t == Append(s, e)  n == Len(s) + 1
<1>1. /\ t \in Seq(S) /\ n \in Nat /\ DOMAIN s = 1 .. n - 1 /\ DOMAIN t = 1 .. n
      /\ \A i \in 1 .. n - 1 : t[i] = s[i]
      /\ t[n] = e
  BY Grown
<1>2. \A i \in 1 .. n - 1 : Reopened(s, i) => Reopened(t, i)
  BY <1>1, ReopenedGrows
<1>3. Has(t, "connected") <=> Has(s, "connected")
  BY GrownHas DEF Ends
<1>4. st = "glue" => \A i \in DOMAIN t :
       \/ t[i].kind \in {"disconnected", "connected"}
       \/ \E j \in DOMAIN t : j < i /\ t[j].kind = "connected"
  <2> SUFFICES ASSUME st = "glue", NEW i \in DOMAIN t
               PROVE  \/ t[i].kind \in {"disconnected", "connected"}
                      \/ \E j \in DOMAIN t : j < i /\ t[j].kind = "connected"
    OBVIOUS
  <2> HIDE DEF t
  <2>1. CASE i < n
    BY <1>1, <2>1 DEF Session
  <2>2. CASE i = n /\ e.kind # "disconnected"
    <3>1. PICK j \in DOMAIN s : s[j].kind = "connected"
      BY <2>2 DEF Session, Has
    <3> QED
      BY <1>1, <2>2, <3>1
  <2> QED
    BY <1>1, <2>1, <2>2
<1>5. \A i, j \in DOMAIN t :
       i < j /\ t[i].kind \in Ends /\ t[j].kind \notin {"disconnected", "connected"} => Reopened(t, i)
  <2> HIDE DEF t
  <2> QED
    BY <1>1, <1>2 DEF Session
<1>6. st = "leaving" => \A i \in DOMAIN t : t[i].kind = "disconnected"
  <2> HIDE DEF t
  <2> QED
    BY <1>1 DEF Session
<1>7. \A i, j \in DOMAIN t : t[i].kind = "connected" /\ t[j].kind = "connected" => i = j
  <2> HIDE DEF t
  <2> QED
    BY <1>1 DEF Session, Ends
<1> QED
  BY <1>3, <1>4, <1>5, <1>6, <1>7 DEF Session

\* A session is announced.
LEMMA Opens ==
    ASSUME NEW S, NEW s \in Seq(S), NEW e \in S, NEW l, Session(s, "glue", l),
           ~Has(s, "connected"), e.kind = "connected"
    PROVE  Session(Append(s, e), "glue", "live")
<1> DEFINE t == Append(s, e)  n == Len(s) + 1
<1>1. /\ t \in Seq(S) /\ n \in Nat /\ DOMAIN s = 1 .. n - 1 /\ DOMAIN t = 1 .. n
      /\ \A i \in 1 .. n - 1 : t[i] = s[i]
      /\ t[n] = e
  BY Grown
<1>2. \A i \in 1 .. n - 1 : Reopened(t, i) /\ s[i].kind # "connected"
  <2> HIDE DEF t
  <2> QED
    BY <1>1 DEF Reopened, Has
<1>3. Has(t, "connected")
  BY GrownHas
<1>4. \A i \in DOMAIN t : t[i].kind \in {"disconnected", "connected"}
  <2> HIDE DEF t
  <2> QED
    BY <1>1, <1>2 DEF Session
<1>5. \A i \in DOMAIN t : t[i].kind \in Ends => Reopened(t, i)
  <2> HIDE DEF t
  <2> QED
    BY <1>1, <1>2 DEF Ends
<1>6. \A i, j \in DOMAIN t : t[i].kind = "connected" /\ t[j].kind = "connected" => i = j
  <2> HIDE DEF t
  <2> QED
    BY <1>1, <1>2
<1> QED
  BY <1>3, <1>4, <1>5, <1>6 DEF Session

\* An end that has its entry behind it has it in the rest.
LEMMA ReopenedShrinks ==
    ASSUME NEW S, NEW s \in Seq(S), s # <<>>, NEW i \in 1 .. Len(s) - 1, Reopened(s, i + 1)
    PROVE  Reopened(Tail(s), i)
<1>1. PICK m \in DOMAIN s : m > i + 1 /\ s[m].kind = "connected"
  BY DEF Reopened
<1>2. m - 1 \in DOMAIN Tail(s) /\ Tail(s)[m - 1] = s[m] /\ m - 1 > i
  BY <1>1, Shrunk
<1> QED
  BY <1>1, <1>2 DEF Reopened

\* An event of the session it names is read: nothing changes but the client's stage
\* within the world.
LEMMA ReadOn ==
    ASSUME NEW S, NEW s \in Seq(S), s # <<>>, NEW st, NEW l, Session(s, st, l),
           Head(s).kind \notin Ends \cup {"connected"}
    PROVE  /\ st \notin {"glue", "leaving"}
           /\ \A w : w \notin {"glue", "leaving"} => Session(Tail(s), w, l)
<1> DEFINE t == Tail(s)  n == Len(s)
<1>1. /\ t \in Seq(S) /\ n \in Nat \ {0} /\ DOMAIN s = 1 .. n /\ DOMAIN t = 1 .. n - 1
      /\ \A i \in 1 .. n - 1 : t[i] = s[i + 1]
      /\ Head(s) = s[1]
  BY Shrunk
<1>2. \A i \in 1 .. n - 1 : Reopened(s, i + 1) => Reopened(t, i)
  BY <1>1, ReopenedShrinks
<1> HIDE DEF t
<1>3. st \notin {"glue", "leaving"}
  BY <1>1 DEF Session, Ends
<1>4. ~Has(s, "connected") /\ ~Has(t, "connected")
  BY <1>3, ShrunkHas DEF Session, t
<1>5. \A i, j \in DOMAIN t :
       i < j /\ t[i].kind \in Ends /\ t[j].kind \notin {"disconnected", "connected"} => Reopened(t, i)
  <2> SUFFICES ASSUME NEW i \in DOMAIN t, NEW j \in DOMAIN t, i < j, t[i].kind \in Ends,
                      t[j].kind \notin {"disconnected", "connected"}
               PROVE  Reopened(t, i)
    OBVIOUS
  <2>1. i + 1 \in DOMAIN s /\ j + 1 \in DOMAIN s /\ i + 1 < j + 1 /\ t[i] = s[i + 1] /\ t[j] = s[j + 1]
    BY <1>1
  <2>2. Reopened(s, i + 1)
    BY <2>1 DEF Session
  <2> QED
    BY <1>1, <1>2, <2>2
<1>6. l = "live" => \A i \in DOMAIN t : t[i].kind \in Ends => Reopened(t, i)
  BY <1>1, <1>2 DEF Session
<1>7. \A i, j \in DOMAIN t : t[i].kind = "connected" /\ t[j].kind = "connected" => i = j
  BY <1>4 DEF Has
<1> QED
  BY <1>3, <1>4, <1>5, <1>6, <1>7 DEF Session, t

\* An entry is read.
LEMMA ReadEntry ==
    ASSUME NEW S, NEW s \in Seq(S), s # <<>>, NEW st, NEW l, Session(s, st, l),
           Head(s).kind = "connected"
    PROVE  st = "glue" /\ Session(Tail(s), "entering", l)
<1> DEFINE t == Tail(s)  n == Len(s)
<1>1. /\ t \in Seq(S) /\ n \in Nat \ {0} /\ DOMAIN s = 1 .. n /\ DOMAIN t = 1 .. n - 1
      /\ \A i \in 1 .. n - 1 : t[i] = s[i + 1]
      /\ Head(s) = s[1]
  BY Shrunk
<1> HIDE DEF t
<1>2. st = "glue"
  BY <1>1 DEF Session, Has
<1>3. \A i \in 2 .. n : s[i].kind # "connected"
  BY <1>1 DEF Session
<1>4. ~Has(t, "connected")
  BY <1>1, <1>3 DEF Has
<1>5. \A i \in 1 .. n : ~Reopened(s, i)
  BY <1>1, <1>3 DEF Reopened
<1>6. \A i, j \in DOMAIN t :
       i < j /\ t[i].kind \in Ends /\ t[j].kind \notin {"disconnected", "connected"} => Reopened(t, i)
  <2> SUFFICES ASSUME NEW i \in DOMAIN t, NEW j \in DOMAIN t, i < j, t[i].kind \in Ends,
                      t[j].kind \notin {"disconnected", "connected"}
               PROVE  Reopened(t, i)
    OBVIOUS
  <2>1. i + 1 \in DOMAIN s /\ j + 1 \in DOMAIN s /\ i + 1 < j + 1 /\ t[i] = s[i + 1] /\ t[j] = s[j + 1]
    BY <1>1
  <2>2. Reopened(s, i + 1)
    BY <2>1 DEF Session
  <2> QED
    BY <1>1, <1>5, <2>2
<1>7. l = "live" => \A i \in DOMAIN t : t[i].kind \in Ends => Reopened(t, i)
  BY <1>1, <1>5 DEF Session
<1>8. \A i, j \in DOMAIN t : t[i].kind = "connected" /\ t[j].kind = "connected" => i = j
  BY <1>4 DEF Has
<1> QED
  BY <1>2, <1>4, <1>6, <1>7, <1>8 DEF Session, t

\* An end is read: in the world the link is gone and only its disconnect may follow;
\* at the glue it is the disconnect of a session left before.
LEMMA ReadEnd ==
    ASSUME NEW S, NEW s \in Seq(S), s # <<>>, NEW st, NEW l, Session(s, st, l),
           Head(s).kind \in Ends
    PROVE  /\ st \in {"glue", "leaving"} => Head(s).kind = "disconnected"
           /\ Session(Tail(s), IF st = "glue" THEN "glue" ELSE "leaving", l)
<1> DEFINE t == Tail(s)  n == Len(s)
<1>1. /\ t \in Seq(S) /\ n \in Nat \ {0} /\ DOMAIN s = 1 .. n /\ DOMAIN t = 1 .. n - 1
      /\ \A i \in 1 .. n - 1 : t[i] = s[i + 1]
      /\ Head(s) = s[1]
  BY Shrunk
<1>2. \A i \in 1 .. n - 1 : Reopened(s, i + 1) => Reopened(t, i)
  BY <1>1, ReopenedShrinks DEF Ends
<1>3. Has(s, "connected") <=> Has(t, "connected")
  BY ShrunkHas DEF Ends
<1> HIDE DEF t
<1>4. st \in {"glue", "leaving"} => Head(s).kind = "disconnected"
  BY <1>1 DEF Session, Ends
<1>5. \A i, j \in DOMAIN t :
       i < j /\ t[i].kind \in Ends /\ t[j].kind \notin {"disconnected", "connected"} => Reopened(t, i)
  <2> SUFFICES ASSUME NEW i \in DOMAIN t, NEW j \in DOMAIN t, i < j, t[i].kind \in Ends,
                      t[j].kind \notin {"disconnected", "connected"}
               PROVE  Reopened(t, i)
    OBVIOUS
  <2>1. i + 1 \in DOMAIN s /\ j + 1 \in DOMAIN s /\ i + 1 < j + 1 /\ t[i] = s[i + 1] /\ t[j] = s[j + 1]
    BY <1>1
  <2>2. Reopened(s, i + 1)
    BY <2>1 DEF Session
  <2> QED
    BY <1>1, <1>2, <2>2
<1>6. l = "live" => \A i \in DOMAIN t : t[i].kind \in Ends => Reopened(t, i)
  BY <1>1, <1>2 DEF Session
<1>7. \A i, j \in DOMAIN t : t[i].kind = "connected" /\ t[j].kind = "connected" => i = j
  BY <1>1 DEF Session
<1>8. CASE st = "glue"
  <2>1. \A i \in DOMAIN t :
         \/ t[i].kind \in {"disconnected", "connected"}
         \/ \E j \in DOMAIN t : j < i /\ t[j].kind = "connected"
    <3> SUFFICES ASSUME NEW i \in DOMAIN t, t[i].kind \notin {"disconnected", "connected"}
                 PROVE  \E j \in DOMAIN t : j < i /\ t[j].kind = "connected"
      OBVIOUS
    <3>1. PICK j \in DOMAIN s : j < i + 1 /\ s[j].kind = "connected"
      BY <1>1, <1>8 DEF Session
    <3>2. j # 1
      BY <1>1, <3>1 DEF Ends
    <3>3. j - 1 \in DOMAIN t /\ t[j - 1] = s[j] /\ j - 1 < i
      BY <1>1, <3>1, <3>2
    <3> QED
      BY <3>1, <3>3
  <2> QED
    BY <1>3, <1>4, <1>5, <1>6, <1>7, <1>8, <2>1 DEF Session, t
<1>9. CASE st # "glue"
  <2>1. ~Has(s, "connected") /\ ~Has(t, "connected")
    BY <1>3, <1>9 DEF Session
  <2>2. \A i \in 1 .. n : ~Reopened(s, i)
    BY <1>1, <2>1 DEF Reopened, Has
  <2>3. l # "live"
    BY <1>1, <2>2 DEF Session
  <2>4. \A i \in DOMAIN t : t[i].kind = "disconnected"
    BY <1>1, <2>1, <2>2 DEF Session, Has
  <2> QED
    BY <1>4, <1>5, <1>6, <1>7, <1>9, <2>1, <2>3, <2>4 DEF Session, t
<1> QED
  BY <1>8, <1>9

\* The interface closes.
LEMMA Closes ==
    ASSUME NEW S, NEW s \in Seq(S), NEW st, NEW l, Session(s, st, l)
    PROVE  Session(s, IF st = "leaving" THEN "glue" ELSE st, l)
  BY DEF Session

----------------------------------------------------------------------------
(* What the messages carry.                                                *)

GoodCommands(s) == \A i \in DOMAIN s : s[i].kind = "query" => s[i].key \in Keys

\* An event's version is one the server reached.
GoodEvent(e, ver) ==
  /\ e.kind \in {"record", "refusal"} => e.key \in Keys
  /\ e.kind = "record" => e.v <= (IF e.key \in Names THEN ver[e.key] ELSE 0)
  /\ e.kind = "invalidate" => e.key \in Names /\ e.v <= ver[e.key]

GoodEvents(s, ver) == \A i \in DOMAIN s : GoodEvent(s[i], ver)

LEMMA CommandsGrow ==
    ASSUME NEW S, NEW s \in Seq(S), NEW e \in S, GoodCommands(s), e.kind = "query" => e.key \in Keys
    PROVE  GoodCommands(Append(s, e))
<1> DEFINE t == Append(s, e)
<1>1. /\ Len(s) \in Nat /\ DOMAIN s = 1 .. Len(s) /\ DOMAIN t = 1 .. Len(s) + 1
      /\ \A i \in 1 .. Len(s) : t[i] = s[i]
      /\ t[Len(s) + 1] = e
  BY Grown
<1> HIDE DEF t
<1> QED
  BY <1>1 DEF GoodCommands, t

LEMMA CommandsShrink ==
    ASSUME NEW S, NEW s \in Seq(S), s # <<>>, GoodCommands(s)
    PROVE  GoodCommands(Tail(s)) /\ (Head(s).kind = "query" => Head(s).key \in Keys)
  BY Shrunk DEF GoodCommands

LEMMA EventsGrow ==
    ASSUME NEW S, NEW s \in Seq(S), NEW e \in S, NEW ver, GoodEvents(s, ver), GoodEvent(e, ver)
    PROVE  GoodEvents(Append(s, e), ver)
<1> DEFINE t == Append(s, e)
<1>1. /\ Len(s) \in Nat /\ DOMAIN s = 1 .. Len(s) /\ DOMAIN t = 1 .. Len(s) + 1
      /\ \A i \in 1 .. Len(s) : t[i] = s[i]
      /\ t[Len(s) + 1] = e
  BY Grown
<1> HIDE DEF t
<1> QED
  BY <1>1 DEF GoodEvents, t

LEMMA EventsShrink ==
    ASSUME NEW S, NEW s \in Seq(S), s # <<>>, NEW ver, GoodEvents(s, ver)
    PROVE  GoodEvents(Tail(s), ver) /\ GoodEvent(Head(s), ver)
  BY Shrunk DEF GoodEvents

\* Messages(kinds) holds what the actions build.
Top == IF MaxMoves > 2 THEN MaxMoves ELSE 2

LEMMA Built ==
    /\ \A kinds, kind : kind \in kinds =>
         Plain(kind) \in Messages(kinds) /\ Plain(kind).kind = kind
    /\ \A k \in Keys : /\ Query(k) \in Messages(Commands)
                       /\ Query(k).kind = "query" /\ Query(k).key = k
    /\ \A kinds, kind, k, n : kind \in kinds /\ k \in Keys \cup {NoKey} /\ n \in 0 .. Top =>
         /\ Msg(kind, k, n) \in Messages(kinds)
         /\ Msg(kind, k, n).kind = kind /\ Msg(kind, k, n).key = k /\ Msg(kind, k, n).v = n
  BY MovesAssumption DEF Plain, Query, Msg, Messages, Commands, Top

LEMMA Fields ==
    ASSUME NEW kinds, NEW e \in Messages(kinds)
    PROVE  e.kind \in kinds /\ e.key \in Keys \cup {NoKey} /\ e.v \in 0 .. Top /\ e.v \in Nat
  BY MovesAssumption DEF Messages, Top

----------------------------------------------------------------------------
(* The inductive invariant: the types, the order of the session's events   *)
(* and what the messages carry.                                            *)

Counted == \A k \in Names : version[k] <= moves

IInv ==
  /\ TypeOK
  /\ Session(replies, stage, link)
  /\ GoodCommands(cmds) /\ GoodEvents(replies, version)
  /\ Counted

LEMMA InvInit == Init => IInv
<1> SUFFICES ASSUME Init PROVE IInv
  OBVIOUS
<1>1. /\ cmds = <<>> /\ replies = <<>> /\ link = "parked" /\ stage = "glue"
      /\ DOMAIN cmds = {} /\ DOMAIN replies = {}
      /\ cmds \in Seq(Messages(Commands)) /\ replies \in Seq(Messages(Events))
  BY DEF Init, WireInit
<1>9. /\ version = [k \in Names |-> 0] /\ moves = 0 /\ seen = [k \in Names |-> 0] /\ acts = 0
      /\ server = "out" /\ porting = FALSE /\ dialog = "none" /\ inFrame = FALSE /\ posted = FALSE
  BY DEF Init, WireInit, LogoutInit
<1>2. WireTypeOK
  <2>1. version \in [Names -> 0 .. MaxMoves] /\ moves \in 0 .. MaxMoves
    BY <1>9, MovesAssumption
  <2> QED
    BY <1>9, <1>1, <2>1 DEF WireTypeOK
<1>3. LogoutTypeOK
  BY DEF Init, LogoutInit, LogoutTypeOK
<1>4. CacheTypeOK
  BY MovesAssumption DEF Init, CacheInit, CacheTypeOK, NoRecord
<1>5. TypeOK
  <2>1. seen \in [Names -> 0 .. MaxMoves] /\ acts \in 0 .. MaxActs
    BY <1>9, MovesAssumption, ActsAssumption
  <2> QED
    BY <1>9, <1>1, <1>2, <1>3, <1>4, <2>1 DEF TypeOK
<1>6. Session(replies, stage, link)
  BY <1>1 DEF Session, Has
<1>7. GoodCommands(cmds) /\ GoodEvents(replies, version)
  BY <1>1 DEF GoodCommands, GoodEvents
<1>8. Counted
  <2>1. version \in [Names -> {0}]
    BY <1>9
  <2>2. \A k \in Names : version[k] <= 0
    BY <2>1
  <2>3. moves = 0
    BY <1>9
  <2> QED
    BY <2>2, <2>3 DEF Counted
<1> QED
  BY <1>5, <1>6, <1>7, <1>8 DEF IInv

\* Reading an event.
LEMMA Taken ==
    ASSUME IInv, NEW kind, Takes(kind)
    PROVE  /\ Head(replies) \in Messages(Events) /\ Head(replies).kind = kind
           /\ GoodEvent(Head(replies), version)
           /\ replies # <<>> /\ replies \in Seq(Messages(Events))
           /\ replies' = Tail(replies) /\ replies' \in Seq(Messages(Events))
           /\ GoodEvents(replies', version')
           /\ inFrame' = inFrame /\ acts' = acts
           /\ version' = version /\ moves' = moves /\ link' = link /\ Counted'
           /\ (cmds' \in Seq(Messages(Commands)) => WireTypeOK')
<1>1. /\ replies \in Seq(Messages(Events)) /\ replies # <<>>
      /\ replies' = Tail(replies) /\ Head(replies).kind = kind
      /\ UNCHANGED <<link, server, porting, version, moves, inFrame, acts>>
  BY DEF IInv, TypeOK, WireTypeOK, Takes, serverVars
<1>2. /\ Tail(replies) \in Seq(Messages(Events)) /\ Head(replies) \in Messages(Events)
  BY <1>1, Shrunk
<1>3. GoodEvents(Tail(replies), version) /\ GoodEvent(Head(replies), version)
  BY <1>1, EventsShrink DEF IInv
<1>4. Counted'
  BY <1>1 DEF IInv, Counted
<1> QED
  BY <1>1, <1>2, <1>3, <1>4 DEF IInv, TypeOK, WireTypeOK

\* Sending a command that carries no key, if at all.
LEMMA Sent ==
    ASSUME IInv, NEW kind \in Commands, kind # "query"
    PROVE  /\ Append(cmds, Plain(kind)) \in Seq(Messages(Commands))
           /\ GoodCommands(Append(cmds, Plain(kind)))
<1>1. Plain(kind) \in Messages(Commands) /\ Plain(kind).kind = kind
  BY Built
<1>2. cmds \in Seq(Messages(Commands)) /\ GoodCommands(cmds)
  BY DEF IInv, TypeOK, WireTypeOK
<1> QED
  BY <1>1, <1>2, Grown, CommandsGrow

LEMMA CalledOff ==
    ASSUME IInv, CallOff
    PROVE  /\ cmds' \in Seq(Messages(Commands)) /\ GoodCommands(cmds')
           /\ logoutPending' = FALSE
           /\ dialog' \in {"none", "up", "expired"} /\ (dialog = "none" => dialog' = "none")
<1>1. cmds' = Append(cmds, Plain("logoutCancel")) \/ cmds' = cmds
  BY DEF CallOff, Send
<1>2. cmds \in Seq(Messages(Commands)) /\ GoodCommands(cmds) /\ dialog \in {"none", "up", "expired"}
  BY DEF IInv, TypeOK, WireTypeOK, LogoutTypeOK
<1> QED
  BY <1>1, <1>2, Sent DEF CallOff, Commands

LEMMA InvStartFrame == IInv /\ StartFrame => IInv'
<1> SUFFICES ASSUME IInv, StartFrame PROVE IInv'
  OBVIOUS
<1> DEFINE hides == (posted /\ logoutPending) /\ dialog = "up"
           one == AddIf(cmds, hides, Plain("logoutCancel"))
           two == AddIf(one, posted, Plain("worldportAck"))
<1>1. /\ cmds' = two
      /\ stage' = IF stage = "leaving" THEN "glue" ELSE stage
      /\ dialog' = IF hides \/ stage = "leaving" THEN "none" ELSE dialog
      /\ inFrame' = TRUE /\ posted' = FALSE
      /\ logoutPending' \in BOOLEAN /\ worldHandle' \in BOOLEAN
      /\ UNCHANGED <<serverVars, replies, quitting, selfGuid, exitVars, cacheVars, seen, acts>>
  BY DEF StartFrame
<1>2. one \in Seq(Messages(Commands)) /\ GoodCommands(one)
  BY Sent DEF AddIf, Commands, IInv, TypeOK, WireTypeOK
<1>3. Plain("worldportAck") \in Messages(Commands) /\ Plain("worldportAck").kind = "worldportAck"
  BY Built DEF Commands
<1> HIDE DEF one
<1>4. two \in Seq(Messages(Commands)) /\ GoodCommands(two)
  BY <1>2, <1>3, Grown, CommandsGrow DEF AddIf
<1>5. Session(replies', stage', link')
  <2>1. replies \in Seq(Messages(Events)) /\ Session(replies, stage, link)
    BY DEF IInv, TypeOK, WireTypeOK
  <2>2. UNCHANGED <<replies, link>>
    BY <1>1 DEF serverVars
  <2> QED
    BY <1>1, <2>1, <2>2, Closes
<1> HIDE DEF two
<1>6. WireTypeOK'
  BY <1>1, <1>4 DEF IInv, TypeOK, WireTypeOK, serverVars
<1>7. LogoutTypeOK'
  BY <1>1 DEF IInv, TypeOK, LogoutTypeOK, exitVars
<1>8. CacheTypeOK'
  BY <1>1 DEF IInv, TypeOK, CacheTypeOK, cacheVars
<1>9. TypeOK'
  BY <1>1, <1>6, <1>7, <1>8 DEF IInv, TypeOK
<1>10. GoodEvents(replies', version') /\ Counted'
  BY <1>1 DEF IInv, serverVars, Counted
<1> QED
  BY <1>1, <1>4, <1>5, <1>9, <1>10 DEF IInv

LEMMA InvEndFrame == IInv /\ EndFrame => IInv'
<1> SUFFICES ASSUME IInv, EndFrame PROVE IInv'
  OBVIOUS
<1>1. /\ UNCHANGED <<wireVars, cacheVars, stage, posted, seen, acts, quitting, worldHandle, selfGuid, dialog>>
      /\ inFrame' = FALSE /\ exitPosted' = FALSE /\ loggedOut' = FALSE
      /\ exiting' \in BOOLEAN /\ logoutPending' \in BOOLEAN
  BY DEF EndFrame, ExitOnLogoutComplete, IInv, TypeOK, LogoutTypeOK
<1>2. WireTypeOK' /\ CacheTypeOK' /\ LogoutTypeOK'
  BY <1>1 DEF IInv, TypeOK, WireTypeOK, CacheTypeOK, LogoutTypeOK, wireVars, serverVars, cacheVars
<1> QED
  BY <1>1, <1>2 DEF IInv, TypeOK, Counted, wireVars, serverVars

LEMMA InvConnected == IInv /\ OnConnected => IInv'
<1> SUFFICES ASSUME IInv, OnConnected PROVE IInv'
  OBVIOUS
<1>1. /\ Takes("connected") /\ selfGuid' = TRUE /\ stage' = "entering" /\ ClearNames
      /\ UNCHANGED <<cmds, logoutState, exitVars, dialog, posted, seen>>
  BY DEF OnConnected
<1>2. /\ replies \in Seq(Messages(Events)) /\ replies # <<>> /\ Head(replies).kind = "connected"
      /\ replies' = Tail(replies) /\ link' = link /\ inFrame' = inFrame /\ acts' = acts
      /\ GoodEvents(replies', version') /\ Counted' /\ version' = version
      /\ (cmds' \in Seq(Messages(Commands)) => WireTypeOK')
  BY <1>1, Taken
<1>3. Session(replies', stage', link')
  BY <1>1, <1>2, ReadEntry DEF IInv
<1>4. WireTypeOK' /\ GoodCommands(cmds')
  BY <1>1, <1>2 DEF IInv, TypeOK, WireTypeOK
<1>5. LogoutTypeOK'
  BY <1>1 DEF IInv, TypeOK, LogoutTypeOK, logoutState, exitVars
<1>6. CacheTypeOK'
  BY <1>1, MovesAssumption DEF IInv, TypeOK, CacheTypeOK, ClearNames, NoRecord
<1> QED
  BY <1>1, <1>2, <1>3, <1>4, <1>5, <1>6 DEF IInv, TypeOK

LEMMA InvWorldport == IInv /\ OnWorldport => IInv'
<1> SUFFICES ASSUME IInv, OnWorldport PROVE IInv'
  OBVIOUS
<1>1. /\ Takes("worldport") /\ ApplyLeftWorld
      /\ UNCHANGED <<quitting, selfGuid, exitVars, cacheVars, stage, posted, seen>>
  BY DEF OnWorldport
<1>2. /\ replies \in Seq(Messages(Events)) /\ replies # <<>> /\ Head(replies).kind = "worldport"
      /\ replies' = Tail(replies) /\ link' = link /\ inFrame' = inFrame /\ acts' = acts
      /\ GoodEvents(replies', version') /\ Counted' /\ version' = version
      /\ (cmds' \in Seq(Messages(Commands)) => WireTypeOK')
  BY <1>1, Taken
<1>3. /\ CallOff /\ worldHandle' \in BOOLEAN
      /\ quitting' \in BOOLEAN /\ selfGuid' \in BOOLEAN /\ exitPosted' \in BOOLEAN
      /\ loggedOut' \in BOOLEAN /\ exiting' \in BOOLEAN
  BY <1>1 DEF ApplyLeftWorld, IInv, TypeOK, LogoutTypeOK, exitVars
<1>4. /\ cmds' \in Seq(Messages(Commands)) /\ GoodCommands(cmds') /\ logoutPending' = FALSE
      /\ dialog' \in {"none", "up", "expired"} /\ (dialog = "none" => dialog' = "none")
  BY <1>3, CalledOff
<1>5. Session(replies', stage', link')
  <2>1. Head(replies).kind \notin Ends \cup {"connected"} /\ Session(replies, stage, link)
    BY <1>2 DEF Ends, IInv
  <2>2. /\ stage \notin {"glue", "leaving"}
        /\ \A w : w \notin {"glue", "leaving"} => Session(Tail(replies), w, link)
    BY <1>2, <2>1, ReadOn
  <2> QED
    BY <1>1, <1>2, <2>2
<1>6. LogoutTypeOK'
  BY <1>3, <1>4 DEF LogoutTypeOK
<1>7. CacheTypeOK'
  BY <1>1 DEF IInv, TypeOK, CacheTypeOK, cacheVars
<1> QED
  BY <1>1, <1>2, <1>4, <1>5, <1>6, <1>7 DEF IInv, TypeOK

LEMMA InvArrival == IInv /\ OnArrival => IInv'
<1> SUFFICES ASSUME IInv, OnArrival PROVE IInv'
  OBVIOUS
<1>1. /\ Takes("arrival") /\ SetInWorld /\ stage' = "world"
      /\ UNCHANGED <<cacheVars, posted, seen>>
  BY DEF OnArrival
<1>2. /\ replies \in Seq(Messages(Events)) /\ replies # <<>> /\ Head(replies).kind = "arrival"
      /\ replies' = Tail(replies) /\ link' = link /\ inFrame' = inFrame /\ acts' = acts
      /\ GoodEvents(replies', version') /\ Counted' /\ version' = version
      /\ (cmds' \in Seq(Messages(Commands)) => WireTypeOK')
  BY <1>1, Taken
<1>3. /\ CallOff /\ worldHandle' \in BOOLEAN
      /\ quitting' \in BOOLEAN /\ selfGuid' \in BOOLEAN /\ exitPosted' \in BOOLEAN
      /\ loggedOut' \in BOOLEAN /\ exiting' \in BOOLEAN
  BY <1>1 DEF SetInWorld, IInv, TypeOK, LogoutTypeOK, exitVars
<1>4. /\ cmds' \in Seq(Messages(Commands)) /\ GoodCommands(cmds') /\ logoutPending' = FALSE
      /\ dialog' \in {"none", "up", "expired"} /\ (dialog = "none" => dialog' = "none")
  BY <1>3, CalledOff
<1>5. Session(replies', stage', link')
  <2>1. Head(replies).kind \notin Ends \cup {"connected"} /\ Session(replies, stage, link)
    BY <1>2 DEF Ends, IInv
  <2>2. /\ stage \notin {"glue", "leaving"}
        /\ \A w : w \notin {"glue", "leaving"} => Session(Tail(replies), w, link)
    BY <1>2, <2>1, ReadOn
  <2> QED
    BY <1>1, <1>2, <2>2
<1>6. LogoutTypeOK'
  BY <1>3, <1>4 DEF LogoutTypeOK
<1>7. CacheTypeOK'
  BY <1>1 DEF IInv, TypeOK, CacheTypeOK, cacheVars
<1> QED
  BY <1>1, <1>2, <1>4, <1>5, <1>6, <1>7 DEF IInv, TypeOK

LEMMA InvLogoutCancelled == IInv /\ OnLogoutCancelled => IInv'
<1> SUFFICES ASSUME IInv, OnLogoutCancelled PROVE IInv'
  OBVIOUS
<1>1. /\ Takes("logoutCancelled") /\ ApplyCancelled
      /\ UNCHANGED <<cacheVars, stage, posted, seen>>
  BY DEF OnLogoutCancelled
<1>2. /\ replies \in Seq(Messages(Events)) /\ replies # <<>> /\ Head(replies).kind = "logoutCancelled"
      /\ replies' = Tail(replies) /\ link' = link /\ inFrame' = inFrame /\ acts' = acts
      /\ GoodEvents(replies', version') /\ Counted' /\ version' = version
      /\ (cmds' \in Seq(Messages(Commands)) => WireTypeOK')
  BY <1>1, Taken
<1>3. /\ CallOff /\ worldHandle' \in BOOLEAN
      /\ quitting' \in BOOLEAN /\ selfGuid' \in BOOLEAN /\ exitPosted' \in BOOLEAN
      /\ loggedOut' \in BOOLEAN /\ exiting' \in BOOLEAN
  BY <1>1 DEF ApplyCancelled, IInv, TypeOK, LogoutTypeOK, exitVars
<1>4. /\ cmds' \in Seq(Messages(Commands)) /\ GoodCommands(cmds') /\ logoutPending' = FALSE
      /\ dialog' \in {"none", "up", "expired"} /\ (dialog = "none" => dialog' = "none")
  BY <1>3, CalledOff
<1>5. Session(replies', stage', link')
  <2>1. Head(replies).kind \notin Ends \cup {"connected"} /\ Session(replies, stage, link)
    BY <1>2 DEF Ends, IInv
  <2>2. /\ stage \notin {"glue", "leaving"}
        /\ \A w : w \notin {"glue", "leaving"} => Session(Tail(replies), w, link)
    BY <1>2, <2>1, ReadOn
  <2> QED
    BY <1>1, <1>2, <2>2
<1>6. LogoutTypeOK'
  BY <1>3, <1>4 DEF LogoutTypeOK
<1>7. CacheTypeOK'
  BY <1>1 DEF IInv, TypeOK, CacheTypeOK, cacheVars
<1> QED
  BY <1>1, <1>2, <1>4, <1>5, <1>6, <1>7 DEF IInv, TypeOK

LEMMA InvLoggedOut == IInv /\ OnLoggedOut => IInv'
<1> SUFFICES ASSUME IInv, OnLoggedOut PROVE IInv'
  OBVIOUS
<1>1. /\ Takes("loggedOut") /\ ApplyLeftWorld
      /\ selfGuid' = FALSE /\ loggedOut' = TRUE /\ stage' = "leaving"
      /\ UNCHANGED <<quitting, exitPosted, exiting, cacheVars, posted, seen>>
  BY DEF OnLoggedOut
<1>2. /\ replies \in Seq(Messages(Events)) /\ replies # <<>> /\ Head(replies).kind = "loggedOut"
      /\ replies' = Tail(replies) /\ link' = link /\ inFrame' = inFrame /\ acts' = acts
      /\ GoodEvents(replies', version') /\ Counted' /\ version' = version
      /\ (cmds' \in Seq(Messages(Commands)) => WireTypeOK')
  BY <1>1, Taken
<1>3. /\ CallOff /\ worldHandle' \in BOOLEAN
      /\ quitting' \in BOOLEAN /\ selfGuid' \in BOOLEAN /\ exitPosted' \in BOOLEAN
      /\ loggedOut' \in BOOLEAN /\ exiting' \in BOOLEAN
  BY <1>1 DEF ApplyLeftWorld, IInv, TypeOK, LogoutTypeOK, exitVars
<1>4. /\ cmds' \in Seq(Messages(Commands)) /\ GoodCommands(cmds') /\ logoutPending' = FALSE
      /\ dialog' \in {"none", "up", "expired"} /\ (dialog = "none" => dialog' = "none")
  BY <1>3, CalledOff
<1>5. Session(replies', stage', link')
  <2>1. /\ Head(replies).kind \in Ends /\ Head(replies).kind # "disconnected"
        /\ Session(replies, stage, link)
    BY <1>2 DEF Ends, IInv
  <2>2. stage # "glue" /\ Session(Tail(replies), IF stage = "glue" THEN "glue" ELSE "leaving", link)
    BY <1>2, <2>1, ReadEnd
  <2> QED
    BY <1>1, <1>2, <2>2
<1>6. LogoutTypeOK'
  BY <1>3, <1>4 DEF LogoutTypeOK
<1>7. CacheTypeOK'
  BY <1>1 DEF IInv, TypeOK, CacheTypeOK, cacheVars
<1> QED
  BY <1>1, <1>2, <1>4, <1>5, <1>6, <1>7 DEF IInv, TypeOK

LEMMA InvLoginFailed == IInv /\ OnLoginFailed => IInv'
<1> SUFFICES ASSUME IInv, OnLoginFailed PROVE IInv'
  OBVIOUS
<1>1. /\ Takes("loginFailed") /\ ApplyLeftWorld /\ stage' = "leaving"
      /\ UNCHANGED <<quitting, selfGuid, exitVars, cacheVars, posted, seen>>
  BY DEF OnLoginFailed
<1>2. /\ replies \in Seq(Messages(Events)) /\ replies # <<>> /\ Head(replies).kind = "loginFailed"
      /\ replies' = Tail(replies) /\ link' = link /\ inFrame' = inFrame /\ acts' = acts
      /\ GoodEvents(replies', version') /\ Counted' /\ version' = version
      /\ (cmds' \in Seq(Messages(Commands)) => WireTypeOK')
  BY <1>1, Taken
<1>3. /\ CallOff /\ worldHandle' \in BOOLEAN
      /\ quitting' \in BOOLEAN /\ selfGuid' \in BOOLEAN /\ exitPosted' \in BOOLEAN
      /\ loggedOut' \in BOOLEAN /\ exiting' \in BOOLEAN
  BY <1>1 DEF ApplyLeftWorld, IInv, TypeOK, LogoutTypeOK, exitVars
<1>4. /\ cmds' \in Seq(Messages(Commands)) /\ GoodCommands(cmds') /\ logoutPending' = FALSE
      /\ dialog' \in {"none", "up", "expired"} /\ (dialog = "none" => dialog' = "none")
  BY <1>3, CalledOff
<1>5. Session(replies', stage', link')
  <2>1. /\ Head(replies).kind \in Ends /\ Head(replies).kind # "disconnected"
        /\ Session(replies, stage, link)
    BY <1>2 DEF Ends, IInv
  <2>2. stage # "glue" /\ Session(Tail(replies), IF stage = "glue" THEN "glue" ELSE "leaving", link)
    BY <1>2, <2>1, ReadEnd
  <2> QED
    BY <1>1, <1>2, <2>2
<1>6. LogoutTypeOK'
  BY <1>3, <1>4 DEF LogoutTypeOK
<1>7. CacheTypeOK'
  BY <1>1 DEF IInv, TypeOK, CacheTypeOK, cacheVars
<1> QED
  BY <1>1, <1>2, <1>4, <1>5, <1>6, <1>7 DEF IInv, TypeOK

LEMMA InvNewWorld == IInv /\ OnNewWorld => IInv'
<1> SUFFICES ASSUME IInv, OnNewWorld PROVE IInv'
  OBVIOUS
<1>1. /\ Takes("newWorld") /\ posted' = TRUE
      /\ UNCHANGED <<cmds, logoutVars, cacheVars, stage, seen>>
  BY DEF OnNewWorld
<1>2. /\ replies \in Seq(Messages(Events)) /\ replies # <<>> /\ Head(replies).kind = "newWorld"
      /\ replies' = Tail(replies) /\ link' = link /\ inFrame' = inFrame /\ acts' = acts
      /\ GoodEvents(replies', version') /\ Counted' /\ version' = version
      /\ (cmds' \in Seq(Messages(Commands)) => WireTypeOK')
  BY <1>1, Taken
<1>3. cmds' = cmds /\ WireTypeOK' /\ GoodCommands(cmds')
  BY <1>1, <1>2 DEF IInv, TypeOK, WireTypeOK, ApplyResponse
<1>4. stage \notin {"glue", "leaving"} /\ stage' = stage /\ Session(replies', stage', link')
  <2>1. Head(replies).kind \notin Ends \cup {"connected"} /\ Session(replies, stage, link)
    BY <1>2 DEF Ends, IInv
  <2>2. /\ stage \notin {"glue", "leaving"}
        /\ \A w : w \notin {"glue", "leaving"} => Session(Tail(replies), w, link)
    BY <1>2, <2>1, ReadOn
  <2> QED
    BY <1>1, <1>2, <2>2
<1>5. LogoutTypeOK'
  BY <1>1 DEF IInv, TypeOK, LogoutTypeOK, logoutVars, logoutState, exitVars
<1>6. CacheTypeOK'
  BY <1>1 DEF IInv, TypeOK, CacheTypeOK, cacheVars
<1>7. posted' \in BOOLEAN
  BY <1>1 DEF IInv, TypeOK
<1>8. seen' \in [Names -> 0 .. MaxMoves]
  BY <1>1 DEF IInv, TypeOK
<1> QED
  BY <1>2, <1>3, <1>4, <1>5, <1>6, <1>7, <1>8 DEF IInv, TypeOK

LEMMA InvResponse == IInv /\ OnResponse => IInv'
<1> SUFFICES ASSUME IInv, OnResponse PROVE IInv'
  OBVIOUS
<1>1. /\ Takes("response") /\ ApplyResponse(Head(replies).v)
      /\ UNCHANGED <<cacheVars, stage, posted, seen>>
  BY DEF OnResponse
<1>2. /\ replies \in Seq(Messages(Events)) /\ replies # <<>> /\ Head(replies).kind = "response"
      /\ replies' = Tail(replies) /\ link' = link /\ inFrame' = inFrame /\ acts' = acts
      /\ GoodEvents(replies', version') /\ Counted' /\ version' = version
      /\ (cmds' \in Seq(Messages(Commands)) => WireTypeOK')
  BY <1>1, Taken
<1>3. cmds' = cmds /\ WireTypeOK' /\ GoodCommands(cmds')
  BY <1>1, <1>2 DEF IInv, TypeOK, WireTypeOK, ApplyResponse
<1>4. stage \notin {"glue", "leaving"} /\ stage' = stage /\ Session(replies', stage', link')
  <2>1. Head(replies).kind \notin Ends \cup {"connected"} /\ Session(replies, stage, link)
    BY <1>2 DEF Ends, IInv
  <2>2. /\ stage \notin {"glue", "leaving"}
        /\ \A w : w \notin {"glue", "leaving"} => Session(Tail(replies), w, link)
    BY <1>2, <2>1, ReadOn
  <2> QED
    BY <1>1, <1>2, <2>2
<1>5. LogoutTypeOK'
  BY <1>1 DEF ApplyResponse, IInv, TypeOK, LogoutTypeOK, exitVars
<1>6. CacheTypeOK'
  BY <1>1 DEF IInv, TypeOK, CacheTypeOK, cacheVars
<1>7. posted' \in BOOLEAN
  BY <1>1 DEF IInv, TypeOK
<1>8. seen' \in [Names -> 0 .. MaxMoves]
  BY <1>1 DEF IInv, TypeOK
<1> QED
  BY <1>2, <1>3, <1>4, <1>5, <1>6, <1>7, <1>8 DEF IInv, TypeOK

LEMMA InvRecord == IInv /\ OnRecord => IInv'
<1> SUFFICES ASSUME IInv, OnRecord PROVE IInv'
  OBVIOUS
<1>1. /\ Takes("record") /\ Insert(Head(replies).key, Head(replies).v)
      /\ UNCHANGED <<cmds, logoutVars, stage, posted, seen>>
  BY DEF OnRecord
<1>2. /\ replies \in Seq(Messages(Events)) /\ replies # <<>> /\ Head(replies).kind = "record"
      /\ replies' = Tail(replies) /\ link' = link /\ inFrame' = inFrame /\ acts' = acts
      /\ GoodEvents(replies', version') /\ Counted' /\ version' = version
      /\ (cmds' \in Seq(Messages(Commands)) => WireTypeOK')
  BY <1>1, Taken
<1>3. cmds' = cmds /\ WireTypeOK' /\ GoodCommands(cmds')
  BY <1>1, <1>2 DEF IInv, TypeOK, WireTypeOK, ApplyResponse
<1>4. stage \notin {"glue", "leaving"} /\ stage' = stage /\ Session(replies', stage', link')
  <2>1. Head(replies).kind \notin Ends \cup {"connected"} /\ Session(replies, stage, link)
    BY <1>2 DEF Ends, IInv
  <2>2. /\ stage \notin {"glue", "leaving"}
        /\ \A w : w \notin {"glue", "leaving"} => Session(Tail(replies), w, link)
    BY <1>2, <2>1, ReadOn
  <2> QED
    BY <1>1, <1>2, <2>2
<1>5. LogoutTypeOK'
  BY <1>1 DEF IInv, TypeOK, LogoutTypeOK, logoutVars, logoutState, exitVars
<1>6. CacheTypeOK'
  <2>1. Head(replies).key \in Keys /\ Head(replies).v \in 0 .. MaxMoves
    <3>1. /\ Head(replies).v \in Nat /\ Head(replies).key \in Keys
          /\ Head(replies).v <= (IF Head(replies).key \in Names THEN version[Head(replies).key] ELSE 0)
      BY <1>1, Taken, Fields DEF GoodEvent
    <3>2. version \in [Names -> 0 .. MaxMoves]
      BY DEF IInv, TypeOK, WireTypeOK
    <3> QED
      BY <3>1, <3>2, MovesAssumption
  <2> QED
    BY <1>1, <2>1, MovesAssumption DEF Insert, IInv, TypeOK, CacheTypeOK, NoRecord
<1>7. posted' \in BOOLEAN
  BY <1>1 DEF IInv, TypeOK
<1>8. seen' \in [Names -> 0 .. MaxMoves]
  BY <1>1 DEF IInv, TypeOK
<1> QED
  BY <1>2, <1>3, <1>4, <1>5, <1>6, <1>7, <1>8 DEF IInv, TypeOK

LEMMA InvRefusal == IInv /\ OnRefusal => IInv'
<1> SUFFICES ASSUME IInv, OnRefusal PROVE IInv'
  OBVIOUS
<1>1. /\ Takes("refusal") /\ Refuse(Head(replies).key)
      /\ UNCHANGED <<cmds, logoutVars, stage, posted, seen>>
  BY DEF OnRefusal
<1>2. /\ replies \in Seq(Messages(Events)) /\ replies # <<>> /\ Head(replies).kind = "refusal"
      /\ replies' = Tail(replies) /\ link' = link /\ inFrame' = inFrame /\ acts' = acts
      /\ GoodEvents(replies', version') /\ Counted' /\ version' = version
      /\ (cmds' \in Seq(Messages(Commands)) => WireTypeOK')
  BY <1>1, Taken
<1>3. cmds' = cmds /\ WireTypeOK' /\ GoodCommands(cmds')
  BY <1>1, <1>2 DEF IInv, TypeOK, WireTypeOK, ApplyResponse
<1>4. stage \notin {"glue", "leaving"} /\ stage' = stage /\ Session(replies', stage', link')
  <2>1. Head(replies).kind \notin Ends \cup {"connected"} /\ Session(replies, stage, link)
    BY <1>2 DEF Ends, IInv
  <2>2. /\ stage \notin {"glue", "leaving"}
        /\ \A w : w \notin {"glue", "leaving"} => Session(Tail(replies), w, link)
    BY <1>2, <2>1, ReadOn
  <2> QED
    BY <1>1, <1>2, <2>2
<1>5. LogoutTypeOK'
  BY <1>1 DEF IInv, TypeOK, LogoutTypeOK, logoutVars, logoutState, exitVars
<1>6. CacheTypeOK'
  <2>1. Head(replies).key \in Keys
    BY <1>1, Taken DEF GoodEvent
  <2> QED
    BY <1>1, <2>1, MovesAssumption DEF Refuse, IInv, TypeOK, CacheTypeOK, NoRecord
<1>7. posted' \in BOOLEAN
  BY <1>1 DEF IInv, TypeOK
<1>8. seen' \in [Names -> 0 .. MaxMoves]
  BY <1>1 DEF IInv, TypeOK
<1> QED
  BY <1>2, <1>3, <1>4, <1>5, <1>6, <1>7, <1>8 DEF IInv, TypeOK

LEMMA InvInvalidate == IInv /\ OnInvalidate => IInv'
<1> SUFFICES ASSUME IInv, OnInvalidate PROVE IInv'
  OBVIOUS
<1>1. /\ Takes("invalidate") /\ Evict(Head(replies).key)
      /\ seen' = [seen EXCEPT ![Head(replies).key] = Head(replies).v]
      /\ UNCHANGED <<cmds, logoutVars, stage, posted>>
  BY DEF OnInvalidate
<1>2. /\ replies \in Seq(Messages(Events)) /\ replies # <<>> /\ Head(replies).kind = "invalidate"
      /\ replies' = Tail(replies) /\ link' = link /\ inFrame' = inFrame /\ acts' = acts
      /\ GoodEvents(replies', version') /\ Counted' /\ version' = version
      /\ (cmds' \in Seq(Messages(Commands)) => WireTypeOK')
  BY <1>1, Taken
<1>3. cmds' = cmds /\ WireTypeOK' /\ GoodCommands(cmds')
  BY <1>1, <1>2 DEF IInv, TypeOK, WireTypeOK, ApplyResponse
<1>4. stage \notin {"glue", "leaving"} /\ stage' = stage /\ Session(replies', stage', link')
  <2>1. Head(replies).kind \notin Ends \cup {"connected"} /\ Session(replies, stage, link)
    BY <1>2 DEF Ends, IInv
  <2>2. /\ stage \notin {"glue", "leaving"}
        /\ \A w : w \notin {"glue", "leaving"} => Session(Tail(replies), w, link)
    BY <1>2, <2>1, ReadOn
  <2> QED
    BY <1>1, <1>2, <2>2
<1>5. LogoutTypeOK'
  BY <1>1 DEF IInv, TypeOK, LogoutTypeOK, logoutVars, logoutState, exitVars
<1>6. CacheTypeOK'
  <2>1. Head(replies).key \in Keys
    BY <1>1, Taken DEF GoodEvent, Keys
  <2> QED
    BY <1>1, <2>1, MovesAssumption DEF Evict, IInv, TypeOK, CacheTypeOK, NoRecord
<1>7. posted' \in BOOLEAN
  BY <1>1 DEF IInv, TypeOK
<1>8. seen' \in [Names -> 0 .. MaxMoves]
  <2>1. /\ Head(replies).v \in Nat /\ Head(replies).key \in Names
        /\ Head(replies).v <= version[Head(replies).key]
    BY <1>1, Taken, Fields DEF GoodEvent
  <2>2. version \in [Names -> 0 .. MaxMoves] /\ seen \in [Names -> 0 .. MaxMoves]
    BY DEF IInv, TypeOK, WireTypeOK
  <2> QED
    BY <1>1, <2>1, <2>2, MovesAssumption
<1> QED
  BY <1>2, <1>3, <1>4, <1>5, <1>6, <1>7, <1>8 DEF IInv, TypeOK

LEMMA InvDisconnected == IInv /\ OnDisconnected => IInv'
<1> SUFFICES ASSUME IInv, OnDisconnected PROVE IInv'
  OBVIOUS
<1>1. /\ Takes("disconnected") /\ selfGuid' = FALSE
      /\ stage' = IF stage = "glue" THEN "glue" ELSE "leaving"
      /\ ClearPending
      /\ UNCHANGED <<cmds, logoutState, exitVars, dialog, posted, seen>>
  BY DEF OnDisconnected
<1>2. /\ replies \in Seq(Messages(Events)) /\ replies # <<>> /\ Head(replies).kind = "disconnected"
      /\ replies' = Tail(replies) /\ link' = link /\ inFrame' = inFrame /\ acts' = acts
      /\ GoodEvents(replies', version') /\ Counted' /\ version' = version
      /\ (cmds' \in Seq(Messages(Commands)) => WireTypeOK')
  BY <1>1, Taken
<1>3. Session(replies', stage', link')
  <2>1. Head(replies).kind \in Ends /\ Session(replies, stage, link)
    BY <1>2 DEF Ends, IInv
  <2> QED
    BY <1>1, <1>2, <2>1, ReadEnd
<1>4. WireTypeOK' /\ GoodCommands(cmds')
  BY <1>1, <1>2 DEF IInv, TypeOK, WireTypeOK
<1>5. LogoutTypeOK'
  BY <1>1 DEF IInv, TypeOK, LogoutTypeOK, logoutState, exitVars
<1>6. CacheTypeOK'
  BY <1>1 DEF IInv, TypeOK, CacheTypeOK, ClearPending
<1> QED
  BY <1>1, <1>2, <1>3, <1>4, <1>5, <1>6 DEF IInv, TypeOK

----------------------------------------------------------------------------
(* The steps off the application's thread, and the player's.               *)

\* What none of them touches beside the wire.
LEMMA OffThread ==
    ASSUME IInv, Unmoved, WireTypeOK', Session(replies', stage, link'),
           GoodCommands(cmds'), GoodEvents(replies', version'), Counted'
    PROVE  IInv'
<1>1. /\ UNCHANGED <<quitting, logoutPending, worldHandle, selfGuid, exitPosted, loggedOut, exiting>>
      /\ UNCHANGED <<dialog, answered, pending, refused, stage, inFrame, posted, seen, acts>>
  BY DEF Unmoved, logoutVars, logoutState, exitVars, cacheVars, appVars
<1>2. LogoutTypeOK'
  BY <1>1 DEF IInv, TypeOK, LogoutTypeOK
<1>3. CacheTypeOK'
  BY <1>1 DEF IInv, TypeOK, CacheTypeOK
<1> QED
  BY <1>1, <1>2, <1>3 DEF IInv, TypeOK

\* A link that ends tells the app so.
LEMMA ToldAndParked ==
    ASSUME IInv, link = "live", NEW last \in Ends
    PROVE  LET s == Append(Append(replies, Plain(last)), Plain("disconnected")) IN
             /\ replies \o <<Plain(last), Plain("disconnected")>> = s
             /\ s \in Seq(Messages(Events)) /\ GoodEvents(s, version)
             /\ \A l : l # "live" => Session(s, stage, l)
<1> DEFINE r == Append(replies, Plain(last))
<1>1. /\ Plain(last) \in Messages(Events) /\ Plain(last).kind = last
      /\ Plain("disconnected") \in Messages(Events) /\ Plain("disconnected").kind = "disconnected"
  BY Built DEF Ends, Events
<1>2. replies \in Seq(Messages(Events)) /\ Session(replies, stage, link) /\ GoodEvents(replies, version)
  BY DEF IInv, TypeOK, WireTypeOK
<1>3. r \in Seq(Messages(Events)) /\ GoodEvents(r, version)
  BY <1>1, <1>2, Grown, EventsGrow DEF GoodEvent, Ends
<1>4. \A l : l # "live" => Session(r, stage, l)
  BY <1>1, <1>2, EndsNow
<1>5. replies \o <<Plain(last), Plain("disconnected")>> = Append(r, Plain("disconnected"))
  BY <1>1, <1>2, TwoMore
<1> HIDE DEF r
<1>6. Append(r, Plain("disconnected")) \in Seq(Messages(Events)) /\ GoodEvents(Append(r, Plain("disconnected")), version)
  BY <1>1, <1>3, Grown, EventsGrow DEF GoodEvent
<1>7. \A l : l # "live" => Session(Append(r, Plain("disconnected")), stage, l)
  BY <1>1, <1>3, <1>4, EndsNow
<1> QED
  BY <1>5, <1>6, <1>7 DEF r

\* A live session says one thing more.
LEMMA ToldMore ==
    ASSUME IInv, link = "live", NEW e \in Messages(Events), e.kind \notin Ends \cup {"connected"},
           GoodEvent(e, version)
    PROVE  /\ Append(replies, e) \in Seq(Messages(Events))
           /\ GoodEvents(Append(replies, e), version)
           /\ Session(Append(replies, e), stage, "live")
<1>1. replies \in Seq(Messages(Events)) /\ Session(replies, stage, "live") /\ GoodEvents(replies, version)
  BY DEF IInv, TypeOK, WireTypeOK
<1> QED
  BY <1>1, Grown, GoesOn, EventsGrow

LEMMA InvDropCommand == IInv /\ DropCommand /\ Unmoved => IInv'
<1> SUFFICES ASSUME IInv, DropCommand, Unmoved PROVE IInv'
  OBVIOUS
<1>1. /\ cmds # <<>> /\ cmds' = Tail(cmds)
      /\ UNCHANGED <<link, server, porting, version, moves, replies>>
  BY DEF DropCommand, serverVars
<1>2. cmds \in Seq(Messages(Commands)) /\ GoodCommands(cmds)
  BY DEF IInv, TypeOK, WireTypeOK
<1>3. cmds' \in Seq(Messages(Commands)) /\ GoodCommands(cmds')
  BY <1>1, <1>2, Shrunk, CommandsShrink
<1>4. WireTypeOK' /\ Counted' /\ GoodEvents(replies', version') /\ Session(replies', stage, link')
  BY <1>1, <1>3 DEF IInv, TypeOK, WireTypeOK, Counted
<1> QED
  BY <1>3, <1>4, OffThread

\* The server reads a command.
LEMMA ServerReads ==
    ASSUME IInv, NEW kind, Reads(kind)
    PROVE  /\ link = "live" /\ server \in {"in", "camping"}
           /\ cmds \in Seq(Messages(Commands)) /\ cmds # <<>> /\ cmds' = Tail(cmds)
           /\ cmds' \in Seq(Messages(Commands)) /\ GoodCommands(cmds')
           /\ Head(cmds).kind = kind /\ (kind = "query" => Head(cmds).key \in Keys)
<1>1. link = "live" /\ server \in {"in", "camping"} /\ cmds # <<>> /\ cmds' = Tail(cmds) /\ Head(cmds).kind = kind
  BY DEF Reads
<1>2. cmds \in Seq(Messages(Commands)) /\ GoodCommands(cmds)
  BY DEF IInv, TypeOK, WireTypeOK
<1> QED
  BY <1>1, <1>2, Shrunk, CommandsShrink

LEMMA InvServeQuery == IInv /\ ServeQuery /\ Unmoved => IInv'
<1> SUFFICES ASSUME IInv, ServeQuery, Unmoved PROVE IInv'
  OBVIOUS
<1> DEFINE k == Head(cmds).key
           rec == Msg("record", k, IF k \in Names THEN version[k] ELSE 0)
           ref == Msg("refusal", k, 0)
<1>1. /\ link = "live" /\ cmds' \in Seq(Messages(Commands)) /\ GoodCommands(cmds') /\ k \in Keys
  BY ServerReads DEF ServeQuery
<1>2. /\ replies' = Append(replies, rec) \/ replies' = Append(replies, ref)
      /\ UNCHANGED <<link, server, porting, version, moves>>
  BY DEF ServeQuery, serverVars
<1>3. (IF k \in Names THEN version[k] ELSE 0) \in 0 .. Top
  <2>1. version \in [Names -> 0 .. MaxMoves]
    BY DEF IInv, TypeOK, WireTypeOK
  <2> QED
    BY <2>1, MovesAssumption DEF Top
<1>4. /\ rec \in Messages(Events) /\ rec.kind = "record" /\ rec.key = k
      /\ rec.v = IF k \in Names THEN version[k] ELSE 0
      /\ ref \in Messages(Events) /\ ref.kind = "refusal" /\ ref.key = k
  <2>1. 0 \in 0 .. Top
    BY MovesAssumption DEF Top
  <2>2. "record" \in Events /\ "refusal" \in Events /\ k \in Keys \cup {NoKey}
    BY <1>1 DEF Events
  <2> QED
    BY <1>3, <2>1, <2>2, Built
<1> HIDE DEF k, rec, ref
<1>5. GoodEvent(rec, version) /\ GoodEvent(ref, version)
  <2>1. (IF k \in Names THEN version[k] ELSE 0) <= (IF k \in Names THEN version[k] ELSE 0)
    BY <1>3, MovesAssumption DEF Top
  <2> QED
    BY <1>1, <1>4, <2>1 DEF GoodEvent
<1>6. /\ rec.kind \notin Ends \cup {"connected"} /\ ref.kind \notin Ends \cup {"connected"}
  BY <1>4 DEF Ends
<1>7. replies' \in Seq(Messages(Events)) /\ GoodEvents(replies', version) /\ Session(replies', stage, "live")
  BY <1>1, <1>2, <1>4, <1>5, <1>6, ToldMore
<1>8. WireTypeOK' /\ Counted'
  BY <1>1, <1>2, <1>7 DEF IInv, TypeOK, WireTypeOK, Counted
<1> QED
  BY <1>1, <1>2, <1>7, <1>8, OffThread

LEMMA InvServeLogout == IInv /\ ServeLogout /\ Unmoved => IInv'
<1> SUFFICES ASSUME IInv, ServeLogout, Unmoved PROVE IInv'
  OBVIOUS
<1>1. /\ link = "live" /\ server \in {"in", "camping"}
      /\ cmds' \in Seq(Messages(Commands)) /\ GoodCommands(cmds')
  BY ServerReads DEF ServeLogout
<1>2. version' = version /\ moves' = moves
  BY DEF ServeLogout
<1>3. ASSUME NEW n \in {Timed, Instant, Refused}
      PROVE  /\ Append(replies, Msg("response", NoKey, n)) \in Seq(Messages(Events))
             /\ GoodEvents(Append(replies, Msg("response", NoKey, n)), version)
             /\ Session(Append(replies, Msg("response", NoKey, n)), stage, "live")
  <2>1. n \in 0 .. Top /\ "response" \in Events /\ NoKey \in Keys \cup {NoKey}
    BY MovesAssumption DEF Timed, Instant, Refused, Top, Events
  <2>2. /\ Msg("response", NoKey, n) \in Messages(Events)
        /\ Msg("response", NoKey, n).kind = "response"
    BY <2>1, Built
  <2>3. /\ GoodEvent(Msg("response", NoKey, n), version)
        /\ Msg("response", NoKey, n).kind \notin Ends \cup {"connected"}
    BY <2>2 DEF GoodEvent, Ends
  <2> QED
    BY <1>1, <2>2, <2>3, ToldMore
<1>4. CASE /\ \E n \in {Timed, Refused} : replies' = Append(replies, Msg("response", NoKey, n))
           /\ server' \in {"in", "camping"} /\ link' = link /\ porting' = porting
  <2>1. replies' \in Seq(Messages(Events)) /\ GoodEvents(replies', version) /\ Session(replies', stage, "live")
    BY <1>3, <1>4
  <2>2. WireTypeOK' /\ Counted'
    BY <1>1, <1>2, <1>4, <2>1 DEF IInv, TypeOK, WireTypeOK, Counted
  <2> QED
    BY <1>1, <1>2, <1>4, <2>1, <2>2, OffThread
<1>5. CASE /\ replies' = Append(replies, Msg("response", NoKey, Instant)) \o Completed
           /\ server' = "out" /\ link' = "parked" /\ porting' = FALSE
  <2> DEFINE r == Append(replies, Msg("response", NoKey, Instant))
             q == Append(r, Plain("loggedOut"))
             t == Append(q, Plain("disconnected"))
  <2>1. /\ r \in Seq(Messages(Events)) /\ GoodEvents(r, version) /\ Session(r, stage, "live")
    BY <1>3
  <2> HIDE DEF r
  <2>2. /\ Plain("loggedOut") \in Messages(Events) /\ Plain("loggedOut").kind = "loggedOut"
        /\ Plain("disconnected") \in Messages(Events) /\ Plain("disconnected").kind = "disconnected"
    BY Built DEF Events
  <2>3. q \in Seq(Messages(Events)) /\ GoodEvents(q, version)
    BY <2>1, <2>2, Grown, EventsGrow DEF GoodEvent
  <2>4. Session(q, stage, "parked")
    BY <2>1, <2>2, EndsNow DEF Ends
  <2> HIDE DEF q
  <2>5. t \in Seq(Messages(Events)) /\ GoodEvents(t, version) /\ Session(t, stage, "parked")
    BY <2>2, <2>3, <2>4, Grown, EventsGrow, EndsNow DEF GoodEvent
  <2>6. replies' = t
    BY <1>5, <2>1, <2>2, TwoMore DEF Completed, r, q
  <2> HIDE DEF t
  <2>7. WireTypeOK' /\ Counted'
    BY <1>1, <1>2, <1>5, <2>5, <2>6 DEF IInv, TypeOK, WireTypeOK, Counted
  <2> QED
    BY <1>1, <1>2, <1>5, <2>5, <2>6, <2>7, OffThread
<1> QED
  BY <1>1, <1>4, <1>5 DEF ServeLogout

\* A step of the server's on a live link that keeps it and tells one thing more.
LEMMA KeepsLink ==
    ASSUME IInv, Unmoved, link = "live", link' = "live", NEW kind \in Events,
           kind \notin Ends \cup {"connected", "record", "refusal", "invalidate"},
           server' \in {"entering", "in", "camping"}, porting' \in BOOLEAN,
           replies' = Append(replies, Plain(kind)),
           cmds' \in Seq(Messages(Commands)), GoodCommands(cmds'),
           version' = version, moves' \in 0 .. MaxMoves, moves' >= moves
    PROVE  IInv'
<1>1. /\ Plain(kind) \in Messages(Events) /\ Plain(kind).kind = kind
  BY Built
<1>2. GoodEvent(Plain(kind), version)
  BY <1>1 DEF GoodEvent
<1>3. replies' \in Seq(Messages(Events)) /\ GoodEvents(replies', version) /\ Session(replies', stage, "live")
  BY <1>1, <1>2, ToldMore
<1>4. WireTypeOK'
  BY <1>3 DEF IInv, TypeOK, WireTypeOK
<1>5. Counted'
  <2>1. version \in [Names -> 0 .. MaxMoves] /\ moves \in 0 .. MaxMoves /\ \A k \in Names : version[k] <= moves
    BY DEF IInv, TypeOK, WireTypeOK, Counted
  <2> QED
    BY <2>1, MovesAssumption DEF Counted
<1> QED
  BY <1>3, <1>4, <1>5, OffThread

\* A step that ends the session on a live link, its end told.
LEMMA EndsLink ==
    ASSUME IInv, Unmoved, link = "live", link' \in {"parked", "dead"}, NEW last \in Ends,
           server' = "out", porting' = FALSE \/ porting' = porting,
           \/ replies' = replies \o <<Plain(last), Plain("disconnected")>>
           \/ replies' = Append(replies, Plain("disconnected")),
           cmds' \in Seq(Messages(Commands)), GoodCommands(cmds'),
           version' = version, moves' = moves
    PROVE  IInv'
<1>1. /\ Plain("disconnected") \in Messages(Events) /\ Plain("disconnected").kind = "disconnected"
  BY Built DEF Events
<1>2. replies \in Seq(Messages(Events)) /\ Session(replies, stage, link) /\ GoodEvents(replies, version)
  BY DEF IInv, TypeOK, WireTypeOK
<1>3. CASE replies' = replies \o <<Plain(last), Plain("disconnected")>>
  <2>1. replies' \in Seq(Messages(Events)) /\ GoodEvents(replies', version) /\ Session(replies', stage, link')
    BY <1>3, ToldAndParked
  <2>2. WireTypeOK' /\ Counted'
    BY <2>1 DEF IInv, TypeOK, WireTypeOK, Counted
  <2> QED
    BY <2>1, <2>2, OffThread
<1>4. CASE replies' = Append(replies, Plain("disconnected"))
  <2>1. replies' \in Seq(Messages(Events)) /\ GoodEvents(replies', version)
    BY <1>1, <1>2, <1>4, Grown, EventsGrow DEF GoodEvent
  <2>2. Session(replies', stage, link')
    BY <1>1, <1>2, <1>4, EndsNow DEF Ends
  <2>3. WireTypeOK' /\ Counted'
    BY <2>1 DEF IInv, TypeOK, WireTypeOK, Counted
  <2> QED
    BY <2>1, <2>2, <2>3, OffThread
<1> QED
  BY <1>3, <1>4

LEMMA InvServeCancel == IInv /\ ServeCancel /\ Unmoved => IInv'
<1> SUFFICES ASSUME IInv, ServeCancel, Unmoved PROVE IInv'
  OBVIOUS
<1>1. /\ link = "live" /\ cmds' \in Seq(Messages(Commands)) /\ GoodCommands(cmds')
  BY ServerReads DEF ServeCancel
<1>2. /\ server' = "in" /\ replies' = Append(replies, Plain("logoutCancelled"))
      /\ UNCHANGED <<link, porting, version, moves>> /\ porting \in BOOLEAN /\ moves \in 0 .. MaxMoves
  BY DEF ServeCancel, IInv, TypeOK, WireTypeOK
<1> QED
  BY <1>1, <1>2, KeepsLink, MovesAssumption DEF Events, Ends

LEMMA InvServeForce == IInv /\ ServeForce /\ Unmoved => IInv'
<1> SUFFICES ASSUME IInv, ServeForce, Unmoved PROVE IInv'
  OBVIOUS
<1>1. /\ link = "live" /\ cmds' \in Seq(Messages(Commands)) /\ GoodCommands(cmds')
  BY ServerReads DEF ServeForce
<1>2. /\ server' = "out" /\ link' = "parked" /\ porting' = FALSE /\ version' = version /\ moves' = moves
      /\ replies' = replies \o <<Plain("loggedOut"), Plain("disconnected")>> /\ "loggedOut" \in Ends
  BY DEF ServeForce, Completed, Ends
<1> QED
  BY <1>1, <1>2, EndsLink

LEMMA InvServeAck == IInv /\ ServeAck /\ Unmoved => IInv'
<1> SUFFICES ASSUME IInv, ServeAck, Unmoved PROVE IInv'
  OBVIOUS
<1>1. /\ link = "live" /\ server \in {"in", "camping"}
      /\ cmds' \in Seq(Messages(Commands)) /\ GoodCommands(cmds')
  BY ServerReads DEF ServeAck
<1>2. /\ porting' = FALSE /\ UNCHANGED <<link, server, version, moves>> /\ moves \in 0 .. MaxMoves
      /\ replies' = Append(replies, Plain("arrival")) \/ replies' = replies
  BY DEF ServeAck, IInv, TypeOK, WireTypeOK
<1>3. CASE replies' = Append(replies, Plain("arrival"))
  <2>1. /\ "arrival" \in Events \ (Ends \cup {"connected", "record", "refusal", "invalidate"})
        /\ porting' \in BOOLEAN
    BY <1>2 DEF Events, Ends
  <2>3. moves' = moves /\ moves \in 0 .. MaxMoves
    BY <1>2
  <2>4. moves' \in 0 .. MaxMoves /\ moves' >= moves
    BY <2>3, MovesAssumption
  <2>2. server' \in {"in", "camping"} /\ link' = "live" /\ version' = version
    BY <1>1, <1>2
  <2> QED
    BY <1>1, <1>3, <2>1, <2>2, <2>4, KeepsLink
<1>4. CASE replies' = replies
  <2>1. WireTypeOK' /\ Counted' /\ GoodEvents(replies', version') /\ Session(replies', stage, link')
    BY <1>1, <1>2, <1>4 DEF IInv, TypeOK, WireTypeOK, Counted
  <2> QED
    BY <1>1, <2>1, OffThread
<1> QED
  BY <1>2, <1>3, <1>4

LEMMA InvAdmit == IInv /\ Admit /\ Unmoved => IInv'
<1> SUFFICES ASSUME IInv, Admit, Unmoved PROVE IInv'
  OBVIOUS
<1>1. /\ server = "entering" /\ link = "live" /\ UNCHANGED <<cmds, porting, version, moves>>
      /\ cmds' \in Seq(Messages(Commands)) /\ GoodCommands(cmds')
      /\ porting \in BOOLEAN /\ moves \in 0 .. MaxMoves
  BY DEF Admit, IInv, TypeOK, WireTypeOK
<1>2. CASE server' = "in" /\ link' = link /\ replies' = Append(replies, Plain("arrival"))
  BY <1>1, <1>2, KeepsLink, MovesAssumption DEF Events, Ends
<1>3. CASE server' = "in" /\ link' = link /\ replies' = replies \o <<Plain("worldport"), Plain("arrival")>>
  <2> DEFINE r == Append(replies, Plain("worldport"))
  <2>1. /\ Plain("worldport") \in Messages(Events) /\ Plain("worldport").kind = "worldport"
        /\ Plain("arrival") \in Messages(Events) /\ Plain("arrival").kind = "arrival"
    BY Built DEF Events
  <2>2. GoodEvent(Plain("worldport"), version) /\ GoodEvent(Plain("arrival"), version)
    BY <2>1 DEF GoodEvent
  <2>3. r \in Seq(Messages(Events)) /\ GoodEvents(r, version) /\ Session(r, stage, "live")
    BY <1>1, <2>1, <2>2, ToldMore DEF Ends
  <2>4. replies' = Append(r, Plain("arrival"))
    BY <1>3, <2>1, TwoMore DEF IInv, TypeOK, WireTypeOK
  <2> HIDE DEF r
  <2>5. replies' \in Seq(Messages(Events)) /\ GoodEvents(replies', version) /\ Session(replies', stage, "live")
    BY <2>1, <2>2, <2>3, <2>4, Grown, EventsGrow, GoesOn DEF Ends
  <2>6. WireTypeOK' /\ Counted'
    BY <1>1, <1>3, <2>5 DEF IInv, TypeOK, WireTypeOK, Counted
  <2> QED
    BY <1>1, <1>3, <2>5, <2>6, OffThread
<1>4. CASE /\ server' = "out" /\ link' = "parked"
           /\ replies' = replies \o <<Plain("loginFailed"), Plain("disconnected")>>
  BY <1>1, <1>4, EndsLink DEF Ends
<1> QED
  BY <1>2, <1>3, <1>4 DEF Admit

LEMMA InvCampEnds == IInv /\ CampEnds /\ Unmoved => IInv'
<1> SUFFICES ASSUME IInv, CampEnds, Unmoved PROVE IInv'
  OBVIOUS
<1>1. /\ server = "camping" /\ link = "live" /\ server' = "out" /\ link' = "parked" /\ porting' = FALSE
      /\ UNCHANGED <<cmds, version, moves>>
      /\ cmds' \in Seq(Messages(Commands)) /\ GoodCommands(cmds')
      /\ replies' = replies \o <<Plain("loggedOut"), Plain("disconnected")>> /\ "loggedOut" \in Ends
  BY DEF CampEnds, Completed, Ends, IInv, TypeOK, WireTypeOK
<1> QED
  BY <1>1, EndsLink

LEMMA InvLoseLink == IInv /\ LoseLink /\ Unmoved => IInv'
<1> SUFFICES ASSUME IInv, LoseLink, Unmoved PROVE IInv'
  OBVIOUS
<1>1. /\ link = "live" /\ server' = "out" /\ link' = "dead" /\ porting' = FALSE
      /\ UNCHANGED <<cmds, version, moves>>
      /\ cmds' \in Seq(Messages(Commands)) /\ GoodCommands(cmds')
      /\ replies' = Append(replies, Plain("disconnected")) /\ "disconnected" \in Ends
  BY DEF LoseLink, Ends, IInv, TypeOK, WireTypeOK
<1> QED
  BY <1>1, EndsLink

LEMMA InvTransfer == IInv /\ Transfer /\ Unmoved => IInv'
<1> SUFFICES ASSUME IInv, Transfer, Unmoved PROVE IInv'
  OBVIOUS
<1>1. /\ server \in {"in", "camping"} /\ link = "live" /\ moves < MaxMoves
      /\ porting' = TRUE /\ moves' = moves + 1
      /\ replies' = Append(replies, Plain("newWorld"))
      /\ UNCHANGED <<link, server, cmds, version>>
      /\ cmds' \in Seq(Messages(Commands)) /\ GoodCommands(cmds') /\ moves \in 0 .. MaxMoves
  BY DEF Transfer, IInv, TypeOK, WireTypeOK
<1>2. moves' \in 0 .. MaxMoves /\ moves' >= moves
  BY <1>1, MovesAssumption
<1> QED
  BY <1>1, <1>2, KeepsLink DEF Events, Ends

LEMMA InvRename == ASSUME NEW k \in Names PROVE IInv /\ Rename(k) /\ Unmoved => IInv'
<1> SUFFICES ASSUME IInv, Rename(k), Unmoved PROVE IInv'
  OBVIOUS
<1> DEFINE e == Msg("invalidate", k, version[k] + 1)
<1>1. /\ server \in {"in", "camping"} /\ link = "live" /\ moves < MaxMoves
      /\ moves' = moves + 1 /\ moves \in 0 .. MaxMoves
      /\ version \in [Names -> 0 .. MaxMoves]
      /\ version' = [version EXCEPT ![k] = version[k] + 1]
      /\ replies' = Append(replies, e)
      /\ UNCHANGED <<link, server, porting, cmds>>
      /\ cmds' \in Seq(Messages(Commands)) /\ GoodCommands(cmds')
  BY DEF Rename, IInv, TypeOK, WireTypeOK
<1>2. /\ version[k] \in Nat /\ version[k] + 1 \in 0 .. MaxMoves
      /\ moves' \in 0 .. MaxMoves
      /\ \A x \in Names : version[x] <= moves
  <2>1. \A x \in Names : version[x] <= moves
    BY DEF IInv, Counted
  <2> QED
    BY <1>1, <2>1, MovesAssumption
<1>3. /\ version' \in [Names -> 0 .. MaxMoves] /\ Counted'
      /\ \A x \in Names : version[x] <= version'[x]
      /\ version'[k] = version[k] + 1
  BY <1>1, <1>2, MovesAssumption DEF Counted
<1>4. e \in Messages(Events) /\ e.kind = "invalidate" /\ e.key = k /\ e.v = version[k] + 1
  <2>1. version[k] + 1 \in 0 .. Top /\ "invalidate" \in Events /\ k \in Keys \cup {NoKey}
    BY <1>2, MovesAssumption DEF Top, Events, Keys
  <2>2. \A n \in 0 .. Top : /\ Msg("invalidate", k, n) \in Messages(Events)
                            /\ Msg("invalidate", k, n).kind = "invalidate"
                            /\ Msg("invalidate", k, n).key = k /\ Msg("invalidate", k, n).v = n
    BY <2>1, Built
  <2> QED
    BY <2>1, <2>2
<1> HIDE DEF e
<1>5. /\ replies \in Seq(Messages(Events)) /\ Session(replies, stage, "live") /\ GoodEvents(replies, version)
  BY <1>1 DEF IInv, TypeOK, WireTypeOK
<1>6. GoodEvents(replies, version')
  <2> SUFFICES ASSUME NEW i \in DOMAIN replies PROVE GoodEvent(replies[i], version')
    BY DEF GoodEvents
  <2>1. replies[i] \in Messages(Events) /\ GoodEvent(replies[i], version)
    BY <1>5, LenProperties, ElementOfSeq DEF GoodEvents
  <2>2. replies[i].v \in Nat
    BY <2>1, Fields
  <2>3. \A x \in Names : version[x] \in Nat /\ version'[x] \in Nat
    BY <1>1, <1>3
  <2> QED
    BY <1>3, <2>1, <2>2, <2>3 DEF GoodEvent
<1>7. GoodEvent(e, version')
  BY <1>2, <1>3, <1>4 DEF GoodEvent
<1>8. /\ replies' \in Seq(Messages(Events)) /\ GoodEvents(replies', version')
      /\ Session(replies', stage, "live")
  <2>1. e.kind \notin Ends \cup {"connected"}
    BY <1>4 DEF Ends
  <2> QED
    BY <1>1, <1>4, <1>5, <1>6, <1>7, <2>1, Grown, GoesOn, EventsGrow
<1>9. WireTypeOK'
  BY <1>1, <1>2, <1>3, <1>8 DEF IInv, TypeOK, WireTypeOK
<1> QED
  BY <1>1, <1>3, <1>8, <1>9, OffThread

LEMMA InvPick == IInv /\ Pick => IInv'
<1> SUFFICES ASSUME IInv, Pick PROVE IInv'
  OBVIOUS
<1>1. /\ stage = "glue" /\ ~Has(replies, "connected") /\ acts < MaxActs /\ acts' = acts + 1
      /\ link' = "live" /\ server' = "entering" /\ replies' = Append(replies, Plain("connected"))
      /\ UNCHANGED <<cmds, porting, version, moves>>
      /\ UNCHANGED <<quitting, logoutPending, worldHandle, selfGuid, exitPosted, loggedOut, exiting>>
      /\ UNCHANGED <<dialog, answered, pending, refused, stage, inFrame, posted, seen>>
  BY DEF Pick, Enter, logoutVars, logoutState, exitVars, cacheVars, appVars
<1>2. acts' \in 0 .. MaxActs
  BY <1>1, ActsAssumption DEF IInv, TypeOK
<1>3. replies \in Seq(Messages(Events)) /\ Session(replies, "glue", link) /\ GoodEvents(replies, version)
  BY <1>1 DEF IInv, TypeOK, WireTypeOK
<1>4. /\ Plain("connected") \in Messages(Events) /\ Plain("connected").kind = "connected"
  BY Built DEF Events
<1>5. replies' \in Seq(Messages(Events)) /\ GoodEvents(replies', version')
  BY <1>1, <1>3, <1>4, Grown, EventsGrow DEF GoodEvent
<1>6. Session(replies', stage', link')
  BY <1>1, <1>3, <1>4, Opens
<1>7. WireTypeOK' /\ Counted'
  BY <1>1, <1>5 DEF IInv, TypeOK, WireTypeOK, Counted
<1>8. LogoutTypeOK'
  BY <1>1 DEF IInv, TypeOK, LogoutTypeOK
<1>9. CacheTypeOK'
  BY <1>1 DEF IInv, TypeOK, CacheTypeOK
<1> QED
  BY <1>1, <1>2, <1>5, <1>6, <1>7, <1>8, <1>9 DEF IInv, TypeOK

\* What a verb or the dialog's end leaves to check.
LEMMA OnThread ==
    ASSUME IInv, UNCHANGED <<serverVars, replies, cacheVars, appVars, seen>>,
           acts' \in 0 .. MaxActs, stage # "glue",
           cmds' \in Seq(Messages(Commands)), GoodCommands(cmds'), LogoutTypeOK'
    PROVE  IInv'
<1>1. /\ UNCHANGED <<link, server, porting, version, moves, replies, answered, pending, refused>>
      /\ UNCHANGED <<stage, inFrame, posted, seen>>
  BY DEF serverVars, cacheVars, appVars
<1>2. WireTypeOK' /\ Counted' /\ CacheTypeOK'
  BY <1>1 DEF IInv, TypeOK, WireTypeOK, Counted, CacheTypeOK
<1> QED
  BY <1>1, <1>2 DEF IInv, TypeOK

LEMMA InvVerb == IInv /\ Verb => IInv'
<1> SUFFICES ASSUME IInv, Verb PROVE IInv'
  OBVIOUS
<1>1. /\ stage # "glue" /\ acts < MaxActs /\ acts' = acts + 1
      /\ UNCHANGED <<serverVars, replies, cacheVars, appVars, seen>>
  BY DEF Verb, Runs
<1>2. acts' \in 0 .. MaxActs
  BY <1>1, ActsAssumption DEF IInv, TypeOK
<1>3. LogoutTypeOK /\ cmds \in Seq(Messages(Commands)) /\ GoodCommands(cmds)
  BY DEF IInv, TypeOK, WireTypeOK
<1>4. ASSUME NEW quit \in BOOLEAN, LogoutVerb(quit) PROVE IInv'
  <2>1. LogoutTypeOK'
    BY <1>3, <1>4 DEF LogoutVerb, LogoutTypeOK
  <2>2. cmds' = Append(cmds, Plain("logout")) \/ cmds' = cmds
    BY <1>4 DEF LogoutVerb, Send
  <2> QED
    BY <1>1, <1>2, <1>3, <2>1, <2>2, Sent, OnThread DEF Commands
<1>5. CASE CancelLogout
  <2>1. LogoutTypeOK'
    BY <1>3, <1>5 DEF CancelLogout, LogoutTypeOK, exitVars
  <2>2. cmds' = Append(cmds, Plain("logoutCancel"))
    BY <1>5 DEF CancelLogout, Send
  <2> QED
    BY <1>1, <1>2, <1>3, <2>1, <2>2, Sent, OnThread DEF Commands
<1>6. CASE ForceQuit
  <2>1. LogoutTypeOK' /\ cmds' = cmds
    BY <1>3, <1>6 DEF ForceQuit, LogoutTypeOK, logoutState
  <2> QED
    BY <1>1, <1>2, <1>3, <2>1, OnThread
<1>7. CASE ForceLogout
  <2>1. LogoutTypeOK'
    BY <1>3, <1>7 DEF ForceLogout, LogoutTypeOK, exitVars
  <2>2. cmds' = Append(cmds, Plain("forceLogout"))
    BY <1>7 DEF ForceLogout, Send
  <2> QED
    BY <1>1, <1>2, <1>3, <2>1, <2>2, Sent, OnThread DEF Commands
<1>8. CASE CloseDialog
  <2>1. LogoutTypeOK'
    BY <1>3, <1>8 DEF CloseDialog, LogoutTypeOK, exitVars
  <2>2. cmds' = Append(cmds, Plain("logoutCancel"))
    BY <1>8 DEF CloseDialog, Send
  <2> QED
    BY <1>1, <1>2, <1>3, <2>1, <2>2, Sent, OnThread DEF Commands
<1> QED
  BY <1>4, <1>5, <1>6, <1>7, <1>8 DEF Verb

LEMMA InvExpiry == IInv /\ Expiry => IInv'
<1> SUFFICES ASSUME IInv, Expiry PROVE IInv'
  OBVIOUS
<1>1. /\ stage # "glue" /\ acts' = acts /\ cmds' = cmds
      /\ UNCHANGED <<serverVars, replies, cacheVars, appVars, seen>>
  BY DEF Expiry, Runs, DialogExpires
<1>2. LogoutTypeOK'
  BY DEF Expiry, DialogExpires, logoutState, exitVars, IInv, TypeOK, LogoutTypeOK
<1>3. acts' \in 0 .. MaxActs /\ cmds' \in Seq(Messages(Commands)) /\ GoodCommands(cmds')
  BY <1>1 DEF IInv, TypeOK, WireTypeOK
<1> QED
  BY <1>1, <1>2, <1>3, OnThread

LEMMA InvAsk == ASSUME NEW k \in Keys, NEW relook \in BOOLEAN PROVE IInv /\ Ask(k, relook) => IInv'
<1> SUFFICES ASSUME IInv, Ask(k, relook) PROVE IInv'
  OBVIOUS
<1>1. /\ stage # "glue" /\ acts < MaxActs /\ acts' = acts + 1
      /\ answered' = answered /\ refused' = refused \ {k} /\ pending' = pending \cup {k}
      /\ cmds' = cmds \/ cmds' = Append(cmds, Query(k))
      /\ UNCHANGED <<link, server, porting, version, moves, replies, stage, inFrame, posted, seen>>
      /\ UNCHANGED <<quitting, logoutPending, worldHandle, selfGuid, exitPosted, loggedOut, exiting, dialog>>
  BY DEF Ask, Runs, AskIf, serverVars, logoutVars, logoutState, exitVars, appVars
<1>2. acts' \in 0 .. MaxActs
  BY <1>1, ActsAssumption DEF IInv, TypeOK
<1>3. cmds \in Seq(Messages(Commands)) /\ GoodCommands(cmds)
  BY DEF IInv, TypeOK, WireTypeOK
<1>4. Query(k) \in Messages(Commands) /\ Query(k).kind = "query" /\ Query(k).key = k
  BY Built
<1>5. cmds' \in Seq(Messages(Commands)) /\ GoodCommands(cmds')
  <2>1. Append(cmds, Query(k)) \in Seq(Messages(Commands))
    BY <1>3, <1>4, Grown
  <2>2. GoodCommands(Append(cmds, Query(k)))
    BY <1>3, <1>4, CommandsGrow
  <2> QED
    BY <1>1, <1>3, <2>1, <2>2
<1>6. WireTypeOK' /\ Counted'
  BY <1>1, <1>5 DEF IInv, TypeOK, WireTypeOK, Counted
<1>7. LogoutTypeOK'
  BY <1>1 DEF IInv, TypeOK, LogoutTypeOK
<1>8. CacheTypeOK'
  BY <1>1 DEF IInv, TypeOK, CacheTypeOK
<1> QED
  BY <1>1, <1>2, <1>5, <1>6, <1>7, <1>8 DEF IInv, TypeOK

\* One step, whichever it is.
LEMMA InvNext == IInv /\ [Next]_vars => IInv'
<1> SUFFICES ASSUME IInv, [Next]_vars PROVE IInv'
  OBVIOUS
<1>1. ASSUME Dispatch PROVE IInv'
  BY <1>1, InvConnected, InvWorldport, InvNewWorld, InvArrival, InvResponse, InvLogoutCancelled,
     InvLoggedOut, InvLoginFailed, InvDisconnected, InvRecord, InvRefusal, InvInvalidate DEF Dispatch
<1>2. ASSUME Answers PROVE IInv'
  BY <1>2, InvServeQuery, InvServeLogout, InvServeCancel, InvServeForce, InvServeAck, InvAdmit,
     InvCampEnds DEF Answers, Serve
<1>3. ASSUME Outside PROVE IInv'
  BY <1>3, InvDropCommand, InvTransfer, InvLoseLink, InvRename DEF Outside
<1>4. ASSUME NEW k \in Keys, NEW relook \in BOOLEAN, Ask(k, relook) PROVE IInv'
  BY <1>4, InvAsk
<1>5. CASE UNCHANGED vars
  <2>1. /\ UNCHANGED <<link, server, porting, version, moves, cmds, replies>>
        /\ UNCHANGED <<quitting, logoutPending, worldHandle, selfGuid, exitPosted, loggedOut, exiting>>
        /\ UNCHANGED <<dialog, answered, pending, refused, stage, inFrame, posted, seen, acts>>
    BY <1>5 DEF vars, wireVars, serverVars, logoutVars, logoutState, exitVars, cacheVars, appVars
  <2>2. WireTypeOK' /\ Counted'
    BY <2>1 DEF IInv, TypeOK, WireTypeOK, Counted
  <2>3. LogoutTypeOK' /\ CacheTypeOK'
    BY <2>1 DEF IInv, TypeOK, LogoutTypeOK, CacheTypeOK
  <2> QED
    BY <2>1, <2>2, <2>3 DEF IInv, TypeOK
<1> QED
  BY <1>1, <1>2, <1>3, <1>4, <1>5, InvStartFrame, InvEndFrame, InvVerb, InvExpiry, InvPick DEF Next

\* The inductive invariant holds of every behaviour.
LEMMA Inductive == Spec => []IInv
<1> QED
  BY InvInit, InvNext, PTL DEF Spec

\* Every variable keeps its type, a character is at the server exactly while the link
\* lives, and no countdown dialog outlives the interface that closed (client_state.rs's
\* transition).
THEOREM TypeCorrect == Spec => []TypeOK
<1>1. IInv => TypeOK
  BY DEF IInv
<1> QED
  BY <1>1, Inductive, PTL

----------------------------------------------------------------------------
(* What is on the wire before and after a step.                            *)

LEMMA GrownReads ==
    ASSUME NEW S, NEW s \in Seq(S), NEW e \in S, NEW n
    PROVE  HasReading(Append(s, e), n) <=> HasReading(s, n) \/ (e.kind = "response" /\ e.v = n)
  BY Grown DEF HasReading

LEMMA ShrunkReads ==
    ASSUME NEW S, NEW s \in Seq(S), s # <<>>, NEW n
    PROVE  HasReading(s, n) <=> HasReading(Tail(s), n) \/ (Head(s).kind = "response" /\ Head(s).v = n)
<1>1. ASSUME NEW i \in DOMAIN s, s[i].kind = "response", s[i].v = n, i # 1
      PROVE  HasReading(Tail(s), n)
  <2>1. i - 1 \in DOMAIN Tail(s) /\ Tail(s)[i - 1] = s[i]
    BY <1>1, Shrunk
  <2> QED
    BY <1>1, <2>1 DEF HasReading
<1>2. ASSUME NEW i \in DOMAIN Tail(s), Tail(s)[i].kind = "response", Tail(s)[i].v = n
      PROVE  HasReading(s, n)
  <2>1. i + 1 \in DOMAIN s /\ Tail(s)[i] = s[i + 1]
    BY Shrunk
  <2> QED
    BY <1>2, <2>1 DEF HasReading
<1>3. 1 \in DOMAIN s /\ Head(s) = s[1]
  BY Shrunk
<1> QED
  BY <1>1, <1>2, <1>3 DEF HasReading

\* An event read: the rest stays.
LEMMA Dispatched ==
    ASSUME IInv, NEW kind, Takes(kind)
    PROVE  /\ UNCHANGED <<link, server, porting, version, moves, inFrame, acts>>
           /\ \A x : x # kind => (Has(replies, x) <=> Has(replies', x))
           /\ \A x : Has(replies', x) => Has(replies, x)
           /\ \A x, k : x # kind \/ k # Head(replies).key => (HasOf(replies, x, k) <=> HasOf(replies', x, k))
           /\ \A n : kind # "response" \/ n # Head(replies).v => (HasReading(replies, n) <=> HasReading(replies', n))
<1>1. /\ replies \in Seq(Messages(Events)) /\ replies # <<>> /\ replies' = Tail(replies)
      /\ Head(replies).kind = kind
  BY Taken
<1>2. UNCHANGED <<link, server, porting, version, moves, inFrame, acts>>
  BY DEF Takes, serverVars
<1>3. \A x : Has(replies, x) <=> Has(Tail(replies), x) \/ Head(replies).kind = x
  BY <1>1, ShrunkHas
<1>4. \A x, k : HasOf(replies, x, k) <=> HasOf(Tail(replies), x, k) \/ (Head(replies).kind = x /\ Head(replies).key = k)
  BY <1>1, ShrunkHasOf
<1>5. \A n : HasReading(replies, n) <=> HasReading(Tail(replies), n) \/ (Head(replies).kind = "response" /\ Head(replies).v = n)
  BY <1>1, ShrunkReads
<1> QED
  BY <1>1, <1>2, <1>3, <1>4, <1>5

\* A command taken off the channel: the rest stays.
LEMMA CommandTaken ==
    ASSUME IInv, cmds # <<>>, cmds' = Tail(cmds)
    PROVE  /\ \A x : x # Head(cmds).kind => (Has(cmds, x) <=> Has(cmds', x))
           /\ \A x, k : x # Head(cmds).kind \/ k # Head(cmds).key => (HasOf(cmds, x, k) <=> HasOf(cmds', x, k))
<1>1. cmds \in Seq(Messages(Commands))
  BY DEF IInv, TypeOK, WireTypeOK
<1>2. \A x : Has(cmds, x) <=> Has(Tail(cmds), x) \/ Head(cmds).kind = x
  BY <1>1, ShrunkHas
<1>3. \A x, k : HasOf(cmds, x, k) <=> HasOf(Tail(cmds), x, k) \/ (Head(cmds).kind = x /\ Head(cmds).key = k)
  BY <1>1, ShrunkHasOf
<1> QED
  BY <1>2, <1>3

\* A command sent: what was there stays, and it is there.
LEMMA CommandSent ==
    ASSUME IInv, NEW kind \in Commands, cmds' = Append(cmds, Plain(kind))
    PROVE  /\ \A x : Has(cmds', x) <=> Has(cmds, x) \/ x = kind
           /\ \A x, k : HasOf(cmds, x, k) => HasOf(cmds', x, k)
<1>1. cmds \in Seq(Messages(Commands)) /\ Plain(kind) \in Messages(Commands) /\ Plain(kind).kind = kind
  BY Built DEF IInv, TypeOK, WireTypeOK
<1> QED
  BY <1>1, GrownHas, GrownHasOf

\* An event told: what was there stays, and it is there.
LEMMA EventTold ==
    ASSUME IInv, NEW e \in Messages(Events), replies' = Append(replies, e)
    PROVE  /\ \A x : Has(replies', x) <=> Has(replies, x) \/ x = e.kind
           /\ \A x, k : HasOf(replies', x, k) <=> HasOf(replies, x, k) \/ (x = e.kind /\ k = e.key)
           /\ \A n : HasReading(replies', n) <=> HasReading(replies, n) \/ (e.kind = "response" /\ e.v = n)
<1>1. replies \in Seq(Messages(Events))
  BY DEF IInv, TypeOK, WireTypeOK
<1>2. \A x : Has(Append(replies, e), x) <=> Has(replies, x) \/ x = e.kind
  BY <1>1, GrownHas
<1>3. \A x, k : HasOf(Append(replies, e), x, k) <=> HasOf(replies, x, k) \/ (x = e.kind /\ k = e.key)
  BY <1>1, GrownHasOf
<1>4. \A n : HasReading(Append(replies, e), n) <=> HasReading(replies, n) \/ (e.kind = "response" /\ e.v = n)
  BY <1>1, GrownReads
<1> QED
  BY <1>2, <1>3, <1>4

\* Calling off a request: it adds a cancel of the dialog's hiding at most.
LEMMA CalledOffSends ==
    ASSUME IInv, CallOff
    PROVE  /\ logoutPending' = FALSE
           /\ \A x : Has(cmds, x) => Has(cmds', x)
           /\ \A x, k : HasOf(cmds, x, k) => HasOf(cmds', x, k)
           /\ dialog' = dialog \/ Has(cmds', "logoutCancel")
<1>1. CASE cmds' = Append(cmds, Plain("logoutCancel"))
  BY <1>1, CommandSent DEF CallOff, Commands
<1>2. CASE cmds' = cmds /\ dialog' = dialog
  BY <1>2 DEF CallOff
<1> QED
  BY <1>1, <1>2 DEF CallOff, Send

\* The frame's start: the same, and the ack of a posted load.
LEMMA StartSends ==
    ASSUME IInv, StartFrame
    PROVE  /\ \A x : Has(cmds, x) => Has(cmds', x)
           /\ \A x, k : HasOf(cmds, x, k) => HasOf(cmds', x, k)
           /\ (posted /\ logoutPending) /\ dialog = "up" => Has(cmds', "logoutCancel")
<1> DEFINE hides == (posted /\ logoutPending) /\ dialog = "up"
           one == AddIf(cmds, hides, Plain("logoutCancel"))
<1>1. /\ cmds' = AddIf(one, posted, Plain("worldportAck"))
      /\ cmds \in Seq(Messages(Commands))
  BY DEF StartFrame, IInv, TypeOK, WireTypeOK
<1>2. /\ Plain("logoutCancel") \in Messages(Commands) /\ Plain("logoutCancel").kind = "logoutCancel"
      /\ Plain("worldportAck") \in Messages(Commands)
  BY Built DEF Commands
<1>3. /\ one \in Seq(Messages(Commands))
      /\ \A x : Has(cmds, x) => Has(one, x)
      /\ \A x, k : HasOf(cmds, x, k) => HasOf(one, x, k)
      /\ hides => Has(one, "logoutCancel")
  BY <1>1, <1>2, Grown, GrownHas, GrownHasOf DEF AddIf
<1> HIDE DEF one
<1>4. /\ \A x : Has(one, x) => Has(cmds', x)
      /\ \A x, k : HasOf(one, x, k) => HasOf(cmds', x, k)
  BY <1>1, <1>2, <1>3, GrownHas, GrownHasOf DEF AddIf
<1> QED
  BY <1>3, <1>4

----------------------------------------------------------------------------
(* One node for a key.                                                     *)

LEMMA OneNodeStep == IInv /\ OneNode /\ [Next]_vars => OneNode'
<1> SUFFICES ASSUME IInv, OneNode, [Next]_vars PROVE OneNode'
  OBVIOUS
<1>1. ASSUME UNCHANGED cacheVars PROVE OneNode'
  BY <1>1 DEF OneNode, Holds, cacheVars
<1>2. answered \in [Keys -> NoRecord .. MaxMoves] /\ pending \subseteq Keys /\ refused \subseteq Keys
  BY DEF IInv, TypeOK, CacheTypeOK
<1>3. ASSUME OnConnected PROVE OneNode'
  <2>1. /\ answered' = [k \in Keys |-> IF k \in Names THEN NoRecord ELSE answered[k]]
        /\ pending' = pending \ Names /\ refused' = refused \ Names
    BY <1>3 DEF OnConnected, ClearNames
  <2> QED
    BY <1>2, <2>1 DEF OneNode, Holds
<1>4. ASSUME OnDisconnected PROVE OneNode'
  <2>1. pending' = {} /\ UNCHANGED <<answered, refused>>
    BY <1>4 DEF OnDisconnected, ClearPending
  <2> QED
    BY <2>1 DEF OneNode, Holds
<1>5. ASSUME OnRecord PROVE OneNode'
  <2>1. PICK k \in Keys, n \in Nat : Insert(k, n)
    BY <1>5, Taken, Fields DEF OnRecord, GoodEvent
  <2> QED
    BY <1>2, <2>1 DEF OneNode, Holds, Insert
<1>6. ASSUME OnRefusal PROVE OneNode'
  <2>1. PICK k \in Keys : Refuse(k)
    BY <1>6, Taken DEF OnRefusal, GoodEvent
  <2> QED
    BY <1>2, <2>1 DEF OneNode, Holds, Refuse
<1>7. ASSUME OnInvalidate PROVE OneNode'
  <2>1. PICK k \in Keys : Evict(k)
    BY <1>7, Taken DEF OnInvalidate, GoodEvent, Keys
  <2> QED
    BY <1>2, <2>1 DEF OneNode, Holds, Evict
<1>8. ASSUME NEW k \in Keys, NEW relook \in BOOLEAN, Ask(k, relook) PROVE OneNode'
  <2>1. /\ ~Holds(k) /\ refused' = refused \ {k} /\ pending' = pending \cup {k} /\ answered' = answered
    BY <1>8 DEF Ask, AskIf
  <2> QED
    BY <1>2, <2>1 DEF OneNode, Holds
<1>9. ASSUME Dispatch PROVE OneNode'
  BY <1>1, <1>3, <1>4, <1>5, <1>6, <1>7, <1>9
  DEF Dispatch, OnWorldport, OnNewWorld, OnArrival, OnResponse, OnLogoutCancelled, OnLoggedOut, OnLoginFailed
<1>10. ASSUME StartFrame \/ EndFrame \/ Verb \/ Expiry \/ Pick \/ Answers \/ Outside \/ UNCHANGED vars PROVE OneNode'
  BY <1>1, <1>10 DEF StartFrame, EndFrame, Verb, Expiry, Pick, Answers, Outside, Unmoved, vars
<1> QED
  BY <1>8, <1>9, <1>10 DEF Next

\* A key is a record, an ask in flight or a refusal and never two of them
\* (query_cache.rs: its three fields stand for one node's states).
THEOREM OneNodeHolds == Spec => []OneNode
<1>1. Init => OneNode
  <2> SUFFICES ASSUME Init PROVE OneNode
    OBVIOUS
  <2>1. pending = {} /\ refused = {} /\ answered = [k \in Keys |-> NoRecord]
    BY DEF Init, CacheInit
  <2> QED
    BY <2>1 DEF OneNode, Holds
<1> QED
  BY <1>1, OneNodeStep, Inductive, PTL DEF Spec


----------------------------------------------------------------------------
(* What each of the server's steps leaves on the wire.                     *)

\* A step of the server's that keeps the link, but for what it read: the other
\* commands stay, and every event told stays.
LEMMA ServerKeeps ==
    ASSUME IInv, Answers, link' = "live"
    PROVE  /\ link = "live"
           /\ \A x : Has(replies, x) => Has(replies', x)
           /\ \A x, k : HasOf(replies, x, k) => HasOf(replies', x, k)
           /\ \A n : HasReading(replies, n) => HasReading(replies', n)
           /\ \/ ServeQuery /\ cmds # <<>> /\ cmds' = Tail(cmds) /\ Head(cmds).kind = "query"
              \/ /\ cmds # <<>> /\ cmds' = Tail(cmds) /\ Head(cmds).kind = "logout"
                 /\ \/ HasReading(replies', Refused) /\ server' \in {"in", server}
                    \/ HasReading(replies', Timed) /\ server' = "camping"
              \/ /\ cmds # <<>> /\ cmds' = Tail(cmds) /\ Head(cmds).kind = "logoutCancel"
                 /\ Has(replies', "logoutCancelled") /\ server' = "in"
              \/ cmds # <<>> /\ cmds' = Tail(cmds) /\ Head(cmds).kind = "worldportAck" /\ server' = server
              \/ cmds' = cmds /\ Has(replies', "arrival") /\ server' = "in"
<1>1. replies \in Seq(Messages(Events))
  BY DEF IInv, TypeOK, WireTypeOK
<1>2. ASSUME NEW e \in Messages(Events), replies' = Append(replies, e)
      PROVE  /\ \A x : Has(replies, x) => Has(replies', x)
             /\ \A x, k : HasOf(replies, x, k) => HasOf(replies', x, k)
             /\ \A n : HasReading(replies, n) => HasReading(replies', n)
             /\ Has(replies', e.kind)
             /\ e.kind = "response" => HasReading(replies', e.v)
  BY <1>2, EventTold
<1>3. CASE ServeQuery
  <2>1. cmds # <<>> /\ cmds' = Tail(cmds) /\ Head(cmds).kind = "query" /\ link = "live"
    BY <1>3 DEF ServeQuery, Reads
  <2>2. Head(cmds).key \in Keys
    BY <2>1, CommandsShrink DEF IInv, TypeOK, WireTypeOK
  <2>3. PICK e \in Messages(Events) : replies' = Append(replies, e)
    <3> DEFINE k == Head(cmds).key
    <3>1. CASE replies' = Append(replies, Msg("refusal", k, 0))
      <4>1. Msg("refusal", k, 0) \in Messages(Events)
        BY <2>2, Built, MovesAssumption DEF Events, Top
      <4> QED
        BY <3>1, <4>1
    <3>2. CASE replies' = Append(replies, Msg("record", k, IF k \in Names THEN version[k] ELSE 0))
      <4>1. (IF k \in Names THEN version[k] ELSE 0) \in 0 .. Top
        BY MovesAssumption DEF Top, IInv, TypeOK, WireTypeOK
      <4>2. Msg("record", k, IF k \in Names THEN version[k] ELSE 0) \in Messages(Events)
        BY <2>2, <4>1, Built DEF Events
      <4> QED
        BY <3>2, <4>2
    <3> QED
      BY <1>3, <3>1, <3>2 DEF ServeQuery
  <2> QED
    BY <1>2, <1>3, <2>1, <2>3
<1>4. CASE ServeLogout
  <2>1. cmds # <<>> /\ cmds' = Tail(cmds) /\ Head(cmds).kind = "logout" /\ link = "live"
    BY <1>4 DEF ServeLogout, Reads
  <2>2. ASSUME NEW n \in {Timed, Refused}
        PROVE  /\ Msg("response", NoKey, n) \in Messages(Events)
               /\ Msg("response", NoKey, n).kind = "response" /\ Msg("response", NoKey, n).v = n
    <3>1. n \in 0 .. Top /\ NoKey \in Keys \cup {NoKey} /\ "response" \in Events
      BY MovesAssumption DEF Timed, Refused, Top, Events
    <3> QED
      BY <3>1, Built
  <2>3. \/ replies' = Append(replies, Msg("response", NoKey, Refused)) /\ server' \in {"in", server}
        \/ replies' = Append(replies, Msg("response", NoKey, Timed)) /\ server' = "camping"
    BY <1>4 DEF ServeLogout
  <2> QED
    BY <1>2, <2>1, <2>2, <2>3
<1>5. CASE ServeCancel
  <2>1. /\ cmds # <<>> /\ cmds' = Tail(cmds) /\ Head(cmds).kind = "logoutCancel" /\ link = "live"
        /\ server' = "in" /\ replies' = Append(replies, Plain("logoutCancelled"))
    BY <1>5 DEF ServeCancel, Reads
  <2>2. Plain("logoutCancelled") \in Messages(Events) /\ Plain("logoutCancelled").kind = "logoutCancelled"
    BY Built DEF Events
  <2> QED
    BY <1>2, <2>1, <2>2
<1>6. CASE ServeAck
  <2>1. /\ cmds # <<>> /\ cmds' = Tail(cmds) /\ Head(cmds).kind = "worldportAck" /\ link = "live"
        /\ server' = server /\ (replies' = replies \/ replies' = Append(replies, Plain("arrival")))
    BY <1>6 DEF ServeAck, Reads
  <2>2. Plain("arrival") \in Messages(Events) /\ Plain("arrival").kind = "arrival"
    BY Built DEF Events
  <2> QED
    BY <1>2, <2>1, <2>2
<1>7. CASE Admit
  <2>1. /\ server = "entering" /\ cmds' = cmds
        /\ server' = "in" /\ link' = link
        /\ \/ replies' = Append(replies, Plain("arrival"))
           \/ replies' = replies \o <<Plain("worldport"), Plain("arrival")>>
    BY <1>7 DEF Admit
  <2>2. /\ Plain("arrival") \in Messages(Events) /\ Plain("arrival").kind = "arrival"
        /\ Plain("worldport") \in Messages(Events)
    BY Built DEF Events
  <2> DEFINE one == Append(replies, Plain("worldport"))
  <2>3. CASE replies' = replies \o <<Plain("worldport"), Plain("arrival")>>
    <3>1. /\ one \in Seq(Messages(Events))
          /\ \A x : Has(replies, x) => Has(one, x)
          /\ \A x, k : HasOf(replies, x, k) => HasOf(one, x, k)
          /\ \A n : HasReading(replies, n) => HasReading(one, n)
      BY <1>1, <2>2, Grown, GrownHas, GrownHasOf, GrownReads
    <3>2. replies' = Append(one, Plain("arrival"))
      BY <1>1, <2>2, <2>3, TwoMore
    <3> HIDE DEF one
    <3>3. /\ \A x : Has(one, x) => Has(replies', x)
          /\ \A x, k : HasOf(one, x, k) => HasOf(replies', x, k)
          /\ \A n : HasReading(one, n) => HasReading(replies', n)
          /\ Has(replies', "arrival")
      BY <2>2, <3>1, <3>2, GrownHas, GrownHasOf, GrownReads
    <3> QED
      BY <2>1, <3>1, <3>3
  <2> QED
    BY <1>2, <2>1, <2>2, <2>3
<1>8. CASE ServeForce \/ CampEnds
  BY <1>8 DEF ServeForce, CampEnds
<1> QED
  BY <1>3, <1>4, <1>5, <1>6, <1>7, <1>8 DEF Answers, Serve

\* What moves on its own while the link lives: every event told stays, and no
\* command is taken.
LEMMA OutsideKeeps ==
    ASSUME IInv, Outside, link' = "live"
    PROVE  /\ link = "live" /\ server' = server /\ cmds' = cmds
           /\ \A x : Has(replies, x) => Has(replies', x)
           /\ \A x, k : HasOf(replies, x, k) => HasOf(replies', x, k)
           /\ \A n : HasReading(replies, n) => HasReading(replies', n)
<1>1. PICK e \in Messages(Events) : replies' = Append(replies, e) /\ server' = server /\ cmds' = cmds /\ link' = link
  <2>1. CASE Transfer
    <3>1. replies' = Append(replies, Plain("newWorld")) /\ UNCHANGED <<server, cmds, link>>
      BY <2>1 DEF Transfer
    <3>2. Plain("newWorld") \in Messages(Events)
      BY Built DEF Events
    <3> QED
      BY <3>1, <3>2
  <2>2. ASSUME NEW k \in Names, Rename(k)
        PROVE  \E e \in Messages(Events) : replies' = Append(replies, e) /\ server' = server /\ cmds' = cmds /\ link' = link
    <3>1. /\ replies' = Append(replies, Msg("invalidate", k, version[k] + 1)) /\ moves < MaxMoves
          /\ UNCHANGED <<server, cmds, link>>
      BY <2>2 DEF Rename
    <3>2. version[k] \in Nat /\ version[k] <= moves /\ moves \in Nat
      BY MovesAssumption DEF IInv, TypeOK, WireTypeOK, Counted
    <3>3. version[k] + 1 \in 0 .. Top /\ k \in Keys \cup {NoKey}
      BY <3>1, <3>2, MovesAssumption DEF Top, Keys
    <3>4. Msg("invalidate", k, version[k] + 1) \in Messages(Events)
      BY <3>3, Built DEF Events
    <3> QED
      BY <3>1, <3>4
  <2>3. ~DropCommand /\ ~LoseLink
    BY DEF DropCommand, LoseLink, serverVars
  <2> QED
    BY <2>1, <2>2, <2>3 DEF Outside
<1> QED
  BY <1>1, EventTold

\* The client's own steps outside a dispatch: no command is taken back.
LEMMA VerbSends ==
    ASSUME IInv, Verb
    PROVE  /\ \A x : Has(cmds, x) => Has(cmds', x)
           /\ \A x, k : HasOf(cmds, x, k) => HasOf(cmds', x, k)
           /\ logoutPending' => logoutPending \/ Has(cmds', "logout")
           /\ dialog' = dialog \/ Has(cmds', "logoutCancel")
           /\ UNCHANGED <<link, server, replies, selfGuid, posted, loggedOut, pending>>
<1>1. UNCHANGED <<link, server, replies, posted, pending>>
  BY DEF Verb, serverVars, cacheVars, appVars
<1>2. CASE \E quit \in BOOLEAN : LogoutVerb(quit)
  <2>1. UNCHANGED <<selfGuid, loggedOut, dialog>>
    BY <1>2 DEF LogoutVerb
  <2>2. CASE cmds' = Append(cmds, Plain("logout"))
    BY <1>1, <2>1, <2>2, CommandSent DEF Commands
  <2>3. CASE cmds' = cmds /\ logoutPending' = logoutPending
    BY <1>1, <2>1, <2>3
  <2> QED
    BY <1>2, <2>2, <2>3 DEF LogoutVerb, Send
<1>3. CASE CancelLogout
  <2>1. UNCHANGED <<selfGuid, loggedOut, dialog>> /\ ~logoutPending' /\ cmds' = Append(cmds, Plain("logoutCancel"))
    BY <1>3 DEF CancelLogout, exitVars, Send
  <2> QED
    BY <1>1, <2>1, CommandSent DEF Commands
<1>4. CASE ForceQuit
  BY <1>1, <1>4 DEF ForceQuit, logoutState
<1>5. CASE ForceLogout
  <2>1. UNCHANGED <<selfGuid, loggedOut, dialog, logoutPending>> /\ cmds' = Append(cmds, Plain("forceLogout"))
    BY <1>5 DEF ForceLogout, exitVars, Send
  <2> QED
    BY <1>1, <2>1, CommandSent DEF Commands
<1>6. CASE CloseDialog
  <2>1. UNCHANGED <<selfGuid, loggedOut>> /\ ~logoutPending' /\ cmds' = Append(cmds, Plain("logoutCancel"))
    BY <1>6 DEF CloseDialog, exitVars, Send
  <2> QED
    BY <1>1, <2>1, CommandSent DEF Commands
<1> QED
  BY <1>2, <1>3, <1>4, <1>5, <1>6 DEF Verb

LEMMA AskSends ==
    ASSUME IInv, NEW k \in Keys, NEW relook \in BOOLEAN, Ask(k, relook)
    PROVE  /\ \A x : Has(cmds, x) => Has(cmds', x)
           /\ \A x, j : HasOf(cmds, x, j) => HasOf(cmds', x, j)
           /\ pending' = pending \cup {k}
           /\ k \in pending \/ HasOf(cmds', "query", k)
           /\ UNCHANGED <<link, server, replies, selfGuid, posted, loggedOut, logoutPending, dialog>>
<1>1. /\ pending' = pending \cup {k}
      /\ (k \in pending /\ cmds' = cmds) \/ cmds' = Append(cmds, Query(k))
      /\ UNCHANGED <<link, server, replies, selfGuid, posted, loggedOut, logoutPending, dialog>>
  BY DEF Ask, AskIf, serverVars, logoutVars, logoutState, exitVars, appVars
<1>2. cmds \in Seq(Messages(Commands))
  BY DEF IInv, TypeOK, WireTypeOK
<1>3. Query(k) \in Messages(Commands) /\ Query(k).kind = "query" /\ Query(k).key = k
  BY Built
<1>4. /\ \A x : Has(Append(cmds, Query(k)), x) <=> Has(cmds, x) \/ Query(k).kind = x
      /\ \A x, j : HasOf(Append(cmds, Query(k)), x, j) <=> HasOf(cmds, x, j) \/ (Query(k).kind = x /\ Query(k).key = j)
  BY <1>2, <1>3, GrownHas, GrownHasOf
<1> QED
  BY <1>1, <1>3, <1>4


----------------------------------------------------------------------------
(* What a pending logout is owed.                                          *)

OwedEvents == {"loggedOut", "loginFailed", "worldport", "newWorld", "arrival"}

\* What is under way stays under way.
LEMMA OwedKept ==
    ASSUME Owed, Has(cmds, "logout") => Has(cmds', "logout"),
           server \in {"entering", "camping"} => server' \in {"entering", "camping"},
           \A e \in OwedEvents \cup {"logoutCancelled"} : Has(replies, e) => Has(replies', e),
           HasReading(replies, Refused) => HasReading(replies', Refused),
           posted => posted', loggedOut => loggedOut'
    PROVE  Owed'
  BY DEF Owed, OwedEvents

LEMMA PendingIsOwedStep == IInv /\ PendingIsOwed /\ [Next]_vars => PendingIsOwed'
<1> SUFFICES ASSUME IInv, PendingIsOwed, [Next]_vars, logoutPending', link' = "live" PROVE Owed'
  BY DEF PendingIsOwed
<1>1. CASE StartFrame
  <2>1. logoutPending /\ ~posted /\ UNCHANGED <<link, server, replies, loggedOut>>
    BY <1>1 DEF StartFrame, serverVars, exitVars
  <2> QED
    BY <1>1, <2>1, StartSends, OwedKept DEF PendingIsOwed
<1>2. CASE EndFrame
  <2>1. logoutPending /\ ~loggedOut /\ UNCHANGED <<link, server, cmds, replies, posted>>
    BY <1>2 DEF EndFrame, ExitOnLogoutComplete, wireVars, serverVars
  <2> QED
    BY <2>1, OwedKept DEF PendingIsOwed
<1>3. ASSUME NEW kind, Takes(kind), kind \notin OwedEvents \cup {"logoutCancelled"},
             kind = "response" => Head(replies).v # Refused,
             logoutPending, UNCHANGED <<cmds, loggedOut, posted>>
      PROVE  Owed'
  <2>1. link = "live" /\ server' = server
    BY <1>3, Dispatched
  <2>2. \A e \in OwedEvents \cup {"logoutCancelled"} : Has(replies, e) => Has(replies', e)
    BY <1>3, Dispatched
  <2>3. HasReading(replies, Refused) => HasReading(replies', Refused)
    BY <1>3, Dispatched
  <2> QED
    BY <1>3, <2>1, <2>2, <2>3, OwedKept DEF PendingIsOwed
<1>4. CASE Dispatch
  <2>1. CASE OnConnected
    <3>1. Takes("connected") /\ logoutPending /\ UNCHANGED <<cmds, loggedOut, posted>>
      BY <2>1 DEF OnConnected, logoutState, exitVars
    <3> QED
      BY <3>1, <1>3 DEF OwedEvents
  <2>2. CASE OnNewWorld
    BY <2>2 DEF OnNewWorld, Owed
  <2>3. CASE OnResponse
    <3>1. /\ Takes("response") /\ logoutPending /\ Head(replies).v # Refused
          /\ UNCHANGED <<cmds, loggedOut, posted>>
      BY <2>3 DEF OnResponse, ApplyResponse, exitVars
    <3> QED
      BY <3>1, <1>3 DEF OwedEvents
  <2>4. CASE OnDisconnected
    <3>1. Takes("disconnected") /\ logoutPending /\ UNCHANGED <<cmds, loggedOut, posted>>
      BY <2>4 DEF OnDisconnected, logoutState, exitVars
    <3> QED
      BY <3>1, <1>3 DEF OwedEvents
  <2>5. CASE OnRecord
    <3>1. Takes("record") /\ logoutPending /\ UNCHANGED <<cmds, loggedOut, posted>>
      BY <2>5 DEF OnRecord, logoutVars, logoutState, exitVars
    <3> QED
      BY <3>1, <1>3 DEF OwedEvents
  <2>6. CASE OnRefusal
    <3>1. Takes("refusal") /\ logoutPending /\ UNCHANGED <<cmds, loggedOut, posted>>
      BY <2>6 DEF OnRefusal, logoutVars, logoutState, exitVars
    <3> QED
      BY <3>1, <1>3 DEF OwedEvents
  <2>7. CASE OnInvalidate
    <3>1. Takes("invalidate") /\ logoutPending /\ UNCHANGED <<cmds, loggedOut, posted>>
      BY <2>7 DEF OnInvalidate, logoutVars, logoutState, exitVars
    <3> QED
      BY <3>1, <1>3 DEF OwedEvents
  <2>8. ~OnWorldport /\ ~OnArrival /\ ~OnLogoutCancelled /\ ~OnLoggedOut /\ ~OnLoginFailed
    BY DEF OnWorldport, OnArrival, OnLogoutCancelled, OnLoggedOut, OnLoginFailed, ApplyLeftWorld,
           SetInWorld, ApplyCancelled, CallOff
  <2> QED
    BY <1>4, <2>1, <2>2, <2>3, <2>4, <2>5, <2>6, <2>7, <2>8 DEF Dispatch
<1>5. CASE Verb
  <2>1. CASE Has(cmds', "logout")
    BY <2>1 DEF Owed
  <2>2. CASE logoutPending
    <3>1. Owed
      BY <1>5, <2>2, VerbSends DEF PendingIsOwed
    <3> QED
      BY <1>5, <3>1, VerbSends, OwedKept
  <2> QED
    BY <1>5, <2>1, <2>2, VerbSends
<1>6. CASE Expiry
  <2>1. logoutPending /\ UNCHANGED <<link, server, cmds, replies, posted, loggedOut>>
    BY <1>6 DEF Expiry, DialogExpires, logoutState, exitVars, serverVars, appVars
  <2> QED
    BY <2>1, OwedKept DEF PendingIsOwed
<1>7. ASSUME NEW k \in Keys, NEW relook \in BOOLEAN, Ask(k, relook) PROVE Owed'
  <2>1. Owed
    BY <1>7, AskSends DEF PendingIsOwed
  <2> QED
    BY <1>7, <2>1, AskSends, OwedKept
<1>8. CASE Pick
  BY <1>8 DEF Pick, Enter, Owed
<1>9. CASE Answers
  <2>1. UNCHANGED <<logoutPending, posted, loggedOut>>
    BY <1>9 DEF Answers, Unmoved, logoutVars, logoutState, exitVars, appVars
  <2>2. Owed
    BY <1>9, <2>1, ServerKeeps DEF PendingIsOwed
  <2>3. CASE Has(replies', "logoutCancelled") \/ Has(replies', "arrival") \/ HasReading(replies', Refused)
    BY <2>3 DEF Owed
  <2>4. CASE server' = "camping"
    BY <2>4 DEF Owed
  <2>5. CASE /\ cmds # <<>> /\ cmds' = Tail(cmds) /\ Head(cmds).kind \in {"query", "worldportAck"}
             /\ server' = server
    <3>1. Has(cmds, "logout") => Has(cmds', "logout")
      BY <2>5, CommandTaken
    <3> QED
      BY <1>9, <2>1, <2>2, <2>5, <3>1, ServerKeeps, OwedKept
  <2>6. ServeQuery => server' = server
    BY DEF ServeQuery, serverVars
  <2> QED
    BY <1>9, <2>3, <2>4, <2>5, <2>6, ServerKeeps
<1>10. CASE Outside
  <2>1. UNCHANGED <<logoutPending, posted, loggedOut>>
    BY <1>10 DEF Outside, Unmoved, logoutVars, logoutState, exitVars, appVars
  <2> QED
    BY <1>10, <2>1, OutsideKeeps, OwedKept DEF PendingIsOwed
<1>11. CASE UNCHANGED vars
  <2>1. UNCHANGED <<link, server, cmds, replies, posted, loggedOut, logoutPending>>
    BY <1>11 DEF vars, wireVars, serverVars, logoutVars, logoutState, exitVars, appVars
  <2> QED
    BY <2>1, OwedKept DEF PendingIsOwed
<1> QED
  BY <1>1, <1>2, <1>4, <1>5, <1>6, <1>7, <1>8, <1>9, <1>10, <1>11 DEF Next

\* A pending logout is never left waiting on a live link: its request, the server's
\* countdown or an event that clears it is under way (ui_logout.rs; a byte left set
\* would swallow every later request).
THEOREM PendingIsOwedHolds == Spec => []PendingIsOwed
<1>1. Init => PendingIsOwed
  BY DEF Init, LogoutInit, PendingIsOwed
<1> QED
  BY <1>1, PendingIsOwedStep, Inductive, PTL DEF Spec

----------------------------------------------------------------------------
(* The server's countdown shows.                                           *)

LEMMA CountdownStep == IInv /\ CountdownIsShown /\ [Next]_vars => CountdownIsShown'
<1> DEFINE Shown == dialog # "none" \/ HasReading(replies, Timed) \/ Has(cmds, "logoutCancel")
<1> SUFFICES ASSUME IInv, CountdownIsShown, [Next]_vars, server' = "camping" PROVE Shown'
  BY DEF CountdownIsShown
<1>0. /\ server # "out" => link = "live"
      /\ stage = "leaving" => link # "live"
      /\ server = "camping" => Shown
  BY DEF IInv, TypeOK, WireTypeOK, Session, CountdownIsShown
<1>1. CASE StartFrame
  <2>1. /\ server' = server /\ replies' = replies
        /\ dialog' = dialog \/ (posted /\ logoutPending /\ dialog = "up") \/ stage = "leaving"
    BY <1>1 DEF StartFrame, serverVars
  <2> QED
    BY <1>0, <1>1, <2>1, StartSends
<1>2. CASE EndFrame
  <2>1. UNCHANGED <<server, cmds, replies, dialog>>
    BY <1>2 DEF EndFrame, ExitOnLogoutComplete, wireVars, serverVars
  <2> QED
    BY <1>0, <2>1
<1>3. ASSUME NEW kind, Takes(kind), kind # "response",
             CallOff \/ UNCHANGED <<cmds, dialog>>
      PROVE  Shown'
  <2>1. server' = server /\ (HasReading(replies, Timed) => HasReading(replies', Timed))
    BY <1>3, Dispatched
  <2> QED
    BY <1>0, <1>3, <2>1, CalledOffSends
<1>4. CASE OnResponse
  <2>1. /\ Takes("response") /\ cmds' = cmds
        /\ dialog' = IF Head(replies).v = Timed THEN "up" ELSE dialog
    BY <1>4 DEF OnResponse, ApplyResponse
  <2>2. server' = server /\ (Head(replies).v # Timed /\ HasReading(replies, Timed) => HasReading(replies', Timed))
    BY <2>1, Dispatched
  <2> QED
    BY <1>0, <2>1, <2>2
<1>5. CASE Dispatch
  <2>1. CASE OnConnected \/ OnDisconnected \/ OnNewWorld \/ OnRecord \/ OnRefusal \/ OnInvalidate
    <3>1. (\E kind : Takes(kind) /\ kind # "response") /\ UNCHANGED <<cmds, dialog>>
      BY <2>1 DEF OnConnected, OnDisconnected, OnNewWorld, OnRecord, OnRefusal, OnInvalidate, logoutVars
    <3> QED
      BY <1>3, <3>1
  <2>2. CASE OnWorldport \/ OnArrival \/ OnLogoutCancelled \/ OnLoggedOut \/ OnLoginFailed
    <3>1. (\E kind : Takes(kind) /\ kind # "response") /\ CallOff
      BY <2>2 DEF OnWorldport, OnArrival, OnLogoutCancelled, OnLoggedOut, OnLoginFailed,
                  ApplyLeftWorld, SetInWorld, ApplyCancelled
    <3> QED
      BY <1>3, <3>1
  <2> QED
    BY <1>4, <1>5, <2>1, <2>2 DEF Dispatch
<1>6. CASE Verb
  BY <1>0, <1>6, VerbSends
<1>7. CASE Expiry
  BY <1>7 DEF Expiry, DialogExpires
<1>8. ASSUME NEW k \in Keys, NEW relook \in BOOLEAN, Ask(k, relook) PROVE Shown'
  BY <1>0, <1>8, AskSends
<1>9. CASE Pick
  BY <1>9 DEF Pick, Enter
<1>10. CASE Answers
  <2>1. dialog' = dialog /\ link' = "live"
    <3>1. WireTypeOK'
      BY InvNext DEF IInv, TypeOK
    <3> QED
      BY <1>10, <3>1 DEF Answers, Unmoved, logoutVars, WireTypeOK
  <2>2. CASE HasReading(replies', Timed)
    BY <2>2
  <2>3. CASE /\ cmds # <<>> /\ cmds' = Tail(cmds) /\ Head(cmds).kind # "logoutCancel"
             /\ server' \in {"in", server}
    <3>1. Has(cmds, "logoutCancel") => Has(cmds', "logoutCancel")
      BY <2>3, CommandTaken
    <3>2. HasReading(replies, Timed) => HasReading(replies', Timed)
      BY <1>10, <2>1, ServerKeeps
    <3> QED
      BY <1>0, <2>1, <2>3, <3>1, <3>2
  <2>4. ServeQuery => server' = server
    BY DEF ServeQuery, serverVars
  <2> QED
    BY <1>10, <2>1, <2>2, <2>3, <2>4, ServerKeeps
<1>11. CASE Outside
  <2>1. dialog' = dialog /\ link' = "live"
    <3>1. WireTypeOK'
      BY InvNext DEF IInv, TypeOK
    <3> QED
      BY <1>11, <3>1 DEF Outside, Unmoved, logoutVars, WireTypeOK
  <2> QED
    BY <1>0, <1>11, <2>1, OutsideKeeps
<1>12. CASE UNCHANGED vars
  <2>1. UNCHANGED <<server, cmds, replies, dialog>>
    BY <1>12 DEF vars, wireVars, serverVars, logoutVars
  <2> QED
    BY <1>0, <2>1
<1> QED
  BY <1>1, <1>2, <1>5, <1>6, <1>7, <1>8, <1>9, <1>10, <1>11, <1>12 DEF Next

\* The server never counts the player out unseen: while it counts, the dialog shows,
\* ran out on the screen or is about to show, or its cancel is on the way.
THEOREM CountdownIsShownHolds == Spec => []CountdownIsShown
<1>1. Init => CountdownIsShown
  BY DEF Init, WireInit, CountdownIsShown
<1> QED
  BY <1>1, CountdownStep, Inductive, PTL DEF Spec


----------------------------------------------------------------------------
(* A name's ask is on the wire.                                            *)

\* What keeps an ask on the wire of the session.
LEMMA AsksKept ==
    ASSUME NameAskIsOut, selfGuid' => selfGuid, link' = "live" => link = "live",
           Has(replies, "connected") => Has(replies', "connected"),
           \A k \in pending' \cap Names : k \in pending /\ (InFlight(k) => InFlight(k)')
    PROVE  NameAskIsOut'
  BY DEF NameAskIsOut, Attached

LEMMA NameAskStep == IInv /\ NameAskIsOut /\ [Next]_vars => NameAskIsOut'
<1> SUFFICES ASSUME IInv, NameAskIsOut, [Next]_vars PROVE NameAskIsOut'
  OBVIOUS
<1>1. CASE StartFrame
  <2>1. UNCHANGED <<selfGuid, link, replies, pending>>
    BY <1>1 DEF StartFrame, serverVars, cacheVars
  <2> QED
    BY <1>1, <2>1, StartSends, AsksKept DEF InFlight
<1>2. CASE EndFrame
  <2>1. UNCHANGED <<selfGuid, link, cmds, replies, pending>>
    BY <1>2 DEF EndFrame, ExitOnLogoutComplete, wireVars, serverVars, cacheVars
  <2> QED
    BY <2>1, AsksKept DEF InFlight
<1>3. CASE OnConnected
  <2>1. pending' = pending \ Names
    BY <1>3 DEF OnConnected, ClearNames
  <2> QED
    BY <2>1 DEF NameAskIsOut
<1>4. CASE OnDisconnected
  <2>1. pending' = {}
    BY <1>4 DEF OnDisconnected, ClearPending
  <2> QED
    BY <2>1 DEF NameAskIsOut
<1>5. ASSUME NEW kind, Takes(kind), kind # "connected", selfGuid' => selfGuid,
             \A x, k : HasOf(cmds, x, k) => HasOf(cmds', x, k),
             pending' \subseteq pending,
             kind \in {"record", "refusal"} => pending' = pending \ {Head(replies).key}
      PROVE  NameAskIsOut'
  <2>1. link' = link /\ (Has(replies, "connected") => Has(replies', "connected"))
    BY <1>5, Dispatched
  <2>2. ASSUME NEW k \in pending' PROVE k \in pending /\ (InFlight(k) => InFlight(k)')
    <3>1. kind \in {"record", "refusal"} => k # Head(replies).key
      BY <1>5, <2>2
    <3>2. HasOf(replies, "record", k) => HasOf(replies', "record", k)
      BY <1>5, <3>1, Dispatched
    <3>3. HasOf(replies, "refusal", k) => HasOf(replies', "refusal", k)
      BY <1>5, <3>1, Dispatched
    <3> QED
      BY <1>5, <2>2, <3>2, <3>3 DEF InFlight
  <2> QED
    BY <1>5, <2>1, <2>2, AsksKept
<1>6. CASE Dispatch
  <2>1. CASE OnWorldport \/ OnArrival \/ OnLogoutCancelled \/ OnLoggedOut \/ OnLoginFailed
    <3>1. \E kind : Takes(kind) /\ kind \notin {"connected", "record", "refusal"}
      BY <2>1 DEF OnWorldport, OnArrival, OnLogoutCancelled, OnLoggedOut, OnLoginFailed
    <3>2. CallOff /\ pending' = pending
      BY <2>1 DEF OnWorldport, OnArrival, OnLogoutCancelled, OnLoggedOut, OnLoginFailed,
                  ApplyLeftWorld, SetInWorld, ApplyCancelled, cacheVars
    <3>3. selfGuid' = FALSE \/ selfGuid' = selfGuid
      BY <2>1 DEF OnWorldport, OnArrival, OnLogoutCancelled, OnLoggedOut, OnLoginFailed,
                  SetInWorld, ApplyCancelled
    <3>4. \A x, k : HasOf(cmds, x, k) => HasOf(cmds', x, k)
      BY <3>2, CalledOffSends
    <3> QED
      BY <1>5, <3>1, <3>2, <3>3, <3>4
  <2>2. CASE OnNewWorld \/ OnResponse
    <3>1. /\ \E kind : Takes(kind) /\ kind \notin {"connected", "record", "refusal"}
          /\ UNCHANGED <<cmds, selfGuid, pending>>
      BY <2>2 DEF OnNewWorld, OnResponse, ApplyResponse, logoutVars, cacheVars
    <3> QED
      BY <1>5, <3>1
  <2>3. CASE OnRecord
    <3>1. Takes("record") /\ pending' = pending \ {Head(replies).key} /\ UNCHANGED <<cmds, selfGuid>>
      BY <2>3 DEF OnRecord, Insert, logoutVars
    <3> QED
      BY <1>5, <3>1
  <2>4. CASE OnRefusal
    <3>1. Takes("refusal") /\ pending' = pending \ {Head(replies).key} /\ UNCHANGED <<cmds, selfGuid>>
      BY <2>4 DEF OnRefusal, Refuse, logoutVars
    <3> QED
      BY <1>5, <3>1
  <2>5. CASE OnInvalidate
    <3>1. Takes("invalidate") /\ pending' = pending \ {Head(replies).key} /\ UNCHANGED <<cmds, selfGuid>>
      BY <2>5 DEF OnInvalidate, Evict, logoutVars
    <3> QED
      BY <1>5, <3>1
  <2> QED
    BY <1>3, <1>4, <1>6, <2>1, <2>2, <2>3, <2>4, <2>5 DEF Dispatch
<1>7. CASE Verb
  BY <1>7, VerbSends, AsksKept DEF InFlight
<1>8. CASE Expiry
  <2>1. UNCHANGED <<selfGuid, link, cmds, replies, pending>>
    BY <1>8 DEF Expiry, DialogExpires, serverVars, cacheVars
  <2> QED
    BY <2>1, AsksKept DEF InFlight
<1>9. ASSUME NEW k \in Keys, NEW relook \in BOOLEAN, Ask(k, relook) PROVE NameAskIsOut'
  <2>1. /\ \A x, j : HasOf(cmds, x, j) => HasOf(cmds', x, j)
        /\ pending' = pending \cup {k} /\ (k \in pending \/ HasOf(cmds', "query", k))
        /\ UNCHANGED <<link, replies, selfGuid>>
    BY <1>9, AskSends
  <2> QED
    BY <2>1 DEF NameAskIsOut, Attached, InFlight
<1>10. CASE Pick
  <2>1. replies' = Append(replies, Plain("connected"))
    BY <1>10 DEF Pick, Enter
  <2>2. Plain("connected") \in Messages(Events) /\ Plain("connected").kind = "connected"
    BY Built DEF Events
  <2>3. Has(replies', "connected")
    BY <2>1, <2>2, EventTold
  <2> QED
    BY <2>3 DEF NameAskIsOut, Attached
<1>11. CASE Answers
  <2> SUFFICES ASSUME link' = "live" PROVE NameAskIsOut'
    BY DEF NameAskIsOut, Attached
  <2>1. /\ UNCHANGED <<selfGuid, pending>> /\ link = "live"
        /\ \A x : Has(replies, x) => Has(replies', x)
        /\ \A x, k : HasOf(replies, x, k) => HasOf(replies', x, k)
    BY <1>11, ServerKeeps DEF Answers, Unmoved, logoutVars, cacheVars
  <2>2. CASE \A k : HasOf(cmds, "query", k) => HasOf(cmds', "query", k)
    BY <2>1, <2>2, AsksKept DEF InFlight
  <2>3. CASE ServeQuery
    <3> DEFINE key == Head(cmds).key
    <3>1. /\ cmds # <<>> /\ cmds' = Tail(cmds) /\ Head(cmds).kind = "query"
          /\ \/ replies' = Append(replies, Msg("refusal", key, 0))
             \/ replies' = Append(replies, Msg("record", key, IF key \in Names THEN version[key] ELSE 0))
      BY <2>3 DEF ServeQuery, Reads
    <3>2. key \in Keys
      BY <3>1, CommandsShrink DEF IInv, TypeOK, WireTypeOK
    <3> HIDE DEF key
    <3>3. 0 \in 0 .. Top /\ (IF key \in Names THEN version[key] ELSE 0) \in 0 .. Top
      BY MovesAssumption DEF Top, IInv, TypeOK, WireTypeOK
    <3>4. PICK e \in Messages(Events) :
            replies' = Append(replies, e) /\ e.kind \in {"record", "refusal"} /\ e.key = key
      <4>1. CASE replies' = Append(replies, Msg("refusal", key, 0))
        <5>1. /\ Msg("refusal", key, 0) \in Messages(Events)
              /\ Msg("refusal", key, 0).kind = "refusal" /\ Msg("refusal", key, 0).key = key
          BY <3>2, <3>3, Built DEF Events
        <5> QED
          BY <4>1, <5>1
      <4>2. CASE replies' = Append(replies, Msg("record", key, IF key \in Names THEN version[key] ELSE 0))
        <5> DEFINE n == IF key \in Names THEN version[key] ELSE 0
        <5>1. /\ Msg("record", key, n) \in Messages(Events)
              /\ Msg("record", key, n).kind = "record" /\ Msg("record", key, n).key = key
          BY <3>2, <3>3, Built DEF Events
        <5> QED
          BY <4>2, <5>1
      <4> QED
        BY <3>1, <4>1, <4>2
    <3>5. HasOf(replies', "record", key) \/ HasOf(replies', "refusal", key)
      BY <3>4, EventTold
    <3>6. \A k : k # key => (HasOf(cmds, "query", k) => HasOf(cmds', "query", k))
      BY <3>1, CommandTaken DEF key
    <3> QED
      BY <2>1, <3>5, <3>6, AsksKept DEF InFlight
  <2>4. CASE cmds # <<>> /\ cmds' = Tail(cmds) /\ Head(cmds).kind # "query"
    BY <2>2, <2>4, CommandTaken
  <2> QED
    BY <1>11, <2>2, <2>3, <2>4, ServerKeeps
<1>12. CASE Outside
  <2> SUFFICES ASSUME link' = "live" PROVE NameAskIsOut'
    BY DEF NameAskIsOut, Attached
  <2>1. UNCHANGED <<selfGuid, pending>>
    BY <1>12 DEF Outside, Unmoved, logoutVars, cacheVars
  <2> QED
    BY <1>12, <2>1, OutsideKeeps, AsksKept DEF InFlight
<1>13. CASE UNCHANGED vars
  <2>1. UNCHANGED <<selfGuid, link, cmds, replies, pending>>
    BY <1>13 DEF vars, wireVars, serverVars, logoutVars, cacheVars
  <2> QED
    BY <2>1, AsksKept DEF InFlight
<1> QED
  BY <1>1, <1>2, <1>6, <1>7, <1>8, <1>9, <1>10, <1>11, <1>12, <1>13 DEF Next

\* In the session it is in, the application waits for no name that was not asked in it:
\* the query or its answer is on the wire (query_cache.rs: what a session's end or entry
\* forgets is asked again).
THEOREM NameAskIsOutHolds == Spec => []NameAskIsOut
<1>1. Init => NameAskIsOut
  BY DEF Init, CacheInit, NameAskIsOut
<1> QED
  BY <1>1, NameAskStep, Inductive, PTL DEF Spec


----------------------------------------------------------------------------
(* The freshness of names.  NamesAreFresh is not inductive: a record still *)
(* to be read must be no older than the last invalidation read and than    *)
(* every invalidation told before it.                                      *)

RecordsAreFresh(s, sn) ==
  \A i \in DOMAIN s : s[i].kind = "record" /\ s[i].key \in Names => s[i].v >= sn[s[i].key]

TellsInOrder(s) ==
  \A i, j \in DOMAIN s :
    i < j /\ s[i].kind = "invalidate" /\ s[j].kind = "record" /\ s[i].key = s[j].key => s[i].v <= s[j].v

Fresh ==
  /\ NamesAreFresh
  /\ RecordsAreFresh(replies, seen) /\ TellsInOrder(replies)
  /\ \A k \in Names : seen[k] <= version[k]

\* An event of no record is told.
LEMMA FreshTold ==
    ASSUME NEW S, NEW s \in Seq(S), NEW e \in S, NEW sn, RecordsAreFresh(s, sn), TellsInOrder(s),
           e.kind # "record"
    PROVE  RecordsAreFresh(Append(s, e), sn) /\ TellsInOrder(Append(s, e))
<1> DEFINE t == Append(s, e)  n == Len(s) + 1
<1>1. /\ n \in Nat /\ DOMAIN s = 1 .. n - 1 /\ DOMAIN t = 1 .. n
      /\ \A i \in 1 .. n - 1 : t[i] = s[i]
      /\ t[n] = e
  BY Grown
<1> HIDE DEF t
<1>2. RecordsAreFresh(t, sn)
  BY <1>1 DEF RecordsAreFresh
<1>3. TellsInOrder(t)
  BY <1>1 DEF TellsInOrder
<1> QED
  BY <1>2, <1>3 DEF t

\* A record is told as the server has it.
LEMMA RecordTold ==
    ASSUME NEW S, NEW s \in Seq(S), NEW e \in S, NEW sn, NEW ver,
           RecordsAreFresh(s, sn), TellsInOrder(s), GoodEvents(s, ver),
           e.key \in Names => e.v >= sn[e.key] /\ e.v = ver[e.key]
    PROVE  RecordsAreFresh(Append(s, e), sn) /\ TellsInOrder(Append(s, e))
<1> DEFINE t == Append(s, e)  n == Len(s) + 1
<1>1. /\ n \in Nat /\ DOMAIN s = 1 .. n - 1 /\ DOMAIN t = 1 .. n
      /\ \A i \in 1 .. n - 1 : t[i] = s[i]
      /\ t[n] = e
  BY Grown
<1> HIDE DEF t
<1>2. RecordsAreFresh(t, sn)
  BY <1>1 DEF RecordsAreFresh
<1>3. TellsInOrder(t)
  BY <1>1 DEF TellsInOrder, GoodEvents, GoodEvent
<1> QED
  BY <1>2, <1>3 DEF t

\* An event of no invalidation is read.
LEMMA FreshRead ==
    ASSUME NEW S, NEW s \in Seq(S), s # <<>>, NEW sn, RecordsAreFresh(s, sn), TellsInOrder(s)
    PROVE  RecordsAreFresh(Tail(s), sn) /\ TellsInOrder(Tail(s))
<1> DEFINE t == Tail(s)  n == Len(s)
<1>1. /\ n \in Nat \ {0} /\ DOMAIN s = 1 .. n /\ DOMAIN t = 1 .. n - 1
      /\ \A i \in 1 .. n - 1 : t[i] = s[i + 1]
  BY Shrunk
<1> HIDE DEF t
<1>2. RecordsAreFresh(t, sn)
  BY <1>1 DEF RecordsAreFresh
<1>3. TellsInOrder(t)
  <2> SUFFICES ASSUME NEW i \in DOMAIN t, NEW j \in DOMAIN t, i < j, t[i].kind = "invalidate",
                      t[j].kind = "record", t[i].key = t[j].key
               PROVE  t[i].v <= t[j].v
    BY DEF TellsInOrder
  <2>1. i + 1 \in DOMAIN s /\ j + 1 \in DOMAIN s /\ i + 1 < j + 1 /\ t[i] = s[i + 1] /\ t[j] = s[j + 1]
    BY <1>1
  <2> QED
    BY <2>1 DEF TellsInOrder
<1> QED
  BY <1>2, <1>3 DEF t

\* An invalidation is read: the records behind it are of its version or a later one.
LEMMA InvalidationRead ==
    ASSUME NEW S, NEW s \in Seq(S), s # <<>>, NEW sn \in [Names -> Int],
           RecordsAreFresh(s, sn), TellsInOrder(s),
           Head(s).kind = "invalidate", Head(s).key \in Names
    PROVE  RecordsAreFresh(Tail(s), [sn EXCEPT ![Head(s).key] = Head(s).v])
<1> DEFINE t == Tail(s)  n == Len(s)
<1>1. /\ n \in Nat \ {0} /\ DOMAIN s = 1 .. n /\ DOMAIN t = 1 .. n - 1
      /\ \A i \in 1 .. n - 1 : t[i] = s[i + 1]
      /\ Head(s) = s[1]
  BY Shrunk
<1> HIDE DEF t
<1>2. SUFFICES ASSUME NEW i \in DOMAIN t, t[i].kind = "record", t[i].key \in Names
               PROVE  t[i].v >= [sn EXCEPT ![Head(s).key] = Head(s).v][t[i].key]
  BY DEF RecordsAreFresh, t
<1>3. i + 1 \in DOMAIN s /\ 1 < i + 1 /\ t[i] = s[i + 1] /\ 1 \in DOMAIN s
  BY <1>1
<1>4. CASE t[i].key = Head(s).key
  <2>1. Head(s).v <= t[i].v
    BY <1>1, <1>2, <1>3, <1>4 DEF TellsInOrder
  <2> QED
    BY <1>2, <1>4, <2>1
<1>5. CASE t[i].key # Head(s).key
  BY <1>2, <1>3, <1>5 DEF RecordsAreFresh
<1> QED
  BY <1>4, <1>5

LEMMA FreshKept ==
    ASSUME IInv, Fresh, UNCHANGED <<answered, seen>>, \A k \in Names : version'[k] >= version[k],
           \A k \in Names : version'[k] \in Int,
           RecordsAreFresh(replies', seen) /\ TellsInOrder(replies')
    PROVE  Fresh'
<1>1. \A k \in Names : seen[k] \in Int /\ version[k] \in Int /\ seen[k] <= version[k]
  BY MovesAssumption DEF IInv, TypeOK, WireTypeOK, Fresh
<1>2. NamesAreFresh'
  BY DEF Fresh, NamesAreFresh, Holds
<1> QED
  BY <1>1, <1>2 DEF Fresh

\* Nothing is told or read.
LEMMA FreshQuiet ==
    ASSUME IInv, Fresh, UNCHANGED <<answered, seen, version, replies>>
    PROVE  Fresh'
  BY DEF Fresh, NamesAreFresh, Holds


\* What the steps tell without a record: one plain event or two.
LEMMA FreshPlain ==
    ASSUME NEW s \in Seq(Messages(Events)), RecordsAreFresh(s, seen), TellsInOrder(s),
           NEW kind \in Events, kind # "record"
    PROVE  /\ Append(s, Plain(kind)) \in Seq(Messages(Events))
           /\ RecordsAreFresh(Append(s, Plain(kind)), seen) /\ TellsInOrder(Append(s, Plain(kind)))
<1>1. Plain(kind) \in Messages(Events) /\ Plain(kind).kind = kind
  BY Built
<1> QED
  BY <1>1, Grown, FreshTold

LEMMA FreshPair ==
    ASSUME NEW s \in Seq(Messages(Events)), RecordsAreFresh(s, seen), TellsInOrder(s),
           NEW a \in Events, NEW b \in Events, a # "record", b # "record"
    PROVE  RecordsAreFresh(s \o <<Plain(a), Plain(b)>>, seen) /\ TellsInOrder(s \o <<Plain(a), Plain(b)>>)
<1> DEFINE r == Append(s, Plain(a))
<1>1. r \in Seq(Messages(Events)) /\ RecordsAreFresh(r, seen) /\ TellsInOrder(r)
  BY FreshPlain
<1>2. s \o <<Plain(a), Plain(b)>> = Append(r, Plain(b))
  <2>1. Plain(a) \in Messages(Events) /\ Plain(b) \in Messages(Events)
    BY Built
  <2> QED
    BY <2>1, TwoMore
<1> HIDE DEF r
<1> QED
  BY <1>1, <1>2, FreshPlain

LEMMA FreshAnswers == IInv /\ Fresh /\ Answers => Fresh'
<1> SUFFICES ASSUME IInv, Fresh, Answers PROVE Fresh'
  OBVIOUS
<1>1. /\ replies \in Seq(Messages(Events)) /\ RecordsAreFresh(replies, seen) /\ TellsInOrder(replies)
      /\ \A k \in Names : version[k] \in Int /\ seen[k] \in Int /\ seen[k] <= version[k]
      /\ GoodEvents(replies, version)
  BY MovesAssumption DEF IInv, TypeOK, WireTypeOK, Fresh
<1>2. UNCHANGED <<answered, seen, version>>
  BY DEF Answers, Unmoved, cacheVars, Serve, ServeQuery, ServeLogout, ServeCancel, ServeForce, ServeAck,
         Admit, CampEnds, serverVars
<1>3. SUFFICES RecordsAreFresh(replies', seen) /\ TellsInOrder(replies')
  BY <1>1, <1>2, FreshKept
<1>4. ASSUME NEW a \in Events, a # "record", replies' = Append(replies, Plain(a))
      PROVE  RecordsAreFresh(replies', seen) /\ TellsInOrder(replies')
  BY <1>1, <1>4, FreshPlain
<1>5. ASSUME NEW a \in Events, a # "record", NEW b \in Events, b # "record",
             replies' = replies \o <<Plain(a), Plain(b)>>
      PROVE  RecordsAreFresh(replies', seen) /\ TellsInOrder(replies')
  BY <1>1, <1>5, FreshPair
<1>6. CASE ServeQuery
  <2> DEFINE k == Head(cmds).key  n == IF k \in Names THEN version[k] ELSE 0
  <2>1. k \in Keys
    BY <1>6, CommandsShrink DEF ServeQuery, Reads, IInv, TypeOK, WireTypeOK
  <2>2. n \in 0 .. Top /\ 0 \in 0 .. Top
    BY MovesAssumption DEF Top, IInv, TypeOK, WireTypeOK
  <2>3. CASE replies' = Append(replies, Msg("refusal", k, 0))
    <3>1. Msg("refusal", k, 0) \in Messages(Events) /\ Msg("refusal", k, 0).kind # "record"
      BY <2>1, <2>2, Built DEF Events
    <3> QED
      BY <1>1, <2>3, <3>1, FreshTold
  <2>4. CASE replies' = Append(replies, Msg("record", k, n))
    <3>1. /\ Msg("record", k, n) \in Messages(Events)
          /\ Msg("record", k, n).key = k /\ Msg("record", k, n).v = n
      BY <2>1, <2>2, Built DEF Events
    <3>2. k \in Names => n >= seen[k] /\ n = version[k]
      BY <1>1
    <3> HIDE DEF n
    <3> QED
      BY <1>1, <2>4, <3>1, <3>2, RecordTold
  <2> QED
    BY <1>6, <2>3, <2>4 DEF ServeQuery
<1>7. CASE ServeLogout
  <2>1. ASSUME NEW n \in {Timed, Instant, Refused}
        PROVE  /\ Append(replies, Msg("response", NoKey, n)) \in Seq(Messages(Events))
               /\ RecordsAreFresh(Append(replies, Msg("response", NoKey, n)), seen)
               /\ TellsInOrder(Append(replies, Msg("response", NoKey, n)))
    <3>1. n \in 0 .. Top /\ "response" \in Events /\ NoKey \in Keys \cup {NoKey}
      BY MovesAssumption DEF Timed, Instant, Refused, Top, Events
    <3>2. Msg("response", NoKey, n) \in Messages(Events) /\ Msg("response", NoKey, n).kind = "response"
      BY <3>1, Built
    <3> QED
      BY <1>1, <3>2, Grown, FreshTold
  <2>2. \/ \E n \in {Timed, Instant, Refused} : replies' = Append(replies, Msg("response", NoKey, n))
        \/ replies' = Append(replies, Msg("response", NoKey, Instant)) \o <<Plain("loggedOut"), Plain("disconnected")>>
    BY <1>7 DEF ServeLogout, Completed
  <2> QED
    BY <2>1, <2>2, FreshPair DEF Events
<1>8. CASE ServeCancel
  BY <1>4, <1>8 DEF ServeCancel, Events
<1>9. CASE ServeForce
  BY <1>5, <1>9 DEF ServeForce, Completed, Events
<1>10. CASE ServeAck
  BY <1>1, <1>4, <1>10 DEF ServeAck, Events
<1>11. CASE Admit
  BY <1>4, <1>5, <1>11 DEF Admit, Events
<1>12. CASE CampEnds
  BY <1>5, <1>12 DEF CampEnds, Completed, Events
<1> QED
  BY <1>6, <1>7, <1>8, <1>9, <1>10, <1>11, <1>12 DEF Answers, Serve

LEMMA FreshOutside == IInv /\ Fresh /\ (Outside \/ Pick) => Fresh'
<1> SUFFICES ASSUME IInv, Fresh, Outside \/ Pick PROVE Fresh'
  OBVIOUS
<1>1. /\ replies \in Seq(Messages(Events)) /\ RecordsAreFresh(replies, seen) /\ TellsInOrder(replies)
      /\ version \in [Names -> 0 .. MaxMoves] /\ \A k \in Names : version[k] \in Int
  BY MovesAssumption DEF IInv, TypeOK, WireTypeOK, Fresh
<1>2. UNCHANGED <<answered, seen>>
  BY DEF Outside, Unmoved, Pick, cacheVars
<1>3. ASSUME NEW a \in Events, a # "record", replies' = Append(replies, Plain(a)), version' = version
      PROVE  Fresh'
  <2>1. RecordsAreFresh(replies', seen) /\ TellsInOrder(replies')
    BY <1>1, <1>3, FreshPlain
  <2> QED
    BY <1>1, <1>2, <1>3, <2>1, FreshKept
<1>4. CASE DropCommand
  BY <1>2, <1>4, FreshQuiet DEF DropCommand, serverVars
<1>5. CASE Transfer
  BY <1>3, <1>5 DEF Transfer, Events
<1>6. CASE LoseLink
  BY <1>3, <1>6 DEF LoseLink, Events
<1>7. CASE Pick
  BY <1>3, <1>7 DEF Pick, Enter, Events
<1>8. ASSUME NEW k \in Names, Rename(k) PROVE Fresh'
  <2>1. /\ replies' = Append(replies, Msg("invalidate", k, version[k] + 1)) /\ moves < MaxMoves
        /\ version' = [version EXCEPT ![k] = @ + 1]
    BY <1>8 DEF Rename
  <2>2. version[k] \in Nat /\ version[k] <= moves /\ moves \in Nat
    BY MovesAssumption DEF IInv, TypeOK, WireTypeOK, Counted
  <2>3. version[k] + 1 \in 0 .. Top /\ k \in Keys \cup {NoKey}
    BY <2>1, <2>2, MovesAssumption DEF Top, Keys
  <2>4. Msg("invalidate", k, version[k] + 1) \in Messages(Events) /\ Msg("invalidate", k, version[k] + 1).kind # "record"
    BY <2>3, Built DEF Events
  <2>5. RecordsAreFresh(replies', seen) /\ TellsInOrder(replies')
    BY <1>1, <2>1, <2>4, FreshTold
  <2>6. \A x \in Names : version'[x] \in Int /\ version'[x] >= version[x]
    BY <1>1, <2>1, MovesAssumption
  <2> QED
    BY <1>2, <2>5, <2>6, FreshKept
<1> QED
  BY <1>4, <1>5, <1>6, <1>7, <1>8 DEF Outside

LEMMA FreshDispatch == IInv /\ Fresh /\ Dispatch => Fresh'
<1> SUFFICES ASSUME IInv, Fresh, Dispatch PROVE Fresh'
  OBVIOUS
<1>1. /\ replies \in Seq(Messages(Events)) /\ RecordsAreFresh(replies, seen) /\ TellsInOrder(replies)
      /\ seen \in [Names -> 0 .. MaxMoves] /\ answered \in [Keys -> NoRecord .. MaxMoves]
      /\ \A k \in Names : k \in Keys /\ seen[k] \in Int /\ version[k] \in Int /\ seen[k] <= version[k]
      /\ NamesAreFresh
  BY MovesAssumption DEF IInv, TypeOK, WireTypeOK, CacheTypeOK, Fresh, Keys
<1>2. ASSUME NEW kind, Takes(kind), seen' = seen, NamesAreFresh'
      PROVE  Fresh'
  <2>1. replies' = Tail(replies) /\ replies # <<>> /\ version' = version
    BY <1>2, Taken
  <2> QED
    BY <1>1, <1>2, <2>1, FreshRead DEF Fresh
<1>3. ASSUME UNCHANGED <<answered, seen>> PROVE NamesAreFresh'
  BY <1>1, <1>3 DEF NamesAreFresh, Holds
<1>4. CASE OnConnected
  <2>1. Takes("connected") /\ seen' = seen /\ answered' = [k \in Keys |-> IF k \in Names THEN NoRecord ELSE answered[k]]
    BY <1>4 DEF OnConnected, ClearNames
  <2> QED
    BY <1>1, <1>2, <2>1 DEF NamesAreFresh, Holds
<1>5. CASE OnWorldport \/ OnNewWorld \/ OnArrival \/ OnResponse \/ OnLogoutCancelled \/ OnLoggedOut
           \/ OnLoginFailed \/ OnDisconnected
  <2>1. (\E kind : Takes(kind)) /\ UNCHANGED <<answered, seen>>
    BY <1>5 DEF OnWorldport, OnNewWorld, OnArrival, OnResponse, OnLogoutCancelled, OnLoggedOut,
                OnLoginFailed, OnDisconnected, ClearPending, cacheVars
  <2> QED
    BY <1>2, <1>3, <2>1
<1>6. CASE OnRecord
  <2> DEFINE k == Head(replies).key  n == Head(replies).v
  <2>1. Takes("record") /\ seen' = seen /\ answered' = [answered EXCEPT ![k] = n]
    BY <1>6 DEF OnRecord, Insert
  <2>2. replies # <<>> /\ Head(replies).kind = "record" /\ 1 \in DOMAIN replies /\ Head(replies) = replies[1]
    BY <1>1, <2>1, Taken, Shrunk
  <2>3. k \in Names => n >= seen[k]
    BY <1>1, <2>2 DEF RecordsAreFresh
  <2> HIDE DEF k, n
  <2>4. NamesAreFresh'
    BY <1>1, <2>1, <2>3 DEF NamesAreFresh, Holds
  <2> QED
    BY <1>2, <2>1, <2>4
<1>7. CASE OnRefusal
  <2> DEFINE k == Head(replies).key
  <2>1. Takes("refusal") /\ seen' = seen /\ answered' = [answered EXCEPT ![k] = NoRecord]
    BY <1>7 DEF OnRefusal, Refuse
  <2> HIDE DEF k
  <2>2. NamesAreFresh'
    BY <1>1, <2>1 DEF NamesAreFresh, Holds
  <2> QED
    BY <1>2, <2>1, <2>2
<1>8. CASE OnInvalidate
  <2> DEFINE k == Head(replies).key  n == Head(replies).v
  <2>1. /\ Takes("invalidate") /\ seen' = [seen EXCEPT ![k] = n] /\ answered' = [answered EXCEPT ![k] = NoRecord]
    BY <1>8 DEF OnInvalidate, Evict
  <2>2. /\ replies # <<>> /\ replies' = Tail(replies) /\ Head(replies).kind = "invalidate"
        /\ version' = version /\ GoodEvent(Head(replies), version) /\ n \in Nat
    BY <2>1, Taken, Fields
  <2>3. k \in Names /\ n <= version[k]
    BY <2>2 DEF GoodEvent
  <2>4. RecordsAreFresh(replies', seen') /\ TellsInOrder(replies')
    <3>1. seen \in [Names -> Int]
      BY <1>1, MovesAssumption
    <3> QED
      BY <1>1, <2>1, <2>2, <2>3, <3>1, InvalidationRead, FreshRead
  <2> HIDE DEF k, n
  <2>5. NamesAreFresh'
    BY <1>1, <2>1 DEF NamesAreFresh, Holds
  <2>6. \A x \in Names : seen'[x] <= version'[x]
    BY <1>1, <2>1, <2>2, <2>3
  <2> QED
    BY <2>4, <2>5, <2>6 DEF Fresh
<1> QED
  BY <1>4, <1>5, <1>6, <1>7, <1>8 DEF Dispatch

LEMMA FreshStep == IInv /\ Fresh /\ [Next]_vars => Fresh'
<1> SUFFICES ASSUME IInv, Fresh, [Next]_vars PROVE Fresh'
  OBVIOUS
<1>1. CASE StartFrame \/ EndFrame \/ Verb \/ Expiry \/ UNCHANGED vars
  <2>1. UNCHANGED <<answered, seen, version, replies>>
    BY <1>1 DEF StartFrame, EndFrame, Verb, Expiry, vars, wireVars, serverVars, cacheVars
  <2> QED
    BY <2>1, FreshQuiet
<1>2. ASSUME NEW k \in Keys, NEW relook \in BOOLEAN, Ask(k, relook) PROVE Fresh'
  <2>1. UNCHANGED <<answered, seen, version, replies>>
    BY <1>2 DEF Ask, AskIf, serverVars
  <2> QED
    BY <2>1, FreshQuiet
<1> QED
  BY <1>1, <1>2, FreshDispatch, FreshAnswers, FreshOutside DEF Next

\* A held name is never older than the last invalidation the session dispatched
\* (query_cache.rs, evict: an answer a rename overtook goes with the eviction).
THEOREM NamesAreFreshHolds == Spec => []NamesAreFresh
<1>1. Init => Fresh
  <2> SUFFICES ASSUME Init PROVE Fresh
    OBVIOUS
  <2>1. /\ replies = <<>> /\ answered = [k \in Keys |-> NoRecord]
        /\ version \in [Names -> {0}] /\ seen \in [Names -> {0}]
    BY DEF Init, WireInit, CacheInit
  <2>2. \A k \in Names : ~Holds(k) /\ seen[k] = 0 /\ version[k] = 0
    BY <2>1 DEF Holds, Keys
  <2> QED
    BY <2>1, <2>2 DEF Fresh, NamesAreFresh, RecordsAreFresh, TellsInOrder
<1>2. Fresh => NamesAreFresh
  BY DEF Fresh
<1> QED
  BY <1>1, <1>2, FreshStep, Inductive, PTL DEF Spec


=============================================================================
