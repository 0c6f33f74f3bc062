----------------------------- MODULE WorldTalk -----------------------------
(***************************************************************************)
(* The application's side of a world session: the logout's state and the   *)
(* query caches over one wire, through the frames that dispatch the        *)
(* session's events.  A frame begins with the leave a posted world load    *)
(* runs and the client state's transition, dispatches events, runs the     *)
(* interface, and ends with the exit the logout asks for.                  *)
(***************************************************************************)
EXTENDS Logout, QueryCache

CONSTANT MaxActs  \* bound: world entries, the player's verbs and the readers' asks, together

ASSUME ActsAssumption == MaxActs \in Nat

VARIABLES
  stage,    \* the client: "glue", "entering", "world", "leaving"
  inFrame,  \* between the frame's start and its end
  posted,   \* PendingWorldports holds a load
  seen,     \* history: the version of the last invalidation dispatched, by name
  acts

appVars == <<stage, inFrame, posted>>
vars == <<wireVars, logoutVars, cacheVars, appVars, seen, acts>>

Init ==
  /\ WireInit /\ LogoutInit /\ CacheInit
  /\ stage = "glue" /\ inFrame = FALSE /\ posted = FALSE
  /\ seen = [k \in Names |-> 0]
  /\ acts = 0

-----------------------------------------------------------------------------
\* The frame's start: a posted load leaves the world, then the transition closes the
\* interface of a session that ended. The load's ack is sent with the leave here; in
\* the code it goes out at the end of the hold over the load, which WorldArrival models.
StartFrame ==
  /\ ~inFrame /\ inFrame' = TRUE
  /\ LET calledOff == posted /\ logoutPending
         hides == calledOff /\ dialog = "up" IN
       /\ logoutPending' = (logoutPending /\ ~calledOff)
       /\ worldHandle' = (worldHandle /\ ~posted)
       /\ cmds' = AddIf(AddIf(cmds, hides, Plain("logoutCancel")), posted, Plain("worldportAck"))
       /\ dialog' = IF hides \/ stage = "leaving" THEN "none" ELSE dialog
  /\ posted' = FALSE
  /\ stage' = IF stage = "leaving" THEN "glue" ELSE stage
  /\ UNCHANGED <<serverVars, replies, quitting, selfGuid, exitVars, cacheVars, seen, acts>>

EndFrame ==
  /\ inFrame /\ inFrame' = FALSE
  /\ ExitOnLogoutComplete
  /\ UNCHANGED <<wireVars, cacheVars, stage, posted, seen, acts>>

\* The next event of the frame's dispatch.
Takes(kind) ==
  /\ inFrame
  /\ replies # <<>> /\ Head(replies).kind = kind
  /\ replies' = Tail(replies)
  /\ UNCHANGED <<serverVars, inFrame, acts>>

\* The entry starts the names anew. The character's own name, which it seeds, is not
\* among Names: nothing asks for it.
OnConnected ==
  /\ Takes("connected")
  /\ selfGuid' = TRUE /\ stage' = "entering"
  /\ ClearNames
  /\ UNCHANGED <<cmds, logoutState, exitVars, dialog, posted, seen>>

\* The login's worldport, the map another.
OnWorldport ==
  /\ Takes("worldport")
  /\ ApplyLeftWorld
  /\ UNCHANGED <<quitting, selfGuid, exitVars, cacheVars, stage, posted, seen>>

OnNewWorld ==
  /\ Takes("newWorld")
  /\ posted' = TRUE
  /\ UNCHANGED <<cmds, logoutVars, cacheVars, stage, seen>>

OnArrival ==
  /\ Takes("arrival")
  /\ SetInWorld
  /\ stage' = "world"
  /\ UNCHANGED <<cacheVars, posted, seen>>

OnResponse ==
  /\ Takes("response")
  /\ ApplyResponse(Head(replies).v)
  /\ UNCHANGED <<cacheVars, stage, posted, seen>>

OnLogoutCancelled ==
  /\ Takes("logoutCancelled")
  /\ ApplyCancelled
  /\ UNCHANGED <<cacheVars, stage, posted, seen>>

OnLoggedOut ==
  /\ Takes("loggedOut")
  /\ ApplyLeftWorld
  /\ selfGuid' = FALSE /\ loggedOut' = TRUE /\ stage' = "leaving"
  /\ UNCHANGED <<quitting, exitPosted, exiting, cacheVars, posted, seen>>

OnLoginFailed ==
  /\ Takes("loginFailed")
  /\ ApplyLeftWorld
  /\ stage' = "leaving"
  /\ UNCHANGED <<quitting, selfGuid, exitVars, cacheVars, posted, seen>>

\* A session's end that leaves the world without the transition.
OnDisconnectedToGlue ==
  /\ Takes("disconnected")
  /\ selfGuid' = FALSE /\ stage' = "glue"
  /\ ClearPending
  /\ UNCHANGED <<cmds, logoutState, exitVars, dialog, posted, seen>>

OnDisconnected ==
  /\ Takes("disconnected")
  /\ selfGuid' = FALSE
  /\ stage' = IF stage = "glue" THEN "glue" ELSE "leaving"
  /\ ClearPending
  /\ UNCHANGED <<cmds, logoutState, exitVars, dialog, posted, seen>>

OnRecord ==
  /\ Takes("record")
  /\ Insert(Head(replies).key, Head(replies).v)
  /\ UNCHANGED <<cmds, logoutVars, stage, posted, seen>>

OnRefusal ==
  /\ Takes("refusal")
  /\ Refuse(Head(replies).key)
  /\ UNCHANGED <<cmds, logoutVars, stage, posted, seen>>

OnInvalidate ==
  /\ Takes("invalidate")
  /\ Evict(Head(replies).key)
  /\ seen' = [seen EXCEPT ![Head(replies).key] = Head(replies).v]
  /\ UNCHANGED <<cmds, logoutVars, stage, posted>>

Dispatch ==
  \/ OnConnected \/ OnWorldport \/ OnNewWorld \/ OnArrival \/ OnResponse \/ OnLogoutCancelled
  \/ OnLoggedOut \/ OnLoginFailed \/ OnDisconnected \/ OnRecord \/ OnRefusal \/ OnInvalidate

-----------------------------------------------------------------------------
\* The interface of the world runs in every frame from the entry to the transition
\* that closes it.
Runs == inFrame /\ stage # "glue"

Verb ==
  /\ Runs /\ acts < MaxActs /\ acts' = acts + 1
  /\ \/ \E quit \in BOOLEAN : LogoutVerb(quit)
     \/ CancelLogout \/ ForceQuit \/ ForceLogout
     \/ CloseDialog
  /\ UNCHANGED <<serverVars, replies, cacheVars, appVars, seen>>

Expiry ==
  /\ Runs /\ DialogExpires
  /\ UNCHANGED <<serverVars, replies, cacheVars, appVars, seen, acts>>

Ask(k, relook) ==
  /\ Runs /\ acts < MaxActs /\ acts' = acts + 1
  /\ AskIf(k, relook)
  /\ UNCHANGED <<serverVars, replies, logoutVars, appVars, seen>>

\* What happens off the application's thread.
Unmoved == UNCHANGED <<logoutVars, cacheVars, appVars, seen, acts>>

Answers == (Serve \/ Admit \/ CampEnds) /\ Unmoved

Outside ==
  /\ \/ DropCommand \/ Transfer \/ LoseLink
     \/ \E k \in Names : Rename(k)
  /\ Unmoved

\* A character is picked at the glue, after a new login when the link was lost; one
\* pick waits for its session at a time.
Pick ==
  /\ stage = "glue" /\ ~Has(replies, "connected")
  /\ acts < MaxActs /\ acts' = acts + 1
  /\ Enter
  /\ UNCHANGED <<logoutVars, cacheVars, appVars, seen>>

Next ==
  /\ ~exiting
  /\ \/ StartFrame \/ EndFrame \/ Dispatch
     \/ Verb \/ Expiry \/ \E k \in Keys, relook \in BOOLEAN : Ask(k, relook)
     \/ Pick \/ Answers \/ Outside

Spec == Init /\ [][Next]_vars

\* Frames come and each drains what was read; the server answers what it reads,
\* lets a character in or turns it away, and its countdown ends.
FairSpec ==
  /\ Spec
  /\ WF_vars(~exiting /\ (StartFrame \/ EndFrame)) /\ SF_vars(~exiting /\ Dispatch)
  /\ WF_vars(~exiting /\ Answers)

-----------------------------------------------------------------------------
TypeOK ==
  /\ WireTypeOK /\ LogoutTypeOK /\ CacheTypeOK
  /\ stage \in {"glue", "entering", "world", "leaving"}
  /\ inFrame \in BOOLEAN /\ posted \in BOOLEAN
  /\ stage = "glue" => dialog = "none"
  /\ seen \in [Names -> 0 .. MaxMoves]
  /\ acts \in 0 .. MaxActs

\* A held name is never older than the last invalidation the session dispatched: a
\* query's answer overtaken by a rename is evicted with it (query_cache.rs, evict).
NamesAreFresh == \A k \in Names : Holds(k) => answered[k] >= seen[k]

InFlight(k) == HasOf(cmds, "query", k) \/ HasOf(replies, "record", k) \/ HasOf(replies, "refusal", k)

\* The session the application is in is the one on the wire.
Attached == selfGuid /\ link = "live" /\ ~Has(replies, "connected")

\* A name that reads pending has its query or its answer on the wire of this
\* session: none is waited for that was never asked here.
NameAskIsOut == Attached => \A k \in pending \cap Names : InFlight(k)

\* The same of every store, as the saved stores' clear at the session's end means
\* it (wdb.rs, clear_saved_asks): what a lost link dropped is asked again.
AskIsOut == Attached => \A k \in pending : InFlight(k)

\* What will clear the pending byte: the request or the countdown at the server, a
\* reply that calls it off, or an arrival still to come.
Owed ==
  \/ Has(cmds, "logout") \/ server \in {"entering", "camping"}
  \/ \E e \in {"loggedOut", "loginFailed", "worldport", "newWorld", "arrival"} : Has(replies, e)
  \/ Has(replies, "logoutCancelled") \/ HasReading(replies, Refused)
  \/ posted \/ loggedOut

\* A pending logout is never left waiting on a live link: something under way will
\* clear it (ui_logout.rs; else every later request would be dropped silently).
PendingIsOwed == logoutPending /\ link = "live" => Owed

\* The server never counts the player out unseen: its countdown shows, ran out on
\* the screen, is about to show or has its cancel on the way.
CountdownIsShown ==
  server = "camping" =>
    \/ dialog # "none"
    \/ HasReading(replies, Timed)
    \/ Has(cmds, "logoutCancel")

\* A request ends: answered, called off or gone with its link.
LogoutEnds == logoutPending ~> (~logoutPending \/ link # "live" \/ exiting)

\* A name asked in a session is answered in it, as long as its link lasts.
NamesAreAnswered ==
  \A k \in Names : (k \in pending /\ Attached) ~> (k \notin pending \/ ~Attached \/ exiting)
=============================================================================
