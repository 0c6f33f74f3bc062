# Verification of benilla's sessions and world stream

benilla is a Rust client of a 1.12 game server, built on the bevy engine. This directory holds
TLA+ models of the parts of it that run concurrently or across many frames, the TLC runs that
check them on small instances, and the proofs of the properties that hold for every instance.
`PROJECT.json` is the index: components, runs, mutants, the source lines each definition models,
findings, hazards and theorems.

Paths below are relative to `src/crates/benilla-app/src`; `terrain_stream.rs` and the files under
`terrain_stream/` are those of `src/crates/benilla-world/src`.

## 1. Inventory

### Threads and the frame

The client has one app thread (bevy's schedule) and two net threads that `net/io.rs::spawn_net`
starts. They share four channels (credentials, park requests, commands, session events), the swap
channel between the net threads, one atomic counter (`LoginAbandon`, the abandon generation) and
the `PingClock` under a lock. The order of one app frame that matters here is:

1. `First` and `PreUpdate`: `run_pending_entry_load`, `count_entry_cover`.
2. `StateTransition`: `ClientState` moves; glue VM rebuilt, entry load armed, session UI closed.
3. `Update`, `WorldStage::Net`: `apply_net_updates` drains the event channel through the hold.
4. `drive_glue_mgr`, then `LoginPolicy` behind it; `SessionEdges` anywhere behind `Net`;
   `answer_reconnect` behind the edges.
5. `WorldStage::Control`: the body's step, then `publish_view_focus`.
6. `WorldStage::Stream`: the streamer's systems, one chain (`TerrainPlugin::build`).
7. `WorldStage::Present`: `release_post_snap_hold`.

Beside the threads, the asset server reads tiles and models and a task pool builds colliders; both
are heard of between frames, or at one place of the chain.

### Components

| Component | State it keeps | Operations | Talks to | Modelled |
|---|---|---|---|---|
| Read thread (`net/io.rs` run, world, stream, parks) | the logon, the dial, the link, `WORLD_EPOCH` | logon, query, dial, queue, authenticate, enumerate, play, stream, return, lose | request channels, events, abandon generation | `ReadThread` |
| Write thread and keepalive (`net/io.rs` writer_loop, PingClock) | the writing half, the ping timer, the round-trip ring | install, reclaim, command, ping | swap and command channels | `WriterHandoff` |
| Glue manager (`ui_script/glue_mgr.rs`) | screen state, the one operation, outbox, holder, realm, link and roster | login, cancel, connect, list, roster, enter, back, all news | stock Lua, login engine, park channel | `GlueManager` |
| Glue session systems (`glue_session/`) | the login attempt, `pending_pick`, the next `ClientState` | answer_glue, to_select_on_auth, session edges, roster policy, reconnect | manager, both channels | `NetSession` |
| Client states and VM life (`client_state.rs`, `ui_script/lifecycle.rs`) | `ClientState`, `PendingEntryUiLoad` | transitions, load, close | hold, manager | `NetSession`, `InboundHold` |
| Inbound hold (`net/apply.rs`) | held events, the arm | admit, release, dispatch | event channel, entry load | `InboundHold` |
| Logout countdown (`ui_logout.rs`) | pending, quitting, world handle | request, cancel, force, response, ack, left world, exit | commands, packets, dialog | `Logout` |
| Query caches (`query_cache.rs`, `names.rs`, `wdb.rs`) | answered, pending, refused | lookup, insert, refuse, evict, clear_pending, clear | commands, packets | `QueryCache` |
| Terrain streamer (`terrain_stream.rs`, `terrain_stream/`) | map, window, tiles, placements with counts and owners, pending work, weld batches, colliders, progress, residency | swap, request, unload, wait, attach, spawn, furnish, retire, weld, publish, release | view focus, asset server, mover, hold | `TerrainStream` |
| World arrival and settle hold (`player/`) | settling, stale, reload, the owed ack | login, transfer, teleport, shot, session end, focus, release | streamer, server | `WorldArrival` |
| Queue estimate (`glue_session/queue.rs`) | 8-sample ring of positions and ticks | sample, text | manager | no |
| Protocol codec and header cipher (`benilla-protocol`, `benilla-srp`) | two cipher states | encode, decode | sockets | no |
| Logon and SRP6 | 256-bit arithmetic | prove, verify | socket | no: out of TLC's reach; its outcome is a choice |
| Movement (`player/controller.rs`, `movement_net.rs`) | pose, pending acknowledgements | move, ack | commands, packets | of a step only its chunk |
| Renderer, widget engine, Lua, formats, media | large, mostly data | | | no, see section 7 |

What makes each modelled component correct:

* Read thread: the events it tells follow a protocol the app can rely on (a number never reused,
  the loss told once and last), and no request of one park answers another.
* Write thread: a command reaches its own entry's socket half, a reclaim gets back the right half
  and is always answered, two writers never share a link, round trips of two links never mix.
* Glue manager and session systems: no dialog waits for something that will not come; the link
  flag is true; the app is in the world exactly while it is streamed; the player's pick enters
  only the session and the visit it was made in.
* Inbound hold: events are handled once and in wire order, none ahead of its interface; the hold
  ends.
* Logout: the pending byte, which silences every further request, stands only while something will
  clear it; a player being counted out at the server has the countdown before him.
* Query caches: a key is a record, an ask or a refusal; a key that reads pending was asked in this
  session; a name older than its last invalidation is not held.
* Terrain streamer: reference counts, owners, hulls and the pending count are exact through every
  load, unload, handover and map swap; what the mover is told is ground has its collider.
* Arrival: a body is let go as arrived only onto its own map's finished ground; the ack a server
  waits for always has the release it goes out at.

### What is hard

The read thread reads the abandon generation at stage boundaries only and blocks in between, so a
Cancel may land on either side of any boundary. Requests queue for a thread that is elsewhere by
the time it reads them. Stage, list and queue events carry no number of the attempt they belong
to. Two systems of one frame write the same `NextState` and the same `pending_pick`, and are not
ordered against each other. A session may end while its events are held, while a roster is asked,
while a reclaim is blocked, while a countdown runs or a query is in flight. A cancel crosses the
response it cancels, a rename the answer it makes old. Tiles that share a placement load and unload
frames apart, with maps swapped between; the facts of a load are published ahead of the same frame's
work and judged behind it. `PROJECT.json` lists each hazard with its line and its properties.

## 2. The modules

| Module | Lines of code it stands for | Role |
|---|---|---|
| `SessionProtocol` | | abstract: the order of session events the app may rely on |
| `ReadThread` | `net/io.rs` 276-1249 | the read thread, requests and generation included |
| `ReadThread_proofs` | | it implements `SessionProtocol` |
| `GlueManager` | `ui_script/glue_mgr.rs` | the manager as a record, each `GlueMgr` function an operator |
| `NetSession` | `glue_session/`, `drive_glue_mgr`, `client_state.rs` | composes the two with the app's frame and the player |
| `GlueManager_proofs` | | what every operator keeps, and that a pump runs out |
| `NetSession_proofs` | | its types, the protocol with the app around the thread, the last word |
| `NetConversation_proofs` | | the app and the thread by the stages of their conversation: dialogs are answered, picks stay in their world |
| `MCNetSession` | | instances of `NetSession` |
| `WriterHandoff` | `net/io.rs` 101-169, 251-358, 1041-1114, 1264-1405 | both net threads around the swap channel |
| `WriterHandoff_proofs` | | its inductive invariant and safety |
| `MCWriterHandoff` | | instances of `WriterHandoff` |
| `WireOrder` | | abstract: a queue that delivers once, in order |
| `InboundHold` | `net/apply.rs`, `lifecycle.rs`, `loading_screen.rs` | the hold across a frame's phases |
| `InboundHold_proofs` | | it implements `WireOrder` |
| `WorldWire` | `net/io.rs` commands and events of a world session | the two channels and the server behind them |
| `Logout` | `ui_logout.rs` | the logout's state, verbs and handlers |
| `QueryCache` | `query_cache.rs` | the ask-once cache, saved and unsaved stores |
| `WorldTalk` | `net/session.rs`, `names.rs`, `wdb.rs` | composes the three in the app's frames |
| `WorldTalk_proofs` | | its types and safety properties |
| `TerrainStream` | `terrain_stream.rs`, `terrain_stream/` | the stream chain, system by system |
| `WorldArrival` | `player/world_focus.rs`, `player/wire_in.rs` | composes the streamer with the body it holds |
| `MCWorldArrival` | | a strip of three tiles and a map of one building |
| `WorldArrival_proofs` | | types, counts, pending work, owners, hulls, residency, held ground, the ground a body is let go on, the ack |

### ReadThread

`pc` is the place in `run` and `world`. The three places where the thread drains the park channel
(`drainLogon`, `drainWorld`, and the `drainBack` of a logout or a refusal) are steps of their own,
and so is every read of the generation, because the app may act between any two. A request taken
and its answer are one step: the app sees neither half. The logon, the dial and the handshake end
in each outcome they can have, which stands for the server, the socket and SRP6. The `era` of a
pick and `returns` are history: which visit of character select the pick was made in.

### GlueManager

A manager is a record `m`; `login`, `connect_to_realm`, `on_roster` and the others are operators
from managers to managers, composed as the code calls them. What a call raises waits in `outbox`
until `Pump` takes it to the Lua. The stock screens' handlers, which are not in the repository,
are external definitions (`Handle`, `Signals`), written from the signals `glue_mgr.rs` raises and
the calls it exports. A handler may raise again, and what it raises goes ahead of what waits
(`at_front`): `RunOut` takes an item with all it raises, which is four levels at most, and `Pump` is
a recursive function over the items. That four are enough is a theorem (`PumpRests`).

A failed logon ends the manager's state 1, but for one reason: a proof's 0x0A says nothing
(`realmd_result`, `on_failed`), so the dialog stays up with the read thread back at its park, until the
player dismisses it or the thread tells of another logon's stage; a challenge's 0x0A stands likewise under
its patch notice. `OnLogonFailed` has all three ends, and the history field `stands` says that the dialog is
up for this reason. `Dismiss` is the player's Cancel of such a dialog (`DialogStands`).

### NetSession

One `Frame` drains the events, applies at most one press, drives the manager and the login policy,
and leaves the sends in `out`. `Send` then makes them one at a time, so the read thread runs
between any two of them, and between a Cancel's bump of the generation and the requests around it.
`Transition` is the next frame's `StateTransition`.

**The frame's order.** `SessionEdges` are ordered behind `Net` and against nothing else. `Places` lets them
and `answer_reconnect` run ahead of the manager, between the manager and the login policy, or behind both, in
every passing run. Two races inside a frame depend on that order, an `EnterWorld` press and an authentication,
each in the frame that drains a loss. Both are real: the second is finding 2, and with the first, the edges
ahead of the manager, a pick made in the frame of the loss survives it (`glue_session/edges.rs:69`). `Races`
says which of them an instance lets happen; with a race left out, the edges run last in *those* frames only.
Each race has a run that lets it happen and a finding (`pick_race`, `lost_last_word`); `session` leaves both
out, because the first alone breaks all of its properties but `LostIsLastWord`, and `session_all` has both.

**The player** presses what the screen offers (`Offered`), `MaxPresses` times. A logout is the
server's answer to a player in the world, so it comes only when the client state is `InWorld`. The
run is attended: the unattended reconnects and the smoke rigs are not modelled.

### WriterHandoff

Links and entries are numbered, and a socket half is named by both, so a property can say *whose*
half a thread holds. `writer_loop`'s `select!` is a choice among `TakeSwap`, `TakeCommand` and
`PingTick`; a command in hand first drains the swap channel (`DrainSwap`) and is then written or
dropped (`Dispose`). The read thread's side of the hand-over (install, announce, end, reclaim, rejoin) is
one action per statement that the other thread can see between.

### InboundHold

A frame is `Load`, `Transition`, `Drain`, `Admit` per event, `Dispatch`; the read thread posts
between any two. `handled` is history. `PolicyNexts` contains the player's Disconnect at character
select, which can override an entry; it is how a hold comes to wait for no load at all. `Presented`
counts the cover's frames up to `CoverFrames` (`COVER_PRESENT_FRAMES` = 3), so the frames' own weak
fairness carries the load. The environment is a little looser than `NetSession`: any order of
dial, play, loss and end.

### WorldWire, Logout, QueryCache and WorldTalk

`cmds` and `replies` are the command and event channels of a world session; both keep their order.
A message is a kind, a key and a version or reading. The server answers what it reads: a logout is
refused, granted at once or counted down; a query is a record or a refusal; an entry is admitted on
the shown map, on another, or turned away. The write thread drops what it finds on no live link
(`DropCommand`), so a command queued at a session's end may be dropped, or be read by the *next*
session, as in the code. `Logout` and `QueryCache` have one operator per function of their file;
`WorldTalk` calls them from the handlers that do (`On...`), one event at a time, between
`StartFrame` (a posted load's leave, then the transition that closes the interface) and `EndFrame`
(`exit_on_logout_complete`). The stock countdown dialog, which is not in the repository, is the
variable `dialog`: a timed response shows it, `LOGOUT_CANCEL` hides it, hiding it early cancels. A
transfer's ack is sent with the leave; in the code it goes out at the end of the hold over the load, which is
`WorldArrival`'s. The character's own name, which an entry seeds, is not among `Names`.

Abstractions: the run is attended, so every lost link is a session's end; the notice lane is applied
in place; a pick waits for the `Connected` of the pick before (`Pick`); `version` stands for the
text of a name, so a test of freshness can compare; templates have one version.

### TerrainStream and WorldArrival

`phase` is the system of the chain that runs next, and each system is one action, but for the tile
and placement spawns, which are one action per thing spawned, as a budget may end them after any.
Nothing else runs inside the chain, as in bevy's; asset answers (`Elsewhere`) come at "input". The
tile grid is a strip of one dimension: the window, the keep band, the neighbour order of the handoff
and the nearest-first orders keep their meaning there, and a corner is lost. A placement is its
uniqueId; of a mesh, hull or collider the model keeps whose it is. A reload's `reloadMark` stands for
the difference of two counters. `orphans` collects the prop hulls `SpawnBuilding` overwrites.
Every map of `Maps` has a directory in the catalog (`swap_map` does nothing for one without), a prop
indoors is in no tile's shade (`GroundOf` names what waits for one), and a whole tile is furnished in one
step where the code furnishes it cell by cell under a budget.

`WorldArrival` moves the view focus and the hold over it: `Enter`, `LoginVerified`, `Seize`, `Worldport`,
`WorldportRiding`, `Teleport`, the shots (`OpenShot`, `Glide`, `EndCinematic`, and `AbandonCinematic`, the
sweep of an interface reload), `EndSession` and `LeaveWorld` come between frames; `PublishViewFocus` opens the
stream stage and `ReleaseHold` closes the frame. Its two arguments are the two clocks of
`release_post_snap_hold` (the reload's ceiling and the stalled budget), each of which may have run out at any
look. A body steps one chunk a frame, onto a tile the last frame published as resident, or anywhere on a map
of one building that stands. `flying` is the shot's own eye, which the stream follows; the camera that a
shot's far test looks at is not that eye but the one `control` has just seated behind the body (`CameraAt`).
The black a far shot keeps, a far-sight subject and the free-fly camera are left out.

## 3. Runs

Passing:

| Run | Instance | States | Shows |
|---|---|---|---|
| `writer_handoff` | 2 links, 3 entries, 3 pings, 2 commands, ring of 2 | 679,151 | the hand-over's types and five safety properties, its inductive invariant, and `ReclaimAnswered` |
| `session` | 3 links, 4 presses of login, dismissal, entry, realm list and realm change | 32,368 | no dialog waits for ever but the one a 0x0A leaves to the player; link flag, parked session and client state are true; the world is entered by a pick of its link and visit |
| `session_all` | 2 links, 4 presses of every kind, both races | 334,623 | types, no session of an attempt called off stands behind the login screen, the read thread refines `SessionProtocol`, and a frame without a press keeps no pick past an end it drains (`KeptPickEnds`) |
| `inbound_hold` | 8 posts, cover of 3 | 378,621 | `KeepsWireOrder`, `HeldBehindLoad`, `HoldEnds` |
| `world_arrival` | 3 tiles of 2 chunks, a straddling doodad and building, one unreadable tile and model, a map of one building with a prop; 2 moves | 2,182,854 | the streamer's counts, owners, hulls and residency, `AckHasItsHold`, `ArrivedOnOwnGround` |
| `world_talk` | one name, one template, 4 acts, 1 move | 350,236 | types and the logout's and the caches' four safety properties, `LogoutEnds`, `NamesAreAnswered` |

Violations, each of one documented claim: `cancelled_logon`, `lost_last_word`, `pick_race`, `ground_stall`,
`arrival_latch`, `query_stall` (section 6).

**Why the bounds are enough.** Two links let one be lost and replaced, and the requests, rosters
and halves of the first meet the second; three in `session` let a session follow one that followed
a loss. Three entries are one link entered twice and another after it. Four presses are two
logins and entries, or a login, a list and a realm change with a retry. Eight posts are Auth,
Connected, packets, an end, and a second Connected held behind the first's. The ring of two fills and
rolls with three pings. `MaxLinks` in `ReadThread`, `MaxPresses`, `MaxPosts`, `MaxEntries`, `MaxPings`
and `CommandQueue` are the only bounds there. Of the passing session runs only `session_all` presses
Cancel, Back and CloseList: with Cancel or Back, or with CloseList beside ShowRealms, finding 1,
the session parked behind the character selection (section 6) and their consequences break the
properties of `session` too.

In `world_arrival` (`MaxEvents` = 2) two moves are a login and a transfer, teleport, shot or second login;
walking, gliding, the ends of shots and sessions and everything of the streamer are unbounded. A shot glides
across the first seam or over the last tile (`Flown`), so the focus leaves the body's tile and comes back;
`arrival_latch` lets it glide anywhere. The window's half-widths are one and two chunks of a strip of six with
a keep band of one, so a walk unloads, requests and hands over, and the far tile is wanted from some places
and stale from others. The doodad and the building are listed by two tiles, the model that cannot be read is
the building's, the prop stands on a tile of its own. In `world_talk` (`MaxActs` = 4, shared by entries, verbs
and asks; `MaxMoves` = 1, shared by transfers and renames) four acts are two entries with a request or an ask
in each, or one entry with a request, its cancel and an ask. What the theorems below say of these modules
holds for every bound.

`CHECK_DEADLOCK FALSE` stands in the runs of `WorldTalk` and `WorldArrival`, whose system may really
stop: the process exits, or the player is at the glue with its bounded acts and moves used up.

**Known limits of the session properties.** List events carry no request number. A list that answers an older
query ends the logon the player has just pressed, a dial and a login are then both in flight, and the later
login drops the session the dial makes. The `session` run reaches the first of these steps with its four
presses; with a fifth, `NoDialogLeftWaiting` and `LinkFlagIsTrue` fail by the last. What stands whatever the
bounds are is what section 5 proves: the run's properties under Login, Dismiss, EnterWorld and the three
presses of the login screen's realm list (Refresh, PickRealm, CloseList), with no race (`Ordinary`). Cancel,
Back and ShowRealms are each out of reach of those theorems: Cancel by finding 1 and the session parked behind
the character selection, ShowRealms by the list just described, and a Back right after EnterWorld (state 8 of
the manager) leaves pick and session apart. With the race `"pick"` every property of `session` but
`LostIsLastWord` fails, all from the frame of finding 3; with `"auth"` the app stands at the wrong screen
(finding 2). The `session` run goes beyond the theorems in ShowRealms, within its four presses.

**What is claimed of an arrival.** The release's doc promises more than the code holds: that a body let go as
arrived has everything standing that its tile lists (`ReleasedOntoItsGround`). The counts it looks at are
latched, a count once zero not being looked at again until the load is re-armed by a reload mark or by a focus
whose tile is not resident, and a shot that glides over tiles already whole brings the latch back to the
body's tile with a building missing: `arrival_latch` shows it with one building on the first tile (finding 5).
What holds whatever moves the body or the eye, the body's own map and its own tile's ground, is
`ArrivedOnOwnGround`: `world_arrival` checks it and section 5 proves it.

## 4. Fairness

* `WriterHandoff`: the write thread and the read thread's steps around a reclaim are weakly fair.
  They are plain code between channel operations; `select!` has no branch order that could starve the
  swap channel for ever, because a command takes the waiting swaps first (`writer_loop` 1379) and the ping
  timer fires once in 30 s (the bound `MaxPings` stands for that).
* `NetSession`: `Transition`, `Send` and the read thread's steps are weakly fair, the last because
  each of its waits has a socket timeout or ends with the socket. The frame's weak fairness is
  written as `[]<>~(...) \/ []<><<IdleFrame>>_vars` with `FrameOwed`, which says when a frame
  without a press changes something; TLC need not evaluate ENABLED of a whole frame then.
  Player and server owe nothing: they may stop for ever.
* `InboundHold`: the frames keep coming.
* `WorldTalk`: frames start and end (weakly), and dispatch what was read (strongly: an event may be
  taken in any frame but only within one, and `apply_net_updates` drains all). The server answers
  what it reads, admits or refuses an entry, and ends a countdown: the same one-server assumption
  `LogoutEnds` and `NamesAreAnswered` are about. Nothing makes a player or a reader act.
* `WorldArrival` (`ground_stall` only): the frame's systems run, and each kind of work makes progress
  when there is some (`Work`): a read comes back, every frame spawns, furnishes, attaches or welds
  at least one ready thing, as the code's budgets look at the clock behind the first. The violation therefore is not a starved queue.

## 5. Proofs

Everything in this section is for every value of the constants, from the named ASSUMEs only (bounds are
naturals, the ring and the cover are not empty, a server names chunks of the strip). Some results of the
session also assume something of the presses and the races allowed, and say so below.

* `WriterHandoff_proofs`. `TypeCorrect` carries `Numbered` with it, which says that a link or an
  entry in use has been made. The safety properties are not inductive: `ParkedLinkHasNoWriter`
  says nothing of a half still in the swap channel. `IInv` adds `NoneAhead` (nothing names a later
  link or entry), `ReclaimIsLast` (a reclaim is the last swap, and finds this entry's half),
  `WriterInv` (what the write thread will hold once it has applied every swap sent, `Settled`) and
  `RingInv` (when the ring holds only the current link's samples). `ReclaimSound`, `ParkExclusive`
  and `CommandSound` follow from the first four, `RingSound` from all; `InductiveInvariant` states
  the whole. There is one lemma per part and in it one step per action. `RingKept` needs one fact
  more (`FreshInv`): only the first install of a link is marked fresh, and while it waits in the channel
  no ping of that link was sent and no sample of it filed, so a swap that keeps the link never clears
  the ring.
* `ReadThread_proofs`. `ProtocolKept`: `ThreadSpec`, in which the app may ask anything at any time,
  implements `SessionProtocol`, with `Phase` (a function of `pc`) and `epoch` for its state. No
  invariant is needed: each step of the thread maps to a protocol step or a stutter from any state.
  A `Frame` or a `Send` of `NetSession` is a step of that app, and a press, a race or a cancel adds
  none of its own: `ProtocolStays` of `NetSession_proofs` is the same theorem of the whole session.
* `GlueManager_proofs`. Each operator maps a manager to a manager (`Working`, over the links it may
  name and the returns it may count), so each call of a frame does. A recursive function is opened
  by showing that it exists: `ChainExists` builds the chain of a list of functions by induction on its
  length, `ChainStays` carries a set along it; both are proved from the well-foundedness of the
  naturals, as the induction rules of the library take an operator. `PumpRests` bounds what an item
  raises: `ItemRaises` sorts the items by how much they can raise, and each of `RunOut`'s turns takes a
  level away.
* `NetSession_proofs`. `TypeOK` is not inductive: that `heard` never passes `returns` needs the count
  of the returns still told in the channel (`heard + Returned(events) = returns`), and that a dial is
  never stamped with a generation to come needs the order in which the frame's sends go out. A dial
  of the last place is stamped with the generation the frame's own bumps will have made, so in `out`
  it stands behind all of them (`Stamped`). `TypeInv` has both, beside `Rested`, which says that
  between two frames no outbox holds anything. `AheadSendable` and `BehindSendable` say
  what the pieces of `out` may be stamped with. `LostHasTheLastWord` assumes
  `"auth" \notin Races`: without the assumption the property is false (finding 2), and with it every
  press, kind of news and other order of the frame's systems is still allowed. `KeptPicksEnd` assumes nothing:
  with both races and every press, an edge that drains an end clears the pick, and nothing behind it in a frame
  without a press sets one, for the roster that could was the ended session's.
* `NetConversation_proofs`. That no dialog is left waiting speaks of a rest only, and nothing there says why
  the answer came; an inductive invariant has to follow each request to its answer. `Talk` does so by stages,
  each a mode of the manager, what is asked (`m.asks`, `out`, the park and login queues), where the
  thread is, and the *set* of news told and not drained (`Unheard`; the order in it matters for the loss only,
  `LostLast`). Ten stages lie at the login screen (`Offline`: a logon asked, running, failed or listed,
  a list asked or told, a realm asked for, dialled or failed, and rest, where a closed list's link may still be
  dropping), ten in a session (`Online`, from `AuthTold` to `Leaving`), and `SessionOver` is a session that
  the thread has lost while the app hears and presses on. `Unheard` bounds what a frame can hear, so what the
  manager's chain of handlers makes of a frame is a lemma per mode, and a frame, a send, a transition and a
  step of the thread lead from stage to stage. In `SessionOver` the loss wipes whatever stage the app
  believed in, but for a roster ask the manager has still to send; asks left in the park channel are
  dropped at the login park (`Leftover`). A settled state can only be one of three stages (`SettledIs`), from
  which the five invariants follow; the pick that enters is the one `PickAsked` names, with the standing
  link and visit (`PlayOfThisLink`, `PlayAfterReturn`). The hypothesis `Ordinary` is that of section 3's known
  limits: it restricts the player, not the server, the link or any bound. Before it was proved, `Talk` was
  checked by TLC with three links and seven presses, the realm known and unknown.
* `InboundHold_proofs`. `WireOrderKept`: what stands is `out \o hold.held \o arrived \o chan`;
  posts append to it, the drain, the admission and the release only move boundaries inside it, and
  the dispatch takes its front. The type invariant is needed for one fact, that an empty hold holds
  nothing when `Connected` starts one. `HeldBehindLoadHolds` needs where a load may be owed:
  `HoldInv` says phase by phase what stands armed while the hold does not, and which end of a
  session then follows a packet in the same dispatch.
* `WorldTalk_proofs`. Everything rests on `IInv`, the types with the *order of a session's events*:
  in `replies` nothing but a session's `disconnected` follows its last word, and what stands ahead of a
  `connected` ends the session before it. Sequences are reasoned about through `Has` and `HasOf`: one
  lemma says what an append adds, one what a `Tail` may lose. `OneNodeHolds`, `PendingIsOwedHolds`,
  `CountdownIsShownHolds` and `NameAskIsOutHolds` are then inductive beside `IInv`. `NamesAreFresh`
  is not: an answer on its way may be older than an invalidation dispatched *later*; `Fresh` says that
  a record in the channel is either no older than every invalidation seen or still has an invalidation
  of at least the server's later version behind it. `TypeCorrect` has the types.
* `WorldArrival_proofs`. `Phased` says where in a frame a map is known and the world lives, and
  `Counts` that the reference counts are exact; together they are inductive, and give
  `RefsAreReferrersHolds`. `Owned` rests on them: a doodad that survives an unload has another
  referrer, so its heir exists (`OwnersShowTheirsHolds`). `Exact` says with `PendingIsExact` that
  nothing unregistered is spawned and only standing buildings have props left (`Placed`), so each step
  adds and removes exactly the work it makes and does; `Typed` (`TypeCorrect`) takes the counts'
  types from it. `OneHullEachHolds` rests on all of these: the tables say nothing of a tile that is
  not loaded, so `Hulled` adds that such a tile keeps no weld, and no batch outside the part of a
  frame between its unload and the flush; a tile unloaded in a frame is not asked for in it, because
  the kept span contains the wanted one (`KeepsWanted`). `Reads` (an up tile was read, a whole one is
  up) and `Resident` give `ResidentIsSolidHolds`. `HeldIsSolidHolds` needs what a frame has done for a
  held tile *so far*, phase by phase (`HeldSoFar`), and, for the frames that skip their plan,
  `Planned`: a world said complete and settled has every held tile whole. The window's arithmetic,
  that a span never leaves the strip, is `SpansAreTiles`. `AckHasItsHoldHolds` is inductive by itself.
  `ArrivedOnOwnGroundHolds` is about the frame in which a held body is let go as arrived: the load the
  release looks at was published by this very frame, because a held body's focus is not paced and no
  unpaced frame skips its plan, so the map and the focus tile are the body's (`Aimed`, which also says
  that the focus tile was asked for); and a focus tile of a presentable load is whole, failed or not the
  map's (`Footed`), as the tile itself is judged anew every frame (`LoadRearmed`). That no collider of it
  waits is what the frame saw in the backlog, which nothing later in the frame adds terrain to.

## 6. Findings

1. `cancelled_logon`: a Cancel that beats the read thread to a queued login still leaves the stage
   `Connecting` told, which begins a logon dialog that nothing ends (`net/io.rs:633`).
2. `lost_last_word`: an authentication and the loss of its session in one frame can leave the app at
   character select (`glue_session/login.rs:382`).
3. `pick_race`: an EnterWorld pressed in the frame that drains the loss sets its pick behind
   `back_on_disconnect`'s clear when the edges run ahead of the manager, and the next login's roster answers it
   (`glue_session/edges.rs:69`).
4. `ground_stall`: a doodad whose origin lies on a loaded tile that could not be read waits for
   that tile's ground for ever, and with it the load (`terrain_stream/queries.rs:47`). Only the
   cover's and the hold's timeouts end it.
5. `arrival_latch`: counts latched under a shot's camera stand for the body's tile when the shot ends, and
   the body is let go as arrived ahead of the building its tile lists (`terrain_stream.rs:179`).
6. `query_stall`: `clear_saved_asks` forgets the asks while `Disconnected` is handled, but the world's
   interface runs to the next frame's transition: a template asked in between is dropped by the write
   thread and reads pending through the whole next session (`wdb.rs:423`). Names are safe from it, as
   the entry clears their stores: `NameAskIsOut` holds, and is proved.

Each quotes the comment it disagrees with in `PROJECT.json`. Three more disagreements with a comment show in
the same models and have no run:

* A realm change cancelled at character select can authenticate, and its session stays parked:
  `to_select_on_auth` sends the Abandon at the login screen only (`glue_session/login.rs:370`), where its
  comment (358) has every session of a passed attempt abandoned. At the login screen it is:
  `NoStaleSessionBehindLogin`, which holds with five presses of every kind too (2,883,982 states).
* A lost link's half stays with the write thread, and every tick on it is attempted and re-arms the next
  (`net/io.rs:1352`; `PingTick`), where the comment ahead of it (1348) has "a dead connection stops
  pinging".
* `drive_glue_mgr` ends the logon on whatever list it drains (`ui_script/glue_mgr.rs:2188`), an older
  refresh's included, where its comment (2182) has "the logon's list" end it.

Smaller things met while modelling, which no comment of the source speaks against and no run asserts:

* The server's ack of a cancel sent by the hidden dialog can arrive behind a *new* request and call it
  off (`ui_logout.rs:109`); the player sees a dialog that closes at once.
* A lost link does not zero the world handle (`ui_logout.rs:74`), so from the next session's
  `Connected` to its arrival the logout verbs act as if the player stood in the world.
* `Disconnected` leaves `PendingWorldports`: the next frame's leave sends a stray ack.
* An open prop batch is keyed by uniqueId: a building released and registered again within one frame
  inherits it, and `SpawnBuilding` overwrites its list (`orphans`).
* The residency outlives `release_world` until the next world's first publish.
* After an eviction two queries of one key can be in flight; `NamesAreFresh` is why this is harmless.

One disagreement with a comment has no run, as what it does is out of the models' sight. `control` seats
the camera behind the body in every frame, a cinematic's too (`player/controller.rs:1004`), ahead of `drive`,
which reads where the camera is before it moves it onto the shot. So the far tests of a next shot and of
an end, and the residency test of a far shot's black (`cinematic.rs:664`, `679`, `687`), look at the
follow camera. An end asks for no reload however far the shot was, where the comment at
`cinematic.rs:655` has "counts latched under the camera say nothing of it, so the stream is asked for a new
load behind the same gate". The unit tests run `drive` without `control`. `CameraAt` is the camera the
code looks at.

## 7. What is not modelled, and what is only checked

Only model-checked: every liveness property (`ReclaimAnswered`, `WaitsEnd`, `HoldEnds`, `LogoutEnds`,
`NamesAreAnswered`), as the prover has no ENABLED. The properties of the `session` run that
`NetConversation_proofs` proves are proved for the ordinary presses; with ShowRealms they are only checked,
within the run's bounds (section 3).

Not modelled:

* the PIN keypad; character create, delete and rename (manager states 5 to 7); addon news, agreements
  and patches; the unattended reconnects and their pacing;
* the queue estimate (a ring of eight samples over a 32-bit clock): pure arithmetic of one function,
  which its unit tests in `glue_session/queue.rs` pin;
* the cache files on disk (`wdb.rs`'s load and save), the generations of the caches and the in-place
  patches of a record;
* the header cipher and packet layouts, SRP6: data and big integers; each direction of the cipher has
  one owner, the thread whose half it is, so `WriterHandoff`'s ownership is what concerns it;
* the static merge and the retained pass (drawing batches of the same placements), liquids, clutter,
  the streamer's height and area queries;
* the per-opcode handlers behind the dispatch, which translate data, and the interface feeds they fill
  (quests, loot, spells, trade, chat), the largest part of the application;
* movement's physics and the renderer (floating point and the GPU); the Lua interpreter and the widget
  engine; the file-format readers (no state); tools and the launcher.
