----------------------------- MODULE WorldWire -----------------------------
(***************************************************************************)
(* The two channels of a world session as the application's handlers see   *)
(* them: the commands they send, which the write thread hands to the       *)
(* server or drops when it holds no live link, and the events the read     *)
(* thread makes of the server's answers.  Both keep their order.  The      *)
(* server is modelled from the opcodes the client reads and sends.         *)
(***************************************************************************)
EXTENDS Integers, Sequences

CONSTANTS
  Names,       \* keys of the stores cleared at world entry (player names)
  Templates,   \* keys of the saved stores (creatures, items, quests)
  MaxMoves     \* bound: transfers and renames

ASSUME MovesAssumption == MaxMoves \in Nat

VARIABLES
  link,     \* the session's link: "parked" at character select, "live", "dead"
  server,   \* the character at the server: "out", "entering", "in", "camping"
  porting,  \* the server waits for the ack of a transfer
  cmds,     \* ClientCommand, in the order sent
  replies,  \* SessionEvent, in the order read
  version,  \* the server's version of each name
  moves     \* transfers and renames

serverVars == <<link, server, porting, version, moves>>
wireVars == <<serverVars, cmds, replies>>

Keys == Names \cup Templates
NoKey == "none"
NoRecord == -1

\* One message either way; key and v are meant for the kinds that carry them.
Msg(kind, key, v) == [kind |-> kind, key |-> key, v |-> v]
Plain(kind) == Msg(kind, NoKey, 0)
Query(k) == Msg("query", k, 0)

Commands == {"query", "logout", "logoutCancel", "forceLogout", "worldportAck"}
Events == {"connected", "worldport", "newWorld", "arrival", "loginFailed", "response",
           "logoutCancelled", "loggedOut", "disconnected", "record", "refusal", "invalidate"}

\* A SMSG_LOGOUT_RESPONSE's three readings.
Timed == 0
Instant == 1
Refused == 2

AddIf(s, b, m) == IF b THEN Append(s, m) ELSE s

Has(s, kind) == \E i \in DOMAIN s : s[i].kind = kind
HasReading(s, n) == \E i \in DOMAIN s : s[i].kind = "response" /\ s[i].v = n
HasOf(s, kind, k) == \E i \in DOMAIN s : s[i].kind = kind /\ s[i].key = k

WireInit ==
  /\ link = "parked" /\ server = "out" /\ porting = FALSE
  /\ cmds = <<>> /\ replies = <<>>
  /\ version = [k \in Names |-> 0]
  /\ moves = 0

-----------------------------------------------------------------------------
\* The write thread takes a command while it holds no live link: it is dropped,
\* or written to a socket nobody reads.
DropCommand ==
  /\ link # "live" /\ cmds # <<>>
  /\ cmds' = Tail(cmds)
  /\ UNCHANGED <<serverVars, replies>>

\* The server reads the next command of a character that is in the world.
Reads(kind) ==
  /\ link = "live" /\ server \in {"in", "camping"}
  /\ cmds # <<>> /\ Head(cmds).kind = kind
  /\ cmds' = Tail(cmds)

\* A query is answered, a record or a refusal.
ServeQuery ==
  /\ Reads("query")
  /\ LET k == Head(cmds).key IN
       \/ replies' = Append(replies, Msg("record", k, IF k \in Names THEN version[k] ELSE 0))
       \/ replies' = Append(replies, Msg("refusal", k, 0))
  /\ UNCHANGED serverVars

\* The world session's end, told to the app ahead of the link's return.
Completed == <<Plain("loggedOut"), Plain("disconnected")>>

\* CMSG_LOGOUT_REQUEST: refused, whether or not a countdown goes on; let out at
\* once; or counted down.
ServeLogout ==
  /\ Reads("logout")
  /\ \/ /\ replies' = Append(replies, Msg("response", NoKey, Refused))
        /\ server' \in {"in", server}
        /\ UNCHANGED <<link, porting>>
     \/ /\ replies' = Append(replies, Msg("response", NoKey, Instant)) \o Completed
        /\ server' = "out" /\ link' = "parked" /\ porting' = FALSE
     \/ /\ replies' = Append(replies, Msg("response", NoKey, Timed))
        /\ server' = "camping"
        /\ UNCHANGED <<link, porting>>
  /\ UNCHANGED <<version, moves>>

ServeCancel ==
  /\ Reads("logoutCancel")
  /\ server' = "in"
  /\ replies' = Append(replies, Plain("logoutCancelled"))
  /\ UNCHANGED <<link, porting, version, moves>>

ServeForce ==
  /\ Reads("forceLogout")
  /\ replies' = replies \o Completed
  /\ server' = "out" /\ link' = "parked" /\ porting' = FALSE
  /\ UNCHANGED <<version, moves>>

\* The ack of a transfer: our own create follows; a stray ack is ignored.
ServeAck ==
  /\ Reads("worldportAck")
  /\ replies' = IF porting THEN Append(replies, Plain("arrival")) ELSE replies
  /\ porting' = FALSE
  /\ UNCHANGED <<link, server, version, moves>>

Serve == ServeQuery \/ ServeLogout \/ ServeCancel \/ ServeForce \/ ServeAck

\* A character is picked: the read thread hands the writer over, announces the
\* session and streams.
Enter ==
  /\ link # "live"
  /\ link' = "live" /\ server' = "entering"
  /\ replies' = Append(replies, Plain("connected"))
  /\ UNCHANGED <<cmds, porting, version, moves>>

\* The server lets the character in, on the map the client shows or another, or
\* turns it away.
Admit ==
  /\ server = "entering"
  /\ \/ /\ server' = "in" /\ link' = link
        /\ \/ replies' = Append(replies, Plain("arrival"))
           \/ replies' = replies \o <<Plain("worldport"), Plain("arrival")>>
     \/ /\ server' = "out" /\ link' = "parked"
        /\ replies' = replies \o <<Plain("loginFailed"), Plain("disconnected")>>
  /\ UNCHANGED <<cmds, porting, version, moves>>

CampEnds ==
  /\ server = "camping"
  /\ replies' = replies \o Completed
  /\ server' = "out" /\ link' = "parked" /\ porting' = FALSE
  /\ UNCHANGED <<cmds, version, moves>>

Transfer ==
  /\ server \in {"in", "camping"} /\ ~porting /\ moves < MaxMoves
  /\ porting' = TRUE /\ moves' = moves + 1
  /\ replies' = Append(replies, Plain("newWorld"))
  /\ UNCHANGED <<link, server, cmds, version>>

Rename(k) ==
  /\ server \in {"in", "camping"} /\ moves < MaxMoves /\ moves' = moves + 1
  /\ version' = [version EXCEPT ![k] = @ + 1]
  /\ replies' = Append(replies, Msg("invalidate", k, version[k] + 1))
  /\ UNCHANGED <<link, server, porting, cmds>>

LoseLink ==
  /\ link = "live"
  /\ link' = "dead" /\ server' = "out" /\ porting' = FALSE
  /\ replies' = Append(replies, Plain("disconnected"))
  /\ UNCHANGED <<cmds, version, moves>>

-----------------------------------------------------------------------------
Messages(kinds) ==
  [kind : kinds, key : Keys \cup {NoKey}, v : 0 .. (IF MaxMoves > 2 THEN MaxMoves ELSE 2)]

\* The wire's types, and what ties the server's side to the link: a character is
\* at the server exactly while the link is live.
WireTypeOK ==
  /\ link \in {"parked", "live", "dead"}
  /\ server \in {"out", "entering", "in", "camping"}
  /\ link = "live" <=> server # "out"
  /\ porting \in BOOLEAN
  /\ cmds \in Seq(Messages(Commands)) /\ replies \in Seq(Messages(Events))
  /\ version \in [Names -> 0 .. MaxMoves]
  /\ moves \in 0 .. MaxMoves
=============================================================================
