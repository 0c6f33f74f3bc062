---------------------------- MODULE QueryCache ----------------------------
(***************************************************************************)
(* QueryCache<K, V>, the ask-once cache (query_cache.rs), for the stores   *)
(* whose records the world entry wipes (Names: a player's name) and those  *)
(* kept on disk (Templates).  Key 0, which names no record, is no key.     *)
(***************************************************************************)
EXTENDS WorldWire, FiniteSets

VARIABLES
  answered,  \* the record held for each key, by its version
  pending,   \* the keys in flight
  refused    \* the keys whose last answer was a refusal

cacheVars == <<answered, pending, refused>>

CacheInit ==
  /\ answered = [k \in Keys |-> NoRecord]
  /\ pending = {} /\ refused = {}

Holds(k) == answered[k] # NoRecord

\* The asking lookup of a key that is not held: relook says whether a refused key
\* is asked again (Ask::Event) or reads unknown (Ask::New).
AskIf(k, relook) ==
  /\ ~Holds(k) /\ (k \in refused => relook)
  /\ refused' = refused \ {k}
  /\ pending' = pending \cup {k}
  /\ cmds' = IF k \in pending THEN cmds ELSE Append(cmds, Query(k))
  /\ UNCHANGED answered

Insert(k, v) ==
  /\ pending' = pending \ {k} /\ refused' = refused \ {k}
  /\ answered' = [answered EXCEPT ![k] = v]

\* A refusal that leaves its key in flight.
RefusePendingKept(k) ==
  /\ answered' = [answered EXCEPT ![k] = NoRecord]
  /\ refused' = IF k \in pending \/ Holds(k) THEN refused \cup {k} ELSE refused
  /\ UNCHANGED pending

\* A refusal of a key the cache knows nothing of, or already refused, does nothing.
Refuse(k) ==
  /\ pending' = pending \ {k}
  /\ answered' = [answered EXCEPT ![k] = NoRecord]
  /\ refused' = IF k \in pending \/ Holds(k) THEN refused \cup {k} ELSE refused

\* An eviction that forgets the ask and keeps the record.
EvictAskOnly(k) ==
  /\ pending' = pending \ {k} /\ refused' = refused \ {k}
  /\ UNCHANGED answered

Evict(k) ==
  /\ pending' = pending \ {k} /\ refused' = refused \ {k}
  /\ answered' = [answered EXCEPT ![k] = NoRecord]

\* Every store's asks are forgotten with the session; its records stay.
ClearPending ==
  /\ pending' = {}
  /\ UNCHANGED <<answered, refused>>

\* A wipe that keeps the asks.
ClearNamesKeepingAsks ==
  /\ answered' = [k \in Keys |-> IF k \in Names THEN NoRecord ELSE answered[k]]
  /\ refused' = refused \ Names
  /\ UNCHANGED pending

\* The world entry's wipe of the stores built unsaved.
ClearNames ==
  /\ answered' = [k \in Keys |-> IF k \in Names THEN NoRecord ELSE answered[k]]
  /\ pending' = pending \ Names /\ refused' = refused \ Names

-----------------------------------------------------------------------------
CacheTypeOK ==
  /\ answered \in [Keys -> NoRecord .. MaxMoves]
  /\ pending \subseteq Keys /\ refused \subseteq Keys

\* A key has one node: a record, an ask in flight or a refusal, never two of them
\* (query_cache.rs's three fields stand for one node's states).
OneNode ==
  /\ pending \cap refused = {}
  /\ \A k \in Keys : Holds(k) => k \notin pending \cup refused
=============================================================================
