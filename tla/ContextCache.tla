---------------------------- MODULE ContextCache ----------------------------
(***************************************************************************)
(* ContextCache (src/src/state/context_cache.cpp): a bounded LRU cache     *)
(* with expiry in which callers of one key share one computation.  A step  *)
(* is a critical section of mutex_, the computation of a leader or the     *)
(* fulfilment of its promise.  A cached value is the version of the source *)
(* the computation read; whoever changes the source invalidates the key    *)
(* afterwards, or clears the cache.  A computation does not call back into *)
(* the cache for its own key.                                              *)
(***************************************************************************)
EXTENDS Naturals, Sequences, SequencesExt, FiniteSets

CONSTANTS
    Keys, Callers,
    Capacity,     \* capacity_
    MaxVersion,   \* bound on the changes of a source
    NoKey         \* neither a key nor a caller

ASSUME CacheAssumption ==
    /\ Capacity \in Nat \ {0}
    /\ MaxVersion \in Nat
    /\ NoKey \notin Keys \cup Callers

VARIABLES
    lru,       \* lru_, most recently used first
    entries,   \* entries_: a value per cached key
    expired,   \* the cached keys whose expires_at has passed
    inflight,  \* inflight_: the leader whose promise the callers of a key share
    place,     \* place[c]: where caller c is in get_or_compute
    key,       \* key[c]: the key it asked for
    leader,    \* leader[c]: whose promise a coalesced caller waits for
    computed,  \* computed[c]: what it computed, as a leader
    source,    \* source[k]: version of the data behind k
    settled,   \* settled[k]: the version at the last invalidate or clear
    raced      \* history: keys invalidated while a computation was in flight

cache == <<lru, entries, expired, inflight>>
callers == <<place, key, leader, computed>>
world == <<source, settled, raced>>
cacheVars == <<cache, callers, world>>

Failed == MaxVersion + 1  \* a computation that returned an error or threw
None == MaxVersion + 2    \* no result yet

CacheInit ==
    /\ lru = <<>> /\ entries = [k \in {} |-> 0] /\ expired = {}
    /\ inflight = [k \in Keys |-> NoKey]
    /\ place = [c \in Callers |-> "idle"]
    /\ key = [c \in Callers |-> NoKey]
    /\ leader = [c \in Callers |-> NoKey]
    /\ computed = [c \in Callers |-> None]
    /\ source = [k \in Keys |-> 0]
    /\ settled = [k \in Keys |-> 0]
    /\ raced = {}

Cached == DOMAIN entries
Live(k) == k \in Cached \ expired
Without(k) == [other \in Cached \ {k} |-> entries[other]]

PushFront(k, order) == <<k>> \o order

\* lru_.erase(iterator): an entry knows its place in the order.
Erase(order, k) ==
    IF k \in ToSet(order) THEN RemoveAt(order, CHOOSE i \in DOMAIN order : order[i] = k)
    ELSE order

-----------------------------------------------------------------------------
(* The first critical section of get_or_compute *)

Hit(c, k) ==
    /\ place[c] = "idle" /\ Live(k)
    /\ lru' = PushFront(k, Erase(lru, k))
    /\ UNCHANGED <<entries, expired, inflight, callers, world>>

\* An expired entry is dropped, whether the caller then leads or waits.
DropExpired(k) ==
    /\ lru' = Erase(lru, k)
    /\ entries' = Without(k)
    /\ expired' = expired \ {k}

Coalesce(c, k) ==
    /\ place[c] = "idle" /\ ~Live(k)
    /\ inflight[k] # NoKey
    /\ DropExpired(k)
    /\ place' = [place EXCEPT ![c] = "wait"]
    /\ key' = [key EXCEPT ![c] = k]
    /\ leader' = [leader EXCEPT ![c] = inflight[k]]
    /\ UNCHANGED <<inflight, computed, world>>

\* Bug: a leader does not leave its promise for others to find.
LeadAlone(c, k) == inflight' = inflight
LeadForAll(c, k) == inflight' = [inflight EXCEPT ![k] = c]

Lead(c, k) ==
    /\ place[c] = "idle" /\ ~Live(k)
    /\ inflight[k] = NoKey
    /\ DropExpired(k)
    /\ LeadForAll(c, k)
    /\ place' = [place EXCEPT ![c] = "compute"]
    /\ key' = [key EXCEPT ![c] = k]
    /\ UNCHANGED <<leader, computed, world>>

-----------------------------------------------------------------------------
(* The leader: compute, publish, fulfil *)

Compute(c) ==
    /\ place[c] = "compute"
    /\ \E value \in {source[key[c]], Failed} :
           computed' = [computed EXCEPT ![c] = value]
    /\ place' = [place EXCEPT ![c] = "publish"]
    /\ UNCHANGED <<cache, key, leader, world>>

Cacheable(c) == computed[c] # Failed

\* Bug: off by one at the capacity.
EvictLate(order) == IF Len(order) > Capacity + 1 THEN Front(order) ELSE order
EvictOldest(order) == IF Len(order) > Capacity THEN Front(order) ELSE order

\* The second critical section.  A leader never finds its key cached, so the
\* removal the code guards against has nothing to do here.
Publish(c) ==
    LET k == key[c]
        order == EvictOldest(PushFront(k, lru))
    IN
    /\ place[c] = "publish"
    /\ inflight' = [inflight EXCEPT ![k] = NoKey]
    /\ IF Cacheable(c)
       THEN /\ lru' = order
            /\ entries' = [other \in ToSet(order) |->
                              IF other = k THEN computed[c] ELSE entries[other]]
            /\ expired' = expired \cap ToSet(order)
       ELSE UNCHANGED <<lru, entries, expired>>
    /\ place' = [place EXCEPT ![c] = "fulfil"]
    /\ UNCHANGED <<key, leader, computed, world>>

SharersOf(c) == {w \in Callers : place[w] = "wait" /\ leader[w] = c}

\* promise->set_value, outside the mutex: the waiters return with the leader.
Fulfil(c) ==
    LET Done(w) == w \in SharersOf(c) \cup {c} IN
    /\ place[c] = "fulfil"
    /\ place' = [w \in Callers |-> IF Done(w) THEN "idle" ELSE place[w]]
    /\ key' = [w \in Callers |-> IF Done(w) THEN NoKey ELSE key[w]]
    /\ leader' = [w \in Callers |-> IF Done(w) THEN NoKey ELSE leader[w]]
    /\ computed' = [computed EXCEPT ![c] = None]
    /\ UNCHANGED <<cache, world>>

-----------------------------------------------------------------------------
(* invalidate, clear, and what happens around the cache *)

\* Bug: an entry survives its invalidation.
InvalidateNothing(k) == UNCHANGED <<lru, entries, expired>>
InvalidateKey(k) == DropExpired(k)

Settle(keys) ==
    /\ settled' = [k \in Keys |-> IF k \in keys THEN source[k] ELSE settled[k]]
    /\ raced' = raced \cup {k \in keys : inflight[k] # NoKey}
    /\ UNCHANGED source

Invalidate(k) ==
    /\ InvalidateKey(k)
    /\ Settle({k})
    /\ UNCHANGED <<inflight, callers>>

Clear ==
    /\ lru' = <<>> /\ entries' = [k \in {} |-> 0] /\ expired' = {}
    /\ Settle(Keys)
    /\ UNCHANGED <<inflight, callers>>

\* The clock passes expires_at.
Expire(k) ==
    /\ Live(k)
    /\ expired' = expired \cup {k}
    /\ UNCHANGED <<lru, entries, inflight, callers, world>>

ChangeSource(k) ==
    /\ source[k] < MaxVersion
    /\ source' = [source EXCEPT ![k] = @ + 1]
    /\ UNCHANGED <<cache, callers, settled, raced>>

-----------------------------------------------------------------------------
Lookup(c, k) == Hit(c, k) \/ Coalesce(c, k) \/ Lead(c, k)
LeaderStep(c) == Compute(c) \/ Publish(c) \/ Fulfil(c)

CacheNext ==
    \/ \E c \in Callers, k \in Keys : Lookup(c, k)
    \/ \E c \in Callers : LeaderStep(c)
    \/ \E k \in Keys : Invalidate(k) \/ Expire(k) \/ ChangeSource(k)
    \/ Clear

CacheSpec == CacheInit /\ [][CacheNext]_cacheVars

-----------------------------------------------------------------------------
(* Properties *)

Leading(c, k) == place[c] \in {"compute", "publish"} /\ key[c] = k

TypeOK ==
    /\ lru \in Seq(Keys)
    /\ Cached \subseteq Keys /\ \A k \in Cached : entries[k] \in 0..MaxVersion
    /\ expired \subseteq Cached
    /\ inflight \in [Keys -> Callers \cup {NoKey}]
    /\ place \in [Callers -> {"idle", "wait", "compute", "publish", "fulfil"}]
    /\ key \in [Callers -> Keys \cup {NoKey}]
    /\ leader \in [Callers -> Callers \cup {NoKey}]
    /\ computed \in [Callers -> 0..(MaxVersion + 2)]
    /\ source \in [Keys -> 0..MaxVersion] /\ settled \in [Keys -> 0..MaxVersion]
    /\ raced \subseteq Keys

\* lru_ and entries_ stay the same set of keys, at most capacity_ of them and
\* each once: every eviction and every erase hits both.
LruMatchesEntries ==
    /\ ToSet(lru) = Cached
    /\ Len(lru) = Cardinality(Cached)
    /\ Len(lru) <= Capacity

\* Single flight: inflight_ names the one caller that computes a key, a key with
\* a computation in flight is not cached, and a coalesced caller waits for a
\* leader that still has to fulfil the promise of that very key: no caller is
\* left behind on a promise whose leader has returned.
SingleFlight ==
    /\ \A c \in Callers, k \in Keys : Leading(c, k) <=> inflight[k] = c
    /\ \A k \in Cached : inflight[k] = NoKey
    /\ \A c \in Callers : place[c] = "wait" =>
           /\ place[leader[c]] \in {"compute", "publish", "fulfil"}
           /\ key[leader[c]] = key[c]

\* After an invalidate or a clear the cache never again holds a value older than
\* the source was then, unless a computation of the key was in flight: that one
\* may still publish what it read before.
StaleOnlyAfterRace ==
    \A k \in Cached : entries[k] < settled[k] => k \in raced
=============================================================================
