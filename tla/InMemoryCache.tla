--------------------------- MODULE InMemoryCache ---------------------------
(***************************************************************************)
(* One cache of internal/system/cache: a map of entries, the list that     *)
(* keeps them in the order of their last use and, with the LFU policy, the *)
(* heap that keeps them by the number of their uses.  Every operation      *)
(* holds the lock of the cache from its first step to its last, so each is *)
(* one action.  The operations run on goroutines of API calls, the cleanup *)
(* on that of the cache manager.                                           *)
(*                                                                         *)
(* Statistics are left out, and so are disabled caches, which do nothing.  *)
(***************************************************************************)
EXTENDS Naturals, FiniteSets

CONSTANTS
    Keys, Values,
    Sizes,          \* the sizes that may be configured
    TTL,
    Nothing,
    MaxTime,        \* bound: the time at which the clock stops
    MaxAccess       \* bound: the uses of an entry that are counted

ASSUME CacheAssumption ==
    /\ IsFiniteSet(Keys)
    /\ Sizes \subseteq Nat
    /\ TTL \in Nat
    /\ MaxTime \in Nat
    /\ MaxAccess \in Nat
    /\ Nothing \notin [value : Values, expiry : Nat, lastAccess : Nat, accessCount : Nat]
    /\ Nothing \notin [value : Values, expiry : Nat]

Policies == {"LRU", "LFU"}

Entries == [value : Values, expiry : Nat, lastAccess : Nat, accessCount : Nat]
HeapItems == [key : Keys, accessCount : Nat, lastAccess : Nat]

VARIABLES
    cache,          \* the map, Nothing where a key has no entry
    accessOrder,    \* the list of keys, the last used first
    lfuHeap,        \* the items of the heap
    policy, size,   \* configuration
    now,
    last            \* what the last Set stored or the last Get returned, Nothing
                    \* after a miss

cacheVars == <<cache, accessOrder, lfuHeap, policy, size, now, last>>

Cached == {k \in Keys : cache[k] # Nothing}

-----------------------------------------------------------------------------
(* The list and the heap (container/list, container/heap).  The list is    *)
(* the order it keeps its keys in: <<k, l>> when k is not behind l.        *)

Listed(r) == {k \in Keys : <<k, k>> \in r}

PushFront(r, k) == r \cup ({k} \X (Listed(r) \cup {k}))

Without(r, gone) == r \cap ((Keys \ gone) \X (Keys \ gone))

RemoveFrom(r, k) == Without(r, {k})

MoveToFront(r, k) == PushFront(RemoveFrom(r, k), k)

\* The last key of the list, in a set of its own.
Back(r) == {k \in Listed(r) : \A l \in Listed(r) : <<l, k>> \in r}

HeapWithout(h, k) == {i \in h : i.key # k}

\* The heap's order: fewer uses first, then the earlier use.
Less(i, j) ==
    \/ i.accessCount < j.accessCount
    \/ i.accessCount = j.accessCount /\ i.lastAccess < j.lastAccess

-----------------------------------------------------------------------------

Item(k, e) == [key |-> k, accessCount |-> e.accessCount, lastAccess |-> e.lastAccess]

\* Pushes the item of key k, or fixes the heap after a change of it.
HeapFixed(h, k, e) ==
    IF policy = "LFU" THEN HeapWithout(h, k) \cup {Item(k, e)} ELSE h

\* Fault: an entry expires a unit of time too late.
ExpiredLate(k) == now > cache[k].expiry + 1

Expired(k) == now > cache[k].expiry

CacheInit ==
    /\ cache = [k \in Keys |-> Nothing]
    /\ accessOrder = {}
    /\ lfuHeap = {}
    /\ policy \in Policies
    /\ size \in Sizes
    /\ now = 0
    /\ last = Nothing

\* An entry that is used now, for the n-th time.
Entry(v, expiry, n) == [value |-> v, expiry |-> expiry, lastAccess |-> now, accessCount |-> n]

Used(e) == Entry(e.value, e.expiry, e.accessCount + 1)

\* The entry leaves the map, the list and, if it is still in it, the heap.
DeleteEntry(k) ==
    /\ cache' = [cache EXCEPT ![k] = Nothing]
    /\ accessOrder' = RemoveFrom(accessOrder, k)
    /\ lfuHeap' = IF policy = "LFU" THEN HeapWithout(lfuHeap, k) ELSE lfuHeap

SetExisting(k, v) ==
    LET e == Entry(v, now + TTL, cache[k].accessCount + 1)
    IN  /\ cache[k] # Nothing
        /\ cache[k].accessCount < MaxAccess
        /\ cache' = [cache EXCEPT ![k] = e]
        /\ accessOrder' = MoveToFront(accessOrder, k)
        /\ lfuHeap' = HeapFixed(lfuHeap, k, e)

\* Fault: the list is read from the wrong end.
VictimsFromFront(r, h) ==
    IF policy = "LFU"
    THEN {i.key : i \in {i \in h : \A j \in h : ~Less(j, i)}}
    ELSE {k \in Listed(r) : \A l \in Listed(r) : <<k, l>> \in r}

\* The keys evict may remove when the list is r and the heap h: items that are
\* equal in the heap's order come out in any order.
Victims(r, h) ==
    IF policy = "LFU"
    THEN {i.key : i \in {i \in h : \A j \in h : ~Less(j, i)}}
    ELSE Back(r)

\* The new entry is in the map, the list and the heap when evict looks for
\* the one to remove, so it may be that one.
SetNew(k, v) ==
    LET e == Entry(v, now + TTL, 1)
        c == [cache EXCEPT ![k] = e]
        r == PushFront(accessOrder, k)
        h == HeapFixed(lfuHeap, k, e)
    IN  /\ cache[k] = Nothing
        /\ IF Cardinality(Cached \cup {k}) > size
           THEN \E victim \in Victims(r, h) :
                    /\ cache' = [c EXCEPT ![victim] = Nothing]
                    /\ accessOrder' = RemoveFrom(r, victim)
                    /\ lfuHeap' = HeapWithout(h, victim)
           ELSE cache' = c /\ accessOrder' = r /\ lfuHeap' = h

Set(k, v) ==
    /\ SetExisting(k, v) \/ SetNew(k, v)
    /\ last' = [key |-> k, value |-> v]
    /\ UNCHANGED <<policy, size, now>>

Hit(k) ==
    LET e == Used(cache[k])
    IN  /\ cache[k] # Nothing
        /\ ~Expired(k)
        /\ cache[k].accessCount < MaxAccess
        /\ cache' = [cache EXCEPT ![k] = e]
        /\ accessOrder' = MoveToFront(accessOrder, k)
        /\ lfuHeap' = HeapFixed(lfuHeap, k, e)
        /\ last' = [key |-> k, value |-> e.value]

Miss(k) ==
    /\ cache[k] = Nothing
    /\ last' = Nothing
    /\ UNCHANGED <<cache, accessOrder, lfuHeap>>

MissExpired(k) ==
    /\ cache[k] # Nothing
    /\ Expired(k)
    /\ DeleteEntry(k)
    /\ last' = Nothing

Get(k) ==
    /\ Hit(k) \/ Miss(k) \/ MissExpired(k)
    /\ UNCHANGED <<policy, size, now>>

Delete(k) ==
    /\ IF cache[k] # Nothing THEN DeleteEntry(k) ELSE UNCHANGED <<cache, accessOrder, lfuHeap>>
    /\ UNCHANGED <<policy, size, now, last>>

Clear ==
    /\ cache' = [k \in Keys |-> Nothing]
    /\ accessOrder' = {}
    /\ lfuHeap' = {}
    /\ UNCHANGED <<policy, size, now, last>>

\* The cache manager's routine: every expired entry goes.
CleanupExpired ==
    /\ LET gone == {k \in Cached : Expired(k)}
       IN  /\ cache' = [k \in Keys |-> IF k \in gone THEN Nothing ELSE cache[k]]
           /\ accessOrder' = Without(accessOrder, gone)
           /\ lfuHeap' = {i \in lfuHeap : i.key \notin gone}
    /\ UNCHANGED <<policy, size, now, last>>

Tick ==
    /\ now < MaxTime
    /\ now' = now + 1
    /\ UNCHANGED <<cache, accessOrder, lfuHeap, policy, size, last>>

CacheNext ==
    \/ \E k \in Keys, v \in Values : Set(k, v)
    \/ \E k \in Keys : Get(k) \/ Delete(k)
    \/ Clear
    \/ CleanupExpired
    \/ Tick

InMemoryCacheSpec == CacheInit /\ [][CacheNext]_cacheVars

-----------------------------------------------------------------------------
(* Properties.                                                             *)

CacheTypeOK ==
    /\ cache \in [Keys -> Entries \cup {Nothing}]
    /\ accessOrder \in SUBSET (Keys \X Keys)
    /\ lfuHeap \in SUBSET HeapItems
    /\ policy \in Policies
    /\ size \in Sizes
    /\ now \in Nat
    /\ last \in [key : Keys, value : Values] \cup {Nothing}

\* The list is a list of the keys that have an entry, each of them once, with
\* the ones used later before the ones used earlier.
ListExact ==
    /\ accessOrder \subseteq Cached \X Cached
    /\ \A k, l \in Cached :
          /\ <<k, l>> \in accessOrder \/ <<l, k>> \in accessOrder
          /\ k # l => ~(<<k, l>> \in accessOrder /\ <<l, k>> \in accessOrder)
          /\ <<k, l>> \in accessOrder => cache[k].lastAccess >= cache[l].lastAccess

\* The heap has one item for each entry with the uses that entry has had, and
\* nothing when the policy does not need it.
HeapExact ==
    lfuHeap = IF policy = "LFU" THEN {Item(k, cache[k]) : k \in Cached} ELSE {}

\* Whatever was set, used, deleted, evicted, cleared or cleaned up, the map, the
\* list and the heap of inmemorycache.go are about the same entries, and they
\* are no more than the configured size.
Linked ==
    /\ ListExact
    /\ HeapExact
    /\ Cardinality(Cached) <= size

\* Eviction may take entry a while it keeps entry b.
NotBetter(a, b) ==
    IF policy = "LFU" THEN ~Less(b, a) ELSE a.lastAccess <= b.lastAccess

\* An entry that Set takes out to make room for another is not better than the
\* ones that stay: it is the one whose last use is the earliest (LRU) or one of
\* those with the fewest uses (LFU).  With LRU what was set stays, unless the
\* cache has no room at all; with LFU it may be the one that goes.
EvictsLeastUsed ==
    [][\A k \in Keys, v \in Values : Set(k, v) =>
           /\ \A gone, kept \in Keys :
                 cache[gone] # Nothing /\ cache'[gone] = Nothing /\ cache'[kept] # Nothing
                 => NotBetter(cache[gone], cache'[kept])
           /\ policy = "LRU" /\ size > 0 => cache'[k] # Nothing]_cacheVars

-----------------------------------------------------------------------------
(* Refinement.                                                             *)

Cell(e) == IF e = Nothing THEN Nothing ELSE [value |-> e.value, expiry |-> e.expiry]

Abstract == INSTANCE CacheSpec WITH
    known <- [k \in Keys |-> Cell(cache[k])],
    clock <- now,
    None <- Nothing

\* Every operation of the cache is one that CacheSpec allows: a hit is never a
\* value that was replaced, deleted or has expired.
ImplementsSpec == Abstract!Spec

=============================================================================
