------------------------------ MODULE MemoryStore ------------------------------
(***************************************************************************)
(* outputcache/inmemory: the in-process Storage of the output cache.       *)
(*                                                                         *)
(* A Store is a map from cache keys to *CachedResponse and an index from   *)
(* tags to the keys stored under them, both behind one RWMutex.  Request   *)
(* goroutines call Get, Set, Delete, Clear, InvalidateTag and              *)
(* InvalidateTags while a cleanup goroutine sweeps expired entries.  Each  *)
(* critical section is one step.  What Get does between its sections       *)
(* (reading the clock, reading ExpiresAt, deciding) are steps of their own,*)
(* since other goroutines run between them.                                *)
(*                                                                         *)
(* Responses live on a heap and the map holds pointers to them: a Get that *)
(* extends ExpiresAt writes through its pointer, whether or not the map    *)
(* still leads to it.  The order of the keys under a tag is never          *)
(* observable (Delete removes one occurrence, invalidation removes all),   *)
(* so the index keeps, for each tag, how often each key occurs.            *)
(***************************************************************************)
EXTENDS Integers, Sequences

CONSTANTS
  Keys,      \* cache keys
  Tags,      \* tags a response may carry
  Threads,   \* request goroutines
  PoliciesOf,\* per key, the caching options its responses may be stored under
  NoKey,     \* what an idle goroutine has for a key
  MaxSets,   \* bound: responses ever built
  MaxClock   \* bound: last instant of the clock

\* `tags' counts occurrences: Tags("a", "a") is legal and indexes the key twice.
Policy == [tags: [Tags -> Nat], sliding: BOOLEAN, duration: Nat]

ASSUME ConstantsAssumption ==
  /\ MaxSets \in Nat
  /\ MaxClock \in Nat
  /\ PoliciesOf \in [Keys -> SUBSET Policy]
  /\ NoKey \notin Keys

NoEntry == 0

VARIABLES
  clock,        \* what time.Now() returns
  heap,         \* every CachedResponse built; its index is its address
  cache,        \* s.cache: key -> address, NoEntry when absent
  tagIndex,     \* s.tagIndex: tag -> key -> number of occurrences
  pc,           \* where each goroutine is inside its call
  key,          \* the key it was called with
  obj,          \* the response it holds a pointer to
  now,          \* the `now' it captured
  sweeper,      \* the cleanup goroutine: "waiting", "sweeping" or "stopped"
  sweepNow,     \* the `now' it captured
  closed,       \* the done channel is closed
  invalidated   \* history: responses a tag invalidation was meant to remove

callVars  == <<pc, key, obj, now>>
sweepVars == <<sweeper, sweepNow, closed>>
vars == <<clock, heap, cache, tagIndex, callVars, sweepVars, invalidated>>

Response == [tags: [Tags -> Nat], sliding: BOOLEAN, duration: Nat,
             cachedAt: Nat, expiresAt: Nat]

Labels == {"idle", "set", "clock", "check", "delete", "slide"}

TypeOK ==
  /\ clock \in 0..MaxClock
  /\ heap \in Seq(Response)
  /\ cache \in [Keys -> 0..Len(heap)]
  /\ tagIndex \in [Tags -> [Keys -> Nat]]
  /\ pc \in [Threads -> Labels]
  /\ key \in [Threads -> Keys \cup {NoKey}]
  /\ obj \in [Threads -> 0..Len(heap)]
  /\ now \in [Threads -> 0..MaxClock]
  /\ sweeper \in {"waiting", "sweeping", "stopped"}
  /\ sweepNow \in 0..MaxClock
  /\ closed \in BOOLEAN
  /\ invalidated \subseteq 1..Len(heap)

\* New, and StartCleanup called by outputcache.New.
Init ==
  /\ clock = 0
  /\ heap = << >>
  /\ cache = [k \in Keys |-> NoEntry]
  /\ tagIndex = [t \in Tags |-> [k \in Keys |-> 0]]
  /\ pc = [p \in Threads |-> "idle"]
  /\ key = [p \in Threads |-> NoKey]
  /\ obj = [p \in Threads |-> NoEntry]
  /\ now = [p \in Threads |-> 0]
  /\ sweeper = "waiting"
  /\ sweepNow = 0
  /\ closed = FALSE
  /\ invalidated = {}

-----------------------------------------------------------------------------
(* Helpers *)

Expired(o, instant) == instant > heap[o].expiresAt

Carries(o, t) == heap[o].tags[t] > 0

\* The entries of `cache' that carry one of the tags in T.
Tagged(T) == {k \in Keys : cache[k] # NoEntry /\ \E t \in T : Carries(cache[k], t)}

Without(map, K) == [k \in Keys |-> IF k \in K THEN NoEntry ELSE map[k]]

\* Mutant: Delete takes k from every tag, carried or not.
UnindexedEverywhere(k, tags) == [t \in Tags |-> [tagIndex[t] EXCEPT ![k] = @ - 1]]

\* The index after one occurrence of k has gone for every tag its entry lists.
Unindexed(k, tags) ==
  [t \in Tags |-> [tagIndex[t] EXCEPT ![k] = IF @ > tags[t] THEN @ - tags[t] ELSE 0]]

\* Mutant: a key is listed once per tag, however often its entry lists the tag.
IndexedOnce(k, tags) ==
  [t \in Tags |-> [tagIndex[t] EXCEPT ![k] = IF tags[t] > 0 THEN @ + 1 ELSE @]]

\* Mutant: a Set that overwrites an entry trusts the index to have the key.
IndexedIfNew(k, tags) ==
  IF cache[k] = NoEntry
  THEN [t \in Tags |-> [tagIndex[t] EXCEPT ![k] = @ + tags[t]]]
  ELSE tagIndex

Indexed(k, tags) == [t \in Tags |-> [tagIndex[t] EXCEPT ![k] = @ + tags[t]]]

\* The critical section of Delete(k).
DeleteSection(k) ==
  IF cache[k] = NoEntry
  THEN UNCHANGED <<cache, tagIndex>>
  ELSE /\ cache' = [cache EXCEPT ![k] = NoEntry]
       /\ tagIndex' = Unindexed(k, heap[cache[k]].tags)

\* Mutant: every key listed under some tag goes, whatever the tag.
InvalidateAllSection(T) ==
  /\ cache' = Without(cache, {k \in Keys : \E t \in Tags : tagIndex[t][k] > 0})
  /\ tagIndex' = [t \in Tags |-> IF t \in T THEN [k \in Keys |-> 0] ELSE tagIndex[t]]
  /\ invalidated' = invalidated \cup {cache[k] : k \in Tagged(T)}

\* The critical section of InvalidateTag and InvalidateTags: the listed keys
\* go from the map whatever their entries carry now, the tags from the index.
InvalidateSection(T) ==
  /\ cache' = Without(cache, {k \in Keys : \E t \in T : tagIndex[t][k] > 0})
  /\ tagIndex' = [t \in Tags |-> IF t \in T THEN [k \in Keys |-> 0] ELSE tagIndex[t]]
  /\ invalidated' = invalidated \cup {cache[k] : k \in Tagged(T)}

Goto(p, label) == pc' = [pc EXCEPT ![p] = label]

\* The call is over and its locals with it.
Return(p) ==
  /\ pc' = [pc EXCEPT ![p] = "idle"]
  /\ key' = [key EXCEPT ![p] = NoKey]
  /\ obj' = [obj EXCEPT ![p] = NoEntry]
  /\ now' = [now EXCEPT ![p] = 0]

-----------------------------------------------------------------------------
(* Set *)

\* Mutant: the map leads to the response before Set takes the lock.
SetBeginPublished(p, k, policy) ==
  /\ pc[p] = "idle"
  /\ Len(heap) < MaxSets
  /\ heap' = Append(heap, [tags |-> policy.tags, sliding |-> policy.sliding,
                           duration |-> policy.duration, cachedAt |-> clock,
                           expiresAt |-> clock + policy.duration])
  /\ cache' = [cache EXCEPT ![k] = Len(heap) + 1]
  /\ obj' = [obj EXCEPT ![p] = Len(heap) + 1]
  /\ key' = [key EXCEPT ![p] = k]
  /\ Goto(p, "set")
  /\ UNCHANGED <<clock, tagIndex, now, sweepVars, invalidated>>

\* The caller reads the clock and builds the response; Set stamps ExpiresAt
\* before it takes the lock.
SetBegin(p, k, policy) ==
  /\ pc[p] = "idle"
  /\ Len(heap) < MaxSets
  /\ heap' = Append(heap, [tags |-> policy.tags, sliding |-> policy.sliding,
                           duration |-> policy.duration, cachedAt |-> clock,
                           expiresAt |-> clock + policy.duration])
  /\ obj' = [obj EXCEPT ![p] = Len(heap) + 1]
  /\ key' = [key EXCEPT ![p] = k]
  /\ Goto(p, "set")
  /\ UNCHANGED <<clock, cache, tagIndex, now, sweepVars, invalidated>>

SetCommit(p) ==
  /\ pc[p] = "set"
  /\ cache' = [cache EXCEPT ![key[p]] = obj[p]]
  /\ tagIndex' = Indexed(key[p], heap[obj[p]].tags)
  /\ Return(p)
  /\ UNCHANGED <<clock, heap, sweepVars, invalidated>>

(* Get *)

\* The read-locked lookup; a key that is not there is a miss at once.
GetLookup(p, k) ==
  /\ pc[p] = "idle"
  /\ cache[k] # NoEntry
  /\ key' = [key EXCEPT ![p] = k]
  /\ obj' = [obj EXCEPT ![p] = cache[k]]
  /\ Goto(p, "clock")
  /\ UNCHANGED <<clock, heap, cache, tagIndex, now, sweepVars, invalidated>>

GetNow(p) ==
  /\ pc[p] = "clock"
  /\ now' = [now EXCEPT ![p] = clock]
  /\ Goto(p, "check")
  /\ UNCHANGED <<clock, heap, cache, tagIndex, key, obj, sweepVars, invalidated>>

\* ExpiresAt is read without the lock, a race with GetSlide's write.  Both
\* values carry a monotonic reading, so After compares one word of them: it
\* sees the old instant or the new one.  A fresh entry that does not slide is
\* a hit at once.
GetCheck(p) ==
  /\ pc[p] = "check"
  /\ \/ /\ Expired(obj[p], now[p])
        /\ Goto(p, "delete")
        /\ UNCHANGED <<key, obj, now>>
     \/ /\ ~Expired(obj[p], now[p])
        /\ heap[obj[p]].sliding
        /\ Goto(p, "slide")
        /\ UNCHANGED <<key, obj, now>>
     \/ /\ ~Expired(obj[p], now[p])
        /\ ~heap[obj[p]].sliding
        /\ Return(p)
  /\ UNCHANGED <<clock, heap, cache, tagIndex, sweepVars, invalidated>>

\* A miss: Get calls Delete(key), which takes the lock again and removes
\* whatever the key leads to by then.
GetDelete(p) ==
  /\ pc[p] = "delete"
  /\ DeleteSection(key[p])
  /\ Return(p)
  /\ UNCHANGED <<clock, heap, sweepVars, invalidated>>

\* Mutant: a hit adds a duration to ExpiresAt.
GetSlideAdds(p) ==
  /\ pc[p] = "slide"
  /\ heap' = [heap EXCEPT ![obj[p]].expiresAt = @ + heap[obj[p]].duration]
  /\ Return(p)
  /\ UNCHANGED <<clock, cache, tagIndex, sweepVars, invalidated>>

\* A hit on a sliding entry.
GetSlide(p) ==
  /\ pc[p] = "slide"
  /\ heap' = [heap EXCEPT ![obj[p]].expiresAt = now[p] + heap[obj[p]].duration]
  /\ Return(p)
  /\ UNCHANGED <<clock, cache, tagIndex, sweepVars, invalidated>>

(* Delete, Clear, InvalidateTag, InvalidateTags *)

Delete(p, k) ==
  /\ pc[p] = "idle"
  /\ DeleteSection(k)
  /\ UNCHANGED <<clock, heap, callVars, sweepVars, invalidated>>

Clear(p) ==
  /\ pc[p] = "idle"
  /\ cache' = Without(cache, Keys)
  /\ tagIndex' = [t \in Tags |-> [k \in Keys |-> 0]]
  /\ UNCHANGED <<clock, heap, callVars, sweepVars, invalidated>>

InvalidateTag(p, t) ==
  /\ pc[p] = "idle"
  /\ InvalidateSection({t})
  /\ UNCHANGED <<clock, heap, callVars, sweepVars>>

InvalidateTags(p, T) ==
  /\ pc[p] = "idle"
  /\ InvalidateSection(T)
  /\ UNCHANGED <<clock, heap, callVars, sweepVars>>

(* The cleanup goroutine *)

\* The ticker fires; cleanup reads the clock before it asks for the lock.
SweepBegin ==
  /\ sweeper = "waiting"
  /\ sweeper' = "sweeping"
  /\ sweepNow' = clock
  /\ UNCHANGED <<clock, heap, cache, tagIndex, callVars, closed, invalidated>>

\* Mutant: the sweep takes entries in the last instant of their life.
SweepEarly ==
  /\ sweeper = "sweeping"
  /\ cache' = Without(cache, {k \in Keys : cache[k] # NoEntry /\
                                            sweepNow >= heap[cache[k]].expiresAt})
  /\ sweeper' = "waiting"
  /\ UNCHANGED <<clock, heap, tagIndex, callVars, sweepNow, closed, invalidated>>

\* Mutant: the sweep leaves sliding entries to Get.
SweepFixed ==
  /\ sweeper = "sweeping"
  /\ cache' = Without(cache, {k \in Keys : cache[k] # NoEntry /\ ~heap[cache[k]].sliding
                                            /\ Expired(cache[k], sweepNow)})
  /\ sweeper' = "waiting"
  /\ UNCHANGED <<clock, heap, tagIndex, callVars, sweepNow, closed, invalidated>>

\* Expired entries leave the map; the tag index keeps their keys.
Sweep ==
  /\ sweeper = "sweeping"
  /\ cache' = Without(cache, {k \in Keys : cache[k] # NoEntry /\ Expired(cache[k], sweepNow)})
  /\ sweeper' = "waiting"
  /\ UNCHANGED <<clock, heap, tagIndex, callVars, sweepNow, closed, invalidated>>

\* The function StartCleanup returned, which Cache.Close calls.  A second
\* call would panic on the closed channel.
StopCleanup ==
  /\ ~closed
  /\ closed' = TRUE
  /\ UNCHANGED <<clock, heap, cache, tagIndex, callVars, sweeper, sweepNow, invalidated>>

\* Mutant: the goroutine waits for the map to empty.
SweeperExitEmpty ==
  /\ sweeper = "waiting"
  /\ closed
  /\ \A k \in Keys : cache[k] = NoEntry
  /\ sweeper' = "stopped"
  /\ UNCHANGED <<clock, heap, cache, tagIndex, callVars, sweepNow, closed, invalidated>>

\* The select sees the closed channel; a ready ticker may still win over it.
SweeperExit ==
  /\ sweeper = "waiting"
  /\ closed
  /\ sweeper' = "stopped"
  /\ UNCHANGED <<clock, heap, cache, tagIndex, callVars, sweepNow, closed, invalidated>>

ClockTick ==
  /\ clock < MaxClock
  /\ clock' = clock + 1
  /\ UNCHANGED <<heap, cache, tagIndex, callVars, sweepVars, invalidated>>

-----------------------------------------------------------------------------
\* What a goroutine inside a call does next.
Proceed(p) ==
  SetCommit(p) \/ GetNow(p) \/ GetCheck(p) \/ GetDelete(p) \/ GetSlide(p)

\* A goroutine enters a call, or makes one that is a single critical section.
Call(p) ==
  \/ \E k \in Keys : \E policy \in PoliciesOf[k] : SetBegin(p, k, policy)
  \/ \E k \in Keys : GetLookup(p, k)
  \/ \E k \in Keys : Delete(p, k)
  \/ Clear(p)
  \/ \E t \in Tags : InvalidateTag(p, t)
  \/ \E T \in SUBSET Tags : InvalidateTags(p, T)

Next ==
  \/ \E p \in Threads : Call(p) \/ Proceed(p)
  \/ SweepBegin \/ Sweep \/ StopCleanup \/ SweeperExit
  \/ ClockTick

Spec == Init /\ [][Next]_vars

\* Goroutines inside a call are scheduled and get the mutex, the ticker keeps
\* firing, and select does not ignore a ready channel for ever.
Fairness ==
  /\ \A p \in Threads : WF_vars(Proceed(p))
  /\ WF_vars(SweepBegin)
  /\ WF_vars(Sweep)
  /\ SF_vars(SweeperExit)

FairSpec == Spec /\ Fairness

-----------------------------------------------------------------------------
(* Safety *)

\* Every tag occurrence of a live entry is in the index: Delete, overwriting
\* Set, lazy removal and the sweep may leave the index too large, never too
\* small, so InvalidateTag (inmemory.go:102) misses no live entry.
IndexCoversCache ==
  \A k \in Keys : cache[k] # NoEntry =>
    \A t \in Tags : tagIndex[t][k] >= heap[cache[k]].tags[t]

\* A response a tag invalidation was meant to remove is not in the map, then
\* or ever after: a Get that starts later cannot return it.
InvalidatedIsGone == \A k \in Keys : cache[k] \notin invalidated

\* A response whose Set has not reached its critical section is known to its
\* own goroutine alone.
Building(p) == pc[p] = "set"
PrivateUntilStored ==
  \A p \in Threads : Building(p) =>
    /\ obj[p] \notin invalidated
    /\ \A k \in Keys : cache[k] # obj[p]
    /\ \A q \in Threads \ {p} : obj[q] # obj[p]

\* Whatever Gets race to extend it, an entry never outlives a full duration
\* from now, never gets less than the duration it was stored for, and gets
\* exactly that when it does not slide.
LeaseBounds ==
  \A o \in 1..Len(heap) :
    LET r == heap[o] IN
    /\ r.cachedAt + r.duration <= r.expiresAt
    /\ r.expiresAt <= clock + r.duration
    /\ ~r.sliding => r.expiresAt = r.cachedAt + r.duration

(* Refinement *)

\* What the contract sees of the store: the tags of the responses, which are
\* still to be stored, and which a Get holds.
TagsOf == [o \in 1..Len(heap) |-> {t \in Tags : Carries(o, t)}]
Pending == {obj[p] : p \in {q \in Threads : Building(q)}}
Held == [p \in Threads |-> IF pc[p] \in {"idle", "set"} THEN NoEntry ELSE obj[p]]

Storage == INSTANCE StorageContract WITH
  label <- TagsOf, pending <- Pending, stored <- cache, held <- Held

\* The store keeps the promises of the Storage interface (storage.go:21):
\* goroutines in the middle of Set or Get, stale index entries and the sweep
\* never let an invalidated response be found, or one be stored twice.
ImplementsStorage == Storage!Spec

(* Action properties *)

\* While a key keeps its tags (no profile changes under it), a tag
\* invalidation removes entries that carry the tag and no others, however
\* stale the index entries that the sweep leaves behind.
ExactInvalidation ==
  [][\A T \in SUBSET Tags, p \in Threads : InvalidateTags(p, T) =>
       \A k \in Keys : cache'[k] # cache[k] => k \in Tagged(T)]_vars

\* The sweep spares what is not expired: a response stored or extended after
\* cleanup read the clock (inmemory.go:155) survives it.
SweepSparesFresh ==
  [][sweeper = "sweeping" /\ sweeper' = "waiting" =>
       \A k \in Keys : cache'[k] # cache[k] => Expired(cache[k], clock)]_vars

(* Liveness *)

\* An expired entry does not stay: it is swept, replaced or extended by a Get
\* that read the clock in time, unless the cleanup has been stopped.
ExpiredLeaves ==
  \A k \in Keys : \A o \in 1..MaxSets :
    cache[k] = o /\ Expired(o, clock) ~> closed \/ cache[k] # o \/ ~Expired(o, clock)

\* Close ends the cleanup goroutine.
SweeperStops == closed ~> sweeper = "stopped"
=============================================================================
