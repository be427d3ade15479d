--------------------------- MODULE MemoryStoreProofs ---------------------------
(***************************************************************************)
(* Theorems about MemoryStore, for any keys, tags, goroutines, policies    *)
(* and bounds.                                                             *)
(***************************************************************************)
EXTENDS MemoryStore, SequenceTheorems, TLAPS

\* What a goroutine in the middle of a call knows: its response exists, and a
\* Get read the clock after that response was built.
CallState ==
  /\ \A p \in Threads :
       /\ pc[p] = "idle" => obj[p] = NoEntry
       /\ pc[p] # "idle" => obj[p] \in 1..Len(heap) /\ key[p] \in Keys
       /\ pc[p] \in {"check", "delete", "slide"} =>
            heap[obj[p]].cachedAt <= now[p] /\ now[p] <= clock
       /\ pc[p] = "slide" => heap[obj[p]].sliding
  /\ \A o \in 1..Len(heap) : heap[o].cachedAt <= clock
  /\ sweepNow <= clock

\* The inductive invariant.
IInv ==
  /\ TypeOK
  /\ CallState
  /\ IndexCoversCache
  /\ PrivateUntilStored
  /\ InvalidatedIsGone
  /\ LeaseBounds

-----------------------------------------------------------------------------
LEMMA InitIInv == Init => IInv
<1> SUFFICES ASSUME Init PROVE IInv
  OBVIOUS
<1> USE ConstantsAssumption DEF Init, NoEntry
<1>1. TypeOK
  <2>1. heap \in Seq(Response) /\ Len(heap) = 0
    BY EmptySeq
  <2>2. cache \in [Keys -> 0..Len(heap)] /\ obj \in [Threads -> 0..Len(heap)]
    BY <2>1
  <2>3. tagIndex \in [Tags -> [Keys -> Nat]]
    OBVIOUS
  <2>4. pc \in [Threads -> Labels] /\ key \in [Threads -> Keys \cup {NoKey}]
    BY DEF Labels
  <2>5. now \in [Threads -> 0..MaxClock] /\ clock \in 0..MaxClock /\ sweepNow \in 0..MaxClock
    OBVIOUS
  <2>6. sweeper \in {"waiting", "sweeping", "stopped"} /\ closed \in BOOLEAN
    OBVIOUS
  <2> QED BY <2>1, <2>2, <2>3, <2>4, <2>5, <2>6 DEF TypeOK
<1>2. CallState
  BY DEF CallState
<1>3. IndexCoversCache /\ PrivateUntilStored /\ InvalidatedIsGone /\ LeaseBounds
  BY DEF IndexCoversCache, PrivateUntilStored, Building, InvalidatedIsGone, LeaseBounds
<1> QED BY <1>1, <1>2, <1>3 DEF IInv

-----------------------------------------------------------------------------
\* A returning goroutine's locals stay in range.
LEMMA ReturnTyped ==
  ASSUME TypeOK, NEW p \in Threads, Return(p), Len(heap') = Len(heap), Len(heap) \in Nat
  PROVE  /\ pc' \in [Threads -> Labels]
         /\ key' \in [Threads -> Keys \cup {NoKey}]
         /\ obj' \in [Threads -> 0..Len(heap')]
         /\ now' \in [Threads -> 0..MaxClock]
<1>1. pc' \in [Threads -> Labels] /\ key' \in [Threads -> Keys \cup {NoKey}]
  BY DEF TypeOK, Return, Labels
<1>2. obj' \in [Threads -> 0..Len(heap')]
  BY DEF TypeOK, Return, NoEntry
<1>3. now' \in [Threads -> 0..MaxClock]
  BY ConstantsAssumption DEF TypeOK, Return
<1> QED BY <1>1, <1>2, <1>3

\* A response is built: the heap grows by one, and no pointer leads there yet
\* but the caller's own.
LEMMA SetBeginStep ==
  ASSUME IInv, NEW p \in Threads, NEW k \in Keys, NEW policy \in PoliciesOf[k],
         SetBegin(p, k, policy)
  PROVE  IInv'
<1> DEFINE n == Len(heap) + 1
           r == [tags |-> policy.tags, sliding |-> policy.sliding,
                 duration |-> policy.duration, cachedAt |-> clock,
                 expiresAt |-> clock + policy.duration]
<1>1. TypeOK /\ CallState /\ IndexCoversCache /\ PrivateUntilStored /\ InvalidatedIsGone
      /\ LeaseBounds
  BY DEF IInv
<1>2. policy \in Policy
  BY ConstantsAssumption
<1>3. clock \in Nat /\ r \in Response
  BY <1>1, <1>2, ConstantsAssumption DEF TypeOK, Response, Policy
<1>4. /\ heap \in Seq(Response) /\ heap' = Append(heap, r)
      /\ cache' = cache /\ tagIndex' = tagIndex /\ invalidated' = invalidated
      /\ clock' = clock /\ now' = now /\ sweepNow' = sweepNow
      /\ pc' = [pc EXCEPT ![p] = "set"]
      /\ obj' = [obj EXCEPT ![p] = n]
      /\ key' = [key EXCEPT ![p] = k]
      /\ pc[p] = "idle"
  BY <1>1 DEF SetBegin, TypeOK, Goto, sweepVars
<1>5. /\ heap' \in Seq(Response) /\ Len(heap') = n /\ Len(heap) \in Nat
      /\ \A o \in 1..Len(heap) : heap'[o] = heap[o]
      /\ heap'[n] = r
  BY <1>3, <1>4
<1> HIDE DEF r
<1>6. TypeOK'
  BY <1>1, <1>4, <1>5 DEF TypeOK, SetBegin, sweepVars, Labels
<1>7. CallState'
  BY <1>1, <1>3, <1>4, <1>5 DEF CallState, TypeOK, NoEntry, r
<1>8. IndexCoversCache'
  BY <1>1, <1>4, <1>5 DEF IndexCoversCache, TypeOK, NoEntry
<1>9. PrivateUntilStored'
  BY <1>1, <1>4, <1>5 DEF PrivateUntilStored, Building, TypeOK
<1>10. InvalidatedIsGone'
  BY <1>1, <1>4 DEF InvalidatedIsGone
<1>11. LeaseBounds'
  BY <1>1, <1>2, <1>3, <1>4, <1>5 DEF LeaseBounds, Policy, r
<1> QED BY <1>6, <1>7, <1>8, <1>9, <1>10, <1>11 DEF IInv

\* The response becomes reachable through its key and is indexed.
LEMMA SetCommitStep ==
  ASSUME IInv, NEW p \in Threads, SetCommit(p)
  PROVE  IInv'
<1> DEFINE k == key[p]
           o == obj[p]
<1>1. TypeOK /\ CallState /\ IndexCoversCache /\ PrivateUntilStored /\ InvalidatedIsGone
      /\ LeaseBounds
  BY DEF IInv
<1>2. heap \in Seq(Response) /\ Len(heap) \in Nat
  BY <1>1 DEF TypeOK
<1>3. /\ heap' = heap /\ cache' = [cache EXCEPT ![k] = o]
      /\ tagIndex' = Indexed(k, heap[o].tags)
      /\ invalidated' = invalidated /\ clock' = clock /\ sweepNow' = sweepNow
      /\ pc' = [pc EXCEPT ![p] = "idle"]
      /\ obj' = [obj EXCEPT ![p] = NoEntry]
      /\ key' = [key EXCEPT ![p] = NoKey]
      /\ now' = [now EXCEPT ![p] = 0]
      /\ pc[p] = "set"
  BY DEF SetCommit, Return, sweepVars
<1>4. k \in Keys /\ o \in 1..Len(heap)
  BY <1>1, <1>3 DEF CallState
<1>5. heap[o] \in Response
  BY <1>2, <1>4
<1>6. heap[o].tags \in [Tags -> Nat]
  BY <1>5 DEF Response
<1>7. /\ tagIndex' \in [Tags -> [Keys -> Nat]]
      /\ \A t \in Tags : tagIndex'[t][k] = tagIndex[t][k] + heap[o].tags[t]
      /\ \A t \in Tags, j \in Keys \ {k} : tagIndex'[t][j] = tagIndex[t][j]
  BY <1>1, <1>3, <1>4, <1>6 DEF Indexed, TypeOK
<1> HIDE DEF k, o
<1>8. TypeOK'
  <2>1. cache' \in [Keys -> 0..Len(heap')] /\ heap' \in Seq(Response)
    BY <1>1, <1>2, <1>3, <1>4 DEF TypeOK
  <2>2. /\ pc' \in [Threads -> Labels]
        /\ key' \in [Threads -> Keys \cup {NoKey}]
        /\ obj' \in [Threads -> 0..Len(heap')]
        /\ now' \in [Threads -> 0..MaxClock]
    BY <1>1, <1>2, <1>3, ReturnTyped DEF SetCommit
  <2> QED BY <1>1, <1>3, <1>7, <2>1, <2>2 DEF TypeOK, SetCommit, sweepVars
<1>9. CallState'
  BY <1>1, <1>2, <1>3 DEF CallState, TypeOK, NoEntry
<1>10. IndexCoversCache'
  <2> SUFFICES ASSUME NEW j \in Keys, cache'[j] # NoEntry, NEW t \in Tags
               PROVE  tagIndex'[t][j] >= heap[cache'[j]].tags[t]
    BY <1>3 DEF IndexCoversCache
  <2>1. cache \in [Keys -> 0..Len(heap)] /\ tagIndex[t][j] \in Nat
    BY <1>1 DEF TypeOK
  <2>2. CASE j = k
    <3>1. cache'[k] = o /\ tagIndex'[t][k] = tagIndex[t][k] + heap[o].tags[t]
      BY <1>3, <1>4, <1>7, <2>1
    <3>2. tagIndex[t][k] \in Nat /\ heap[o].tags[t] \in Nat
      BY <2>1, <2>2, <1>6
    <3> QED BY <2>2, <3>1, <3>2
  <2>3. CASE j # k
    BY <2>1, <2>3, <1>1, <1>3, <1>4, <1>7 DEF IndexCoversCache
  <2> QED BY <2>2, <2>3
<1>11. PrivateUntilStored'
  <2> SUFFICES ASSUME NEW q \in Threads, pc'[q] = "set"
               PROVE  /\ obj'[q] \notin invalidated
                      /\ \A j \in Keys : cache'[j] # obj'[q]
                      /\ \A x \in Threads \ {q} : obj'[x] # obj'[q]
    BY <1>3 DEF PrivateUntilStored, Building
  <2>1. q # p /\ pc[q] = "set" /\ obj'[q] = obj[q]
    BY <1>1, <1>3 DEF TypeOK
  <2>2. obj[q] # o /\ obj[q] \in 1..Len(heap)
    BY <1>1, <2>1 DEF PrivateUntilStored, Building, CallState, o
  <2>3. \A j \in Keys : cache'[j] # obj'[q]
    BY <1>1, <1>3, <2>1, <2>2 DEF PrivateUntilStored, Building, TypeOK
  <2>4. \A x \in Threads \ {q} : obj'[x] # obj'[q]
    BY <1>1, <1>2, <1>3, <2>1, <2>2 DEF PrivateUntilStored, Building, TypeOK, NoEntry
  <2> QED BY <1>1, <2>1, <2>3, <2>4 DEF PrivateUntilStored, Building
<1>12. InvalidatedIsGone'
  BY <1>1, <1>3, <1>4 DEF InvalidatedIsGone, PrivateUntilStored, Building, TypeOK, o
<1>13. LeaseBounds'
  BY <1>1, <1>3 DEF LeaseBounds
<1> QED BY <1>8, <1>9, <1>10, <1>11, <1>12, <1>13 DEF IInv

-----------------------------------------------------------------------------
(* Steps of a Get that leave the map and the index alone *)

LEMMA GetLookupStep ==
  ASSUME IInv, NEW p \in Threads, NEW k \in Keys, GetLookup(p, k)
  PROVE  IInv'
<1>1. TypeOK /\ CallState /\ IndexCoversCache /\ PrivateUntilStored /\ InvalidatedIsGone
      /\ LeaseBounds
  BY DEF IInv
<1>2. /\ heap' = heap /\ cache' = cache /\ tagIndex' = tagIndex /\ now' = now
      /\ clock' = clock /\ invalidated' = invalidated /\ sweepNow' = sweepNow
      /\ pc[p] = "idle" /\ pc' = [pc EXCEPT ![p] = "clock"]
      /\ obj' = [obj EXCEPT ![p] = cache[k]] /\ key' = [key EXCEPT ![p] = k]
      /\ cache[k] # NoEntry
  BY DEF GetLookup, Goto, sweepVars
<1>3. cache[k] \in 1..Len(heap) /\ Len(heap) \in Nat
  BY <1>1, <1>2 DEF TypeOK, NoEntry
<1>4. TypeOK'
  BY <1>1, <1>2, <1>3 DEF TypeOK, GetLookup, sweepVars, Labels
<1>5. CallState'
  BY <1>1, <1>2, <1>3 DEF CallState, TypeOK
<1>6. PrivateUntilStored'
  BY <1>1, <1>2, <1>3 DEF PrivateUntilStored, Building, TypeOK
<1>7. IndexCoversCache' /\ InvalidatedIsGone' /\ LeaseBounds'
  BY <1>1, <1>2 DEF IndexCoversCache, InvalidatedIsGone, LeaseBounds
<1> QED BY <1>4, <1>5, <1>6, <1>7 DEF IInv

LEMMA GetNowStep ==
  ASSUME IInv, NEW p \in Threads, GetNow(p)
  PROVE  IInv'
<1>1. TypeOK /\ CallState /\ IndexCoversCache /\ PrivateUntilStored /\ InvalidatedIsGone
      /\ LeaseBounds
  BY DEF IInv
<1>2. /\ heap' = heap /\ cache' = cache /\ tagIndex' = tagIndex /\ key' = key
      /\ obj' = obj /\ clock' = clock /\ invalidated' = invalidated
      /\ sweepNow' = sweepNow /\ pc[p] = "clock"
      /\ pc' = [pc EXCEPT ![p] = "check"] /\ now' = [now EXCEPT ![p] = clock]
  BY DEF GetNow, Goto, sweepVars
<1>3. TypeOK'
  BY <1>1, <1>2 DEF TypeOK, GetNow, sweepVars, Labels
<1>4. CallState'
  <2>1. clock \in Nat /\ obj[p] \in 1..Len(heap)
    BY <1>1, <1>2, ConstantsAssumption DEF TypeOK, CallState
  <2> QED BY <1>1, <1>2, <2>1 DEF CallState, TypeOK
<1>5. PrivateUntilStored'
  BY <1>1, <1>2 DEF PrivateUntilStored, Building, TypeOK
<1>6. IndexCoversCache' /\ InvalidatedIsGone' /\ LeaseBounds'
  BY <1>1, <1>2 DEF IndexCoversCache, InvalidatedIsGone, LeaseBounds
<1> QED BY <1>3, <1>4, <1>5, <1>6 DEF IInv

\* A goroutine that returns without touching the store.
LEMMA ReturnStep ==
  ASSUME CallState, PrivateUntilStored, TypeOK, NEW p \in Threads, Return(p),
         heap' = heap, clock' = clock, sweepNow' = sweepNow
  PROVE  /\ CallState'
         /\ \A q \in Threads : Building(q)' =>
              /\ q # p /\ Building(q) /\ obj'[q] = obj[q]
              /\ \A x \in Threads \ {q} : obj'[x] # obj'[q]
<1>1. /\ pc' = [pc EXCEPT ![p] = "idle"] /\ key' = [key EXCEPT ![p] = NoKey]
      /\ obj' = [obj EXCEPT ![p] = NoEntry] /\ now' = [now EXCEPT ![p] = 0]
  BY DEF Return
<1>2. CallState'
  BY <1>1 DEF CallState, TypeOK, NoEntry
<1>3. ASSUME NEW q \in Threads, Building(q)'
      PROVE  /\ q # p /\ Building(q) /\ obj'[q] = obj[q]
             /\ \A x \in Threads \ {q} : obj'[x] # obj'[q]
  <2>1. q # p /\ Building(q) /\ obj'[q] = obj[q]
    BY <1>1, <1>3 DEF Building, TypeOK
  <2>2. obj[q] # NoEntry
    BY <2>1 DEF CallState, Building, NoEntry
  <2> QED BY <1>1, <2>1, <2>2 DEF PrivateUntilStored, TypeOK
<1> QED BY <1>2, <1>3

LEMMA GetCheckStep ==
  ASSUME IInv, NEW p \in Threads, GetCheck(p)
  PROVE  IInv'
<1>1. TypeOK /\ CallState /\ IndexCoversCache /\ PrivateUntilStored /\ InvalidatedIsGone
      /\ LeaseBounds
  BY DEF IInv
<1>2. /\ heap' = heap /\ cache' = cache /\ tagIndex' = tagIndex /\ clock' = clock
      /\ invalidated' = invalidated /\ sweepNow' = sweepNow /\ sweeper' = sweeper
      /\ closed' = closed /\ pc[p] = "check" /\ Len(heap) \in Nat
  BY <1>1 DEF GetCheck, sweepVars, TypeOK
<1>3. IndexCoversCache' /\ InvalidatedIsGone' /\ LeaseBounds'
  BY <1>1, <1>2 DEF IndexCoversCache, InvalidatedIsGone, LeaseBounds
<1>4. CASE Return(p)
  <2>1. TypeOK'
    BY <1>1, <1>2, <1>4, ReturnTyped DEF TypeOK
  <2>2. CallState' /\ PrivateUntilStored'
    BY <1>1, <1>2, <1>4, ReturnStep DEF PrivateUntilStored
  <2> QED BY <1>3, <2>1, <2>2 DEF IInv
<1>5. CASE \E label \in {"delete", "slide"} :
             /\ Goto(p, label) /\ UNCHANGED <<key, obj, now>>
             /\ label = "slide" => heap[obj[p]].sliding
  <2>1. PICK label \in {"delete", "slide"} :
          /\ Goto(p, label) /\ UNCHANGED <<key, obj, now>>
          /\ label = "slide" => heap[obj[p]].sliding
    BY <1>5
  <2>2. /\ pc' = [pc EXCEPT ![p] = label] /\ key' = key /\ obj' = obj /\ now' = now
        /\ label = "slide" => heap[obj[p]].sliding
    BY <2>1 DEF Goto
  <2>3. TypeOK'
    BY <1>1, <1>2, <2>2 DEF TypeOK, Labels
  <2>4. CallState'
    BY <1>1, <1>2, <2>2 DEF CallState, TypeOK
  <2>5. PrivateUntilStored'
    BY <1>1, <1>2, <2>2 DEF PrivateUntilStored, Building, TypeOK
  <2> QED BY <1>3, <2>3, <2>4, <2>5 DEF IInv
<1> QED BY <1>4, <1>5 DEF GetCheck

\* A slide moves ExpiresAt to a full duration after an instant between the
\* building of the response and now.
LEMMA GetSlideStep ==
  ASSUME IInv, NEW p \in Threads, GetSlide(p)
  PROVE  IInv'
<1> DEFINE o == obj[p]
           e == now[p] + heap[o].duration
           r == [heap[o] EXCEPT !.expiresAt = e]
<1>1. TypeOK /\ CallState /\ IndexCoversCache /\ PrivateUntilStored /\ InvalidatedIsGone
      /\ LeaseBounds
  BY DEF IInv
<1>2. /\ heap' = [heap EXCEPT ![o].expiresAt = e] /\ cache' = cache
      /\ tagIndex' = tagIndex /\ clock' = clock /\ invalidated' = invalidated
      /\ sweepNow' = sweepNow /\ sweeper' = sweeper /\ closed' = closed
      /\ pc[p] = "slide" /\ Return(p)
  BY DEF GetSlide, sweepVars
<1>3. heap \in Seq(Response) /\ Len(heap) \in Nat /\ o \in 1..Len(heap)
  BY <1>1, <1>2 DEF TypeOK, CallState
<1>4. heap[o] \in Response /\ now[p] \in Nat
  BY <1>1, <1>3, ConstantsAssumption DEF TypeOK
<1>5. r \in Response /\ e \in Nat
  BY <1>4 DEF Response
<1>6. heap' = [heap EXCEPT ![o] = r]
  BY <1>2
<1> HIDE DEF r
<1>7. /\ heap' \in Seq(Response) /\ Len(heap') = Len(heap)
      /\ \A i \in 1..Len(heap) : heap'[i] = IF i = o THEN r ELSE heap[i]
  BY <1>3, <1>5, <1>6, ExceptSeq
<1>8. /\ r.tags = heap[o].tags /\ r.cachedAt = heap[o].cachedAt
      /\ r.duration = heap[o].duration /\ r.expiresAt = e
      /\ r.sliding = heap[o].sliding
  BY <1>4 DEF r, Response
<1>9. TypeOK'
  BY <1>1, <1>2, <1>3, <1>7, ReturnTyped DEF TypeOK
<1>10. CallState'
  <2>1. obj' = [obj EXCEPT ![p] = NoEntry] /\ pc' = [pc EXCEPT ![p] = "idle"]
        /\ key' = [key EXCEPT ![p] = NoKey] /\ now' = [now EXCEPT ![p] = 0]
    BY <1>2 DEF Return
  <2>2. \A i \in 1..Len(heap) : /\ heap'[i].cachedAt = heap[i].cachedAt
                                /\ heap'[i].sliding = heap[i].sliding
    BY <1>7, <1>8
  <2> QED BY <1>1, <1>2, <1>7, <2>1, <2>2 DEF CallState, TypeOK, NoEntry
<1>11. PrivateUntilStored'
  <2>1. ASSUME NEW q \in Threads, pc'[q] = "set"
        PROVE  /\ pc[q] = "set" /\ obj'[q] = obj[q]
               /\ \A x \in Threads \ {q} : obj'[x] # obj'[q]
    <3>1. q # p /\ pc[q] = "set" /\ obj'[q] = obj[q] /\ obj'[p] = NoEntry
      BY <1>1, <1>2, <2>1 DEF TypeOK, Return
    <3>2. obj[q] # NoEntry
      BY <1>1, <1>3, <3>1 DEF CallState, NoEntry
    <3> QED BY <1>1, <1>2, <3>1, <3>2 DEF PrivateUntilStored, Building, TypeOK, Return
  <2> QED BY <1>1, <1>2, <2>1 DEF PrivateUntilStored, Building
<1>12. IndexCoversCache'
  <2>1. \A i \in 1..Len(heap) : heap'[i].tags = heap[i].tags
    BY <1>7, <1>8
  <2> QED BY <1>1, <1>2, <1>3, <2>1 DEF IndexCoversCache, TypeOK, NoEntry
<1>13. InvalidatedIsGone'
  BY <1>1, <1>2 DEF InvalidatedIsGone
<1>14. LeaseBounds'
  <2> SUFFICES ASSUME NEW i \in 1..Len(heap)
               PROVE  /\ heap'[i].cachedAt + heap'[i].duration <= heap'[i].expiresAt
                      /\ heap'[i].expiresAt <= clock + heap'[i].duration
                      /\ ~heap'[i].sliding =>
                           heap'[i].expiresAt = heap'[i].cachedAt + heap'[i].duration
    BY <1>2, <1>7 DEF LeaseBounds
  <2>1. CASE i # o
    BY <1>1, <1>7, <2>1 DEF LeaseBounds
  <2>2. CASE i = o
    <3>1. heap[o].cachedAt <= now[p] /\ now[p] <= clock /\ heap[o].sliding
      BY <1>1, <1>2 DEF CallState
    <3>2. heap[o].cachedAt \in Nat /\ heap[o].duration \in Nat
      BY <1>4 DEF Response
    <3>3. clock \in Nat
      BY <1>1, ConstantsAssumption DEF TypeOK
    <3>4. heap'[i] = r
      BY <1>7, <2>2
    <3>5. heap'[i].sliding
      BY <1>8, <3>1, <3>4, Zenon
    <3> HIDE DEF o
    <3>6. /\ heap'[i].cachedAt + heap'[i].duration <= heap'[i].expiresAt
          /\ heap'[i].expiresAt <= clock + heap'[i].duration
      BY <1>4, <1>8, <3>1, <3>2, <3>3, <3>4
    <3> QED BY <3>5, <3>6
  <2> QED BY <2>1, <2>2
<1> QED BY <1>9, <1>10, <1>11, <1>12, <1>13, <1>14 DEF IInv

-----------------------------------------------------------------------------
(* Steps that only remove entries *)

\* A step after which every key leads where it led before or nowhere, and
\* which answers for the index itself, keeps the rest of the invariant.
LEMMA RemovalStep ==
  ASSUME IInv,
         cache' \in [Keys -> 0..Len(heap)],
         \A k \in Keys : cache'[k] # cache[k] => cache'[k] = NoEntry,
         heap' = heap, clock' = clock, sweepNow' = sweepNow, sweepNow' \in Nat,
         invalidated' = invalidated
  PROVE  /\ InvalidatedIsGone' /\ LeaseBounds'
         /\ UNCHANGED callVars => CallState' /\ PrivateUntilStored'
         /\ \A p \in Threads : Return(p) => CallState' /\ PrivateUntilStored'
<1>1. TypeOK /\ CallState /\ PrivateUntilStored /\ InvalidatedIsGone /\ LeaseBounds
  BY DEF IInv
<1>2. NoEntry \notin invalidated /\ Len(heap) \in Nat
  BY <1>1 DEF TypeOK, NoEntry
<1>3. InvalidatedIsGone' /\ LeaseBounds'
  BY <1>1, <1>2 DEF InvalidatedIsGone, LeaseBounds
<1>4. ASSUME UNCHANGED callVars PROVE CallState' /\ PrivateUntilStored'
  <2>1. pc' = pc /\ key' = key /\ obj' = obj /\ now' = now
    BY <1>4 DEF callVars
  <2>2. CallState'
    BY <1>1, <2>1 DEF CallState
  <2>3. \A p \in Threads : Building(p) => obj[p] # NoEntry
    BY <1>1 DEF CallState, Building, NoEntry
  <2>4. PrivateUntilStored'
    BY <1>1, <2>1, <2>3 DEF PrivateUntilStored, Building
  <2> QED BY <2>2, <2>4
<1>5. ASSUME NEW p \in Threads, Return(p) PROVE CallState' /\ PrivateUntilStored'
  <2>1. /\ CallState'
        /\ \A q \in Threads : Building(q)' =>
             /\ q # p /\ Building(q) /\ obj'[q] = obj[q]
             /\ \A x \in Threads \ {q} : obj'[x] # obj'[q]
    BY <1>1, <1>5, ReturnStep
  <2>2. \A q \in Threads : Building(q) => obj[q] # NoEntry
    BY <1>1 DEF CallState, Building, NoEntry
  <2>3. PrivateUntilStored'
    BY <1>1, <2>1, <2>2 DEF PrivateUntilStored
  <2> QED BY <2>1, <2>3
<1> QED BY <1>3, <1>4, <1>5

\* Delete takes from the index no more than the entry it removes had put in.
LEMMA DeleteSectionKeepsCover ==
  ASSUME IInv, NEW k \in Keys, DeleteSection(k), heap' = heap
  PROVE  /\ cache' \in [Keys -> 0..Len(heap)]
         /\ tagIndex' \in [Tags -> [Keys -> Nat]]
         /\ \A j \in Keys : cache'[j] # cache[j] => cache'[j] = NoEntry
         /\ IndexCoversCache'
<1>1. TypeOK /\ IndexCoversCache
  BY DEF IInv
<1>2. CASE cache[k] = NoEntry
  BY <1>1, <1>2 DEF DeleteSection, TypeOK, IndexCoversCache
<1>3. CASE cache[k] # NoEntry
  <2> DEFINE tags == heap[cache[k]].tags
  <2>1. cache' = [cache EXCEPT ![k] = NoEntry] /\ tagIndex' = Unindexed(k, tags)
    BY <1>3 DEF DeleteSection
  <2>2. cache[k] \in 1..Len(heap) /\ heap \in Seq(Response) /\ Len(heap) \in Nat
    BY <1>1, <1>3 DEF TypeOK, NoEntry
  <2>3. tags \in [Tags -> Nat]
    <3>1. heap[cache[k]] \in Response
      BY <2>2
    <3> QED BY <3>1 DEF Response
  <2> HIDE DEF tags
  <2>4. /\ tagIndex' \in [Tags -> [Keys -> Nat]]
        /\ \A t \in Tags, j \in Keys \ {k} : tagIndex'[t][j] = tagIndex[t][j]
    BY <1>1, <2>1, <2>3 DEF Unindexed, TypeOK
  <2>5. /\ cache' \in [Keys -> 0..Len(heap)]
        /\ \A j \in Keys : cache'[j] = IF j = k THEN NoEntry ELSE cache[j]
    BY <1>1, <2>1, <2>2 DEF TypeOK, NoEntry
  <2>6. IndexCoversCache'
    BY <1>1, <2>4, <2>5 DEF IndexCoversCache
  <2> QED BY <2>4, <2>5, <2>6
<1> QED BY <1>2, <1>3

LEMMA DeleteStep ==
  ASSUME IInv, NEW p \in Threads, NEW k \in Keys, Delete(p, k)
  PROVE  IInv'
<1>1. /\ DeleteSection(k) /\ heap' = heap /\ clock' = clock /\ invalidated' = invalidated
      /\ UNCHANGED callVars /\ UNCHANGED sweepVars
  BY DEF Delete
<1>2. /\ cache' \in [Keys -> 0..Len(heap)] /\ tagIndex' \in [Tags -> [Keys -> Nat]]
      /\ \A j \in Keys : cache'[j] # cache[j] => cache'[j] = NoEntry
      /\ IndexCoversCache'
  BY <1>1, DeleteSectionKeepsCover
<1>3. TypeOK'
  BY <1>1, <1>2 DEF IInv, TypeOK, callVars, sweepVars
<1>4. sweepNow' = sweepNow /\ sweepNow' \in Nat
  BY <1>1 DEF IInv, TypeOK, sweepVars
<1>5. InvalidatedIsGone' /\ LeaseBounds' /\ CallState' /\ PrivateUntilStored'
  BY <1>1, <1>2, <1>4, RemovalStep
<1> QED BY <1>1, <1>2, <1>3, <1>5 DEF IInv, sweepVars

LEMMA GetDeleteStep ==
  ASSUME IInv, NEW p \in Threads, GetDelete(p)
  PROVE  IInv'
<1>1. /\ DeleteSection(key[p]) /\ heap' = heap /\ clock' = clock
      /\ invalidated' = invalidated /\ Return(p) /\ UNCHANGED sweepVars
      /\ pc[p] = "delete"
  BY DEF GetDelete
<1>2. key[p] \in Keys /\ Len(heap) \in Nat
  BY <1>1 DEF IInv, CallState, TypeOK
<1>3. /\ cache' \in [Keys -> 0..Len(heap)] /\ tagIndex' \in [Tags -> [Keys -> Nat]]
      /\ \A j \in Keys : cache'[j] # cache[j] => cache'[j] = NoEntry
      /\ IndexCoversCache'
  BY <1>1, <1>2, DeleteSectionKeepsCover
<1>4. TypeOK'
  BY <1>1, <1>2, <1>3, ReturnTyped DEF IInv, TypeOK, sweepVars
<1>5. sweepNow' = sweepNow /\ sweepNow' \in Nat
  BY <1>1 DEF IInv, TypeOK, sweepVars
<1>6. InvalidatedIsGone' /\ LeaseBounds' /\ CallState' /\ PrivateUntilStored'
  BY <1>1, <1>3, <1>5, RemovalStep
<1> QED BY <1>1, <1>3, <1>4, <1>6 DEF IInv, sweepVars

LEMMA ClearStep ==
  ASSUME IInv, NEW p \in Threads, Clear(p)
  PROVE  IInv'
<1>1. /\ \A k \in Keys : cache'[k] = NoEntry
      /\ heap' = heap /\ clock' = clock /\ invalidated' = invalidated
      /\ UNCHANGED callVars /\ UNCHANGED sweepVars
      /\ tagIndex' \in [Tags -> [Keys -> Nat]]
  BY DEF Clear, Without
<1>2. cache' \in [Keys -> 0..Len(heap)]
  BY DEF Clear, Without, IInv, TypeOK, NoEntry
<1>3. TypeOK'
  BY <1>1, <1>2 DEF IInv, TypeOK, callVars, sweepVars
<1>4. IndexCoversCache'
  BY <1>1 DEF IndexCoversCache
<1>5. sweepNow' = sweepNow /\ sweepNow' \in Nat
  BY <1>1 DEF IInv, TypeOK, sweepVars
<1>6. InvalidatedIsGone' /\ LeaseBounds' /\ CallState' /\ PrivateUntilStored'
  BY <1>1, <1>2, <1>5, RemovalStep
<1> QED BY <1>1, <1>3, <1>4, <1>6 DEF IInv, sweepVars

\* What the sweep removes, it removes from the map alone.
LEMMA SweepStep ==
  ASSUME IInv, Sweep
  PROVE  IInv'
<1>1. /\ \A k \in Keys : cache'[k] # cache[k] => cache'[k] = NoEntry
      /\ cache' \in [Keys -> 0..Len(heap)]
  BY DEF Sweep, Without, IInv, TypeOK, NoEntry
<1>2. /\ heap' = heap /\ clock' = clock /\ invalidated' = invalidated
      /\ tagIndex' = tagIndex /\ UNCHANGED callVars /\ sweepNow' = sweepNow
      /\ closed' = closed /\ sweeper' = "waiting"
  BY DEF Sweep
<1>3. TypeOK'
  BY <1>1, <1>2 DEF IInv, TypeOK, callVars
<1>4. IndexCoversCache'
  BY <1>1, <1>2 DEF IndexCoversCache, IInv
<1> QED
  BY <1>1, <1>2, <1>3, <1>4, RemovalStep, ConstantsAssumption DEF IInv, TypeOK

\* The heart of tag invalidation: since the index covers the map, every entry
\* that carries one of the tags is listed and goes.
LEMMA InvalidateSectionStep ==
  ASSUME IInv, NEW T \in SUBSET Tags, InvalidateSection(T),
         UNCHANGED <<clock, heap, callVars, sweepVars>>
  PROVE  IInv'
<1>1. TypeOK /\ CallState /\ IndexCoversCache /\ PrivateUntilStored /\ InvalidatedIsGone
      /\ LeaseBounds
  BY DEF IInv
<1>2. /\ cache' = Without(cache, {k \in Keys : \E t \in T : tagIndex[t][k] > 0})
      /\ tagIndex' = [t \in Tags |-> IF t \in T THEN [k \in Keys |-> 0] ELSE tagIndex[t]]
      /\ invalidated' = invalidated \cup {cache[k] : k \in Tagged(T)}
  BY DEF InvalidateSection
<1>3. /\ heap' = heap /\ clock' = clock /\ pc' = pc /\ key' = key /\ obj' = obj
      /\ now' = now /\ sweeper' = sweeper /\ sweepNow' = sweepNow /\ closed' = closed
  BY DEF callVars, sweepVars
<1>4. heap \in Seq(Response) /\ Len(heap) \in Nat /\ cache \in [Keys -> 0..Len(heap)]
  BY <1>1 DEF TypeOK
<1>5. \A k \in Tagged(T) : k \in Keys /\ cache[k] \in 1..Len(heap)
  BY <1>4 DEF Tagged, NoEntry
<1>6. /\ cache' \in [Keys -> 0..Len(heap)]
      /\ \A k \in Keys : cache'[k] # cache[k] => cache'[k] = NoEntry
      /\ \A k \in Keys : (\E t \in T : tagIndex[t][k] > 0) => cache'[k] = NoEntry
  BY <1>2, <1>4 DEF Without, NoEntry
<1>7. tagIndex' \in [Tags -> [Keys -> Nat]]
  BY <1>1, <1>2 DEF TypeOK
<1>8. TypeOK'
  <2>1. invalidated' \subseteq 1..Len(heap')
    BY <1>1, <1>2, <1>3, <1>5 DEF TypeOK
  <2> QED BY <1>1, <1>3, <1>6, <1>7, <2>1 DEF TypeOK
<1>9. CallState' /\ LeaseBounds'
  BY <1>1, <1>3 DEF CallState, LeaseBounds
<1>10. IndexCoversCache'
  <2> SUFFICES ASSUME NEW k \in Keys, cache'[k] # NoEntry, NEW t \in Tags
               PROVE  tagIndex'[t][k] >= heap[cache'[k]].tags[t]
    BY <1>3 DEF IndexCoversCache
  <2>1. cache'[k] = cache[k] /\ \A u \in T : ~(tagIndex[u][k] > 0)
    BY <1>6
  <2>2. tagIndex[t][k] >= heap[cache[k]].tags[t] /\ tagIndex[t][k] \in Nat
    BY <1>1, <2>1 DEF IndexCoversCache, TypeOK
  <2>3. CASE t \in T
    BY <1>2, <2>1, <2>2, <2>3
  <2>4. CASE t \notin T
    BY <1>2, <2>1, <2>2, <2>4
  <2> QED BY <2>3, <2>4
<1>11. InvalidatedIsGone'
  <2> SUFFICES ASSUME NEW k \in Keys, cache'[k] \in invalidated' PROVE FALSE
    BY DEF InvalidatedIsGone
  <2>1. cache'[k] \in 1..Len(heap)
    BY <1>3, <1>4, <1>8 DEF TypeOK
  <2>2. cache'[k] = cache[k] /\ cache[k] # NoEntry
    BY <1>4, <1>6, <2>1 DEF NoEntry
  <2>3. cache[k] \notin invalidated
    BY <1>1 DEF InvalidatedIsGone
  <2>4. PICK j \in Tagged(T) : cache[j] = cache[k]
    BY <1>2, <2>2, <2>3
  <2>5. PICK t \in T : heap[cache[k]].tags[t] > 0
    BY <2>4 DEF Tagged, Carries
  <2>6. heap[cache[k]] \in Response
    BY <1>4, <2>1, <2>2
  <2>7. tagIndex[t][k] >= heap[cache[k]].tags[t] /\ tagIndex[t][k] \in Nat
        /\ heap[cache[k]].tags[t] \in Nat
    BY <1>1, <2>2, <2>6 DEF IndexCoversCache, TypeOK, Response
  <2>8. tagIndex[t][k] > 0
    BY <2>5, <2>7
  <2> QED BY <1>6, <2>2, <2>8
<1>12. PrivateUntilStored'
  <2> SUFFICES ASSUME NEW q \in Threads, Building(q)
               PROVE  /\ obj[q] \notin invalidated'
                      /\ \A k \in Keys : cache'[k] # obj[q]
                      /\ \A x \in Threads \ {q} : obj[x] # obj[q]
    BY <1>3 DEF PrivateUntilStored, Building
  <2>1. /\ obj[q] \notin invalidated /\ \A k \in Keys : cache[k] # obj[q]
        /\ \A x \in Threads \ {q} : obj[x] # obj[q]
    BY <1>1 DEF PrivateUntilStored
  <2>2. obj[q] # NoEntry
    BY <1>1 DEF CallState, Building, NoEntry
  <2>3. obj[q] \notin invalidated'
    BY <1>2, <1>5, <2>1
  <2> QED BY <1>6, <2>1, <2>2, <2>3
<1> QED BY <1>8, <1>9, <1>10, <1>11, <1>12 DEF IInv

-----------------------------------------------------------------------------
\* The clock and the cleanup goroutine's own moves.
LEMMA BackgroundStep ==
  ASSUME IInv, ClockTick \/ SweepBegin \/ StopCleanup \/ SweeperExit
  PROVE  IInv'
<1>1. TypeOK /\ CallState /\ IndexCoversCache /\ PrivateUntilStored /\ InvalidatedIsGone
      /\ LeaseBounds
  BY DEF IInv
<1>2. /\ heap' = heap /\ cache' = cache /\ tagIndex' = tagIndex
      /\ pc' = pc /\ key' = key /\ obj' = obj /\ now' = now /\ invalidated' = invalidated
  BY DEF ClockTick, SweepBegin, StopCleanup, SweeperExit, callVars
<1>3. /\ clock' \in 0..MaxClock /\ clock' >= clock /\ clock \in Nat
      /\ sweepNow' \in 0..MaxClock /\ sweepNow' <= clock'
      /\ sweeper' \in {"waiting", "sweeping", "stopped"} /\ closed' \in BOOLEAN
  <2>1. /\ clock \in 0..MaxClock /\ sweepNow \in 0..MaxClock /\ sweepNow <= clock
        /\ sweeper \in {"waiting", "sweeping", "stopped"} /\ closed \in BOOLEAN
        /\ MaxClock \in Nat
    BY <1>1, ConstantsAssumption DEF TypeOK, CallState
  <2>2. CASE ClockTick
    BY <2>1, <2>2 DEF ClockTick, sweepVars
  <2>3. CASE SweepBegin
    BY <2>1, <2>3 DEF SweepBegin
  <2>4. CASE StopCleanup
    BY <2>1, <2>4 DEF StopCleanup
  <2>5. CASE SweeperExit
    BY <2>1, <2>5 DEF SweeperExit
  <2> QED BY <2>2, <2>3, <2>4, <2>5
<1>4. TypeOK'
  BY <1>1, <1>2, <1>3 DEF TypeOK
<1>5. heap \in Seq(Response) /\ now \in [Threads -> 0..MaxClock] /\ obj \in [Threads -> 0..Len(heap)]
  BY <1>1 DEF TypeOK
<1>6. \A o \in 1..Len(heap) : /\ heap[o].cachedAt \in Nat /\ heap[o].expiresAt \in Nat
                              /\ heap[o].duration \in Nat
  <2>1. \A o \in 1..Len(heap) : heap[o] \in Response
    BY <1>5
  <2> QED BY <2>1 DEF Response
<1>7. CallState'
  <2>1. \A o \in 1..Len(heap) : heap[o].cachedAt <= clock'
    BY <1>1, <1>3, <1>6 DEF CallState
  <2>2. \A p \in Threads : pc[p] \in {"check", "delete", "slide"} =>
          heap[obj[p]].cachedAt <= now[p] /\ now[p] <= clock'
    BY <1>1, <1>3, <1>5, ConstantsAssumption DEF CallState
  <2> QED BY <1>1, <1>2, <1>3, <2>1, <2>2 DEF CallState
<1>8. LeaseBounds'
  BY <1>1, <1>2, <1>3, <1>6 DEF LeaseBounds
<1>9. IndexCoversCache' /\ PrivateUntilStored' /\ InvalidatedIsGone'
  BY <1>1, <1>2 DEF IndexCoversCache, PrivateUntilStored, Building, InvalidatedIsGone
<1> QED BY <1>4, <1>7, <1>8, <1>9 DEF IInv

LEMMA StutterStep ==
  ASSUME IInv, UNCHANGED vars
  PROVE  IInv'
BY DEF IInv, TypeOK, CallState, IndexCoversCache, PrivateUntilStored, Building,
       InvalidatedIsGone, LeaseBounds, vars, callVars, sweepVars

LEMMA NextIInv == IInv /\ [Next]_vars => IInv'
<1> SUFFICES ASSUME IInv, [Next]_vars PROVE IInv'
  OBVIOUS
<1>1. CASE \E p \in Threads : Call(p)
  <2>1. PICK p \in Threads : Call(p)
    BY <1>1
  <2>2. CASE \E k \in Keys : \E policy \in PoliciesOf[k] : SetBegin(p, k, policy)
    BY <2>2, SetBeginStep
  <2>3. CASE \E k \in Keys : GetLookup(p, k)
    BY <2>3, GetLookupStep
  <2>4. CASE \E k \in Keys : Delete(p, k)
    BY <2>4, DeleteStep
  <2>5. CASE Clear(p)
    BY <2>5, ClearStep
  <2>6. CASE \E t \in Tags : InvalidateTag(p, t)
    BY <2>6, InvalidateSectionStep DEF InvalidateTag
  <2>7. CASE \E T \in SUBSET Tags : InvalidateTags(p, T)
    BY <2>7, InvalidateSectionStep DEF InvalidateTags
  <2> QED BY <2>1, <2>2, <2>3, <2>4, <2>5, <2>6, <2>7 DEF Call
<1>2. CASE \E p \in Threads : Proceed(p)
  BY <1>2, SetCommitStep, GetNowStep, GetCheckStep, GetDeleteStep, GetSlideStep DEF Proceed
<1>3. CASE Sweep
  BY <1>3, SweepStep
<1>4. CASE ClockTick \/ SweepBegin \/ StopCleanup \/ SweeperExit
  BY <1>4, BackgroundStep
<1>5. CASE UNCHANGED vars
  BY <1>5, StutterStep
<1> QED BY <1>1, <1>2, <1>3, <1>4, <1>5 DEF Next

\* The inductive invariant holds in every reachable state of the store.
THEOREM InductiveInvariant == Spec => []IInv
BY InitIInv, NextIInv, PTL DEF Spec

-----------------------------------------------------------------------------
\* Every variable of the store stays in its type.
THEOREM TypeCorrect == Spec => []TypeOK
<1>1. IInv => TypeOK
  BY DEF IInv
<1> QED BY <1>1, InductiveInvariant, PTL

\* InvalidateTag (inmemory.go:102) finds every live tagged entry: the index
\* never lists a key fewer times than its entry carries the tag.
THEOREM IndexCovers == Spec => []IndexCoversCache
<1>1. IInv => IndexCoversCache
  BY DEF IInv
<1> QED BY <1>1, InductiveInvariant, PTL

\* A response removed by tag is never found again, whatever calls were under
\* way when the invalidation ran.
THEOREM InvalidatedStaysGone == Spec => []InvalidatedIsGone
<1>1. IInv => InvalidatedIsGone
  BY DEF IInv
<1> QED BY <1>1, InductiveInvariant, PTL

\* For all constants: until its Set reaches the critical section, a response is
\* reachable by its own goroutine alone, so stamping ExpiresAt without the lock
\* (inmemory.go:59) races with nobody.
THEOREM UnstoredIsPrivate == Spec => []PrivateUntilStored
<1>1. IInv => PrivateUntilStored
  BY DEF IInv
<1> QED BY <1>1, InductiveInvariant, PTL

\* Racing Gets on a sliding entry may lose an extension, but never take the
\* entry below the duration it was stored for nor beyond one from now.
THEOREM LeaseStaysBounded == Spec => []LeaseBounds
<1>1. IInv => LeaseBounds
  BY DEF IInv
<1> QED BY <1>1, InductiveInvariant, PTL

-----------------------------------------------------------------------------
\* A response extended or stored after cleanup read the clock survives it.
THEOREM SweepSpares == Spec => SweepSparesFresh
<1> DEFINE A == sweeper = "sweeping" /\ sweeper' = "waiting" =>
                  \A k \in Keys : cache'[k] # cache[k] => Expired(cache[k], clock)
<1>1. ASSUME IInv, [Next]_vars PROVE A
  <2> SUFFICES ASSUME sweeper = "sweeping", sweeper' = "waiting",
                      NEW k \in Keys, cache'[k] # cache[k]
               PROVE  Expired(cache[k], clock)
    OBVIOUS
  <2>1. Sweep
    BY <1>1 DEF Next, Call, Proceed, SetBegin, SetCommit, GetLookup, GetNow, GetCheck,
      GetDelete, GetSlide, Delete, Clear, InvalidateTag, InvalidateTags, SweepBegin,
      StopCleanup, SweeperExit, ClockTick, sweepVars, vars
  <2>2. cache[k] # NoEntry /\ Expired(cache[k], sweepNow)
    BY <2>1 DEF Sweep, Without
  <2>3. heap \in Seq(Response) /\ cache[k] \in 1..Len(heap)
    BY <1>1, <2>2 DEF IInv, TypeOK, NoEntry
  <2>4. heap[cache[k]].expiresAt \in Nat
    <3>1. heap[cache[k]] \in Response
      BY <2>3
    <3> QED BY <3>1 DEF Response
  <2>5. sweepNow <= clock /\ sweepNow \in Nat /\ clock \in Nat
    BY <1>1, ConstantsAssumption DEF IInv, TypeOK, CallState
  <2> QED BY <2>2, <2>4, <2>5 DEF Expired
<1>2. IInv /\ [Next]_vars => [A]_vars
  BY <1>1
<1> QED BY <1>2, InductiveInvariant, PTL DEF Spec, SweepSparesFresh

-----------------------------------------------------------------------------
\* Policies of a key agree on the tags they carry: no profile is replaced by
\* one with other tags under a registered route.
KeysKeepTags ==
  \A k \in Keys : \A q, r \in PoliciesOf[k] : \A t \in Tags : q.tags[t] > 0 <=> r.tags[t] > 0

\* The response has the tags of one of the key's policies.
Under(k, o) == \E q \in PoliciesOf[k] : heap[o].tags = q.tags

\* What the map leads to and what a Set is about to store has the tags of a
\* policy of its key, and the index lists a key, however long its entry has
\* been gone, only under tags that a policy of the key carries.
OwnTags ==
  /\ \A k \in Keys : cache[k] # NoEntry => Under(k, cache[k])
  /\ \A p \in Threads : Building(p) => Under(key[p], obj[p])
  /\ \A t \in Tags, k \in Keys : tagIndex[t][k] > 0 => \E q \in PoliciesOf[k] : q.tags[t] > 0

\* A step that keeps the tags of every response, begins no Set, and only
\* removes from the map and from the index keeps OwnTags.
LEMMA OwnTagsOnRemoval ==
  ASSUME IInv, OwnTags,
         \A o \in 1..Len(heap) : heap'[o].tags = heap[o].tags,
         \A k \in Keys : cache'[k] \in {NoEntry, cache[k]},
         \A t \in Tags, k \in Keys : tagIndex'[t][k] > 0 => tagIndex[t][k] > 0,
         \A p \in Threads : Building(p)' => Building(p) /\ key'[p] = key[p] /\ obj'[p] = obj[p]
  PROVE  OwnTags'
<1>1. TypeOK /\ CallState
  BY DEF IInv
<1>2. \A k \in Keys : cache'[k] # NoEntry => Under(k, cache[k])'
  <2> SUFFICES ASSUME NEW k \in Keys, cache'[k] # NoEntry PROVE Under(k, cache[k])'
    OBVIOUS
  <2>1. cache'[k] = cache[k] /\ cache[k] # NoEntry
    OBVIOUS
  <2>2. cache[k] \in 1..Len(heap)
    BY <1>1, <2>1 DEF TypeOK, NoEntry
  <2> QED BY <2>1, <2>2 DEF OwnTags, Under
<1>3. \A p \in Threads : Building(p)' => Under(key[p], obj[p])'
  <2> SUFFICES ASSUME NEW p \in Threads, Building(p)' PROVE Under(key[p], obj[p])'
    OBVIOUS
  <2>1. obj[p] \in 1..Len(heap)
    BY <1>1 DEF CallState, Building
  <2>2. Under(key[p], obj[p]) /\ key'[p] = key[p] /\ obj'[p] = obj[p]
    BY DEF OwnTags
  <2> QED BY <2>1, <2>2 DEF Under
<1>4. \A t \in Tags, k \in Keys : tagIndex'[t][k] > 0 => \E q \in PoliciesOf[k] : q.tags[t] > 0
  BY DEF OwnTags
<1> QED BY <1>2, <1>3, <1>4 DEF OwnTags

\* The response that a Set builds has the tags of the policy it was given.
LEMMA OwnTagsOnBuild ==
  ASSUME IInv, OwnTags, NEW p \in Threads, NEW k \in Keys, NEW policy \in PoliciesOf[k],
         SetBegin(p, k, policy)
  PROVE  OwnTags'
<1> DEFINE n == Len(heap) + 1
<1>1. TypeOK /\ CallState
  BY DEF IInv
<1>2. heap \in Seq(Response) /\ Len(heap) \in Nat
  BY <1>1 DEF TypeOK
<1>3. /\ heap'[n].tags = policy.tags
      /\ \A o \in 1..Len(heap) : heap'[o] = heap[o]
  BY <1>2 DEF SetBegin
<1>4. /\ cache' = cache /\ tagIndex' = tagIndex
      /\ pc' = [pc EXCEPT ![p] = "set"]
      /\ obj' = [obj EXCEPT ![p] = n]
      /\ key' = [key EXCEPT ![p] = k]
  BY DEF SetBegin, Goto
<1>5. \A j \in Keys : cache'[j] # NoEntry => Under(j, cache[j])'
  <2> SUFFICES ASSUME NEW j \in Keys, cache[j] # NoEntry PROVE Under(j, cache[j])'
    BY <1>4
  <2>1. cache[j] \in 1..Len(heap)
    BY <1>1 DEF TypeOK, NoEntry
  <2> QED BY <1>3, <1>4, <2>1 DEF OwnTags, Under
<1>6. \A q \in Threads : Building(q)' => Under(key[q], obj[q])'
  <2> SUFFICES ASSUME NEW q \in Threads, Building(q)' PROVE Under(key[q], obj[q])'
    OBVIOUS
  <2>1. CASE q = p
    <3>1. key'[q] = k /\ obj'[q] = n
      BY <1>1, <1>4, <2>1 DEF TypeOK
    <3> QED BY <1>3, <3>1 DEF Under
  <2>2. CASE q # p
    <3>1. Building(q) /\ key'[q] = key[q] /\ obj'[q] = obj[q]
      BY <1>1, <1>4, <2>2 DEF TypeOK, Building
    <3>2. obj[q] \in 1..Len(heap)
      BY <1>1, <3>1 DEF CallState, Building
    <3> QED BY <1>3, <3>1, <3>2 DEF OwnTags, Under
  <2> QED BY <2>1, <2>2
<1>7. \A t \in Tags, j \in Keys : tagIndex'[t][j] > 0 => \E q \in PoliciesOf[j] : q.tags[t] > 0
  BY <1>4 DEF OwnTags
<1> QED BY <1>5, <1>6, <1>7 DEF OwnTags

\* Storing it indexes the key under those tags.
LEMMA OwnTagsOnStore ==
  ASSUME IInv, OwnTags, NEW p \in Threads, SetCommit(p)
  PROVE  OwnTags'
<1> DEFINE k == key[p]
           o == obj[p]
<1>1. TypeOK /\ CallState
  BY DEF IInv
<1>2. /\ pc[p] = "set"
      /\ heap' = heap
      /\ cache' = [cache EXCEPT ![k] = o]
      /\ tagIndex' = Indexed(k, heap[o].tags)
      /\ pc' = [pc EXCEPT ![p] = "idle"]
      /\ obj' = [obj EXCEPT ![p] = NoEntry]
      /\ key' = [key EXCEPT ![p] = NoKey]
  BY DEF SetCommit, Return
<1>3. Under(k, o)
  BY <1>2 DEF OwnTags, Building
<1>4. k \in Keys /\ o \in 1..Len(heap)
  BY <1>1, <1>2 DEF CallState
<1>5. \A j \in Keys : cache'[j] # NoEntry => Under(j, cache[j])'
  BY <1>1, <1>2, <1>3 DEF OwnTags, Under, TypeOK
<1>6. \A q \in Threads : Building(q)' => Under(key[q], obj[q])'
  <2> SUFFICES ASSUME NEW q \in Threads, Building(q)' PROVE Under(key[q], obj[q])'
    OBVIOUS
  <2>1. q # p
    BY <1>1, <1>2 DEF TypeOK, Building
  <2>2. Building(q) /\ key'[q] = key[q] /\ obj'[q] = obj[q]
    BY <1>1, <1>2, <2>1 DEF TypeOK, Building
  <2> QED BY <1>2, <2>2 DEF OwnTags, Under
<1>7. \A t \in Tags, j \in Keys : tagIndex'[t][j] > 0 => \E q \in PoliciesOf[j] : q.tags[t] > 0
  <2> SUFFICES ASSUME NEW t \in Tags, NEW j \in Keys, tagIndex'[t][j] > 0
               PROVE  \E q \in PoliciesOf[j] : q.tags[t] > 0
    OBVIOUS
  <2>1. tagIndex \in [Tags -> [Keys -> Nat]]
    BY <1>1 DEF TypeOK
  <2>2. CASE tagIndex[t][j] > 0
    BY <2>2 DEF OwnTags
  <2>3. CASE ~(tagIndex[t][j] > 0)
    <3>1. tagIndex[t][j] = 0
      BY <2>1, <2>3
    <3>2. j = k
      BY <1>2, <2>1, <3>1 DEF Indexed
    <3>3. tagIndex'[t][j] = tagIndex[t][j] + heap[o].tags[t]
      BY <1>2, <2>1, <3>2 DEF Indexed
    <3>4. PICK q \in PoliciesOf[k] : heap[o].tags = q.tags
      BY <1>3 DEF Under
    <3>5. q.tags[t] \in Nat
      BY <1>4, <3>4, ConstantsAssumption DEF Policy
    <3> QED BY <3>1, <3>2, <3>3, <3>4, <3>5
  <2> QED BY <2>2, <2>3
<1> QED BY <1>5, <1>6, <1>7 DEF OwnTags

\* The critical section of Delete only removes.
LEMMA DeleteOnlyRemoves ==
  ASSUME IInv, NEW k \in Keys, DeleteSection(k)
  PROVE  /\ \A j \in Keys : cache'[j] \in {NoEntry, cache[j]}
         /\ \A t \in Tags, j \in Keys : tagIndex'[t][j] > 0 => tagIndex[t][j] > 0
<1>1. cache \in [Keys -> 0..Len(heap)] /\ tagIndex \in [Tags -> [Keys -> Nat]]
  BY DEF IInv, TypeOK
<1>2. CASE cache[k] = NoEntry
  BY <1>2 DEF DeleteSection
<1>3. CASE cache[k] # NoEntry
  <2> DEFINE tags == heap[cache[k]].tags
  <2>1. cache' = [cache EXCEPT ![k] = NoEntry] /\ tagIndex' = Unindexed(k, tags)
    BY <1>3 DEF DeleteSection
  <2>2. tags \in [Tags -> Nat]
    <3>1. heap \in Seq(Response) /\ cache[k] \in 1..Len(heap)
      BY <1>3 DEF IInv, TypeOK, NoEntry
    <3>2. heap[cache[k]] \in Response
      BY <3>1
    <3> QED BY <3>2 DEF Response
  <2> HIDE DEF tags
  <2>3. ASSUME NEW t \in Tags, NEW j \in Keys, tagIndex'[t][j] > 0 PROVE tagIndex[t][j] > 0
    <3>1. tags[t] \in Nat /\ tagIndex[t][j] \in Nat
      BY <1>1, <2>2
    <3> QED BY <1>1, <2>1, <2>3, <3>1 DEF Unindexed
  <2> QED BY <1>1, <2>1, <2>3
<1> QED BY <1>2, <1>3

\* So does that of an invalidation.
LEMMA InvalidationOnlyRemoves ==
  ASSUME NEW T, InvalidateSection(T)
  PROVE  /\ \A k \in Keys : cache'[k] \in {NoEntry, cache[k]}
         /\ \A t \in Tags, k \in Keys : tagIndex'[t][k] > 0 => tagIndex[t][k] > 0
BY DEF InvalidateSection, Without

\* A goroutine that moves on to a label other than "set" begins no Set.
LEMMA NoSetBegins ==
  ASSUME IInv, NEW p \in Threads, NEW label, label # "set",
         pc' = [pc EXCEPT ![p] = label],
         \A q \in Threads \ {p} : key'[q] = key[q] /\ obj'[q] = obj[q]
  PROVE  \A q \in Threads :
           Building(q)' => Building(q) /\ key'[q] = key[q] /\ obj'[q] = obj[q]
BY DEF IInv, TypeOK, Building

\* A step inside a Get that touches no entry, or only the end of its life.
LEMMA OwnTagsOnGet ==
  ASSUME IInv, OwnTags, NEW p \in Threads,
         (\E k \in Keys : GetLookup(p, k)) \/ GetNow(p) \/ GetCheck(p) \/ GetSlide(p)
  PROVE  OwnTags'
<1>1. /\ pc \in [Threads -> Labels] /\ key \in [Threads -> Keys \cup {NoKey}]
      /\ obj \in [Threads -> 0..Len(heap)]
  BY DEF IInv, TypeOK
<1>2. cache' = cache /\ tagIndex' = tagIndex
  BY DEF GetLookup, GetNow, GetCheck, GetSlide
<1>3. \A o \in 1..Len(heap) : heap'[o].tags = heap[o].tags
  <2>1. CASE GetSlide(p)
    <3>1. heap \in Seq(Response)
      BY DEF IInv, TypeOK
    <3>2. \A o \in 1..Len(heap) : heap[o] \in Response
      BY <3>1
    <3>3. heap' = [heap EXCEPT ![obj[p]].expiresAt = now[p] + heap[obj[p]].duration]
      BY <2>1 DEF GetSlide
    <3> QED BY <3>1, <3>2, <3>3 DEF Response
  <2>2. CASE (\E k \in Keys : GetLookup(p, k)) \/ GetNow(p) \/ GetCheck(p)
    BY <2>2 DEF GetLookup, GetNow, GetCheck
  <2> QED BY <2>1, <2>2
<1>4. \E label \in Labels : label # "set" /\ pc' = [pc EXCEPT ![p] = label]
  BY DEF GetLookup, GetNow, GetCheck, GetSlide, Goto, Return, Labels
<1>5. \A q \in Threads \ {p} : key'[q] = key[q] /\ obj'[q] = obj[q]
  BY <1>1 DEF GetLookup, GetNow, GetCheck, GetSlide, Return
<1> QED BY <1>2, <1>3, <1>4, <1>5, NoSetBegins, OwnTagsOnRemoval

\* A removal by a goroutine, on its own or at the end of a Get.
LEMMA OwnTagsOnCall ==
  ASSUME IInv, OwnTags, NEW p \in Threads,
         \/ GetDelete(p) \/ Clear(p)
         \/ \E k \in Keys : Delete(p, k)
         \/ \E t \in Tags : InvalidateTag(p, t)
         \/ \E T \in SUBSET Tags : InvalidateTags(p, T)
  PROVE  OwnTags'
<1>1. heap' = heap
  BY DEF GetDelete, Clear, Delete, InvalidateTag, InvalidateTags
<1>2. /\ \A k \in Keys : cache'[k] \in {NoEntry, cache[k]}
      /\ \A t \in Tags, k \in Keys : tagIndex'[t][k] > 0 => tagIndex[t][k] > 0
  <2>1. CASE GetDelete(p)
    <3>1. key[p] \in Keys
      BY <2>1 DEF IInv, CallState, GetDelete
    <3> QED BY <2>1, <3>1, DeleteOnlyRemoves DEF GetDelete
  <2>2. CASE Clear(p)
    BY <2>2 DEF Clear, Without
  <2>3. CASE \E k \in Keys : Delete(p, k)
    BY <2>3, DeleteOnlyRemoves DEF Delete
  <2>4. CASE \E t \in Tags : InvalidateTag(p, t)
    BY <2>4, InvalidationOnlyRemoves DEF InvalidateTag
  <2>5. CASE \E T \in SUBSET Tags : InvalidateTags(p, T)
    BY <2>5, InvalidationOnlyRemoves DEF InvalidateTags
  <2> QED BY <2>1, <2>2, <2>3, <2>4, <2>5
<1>3. \A q \in Threads : Building(q)' => Building(q) /\ key'[q] = key[q] /\ obj'[q] = obj[q]
  <2>1. CASE GetDelete(p)
    <3>1. pc' = [pc EXCEPT ![p] = "idle"]
      BY <2>1 DEF GetDelete, Return
    <3>2. \A q \in Threads \ {p} : key'[q] = key[q] /\ obj'[q] = obj[q]
      BY <2>1 DEF GetDelete, Return, IInv, TypeOK
    <3> QED BY <3>1, <3>2, NoSetBegins
  <2>2. CASE ~GetDelete(p)
    BY <2>2 DEF Clear, Delete, InvalidateTag, InvalidateTags, callVars, Building
  <2> QED BY <2>1, <2>2
<1> QED BY <1>1, <1>2, <1>3, OwnTagsOnRemoval

LEMMA NextOwnTags == IInv /\ OwnTags /\ [Next]_vars => OwnTags'
<1> SUFFICES ASSUME IInv, OwnTags, [Next]_vars PROVE OwnTags'
  OBVIOUS
<1>1. CASE \E p \in Threads : Call(p) \/ Proceed(p)
  BY <1>1, OwnTagsOnBuild, OwnTagsOnStore, OwnTagsOnGet, OwnTagsOnCall DEF Call, Proceed
<1>2. CASE Sweep
  <2>1. heap' = heap /\ tagIndex' = tagIndex /\ callVars' = callVars
    BY <1>2 DEF Sweep
  <2>2. \A k \in Keys : cache'[k] \in {NoEntry, cache[k]}
    BY <1>2 DEF Sweep, Without
  <2> QED BY <2>1, <2>2, OwnTagsOnRemoval DEF callVars, Building
<1>3. CASE SweepBegin \/ StopCleanup \/ SweeperExit \/ ClockTick \/ UNCHANGED vars
  BY <1>3 DEF OwnTags, Under, Building, SweepBegin, StopCleanup, SweeperExit, ClockTick,
     vars, callVars
<1> QED BY <1>1, <1>2, <1>3 DEF Next

\* Whatever the index lists under a tag, a policy of that key carries the tag:
\* a stale listing is one of the key's own.
THEOREM TagsStayOwn == Spec => []OwnTags
<1>1. Init => OwnTags
  BY DEF Init, OwnTags, Building
<1>2. IInv /\ IInv' /\ OwnTags /\ [Next]_vars => OwnTags'
  BY NextOwnTags
<1> QED BY <1>1, <1>2, InductiveInvariant, PTL DEF Spec

\* Where no key changes its tags, InvalidateTags (inmemory.go:117) removes
\* exactly entries that carry one of the tags, though it follows an index that
\* the sweep and overwriting Sets leave stale.
THEOREM InvalidationExact == ASSUME KeysKeepTags PROVE Spec => ExactInvalidation
<1> DEFINE A == \A T \in SUBSET Tags, p \in Threads : InvalidateTags(p, T) =>
                  \A k \in Keys : cache'[k] # cache[k] => k \in Tagged(T)
<1>1. ASSUME IInv, OwnTags PROVE A
  <2> SUFFICES ASSUME NEW T \in SUBSET Tags, NEW p \in Threads, InvalidateTags(p, T),
                      NEW k \in Keys, cache'[k] # cache[k]
               PROVE  k \in Tagged(T)
    OBVIOUS
  <2>1. PICK t \in T : tagIndex[t][k] > 0
    BY DEF InvalidateTags, InvalidateSection, Without
  <2>2. cache[k] # NoEntry
    BY DEF InvalidateTags, InvalidateSection, Without
  <2>3. PICK q \in PoliciesOf[k] : q.tags[t] > 0
    BY <1>1, <2>1 DEF OwnTags
  <2>4. PICK r \in PoliciesOf[k] : heap[cache[k]].tags = r.tags
    BY <1>1, <2>2 DEF OwnTags, Under
  <2>5. Carries(cache[k], t)
    BY <2>3, <2>4, KeysKeepTags DEF KeysKeepTags, Carries
  <2> QED BY <2>1, <2>2, <2>5 DEF Tagged
<1>2. IInv /\ OwnTags /\ [Next]_vars => [A]_vars
  BY <1>1
<1> QED BY <1>2, InductiveInvariant, TagsStayOwn, PTL DEF Spec, ExactInvalidation

-----------------------------------------------------------------------------
(* The store implements StorageContract *)

LEMMA InitRefines == Init => Storage!Init
<1> SUFFICES ASSUME Init PROVE Storage!Init
  OBVIOUS
<1>1. TagsOf = << >>
  <2>1. Len(heap) = 0
    BY EmptySeq DEF Init
  <2>2. TagsOf \in Seq(SUBSET Tags) /\ Len(TagsOf) = 0
    BY <2>1 DEF TagsOf
  <2> QED BY <2>2, EmptySeq
<1>2. Pending = {}
  BY DEF Init, Pending, Building
<1>3. Held = [p \in Threads |-> NoEntry]
  BY DEF Init, Held
<1> QED BY <1>1, <1>2, <1>3 DEF Init, Storage!Init

\* The parts of the mapping a step leaves alone.
LEMMA TagsOfSame ==
  ASSUME IInv, heap' = heap
  PROVE  TagsOf' = TagsOf
BY DEF TagsOf, Carries

LEMMA CallsSame ==
  ASSUME IInv, UNCHANGED callVars
  PROVE  Pending' = Pending /\ Held' = Held
BY DEF Pending, Held, Building, callVars

\* A Get that returns leaves Held and nothing else of the mapping.
LEMMA GetReturnMapped ==
  ASSUME IInv, NEW p \in Threads, Return(p), pc[p] \in {"check", "delete", "slide"}
  PROVE  /\ Pending' = Pending
         /\ Held[p] # NoEntry
         /\ Held' = [Held EXCEPT ![p] = NoEntry]
<1>1. TypeOK /\ CallState
  BY DEF IInv
<1>2. /\ pc' = [pc EXCEPT ![p] = "idle"] /\ obj' = [obj EXCEPT ![p] = NoEntry]
      /\ pc \in [Threads -> Labels] /\ obj \in [Threads -> 0..Len(heap)]
  BY <1>1 DEF Return, TypeOK
<1>3. obj[p] # NoEntry
  BY <1>1 DEF CallState, NoEntry
<1>4. Pending' = Pending
  <2>1. \A q \in Threads : Building(q)' <=> Building(q)
    BY <1>2 DEF Building
  <2>2. \A q \in Threads : Building(q) => obj'[q] = obj[q]
    BY <1>2 DEF Building
  <2> QED BY <2>1, <2>2 DEF Pending
<1>5. Held' = [Held EXCEPT ![p] = NoEntry]
  BY <1>2 DEF Held
<1> QED BY <1>3, <1>4, <1>5 DEF Held

LEMMA BuildRefines ==
  ASSUME IInv, NEW p \in Threads, NEW k \in Keys, NEW policy \in PoliciesOf[k],
         SetBegin(p, k, policy)
  PROVE  Storage!Next
<1> DEFINE n == Len(heap) + 1
           r == [tags |-> policy.tags, sliding |-> policy.sliding,
                 duration |-> policy.duration, cachedAt |-> clock,
                 expiresAt |-> clock + policy.duration]
           T == {t \in Tags : policy.tags[t] > 0}
<1>1. TypeOK /\ CallState
  BY DEF IInv
<1>2. /\ heap' = Append(heap, r) /\ cache' = cache /\ invalidated' = invalidated
      /\ pc' = [pc EXCEPT ![p] = "set"] /\ obj' = [obj EXCEPT ![p] = n] /\ pc[p] = "idle"
  BY DEF SetBegin, Goto
<1>3. r \in Response
  <2>1. policy \in Policy /\ clock \in Nat
    BY <1>1, ConstantsAssumption DEF TypeOK
  <2> QED BY <2>1 DEF Policy, Response
<1>4. /\ Len(heap) \in Nat /\ Len(heap') = n /\ heap'[n] = r
      /\ \A o \in 1..Len(heap) : heap'[o] = heap[o]
  <2>1. heap \in Seq(Response)
    BY <1>1 DEF TypeOK
  <2> HIDE DEF r
  <2> QED BY <1>2, <1>3, <2>1
<1>5. TagsOf \in Seq(SUBSET Tags) /\ Len(TagsOf) = Len(heap)
  BY <1>4 DEF TagsOf
<1>6. TagsOf' \in Seq(SUBSET Tags) /\ Len(TagsOf') = n
  BY <1>4 DEF TagsOf
<1>7. TagsOf' = Append(TagsOf, T)
  <2>1. Append(TagsOf, T) \in Seq(SUBSET Tags) /\ Len(Append(TagsOf, T)) = n
    BY <1>4, <1>5
  <2>2. ASSUME NEW o \in 1..n PROVE TagsOf'[o] = Append(TagsOf, T)[o]
    <3>1. CASE o = n
      <4>1. TagsOf'[o] = {t \in Tags : heap'[n].tags[t] > 0}
        BY <1>4, <3>1 DEF TagsOf, Carries
      <4>2. TagsOf'[o] = T
        BY <1>4, <4>1
      <4> QED BY <1>4, <1>5, <3>1, <4>2
    <3>2. CASE o # n
      <4>1. o \in 1..Len(heap)
        BY <1>4, <3>2
      <4>2. TagsOf'[o] = TagsOf[o]
        BY <1>4, <4>1 DEF TagsOf, Carries
      <4>3. Append(TagsOf, T)[o] = TagsOf[o]
        BY <1>5, <4>1
      <4> QED BY <4>2, <4>3
    <3> QED BY <3>1, <3>2
  <2> HIDE DEF T
  <2> QED BY <1>6, <2>1, <2>2, SeqEqual
<1>8. Pending' = Pending \cup {Len(TagsOf) + 1}
  <2>1. {q \in Threads : Building(q)'} = {q \in Threads : Building(q)} \cup {p}
    BY <1>1, <1>2 DEF Building, TypeOK
  <2>2. \A q \in Threads : Building(q) => obj'[q] = obj[q]
    BY <1>1, <1>2 DEF Building, TypeOK
  <2>3. obj'[p] = Len(TagsOf) + 1
    BY <1>1, <1>2, <1>5 DEF TypeOK
  <2> QED BY <2>1, <2>2, <2>3 DEF Pending
<1>9. Held' = Held
  BY <1>1, <1>2 DEF Held, TypeOK
<1>10. Storage!Build(T)
  BY <1>2, <1>7, <1>8, <1>9 DEF Storage!Build
<1>11. T \in SUBSET Tags
  OBVIOUS
<1> QED BY <1>10, <1>11 DEF Storage!Next

LEMMA SetRefines ==
  ASSUME IInv, NEW p \in Threads, SetCommit(p)
  PROVE  Storage!Next
<1>1. TypeOK /\ CallState /\ PrivateUntilStored
  BY DEF IInv
<1>2. /\ heap' = heap /\ cache' = [cache EXCEPT ![key[p]] = obj[p]]
      /\ invalidated' = invalidated /\ pc[p] = "set"
      /\ pc' = [pc EXCEPT ![p] = "idle"] /\ obj' = [obj EXCEPT ![p] = NoEntry]
  BY DEF SetCommit, Return
<1>3. obj[p] \in Pending /\ key[p] \in Keys
  BY <1>1, <1>2 DEF Pending, Building, CallState
<1>4. Pending' = Pending \ {obj[p]}
  <2>1. \A q \in Threads : Building(q)' <=> Building(q) /\ q # p
    BY <1>1, <1>2 DEF Building, TypeOK
  <2>2. \A q \in Threads \ {p} : obj'[q] = obj[q]
    BY <1>1, <1>2 DEF TypeOK
  <2>3. \A q \in Threads \ {p} : obj[q] # obj[p]
    BY <1>1, <1>2 DEF PrivateUntilStored, Building
  <2> QED BY <2>1, <2>2, <2>3 DEF Pending
<1>5. Held' = Held
  BY <1>1, <1>2 DEF Held, TypeOK
<1>6. Storage!Set(key[p], obj[p])
  BY <1>2, <1>3, <1>4, <1>5, TagsOfSame DEF Storage!Set
<1> QED BY <1>3, <1>6 DEF Storage!Next

LEMMA GetRefines ==
  ASSUME IInv, NEW p \in Threads,
         \/ \E k \in Keys : GetLookup(p, k)
         \/ GetNow(p) \/ GetCheck(p) \/ GetDelete(p) \/ GetSlide(p)
  PROVE  [Storage!Next]_Storage!vars
<1>1. TypeOK /\ CallState
  BY DEF IInv
<1>2. ASSUME NEW k \in Keys, GetLookup(p, k) PROVE Storage!Next
  <2>1. /\ heap' = heap /\ cache' = cache /\ invalidated' = invalidated
        /\ pc[p] = "idle" /\ pc' = [pc EXCEPT ![p] = "clock"]
        /\ obj' = [obj EXCEPT ![p] = cache[k]] /\ cache[k] # NoEntry
    BY <1>2 DEF GetLookup, Goto
  <2>2. Held[p] = NoEntry /\ Held' = [Held EXCEPT ![p] = cache[k]]
    BY <1>1, <2>1 DEF Held, TypeOK
  <2>3. \A q \in Threads : Building(q)' <=> Building(q)
    BY <1>1, <2>1 DEF Building, TypeOK
  <2>4. \A q \in Threads : Building(q) => obj'[q] = obj[q]
    BY <1>1, <2>1 DEF Building, TypeOK
  <2>5. Pending' = Pending
    BY <2>3, <2>4 DEF Pending
  <2>6. Storage!GetFinds(p, k)
    BY <2>1, <2>2, <2>5, TagsOfSame DEF Storage!GetFinds
  <2> QED BY <2>6 DEF Storage!Next
<1>3. ASSUME NEW label \in {"check", "delete", "slide"}, Goto(p, label),
             pc[p] \in {"clock", "check"},
             UNCHANGED <<heap, cache, obj, invalidated>>
      PROVE  UNCHANGED Storage!vars
  <2>1. pc' = [pc EXCEPT ![p] = label] /\ obj' = obj
    BY <1>3 DEF Goto
  <2>2. \A q \in Threads : Building(q)' <=> Building(q)
    BY <1>1, <1>3, <2>1 DEF Building, TypeOK
  <2>3. Pending' = Pending
    BY <2>1, <2>2 DEF Pending
  <2>4. Held' = Held
    BY <1>1, <1>3, <2>1 DEF Held, TypeOK
  <2> QED BY <1>3, <2>3, <2>4, TagsOfSame DEF Storage!vars
<1>4. ASSUME NEW K \in SUBSET Keys, Return(p), pc[p] \in {"check", "delete", "slide"},
             cache' = [j \in Keys |-> IF j \in K THEN NoEntry ELSE cache[j]],
             TagsOf' = TagsOf, invalidated' = invalidated
      PROVE  Storage!Next
  <2>1. Storage!GetReturns(p, K)
    BY <1>4, GetReturnMapped DEF Storage!GetReturns, Storage!Lose
  <2> QED BY <2>1 DEF Storage!Next
<1>5. ASSUME Return(p), pc[p] \in {"check", "delete", "slide"},
             cache' = cache, TagsOf' = TagsOf, invalidated' = invalidated
      PROVE  Storage!Next
  <2>1. PICK K \in SUBSET Keys : K = {}
    OBVIOUS
  <2>2. cache' = [j \in Keys |-> IF j \in K THEN NoEntry ELSE cache[j]]
    BY <1>1, <1>5, <2>1 DEF TypeOK
  <2> QED BY <1>4, <1>5, <2>2
<1>6. CASE GetNow(p)
  BY <1>3, <1>6 DEF GetNow
<1>7. CASE GetCheck(p)
  <2>1. CASE Return(p)
    <3>1. TagsOf' = TagsOf /\ cache' = cache /\ invalidated' = invalidated /\ pc[p] = "check"
      BY <1>7, TagsOfSame DEF GetCheck
    <3> QED BY <1>5, <2>1, <3>1
  <2>2. CASE \E label \in {"delete", "slide"} : Goto(p, label) /\ UNCHANGED <<key, obj, now>>
    BY <1>3, <1>7, <2>2 DEF GetCheck
  <2> QED BY <1>7, <2>1, <2>2 DEF GetCheck
<1>8. CASE GetDelete(p)
  <2>1. /\ Return(p) /\ pc[p] = "delete" /\ invalidated' = invalidated /\ heap' = heap
        /\ DeleteSection(key[p])
    BY <1>8 DEF GetDelete
  <2>2. key[p] \in Keys
    BY <1>1, <2>1 DEF CallState
  <2>3. cache' = [j \in Keys |-> IF j \in {key[p]} THEN NoEntry ELSE cache[j]]
    BY <1>1, <2>1 DEF DeleteSection, TypeOK
  <2> QED BY <1>4, <2>1, <2>2, <2>3, TagsOfSame
<1>9. CASE GetSlide(p)
  <2> DEFINE o == obj[p]
             r == [heap[o] EXCEPT !.expiresAt = now[p] + heap[o].duration]
  <2>1. /\ Return(p) /\ pc[p] = "slide" /\ invalidated' = invalidated /\ cache' = cache
        /\ heap' = [heap EXCEPT ![o] = r]
    BY <1>9 DEF GetSlide
  <2>2. heap \in Seq(Response) /\ Len(heap) \in Nat /\ o \in 1..Len(heap)
    BY <1>1, <2>1 DEF TypeOK, CallState
  <2>3. heap[o] \in Response
    BY <2>2
  <2>4. r.tags = heap[o].tags
    BY <2>3 DEF Response
  <2>5. r \in Response
    <3>1. now[p] + heap[o].duration \in Nat
      BY SMTT(30), <1>1, <2>3, ConstantsAssumption DEF TypeOK, Response
    <3> QED BY <2>3, <3>1 DEF Response
  <2> HIDE DEF r
  <2>6. Len(heap') = Len(heap) /\ \A i \in 1..Len(heap) : heap'[i] = IF i = o THEN r ELSE heap[i]
    BY <2>1, <2>2, <2>5, ExceptSeq
  <2>7. \A i \in 1..Len(heap) : heap'[i].tags = heap[i].tags
    BY <2>4, <2>6
  <2>8. TagsOf' = TagsOf
    BY <2>6, <2>7 DEF TagsOf, Carries
  <2> QED BY <1>5, <2>1, <2>8
<1> QED BY <1>2, <1>6, <1>7, <1>8, <1>9

\* Entries go without a call returning: Delete, Clear and the sweep.
LEMMA ForgetRefines ==
  ASSUME IInv,
         \/ \E p \in Threads : (\E k \in Keys : Delete(p, k)) \/ Clear(p)
         \/ Sweep
  PROVE  Storage!Next
<1>1. TypeOK
  BY DEF IInv
<1>2. heap' = heap /\ invalidated' = invalidated /\ UNCHANGED callVars
  BY DEF Delete, Clear, Sweep
<1>3. \E K \in SUBSET Keys : cache' = [j \in Keys |-> IF j \in K THEN NoEntry ELSE cache[j]]
  <2>1. ASSUME NEW p \in Threads, NEW k \in Keys, Delete(p, k)
        PROVE  cache' = [j \in Keys |-> IF j \in {k} THEN NoEntry ELSE cache[j]]
    BY <1>1, <2>1 DEF Delete, DeleteSection, TypeOK
  <2>2. ASSUME NEW p \in Threads, Clear(p)
        PROVE  cache' = [j \in Keys |-> IF j \in Keys THEN NoEntry ELSE cache[j]]
    BY <2>2 DEF Clear, Without
  <2>3. CASE Sweep
    <3> DEFINE K == {k \in Keys : cache[k] # NoEntry /\ Expired(cache[k], sweepNow)}
    <3>1. cache' = [j \in Keys |-> IF j \in K THEN NoEntry ELSE cache[j]]
      BY <2>3 DEF Sweep, Without
    <3> QED BY <3>1
  <2>4. CASE \E p \in Threads : \E k \in Keys : Delete(p, k)
    <3>1. PICK p \in Threads, k \in Keys : Delete(p, k)
      BY <2>4
    <3>2. cache' = [j \in Keys |-> IF j \in {k} THEN NoEntry ELSE cache[j]]
      BY <2>1, <3>1
    <3>3. {k} \in SUBSET Keys
      OBVIOUS
    <3> QED BY <3>2, <3>3
  <2>5. CASE \E p \in Threads : Clear(p)
    <3>1. cache' = [j \in Keys |-> IF j \in Keys THEN NoEntry ELSE cache[j]]
      BY <2>2, <2>5
    <3> QED BY <3>1
  <2> QED BY <2>3, <2>4, <2>5
<1>4. PICK K \in SUBSET Keys : cache' = [j \in Keys |-> IF j \in K THEN NoEntry ELSE cache[j]]
  BY <1>3
<1>5. Storage!Forget(K)
  BY <1>2, <1>4, TagsOfSame, CallsSame DEF Storage!Forget, Storage!Lose
<1> QED BY <1>5 DEF Storage!Next

LEMMA InvalidateRefines ==
  ASSUME IInv, NEW T \in SUBSET Tags, InvalidateSection(T), heap' = heap, UNCHANGED callVars
  PROVE  Storage!Next
<1> DEFINE K == {k \in Keys : \E t \in T : tagIndex[t][k] > 0}
<1>1. TypeOK /\ IndexCoversCache
  BY DEF IInv
<1>2. heap \in Seq(Response) /\ cache \in [Keys -> 0..Len(heap)] /\ Len(heap) \in Nat
  BY <1>1 DEF TypeOK
<1>3. Storage!Carrying(T) = Tagged(T)
  <2>1. ASSUME NEW k \in Keys, cache[k] # NoEntry
        PROVE  TagsOf[cache[k]] \cap T # {} <=> \E t \in T : Carries(cache[k], t)
    <3>1. cache[k] \in 1..Len(heap)
      BY <1>2, <2>1 DEF NoEntry
    <3>2. TagsOf[cache[k]] = {t \in Tags : Carries(cache[k], t)}
      BY <3>1 DEF TagsOf
    <3> QED BY <3>2
  <2> QED BY <2>1 DEF Storage!Carrying, Tagged
<1>4. Tagged(T) \subseteq K
  <2> SUFFICES ASSUME NEW k \in Tagged(T) PROVE k \in K
    OBVIOUS
  <2>1. PICK t \in T : Carries(cache[k], t)
    BY DEF Tagged
  <2>2. k \in Keys /\ cache[k] # NoEntry /\ t \in Tags
    BY DEF Tagged
  <2>3. heap[cache[k]] \in Response
    BY <1>2, <2>2 DEF NoEntry
  <2>4. tagIndex[t][k] >= heap[cache[k]].tags[t] /\ heap[cache[k]].tags[t] \in Nat
        /\ tagIndex[t][k] \in Nat
    BY <1>1, <2>2, <2>3 DEF IndexCoversCache, Response, TypeOK
  <2>5. tagIndex[t][k] > 0
    BY <2>1, <2>4 DEF Carries
  <2> QED BY <2>2, <2>5
<1>5. Storage!InvalidateTags(T, K)
  BY <1>3, <1>4, TagsOfSame, CallsSame
  DEF InvalidateSection, Without, Storage!InvalidateTags, Storage!Lose
<1>6. K \in SUBSET Keys
  OBVIOUS
<1> QED BY <1>5, <1>6 DEF Storage!Next

LEMMA StepRefines == IInv /\ [Next]_vars => [Storage!Next]_Storage!vars
<1> SUFFICES ASSUME IInv, [Next]_vars PROVE [Storage!Next]_Storage!vars
  OBVIOUS
<1>1. CASE \E p \in Threads : Call(p)
  <2>1. PICK p \in Threads : Call(p)
    BY <1>1
  <2>2. CASE \E k \in Keys : \E policy \in PoliciesOf[k] : SetBegin(p, k, policy)
    BY <2>2, BuildRefines
  <2>3. CASE \E k \in Keys : GetLookup(p, k)
    BY <2>3, GetRefines
  <2>4. CASE (\E k \in Keys : Delete(p, k)) \/ Clear(p)
    BY <2>4, ForgetRefines
  <2>5. CASE \E t \in Tags : InvalidateTag(p, t)
    BY <2>5, InvalidateRefines DEF InvalidateTag
  <2>6. CASE \E T \in SUBSET Tags : InvalidateTags(p, T)
    BY <2>6, InvalidateRefines DEF InvalidateTags
  <2> QED BY <2>1, <2>2, <2>3, <2>4, <2>5, <2>6 DEF Call
<1>2. CASE \E p \in Threads : Proceed(p)
  BY <1>2, SetRefines, GetRefines DEF Proceed
<1>3. CASE Sweep
  BY <1>3, ForgetRefines
<1>4. CASE ClockTick \/ SweepBegin \/ StopCleanup \/ SweeperExit \/ UNCHANGED vars
  <2>1. heap' = heap /\ cache' = cache /\ invalidated' = invalidated /\ UNCHANGED callVars
    BY <1>4 DEF ClockTick, SweepBegin, StopCleanup, SweeperExit, vars
  <2> QED BY <2>1, TagsOfSame, CallsSame DEF Storage!vars
<1> QED BY <1>1, <1>2, <1>3, <1>4 DEF Next

\* The in-memory store implements the Storage contract.
THEOREM StoreImplementsContract == Spec => ImplementsStorage
BY InitRefines, StepRefines, InductiveInvariant, PTL DEF Spec, ImplementsStorage, Storage!Spec
=============================================================================

