--------------------------- MODULE OutputCacheProofs ---------------------------
(***************************************************************************)
(* Theorems about OutputCache, for any requests, keys, body length and     *)
(* number of versions.                                                     *)
(***************************************************************************)
EXTENDS OutputCache, TLAPS

\* What a request under way knows: it arrived no later than now, its recorder
\* has what the connection took, and while its client is there that is every
\* chunk the handler put out.
Recording(p) ==
  /\ began[p] <= epoch
  /\ pc[p] \in {"lookup", "handling", "handled"} => key[p] \in Keys
  /\ recorder[p].version <= version
  /\ recorder[p].sent <= recorder[p].chunks
  /\ recorder[p].chunks <= recorder[p].produced
  /\ connected[p] => recorder[p].sent = recorder[p].produced

\* A handler that has read data an invalidation has since announced as old
\* belongs to a request that arrived before that invalidation was over.
Overtaken(p) ==
  pc[p] \in {"handling", "handled"} /\ recorder[p].version < floor => began[p] < epoch

\* The inductive invariant.
IInv ==
  /\ TypeOK
  /\ \A p \in Requests : Recording(p) /\ Overtaken(p)
  /\ floor <= version
  /\ StaleOnlyFromOverlap
  /\ ReplaysWhatWasSent

-----------------------------------------------------------------------------
LEMMA InitIInv == Init => IInv
<1> SUFFICES ASSUME Init PROVE IInv
  OBVIOUS
<1> USE ConstantsAssumption DEF Init
<1>1. TypeOK
  BY DEF TypeOK, Bare, Tagged, Config, NotRecording, Recorder, Statuses, OK
<1>2. ASSUME NEW p \in Requests
      PROVE  Recording(p) /\ Overtaken(p)
  <2>1. pc[p] = "idle" /\ began[p] = 0 /\ recorder[p] = NotRecording
    OBVIOUS
  <2> QED BY <2>1 DEF Recording, Overtaken, NotRecording
<1>3. StaleOnlyFromOverlap /\ ReplaysWhatWasSent
  BY DEF StaleOnlyFromOverlap, ReplaysWhatWasSent
<1> QED BY <1>1, <1>2, <1>3 DEF IInv

-----------------------------------------------------------------------------
(* What the helpers do *)

\* A request that is over leaves its variables in range and knows nothing.
LEMMA FinishStep ==
  ASSUME TypeOK, \A q \in Requests : Recording(q) /\ Overtaken(q),
         NEW p \in Requests, Finish(p), version' = version,
         epoch' \in Nat, epoch <= epoch', floor' \in 0..MaxVersion,
         floor' = floor \/ epoch < epoch'
  PROVE  /\ pc' \in [Requests -> {"idle", "lookup", "handling", "handled", "mutated"}]
         /\ key' \in [Requests -> Keys \cup {NoKey}]
         /\ config' \in [Requests -> Config]
         /\ recorder' \in [Requests -> Recorder]
         /\ connected' \in [Requests -> BOOLEAN]
         /\ began' \in [Requests -> Nat]
         /\ \A q \in Requests : Recording(q)' /\ Overtaken(q)'
<1> USE ConstantsAssumption
<1>1. /\ NotRecording \in Recorder /\ Bare \in Config
      /\ NotRecording.version = 0 /\ NotRecording.chunks = 0 /\ NotRecording.produced = 0
      /\ NotRecording.sent = 0
  BY DEF NotRecording, Recorder, Statuses, OK, Bare, Config
<1>2. /\ pc' = [pc EXCEPT ![p] = "idle"] /\ key' = [key EXCEPT ![p] = NoKey]
      /\ config' = [config EXCEPT ![p] = Bare]
      /\ recorder' = [recorder EXCEPT ![p] = NotRecording]
      /\ connected' = [connected EXCEPT ![p] = TRUE]
      /\ began' = [began EXCEPT ![p] = 0]
  BY DEF Finish
<1>3. /\ pc' \in [Requests -> {"idle", "lookup", "handling", "handled", "mutated"}]
      /\ key' \in [Requests -> Keys \cup {NoKey}]
      /\ config' \in [Requests -> Config]
      /\ recorder' \in [Requests -> Recorder]
      /\ connected' \in [Requests -> BOOLEAN]
      /\ began' \in [Requests -> Nat]
  BY <1>1, <1>2 DEF TypeOK
<1>4. ASSUME NEW q \in Requests
      PROVE  Recording(q)' /\ Overtaken(q)'
  <2>1. version \in Nat /\ epoch \in Nat /\ began[q] \in Nat /\ Recording(q) /\ Overtaken(q)
    BY DEF TypeOK
  <2>2. CASE q = p
    BY <1>1, <1>2, <2>1, <2>2 DEF Recording, Overtaken, TypeOK
  <2>3. CASE q # p
    BY <1>2, <2>1, <2>3 DEF Recording, Overtaken, TypeOK
  <2> QED BY <2>2, <2>3
<1> QED BY <1>3, <1>4

\* A step of one request's recorder that keeps what it knows.
LEMMA RecorderStep ==
  ASSUME IInv, NEW p \in Requests, pc[p] = "handling",
         NEW r \in Recorder, recorder' = [recorder EXCEPT ![p] = r],
         r.version = recorder[p].version, r.sent <= r.chunks, r.chunks <= r.produced,
         connected[p] => r.sent = r.produced,
         UNCHANGED <<version, profile, stored, pc, key, config, connected, began, floor, epoch>>
  PROVE  IInv'
<1> USE DEF IInv
<1>1. TypeOK'
  BY DEF TypeOK
<1>2. ASSUME NEW q \in Requests
      PROVE  Recording(q)' /\ Overtaken(q)'
  BY DEF Recording, Overtaken, TypeOK
<1>3. StaleOnlyFromOverlap' /\ ReplaysWhatWasSent' /\ (floor <= version)'
  BY DEF StaleOnlyFromOverlap, ReplaysWhatWasSent
<1> QED BY <1>1, <1>2, <1>3

\* A step that touches no request, version or history, and lets entries only go.
LEMMA ForgetStep ==
  ASSUME IInv, UNCHANGED <<version, requestVars, floor, epoch>>,
         profile' \in Config \cup {NoConfig},
         stored' \in [Keys -> Entry \cup {NoEntry}],
         \A k \in Keys : stored'[k] \in {stored[k], NoEntry}
  PROVE  IInv'
<1> USE DEF IInv, requestVars
<1>1. TypeOK'
  BY DEF TypeOK
<1>2. \A q \in Requests : Recording(q)' /\ Overtaken(q)'
  BY DEF Recording, Overtaken
<1>3. StaleOnlyFromOverlap' /\ ReplaysWhatWasSent' /\ (floor <= version)'
  BY DEF StaleOnlyFromOverlap, ReplaysWhatWasSent
<1> QED BY <1>1, <1>2, <1>3

-----------------------------------------------------------------------------
(* GET *)

LEMMA ArriveStep ==
  ASSUME IInv, NEW p \in Requests, NEW k \in Keys, Arrive(p, k)
  PROVE  IInv'
<1> USE DEF IInv
<1>1. /\ pc' = [pc EXCEPT ![p] = "lookup"] /\ key' = [key EXCEPT ![p] = k]
      /\ config' = [config EXCEPT ![p] = ConfigOf(k)]
      /\ began' = [began EXCEPT ![p] = epoch]
      /\ UNCHANGED <<version, profile, stored, recorder, connected, floor, epoch>>
  BY DEF Arrive, Goto
<1>2. ConfigOf(k) \in Config
  BY DEF ConfigOf, TypeOK, Bare, Tagged, Config
<1>3. TypeOK'
  BY <1>1, <1>2 DEF TypeOK
<1>4. ASSUME NEW q \in Requests
      PROVE  Recording(q)' /\ Overtaken(q)'
  BY <1>1 DEF Recording, Overtaken, TypeOK
<1>5. StaleOnlyFromOverlap' /\ ReplaysWhatWasSent' /\ (floor <= version)'
  BY <1>1 DEF StaleOnlyFromOverlap, ReplaysWhatWasSent
<1> QED BY <1>3, <1>4, <1>5

\* A request that ends and leaves the cache alone.
LEMMA OverStep ==
  ASSUME IInv, NEW p \in Requests, Finish(p),
         UNCHANGED <<version, profile, stored, floor, epoch>>
  PROVE  IInv'
<1> USE DEF IInv
<1>1. TypeOK' /\ \A q \in Requests : Recording(q)' /\ Overtaken(q)'
  BY FinishStep DEF TypeOK
<1>2. StaleOnlyFromOverlap' /\ ReplaysWhatWasSent' /\ (floor <= version)'
  BY DEF StaleOnlyFromOverlap, ReplaysWhatWasSent
<1> QED BY <1>1, <1>2

\* The handler reads data that no invalidation has announced as old.
LEMMA MissStep ==
  ASSUME IInv, NEW p \in Requests, Miss(p)
  PROVE  IInv'
<1> USE DEF IInv
<1>1. /\ pc[p] = "lookup" /\ pc' = [pc EXCEPT ![p] = "handling"]
      /\ recorder' = [recorder EXCEPT ![p].version = version]
      /\ UNCHANGED <<version, profile, stored, key, config, connected, began, floor, epoch>>
  BY DEF Miss, Goto
<1>2. TypeOK'
  BY <1>1 DEF TypeOK, Recorder
<1>3. ASSUME NEW q \in Requests
      PROVE  Recording(q)' /\ Overtaken(q)'
  BY <1>1, <1>3, ConstantsAssumption DEF Recording, Overtaken, TypeOK, Recorder
<1>4. StaleOnlyFromOverlap' /\ ReplaysWhatWasSent' /\ (floor <= version)'
  BY <1>1 DEF StaleOnlyFromOverlap, ReplaysWhatWasSent
<1> QED BY <1>2, <1>3, <1>4

LEMMA RecorderSteps ==
  ASSUME IInv, NEW p \in Requests,
         \/ \E status \in Statuses : RecorderWriteHeader(p, status)
         \/ RecorderWrite(p)
         \/ RecorderReadFrom(p)
  PROVE  IInv'
<1> USE ConstantsAssumption
<1>1. recorder[p] \in Recorder /\ Recording(p) /\ recorder \in [Requests -> Recorder]
  BY DEF IInv, TypeOK
<1>2. CASE \E status \in Statuses : RecorderWriteHeader(p, status)
  <2>1. PICK status \in Statuses : RecorderWriteHeader(p, status)
    BY <1>2
  <2> DEFINE r == [recorder[p] EXCEPT !.status = status]
  <2>2. r \in Recorder /\ recorder' = [recorder EXCEPT ![p] = r]
    BY <1>1, <2>1 DEF Recorder, RecorderWriteHeader
  <2>3. r.version = recorder[p].version /\ r.chunks = recorder[p].chunks
        /\ r.produced = recorder[p].produced /\ r.sent = recorder[p].sent
    BY <1>1 DEF Recorder
  <2> HIDE DEF r
  <2> QED BY <1>1, <2>1, <2>2, <2>3, RecorderStep DEF Recording, RecorderWriteHeader
<1>3. CASE RecorderWrite(p)
  <2>1. PICK out \in Taken(p, 1) :
          /\ recorder' = [recorder EXCEPT ![p].produced = @ + 1, ![p].chunks = @ + 1,
                                          ![p].sent = @ + out]
          /\ recorder[p].produced < Chunks
    BY <1>3 DEF RecorderWrite
  <2> DEFINE r == [recorder[p] EXCEPT !.produced = @ + 1, !.chunks = @ + 1, !.sent = @ + out]
  <2>2. out \in 0..1 /\ (connected[p] => out = 1)
    BY <2>1 DEF Taken
  <2>3. /\ recorder[p].produced + 1 \in 0..Chunks /\ recorder[p].chunks + 1 \in 0..Chunks
        /\ recorder[p].sent + out \in 0..Chunks
        /\ recorder[p].sent + out <= recorder[p].chunks + 1
        /\ recorder[p].chunks + 1 <= recorder[p].produced + 1
        /\ connected[p] => recorder[p].sent + out = recorder[p].produced + 1
    BY <1>1, <2>1, <2>2 DEF Recorder, Recording
  <2>4. /\ r \in Recorder /\ r.version = recorder[p].version
        /\ r.produced = recorder[p].produced + 1 /\ r.chunks = recorder[p].chunks + 1
        /\ r.sent = recorder[p].sent + out
    BY <1>1, <2>3 DEF Recorder
  <2>5. recorder' = [recorder EXCEPT ![p] = r]
    BY <1>1, <2>1 DEF Recorder
  <2> HIDE DEF r
  <2> QED BY <1>3, <2>3, <2>4, <2>5, RecorderStep DEF RecorderWrite
<1>4. CASE RecorderReadFrom(p)
  <2>0. PICK n \in 0..Chunks - recorder[p].produced :
          \E out \in Taken(p, n) : recorder' = [recorder EXCEPT ![p] = Copied(p, n, out)]
    BY <1>4 DEF RecorderReadFrom
  <2>1. PICK out \in Taken(p, n) : recorder' = [recorder EXCEPT ![p] = Copied(p, n, out)]
    BY <2>0
  <2> DEFINE r == Copied(p, n, out)
             read == IF out < n THEN out + 1 ELSE n
  <2>2. /\ recorder[p].produced \in 0..Chunks /\ recorder[p].chunks \in 0..Chunks
        /\ recorder[p].sent \in 0..Chunks
    BY <1>1 DEF Recorder
  <2>3. /\ n \in Nat /\ out \in 0..n /\ (connected[p] => out = n)
        /\ recorder[p].produced + n <= Chunks
    BY <2>1, <2>2 DEF Taken
  <2>4. read \in Nat /\ out <= read /\ read <= n /\ (connected[p] => read = out)
    BY <2>3
  <2> HIDE DEF read
  <2>5. /\ recorder[p].produced + read \in 0..Chunks /\ recorder[p].chunks + out \in 0..Chunks
        /\ recorder[p].sent + out \in 0..Chunks
        /\ recorder[p].sent + out <= recorder[p].chunks + out
        /\ recorder[p].chunks + out <= recorder[p].produced + read
        /\ connected[p] => recorder[p].sent + out = recorder[p].produced + read
    BY <1>1, <2>2, <2>3, <2>4 DEF Recording
  <2>6. /\ r \in Recorder /\ r.version = recorder[p].version
        /\ r.produced = recorder[p].produced + read /\ r.chunks = recorder[p].chunks + out
        /\ r.sent = recorder[p].sent + out
    BY <1>1, <2>5 DEF Recorder, Copied, read
  <2> HIDE DEF r
  <2> QED BY <1>4, <2>1, <2>5, <2>6, RecorderStep DEF RecorderReadFrom, r
<1> QED BY <1>2, <1>3, <1>4

\* The client goes, or the handler returns.
LEMMA LeaveSteps ==
  ASSUME IInv, NEW p \in Requests, Disconnect(p) \/ HandlerReturns(p)
  PROVE  IInv'
<1> USE DEF IInv
<1>1. /\ pc[p] = "handling" /\ (pc' = pc \/ pc' = [pc EXCEPT ![p] = "handled"])
      /\ connected' = connected \/ connected' = [connected EXCEPT ![p] = FALSE]
      /\ pc' = pc \/ connected' = connected
      /\ UNCHANGED <<version, profile, stored, key, config, recorder, began, floor, epoch>>
  BY DEF Disconnect, HandlerReturns, Goto
<1>2. TypeOK'
  BY <1>1 DEF TypeOK
<1>3. ASSUME NEW q \in Requests
      PROVE  Recording(q)' /\ Overtaken(q)'
  BY <1>1 DEF Recording, Overtaken, TypeOK
<1>4. StaleOnlyFromOverlap' /\ ReplaysWhatWasSent' /\ (floor <= version)'
  BY <1>1 DEF StaleOnlyFromOverlap, ReplaysWhatWasSent
<1> QED BY <1>2, <1>3, <1>4

\* What is stored is as old as its recorder, and as long.
LEMMA StoreStep ==
  ASSUME IInv, NEW p \in Requests, Store(p)
  PROVE  IInv'
<1> USE DEF IInv
<1> DEFINE e == [version |-> recorder[p].version, chunks |-> recorder[p].chunks,
                 status |-> recorder[p].status, tagged |-> config[p].tagged,
                 produced |-> recorder[p].produced, sent |-> recorder[p].sent,
                 stayed |-> connected[p], began |-> began[p], storedAt |-> epoch]
<1>1. /\ pc[p] = "handled" /\ Finish(p) /\ UNCHANGED <<version, profile, floor, epoch>>
      /\ stored' = stored \/ stored' = [stored EXCEPT ![key[p]] = e]
  BY DEF Store
<1>2. TypeOK /\ Recording(p) /\ Overtaken(p) /\ key[p] \in Keys
  BY <1>1 DEF Recording
<1>3. e \in Entry
  BY <1>2 DEF TypeOK, Recorder, Config, Entry
<1>4. /\ e.storedAt = epoch
      /\ e.version < floor => e.began < epoch
      /\ e.sent <= e.chunks /\ e.chunks <= e.produced
      /\ e.stayed => e.sent = e.produced
  BY <1>1, <1>2 DEF Recording, Overtaken
<1> HIDE DEF e
<1>5. TypeOK' /\ \A q \in Requests : Recording(q)' /\ Overtaken(q)'
  <2>1. stored' \in [Keys -> Entry \cup {NoEntry}]
    BY <1>1, <1>2, <1>3 DEF TypeOK
  <2> QED BY <1>1, <2>1, FinishStep DEF TypeOK
<1>6. StaleOnlyFromOverlap'
  BY <1>1, <1>2, <1>4 DEF StaleOnlyFromOverlap, TypeOK
<1>7. ReplaysWhatWasSent'
  BY <1>1, <1>2, <1>4 DEF ReplaysWhatWasSent, TypeOK
<1> QED BY <1>1, <1>5, <1>6, <1>7

-----------------------------------------------------------------------------
(* POST *)

LEMMA MutateStep ==
  ASSUME IInv, NEW p \in Requests, Mutate(p)
  PROVE  IInv'
<1> USE ConstantsAssumption DEF IInv
<1>1. /\ pc[p] = "idle" /\ pc' = [pc EXCEPT ![p] = "mutated"]
      /\ version < MaxVersion /\ version' = version + 1
      /\ recorder' = [recorder EXCEPT ![p].version = version + 1]
      /\ UNCHANGED <<profile, stored, key, config, connected, began, floor, epoch>>
  BY DEF Mutate, Goto
<1>2. version \in Nat /\ version' \in 0..MaxVersion /\ floor \in Nat
  BY <1>1 DEF TypeOK
<1>3. TypeOK'
  BY <1>1, <1>2 DEF TypeOK, Recorder
<1>4. ASSUME NEW q \in Requests
      PROVE  Recording(q)' /\ Overtaken(q)'
  BY <1>1, <1>2 DEF Recording, Overtaken, TypeOK, Recorder
<1>5. StaleOnlyFromOverlap' /\ ReplaysWhatWasSent' /\ (floor <= version)'
  BY <1>1, <1>2 DEF StaleOnlyFromOverlap, ReplaysWhatWasSent
<1> QED BY <1>3, <1>4, <1>5

\* Every tagged entry goes, and what a later Store adds was under way.
LEMMA InvalidateTagStep ==
  ASSUME IInv, NEW p \in Requests, InvalidateTag(p)
  PROVE  IInv'
<1> USE ConstantsAssumption DEF IInv
<1>1. /\ Finish(p) /\ epoch' = epoch + 1 /\ UNCHANGED <<version, profile>>
      /\ stored' = [k \in Keys |-> IF stored[k] # NoEntry /\ stored[k].tagged
                                    THEN NoEntry ELSE stored[k]]
      /\ floor' = IF recorder[p].version > floor THEN recorder[p].version ELSE floor
  BY DEF InvalidateTag
<1>2. /\ epoch \in Nat /\ version \in Nat /\ floor \in 0..MaxVersion
      /\ recorder[p].version \in 0..MaxVersion /\ recorder[p].version <= version
  BY DEF TypeOK, Recorder, Recording
<1>3. floor' \in 0..MaxVersion /\ (floor <= version)'
  BY <1>1, <1>2
<1>4. TypeOK' /\ \A q \in Requests : Recording(q)' /\ Overtaken(q)'
  <2>1. stored' \in [Keys -> Entry \cup {NoEntry}]
    BY <1>1 DEF TypeOK
  <2>2. epoch' \in Nat /\ epoch < epoch'
    BY <1>1, <1>2
  <2> QED BY <1>1, <1>2, <1>3, <2>1, <2>2, FinishStep DEF TypeOK
<1>5. StaleOnlyFromOverlap'
  BY <1>1 DEF StaleOnlyFromOverlap
<1>6. ReplaysWhatWasSent'
  BY <1>1 DEF ReplaysWhatWasSent
<1> QED BY <1>3, <1>4, <1>5, <1>6

-----------------------------------------------------------------------------
LEMMA NextIInv == IInv /\ [Next]_vars => IInv'
<1> SUFFICES ASSUME IInv, [Next]_vars PROVE IInv'
  OBVIOUS
<1>1. ASSUME NEW p \in Requests, NEW k \in Keys, Arrive(p, k) PROVE IInv'
  BY <1>1, ArriveStep
<1>2. ASSUME NEW p \in Requests, Hit(p) \/ HandlerPanics(p) PROVE IInv'
  BY <1>2, OverStep DEF Hit, HandlerPanics
<1>3. ASSUME NEW p \in Requests, Miss(p) PROVE IInv'
  BY <1>3, MissStep
<1>4. ASSUME NEW p \in Requests,
             \/ \E status \in Statuses : RecorderWriteHeader(p, status)
             \/ RecorderWrite(p) \/ RecorderReadFrom(p)
      PROVE  IInv'
  BY <1>4, RecorderSteps
<1>5. ASSUME NEW p \in Requests, Disconnect(p) \/ HandlerReturns(p) PROVE IInv'
  BY <1>5, LeaveSteps
<1>6. ASSUME NEW p \in Requests, Store(p) PROVE IInv'
  BY <1>6, StoreStep
<1>7. ASSUME NEW p \in Requests, Mutate(p) PROVE IInv'
  BY <1>7, MutateStep
<1>8. ASSUME NEW p \in Requests, InvalidateTag(p) PROVE IInv'
  BY <1>8, InvalidateTagStep
<1>9. ASSUME NEW k \in Keys, Evict(k) PROVE IInv'
  BY <1>9, ForgetStep DEF Evict, IInv, TypeOK
<1>10. ASSUME NEW c \in {Tagged, Refusing}, ProfileAdd(c) PROVE IInv'
  <2>1. Tagged \in Config /\ Refusing \in Config
    BY DEF Tagged, Refusing, Config
  <2>2. profile' = c /\ UNCHANGED <<version, stored, requestVars, floor, epoch>>
    BY <1>10 DEF ProfileAdd
  <2> QED BY <2>1, <2>2, ForgetStep DEF IInv, TypeOK
<1>11. ASSUME ProfileRemove PROVE IInv'
  BY <1>11, ForgetStep DEF ProfileRemove, IInv, TypeOK
<1>12. ASSUME UNCHANGED vars PROVE IInv'
  BY <1>12, ForgetStep DEF vars, requestVars, IInv, TypeOK
<1> QED
  BY <1>1, <1>2, <1>3, <1>4, <1>5, <1>6, <1>7, <1>8, <1>9, <1>10, <1>11, <1>12 DEF Next

LEMMA SpecIInv == Spec => []IInv
  BY InitIInv, NextIInv, PTL DEF Spec

\* The recorders, the storage and the configuration stay in range.
THEOREM TypeCorrect == Spec => []TypeOK
  BY SpecIInv, PTL DEF IInv

\* A tagged entry that is older than an announced version was stored by a
\* request which that invalidation overlapped (cache.go:136).
THEOREM OnlyOverlapLeavesStale == Spec => []StaleOnlyFromOverlap
  BY SpecIInv, PTL DEF IInv

\* An entry holds what its first client was sent, and if that client stayed all
\* that its handler put out, written or copied, whichever way a copy ended
\* (cache.go:196, cache.go:201).
THEOREM EntriesReplay == Spec => []ReplaysWhatWasSent
  BY SpecIInv, PTL DEF IInv
=============================================================================
