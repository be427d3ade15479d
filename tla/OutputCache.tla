------------------------------ MODULE OutputCache ------------------------------
(***************************************************************************)
(* outputcache.Cache.Middleware: requests served through the output cache  *)
(* while mutations change the origin data and invalidate its tag.          *)
(*                                                                         *)
(* The storage is taken at its contract (StorageContract): Get, Set and    *)
(* InvalidateTag are atomic and an entry may vanish at any time.  A GET    *)
(* reads its route's configuration, looks its key up, and on a miss runs   *)
(* the handler behind a responseRecorder and stores what was recorded.  A  *)
(* POST passes through; its handler changes the data and then calls        *)
(* Cache.InvalidateTag, as the documentation has it.  The body of a        *)
(* response is a number of chunks of one version of the data; how many is  *)
(* the handler's choice, and the recorder cannot tell whether a handler    *)
(* that returned had more to say.                                          *)
(***************************************************************************)
EXTENDS Integers

CONSTANTS
  Requests,     \* request goroutines
  Keys,         \* cache keys of the routes
  ProfileKeys,  \* the keys whose route names a profile, WithCacheProfile
  Chunks,       \* bound: chunks of a body
  MaxVersion,   \* bound: versions of the origin data
  NoEntry, NoKey, NoConfig

ASSUME ConstantsAssumption ==
  /\ Chunks \in Nat \ {0}
  /\ MaxVersion \in Nat
  /\ ProfileKeys \subseteq Keys
  /\ NoKey \notin Keys

OK == 200
Failure == 500
Statuses == {OK, Failure}

\* What a route's options say: does the response carry the tag, and does
\* CacheWhen accept it.
Config == [tagged: BOOLEAN, accepts: BOOLEAN]

\* A removed or unregistered profile leaves the route without options.
Bare == [tagged |-> FALSE, accepts |-> TRUE]
Tagged == [tagged |-> TRUE, accepts |-> TRUE]
Refusing == [tagged |-> TRUE, accepts |-> FALSE]

Entry == [version: 0..MaxVersion, chunks: 0..Chunks, status: Statuses, tagged: BOOLEAN,
          produced: 0..Chunks,   \* history: what its handler had put out
          sent: 0..Chunks,       \* history: what its own client was sent
          stayed: BOOLEAN,       \* history: its client stayed to the end
          began: Nat,            \* history: invalidations before its request
          storedAt: Nat]         \* history: invalidations before its Set

NotRecording == [version |-> 0, produced |-> 0, chunks |-> 0, sent |-> 0, status |-> OK]

VARIABLES
  version,    \* the origin data
  profile,    \* the profile registered in Profiles, or NoConfig
  stored,     \* the storage: key -> Entry, or NoEntry
  pc,         \* where each request is
  key,        \* the cache key of its request
  config,     \* the options it read on arrival
  recorder,   \* its responseRecorder, and how far its handler is
  connected,  \* is its client still there
  began,      \* history: invalidations completed when it arrived
  floor,      \* history: the newest version a completed invalidation announced
  epoch       \* history: invalidations completed

requestVars == <<pc, key, config, recorder, connected, began>>
vars == <<version, profile, stored, requestVars, floor, epoch>>

\* The chunks its handler has put out, those in its buffer, and those the
\* connection took.
Recorder == [version: 0..MaxVersion, produced: 0..Chunks, chunks: 0..Chunks,
             sent: 0..Chunks, status: Statuses]

TypeOK ==
  /\ version \in 0..MaxVersion
  /\ profile \in Config \cup {NoConfig}
  /\ stored \in [Keys -> Entry \cup {NoEntry}]
  /\ pc \in [Requests -> {"idle", "lookup", "handling", "handled", "mutated"}]
  /\ key \in [Requests -> Keys \cup {NoKey}]
  /\ config \in [Requests -> Config]
  /\ recorder \in [Requests -> Recorder]
  /\ connected \in [Requests -> BOOLEAN]
  /\ began \in [Requests -> Nat]
  /\ floor \in 0..MaxVersion
  /\ epoch \in Nat

Init ==
  /\ version = 0
  /\ profile = Tagged
  /\ stored = [k \in Keys |-> NoEntry]
  /\ pc = [p \in Requests |-> "idle"]
  /\ key = [p \in Requests |-> NoKey]
  /\ config = [p \in Requests |-> Bare]
  /\ recorder = [p \in Requests |-> NotRecording]
  /\ connected = [p \in Requests |-> TRUE]
  /\ began = [p \in Requests |-> 0]
  /\ floor = 0
  /\ epoch = 0

-----------------------------------------------------------------------------
\* The request is over and its state with it.
Finish(p) ==
  /\ pc' = [pc EXCEPT ![p] = "idle"]
  /\ key' = [key EXCEPT ![p] = NoKey]
  /\ config' = [config EXCEPT ![p] = Bare]
  /\ recorder' = [recorder EXCEPT ![p] = NotRecording]
  /\ connected' = [connected EXCEPT ![p] = TRUE]
  /\ began' = [began EXCEPT ![p] = 0]

Goto(p, label) == pc' = [pc EXCEPT ![p] = label]

(* GET *)

\* Routes are configured inline or by the profile as registered right now.
ConfigOf(k) ==
  CASE k \notin ProfileKeys -> Tagged
    [] k \in ProfileKeys /\ profile # NoConfig -> profile
    [] OTHER -> Bare

Arrive(p, k) ==
  /\ pc[p] = "idle"
  /\ key' = [key EXCEPT ![p] = k]
  /\ config' = [config EXCEPT ![p] = ConfigOf(k)]
  /\ began' = [began EXCEPT ![p] = epoch]
  /\ Goto(p, "lookup")
  /\ UNCHANGED <<version, profile, stored, recorder, connected, floor, epoch>>

\* A hit is replayed from storage, or answered 304 when the validator of the
\* request matches the entry's ETag; either way the handler does not run and
\* the cache does not change.
Hit(p) ==
  /\ pc[p] = "lookup"
  /\ stored[key[p]] # NoEntry
  /\ Finish(p)
  /\ UNCHANGED <<version, profile, stored, floor, epoch>>

\* A miss runs the handler, which begins by reading the origin data.
Miss(p) ==
  /\ pc[p] = "lookup"
  /\ stored[key[p]] = NoEntry
  /\ Goto(p, "handling")
  /\ recorder' = [recorder EXCEPT ![p].version = version]
  /\ UNCHANGED <<version, profile, stored, key, config, connected, began, floor, epoch>>

\* The recorder keeps the last status it is given, 200 until there is one.
RecorderWriteHeader(p, status) ==
  /\ pc[p] = "handling"
  /\ recorder' = [recorder EXCEPT ![p].status = status]
  /\ UNCHANGED <<version, profile, stored, pc, key, config, connected, began, floor, epoch>>

\* How many of n chunks a connection takes: all while the client is there,
\* afterwards as many as still go into its buffers.
Taken(p, n) == IF connected[p] THEN {n} ELSE 0..n

\* Mutant: a chunk is recorded twice.
RecorderWriteTwice(p) ==
  /\ pc[p] = "handling"
  /\ recorder[p].produced < Chunks
  /\ \E out \in Taken(p, 1) :
       recorder' = [recorder EXCEPT ![p].produced = @ + 1,
                                    ![p].chunks = @ + 2,
                                    ![p].sent = @ + out]
  /\ UNCHANGED <<version, profile, stored, pc, key, config, connected, began, floor, epoch>>

\* Write records a chunk before it sends it, so a client that has gone does
\* not keep it from being recorded.
RecorderWrite(p) ==
  /\ pc[p] = "handling"
  /\ recorder[p].produced < Chunks
  /\ \E out \in Taken(p, 1) :
       recorder' = [recorder EXCEPT ![p].produced = @ + 1,
                                    ![p].chunks = @ + 1,
                                    ![p].sent = @ + out]
  /\ UNCHANGED <<version, profile, stored, pc, key, config, connected, began, floor, epoch>>

\* What io.Copy does with a source that gives n chunks and then ends or
\* fails: it reads on until the connection refuses one, and the buffer behind
\* the connection gets what the connection took.
Copied(p, n, out) ==
  [recorder[p] EXCEPT !.produced = @ + (IF out < n THEN out + 1 ELSE n),
                      !.chunks = @ + out,
                      !.sent = @ + out]

\* Mutant: ReadFrom records only a copy that ended without an error.
ReadFromWhole(p) ==
  /\ pc[p] = "handling"
  /\ \E n \in 0..Chunks - recorder[p].produced, fails \in BOOLEAN :
       \E out \in Taken(p, n) :
         recorder' = [recorder EXCEPT ![p] =
           [Copied(p, n, out) EXCEPT !.chunks = IF fails \/ out < n THEN recorder[p].chunks
                                                ELSE @]]
  /\ UNCHANGED <<version, profile, stored, pc, key, config, connected, began, floor, epoch>>

\* ReadFrom copies first and then records what was copied, whether the copy
\* ended with the source, with an error of the source or with one of the
\* connection; the handler is told which, and goes on or returns.
RecorderReadFrom(p) ==
  /\ pc[p] = "handling"
  /\ \E n \in 0..Chunks - recorder[p].produced :
       \E out \in Taken(p, n) : recorder' = [recorder EXCEPT ![p] = Copied(p, n, out)]
  /\ UNCHANGED <<version, profile, stored, pc, key, config, connected, began, floor, epoch>>

\* The client goes away; the handler learns it from a failed write or from
\* the cancelled context, or not at all.
Disconnect(p) ==
  /\ pc[p] = "handling"
  /\ connected[p]
  /\ connected' = [connected EXCEPT ![p] = FALSE]
  /\ UNCHANGED <<version, profile, stored, pc, key, config, recorder, began, floor, epoch>>

\* The handler returns: done, or early because of an error of its own, of a
\* source it copied from or of the connection.
HandlerReturns(p) ==
  /\ pc[p] = "handling"
  /\ Goto(p, "handled")
  /\ UNCHANGED <<version, profile, stored, key, config, recorder, connected, began, floor, epoch>>

\* A panic unwinds through the middleware: nothing is stored.
HandlerPanics(p) ==
  /\ pc[p] = "handling"
  /\ Finish(p)
  /\ UNCHANGED <<version, profile, stored, floor, epoch>>

\* shouldCacheStatus with the default configuration.
Cacheable(status) == status \in 200..299

\* Set, unless CacheWhen or the status says no.
Store(p) ==
  /\ pc[p] = "handled"
  /\ IF config[p].accepts /\ Cacheable(recorder[p].status)
     THEN stored' = [stored EXCEPT ![key[p]] =
            [version |-> recorder[p].version, chunks |-> recorder[p].chunks,
             status |-> recorder[p].status, tagged |-> config[p].tagged,
             produced |-> recorder[p].produced, sent |-> recorder[p].sent,
             stayed |-> connected[p], began |-> began[p], storedAt |-> epoch]]
     ELSE UNCHANGED stored
  /\ Finish(p)
  /\ UNCHANGED <<version, profile, floor, epoch>>

(* POST *)

\* shouldCache excludes the method, so the handler runs at once.
Mutate(p) ==
  /\ pc[p] = "idle"
  /\ version < MaxVersion
  /\ version' = version + 1
  /\ recorder' = [recorder EXCEPT ![p].version = version + 1]
  /\ Goto(p, "mutated")
  /\ UNCHANGED <<profile, stored, key, config, connected, began, floor, epoch>>

\* Mutant: routes configured by a profile are left out.
InvalidateInline(p) ==
  /\ pc[p] = "mutated"
  /\ stored' = [k \in Keys |-> IF k \notin ProfileKeys /\ stored[k] # NoEntry /\ stored[k].tagged
                               THEN NoEntry ELSE stored[k]]
  /\ floor' = IF recorder[p].version > floor THEN recorder[p].version ELSE floor
  /\ epoch' = epoch + 1
  /\ Finish(p)
  /\ UNCHANGED <<version, profile>>

InvalidateTag(p) ==
  /\ pc[p] = "mutated"
  /\ stored' = [k \in Keys |-> IF stored[k] # NoEntry /\ stored[k].tagged
                               THEN NoEntry ELSE stored[k]]
  /\ floor' = IF recorder[p].version > floor THEN recorder[p].version ELSE floor
  /\ epoch' = epoch + 1
  /\ Finish(p)
  /\ UNCHANGED <<version, profile>>

(* Storage and configuration *)

\* Expiry, Delete or Clear.
Evict(k) ==
  /\ stored[k] # NoEntry
  /\ stored' = [stored EXCEPT ![k] = NoEntry]
  /\ UNCHANGED <<version, profile, requestVars, floor, epoch>>

\* Profiles.Add under the same name, and Profiles.Remove.
ProfileAdd(c) ==
  /\ profile' = c
  /\ UNCHANGED <<version, stored, requestVars, floor, epoch>>

ProfileRemove ==
  /\ profile' = NoConfig
  /\ UNCHANGED <<version, stored, requestVars, floor, epoch>>

Next ==
  \/ \E p \in Requests :
       \/ \E k \in Keys : Arrive(p, k)
       \/ Hit(p) \/ Miss(p)
       \/ \E status \in Statuses : RecorderWriteHeader(p, status)
       \/ RecorderWrite(p) \/ RecorderReadFrom(p)
       \/ Disconnect(p) \/ HandlerReturns(p) \/ HandlerPanics(p) \/ Store(p)
       \/ Mutate(p) \/ InvalidateTag(p)
  \/ \E k \in Keys : Evict(k)
  \/ \E c \in {Tagged, Refusing} : ProfileAdd(c)
  \/ ProfileRemove

Spec == Init /\ [][Next]_vars

-----------------------------------------------------------------------------
(* Safety *)

\* A tagged entry older than what an invalidation announced comes from a
\* request that was already under way when that invalidation ran and stored
\* its response afterwards: nothing stored before it survives, and no later
\* request stores such an entry.
StaleOnlyFromOverlap ==
  \A k \in Keys : stored[k] # NoEntry /\ stored[k].tagged =>
    /\ stored[k].storedAt = epoch
    /\ stored[k].version < floor => stored[k].began < epoch

\* A hit replays what the first client was sent, and at least that: an entry
\* whose client stayed holds all its handler put out, in whatever way it wrote
\* or copied it and whatever error ended a copy; one whose client left holds
\* no less than what reached the connection and no more than what the handler
\* put out.  (Whether the handler said all it had to say is not the
\* recorder's to know: one that gave up half way is stored half way.)
ReplaysWhatWasSent ==
  \A k \in Keys : stored[k] # NoEntry =>
    /\ stored[k].sent <= stored[k].chunks
    /\ stored[k].chunks <= stored[k].produced
    /\ stored[k].stayed => stored[k].sent = stored[k].produced
=============================================================================
