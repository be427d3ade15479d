------------------------------ MODULE RedisStore ------------------------------
(***************************************************************************)
(* outputcache/redis: the Storage of the output cache on one Redis server  *)
(* that several processes share.                                           *)
(*                                                                         *)
(* Redis runs one command at a time, so a command is a step; a method of   *)
(* the Store is several of them, and the commands of other goroutines and  *)
(* processes run in between, those of a pipeline included (Pipeline is not *)
(* a transaction).  If MayFail, the connection may break after any         *)
(* command, which the methods do not report; what got no answer is sent    *)
(* again, as go-redis does by default.                                     *)
(*                                                                         *)
(* A key's TTL is the response whose duration it was set from; when Redis  *)
(* drops the key is left open.  Tag keys never expire.                     *)
(***************************************************************************)
EXTENDS Integers, Sequences

CONSTANTS
  Keys, Tags,    \* cache keys and tags: both name keys of Redis
  Threads,       \* goroutines of any process
  PoliciesOf,    \* per key, the caching options its responses may be stored under
  NoKey, NoTag,
  MayFail,       \* whether connections break
  MaxSets        \* bound: responses ever built

Policy == [tags: SUBSET Tags, sliding: BOOLEAN]

ASSUME ConstantsAssumption ==
  /\ MaxSets \in Nat
  /\ MayFail \in BOOLEAN
  /\ PoliciesOf \in [Keys -> SUBSET Policy]
  /\ Keys \cap Tags = {}
  /\ NoKey \notin Keys
  /\ NoTag \notin Tags

NoResponse == 0

VARIABLES
  built,      \* the options of every response built; its index names it
  data,       \* data keys: the response, and the one its TTL is from
  members,    \* tag keys: the set of cache keys
  call,       \* per goroutine: the call it is in
  raced,      \* history: <<response, tag>> whose listing may be lost
  exposed,    \* history: responses stored while a Get was about to EXPIRE their key
  survivors,  \* history: <<response, tag>> an invalidation of the tag that
              \* succeeded left behind
  uncleared   \* history: responses a Clear that succeeded left behind

histVars == <<raced, exposed, survivors, uncleared>>
vars == <<built, data, members, call, histVars>>

Absent == [resp |-> NoResponse, lease |-> NoResponse]

\* `todo' holds what a call has still to do: the tags a Set has not added its
\* key to, the keys an invalidation has not deleted and its tag, the Redis
\* keys SCAN has yet to return.  `doomed' is history.
Idle == [op |-> "idle", key |-> NoKey, resp |-> NoResponse, tag |-> NoTag,
         listed |-> {}, todo |-> {}, doomed |-> {}]

Call == [op: {"idle", "get", "set", "invalidate", "clear"}, key: Keys \cup {NoKey},
         resp: 0..MaxSets, tag: Tags \cup {NoTag},
         listed: SUBSET Keys, todo: SUBSET (Keys \cup Tags), doomed: SUBSET (1..MaxSets)]

TypeOK ==
  /\ built \in Seq(Policy) /\ Len(built) <= MaxSets
  /\ data \in [Keys -> [resp: 0..Len(built), lease: 0..Len(built)]]
  /\ members \in [Tags -> SUBSET Keys]
  /\ call \in [Threads -> Call]
  /\ raced \cup survivors \subseteq (1..Len(built)) \X Tags
  /\ exposed \cup uncleared \subseteq 1..Len(built)

Init ==
  /\ built = << >>
  /\ data = [k \in Keys |-> Absent]
  /\ members = [t \in Tags |-> {}]
  /\ call = [p \in Threads |-> Idle]
  /\ raced = {} /\ exposed = {} /\ survivors = {} /\ uncleared = {}

-----------------------------------------------------------------------------
(* Helpers *)

Present(k) == data[k].resp # NoResponse
Carrying(t) == {k \in Keys : Present(k) /\ t \in built[data[k].resp].tags}
Stored(o) == \E k \in Keys : data[k].resp = o
In(p, op) == call[p].op = op
Settled(o) == \A p \in Threads : ~(In(p, "set") /\ call[p].resp = o)

\* DEL of the Redis keys in X.
Del(X) ==
  /\ data' = [k \in Keys |-> IF k \in X THEN Absent ELSE data[k]]
  /\ members' = [t \in Tags |-> IF t \in X THEN {} ELSE members[t]]

\* SCAN need not return a key that was deleted while it ran.
Unscanned(X) ==
  [p \in Threads |-> IF In(p, "clear") THEN [call[p] EXCEPT !.todo = @ \ X] ELSE call[p]]

\* The listings of a response whose Set runs beside an invalidation of the tag.
Interfered(o) ==
  LET beside == {p \in Threads : In(p, "invalidate") /\ call[p].tag \in built'[o].tags} IN
  {<<o, call[p].tag>> : p \in beside}
AboutToExpire(k) == \E p \in Threads : In(p, "get") /\ call[p].key = k

\* Mutant: SET keeps the TTL of what the key held.
SetDataKeepTTL(k, o) ==
  /\ data' = [data EXCEPT ![k] = [resp |-> o, lease |-> IF Present(k) THEN @.lease ELSE o]]
  /\ raced' = raced \cup Interfered(o)
  /\ exposed' = IF AboutToExpire(k) THEN exposed \cup {o} ELSE exposed

\* SET with a TTL, the first command of a Set.
SetData(k, o) ==
  /\ data' = [data EXCEPT ![k] = [resp |-> o, lease |-> o]]
  /\ raced' = raced \cup Interfered(o)
  /\ exposed' = IF AboutToExpire(k) THEN exposed \cup {o} ELSE exposed

-----------------------------------------------------------------------------
(* Get *)

\* A hit on a response that slides goes on to EXPIRE its key; any other Get
\* changes nothing.
GetSliding(p, k) ==
  /\ In(p, "idle")
  /\ Present(k)
  /\ built[data[k].resp].sliding
  /\ call' = [call EXCEPT ![p] = [Idle EXCEPT !.op = "get", !.key = k, !.resp = data[k].resp]]
  /\ UNCHANGED <<built, data, members, histVars>>

\* EXPIRE acts on whatever the key holds by now; unanswered, it is sent again.
GetExpire(p) ==
  LET k == call[p].key IN
  /\ In(p, "get")
  /\ data' = [data EXCEPT ![k].lease = IF Present(k) THEN call[p].resp ELSE @]
  /\ \/ call' = [call EXCEPT ![p] = Idle]
     \/ MayFail /\ UNCHANGED call
  /\ UNCHANGED <<built, members, histVars>>

(* Set *)

SetBegin(p, k, policy) ==
  LET o == Len(built) + 1 IN
  /\ In(p, "idle")
  /\ o <= MaxSets
  /\ built' = Append(built, policy)
  /\ SetData(k, o)
  /\ call' = [call EXCEPT ![p] = [Idle EXCEPT !.op = "set", !.key = k, !.resp = o,
                                              !.todo = policy.tags]]
  /\ UNCHANGED <<members, survivors, uncleared>>

\* Mutant: one SADD, for the last tag of the list.
SetTagLast(p, t) ==
  /\ In(p, "set")
  /\ t \in call[p].todo
  /\ members' = [members EXCEPT ![t] = @ \cup {call[p].key}]
  /\ call' = [call EXCEPT ![p].todo = {}]
  /\ UNCHANGED <<built, data, histVars>>

\* Mutant: SADD adds the tag instead of the key.
SetTagItself(p, t) ==
  /\ In(p, "set")
  /\ t \in call[p].todo
  /\ members' = [members EXCEPT ![t] = @ \cup {t}]
  /\ call' = [call EXCEPT ![p].todo = @ \ {t}]
  /\ UNCHANGED <<built, data, histVars>>

SetTag(p, t) ==
  /\ In(p, "set")
  /\ t \in call[p].todo
  /\ members' = [members EXCEPT ![t] = @ \cup {call[p].key}]
  /\ call' = [call EXCEPT ![p].todo = @ \ {t}]
  /\ UNCHANGED <<built, data, histVars>>

\* The pipeline is sent again from its first command.
SetResend(p) ==
  /\ MayFail
  /\ In(p, "set")
  /\ UNCHANGED built
  /\ SetData(call[p].key, call[p].resp)
  /\ call' = [call EXCEPT ![p].todo = built[call[p].resp].tags]
  /\ UNCHANGED <<members, survivors, uncleared>>

SetReply(p) ==
  /\ In(p, "set")
  /\ call[p].todo = {}
  /\ call' = [call EXCEPT ![p] = Idle]
  /\ UNCHANGED <<built, data, members, histVars>>

(* Delete *)

Delete(p, k) ==
  /\ In(p, "idle")
  /\ Del({k})
  /\ call' = Unscanned({k})
  /\ UNCHANGED <<built, histVars>>

(* InvalidateTag; InvalidateTags is one after the other *)

\* SMEMBERS.  A Set that has yet to add its key to the tag is not in the answer.
InvalidateBegin(p, t) ==
  /\ In(p, "idle")
  /\ call' = [call EXCEPT ![p] = [Idle EXCEPT !.op = "invalidate", !.tag = t,
       !.listed = members[t], !.todo = members[t] \cup {t},
       !.doomed = {o \in {data[k].resp : k \in Carrying(t)} : Settled(o)}]]
  /\ raced' = raced \cup {<<call[q].resp, t>> :
                            q \in {q \in Threads : In(q, "set") /\ t \in call[q].todo}}
  /\ UNCHANGED <<built, data, members, exposed, survivors, uncleared>>

InvalidateDelete(p, k) ==
  /\ In(p, "invalidate")
  /\ k \in call[p].todo
  /\ Del({k})
  /\ call' = [Unscanned({k}) EXCEPT ![p].todo = @ \ {k}]
  /\ UNCHANGED <<built, histVars>>

\* Mutant: the tag's key is deleted before the keys it lists.
InvalidateDropFirst(p) ==
  /\ In(p, "invalidate")
  /\ call[p].tag \in call[p].todo
  /\ Del({call[p].tag})
  /\ call' = [Unscanned({call[p].tag}) EXCEPT ![p].todo = @ \ {call[p].tag}]
  /\ UNCHANGED <<built, histVars>>

\* The last command of the pipeline.
InvalidateDrop(p) ==
  /\ In(p, "invalidate")
  /\ call[p].todo = {call[p].tag}
  /\ Del({call[p].tag})
  /\ call' = [Unscanned({call[p].tag}) EXCEPT ![p].todo = {}]
  /\ UNCHANGED <<built, histVars>>

InvalidateResend(p) ==
  /\ MayFail
  /\ In(p, "invalidate")
  /\ call' = [call EXCEPT ![p].todo = call[p].listed \cup {call[p].tag}]
  /\ UNCHANGED <<built, data, members, histVars>>

InvalidateReply(p) ==
  /\ In(p, "invalidate")
  /\ call[p].todo = {}
  /\ survivors' = survivors \cup {<<o, call[p].tag>> : o \in {o \in call[p].doomed : Stored(o)}}
  /\ call' = [call EXCEPT ![p] = Idle]
  /\ UNCHANGED <<built, data, members, raced, exposed, uncleared>>

(* Clear *)

\* SCAN returns every key that is there from its first call to its last.
ClearBegin(p) ==
  /\ In(p, "idle")
  /\ call' = [call EXCEPT ![p] = [Idle EXCEPT !.op = "clear",
       !.todo = {k \in Keys : Present(k)} \cup {t \in Tags : members[t] # {}},
       !.doomed = {o \in {data[k].resp : k \in {k \in Keys : Present(k)}} : Settled(o)}]]
  /\ UNCHANGED <<built, data, members, histVars>>

\* One key of a batch: what it holds when DEL runs goes.
ClearDelete(p, k) ==
  /\ In(p, "clear")
  /\ Present(k)
  /\ Del({k})
  /\ call' = Unscanned({k})
  /\ UNCHANGED <<built, histVars>>

ClearDeleteTag(p, t) ==
  /\ In(p, "clear")
  /\ members[t] # {}
  /\ Del({t})
  /\ call' = Unscanned({t})
  /\ raced' = raced \cup {<<data[k].resp, t>> : k \in Carrying(t)}
  /\ UNCHANGED <<built, exposed, survivors, uncleared>>

\* The DEL of a batch failed, which Clear ignores: what it was to remove stays,
\* and this Clear is none that succeeds.
ClearSkip(p) ==
  /\ MayFail
  /\ In(p, "clear")
  /\ \E batch \in SUBSET call[p].todo \ {{}} :
       call' = [call EXCEPT ![p].todo = @ \ batch, ![p].doomed = {}]
  /\ UNCHANGED <<built, data, members, histVars>>

\* Mutant: the loop ends after one batch.
ClearReplyEarly(p) ==
  /\ In(p, "clear")
  /\ uncleared' = uncleared \cup {o \in call[p].doomed : Stored(o)}
  /\ call' = [call EXCEPT ![p] = Idle]
  /\ UNCHANGED <<built, data, members, raced, exposed, survivors>>

ClearReply(p) ==
  /\ In(p, "clear")
  /\ call[p].todo = {}
  /\ uncleared' = uncleared \cup {o \in call[p].doomed : Stored(o)}
  /\ call' = [call EXCEPT ![p] = Idle]
  /\ UNCHANGED <<built, data, members, raced, exposed, survivors>>

(* Failure and expiry *)

\* No retry is left or the context ends: what was not run is not run.
Fail(p) ==
  /\ MayFail
  /\ ~In(p, "idle")
  /\ call[p].todo # {} \/ In(p, "get")
  /\ raced' = IF In(p, "set") THEN raced \cup {<<call[p].resp, t>> : t \in call[p].todo}
              ELSE raced
  /\ call' = [call EXCEPT ![p] = Idle]
  /\ UNCHANGED <<built, data, members, exposed, survivors, uncleared>>

Lapse(k) ==
  /\ Present(k)
  /\ Del({k})
  /\ call' = Unscanned({k})
  /\ UNCHANGED <<built, histVars>>

Next ==
  \/ \E p \in Threads :
       \/ \E k \in Keys : \/ GetSliding(p, k)
                          \/ \E policy \in PoliciesOf[k] : SetBegin(p, k, policy)
                          \/ Delete(p, k)
                          \/ InvalidateDelete(p, k)
                          \/ ClearDelete(p, k)
       \/ \E t \in Tags : SetTag(p, t) \/ InvalidateBegin(p, t) \/ ClearDeleteTag(p, t)
       \/ GetExpire(p)
       \/ SetResend(p) \/ SetReply(p)
       \/ InvalidateDrop(p) \/ InvalidateResend(p) \/ InvalidateReply(p)
       \/ ClearBegin(p) \/ ClearSkip(p) \/ ClearReply(p)
       \/ Fail(p)
  \/ \E k \in Keys : Lapse(k)

Spec == Init /\ [][Next]_vars

-----------------------------------------------------------------------------
(* Safety *)

\* A stored response is listed under each of its tags, or its Set is still
\* adding it, or that very listing was put at risk: an invalidation of the tag
\* ran beside the Set, a Clear dropped the tag, or the Set failed before it.
\* An invalidation that fails half way loses no listing, so it can be retried.
ListedUnlessRaced ==
  \A t \in Tags : \A k \in Carrying(t) :
    \/ k \in members[t]
    \/ <<data[k].resp, t>> \in raced
    \/ \E p \in Threads : In(p, "set") /\ call[p].resp = data[k].resp /\ t \in call[p].todo

\* What InvalidateTag (redis.go:119) keeps of the Storage contract: a response
\* stored before it began is gone when it succeeds, unless the response's
\* listing under this same tag was put at risk before, in one of the ways
\* ListedUnlessRaced names.  The invalidation that did so may be an earlier one
\* than the one that is outlived.
SurvivorsRaced == survivors \subseteq raced

\* A Clear that reaches the end of its SCAN, no DEL of it failing, leaves
\* nothing that was stored before it began.
ClearLeavesNothingOld == uncleared = {}

\* A response gets a TTL that is not its own only from a Get that had found
\* another response under the key when it was stored.
LeaseOwnUnlessExposed ==
  \A k \in Keys : Present(k) =>
    data[k].lease = data[k].resp \/ data[k].resp \in exposed

\* "InvalidateTag removes every cached response carrying the given tag"
\* (redis.go:118), those stored before it was called at least and once no call
\* is under way.  Broken although no command fails: an invalidation of the tag
\* reads its members, a Set adds its key, and the invalidation's last DEL drops
\* that listing; the next invalidation then finds nothing to delete.
InvalidateRemovesAll ==
  (\A p \in Threads : In(p, "idle")) => \A s \in survivors : ~Stored(s[1])
=============================================================================
