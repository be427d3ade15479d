---------------------------- MODULE RedisStoreProofs ----------------------------
(***************************************************************************)
(* Theorems about RedisStore, for any keys, tags, goroutines and policies, *)
(* and with or without failures.                                           *)
(***************************************************************************)
EXTENDS RedisStore, SequenceTheorems, TLAPS

\* What a goroutine in the middle of a call knows.
Knows(p) ==
  /\ In(p, "get") => call[p].key \in Keys /\ call[p].resp \in 1..Len(built)
  /\ In(p, "set") => /\ call[p].key \in Keys /\ call[p].resp \in 1..Len(built)
                     /\ call[p].todo \subseteq built[call[p].resp].tags
  /\ In(p, "invalidate") =>
       /\ call[p].tag \in Tags
       /\ call[p].todo \subseteq call[p].listed \cup {call[p].tag}
       /\ \A o \in call[p].doomed : call[p].tag \in built[o].tags
  /\ call[p].doomed \subseteq IF In(p, "set") THEN {} ELSE 1..Len(built)

\* A response has one Set, which stores it under one key.
OneSet ==
  \A p \in Threads : In(p, "set") =>
    /\ \A q \in Threads \ {p} : In(q, "set") => call[q].resp # call[p].resp
    /\ \A k \in Keys : data[k].resp = call[p].resp => k = call[p].key

\* What carries the tag of an invalidation is still on its list, or its
\* listing under the tag was at risk.
InvalidateReaches ==
  \A p \in Threads : In(p, "invalidate") =>
    \A k \in Carrying(call[p].tag) :
      k \in call[p].todo \/ <<data[k].resp, call[p].tag>> \in raced

\* What a Clear found is settled, and on its list as long as it is there.
ClearReaches ==
  \A p \in Threads : In(p, "clear") =>
    \A o \in call[p].doomed :
      /\ Settled(o)
      /\ \A k \in Keys : data[k].resp = o => k \in call[p].todo

\* A Get about to EXPIRE its key found what is there, or what is there knows.
ExpireKnows ==
  \A p \in Threads : In(p, "get") =>
    LET k == call[p].key IN
    Present(k) => data[k].resp = call[p].resp \/ data[k].resp \in exposed

\* The inductive invariant.
IInv ==
  /\ TypeOK
  /\ \A p \in Threads : Knows(p)
  /\ OneSet
  /\ InvalidateReaches
  /\ ClearReaches
  /\ ExpireKnows
  /\ ListedUnlessRaced
  /\ SurvivorsRaced
  /\ ClearLeavesNothingOld
  /\ LeaseOwnUnlessExposed

-----------------------------------------------------------------------------
LEMMA InitIInv == Init => IInv
<1> SUFFICES ASSUME Init PROVE IInv
  OBVIOUS
<1> USE ConstantsAssumption DEF Init
<1>1. built \in Seq(Policy) /\ Len(built) = 0
  BY EmptySeq
<1>2. Idle \in Call
  BY DEF Idle, Call, NoResponse
<1>3. TypeOK
  BY <1>1, <1>2 DEF TypeOK, Absent, NoResponse
<1>4. \A p \in Threads : call[p] = Idle /\ Idle.op = "idle" /\ Idle.doomed = {}
  BY DEF Idle
<1>5. (\A p \in Threads : Knows(p)) /\ OneSet /\ InvalidateReaches /\ ClearReaches /\ ExpireKnows
  BY <1>4 DEF Knows, OneSet, InvalidateReaches, ClearReaches, ExpireKnows, In
<1>6. \A k \in Keys : ~Present(k)
  BY DEF Present, Absent
<1>7. ListedUnlessRaced /\ SurvivorsRaced /\ ClearLeavesNothingOld /\ LeaseOwnUnlessExposed
  BY <1>6 DEF ListedUnlessRaced, SurvivorsRaced, ClearLeavesNothingOld, LeaseOwnUnlessExposed,
              Carrying
<1> QED BY <1>3, <1>5, <1>7 DEF IInv

-----------------------------------------------------------------------------
(* Steps that delete Redis keys *)

\* The calls c are those of now, but for keys in X that who was to delete them
\* or to be shown them has crossed off.
CrossedOff(c, X) ==
  /\ c \in [Threads -> Call]
  /\ \A q \in Threads :
       /\ c[q].op = call[q].op /\ c[q].key = call[q].key
       /\ c[q].resp = call[q].resp /\ c[q].tag = call[q].tag
       /\ c[q].listed = call[q].listed /\ c[q].doomed = call[q].doomed
       /\ c[q].todo \subseteq call[q].todo
       /\ call[q].op = "set" => c[q].todo = call[q].todo
       /\ call[q].todo \ X \subseteq c[q].todo

\* The keys in X go; who has one of them on a list may cross it off, and a
\* listing that is lost by it was at risk.
LEMMA DelStep ==
  ASSUME IInv, NEW X \in SUBSET (Keys \cup Tags), Del(X),
         UNCHANGED <<built, exposed, survivors, uncleared>>,
         raced \subseteq raced', raced' \subseteq (1..Len(built)) \X Tags,
         CrossedOff(call', X),
         \A t \in X \cap Tags : \A k \in Carrying(t) : <<data[k].resp, t>> \in raced'
  PROVE  IInv'
<1> USE DEF IInv, NoResponse, CrossedOff
<1>1. /\ \A k \in Keys \cap X : data'[k].resp = 0 /\ data'[k].lease = 0
      /\ \A k \in Keys \ X : data'[k] = data[k]
      /\ \A t \in Tags \cap X : members'[t] = {}
      /\ \A t \in Tags \ X : members'[t] = members[t]
  BY DEF Del, Absent
<1>2. TypeOK'
  <2>1. data' \in [Keys -> [resp: 0..Len(built), lease: 0..Len(built)]]
    BY DEF TypeOK, Del, Absent
  <2>2. members' \in [Tags -> SUBSET Keys]
    BY DEF TypeOK, Del
  <2> QED BY <2>1, <2>2 DEF TypeOK
<1>3. \A k \in Keys : Present(k)' => Present(k) /\ k \notin X /\ data'[k] = data[k]
  BY <1>1 DEF Present
<1>4. \A t \in Tags : \A k \in Carrying(t)' : k \in Carrying(t) /\ k \notin X /\ data'[k] = data[k]
  BY <1>3 DEF Carrying
<1>5. ASSUME NEW q \in Threads
      PROVE  Knows(q)'
  BY DEF Knows, In
<1>6. OneSet'
  <2> SUFFICES ASSUME NEW p \in Threads, call'[p].op = "set"
               PROVE  /\ \A q \in Threads \ {p} : call'[q].op = "set" => call'[q].resp # call'[p].resp
                      /\ \A k \in Keys : data'[k].resp = call'[p].resp => k = call'[p].key
    BY DEF OneSet, In
  <2>1. call[p].resp # 0
    BY DEF Knows, In
  <2>2. \A k \in Keys : data'[k].resp = call[p].resp => data[k].resp = call[p].resp
    BY <1>1, <2>1
  <2> QED BY <2>2 DEF OneSet, In
<1>7. InvalidateReaches'
  <2> SUFFICES ASSUME NEW q \in Threads, call'[q].op = "invalidate",
                      NEW k \in Carrying(call[q].tag)'
               PROVE  k \in call'[q].todo \/ <<data'[k].resp, call'[q].tag>> \in raced'
    BY DEF InvalidateReaches, In
  <2>1. In(q, "invalidate") /\ call[q].tag \in Tags
    BY DEF Knows, In
  <2>2. k \in Carrying(call[q].tag) /\ k \notin X /\ data'[k] = data[k]
    BY <1>4, <2>1 DEF Carrying, Present
  <2> QED BY <2>1, <2>2 DEF InvalidateReaches
<1>8. ClearReaches'
  <2> SUFFICES ASSUME NEW p \in Threads, call'[p].op = "clear", NEW o \in call'[p].doomed
               PROVE  /\ Settled(o)'
                      /\ \A k \in Keys : data'[k].resp = o => k \in call'[p].todo
    BY DEF ClearReaches, In
  <2>1. o \in call[p].doomed /\ call[p].op = "clear" /\ o # 0
    BY DEF Knows
  <2>2. Settled(o)'
    BY <2>1 DEF ClearReaches, Settled, In
  <2>3. \A k \in Keys : data'[k].resp = o => k \notin X /\ data[k].resp = o
    BY <1>1, <2>1
  <2> QED BY <2>1, <2>2, <2>3 DEF ClearReaches, In
<1>9. ExpireKnows'
  BY <1>3 DEF ExpireKnows, In, Knows
<1>10. ListedUnlessRaced'
  <2> SUFFICES ASSUME NEW t \in Tags, NEW k \in Carrying(t)'
               PROVE  \/ k \in members'[t] \/ <<data'[k].resp, t>> \in raced'
                      \/ \E p \in Threads : call'[p].op = "set" /\ call'[p].resp = data'[k].resp
                                            /\ t \in call'[p].todo
    <3> HIDE DEF IInv, CrossedOff
    <3> QED BY DEF ListedUnlessRaced, In
  <2>1. k \in Carrying(t) /\ data'[k] = data[k]
    BY <1>4
  <2>2. CASE t \in X
    BY <2>1, <2>2
  <2>3. CASE t \notin X
    <3>1. \/ k \in members[t] \/ <<data[k].resp, t>> \in raced
          \/ \E p \in Threads : /\ call[p].op = "set" /\ call[p].resp = data[k].resp
                                /\ t \in call[p].todo
      BY <2>1 DEF ListedUnlessRaced, In
    <3>2. members'[t] = members[t]
      BY <1>1, <2>3
    <3>3. \A p \in Threads : /\ call'[p].op = call[p].op /\ call'[p].resp = call[p].resp
                             /\ call[p].op = "set" => call'[p].todo = call[p].todo
      OBVIOUS
    <3>4. raced \subseteq raced'
      OBVIOUS
    <3> HIDE DEF IInv, CrossedOff
    <3> QED BY <2>1, <3>1, <3>2, <3>3, <3>4
  <2> QED BY <2>2, <2>3
<1>11. SurvivorsRaced' /\ ClearLeavesNothingOld'
  BY DEF SurvivorsRaced, ClearLeavesNothingOld
<1>12. LeaseOwnUnlessExposed'
  BY <1>3 DEF LeaseOwnUnlessExposed
<1> QED BY <1>2, <1>5, <1>6, <1>7, <1>8, <1>9, <1>10, <1>11, <1>12

-----------------------------------------------------------------------------
(* Steps of one goroutine that change no key of Redis *)

LEMMA CallStep ==
  ASSUME IInv, NEW p \in Threads, NEW c \in Call, call' = [call EXCEPT ![p] = c],
         UNCHANGED <<built, data, members, exposed>>,
         raced \subseteq raced', raced' \subseteq (1..Len(built)) \X Tags,
         survivors' \subseteq raced', uncleared' = {},
         c.doomed \subseteq 1..Len(built),
         c.op = "get" => /\ c.key \in Keys /\ c.resp \in 1..Len(built)
                         /\ data[c.key].resp = c.resp,
         c.op # "set",
         In(p, "set") => \A t \in call[p].todo : <<call[p].resp, t>> \in raced',
         c.op = "invalidate" =>
           /\ c.tag \in Tags /\ c.todo \subseteq c.listed \cup {c.tag}
           /\ \A o \in c.doomed : c.tag \in built[o].tags
           /\ \A k \in Carrying(c.tag) : k \in c.todo \/ <<data[k].resp, c.tag>> \in raced',
         c.op = "clear" =>
           \A o \in c.doomed : /\ Settled(o)
                               /\ \A k \in Keys : data[k].resp = o => k \in c.todo
  PROVE  IInv'
<1> USE DEF IInv
<1>1. call'[p] = c /\ \A q \in Threads \ {p} : call'[q] = call[q]
  BY DEF TypeOK
<1>2. TypeOK'
  BY DEF TypeOK
<1>3. ASSUME NEW q \in Threads
      PROVE  Knows(q)'
  BY <1>1 DEF Knows, In
<1>4. OneSet'
  BY <1>1 DEF OneSet, In
<1>5. \A t \in Tags : Carrying(t)' = Carrying(t)
  BY DEF Carrying, Present
<1>6. InvalidateReaches'
  <2> SUFFICES ASSUME NEW q \in Threads, call'[q].op = "invalidate",
                      NEW k \in Carrying(call[q].tag)'
               PROVE  k \in call'[q].todo \/ <<data[k].resp, call'[q].tag>> \in raced'
    BY DEF InvalidateReaches, In
  <2>1. k \in Carrying(call'[q].tag)
    BY DEF Carrying, Present
  <2>2. CASE q = p
    BY <1>1, <2>1, <2>2
  <2>3. CASE q # p
    BY <1>1, <2>1, <2>3 DEF InvalidateReaches, In
  <2> QED BY <2>2, <2>3
<1>7. ClearReaches'
  BY <1>1 DEF ClearReaches, In, Settled
<1>8. ExpireKnows'
  BY <1>1 DEF ExpireKnows, In, Present
<1>9. ListedUnlessRaced'
  <2> SUFFICES ASSUME NEW t \in Tags, NEW k \in Carrying(t)
               PROVE  \/ k \in members[t] \/ <<data[k].resp, t>> \in raced'
                      \/ \E q \in Threads : call'[q].op = "set" /\ call'[q].resp = data[k].resp
                                            /\ t \in call'[q].todo
    BY <1>5 DEF ListedUnlessRaced, In
  <2>1. \/ k \in members[t] \/ <<data[k].resp, t>> \in raced
        \/ \E q \in Threads : /\ call[q].op = "set" /\ call[q].resp = data[k].resp
                              /\ t \in call[q].todo
    BY DEF ListedUnlessRaced, In
  <2> QED BY <1>1, <2>1 DEF In
<1>10. SurvivorsRaced' /\ ClearLeavesNothingOld' /\ LeaseOwnUnlessExposed'
  BY DEF SurvivorsRaced, ClearLeavesNothingOld, LeaseOwnUnlessExposed, Present
<1> QED BY <1>2, <1>3, <1>4, <1>6, <1>7, <1>8, <1>9, <1>10

-----------------------------------------------------------------------------
(* Get *)

LEMMA GetSlidingStep ==
  ASSUME IInv, NEW p \in Threads, NEW k \in Keys, GetSliding(p, k)
  PROVE  IInv'
<1> DEFINE c == [Idle EXCEPT !.op = "get", !.key = k, !.resp = data[k].resp]
<1>1. /\ Present(k) /\ In(p, "idle") /\ call' = [call EXCEPT ![p] = c]
      /\ UNCHANGED <<built, data, members, raced, exposed, survivors, uncleared>>
  BY DEF GetSliding, histVars
<1>2. data[k].resp \in 1..Len(built) /\ data[k].resp \in 0..MaxSets
  BY <1>1, ConstantsAssumption DEF IInv, TypeOK, Present, NoResponse
<1>3. c \in Call /\ c.op = "get" /\ c.key = k /\ c.resp = data[k].resp /\ c.doomed = {}
  BY <1>2 DEF Call, Idle
<1> HIDE DEF c
<1>4. raced \subseteq (1..Len(built)) \X Tags /\ survivors \subseteq raced /\ uncleared = {}
  BY DEF IInv, TypeOK, SurvivorsRaced, ClearLeavesNothingOld
<1> QED BY <1>1, <1>2, <1>3, <1>4, CallStep DEF In

\* EXPIRE gives the key the TTL of what the Get found: if that is not what is
\* there, what is there knows.
LEMMA GetExpireStep ==
  ASSUME IInv, NEW p \in Threads, GetExpire(p)
  PROVE  IInv'
<1> USE DEF IInv
<1> DEFINE k == call[p].key
           d == [data EXCEPT ![k].lease = IF Present(k) THEN call[p].resp ELSE @]
<1>1. /\ In(p, "get") /\ data' = d
      /\ call' = [call EXCEPT ![p] = Idle] \/ call' = call
      /\ UNCHANGED <<built, members, raced, exposed, survivors, uncleared>>
  BY DEF GetExpire, histVars
<1>2. k \in Keys /\ call[p].resp \in 1..Len(built) /\ Idle \in Call
  BY <1>1, ConstantsAssumption DEF Knows, Idle, Call, NoResponse
<1>3. /\ \A j \in Keys : data'[j].resp = data[j].resp
      /\ \A j \in Keys \ {k} : data'[j] = data[j]
      /\ data'[k].lease = IF Present(k) THEN call[p].resp ELSE data[k].lease
      /\ data' \in [Keys -> [resp: 0..Len(built), lease: 0..Len(built)]]
  <2>1. data \in [Keys -> [resp: 0..Len(built), lease: 0..Len(built)]] /\ Len(built) \in Nat
    BY DEF TypeOK
  <2> HIDE DEF IInv, k
  <2>2. /\ d \in [Keys -> [resp: 0..Len(built), lease: 0..Len(built)]]
        /\ \A j \in Keys \ {k} : d[j] = data[j]
        /\ d[k].resp = data[k].resp
        /\ d[k].lease = IF Present(k) THEN call[p].resp ELSE data[k].lease
    BY <1>2, <2>1
  <2> HIDE DEF d
  <2> QED BY <1>1, <1>2, <2>2
<1>4. /\ Idle.op = "idle" /\ Idle.doomed = {}
      /\ \A q \in Threads : \/ call'[q] = call[q]
                            \/ q = p /\ call'[q] = Idle
  BY <1>1 DEF TypeOK, Idle
<1> HIDE DEF k, d
<1>5. TypeOK'
  BY <1>1, <1>2, <1>3 DEF TypeOK
<1>6. /\ \A j \in Keys : Present(j)' <=> Present(j)
      /\ \A t \in Tags : Carrying(t)' = Carrying(t)
  BY <1>1, <1>3 DEF Present, Carrying
<1>7. ASSUME NEW q \in Threads
      PROVE  Knows(q)'
  BY <1>1, <1>4 DEF Knows, In
<1>8. OneSet'
  BY <1>3, <1>4 DEF OneSet, In
<1>9. InvalidateReaches'
  <2> SUFFICES ASSUME NEW q \in Threads, call'[q].op = "invalidate",
                      NEW j \in Carrying(call[q].tag)'
               PROVE  j \in call'[q].todo \/ <<data'[j].resp, call'[q].tag>> \in raced'
    BY DEF InvalidateReaches, In
  <2>1. call'[q] = call[q] /\ call[q].tag \in Tags
    BY <1>4 DEF Knows, In
  <2>2. j \in Carrying(call[q].tag)
    BY <1>1, <1>3, <2>1 DEF Carrying, Present
  <2> QED BY <1>1, <1>3, <2>1, <2>2 DEF InvalidateReaches, In, Carrying
<1>10. ClearReaches'
  BY <1>3, <1>4 DEF ClearReaches, Settled, In
<1>11. ExpireKnows'
  <2> SUFFICES ASSUME NEW q \in Threads, call'[q].op = "get", data'[call'[q].key].resp # NoResponse
               PROVE  \/ data'[call'[q].key].resp = call'[q].resp
                      \/ data'[call'[q].key].resp \in exposed'
    BY DEF ExpireKnows, In, Present
  <2>1. call'[q] = call[q] /\ call[q].key \in Keys
    BY <1>4 DEF Knows, In
  <2> QED BY <1>1, <1>3, <2>1 DEF ExpireKnows, In, Present
<1>12. ListedUnlessRaced'
  <2> SUFFICES ASSUME NEW t \in Tags, NEW j \in Carrying(t)
               PROVE  \/ j \in members[t] \/ <<data[j].resp, t>> \in raced
                      \/ \E q \in Threads : call'[q].op = "set" /\ call'[q].resp = data[j].resp
                                            /\ t \in call'[q].todo
    BY <1>1, <1>3, <1>6 DEF ListedUnlessRaced, In, Carrying
  <2>1. \/ j \in members[t] \/ <<data[j].resp, t>> \in raced
        \/ \E q \in Threads : /\ call[q].op = "set" /\ call[q].resp = data[j].resp
                              /\ t \in call[q].todo
    BY DEF ListedUnlessRaced, In
  <2> QED BY <1>1, <1>4, <2>1 DEF In
<1>13. SurvivorsRaced' /\ ClearLeavesNothingOld'
  BY <1>1 DEF SurvivorsRaced, ClearLeavesNothingOld
<1>14. LeaseOwnUnlessExposed'
  <2> SUFFICES ASSUME NEW j \in Keys, Present(j)
               PROVE  data'[j].lease = data[j].resp \/ data[j].resp \in exposed
    BY <1>1, <1>3, <1>6 DEF LeaseOwnUnlessExposed
  <2>1. CASE j = k
    BY <1>1, <1>3, <2>1 DEF ExpireKnows, k
  <2>2. CASE j # k
    BY <1>3, <2>2 DEF LeaseOwnUnlessExposed
  <2> QED BY <2>1, <2>2
<1> QED BY <1>5, <1>7, <1>8, <1>9, <1>10, <1>11, <1>12, <1>13, <1>14

-----------------------------------------------------------------------------
(* Set *)

\* Once SET has run, the response is on its way to every tag; who was beside
\* it is told.
LEMMA StoredStep ==
  ASSUME IInv, NEW p \in Threads, NEW k \in Keys, NEW o \in Nat, NEW c \in Call,
         SetData(k, o), call' = [call EXCEPT ![p] = c],
         UNCHANGED <<members, survivors, uncleared>>,
         built' \in Seq(Policy), Len(built') <= MaxSets,
         Len(built) <= Len(built'), \A i \in 1..Len(built) : built'[i] = built[i],
         o \in 1..Len(built'),
         c.op = "set", c.key = k, c.resp = o, c.todo = built'[o].tags, c.doomed = {},
         \/ o \notin 1..Len(built)
         \/ In(p, "set") /\ call[p].resp = o /\ call[p].key = k,
         In(p, "set") => call[p].resp = o
  PROVE  IInv'
<1> USE ConstantsAssumption DEF IInv
<1>1. call'[p] = c /\ \A q \in Threads \ {p} : call'[q] = call[q]
  BY DEF TypeOK
<1>2. /\ data' = [data EXCEPT ![k] = [resp |-> o, lease |-> o]]
      /\ raced' = raced \cup Interfered(o)
      /\ exposed' = IF AboutToExpire(k) THEN exposed \cup {o} ELSE exposed
  BY DEF SetData
<1>3. /\ Len(built) \in Nat /\ Len(built') \in Nat /\ o # 0
      /\ raced \subseteq raced' /\ exposed \subseteq exposed'
  BY <1>2 DEF TypeOK
<1>4. /\ data'[k].resp = o /\ data'[k].lease = o
      /\ \A j \in Keys \ {k} : data'[j] = data[j]
  BY <1>2 DEF TypeOK
<1>5. TypeOK'
  <2>1. data' \in [Keys -> [resp: 0..Len(built'), lease: 0..Len(built')]]
    BY <1>2, <1>3 DEF TypeOK
  <2>2. Interfered(o) \subseteq (1..Len(built')) \X Tags
    BY DEF Interfered, Knows, In
  <2>3. (/\ raced \cup survivors \subseteq (1..Len(built)) \X Tags
         /\ exposed \cup uncleared \subseteq 1..Len(built))'
    <3>1. 1..Len(built) \subseteq 1..Len(built')
      BY <1>3
    <3>2. /\ raced \cup survivors \subseteq (1..Len(built)) \X Tags
          /\ exposed \cup uncleared \subseteq 1..Len(built)
      BY DEF TypeOK
    <3> HIDE DEF IInv
    <3> QED BY <1>2, <2>2, <3>1, <3>2
  <2> QED BY <2>1, <2>3 DEF TypeOK
<1>6. ASSUME NEW q \in Threads
      PROVE  Knows(q)'
  <2>1. CASE q = p
    BY <1>1, <2>1 DEF Knows, In
  <2>2. CASE q # p
    <3>1. Knows(q) /\ call'[q] = call[q]
      BY <1>1, <2>2
    <3> HIDE DEF IInv
    <3> QED BY <1>3, <3>1 DEF Knows, In
  <2> QED BY <2>1, <2>2
<1>7. \A q \in Threads \ {p} : In(q, "set") => call[q].resp # o /\ call[q].resp \in 1..Len(built)
  BY DEF OneSet, Knows, In
<1>8. OneSet'
  <2> SUFFICES ASSUME NEW x \in Threads, call'[x].op = "set"
               PROVE  /\ \A q \in Threads \ {x} : call'[q].op = "set" => call'[q].resp # call'[x].resp
                      /\ \A j \in Keys : data'[j].resp = call'[x].resp => j = call'[x].key
    BY DEF OneSet, In
  <2>1. CASE x = p
    <3>1. \A j \in Keys \ {k} : data[j].resp # o
      BY DEF OneSet, TypeOK
    <3> QED BY <1>1, <1>4, <1>7, <2>1, <3>1 DEF In
  <2>2. CASE x # p
    BY <1>1, <1>4, <1>7, <2>2 DEF OneSet, In
  <2> QED BY <2>1, <2>2
<1>9. \A t \in Tags : \A j \in Keys \ {k} :
        j \in Carrying(t)' => j \in Carrying(t) /\ data'[j] = data[j]
  <2> SUFFICES ASSUME NEW t \in Tags, NEW j \in Keys \ {k}, j \in Carrying(t)'
               PROVE  j \in Carrying(t) /\ data'[j] = data[j]
    OBVIOUS
  <2>1. data[j].resp # NoResponse /\ t \in built'[data[j].resp].tags
    BY <1>4 DEF Carrying, Present
  <2>2. data[j].resp \in 1..Len(built)
    BY <2>1 DEF TypeOK, NoResponse
  <2> QED BY <1>4, <2>1, <2>2 DEF Carrying, Present
<1>10. InvalidateReaches'
  <2> SUFFICES ASSUME NEW q \in Threads, call'[q].op = "invalidate",
                      NEW j \in Carrying(call[q].tag)'
               PROVE  j \in call'[q].todo \/ <<data'[j].resp, call'[q].tag>> \in raced'
    BY DEF InvalidateReaches, In
  <2>1. q # p /\ call'[q] = call[q] /\ In(q, "invalidate") /\ call[q].tag \in Tags
    BY <1>1 DEF Knows, In
  <2>2. j \in Keys /\ call[q].tag \in built'[data'[j].resp].tags
    BY <2>1 DEF Carrying
  <2>3. CASE j = k
    BY <1>2, <1>4, <2>1, <2>2, <2>3 DEF Interfered
  <2>4. CASE j # k
    <3>1. j \in Carrying(call[q].tag) /\ data'[j] = data[j]
      BY <1>4, <1>9, <2>1, <2>2, <2>4 DEF Carrying, Present
    <3> QED BY <1>3, <2>1, <3>1 DEF InvalidateReaches
  <2> QED BY <2>3, <2>4
<1>11. ClearReaches'
  <2> SUFFICES ASSUME NEW q \in Threads, call'[q].op = "clear", NEW d \in call'[q].doomed
               PROVE  /\ \A x \in Threads : ~(call'[x].op = "set" /\ call'[x].resp = d)
                      /\ \A j \in Keys : data'[j].resp = d => j \in call'[q].todo
    BY DEF ClearReaches, In, Settled
  <2>1. q # p /\ call'[q] = call[q] /\ In(q, "clear") /\ d \in 1..Len(built)
    BY <1>1 DEF Knows, In
  <2>2. d # o /\ \A x \in Threads : ~(call[x].op = "set" /\ call[x].resp = d)
    BY <2>1 DEF ClearReaches, In, Settled
  <2>3. \A j \in Keys : data[j].resp = d => j \in call[q].todo
    BY <2>1 DEF ClearReaches
  <2> QED BY <1>1, <1>4, <2>1, <2>2, <2>3
<1>12. ExpireKnows'
  <2> SUFFICES ASSUME NEW q \in Threads, call'[q].op = "get",
                      data'[call'[q].key].resp # NoResponse
               PROVE  \/ data'[call'[q].key].resp = call'[q].resp
                      \/ data'[call'[q].key].resp \in exposed'
    BY DEF ExpireKnows, In, Present
  <2>1. q # p /\ call'[q] = call[q] /\ In(q, "get") /\ call[q].key \in Keys
    BY <1>1 DEF Knows, In
  <2>2. CASE call[q].key = k
    BY <1>2, <1>4, <2>1, <2>2 DEF AboutToExpire
  <2>3. CASE call[q].key # k
    BY <1>3, <1>4, <2>1, <2>3 DEF ExpireKnows, Present
  <2> QED BY <2>2, <2>3
<1>13. ListedUnlessRaced'
  <2> SUFFICES ASSUME NEW t \in Tags, NEW j \in Carrying(t)'
               PROVE  \/ j \in members[t] \/ <<data'[j].resp, t>> \in raced'
                      \/ \E q \in Threads : call'[q].op = "set" /\ call'[q].resp = data'[j].resp
                                            /\ t \in call'[q].todo
    BY DEF ListedUnlessRaced, In
  <2>1. CASE j = k
    BY <1>1, <1>4, <2>1 DEF Carrying
  <2>2. CASE j # k
    <3>1. j \in Keys /\ j \in Carrying(t) /\ data'[j] = data[j]
      BY <1>9, <2>2 DEF Carrying
    <3>2. data[j].resp \in 1..Len(built)
      BY <3>1 DEF TypeOK, Carrying, Present, NoResponse
    <3>3. data[j].resp # o
      BY <2>2, <3>1, <3>2 DEF OneSet
    <3>4. \/ j \in members[t] \/ <<data[j].resp, t>> \in raced
          \/ \E q \in Threads : /\ call[q].op = "set" /\ call[q].resp = data[j].resp
                                /\ t \in call[q].todo
      BY <3>1 DEF ListedUnlessRaced, In
    <3>5. In(p, "set") => call[p].resp # data[j].resp
      BY <3>3
    <3> QED BY <1>1, <1>3, <3>1, <3>4, <3>5 DEF In
  <2> QED BY <2>1, <2>2
<1>14. SurvivorsRaced' /\ ClearLeavesNothingOld'
  BY <1>3 DEF SurvivorsRaced, ClearLeavesNothingOld
<1>15. LeaseOwnUnlessExposed'
  BY <1>3, <1>4 DEF LeaseOwnUnlessExposed, Present
<1> QED BY <1>5, <1>6, <1>8, <1>10, <1>11, <1>12, <1>13, <1>14, <1>15

LEMMA SetBeginStep ==
  ASSUME IInv, NEW p \in Threads, NEW k \in Keys, NEW policy \in PoliciesOf[k],
         SetBegin(p, k, policy)
  PROVE  IInv'
<1> USE ConstantsAssumption
<1> DEFINE o == Len(built) + 1
           c == [Idle EXCEPT !.op = "set", !.key = k, !.resp = o, !.todo = policy.tags]
<1>1. /\ In(p, "idle") /\ o <= MaxSets /\ built' = Append(built, policy) /\ SetData(k, o)
      /\ call' = [call EXCEPT ![p] = c] /\ UNCHANGED <<members, survivors, uncleared>>
  BY DEF SetBegin
<1>2. policy \in Policy /\ built \in Seq(Policy) /\ o \in Nat
  BY DEF IInv, TypeOK
<1>3. /\ built' \in Seq(Policy) /\ Len(built') = o /\ built'[o] = policy
      /\ \A i \in 1..Len(built) : built'[i] = built[i]
  BY <1>1, <1>2, AppendProperties
<1>4. /\ c \in Call /\ c.op = "set" /\ c.key = k /\ c.resp = o
      /\ c.todo = policy.tags /\ c.doomed = {}
  <2>1. policy.tags \in SUBSET (Keys \cup Tags) /\ o \in 0..MaxSets
    BY <1>1, <1>2 DEF Policy
  <2> QED BY <2>1 DEF Idle, Call
<1>5. Len(built) <= Len(built') /\ o \in 1..Len(built') /\ o \notin 1..Len(built)
      /\ Len(built') <= MaxSets /\ o \in Nat
  BY <1>1, <1>2, <1>3
<1> HIDE DEF c, o
<1>6. /\ c.todo = built'[o].tags /\ (In(p, "set") => call[p].resp = o)
  BY <1>1, <1>3, <1>4 DEF In
<1>7. /\ SetData(k, o) /\ call' = [call EXCEPT ![p] = c]
      /\ UNCHANGED <<members, survivors, uncleared>>
  BY <1>1
<1> QED BY <1>3, <1>4, <1>5, <1>6, <1>7, StoredStep

LEMMA SetResendStep ==
  ASSUME IInv, NEW p \in Threads, SetResend(p)
  PROVE  IInv'
<1> DEFINE o == call[p].resp
           k == call[p].key
           c == [call[p] EXCEPT !.todo = built[o].tags]
<1>1. /\ In(p, "set") /\ SetData(k, o) /\ call' = [call EXCEPT ![p] = c]
      /\ UNCHANGED <<built, members, survivors, uncleared>>
  BY DEF SetResend, IInv, TypeOK, Call
<1>2. /\ k \in Keys /\ o \in 1..Len(built) /\ call[p] \in Call
      /\ built \in Seq(Policy) /\ Len(built) <= MaxSets /\ Len(built) \in Nat
  BY <1>1 DEF IInv, Knows, TypeOK
<1>3. built[o].tags \subseteq Tags /\ o \in Nat
  <2>1. built[o] \in Policy
    BY <1>2, ElementOfSeq
  <2> QED BY <1>2, <2>1 DEF Policy
<1>4. call[p].doomed = {}
  BY <1>1 DEF IInv, Knows
<1>5. /\ c \in Call /\ c.op = "set" /\ c.key = k /\ c.resp = o
      /\ c.todo = built[o].tags /\ c.doomed = {}
  BY <1>1, <1>2, <1>3, <1>4 DEF Call, In
<1>6. /\ built' \in Seq(Policy) /\ Len(built') <= MaxSets /\ Len(built) <= Len(built')
      /\ \A i \in 1..Len(built) : built'[i] = built[i]
      /\ o \in 1..Len(built') /\ c.todo = built'[o].tags
      /\ call[p].resp = o /\ call[p].key = k
  BY <1>1, <1>2, <1>5
<1> HIDE DEF c, o, k
<1> QED BY <1>1, <1>2, <1>3, <1>5, <1>6, StoredStep

\* SADD: one tag less to do, and the key is listed under it.
LEMMA SetTagStep ==
  ASSUME IInv, NEW p \in Threads, NEW t \in Tags, SetTag(p, t)
  PROVE  IInv'
<1> USE DEF IInv
<1> DEFINE c == [call[p] EXCEPT !.todo = @ \ {t}]
<1>1. /\ In(p, "set") /\ t \in call[p].todo /\ call' = [call EXCEPT ![p] = c]
      /\ members' = [members EXCEPT ![t] = @ \cup {call[p].key}]
      /\ UNCHANGED <<built, data, raced, exposed, survivors, uncleared>>
  BY DEF SetTag, TypeOK, Call, histVars
<1>2. call[p] \in Call /\ call[p].key \in Keys
  BY <1>1 DEF TypeOK, Knows
<1>3. /\ c \in Call /\ c.op = "set" /\ c.key = call[p].key /\ c.resp = call[p].resp
      /\ c.doomed = call[p].doomed /\ c.todo = call[p].todo \ {t}
  BY <1>1, <1>2 DEF Call, In
<1> HIDE DEF c
<1>4. /\ call'[p] = c /\ \A q \in Threads \ {p} : call'[q] = call[q]
      /\ members'[t] = members[t] \cup {call[p].key}
      /\ \A u \in Tags \ {t} : members'[u] = members[u]
  BY <1>1 DEF TypeOK
<1>5. TypeOK'
  BY <1>1, <1>2, <1>3 DEF TypeOK
<1>6. ASSUME NEW q \in Threads
      PROVE  Knows(q)'
  BY <1>1, <1>3, <1>4 DEF Knows, In
<1>7. OneSet'
  BY <1>1, <1>3, <1>4 DEF OneSet, In
<1>8. InvalidateReaches'
  <2> SUFFICES ASSUME NEW q \in Threads, call'[q].op = "invalidate",
                      NEW j \in Carrying(call[q].tag)'
               PROVE  j \in call'[q].todo \/ <<data'[j].resp, call'[q].tag>> \in raced'
    BY DEF InvalidateReaches, In
  <2>1. call'[q] = call[q]
    BY <1>3, <1>4
  <2>2. j \in Carrying(call[q].tag)
    BY <1>1, <2>1 DEF Carrying, Present
  <2> QED BY <1>1, <2>1, <2>2 DEF InvalidateReaches, In
<1>9. ClearReaches'
  BY <1>1, <1>3, <1>4 DEF ClearReaches, Settled, In
<1>10. ExpireKnows'
  BY <1>1, <1>3, <1>4 DEF ExpireKnows, Present, In
<1>11. ListedUnlessRaced'
  <2> SUFFICES ASSUME NEW u \in Tags, NEW j \in Carrying(u)
               PROVE  \/ j \in members'[u] \/ <<data[j].resp, u>> \in raced
                      \/ \E q \in Threads : call'[q].op = "set" /\ call'[q].resp = data[j].resp
                                            /\ u \in call'[q].todo
    BY <1>1 DEF ListedUnlessRaced, In, Carrying, Present
  <2>1. \/ j \in members[u] \/ <<data[j].resp, u>> \in raced
        \/ \E q \in Threads : /\ call[q].op = "set" /\ call[q].resp = data[j].resp
                              /\ u \in call[q].todo
    BY DEF ListedUnlessRaced, In
  <2>2. CASE j \in members[u] \/ <<data[j].resp, u>> \in raced
    BY <1>4, <2>2
  <2>3. ASSUME NEW q \in Threads, call[q].op = "set", call[q].resp = data[j].resp,
               u \in call[q].todo
        PROVE  \/ j \in members'[u]
               \/ call'[q].op = "set" /\ call'[q].resp = data[j].resp /\ u \in call'[q].todo
    <3>1. CASE q # p \/ u # t
      BY <1>3, <1>4, <2>3, <3>1
    <3>2. CASE q = p /\ u = t
      <4>1. j = call[p].key
        BY <2>3, <3>2 DEF OneSet, In, Carrying
      <4> QED BY <1>4, <3>2, <4>1
    <3> QED BY <3>1, <3>2
  <2> QED BY <2>1, <2>2, <2>3
<1>12. SurvivorsRaced' /\ ClearLeavesNothingOld' /\ LeaseOwnUnlessExposed'
  BY <1>1 DEF SurvivorsRaced, ClearLeavesNothingOld, LeaseOwnUnlessExposed, Present
<1> QED BY <1>5, <1>6, <1>7, <1>8, <1>9, <1>10, <1>11, <1>12

-----------------------------------------------------------------------------
(* Steps that end a call, and those that begin or repeat one *)

\* A call that is over and has lost no listing.
LEMMA OverStep ==
  ASSUME IInv, NEW p \in Threads, call' = [call EXCEPT ![p] = Idle],
         UNCHANGED <<built, data, members, exposed>>,
         raced \subseteq raced', raced' \subseteq (1..Len(built)) \X Tags,
         survivors' \subseteq raced', uncleared' = {},
         In(p, "set") => \A t \in call[p].todo : <<call[p].resp, t>> \in raced'
  PROVE  IInv'
<1>1. Idle \in Call /\ Idle.op = "idle" /\ Idle.doomed = {}
  BY ConstantsAssumption DEF Idle, Call, NoResponse
<1> QED BY <1>1, CallStep

LEMMA SetReplyStep ==
  ASSUME IInv, NEW p \in Threads, SetReply(p)
  PROVE  IInv'
<1>1. raced \subseteq (1..Len(built)) \X Tags /\ survivors \subseteq raced /\ uncleared = {}
  BY DEF IInv, TypeOK, SurvivorsRaced, ClearLeavesNothingOld
<1> QED BY <1>1, OverStep DEF SetReply, histVars

LEMMA FailStep ==
  ASSUME IInv, NEW p \in Threads, Fail(p)
  PROVE  IInv'
<1>1. raced \subseteq (1..Len(built)) \X Tags /\ survivors \subseteq raced /\ uncleared = {}
  BY DEF IInv, TypeOK, SurvivorsRaced, ClearLeavesNothingOld
<1>2. ASSUME In(p, "set")
      PROVE  /\ call[p].resp \in 1..Len(built)
             /\ \A t \in call[p].todo : t \in Tags
  <2>1. /\ call[p].resp \in 1..Len(built) /\ built \in Seq(Policy)
        /\ call[p].todo \subseteq built[call[p].resp].tags
    BY <1>2 DEF IInv, Knows, TypeOK
  <2>2. built[call[p].resp] \in Policy
    BY <2>1, ElementOfSeq
  <2> QED BY <2>1, <2>2 DEF Policy
<1> DEFINE R == IF In(p, "set") THEN {<<call[p].resp, t>> : t \in call[p].todo} ELSE {}
<1>3. R \subseteq (1..Len(built)) \X Tags
  BY <1>2
<1>4. /\ raced' = raced \cup R /\ call' = [call EXCEPT ![p] = Idle]
      /\ UNCHANGED <<built, data, members, exposed, survivors, uncleared>>
  BY DEF Fail
<1>5. In(p, "set") => \A t \in call[p].todo : <<call[p].resp, t>> \in R
  OBVIOUS
<1> HIDE DEF R
<1> QED BY <1>1, <1>3, <1>4, <1>5, OverStep

\* What an invalidation found and leaves behind had its listing at risk.
LEMMA InvalidateReplyStep ==
  ASSUME IInv, NEW p \in Threads, InvalidateReply(p)
  PROVE  IInv'
<1> USE DEF IInv
<1>1. /\ In(p, "invalidate") /\ call[p].todo = {} /\ call' = [call EXCEPT ![p] = Idle]
      /\ survivors' = survivors \cup {<<o, call[p].tag>> : o \in {o \in call[p].doomed : Stored(o)}}
      /\ UNCHANGED <<built, data, members, raced, exposed, uncleared>>
  BY DEF InvalidateReply
<1>2. raced \subseteq (1..Len(built)) \X Tags /\ survivors \subseteq raced /\ uncleared = {}
  BY DEF TypeOK, SurvivorsRaced, ClearLeavesNothingOld
<1>3. ASSUME NEW o \in call[p].doomed, Stored(o)
      PROVE  <<o, call[p].tag>> \in raced
  <2>1. PICK k \in Keys : data[k].resp = o
    BY <1>3 DEF Stored
  <2>2. o # NoResponse /\ call[p].tag \in built[o].tags
    BY <1>1 DEF Knows, NoResponse
  <2>3. k \in Carrying(call[p].tag)
    BY <2>1, <2>2 DEF Carrying, Present
  <2> QED BY <1>1, <2>1, <2>3 DEF InvalidateReaches
<1>4. survivors' \subseteq raced
  BY <1>1, <1>2, <1>3
<1> HIDE DEF IInv
<1> QED BY <1>1, <1>2, <1>4, OverStep DEF In

\* Nothing that a Clear found and has not skipped is left at its end.
LEMMA ClearReplyStep ==
  ASSUME IInv, NEW p \in Threads, ClearReply(p)
  PROVE  IInv'
<1> USE DEF IInv
<1>1. /\ In(p, "clear") /\ call[p].todo = {} /\ call' = [call EXCEPT ![p] = Idle]
      /\ uncleared' = uncleared \cup {o \in call[p].doomed : Stored(o)}
      /\ UNCHANGED <<built, data, members, raced, exposed, survivors>>
  BY DEF ClearReply
<1>2. raced \subseteq (1..Len(built)) \X Tags /\ survivors \subseteq raced /\ uncleared = {}
  BY DEF TypeOK, SurvivorsRaced, ClearLeavesNothingOld
<1>3. ASSUME NEW o \in call[p].doomed
      PROVE  ~Stored(o)
  BY <1>1 DEF ClearReaches, Stored
<1>4. uncleared' = {}
  BY <1>1, <1>2, <1>3
<1> HIDE DEF IInv
<1> QED BY <1>1, <1>2, <1>4, OverStep DEF In

\* Whoever carries the tag is listed, or is a Set's that has yet to list it.
LEMMA InvalidateBeginStep ==
  ASSUME IInv, NEW p \in Threads, NEW t \in Tags, InvalidateBegin(p, t)
  PROVE  IInv'
<1> USE ConstantsAssumption DEF IInv
<1> DEFINE D == {o \in {data[k].resp : k \in Carrying(t)} : Settled(o)}
           R == {<<call[q].resp, t>> : q \in {q \in Threads : In(q, "set") /\ t \in call[q].todo}}
           c == [Idle EXCEPT !.op = "invalidate", !.tag = t, !.listed = members[t],
                             !.todo = members[t] \cup {t}, !.doomed = D]
<1>1. /\ In(p, "idle") /\ call' = [call EXCEPT ![p] = c] /\ raced' = raced \cup R
      /\ UNCHANGED <<built, data, members, exposed, survivors, uncleared>>
  BY DEF InvalidateBegin
<1>2. /\ raced \subseteq (1..Len(built)) \X Tags /\ survivors \subseteq raced /\ uncleared = {}
      /\ members[t] \subseteq Keys /\ Len(built) \in Nat /\ Len(built) <= MaxSets
  BY DEF TypeOK, SurvivorsRaced, ClearLeavesNothingOld
<1>3. R \subseteq (1..Len(built)) \X Tags
  BY DEF Knows
<1>4. D \subseteq 1..Len(built) /\ \A o \in D : t \in built[o].tags
  BY DEF Carrying, Present, TypeOK, NoResponse
<1>5. \A k \in Carrying(t) : k \in members[t] \/ <<data[k].resp, t>> \in raced'
  BY <1>1 DEF ListedUnlessRaced
<1> HIDE DEF D, R, IInv
<1>6. /\ c \in Call /\ c.op = "invalidate" /\ c.tag = t /\ c.listed = members[t]
      /\ c.todo = members[t] \cup {t} /\ c.doomed = D
  <2>1. /\ members[t] \in SUBSET Keys /\ members[t] \cup {t} \in SUBSET (Keys \cup Tags)
        /\ D \in SUBSET (1..MaxSets) /\ 0 \in 0..MaxSets
    BY <1>2, <1>4
  <2> QED BY <2>1 DEF Idle, Call, NoResponse
<1> HIDE DEF c
<1> QED BY <1>1, <1>2, <1>3, <1>4, <1>5, <1>6, CallStep DEF In

LEMMA InvalidateResendStep ==
  ASSUME IInv, NEW p \in Threads, InvalidateResend(p)
  PROVE  IInv'
<1> DEFINE c == [call[p] EXCEPT !.todo = call[p].listed \cup {call[p].tag}]
<1>1. /\ In(p, "invalidate") /\ call' = [call EXCEPT ![p] = c]
      /\ UNCHANGED <<built, data, members, raced, exposed, survivors, uncleared>>
  BY DEF InvalidateResend, IInv, TypeOK, Call, histVars
<1>2. /\ raced \subseteq (1..Len(built)) \X Tags /\ survivors \subseteq raced /\ uncleared = {}
      /\ call[p] \in Call /\ Knows(p)
  BY DEF IInv, TypeOK, SurvivorsRaced, ClearLeavesNothingOld
<1>3. /\ c \in Call /\ c.op = "invalidate" /\ c.tag = call[p].tag
      /\ c.listed = call[p].listed /\ c.doomed = call[p].doomed
      /\ c.todo = call[p].listed \cup {call[p].tag}
  BY <1>1, <1>2 DEF Call, Knows, In
<1>4. \A k \in Carrying(call[p].tag) :
        k \in call[p].todo \/ <<data[k].resp, call[p].tag>> \in raced
  BY <1>1 DEF IInv, InvalidateReaches
<1> HIDE DEF c
<1> QED BY <1>1, <1>2, <1>3, <1>4, CallStep DEF In, Knows

LEMMA ClearBeginStep ==
  ASSUME IInv, NEW p \in Threads, ClearBegin(p)
  PROVE  IInv'
<1> USE ConstantsAssumption
<1> DEFINE K == {k \in Keys : Present(k)}
           T == {t \in Tags : members[t] # {}}
           D == {o \in {data[k].resp : k \in K} : Settled(o)}
           c == [Idle EXCEPT !.op = "clear", !.todo = K \cup T, !.doomed = D]
<1>1. /\ In(p, "idle") /\ call' = [call EXCEPT ![p] = c]
      /\ UNCHANGED <<built, data, members, raced, exposed, survivors, uncleared>>
  BY DEF ClearBegin, histVars
<1>2. /\ raced \subseteq (1..Len(built)) \X Tags /\ survivors \subseteq raced /\ uncleared = {}
      /\ Len(built) \in Nat /\ Len(built) <= MaxSets
  BY DEF IInv, TypeOK, SurvivorsRaced, ClearLeavesNothingOld
<1>3. D \subseteq 1..Len(built)
  BY DEF IInv, Present, TypeOK, NoResponse
<1>4. \A o \in D : Settled(o) /\ \A k \in Keys : data[k].resp = o => k \in K
  BY <1>3 DEF Present, NoResponse
<1> HIDE DEF D, K, T
<1>5. c \in Call /\ c.op = "clear" /\ c.todo = K \cup T /\ c.doomed = D
  <2>1. K \cup T \in SUBSET (Keys \cup Tags)
    BY DEF K, T
  <2>2. D \in SUBSET (1..MaxSets) /\ 0 \in 0..MaxSets
    BY <1>2, <1>3
  <2> QED BY <2>1, <2>2 DEF Idle, Call, NoResponse
<1> HIDE DEF c
<1> QED BY <1>1, <1>2, <1>3, <1>4, <1>5, CallStep DEF In

LEMMA ClearSkipStep ==
  ASSUME IInv, NEW p \in Threads, ClearSkip(p)
  PROVE  IInv'
<1>1. PICK batch \in SUBSET call[p].todo \ {{}} :
        call' = [call EXCEPT ![p].todo = @ \ batch, ![p].doomed = {}]
  BY DEF ClearSkip
<1> DEFINE c == [call[p] EXCEPT !.todo = @ \ batch, !.doomed = {}]
<1>2. /\ In(p, "clear") /\ call' = [call EXCEPT ![p] = c]
      /\ UNCHANGED <<built, data, members, raced, exposed, survivors, uncleared>>
  BY <1>1 DEF ClearSkip, IInv, TypeOK, Call, histVars
<1>3. /\ raced \subseteq (1..Len(built)) \X Tags /\ survivors \subseteq raced /\ uncleared = {}
      /\ call[p] \in Call
  BY DEF IInv, TypeOK, SurvivorsRaced, ClearLeavesNothingOld
<1>4. c \in Call /\ c.op = "clear" /\ c.doomed = {}
  BY <1>2, <1>3 DEF Call, In
<1> HIDE DEF c
<1> QED BY <1>2, <1>3, <1>4, CallStep DEF In

-----------------------------------------------------------------------------
(* The commands that delete keys, and the expiry of one *)

\* Crossing keys off the lists of the Clears leaves every call as it was else.
LEMMA UnscannedCalls ==
  ASSUME TypeOK, NEW X \in SUBSET (Keys \cup Tags), NEW c, c = Unscanned(X)
  PROVE  CrossedOff(c, X)
<1>1. ASSUME NEW q \in Threads
      PROVE  [call[q] EXCEPT !.todo = @ \ X] \in Call
  BY DEF TypeOK, Call
<1>2. c \in [Threads -> Call]
  BY <1>1 DEF TypeOK, Unscanned
<1>3. ASSUME NEW q \in Threads
      PROVE  /\ c[q].op = call[q].op /\ c[q].key = call[q].key
             /\ c[q].resp = call[q].resp /\ c[q].tag = call[q].tag
             /\ c[q].listed = call[q].listed /\ c[q].doomed = call[q].doomed
             /\ c[q].todo \subseteq call[q].todo
             /\ call[q].op = "set" => c[q].todo = call[q].todo
             /\ call[q].todo \ X \subseteq c[q].todo
  <2>1. call[q] \in Call
    BY DEF TypeOK
  <2>2. CASE call[q].op = "clear"
    <3>1. c[q] = [call[q] EXCEPT !.todo = @ \ X]
      BY <2>2 DEF Unscanned, In
    <3> QED BY <2>1, <2>2, <3>1 DEF Call
  <2>3. CASE call[q].op # "clear"
    BY <2>3 DEF Unscanned, In
  <2> QED BY <2>2, <2>3
<1> QED BY <1>2, <1>3 DEF CrossedOff

\* The same for a goroutine whose own list loses X beside.
LEMMA CrossedCalls ==
  ASSUME TypeOK, NEW X \in SUBSET (Keys \cup Tags), NEW p \in Threads, In(p, "invalidate"),
         NEW c, c = [Unscanned(X) EXCEPT ![p].todo = @ \ X]
  PROVE  CrossedOff(c, X)
<1> DEFINE u == Unscanned(X)
<1>1. /\ u \in [Threads -> Call]
      /\ \A q \in Threads :
           /\ u[q].op = call[q].op /\ u[q].key = call[q].key
           /\ u[q].resp = call[q].resp /\ u[q].tag = call[q].tag
           /\ u[q].listed = call[q].listed /\ u[q].doomed = call[q].doomed
           /\ u[q].todo \subseteq call[q].todo
           /\ call[q].op = "set" => u[q].todo = call[q].todo
           /\ call[q].todo \ X \subseteq u[q].todo
  BY UnscannedCalls DEF CrossedOff
<1>2. c = [u EXCEPT ![p].todo = u[p].todo \ X]
  OBVIOUS
<1> HIDE DEF u
<1>3. [u[p] EXCEPT !.todo = u[p].todo \ X] \in Call /\ u[p] \in Call
  BY <1>1 DEF Call
<1>4. /\ c \in [Threads -> Call]
      /\ c[p] = [u[p] EXCEPT !.todo = u[p].todo \ X]
      /\ \A q \in Threads \ {p} : c[q] = u[q]
  BY <1>1, <1>2, <1>3
<1>5. /\ c[p].op = call[p].op /\ c[p].key = call[p].key
      /\ c[p].resp = call[p].resp /\ c[p].tag = call[p].tag
      /\ c[p].listed = call[p].listed /\ c[p].doomed = call[p].doomed
      /\ c[p].todo = u[p].todo \ X
  BY <1>1, <1>3, <1>4 DEF Call
<1> QED BY <1>1, <1>4, <1>5 DEF In, CrossedOff

\* A command that deletes one cache key.
LEMMA KeyGoesStep ==
  ASSUME IInv, NEW k \in Keys, Del({k}), UNCHANGED <<built, histVars>>,
         \/ call' = Unscanned({k})
         \/ \E p \in Threads : In(p, "invalidate") /\
               call' = [Unscanned({k}) EXCEPT ![p].todo = @ \ {k}]
  PROVE  IInv'
<1>1. TypeOK /\ {k} \in SUBSET (Keys \cup Tags) /\ k \notin Tags
  BY ConstantsAssumption DEF IInv
<1>2. raced \subseteq (1..Len(built)) \X Tags /\ raced' = raced
  BY <1>1 DEF TypeOK, histVars
<1>3. CASE call' = Unscanned({k})
  <2>1. CrossedOff(call', {k})
    BY <1>1, <1>3, UnscannedCalls
  <2> QED BY <1>1, <1>2, <2>1, DelStep DEF histVars
<1>4. CASE \E p \in Threads : In(p, "invalidate") /\
             call' = [Unscanned({k}) EXCEPT ![p].todo = @ \ {k}]
  <2>1. PICK p \in Threads : In(p, "invalidate") /\
             call' = [Unscanned({k}) EXCEPT ![p].todo = @ \ {k}]
    BY <1>4
  <2>2. CrossedOff(call', {k})
    BY <1>1, <2>1, CrossedCalls
  <2> QED BY <1>1, <1>2, <2>2, DelStep DEF histVars
<1> QED BY <1>3, <1>4

\* The last DEL of an invalidation drops only listings that were at risk.
LEMMA InvalidateDropStep ==
  ASSUME IInv, NEW p \in Threads, InvalidateDrop(p)
  PROVE  IInv'
<1> DEFINE t == call[p].tag
<1>1. /\ In(p, "invalidate") /\ call[p].todo = {t} /\ Del({t})
      /\ UNCHANGED <<built, raced, exposed, survivors, uncleared>>
      /\ call' = [Unscanned({t}) EXCEPT ![p].todo = {}]
  BY DEF InvalidateDrop, histVars
<1>2. /\ TypeOK /\ t \in Tags /\ {t} \in SUBSET (Keys \cup Tags)
      /\ raced \subseteq (1..Len(built)) \X Tags
  BY <1>1 DEF IInv, Knows, TypeOK
<1>3. \A k \in Carrying(t) : <<data[k].resp, t>> \in raced
  BY <1>1, <1>2, ConstantsAssumption DEF IInv, InvalidateReaches, Carrying
<1>4. Unscanned({t})[p].todo = {t}
  BY <1>1, <1>2 DEF Unscanned, In
<1>5. call' = [Unscanned({t}) EXCEPT ![p].todo = @ \ {t}]
  BY <1>1, <1>4
<1> HIDE DEF t
<1>6. CrossedOff(call', {t})
  BY <1>1, <1>2, <1>5, CrossedCalls
<1> QED BY <1>1, <1>2, <1>3, <1>6, DelStep

LEMMA ClearDeleteTagStep ==
  ASSUME IInv, NEW p \in Threads, NEW t \in Tags, ClearDeleteTag(p, t)
  PROVE  IInv'
<1>1. /\ Del({t}) /\ call' = Unscanned({t})
      /\ raced' = raced \cup {<<data[k].resp, t>> : k \in Carrying(t)}
      /\ UNCHANGED <<built, exposed, survivors, uncleared>>
  BY DEF ClearDeleteTag
<1>2. /\ TypeOK /\ {t} \in SUBSET (Keys \cup Tags) /\ raced \subseteq (1..Len(built)) \X Tags
      /\ {<<data[k].resp, t>> : k \in Carrying(t)} \subseteq (1..Len(built)) \X Tags
  BY DEF IInv, TypeOK, Carrying, Present, NoResponse
<1>3. raced \subseteq raced' /\ raced' \subseteq (1..Len(built)) \X Tags
      /\ \A k \in Carrying(t) : <<data[k].resp, t>> \in raced'
  BY <1>1, <1>2
<1>4. CrossedOff(call', {t})
  BY <1>1, <1>2, UnscannedCalls
<1> QED BY <1>1, <1>2, <1>3, <1>4, DelStep

-----------------------------------------------------------------------------
LEMMA NextIInv == IInv /\ [Next]_vars => IInv'
<1> SUFFICES ASSUME IInv, [Next]_vars PROVE IInv'
  OBVIOUS
<1>1. ASSUME NEW p \in Threads, NEW k \in Keys, GetSliding(p, k) PROVE IInv'
  BY <1>1, GetSlidingStep
<1>2. ASSUME NEW p \in Threads, NEW k \in Keys, NEW policy \in PoliciesOf[k],
             SetBegin(p, k, policy)
      PROVE  IInv'
  BY <1>2, SetBeginStep
<1>3. ASSUME NEW p \in Threads, NEW k \in Keys,
             Delete(p, k) \/ InvalidateDelete(p, k) \/ ClearDelete(p, k) \/ Lapse(k)
      PROVE  IInv'
  BY <1>3, KeyGoesStep DEF Delete, InvalidateDelete, ClearDelete, Lapse
<1>4. ASSUME NEW p \in Threads, NEW t \in Tags, SetTag(p, t) PROVE IInv'
  BY <1>4, SetTagStep
<1>5. ASSUME NEW p \in Threads, NEW t \in Tags, InvalidateBegin(p, t) PROVE IInv'
  BY <1>5, InvalidateBeginStep
<1>6. ASSUME NEW p \in Threads, NEW t \in Tags, ClearDeleteTag(p, t) PROVE IInv'
  BY <1>6, ClearDeleteTagStep
<1>7. ASSUME NEW p \in Threads, GetExpire(p) \/ SetResend(p) \/ SetReply(p) \/ Fail(p)
      PROVE  IInv'
  BY <1>7, GetExpireStep, SetResendStep, SetReplyStep, FailStep
<1>8. ASSUME NEW p \in Threads, InvalidateDrop(p) \/ InvalidateResend(p) \/ InvalidateReply(p)
      PROVE  IInv'
  BY <1>8, InvalidateDropStep, InvalidateResendStep, InvalidateReplyStep
<1>9. ASSUME NEW p \in Threads, ClearBegin(p) \/ ClearSkip(p) \/ ClearReply(p)
      PROVE  IInv'
  BY <1>9, ClearBeginStep, ClearSkipStep, ClearReplyStep
<1>10. ASSUME NEW k \in Keys, Lapse(k) PROVE IInv'
  BY <1>10, KeyGoesStep DEF Lapse
<1>11. ASSUME UNCHANGED vars PROVE IInv'
  <2>1. UNCHANGED <<built, data, members, call, raced, exposed, survivors, uncleared>>
    BY <1>11 DEF vars, histVars
  <2>2. TypeOK' /\ \A p \in Threads : Knows(p)'
    BY <2>1 DEF IInv, TypeOK, Knows, In
  <2>3. OneSet' /\ InvalidateReaches' /\ ClearReaches' /\ ExpireKnows'
    BY <2>1 DEF IInv, OneSet, InvalidateReaches, ClearReaches, ExpireKnows, In, Carrying,
                Present, Settled
  <2>4. ListedUnlessRaced' /\ SurvivorsRaced' /\ ClearLeavesNothingOld' /\ LeaseOwnUnlessExposed'
    BY <2>1 DEF IInv, ListedUnlessRaced, SurvivorsRaced, ClearLeavesNothingOld,
                LeaseOwnUnlessExposed, In, Carrying, Present
  <2> QED BY <2>2, <2>3, <2>4 DEF IInv
<1> QED
  BY <1>1, <1>2, <1>3, <1>4, <1>5, <1>6, <1>7, <1>8, <1>9, <1>10, <1>11 DEF Next

LEMMA SpecIInv == Spec => []IInv
  BY InitIInv, NextIInv, PTL DEF Spec

\* The keys of Redis, the calls under way and the histories stay in range.
THEOREM TypeCorrect == Spec => []TypeOK
  BY SpecIInv, PTL DEF IInv

\* A stored response is listed under each of its tags, or about to be, unless an
\* invalidation of that tag ran beside its Set, a Clear dropped the tag or its
\* Set failed before listing it there (redis.go:90): what a later invalidation
\* needs to find it.
THEOREM ListingsKept == Spec => []ListedUnlessRaced
  BY SpecIInv, PTL DEF IInv

\* An invalidation of a tag that succeeds leaves no response behind that was
\* stored before it began, save one whose listing under that very tag was put at
\* risk: an invalidation of the tag, this or an earlier one, ran beside its
\* Set, a Clear dropped the tag, or its Set failed before listing it there.  So
\* it is whatever commands interleave, break or are sent twice (redis.go:119).
THEOREM InvalidationsReach == Spec => []SurvivorsRaced
  BY SpecIInv, PTL DEF IInv

\* A Clear none of whose batches failed leaves nothing it found.
THEOREM ClearsReach == Spec => []ClearLeavesNothingOld
  BY SpecIInv, PTL DEF IInv

\* A key has the TTL of another response only after a Get that had found that
\* other one (redis.go:64).
THEOREM LeasesOwn == Spec => []LeaseOwnUnlessExposed
  BY SpecIInv, PTL DEF IInv
=============================================================================
