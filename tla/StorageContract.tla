---------------------------- MODULE StorageContract ----------------------------
(***************************************************************************)
(* What outputcache.Storage promises the output cache, whatever the        *)
(* backend: Set makes a response findable under its key, Get hands out     *)
(* what the key leads to or nothing, entries may vanish at any time        *)
(* (expiry, Delete, Clear), and once InvalidateTags has run no response    *)
(* that was stored under one of the tags can be found again.               *)
(***************************************************************************)
EXTENDS Integers, Sequences

CONSTANTS Keys, Tags, Threads, NoEntry

VARIABLES
  label,        \* the tags of every response built; its index names it
  pending,      \* responses built and not stored yet
  stored,       \* key -> response, or NoEntry
  held,         \* the response a Get in progress has found
  invalidated   \* responses a tag invalidation has removed

vars == <<label, pending, stored, held, invalidated>>

Init ==
  /\ label = << >>
  /\ pending = {}
  /\ stored = [k \in Keys |-> NoEntry]
  /\ held = [p \in Threads |-> NoEntry]
  /\ invalidated = {}

Carrying(T) == {k \in Keys : stored[k] # NoEntry /\ label[stored[k]] \cap T # {}}

\* The keys in K lose their responses.
Lose(K) == stored' = [k \in Keys |-> IF k \in K THEN NoEntry ELSE stored[k]]

Build(T) ==
  /\ label' = Append(label, T)
  /\ pending' = pending \cup {Len(label) + 1}
  /\ UNCHANGED <<stored, held, invalidated>>

Set(k, o) ==
  /\ o \in pending
  /\ pending' = pending \ {o}
  /\ stored' = [stored EXCEPT ![k] = o]
  /\ UNCHANGED <<label, held, invalidated>>

\* Get finds a response, and later returns it or reports a miss; a miss may
\* be the moment the backend forgets entries.
GetFinds(p, k) ==
  /\ held[p] = NoEntry
  /\ stored[k] # NoEntry
  /\ held' = [held EXCEPT ![p] = stored[k]]
  /\ UNCHANGED <<label, pending, stored, invalidated>>

GetReturns(p, K) ==
  /\ held[p] # NoEntry
  /\ held' = [held EXCEPT ![p] = NoEntry]
  /\ Lose(K)
  /\ UNCHANGED <<label, pending, invalidated>>

\* Delete, Clear and the backend's own expiry.
Forget(K) ==
  /\ Lose(K)
  /\ UNCHANGED <<label, pending, held, invalidated>>

\* InvalidateTag is the case of one tag.  More than the tagged entries may go.
InvalidateTags(T, K) ==
  /\ Carrying(T) \subseteq K
  /\ Lose(K)
  /\ invalidated' = invalidated \cup {stored[k] : k \in Carrying(T)}
  /\ UNCHANGED <<label, pending, held>>

Next ==
  \/ \E T \in SUBSET Tags : Build(T)
  \/ \E k \in Keys, o \in pending : Set(k, o)
  \/ \E p \in Threads : \/ \E k \in Keys : GetFinds(p, k)
                        \/ \E K \in SUBSET Keys : GetReturns(p, K)
  \/ \E K \in SUBSET Keys : Forget(K)
  \/ \E T \in SUBSET Tags, K \in SUBSET Keys : InvalidateTags(T, K)

Spec == Init /\ [][Next]_vars
=============================================================================
