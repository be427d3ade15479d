------------------------------- MODULE JsonValues -------------------------------
(***************************************************************************)
(* What Go types keep of JSON values: encoding/json, and the types the     *)
(* generated client declares.                                              *)
(*                                                                         *)
(* A value is one of [str |-> s], [num |-> s], [bool |-> s], [arr |-> seq],*)
(* [obj |-> function], [null |-> TRUE]; an object's null members are left  *)
(* out, a missing one being as good.  A struct is encoded without its      *)
(* omitted empty fields.  types holds the declarations of named types.     *)
(***************************************************************************)
EXTENDS ClientGen

Null == [null |-> TRUE]
Broken == [broken |-> TRUE]

\* The kind of value a scalar type is encoded as.
ScalarKind(t) == CASE t.of = "string" -> "str" [] t.of = "bool" -> "bool" [] OTHER -> "num"

\* The fields as encoding/json has them: an embedded struct's are its owner's.
Flat(fields) ==
  FlattenSeq([i \in DOMAIN fields |-> IF fields[i].embedded THEN fields[i].type.fields ELSE <<fields[i]>>])

\* omitempty: of a pointer, only nil is empty.
IsEmpty(t, j) == t.k # "ptr" /\ j \in {Null, [str |-> ""], [num |-> "0"], [bool |-> "false"], [arr |-> << >>]}

RECURSIVE ZeroJSON(_, _)
ZeroJSON(types, t) ==
  CASE t.k = "scalar" -> (CASE ScalarKind(t) = "str"  -> [str |-> ""]
                            [] ScalarKind(t) = "bool" -> [bool |-> "false"]
                            [] OTHER                  -> [num |-> "0"])
    [] t.k = "named"  -> ZeroJSON(types, types[t.name])
    [] t.k = "struct" ->
         LET fields == Flat(t.fields)
             zero(n) == ZeroJSON(types, FieldNamed(fields, n).type)
             kept(n) == zero(n) # Null /\ ~(FieldNamed(fields, n).omit /\ IsEmpty(FieldNamed(fields, n).type, zero(n)))
         IN  [obj |-> [n \in {m \in Names(fields) : kept(m)} |-> zero(n)]]
    [] OTHER          -> Null

\* The tag of an object a union would read, "" when there is none.
TagOf(t, j) == IF t.prop \in DOMAIN j.obj THEN j.obj[t.prop].str ELSE ""

\* The value a variable of the type encodes to once it has decoded j, Broken
\* when it cannot.  Members it does not know are dropped; a union keeps the
\* bytes of a variant it does not know.
RECURSIVE Held(_, _, _)
Held(types, t, j) ==
  LET is(kind) == DOMAIN j = {kind} IN
  CASE t.k = "named" -> Held(types, types[t.name], j)
    [] t.k # "named" /\ j = Null -> ZeroJSON(types, t)
    [] t.k = "raw" /\ j # Null -> j
    [] t.k = "map" /\ j # Null -> IF is("obj") THEN j ELSE Broken
    [] t.k = "ptr" /\ j # Null -> Held(types, t.to, j)
    [] t.k = "scalar" /\ j # Null ->
         IF is(ScalarKind(t)) /\ (t.of = "int8" => j.num # "big") THEN j ELSE Broken
    [] t.k = "bytes" /\ j # Null -> IF is("str") \/ is("arr") THEN j ELSE Broken
    [] t.k = "slice" /\ j # Null ->
         IF ~is("arr") THEN Broken
         ELSE LET items == [i \in DOMAIN j.arr |-> Held(types, t.of, j.arr[i])]
              IN  IF \E i \in DOMAIN items : items[i] = Broken THEN Broken ELSE [arr |-> items]
    [] t.k = "union" /\ j # Null ->
         LET known == {i \in DOMAIN t.variants : is("obj") /\ t.variants[i].value = TagOf(t, j)}
         IN  CASE ~is("obj") -> Broken
               [] is("obj") /\ known = {} -> j
               [] OTHER -> Held(types, t.variants[Min(known)].type, j)
    [] t.k = "struct" /\ j # Null ->
         LET fields == Flat(t.fields)
             member(n) == IF is("obj") /\ n \in DOMAIN j.obj
                          THEN Held(types, FieldNamed(fields, n).type, j.obj[n])
                          ELSE ZeroJSON(types, FieldNamed(fields, n).type)
             kept(n) == member(n) # Null /\ ~(FieldNamed(fields, n).omit /\ IsEmpty(FieldNamed(fields, n).type, member(n)))
         IN  IF ~is("obj") \/ \E n \in Names(fields) : member(n) = Broken THEN Broken
             ELSE [obj |-> [n \in {m \in Names(fields) : kept(m)} |-> member(n)]]

\* Values of a server's type, as JSON: what a handler may answer, or a caller
\* mean to send.
RECURSIVE JSONOf(_)
JSONOf(t) ==
  CASE t.k = "scalar" -> (CASE ScalarKind(t) = "str"  -> {[str |-> ""], [str |-> "x"]}
                            [] ScalarKind(t) = "bool" -> {[bool |-> "true"]}
                            [] OTHER                  -> {[num |-> n] : n \in Numbers})
    [] t.k = "ptr"    -> {Null} \cup JSONOf(t.to)
    [] t.k = "bytes"  -> {[str |-> "x"]}
    [] t.k = "slice"  -> {[arr |-> << >>]} \cup {[arr |-> <<j>>] : j \in JSONOf(t.of)}
    [] t.k = "union"  ->
         UNION {{[obj |-> [n \in DOMAIN j.obj \cup {t.prop} |->
                             IF n = t.prop THEN [str |-> t.variants[i].value] ELSE j.obj[n]]] :
                   j \in JSONOf(t.variants[i].type)} : i \in DOMAIN t.variants}
    [] t.k = "struct" ->
         LET fields == Flat(t.fields)
             all == UNION {JSONOf(fields[i].type) : i \in DOMAIN fields}
             members == {f \in [Names(fields) -> all] :
                           \A n \in Names(fields) : f[n] \in JSONOf(FieldNamed(fields, n).type)}
         IN  {[obj |-> [n \in {m \in Names(fields) : f[m] # Null} |-> f[n]]] : f \in members}
=============================================================================
