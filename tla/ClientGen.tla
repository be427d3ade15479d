------------------------------- MODULE ClientGen -------------------------------
(***************************************************************************)
(* clientgen: the declarations and operations it generates from the        *)
(* document of Document.                                                   *)
(*                                                                         *)
(* A Go name is a sequence of words, a numeric suffix being one more.  A   *)
(* registry is [names, refs, types, synthetic]: the type names taken, the  *)
(* name of each component, the declarations and the names of anonymous     *)
(* shapes by signature.  A Go type is one of Binding's, [k |-> "named",    *)
(* name] for a declared one, "raw" for json.RawMessage or "map" for        *)
(* map[string]any; a declaration is a struct or a union as in Document.    *)
(***************************************************************************)
EXTENDS Document

CONSTANTS
  Words,         \* The words exportedName finds in each wire name.
  Alphabet,      \* All wire names, component names and paths' texts in sorted order.
  ReservedNames  \* The names of the runtime file.

Sorted(S) == SelectSeq(Alphabet, LAMBDA n : n \in S)

-----------------------------------------------------------------------------
(* Names *)

NameSet == ReservedNames

Digits == <<"2", "3", "4">>

\* Mutant: a suffix is not looked up again.
ClaimOnce(used, want) == IF want \notin used THEN want ELSE Append(want, "2")

\* nameSet.claim: the name, or the name with the first suffix that is free.
Claim(used, want) ==
  LET free == {i \in DOMAIN Digits : Append(want, Digits[i]) \notin used}
  IN  IF want \notin used THEN want ELSE Append(want, Digits[Min(free)])

\* The names of a struct's fields: those that exportedName makes of wire
\* names, claimed in sorted order.
FieldNames(wires) ==
  LET claim(names, w) ==
        LET got == Claim({names[n] : n \in DOMAIN names}, Words[w])
        IN  [n \in DOMAIN names \cup {w} |-> IF n = w THEN got ELSE names[n]]
  IN  FoldLeft(claim, Empty, wires)

-----------------------------------------------------------------------------
(* Types *)

Named(name) == [k |-> "named", name |-> name]

IsNilable(t) == t.k \in {"slice", "bytes", "map", "raw"}

\* Mutant: what may be missing is a plain value.
GoTypePlain(t, required) == t

\* goType: what may be missing becomes a pointer, unless nil can say so.
GoType(t, required) == IF required \/ IsNilable(t) THEN t ELSE Ptr(t)

StringType(s) == IF s.format = "binary" THEN [k |-> "bytes"] ELSE Scalar("string")
IntegerType(s) == IF s.format = "int64" THEN Scalar("int64") ELSE Scalar("int")

\* schemaSignature: that of a union inside a shape names its discriminator only.
RECURSIVE Signature(_)
Signature(s) ==
  CASE s.type = "union" -> [type |-> "union", prop |-> s.prop]
    [] s.type = "array" -> [type |-> "array", items |-> Signature(s.items)]
    [] s.type = "object" -> [type |-> "object", props |-> [n \in DOMAIN s.props |-> Signature(s.props[n])],
                             required |-> s.required]
    [] OTHER -> s

UnionInfoFor(reg, s) ==
  LET values == Sorted(DOMAIN s.mapping)
  IN  [k |-> "union", prop |-> s.prop,
       variants |-> [i \in DOMAIN values |-> [value |-> values[i],
                                              type |-> Named(reg.refs[s.mapping[values[i]]])]]]

\* Mutant: the name is taken, the declaration forgotten.
DeclaredNameOnly(reg, name, decl) == [reg EXCEPT !.names = @ \cup {name}]

Declared(reg, name, decl) ==
  [reg EXCEPT !.names = @ \cup {name},
              !.types = [n \in DOMAIN @ \cup {name} |-> IF n = name THEN decl ELSE @[n]]]

\* What synthesizeStruct and synthesizeUnion know a shape without a name by: a
\* union by its discriminator and the type of each value.
ShapeKey(reg, s) == IF s.type = "union" THEN UnionInfoFor(reg, s) ELSE Signature(s)

\* baseType, with the registry after it, and structFields with it: each
\* needs the other.  A shape without a name is declared once per signature,
\* under the hint.
RECURSIVE BaseType(_, _, _), StructFields(_, _, _)
BaseType(reg, s, hint) ==
  LET result(r, t) == [reg |-> r, type |-> t]
      sig == ShapeKey(reg, s)
      name == Claim(reg.names, hint)
      taken == [reg EXCEPT !.names = @ \cup {name},
                  !.synthetic = [x \in DOMAIN @ \cup {sig} |-> IF x = sig THEN name ELSE @[x]]]
  IN  CASE s.type = "ref"     -> result(reg, Named(reg.refs[s.name]))
        [] s.type = "string"  -> result(reg, StringType(s))
        [] s.type = "boolean" -> result(reg, Scalar("bool"))
        [] s.type = "integer" -> result(reg, IntegerType(s))
        [] s.type = "number"  -> result(reg, Scalar("float64"))
        [] s.type = "array"   -> LET elem == BaseType(reg, s.items, Append(hint, "Item"))
                                 IN  result(elem.reg, Slice(elem.type))
        [] s.type = ""        -> result(reg, [k |-> "raw"])
        [] s.type \in {"object", "union"} /\ sig \in DOMAIN reg.synthetic ->
             result(reg, Named(reg.synthetic[sig]))
        [] s.type = "union" /\ sig \notin DOMAIN reg.synthetic ->
             result(Declared(taken, name, UnionInfoFor(reg, s)), Named(name))
        [] s.type = "object" /\ sig \notin DOMAIN reg.synthetic /\ DOMAIN s.props = {} ->
             result(reg, [k |-> "map"])
        [] s.type = "object" /\ sig \notin DOMAIN reg.synthetic /\ DOMAIN s.props # {} ->
             LET built == StructFields(taken, s, name)
             IN  result(Declared(built.reg, name, [k |-> "struct", fields |-> built.fields]),
                        Named(name))

StructFields(reg, s, owner) ==
  LET wires == Sorted(DOMAIN s.props)
      names == FieldNames(wires)
      next(acc, w) ==
        LET base == BaseType(acc.reg, s.props[w], owner \o names[w])
        IN  [reg |-> base.reg,
             fields |-> Append(acc.fields, [name |-> w, type |-> GoType(base.type, w \in s.required),
                                            omit |-> w \notin s.required, embedded |-> FALSE])]
  IN  FoldLeft(next, [reg |-> reg, fields |-> << >>], wires)

\* declare: a name for every component, before any is built.
Declare(components) ==
  LET claim(reg, n) ==
        LET name == Claim(reg.names, Words[n])
        IN  [reg EXCEPT !.names = @ \cup {name},
                        !.refs = [x \in DOMAIN @ \cup {n} |-> IF x = n THEN name ELSE @[x]]]
  IN  FoldLeft(claim, [names |-> NameSet, refs |-> Empty, types |-> Empty, synthetic |-> Empty],
               Sorted(DOMAIN components))

\* build: the components are objects; one without properties is a map.
Build(reg, components) ==
  LET build(r, n) ==
        LET name == r.refs[n]
            built == StructFields(r, components[n], name)
        IN  IF DOMAIN components[n].props = {} THEN Declared(r, name, [k |-> "map"])
            ELSE Declared(built.reg, name, [k |-> "struct", fields |-> built.fields])
  IN  FoldLeft(build, reg, Sorted(DOMAIN components))
-----------------------------------------------------------------------------
(* Operations *)

ParamOrder == <<"path", "query", "header">>

\* buildParams: a field for each parameter, path first, then by name; two of
\* the same words in different places get different fields.  A parameter is a
\* scalar or a list of them, whose type takes no hint and declares nothing.
BuildParams(reg, params) ==
  LET in(where) == LET ps == {p \in params : p.in = where}
                       names == Sorted({p.name : p \in ps})
                   IN  [i \in DOMAIN names |-> CHOOSE p \in ps : p.name = names[i]]
      ordered == FlattenSeq([i \in DOMAIN ParamOrder |-> in(ParamOrder[i])])
      add(acc, p) ==
        LET field == Claim({acc[i].field : i \in DOMAIN acc}, Words[p.name])
        IN  Append(acc, [field |-> field, wire |-> p.name, in |-> p.in,
                         type |-> GoType(BaseType(reg, p.schema, << >>).type, p.required)])
  IN  FoldLeft(add, << >>, ordered)

\* contentTypePreference, the sorted names breaking ties.
Preference(ct) ==
  CASE ct = "json"               -> 0
    [] ct = "multipart"          -> 1
    [] ct = "urlencoded"         -> 2
    [] ct \in JSONStreams        -> 3
    [] ct = "sse"                -> 4
    [] ct \in MultipartStreams   -> 5
    [] OTHER                     -> 6

PickContent(content) ==
  LET keys == Sorted(DOMAIN content)
      best == CHOOSE i \in DOMAIN keys :
                \A j \in DOMAIN keys : \/ Preference(keys[i]) < Preference(keys[j])
                                       \/ Preference(keys[i]) = Preference(keys[j]) /\ i <= j
  IN  keys[best]

NoBody == [kind |-> "none", contentType |-> "", type |-> AnySchema, fields |-> << >>]

\* fileFieldType: the binary properties are files.
IsFile(s) == s = Binary \/ s = ArrayOf(Binary)
FileFieldType(s) == [k |-> IF s = Binary THEN "file" ELSE "files"]

\* buildFormFields: a property of urlencoded data that is no file.
BuildFormFields(reg, schema, hint) ==
  LET wires == Sorted(DOMAIN schema.props)
      names == FieldNames(wires)
      field(w) ==
        LET s == schema.props[w]
            type == IF IsFile(s) THEN FileFieldType(s)
                    ELSE GoType(BaseType(reg, s, hint).type, w \in schema.required)
        IN  [field |-> names[w], wire |-> w, in |-> IF IsFile(s) THEN "file" ELSE "form", type |-> type]
  IN  [i \in DOMAIN wires |-> field(wires[i])]

\* buildBody, with the registry after it.
BuildBody(reg, opName, content) ==
  LET ct == PickContent(content)
      mt == content[ct]
      body(kind, type) == [kind |-> kind, contentType |-> ct, type |-> type, fields |-> << >>]
      typed(kind, s, hint) == LET base == BaseType(reg, s, Append(opName, hint))
                              IN  [reg |-> base.reg, body |-> body(kind, base.type)]
  IN  CASE content = Empty -> [reg |-> reg, body |-> NoBody]
        [] content # Empty /\ ct \in {"multipart", "urlencoded"} ->
             [reg |-> reg, body |-> [body("form", AnySchema) EXCEPT !.fields =
                IF mt.schema.type = "object" THEN BuildFormFields(reg, mt.schema, opName) ELSE << >>]]
        [] content # Empty /\ ct \in JSONStreams -> typed("stream", mt.item, "RequestItem")
        [] content # Empty /\ ct \notin JSONStreams \cup {"multipart", "urlencoded"} ->
             IF mt.schema \in {AnySchema, Binary} THEN [reg |-> reg, body |-> body("binary", AnySchema)]
             ELSE typed("json", mt.schema, "Request")

IsSuccess(status) == status \in 200..299

\* buildResponses and applySuccess: the lowest declared 2xx is the success,
\* the other 2xx are extra, any other status an error.  With a JSON body a
\* status has a type; a success of another kind has a stream.
BuildResults(reg, opName, responses) ==
  LET codes == DOMAIN responses
      ok == {c \in codes : IsSuccess(c)}
      success == IF ok = {} THEN 0 ELSE Min(ok)
      ct(c) == IF responses[c] = Empty THEN "" ELSE PickContent(responses[c])
      isTyped(c) == ct(c) = "json" \/ (c = success /\ ct(c) \in JSONStreams)
      hint(c) == opName \o (CASE c # success -> <<ToString(c), "Error">>
                              [] c = success /\ ct(c) = "json" -> <<"Response">>
                              [] OTHER -> <<"Item">>)
      schema(c) == IF ct(c) = "json" THEN responses[c][ct(c)].schema ELSE responses[c][ct(c)].item
      add(acc, c) ==
        LET base == BaseType(acc.reg, schema(c), hint(c))
        IN  IF isTyped(c) THEN [acc EXCEPT !.reg = base.reg, !.types[c] = <<base.type>>] ELSE acc
      order == (IF success = 0 THEN << >> ELSE <<success>>)
               \o SetToSortSeq({c \in codes : ~IsSuccess(c)}, <)
  IN  FoldLeft(add, [reg |-> reg, success |-> success, types |-> [c \in codes |-> << >>],
                     stream |-> IF success = 0 \/ ct(success) \in {"", "json"} THEN "none" ELSE ct(success)],
               order)

\* The generated method; a Params struct is declared when it has any input.
Method(name, op, params, body, results) ==
  LET hasInput == params # << >> \/ body.kind # "none"
      paramsType == Claim(results.reg.names, Append(name, "Params"))
  IN  [reg |-> IF hasInput THEN [results.reg EXCEPT !.names = @ \cup {paramsType}] ELSE results.reg,
       op |-> [name |-> name, paramsType |-> IF hasInput THEN paramsType ELSE << >>,
               method |-> op.method, path |-> op.path, params |-> params, body |-> body,
               success |-> results.success, types |-> results.types, stream |-> results.stream]]

\* buildOperation: the body takes its type names before the results do.
Generate(reg, methods, op) ==
  LET name == Claim(methods, op.id)
      built == BuildBody(reg, name, op.body)
  IN  Method(name, op, BuildParams(reg, op.params), built.body,
             BuildResults(built.reg, name, op.responses))
=============================================================================
