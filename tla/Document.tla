-------------------------------- MODULE Document --------------------------------
(***************************************************************************)
(* openapi: the document Generator.Spec makes of a router's endpoints.     *)
(*                                                                         *)
(* An endpoint is [method, path, id, fields, accepts, responses].  A path  *)
(* is a sequence of segments [k |-> "lit", "var" or "rest", text], "rest"  *)
(* being "{text...}"; id holds the words of an explicit operation id;      *)
(* fields is the Params struct as Binding has it, with required for a key  *)
(* tagged ",required"; accepts is << >> or AcceptsBody's <<type>>; a       *)
(* response is [status, kind, type, contentTypes].  JSON bodies add to     *)
(* Binding's types [k |-> "struct", name, fields], with a name of "" for   *)
(* an anonymous one and fields [name, type, omit, embedded], and           *)
(* [k |-> "union", prop, variants] for a registered interface, variants    *)
(* being a sequence of [value, type].                                      *)
(***************************************************************************)
EXTENDS Binding, SequencesExt

CONSTANT Camel  \* The words capitalize finds in each segment of a path.

-----------------------------------------------------------------------------
(* Schemas *)

Empty == [x \in {} |-> x]

AnySchema == [type |-> ""]
Prim(type, format) == [type |-> type, format |-> format]
ArrayOf(schema) == [type |-> "array", items |-> schema]
Object(props, required) == [type |-> "object", props |-> props, required |-> required]
Ref(name) == [type |-> "ref", name |-> name]
Binary == Prim("string", "binary")

Inline(kind) ==
  CASE kind = "string"  -> Prim("string", "")
    [] kind = "bool"    -> Prim("boolean", "")
    [] kind = "int64"   -> Prim("integer", "int64")
    [] kind = "float64" -> Prim("number", "double")
    [] OTHER            -> Prim("integer", "")  \* int8, int16, uint8, uint16

\* The field of a sequence of fields that has the name.
FieldNamed(fields, name) == LET i == CHOOSE j \in DOMAIN fields : fields[j].name = name IN fields[i]
Names(fields) == {fields[i].name : i \in DOMAIN fields}

\* fieldRequired: such a field is in every encoded object.
AlwaysThere(f) == f.type.k # "ptr" /\ ~f.omit

\* schema, without the components it hoists.  A []byte is a slice of uint8
\* like any other, an embedded struct a property named after its type.
RECURSIVE Schema(_)
Schema(t) ==
  CASE t.k = "ptr"    -> Schema(t.to)
    [] t.k = "scalar" -> Inline(t.of)
    [] t.k = "bytes"  -> ArrayOf(Inline("uint8"))
    [] t.k = "slice"  -> ArrayOf(Schema(t.of))
    [] t.k = "union"  -> [type |-> "union", prop |-> t.prop,
                          mapping |-> [v \in {t.variants[i].value : i \in DOMAIN t.variants} |->
                             LET i == CHOOSE j \in DOMAIN t.variants : t.variants[j].value = v
                             IN  t.variants[i].type.name]]
    [] t.k = "struct" /\ t.name # "" -> Ref(t.name)
    [] t.k = "struct" /\ t.name = "" ->
         Object([n \in Names(t.fields) |-> Schema(FieldNamed(t.fields, n).type)],
                {n \in Names(t.fields) : AlwaysThere(FieldNamed(t.fields, n))})

\* structSchema
StructSchema(t) == Schema([t EXCEPT !.name = ""])

\* The components once schema has seen t: a struct is put there under its
\* bare name, the first of that name, before its fields are looked at.
RECURSIVE Hoist(_, _)
Hoist(components, t) ==
  LET each(c, f) == Hoist(c, f.type)
      placed == [n \in DOMAIN components \cup {t.name} |->
                   IF n = t.name THEN StructSchema(t) ELSE components[n]]
  IN  CASE t.k = "ptr"   -> Hoist(components, t.to)
        [] t.k = "slice" -> Hoist(components, t.of)
        [] t.k = "union" -> FoldLeft(each, components, t.variants)
        [] t.k = "struct" /\ t.name = "" -> FoldLeft(each, components, t.fields)
        [] t.k = "struct" /\ t.name # "" ->
             IF t.name \in DOMAIN components THEN components ELSE FoldLeft(each, placed, t.fields)
        [] OTHER -> components

-----------------------------------------------------------------------------
(* Operations *)

DeriveOperationID(method, path) ==
  LET part(s) == IF s.k = "lit" THEN Camel[s.text] ELSE <<"By">> \o Camel[s.text]
  IN  <<method>> \o FlattenSeq([i \in DOMAIN path |-> part(path[i])])

PathTemplateNames(path) == {path[i].text : i \in {j \in DOMAIN path : path[j].k # "lit"}}

Key(f) == f.tags[Source(f)]
Tagged(fields, sources) == {f \in ToSet(fields) : Source(f) \in sources}

\* The parameters of a Params struct, and, from fillMissingPathParams, a
\* string for each variable of the path the struct leaves out.
Parameters(ep) ==
  LET declared == {[name |-> Key(f), in |-> Source(f), schema |-> Schema(f.type),
                    required |-> Source(f) = "path" \/ f.required] :
                     f \in Tagged(ep.fields, {"path", "query", "header"})}
      named == {p.name : p \in {q \in declared : q.in = "path"}}
  IN  declared \cup
      {[name |-> n, in |-> "path", schema |-> Inline("string"), required |-> TRUE] :
         n \in PathTemplateNames(ep.path) \ named}

FileSchema(t) == IF t.k = "files" THEN ArrayOf(Binary) ELSE Binary

\* An object with a property for each form field and file.
FormRequestBody(fields) ==
  LET keyed(n) == CHOOSE f \in fields : Key(f) = n
      keys == {Key(f) : f \in fields}
  IN  Object([n \in keys |-> IF Source(keyed(n)) = "file" THEN FileSchema(keyed(n).type)
                             ELSE Schema(keyed(n).type)],
             {n \in keys : FieldRequired(keyed(n))})

Media(schema) == [schema |-> schema, item |-> AnySchema]
Items(schema) == [schema |-> AnySchema, item |-> schema]

\* bodyRequestBody, iterRequestBody
BodyRequestBody(f) ==
  LET types(default) == IF f.contentTypes = << >> THEN {default} ELSE ToSet(f.contentTypes)
  IN  CASE f.type.k \in {"reader", "bytes"} -> [ct \in types("octets") |-> Media(Binary)]
        [] f.type.k = "iter" ->
             [ct \in types("jsonl") |->
                IF ct \in JSONStreams THEN Items(Schema(f.type.of)) ELSE Media(AnySchema)]
        [] OTHER -> [ct \in {"json"} |-> Media(Schema(f.type))]

\* A file makes the body multipart, a form field without one urlencoded.
BuildRequestBody(fields) ==
  LET files  == Tagged(fields, {"file"})
      forms  == Tagged(fields, {"form"})
      bodies == Tagged(fields, {"body"})
  IN  CASE files # {} -> [ct \in {"multipart"} |-> Media(FormRequestBody(forms \cup files))]
        [] files = {} /\ forms # {} -> [ct \in {"urlencoded"} |-> Media(FormRequestBody(forms))]
        [] files \cup forms = {} /\ bodies # {} -> BodyRequestBody(CHOOSE f \in bodies : TRUE)
        [] OTHER -> Empty

\* acceptedRequestBody: AcceptsBody says of every content type what it holds.
RequestBody(ep) ==
  LET declared == BuildRequestBody(ep.fields)
      types == IF declared = Empty THEN {"json"} ELSE DOMAIN declared
  IN  IF ep.accepts = << >> THEN declared ELSE [ct \in types |-> Media(Schema(ep.accepts[1]))]

\* responseFromDecl.  What an SSE event holds, the generated client leaves raw.
ResponseContent(d) ==
  CASE d.kind = "none"   -> Empty
    [] d.kind = "json"   -> [ct \in {"json"} |-> Media(Schema(d.type))]
    [] d.kind = "stream" -> [ct \in ToSet(d.contentTypes) |-> Items(Schema(d.type))]
    [] d.kind = "sse"    -> [ct \in {"sse"} |-> Items(AnySchema)]
    [] d.kind = "mixed"  -> [ct \in {"mixed"} |-> Items(Schema(d.type))]

\* Of two declarations of a status the later stays; an endpoint without any
\* has a "default" that says nothing.
BuildResponses(decls) ==
  LET last(s) == CHOOSE i \in DOMAIN decls : /\ decls[i].status = s
                                             /\ \A j \in DOMAIN decls : decls[j].status = s => j <= i
  IN  [s \in {decls[i].status : i \in DOMAIN decls} |-> ResponseContent(decls[last(s)])]

BuildOperation(ep) ==
  [id |-> IF ep.id = << >> THEN DeriveOperationID(ep.method, ep.path) ELSE ep.id,
   method |-> ep.method, path |-> ep.path, params |-> Parameters(ep), body |-> RequestBody(ep),
   responses |-> BuildResponses(ep.responses)]

\* The types an operation gives to schema, in order: responses, then the
\* fields of its Params struct, then AcceptsBody's.
TypesOf(ep) ==
  LET bodies == SelectSeq(ep.responses, LAMBDA d : d.kind # "none")
      typed  == SelectSeq(ep.fields, LAMBDA f :
                  /\ f.type.k \notin {"file", "files", "reader", "bytes"}
                  /\ f.type.k = "iter" => ToSet(f.contentTypes) \subseteq JSONStreams)
      type(f) == IF f.type.k = "iter" THEN f.type.of ELSE f.type
  IN  [i \in DOMAIN bodies |-> bodies[i].type] \o [i \in DOMAIN typed |-> type(typed[i])] \o ep.accepts

Components(components, ep) == FoldLeft(Hoist, components, TypesOf(ep))
=============================================================================
