-------------------------------- MODULE Binding --------------------------------
(***************************************************************************)
(* router: how the fields of a handler's Params struct are classified at   *)
(* registration, and how a request's inputs are bound to them.             *)
(*                                                                         *)
(* A field is [tags, type, contentTypes]: tags maps the tag names it has   *)
(* to the keys they name.  A type is [k |-> "scalar", of |-> kind],        *)
(* [k |-> "ptr", to |-> type], [k |-> "slice", of |-> type], or one of     *)
(* [k |-> "file"], "files", "reader", "bytes", "struct" and                *)
(* [k |-> "iter", of |-> item].  A raw input is a string: "" is empty, "x" *)
(* parses as no number, "big" as a number too wide for int8.  A nil        *)
(* pointer is << >> and a pointer to v is <<v>>; the nil slice is << >>.   *)
(***************************************************************************)
EXTENDS Naturals, Sequences, FiniteSetsExt

\* Tag precedence.
Sources == <<"path", "query", "header", "form", "file", "body">>

Scalar(kind) == [k |-> "scalar", of |-> kind]
Ptr(t) == [k |-> "ptr", to |-> t]
Slice(t) == [k |-> "slice", of |-> t]

Elem(t) == IF t.k = "ptr" THEN t.to ELSE t

-----------------------------------------------------------------------------
(* Registration *)

JSONStreams == {"jsonl", "ndjson", "json-seq", "geo+json-seq"}
MultipartStreams == {"mixed", "byteranges"}

\* bodyKindForContentType
StreamKind(contentType) ==
  CASE contentType \in JSONStreams      -> "iterJSON"
    [] contentType = "sse"              -> "iterSSE"
    [] contentType \in MultipartStreams -> "iterMultipart"
    [] OTHER                            -> "unsupported"

\* The one kind all declared content types agree on, if it suits the item.
StreamKindForContentTypes(allowed, item) ==
  LET kinds == {StreamKind(allowed[i]) : i \in DOMAIN allowed} IN
  CASE kinds = {"iterJSON"}                                 -> "iterJSON"
    [] kinds = {"iterSSE"} /\ item = "SSEEvent"             -> "iterSSE"
    [] kinds = {"iterMultipart"} /\ item = "Part"           -> "iterMultipart"
    [] OTHER                                                -> "illegal"

ClassifyBodyKind(t, allowed) ==
  CASE t.k = "reader" -> "reader"
    [] t.k = "bytes"  -> "bytes"
    [] t.k = "iter"   -> StreamKindForContentTypes(allowed, t.of)
    [] OTHER          -> "json"

\* A scalar, a slice of scalars, or a pointer to either.
FormTypeLegal(t) ==
  LET e == Elem(t) IN
  Elem(IF e.k = "slice" THEN e.of ELSE e).k = "scalar"

FileTypeLegal(t) == t.k \in {"file", "files"}

\* The source whose tag takes precedence.
Source(f) ==
  LET tagged == {i \in DOMAIN Sources : Sources[i] \in DOMAIN f.tags}
  IN  IF tagged = {} THEN "none" ELSE Sources[Min(tagged)]

\* isFormRequired; a file is required unless it is a slice.
FieldRequired(f) ==
  CASE Source(f) = "form" -> f.type.k \notin {"ptr", "slice"}
    [] Source(f) = "file" -> f.type.k = "file"
    [] OTHER              -> FALSE

ClassifyField(f) ==
  LET s == Source(f) IN
  [src |-> s, key |-> f.tags[s], type |-> f.type, required |-> FieldRequired(f),
   allowed |-> f.contentTypes,
   kind |-> IF s = "body" THEN ClassifyBodyKind(f.type, f.contentTypes) ELSE "none"]

FieldLegal(f) ==
  CASE Source(f) = "form" -> FormTypeLegal(f.type)
    [] Source(f) = "file" -> FileTypeLegal(f.type)
    [] Source(f) = "body" -> ClassifyBodyKind(f.type, f.contentTypes) # "illegal"
    [] OTHER              -> TRUE

\* A body excludes form and file fields.
Exclusive(fields) ==
  LET used == {Source(fields[i]) : i \in DOMAIN fields}
  IN  ~("body" \in used /\ used \cap {"form", "file"} # {})

\* buildBinder accepts the struct; register panics otherwise.
Registers(fields) == Exclusive(fields) /\ \A i \in DOMAIN fields : FieldLegal(fields[i])

\* The binders of the tagged fields, by their place in the struct.
CollectBinders(fields) ==
  [i \in {j \in DOMAIN fields : Source(fields[j]) # "none"} |-> ClassifyField(fields[i])]

-----------------------------------------------------------------------------
(* Binding one input *)

IsString(t) == t.k = "scalar" /\ t.of = "string"

Zero(t) ==
  CASE t.k # "scalar"                  -> << >>
    [] IsString(t)                     -> ""
    [] t.k = "scalar" /\ t.of = "bool" -> "false"
    [] OTHER                           -> "0"

Numbers == {"0", "7", "big"}

Parses(kind, raw) ==
  CASE kind = "string" -> TRUE
    [] kind = "bool"   -> raw \in {"true", "false"}
    [] kind = "int8"   -> raw \in Numbers \ {"big"}
    [] OTHER           -> raw \in Numbers

Bound(v) == [ok |-> TRUE, value |-> v]
Failed(cause) == [ok |-> FALSE, cause |-> cause]

\* An empty input leaves all but strings at zero, before the type is looked at.
SetPlain(t, raw) ==
  CASE IsString(t)               -> Bound(raw)
    [] ~IsString(t) /\ raw = ""  -> Bound(Zero(t))
    [] ~IsString(t) /\ raw # "" /\ t.k = "scalar" ->
         IF Parses(t.of, raw) THEN Bound(raw) ELSE Failed("syntax")
    [] OTHER                     -> Failed("unsupported")

SetScalar(t, raw) ==
  LET r == SetPlain(Elem(t), raw)
  IN  IF t.k = "ptr" /\ r.ok THEN Bound(<<r.value>>) ELSE r

\* The first value of an input, "" when there is none: what Get returns.
First(inputs, key) ==
  IF key \in DOMAIN inputs /\ inputs[key] # << >> THEN inputs[key][1] ELSE ""

BindPath(fb, in) == SetScalar(fb.type, First(in.path, fb.key))

\* Query and header inputs are optional whatever their tag says.
BindOptional(fb, inputs) ==
  LET raw == First(inputs, fb.key)
  IN  IF raw = "" THEN Bound(Zero(fb.type)) ELSE SetScalar(fb.type, raw)

BindFormField(fb, in) ==
  LET values == IF fb.key \in DOMAIN in.form THEN in.form[fb.key] ELSE << >>
      each   == [i \in DOMAIN values |-> SetScalar(fb.type.of, values[i])]
      bad    == {i \in DOMAIN each : ~each[i].ok}
  IN  CASE values = << >> /\ fb.required  -> Failed("required")
        [] values = << >> /\ ~fb.required -> Bound(Zero(fb.type))
        [] values # << >> /\ fb.type.k = "slice" ->
             IF bad # {} THEN each[Min(bad)]
             ELSE Bound([i \in DOMAIN each |-> each[i].value])
        [] OTHER                          -> SetScalar(fb.type, values[1])

\* A wildcard allows every subtype: "image/*" is modelled by its one type "png".
MatchMediaType(got, allowed) ==
  \E i \in DOMAIN allowed : allowed[i] = got \/ (allowed[i] = "image/*" /\ got = "png")

BindFileField(fb, in) ==
  LET files == IF fb.key \in DOMAIN in.files THEN in.files[fb.key] ELSE << >> IN
  CASE in.contentType # "multipart" ->
         IF fb.required THEN Failed("not multipart") ELSE Bound(Zero(fb.type))
    [] in.contentType = "multipart" /\ files = << >> ->
         IF fb.required THEN Failed("required") ELSE Bound(Zero(fb.type))
    [] in.contentType = "multipart" /\ files # << >> ->
         IF fb.allowed # << >> /\ \E i \in DOMAIN files : ~MatchMediaType(files[i], fb.allowed)
         THEN Failed("content type")
         ELSE Bound(IF fb.type.k = "files" THEN files ELSE files[1])

\* limit is the read cap of a []byte body, body.size what it would take.
BindBodyField(fb, in, limit) ==
  LET typed == MatchMediaType(in.contentType, fb.allowed) IN
  CASE fb.kind \in {"reader", "bytes"} /\ fb.allowed # << >> /\ ~typed -> Failed("content type")
    [] fb.kind = "bytes" /\ (fb.allowed = << >> \/ typed) /\ in.body.size > limit -> Failed("size")
    [] fb.kind \in {"iterJSON", "iterSSE", "iterMultipart"} /\ ~typed  -> Failed("content type")
    [] fb.kind = "iterMultipart" /\ typed /\ ~in.body.boundary -> Failed("boundary")
    [] fb.kind = "json" /\ ~in.body.valid -> Failed("syntax")
    [] OTHER -> Bound(in.body.content)

ApplyBinder(fb, in, limit) ==
  CASE fb.src = "path"   -> BindPath(fb, in)
    [] fb.src = "query"  -> BindOptional(fb, in.query)
    [] fb.src = "header" -> BindOptional(fb, in.header)
    [] fb.src = "form"   -> BindFormField(fb, in)
    [] fb.src = "file"   -> BindFileField(fb, in)
    [] fb.src = "body"   -> BindBodyField(fb, in, limit)

NeedsForm(fbs) == \E i \in DOMAIN fbs : fbs[i].src \in {"form", "file"}

BindFailure(src, key, cause) == [ok |-> FALSE, source |-> src, name |-> key, cause |-> cause]

\* The closure buildBinder returns: the form first, then field by field up to
\* the first that cannot be bound.
Bind(fields, in, limit) ==
  LET fbs     == CollectBinders(fields)
      results == [i \in DOMAIN fbs |-> ApplyBinder(fbs[i], in, limit)]
      bad     == {i \in DOMAIN fbs : ~results[i].ok}
  IN  CASE NeedsForm(fbs) /\ in.brokenForm -> BindFailure("form", "", "form")
        [] ~(NeedsForm(fbs) /\ in.brokenForm) /\ bad # {} ->
             LET i == Min(bad) IN BindFailure(fbs[i].src, fbs[i].key, results[i].cause)
        [] OTHER -> [ok |-> TRUE, params |-> [i \in DOMAIN fbs |-> results[i].value]]

=============================================================================
