-------------------------------- MODULE Contract --------------------------------
(***************************************************************************)
(* One contract, three programs: openapi documents a router's endpoints,   *)
(* clientgen generates a client from the document, and the client calls    *)
(* the server, whose router binds what arrives.                            *)
(*                                                                         *)
(* An API is [documented, served]: the endpoints the document was made     *)
(* from and those that are served by the time a client calls, the same     *)
(* unless the server was changed since.  A request's path values are as    *)
(* they stand in the URL's decoded Path; a body is [kind, json] or, for    *)
(* form data, the pairs and files of the client's struct.                  *)
(***************************************************************************)
EXTENDS JsonValues

CONSTANTS
  APIs,
  PathOrder,       \* The paths in sorted order.
  PathTexts,       \* The values of path parameters.
  PathEscape,      \* url.PathEscape, per value of PathTexts,
  WildcardEscape,  \* and the same for each segment of the value.
  Problem          \* The JSON of a problem.

VARIABLES
  api,
  doc,         \* The operations documented so far, in the order of the endpoints,
  components,  \* and the component schemas.
  reg,         \* The generator's registry, once declare and build ran.
  ops,         \* The generated methods.
  call,        \* The call in progress: [op, args, intent].
  answer,      \* The server's answer to it,
  result       \* and what the method returned.

vars == <<api, doc, components, reg, ops, call, answer, result>>

Nothing == [kind |-> "nothing"]

Init ==
  /\ api \in APIs
  /\ doc = << >>
  /\ components = Empty
  /\ reg = Nothing
  /\ ops = << >>
  /\ call = Nothing
  /\ answer = Nothing
  /\ result = Nothing

-----------------------------------------------------------------------------
(* Generation *)

\* One turn of Generator.Spec.
DocumentEndpoint ==
  /\ Len(doc) < Len(api.documented)
  /\ LET ep == api.documented[Len(doc) + 1]
     IN  /\ doc' = Append(doc, BuildOperation(ep))
         /\ components' = Components(components, ep)
  /\ UNCHANGED <<api, reg, ops, call, answer, result>>

\* Render up to buildOperations.
DeclareTypes ==
  /\ Len(doc) = Len(api.documented)
  /\ reg = Nothing
  /\ reg' = Build(Declare(components), components)
  /\ UNCHANGED <<api, doc, components, ops, call, answer, result>>

MethodOrder == <<"Get", "Head", "Post", "Put", "Patch", "Delete", "Options", "Trace">>

Position(seq, x) == CHOOSE i \in DOMAIN seq : seq[i] = x

\* buildOperations: by path, then by method.
Before(a, b) ==
  LET at(o) == Position(PathOrder, o.path) IN
  at(a) < at(b) \/ (at(a) = at(b) /\ Position(MethodOrder, a.method) < Position(MethodOrder, b.method))

GenerateOperation ==
  /\ reg # Nothing
  /\ Len(ops) < Len(doc)
  /\ LET next == SortSeq(doc, Before)[Len(ops) + 1]
         methods == NameSet \cup {ops[i].name : i \in DOMAIN ops}
     IN  \E made \in {Generate(reg, methods, next)} :
           ops' = Append(ops, made.op) /\ reg' = made.reg
  /\ UNCHANGED <<api, doc, components, call, answer, result>>

\* The fields of a Params struct, the body's last; it compiles when no two
\* share a name.
InputFields(op) == op.params \o op.body.fields
Compiles(op) == \A i, j \in DOMAIN InputFields(op) :
                  InputFields(op)[i].field = InputFields(op)[j].field => i = j

-----------------------------------------------------------------------------
(* A call *)

\* What the fields of a Params struct may hold, as the values formatValue
\* makes of it: none for nil, one for a scalar, each of a slice.
ArgsOf(f) ==
  LET scalars(t) == CASE t.of = "string" /\ f.in = "path" -> PathTexts
                      [] t.of = "string" /\ f.in # "path" -> {"", "x"}
                      [] t.of = "bool"                    -> {"true"}
                      [] OTHER                            -> {"7", "big"}
      t == f.type
  IN  CASE t.k = "scalar" -> {<<v>> : v \in scalars(t)}
        [] t.k = "ptr"    -> {<< >>} \cup {<<v>> : v \in scalars(t.to)}
        [] t.k = "slice"  -> {<< >>} \cup {<<v, v>> : v \in scalars(t.of)}
        [] t.k = "file"   -> {<< >>, <<"png">>, <<"csv">>}
        [] t.k = "files"  -> {<< >>, <<"png", "csv">>}

ArgsFor(op) ==
  LET fields == InputFields(op) IN
  {a \in [DOMAIN fields -> UNION {ArgsOf(fields[i]) : i \in DOMAIN fields}] :
     \A i \in DOMAIN fields : a[i] \in ArgsOf(fields[i])}

EndpointOf(endpoints, op) ==
  SelectSeq(endpoints, LAMBDA ep : ep.method = op.method /\ ep.path = op.path)

\* The field that takes the body, as a sequence: there may be none.
BodyFields(ep) == SelectSeq(ep.fields, LAMBDA f : Source(f) = "body")

\* The server's type of what a JSON or a streaming body holds.
BodyType(ep) ==
  CASE ep.accepts # << >> -> ep.accepts[1]
    [] ep.accepts = << >> /\ BodyFields(ep) # << >> ->
         LET t == BodyFields(ep)[1].type IN IF t.k = "iter" THEN t.of ELSE t

\* The values of it a caller may mean to send, in terms of the server's type.
IntentsFor(op) ==
  IF op.body.kind \in {"json", "stream"}
  THEN JSONOf(Elem(BodyType(EndpointOf(api.documented, op)[1]))) ELSE {[str |-> "x"]}

\* A method is called; there is something to call once the package compiles.
Call ==
  /\ reg # Nothing
  /\ Len(ops) = Len(doc)
  /\ \A i \in DOMAIN ops : Compiles(ops[i])
  /\ call = Nothing
  /\ \E i \in DOMAIN ops : \E args \in ArgsFor(ops[i]), intent \in IntentsFor(ops[i]) :
       call' = [op |-> ops[i], args |-> args, intent |-> intent]
  /\ UNCHANGED <<api, doc, components, reg, ops, answer, result>>

PathParam(segment, v) == IF segment.k = "rest" THEN WildcardEscape[v] ELSE PathEscape[v]

\* The arguments of the fields that go in one place, by their wire names.
ArgsIn(where) ==
  LET fields == InputFields(call.op)
      there == {i \in DOMAIN fields : fields[i].in = where}
  IN  [w \in {fields[i].wire : i \in there} |->
         LET i == CHOOSE j \in there : fields[j].wire = w IN call.args[i]]

\* What the server reads in Path: newRequest sets it to the escaped values and
\* clears RawPath, so that URL.String escapes once more what the server
\* unescapes once.
PathValues ==
  LET variables == {call.op.path[i] : i \in {j \in DOMAIN call.op.path : call.op.path[j].k # "lit"}}
  IN  [n \in {s.text : s \in variables} |->
         LET s == CHOOSE x \in variables : x.text = n IN <<PathParam(s, ArgsIn("path")[n][1])>>]

\* What jsonBody encodes: as much of the intent as the client's type holds.
SentBody ==
  IF call.op.body.kind \in {"json", "stream"}
  THEN Held(reg.types, call.op.body.type, call.intent) ELSE call.intent

\* The body as the binder of an endpoint finds it.  A body in several items
\* is modelled by one.
BodyFor(ep) ==
  LET typed == /\ call.op.body.kind \in {"json", "stream"}
               /\ BodyFields(ep) # << >> /\ BodyFields(ep)[1].type.k \notin {"bytes", "reader"}
      content == IF typed THEN Held(Empty, BodyType(ep), SentBody) ELSE SentBody
  IN  [size |-> 0, boundary |-> FALSE, content |-> content,
       valid |-> call.op.body.kind # "none" /\ content # Broken]

\* newRequest, as Binding's inputs.
RequestFor(ep) ==
  [path |-> PathValues, query |-> ArgsIn("query"), header |-> ArgsIn("header"),
   form |-> ArgsIn("form"), files |-> ArgsIn("file"),
   contentType |-> call.op.body.contentType, brokenForm |-> FALSE, body |-> BodyFor(ep)]

\* A variable of a route matches no empty segment; "{name...}" does.
Matches(op) == \A i \in DOMAIN op.path : op.path[i].k = "var" => PathValues[op.path[i].text] # <<"">>

Route == IF Matches(call.op) THEN EndpointOf(api.served, call.op) ELSE << >>

Binds(ep) == Bind(ep.fields, RequestFor(ep), 0)

Answer(kind, status, type, body, params) ==
  answer' = [kind |-> kind, status |-> status, type |-> type, body |-> body, params |-> params]

Serving ==
  /\ call # Nothing
  /\ answer = Nothing
  /\ UNCHANGED <<api, doc, components, reg, ops, call, result>>

\* http.ServeMux answers 405 when the path has endpoints of other methods.
NoRoute ==
  /\ Serving
  /\ Route = << >>
  /\ LET there == Matches(call.op) /\ \E i \in DOMAIN api.served : api.served[i].path = call.op.path
     IN  Answer("missing", IF there THEN 405 ELSE 404, "text", <<[str |-> "x"]>>, << >>)

Refuse ==
  /\ Serving
  /\ Route # << >>
  /\ ~Binds(Route[1]).ok
  /\ Answer("refused", 400, "problem", <<Problem>>, << >>)

\* The handler answers as its endpoint declares, the body being a value of
\* the type declared.  The first item of a stream stands for all of it.
HandleDeclared ==
  /\ Serving
  /\ Route # << >>
  /\ Binds(Route[1]).ok
  /\ \E i \in DOMAIN Route[1].responses :
       LET d == Route[1].responses[i]
           answers == CASE d.kind = "none"             -> {<< >>}
                        [] d.kind \in {"sse", "mixed"} -> {<<[str |-> "x"]>>}
                        [] OTHER -> {<<Held(Empty, d.type, j)>> : j \in JSONOf(d.type)} \ {<<Broken>>}
           type == CASE d.kind = "json" -> "json" [] d.kind = "none" -> "" [] OTHER -> d.contentTypes[1]
       IN  \E body \in answers : Answer("handled", d.status, type, body, Binds(Route[1]).params)

\* It may as well answer with a status it does not declare.
HandleUndeclared ==
  /\ Serving
  /\ Route # << >>
  /\ Binds(Route[1]).ok
  /\ \E status \in {202, 500} \ {Route[1].responses[i].status : i \in DOMAIN Route[1].responses} :
       Answer("handled", status, "problem", <<Problem>>, Binds(Route[1]).params)

-----------------------------------------------------------------------------
(* Its result *)

Returned(value) == [kind |-> "returned", value |-> value]
Raised(value) == [kind |-> "error", value |-> value]

\* decodeJSON: an empty body decodes to anything.
Decode(t, body) == IF body = << >> THEN ZeroJSON(reg.types, t) ELSE Held(reg.types, t, body[1])

\* newAPIError: the value is attached when a JSON body decodes into it.
APIError(type) ==
  LET value == IF type = << >> \/ answer.body = << >> \/ answer.type \notin {"json", "problem"} THEN Broken
               ELSE Held(reg.types, type[1], answer.body[1])
  IN  Raised(IF value = Broken THEN << >> ELSE <<value>>)

\* The type an error status declares.
ErrorType(op) == IF answer.status \in DOMAIN op.types /\ ~IsSuccess(answer.status)
                 THEN op.types[answer.status] ELSE << >>

\* writeStreamDispatch, with streamError as newAPIError.
StreamResult(op) ==
  CASE answer.status = op.success /\ op.stream \in JSONStreams ->
         LET value == Decode(op.types[op.success][1], answer.body)
         IN  IF value = Broken THEN Raised(<< >>) ELSE Returned(<<value>>)
    [] answer.status = op.success /\ op.stream \notin JSONStreams -> Returned(answer.body)
    [] OTHER -> APIError(ErrorType(op))

\* Mutant: a status without a body is an error even when it is a success.
PlainResultTyped(op) ==
  IF answer.status = op.success /\ op.types[answer.status] # << >>
  THEN LET value == Decode(op.types[answer.status][1], answer.body)
       IN  IF value = Broken THEN Raised(<< >>) ELSE Returned(<<value>>)
  ELSE APIError(ErrorType(op))

\* writeResponseDispatch
PlainResult(op) ==
  LET status == answer.status IN
  CASE status = op.success /\ op.types[status] = << >> -> Returned(<< >>)
    [] status = op.success /\ op.types[status] # << >> ->
         LET value == Decode(op.types[status][1], answer.body)
         IN  IF value = Broken THEN Raised(<< >>) ELSE Returned(<<value>>)
    [] IsSuccess(status) /\ status # op.success /\ (op.success = 0 \/ status \in DOMAIN op.types) -> Returned(<< >>)
    [] OTHER -> APIError(ErrorType(op))

Result(op) == IF op.stream = "none" THEN PlainResult(op) ELSE StreamResult(op)

Return ==
  /\ answer # Nothing
  /\ result = Nothing
  /\ result' = Result(call.op)
  /\ UNCHANGED <<api, doc, components, reg, ops, call, answer>>

Next ==
  \/ DocumentEndpoint \/ DeclareTypes \/ GenerateOperation
  \/ Call \/ NoRoute \/ Refuse \/ HandleDeclared \/ HandleUndeclared \/ Return

Spec == Init /\ [][Next]_vars

-----------------------------------------------------------------------------
(* Properties *)

\* The named types a Go type refers to.
RECURSIVE Mentions(_)
Mentions(t) ==
  CASE t.k = "named"  -> {t.name}
    [] t.k = "ptr"    -> Mentions(t.to)
    [] t.k = "slice"  -> Mentions(t.of)
    [] t.k = "struct" -> UNION {Mentions(t.fields[i].type) : i \in DOMAIN t.fields}
    [] t.k = "union"  -> UNION {Mentions(t.variants[i].type) : i \in DOMAIN t.variants}
    [] OTHER          -> {}

Uses(op) ==
  (IF op.body.kind \in {"json", "stream"} THEN Mentions(op.body.type) ELSE {})
    \cup UNION {Mentions(op.types[c][1]) : c \in {d \in DOMAIN op.types : op.types[d] # << >>}}
    \cup UNION {Mentions(InputFields(op)[i].type) : i \in DOMAIN InputFields(op)}

\* The variables stay in their sets, and the generated files are closed:
\* every type a declaration or a method mentions is declared.
TypeOK ==
  /\ api \in APIs
  /\ Len(ops) <= Len(doc) /\ Len(doc) <= Len(api.documented)
  /\ answer # Nothing => call # Nothing /\ answer.status \in 100..599
  /\ result # Nothing => answer # Nothing /\ result.kind \in {"returned", "error"}
  /\ reg # Nothing =>
       /\ DOMAIN reg.types \subseteq reg.names
       /\ \A n \in DOMAIN reg.types : Mentions(reg.types[n]) \subseteq DOMAIN reg.types
       /\ \A i \in DOMAIN ops : Uses(ops[i]) \subseteq DOMAIN reg.types

\* The declared types and the Params structs share no name with each other,
\* nor with the runtime file; no two methods share one, and no two fields of
\* a Params struct do, the parameters and the body each among themselves:
\* claims made in different passes, over names that come from routes, tags,
\* operation ids and Go types, never meet.
NamesDistinct ==
  LET params == {i \in DOMAIN ops : ops[i].paramsType # << >>}
      distinct(fields) == \A i, j \in DOMAIN fields : fields[i].field = fields[j].field => i = j
  IN  reg # Nothing =>
        /\ DOMAIN reg.types \cap ReservedNames = {}
        /\ \A i \in params : ops[i].paramsType \notin DOMAIN reg.types \cup ReservedNames
        /\ \A i, j \in params : ops[i].paramsType = ops[j].paramsType => i = j
        /\ \A i, j \in DOMAIN ops : ops[i].name = ops[j].name => i = j
        /\ \A i \in DOMAIN ops : distinct(ops[i].params) /\ distinct(ops[i].body.fields)

\* The document tells all that is to be told of the value.  It does not of
\* null, which it has no type for but as a member that is missing; of a []byte,
\* which it calls an array; of an embedded struct, which it calls a member; of a
\* struct whose name another one has; and of an empty list that may be missing,
\* which the client leaves out.
RECURSIVE Told(_, _, _)
Told(schemas, t, j) ==
  LET member(f) ==
        f.name \in DOMAIN j.obj =>
          /\ Told(schemas, f.type, j.obj[f.name])
          /\ ~AlwaysThere(f) => j.obj[f.name] # [arr |-> << >>]
  IN  /\ j # Null
      /\ \/ t.k = "scalar"
         \/ t.k = "ptr" /\ Told(schemas, t.to, j)
         \/ t.k = "slice" /\ \A i \in DOMAIN j.arr : Told(schemas, t.of, j.arr[i])
         \/ t.k = "union" /\ \E i \in DOMAIN t.variants :
              t.variants[i].value = TagOf(t, j) /\ Told(schemas, t.variants[i].type, j)
         \/ /\ t.k = "struct"
            /\ t.name # "" => schemas[t.name] = StructSchema(t)
            /\ \A i \in DOMAIN t.fields : ~t.fields[i].embedded /\ member(t.fields[i])

Schemas(endpoints) == FoldLeft(Components, Empty, endpoints)

\* What a field is to hold when the caller passed raw: the client's nil and
\* the server's are one.  In the query and the headers a pointer to "" and a
\* list are not carried, in the path a value that needs an escape is not.
Carried(f, raw) ==
  /\ Source(f) = "path" => \A i \in DOMAIN raw : raw[i] \in DOMAIN PathEscape /\ PathEscape[raw[i]] = raw[i]
  /\ Source(f) \in {"query", "header"} /\ f.type.k = "ptr" => raw # <<"">>
  /\ Source(f) \in {"query", "header"} /\ f.type.k = "slice" => raw = << >>

Wanted(f, raw) ==
  CASE f.type.k \in {"ptr", "slice", "files"} -> raw
    [] raw = << >>                            -> Zero(f.type)
    [] OTHER                                  -> raw[1]

\* A raw body is the caller's bytes, whatever AcceptsBody calls them.
WantedBody(f) ==
  IF call.op.body.kind \in {"json", "stream"} /\ f.type.k \notin {"bytes", "reader"}
  THEN Held(Empty, BodyType(Route[1]), call.intent) ELSE call.intent

\* The caller's argument for a field of the handler's struct: there is one
\* unless the API was changed since.
Passed(f) == ArgsIn(Source(f))[Key(f)]
HasPassed(f) == Key(f) \in DOMAIN ArgsIn(Source(f))

\* The reasons there are to refuse what a field was passed.
Refusable(f) ==
  IF Source(f) = "body"
  THEN \/ call.op.body.kind = "none"
       \/ call.op.body.contentType \in MultipartStreams
       \/ Held(Empty, BodyType(Route[1]), call.intent) = Broken
       \/ ~Told(Schemas(api.served), BodyType(Route[1]), call.intent)
  ELSE LET raw == Passed(f) IN
       \/ ~HasPassed(f)
       \/ Elem(f.type) = Scalar("int8") /\ "big" \in ToSet(raw)
       \/ f.type.k = "slice" /\ Source(f) \in {"query", "header"} /\ raw # << >>
       \/ f.type.k = "file" /\ raw = << >>
       \/ f.contentTypes # << >> /\ ToSet(raw) \ ToSet(f.contentTypes) # {}

\* The handler has, in every field of its struct, what the caller set in the
\* field the generator made of it, through document, names, formatting, wire
\* and binding; or the call is refused, and an argument gave reason to.
CallArrives ==
  LET fields == SelectSeq(Route[1].fields, LAMBDA f : Source(f) # "none")
      arrived(i) ==
        LET f == fields[i] IN
        IF Source(f) # "body"
        THEN HasPassed(f) /\ Carried(f, Passed(f)) => answer.params[i] = Wanted(f, Passed(f))
        ELSE f.type.k \in {"bytes", "reader"} \/ Told(Schemas(api.served), BodyType(Route[1]), call.intent) =>
               answer.params[i] = WantedBody(f)
  IN  /\ answer # Nothing /\ answer.kind = "handled" => \A i \in DOMAIN fields : arrived(i)
      /\ answer # Nothing /\ answer.kind = "refused" => \E i \in DOMAIN fields : Refusable(fields[i])

\* The type the server's endpoint gives to the body of a status, if any.
DeclaredType(status) ==
  LET ds == SelectSeq(Route[1].responses, LAMBDA d : d.status = status /\ d.kind \in {"json", "stream"})
  IN  IF ds = << >> THEN << >> ELSE <<Last(ds).type>>

\* Of an endpoint as it was documented: its successes, and whether an answer is
\* one that its method returns, of a stream only the lowest success, which streams.
Successes(ep) == {status \in {ep.responses[i].status : i \in DOMAIN ep.responses} : IsSuccess(status)}

Awaited(ep, status) ==
  LET streams == \E i \in DOMAIN ep.responses :
                   ep.responses[i].status = Min(Successes(ep)) /\ ep.responses[i].kind \in {"stream", "sse", "mixed"}
  IN  CASE Successes(ep) = {}                  -> IsSuccess(status)
        [] Successes(ep) # {} /\ streams       -> status = Min(Successes(ep))
        [] Successes(ep) # {} /\ ~streams      -> status \in Successes(ep)

\* A method returns just when the server answered with a success its endpoint
\* was documented with, or with any when it was with none; every other answer is
\* an error, a 2xx that is not documented and a further success of a stream
\* among them (clientgen.md:117).  Of the lowest success it returns what the
\* handler answered, of the others nothing; an error has a value only for an
\* error status that was documented, the one the handler answered.  Two things
\* are excepted: a body the document does not tell (see Told), which may come
\* to an error or to less than was answered, and a problem in the place of a
\* documented body, whose members are read as that body's.
ResultTruthful ==
  LET status == answer.status
      documented == EndpointOf(api.documented, call.op)[1]
      type == DeclaredType(status)
      declared == answer.kind = "handled" /\ answer.type # "problem" /\ type # << >>
      told == declared => Told(Schemas(api.served), type[1], answer.body[1])
      known == \E i \in DOMAIN documented.responses : documented.responses[i].status = status
      lowest == Successes(documented) # {} /\ status = Min(Successes(documented))
  IN  result # Nothing =>
        /\ ~Awaited(documented, status) => result.kind = "error"
        /\ Awaited(documented, status) /\ told => result.kind = "returned"
        /\ result.kind = "returned" /\ lowest /\ told => result.value = answer.body
        /\ result.kind = "returned" /\ ~lowest => result.value = << >>
        /\ result.kind = "error" /\ result.value # << >> => known /\ ~IsSuccess(status)
        /\ result.kind = "error" /\ known /\ ~IsSuccess(status) /\ declared /\ told
             => result.value = answer.body

\* Escaped or not, the path values of a call arrive as the caller gave them.
PathArrives ==
  answer # Nothing /\ answer.kind = "handled" =>
    LET fields == SelectSeq(Route[1].fields, LAMBDA f : Source(f) # "none")
    IN  \A i \in DOMAIN fields : Source(fields[i]) = "path" /\ HasPassed(fields[i])
          => answer.params[i] = Wanted(fields[i], Passed(fields[i]))

=============================================================================
