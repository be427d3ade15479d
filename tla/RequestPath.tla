------------------------------- MODULE RequestPath -------------------------------
(***************************************************************************)
(* The way of a request through a router: the middleware of Router.Use     *)
(* (cors, auth and the output cache in any order), the ServeMux, the       *)
(* middleware of the endpoint, the binding of its inputs and the handler.  *)
(*                                                                         *)
(* Routes are registered first, through groups whose options cascade; then *)
(* requests are served one after the other, a step per layer.  Cors, Auth  *)
(* and Binding say what their layers do; the cache is its middleware alone *)
(* (OutputCache has its timing and the stores).                            *)
(*                                                                         *)
(* A route's pattern is "one" (a literal path), "any" ("/{id}") or "tree"  *)
(* ("/"), a request's path "one" or "two"; a key is <<method, pattern>>.   *)
(* An option is [kind, ...]: "security" and "optional" add a requirement,  *)
(* "none" is NoSecurity, "middleware" adds one, "cache" opts in to the     *)
(* output cache, byOrigin with VaryByHeader("Origin").  The status of an   *)
(* answer is what a layer hands to WriteHeader: net/http panics on one     *)
(* outside 100..999, and the call unwinds without storing it.              *)
(***************************************************************************)
EXTENDS Cors, Auth, Binding, SequencesExt

CONSTANTS
  Layers,         \* the orders in which Router.Use may have added its middleware
  GroupLists,     \* the options one Group may pass
  OptionLists,    \* the options one registration may pass
  Keys,           \* the routes registered as endpoints
  RawKeys,        \* the routes registered with Handle, HandleFunc, Static or SPA
  CorsOptions,
  Documented,     \* values of Generator.Security
  Hooks,          \* what WithBindError and auth.Config.Problem may do of a problem
  Fields,         \* the Params struct of the handlers
  Requests,       \* [method, path, origin, asksMethod, cred, input]
  Names,          \* the middleware of groups and routes
  MaxInherited,   \* bound: options a group passes on
  MaxEndpoints,   \* bound: registered endpoints
  MaxRequests     \* bound: requests served

Methods == {"GET", "HEAD", "OPTIONS", "POST"}
Patterns == {"one", "any", "tree"}
UseLayers == {"cors", "auth", "cache"}

Requirement == UNION {[S -> {"any", "admin"}] : S \in (SUBSET Schemes) \ {{}}}

Option ==
  [kind : {"security"}, req : Requirement]
  \cup [kind : {"optional", "none"}]
  \cup [kind : {"cache"}, byOrigin : BOOLEAN]
  \cup [kind : {"middleware"}, name : Names]

ASSUME FieldsAssumption == Registers(Fields)

ASSUME RouterAssumption ==
  /\ Layers \subseteq Seq(UseLayers)
  /\ GroupLists \subseteq Seq(Option) /\ OptionLists \subseteq Seq(Option)
  /\ Names \cap (UseLayers \cup {"mux", "raw", "handler"}) = {}
  /\ Keys \subseteq Methods \X Patterns
  /\ RawKeys \subseteq Methods \X Patterns
  /\ CorsOptions \subseteq [hasFunc : BOOLEAN, func : SUBSET Origins,
                            entries : Seq(SUBSET Origins), credentials : BOOLEAN]
  /\ Hooks \subseteq Hook
  /\ MaxRequests \in Nat

ASSUME RequestsAssumption ==
  \A r \in Requests :
    /\ r.method \in Methods /\ r.path \in {"one", "two"} /\ r.asksMethod \in BOOLEAN
    /\ r.origin \in Origins \cup {NoOrigin}
    /\ r.cred \in [Schemes -> {"absent", "invalid", "plain", "admin"}]

VARIABLES
  conf,       \* the order of the middleware and their options
  group,      \* the options of the current group, its parents' first
  endpoints,  \* Router.endpoints
  declared,   \* history: per endpoint, the options it was registered with
  mux,        \* the ServeMux: key, and the index of the endpoint, 0 for a raw handler
  served,     \* requests served
  req,        \* the request being served, or Idle
  layers,     \* the layers it has yet to enter
  entered,    \* history: the layers it has entered
  headers,    \* CORS part of the response's header map
  principals, \* the schemes whose principals the context holds
  recording,  \* the key the cache will store the response under, or none
  answer,     \* the response, or Idle
  stored      \* the cache: key |-> headers and principals of a stored response

setup == <<conf, group, endpoints, declared, mux>>
vars == <<conf, group, endpoints, declared, mux, served, req, layers, entered, headers,
          principals, recording, answer, stored>>

Idle == [status |-> 0]

Init ==
  /\ conf \in [use : Layers, cors : CorsOptions, security : Documented]
  /\ group = << >>
  /\ endpoints = << >>
  /\ declared = << >>
  /\ mux = {}
  /\ served = 0
  /\ req = Idle
  /\ layers = << >>
  /\ entered = << >>
  /\ headers = NoHeaders
  /\ principals = {}
  /\ recording = << >>
  /\ answer = Idle
  /\ stored = [k \in {} |-> Idle]

-----------------------------------------------------------------------------
(* Registration *)

Apply(ep, opt) ==
  CASE opt.kind = "security"   -> [ep EXCEPT !.security = Append(@, opt.req)]
    [] opt.kind = "optional"   -> [ep EXCEPT !.security = Append(@, Anonymous)]
    [] opt.kind = "none"       -> [ep EXCEPT !.security = << >>, !.override = TRUE]
    [] opt.kind = "middleware" -> [ep EXCEPT !.middleware = Append(@, opt.name)]
    [] opt.kind = "cache"      -> [ep EXCEPT !.cached = TRUE, !.byOrigin = opt.byOrigin]

FreshEndpoint(key) ==
  [key |-> key, security |-> << >>, override |-> FALSE, middleware |-> << >>, cached |-> FALSE,
   byOrigin |-> FALSE]

serving == <<served, req, layers, entered, headers, principals, recording, answer, stored>>

NotServing == req = Idle /\ served = 0

\* Router.Group: a group has the options it is given.  What is registered on
\* the router itself is as in a group without options.
RouterGroup(opts) ==
  /\ NotServing
  /\ Len(endpoints) < MaxEndpoints
  /\ Len(opts) <= MaxInherited
  /\ group' = opts
  /\ UNCHANGED <<conf, endpoints, declared, mux, serving>>

\* Group.Group: the child has its parent's options and its own.
NestGroup(opts) ==
  /\ NotServing
  /\ Len(endpoints) < MaxEndpoints
  /\ Len(group) + Len(opts) <= MaxInherited
  /\ group' = group \o opts
  /\ UNCHANGED <<conf, endpoints, declared, mux, serving>>

\* The endpoint that options make of a fresh one, applied in turn.
Configured(key, options) ==
  LET applied[k \in 0..Len(options)] ==
        IF k = 0 THEN FreshEndpoint(key) ELSE Apply(applied[k - 1], options[k])
  IN  applied[Len(options)]

\* Patterns: a literal path is narrower than a variable, and that than a tree;
\* HEAD is narrower than GET, which serves it too.
Depth(pattern) == CASE pattern = "one" -> 3 [] pattern = "any" -> 2 [] pattern = "tree" -> 1

MethodWithin(m, n) == m = n \/ (m = "HEAD" /\ n = "GET")

Within(key, other) == MethodWithin(key[1], other[1]) /\ Depth(key[2]) >= Depth(other[2])

\* The mux panics on two patterns that take a request in common and neither
\* of which is narrower than the other, and the program with it.
Clash(key, other) ==
  /\ MethodWithin(key[1], other[1]) \/ MethodWithin(other[1], key[1])
  /\ key = other \/ ~(Within(key, other) \/ Within(other, key))

Registrable(key) == \A e \in mux : ~Clash(key, e.key)

\* Mutant: the route's options are applied before the group's.
RegisterRouteFirst(key, opts) ==
  /\ NotServing
  /\ Len(endpoints) < MaxEndpoints
  /\ Registrable(key)
  /\ endpoints' = Append(endpoints, Configured(key, opts \o group))
  /\ declared' = Append(declared, group \o opts)
  /\ mux' = mux \cup {[key |-> key, endpoint |-> Len(endpoints) + 1]}
  /\ UNCHANGED <<conf, group, serving>>

\* Mutant: the mux is given the index after the endpoint's.
RegisterPast(key, opts) ==
  /\ NotServing
  /\ Len(endpoints) < MaxEndpoints
  /\ Registrable(key)
  /\ endpoints' = Append(endpoints, Configured(key, group \o opts))
  /\ declared' = Append(declared, group \o opts)
  /\ mux' = mux \cup {[key |-> key, endpoint |-> Len(endpoints) + 2]}
  /\ UNCHANGED <<conf, group, serving>>

\* register: the group's options, then the route's.
Register(key, opts) ==
  /\ NotServing
  /\ Len(endpoints) < MaxEndpoints
  /\ Registrable(key)
  /\ endpoints' = Append(endpoints, Configured(key, group \o opts))
  /\ declared' = Append(declared, group \o opts)
  /\ mux' = mux \cup {[key |-> key, endpoint |-> Len(endpoints) + 1]}
  /\ UNCHANGED <<conf, group, serving>>

RegisterRaw(key) ==
  /\ NotServing
  /\ Registrable(key)
  /\ mux' = mux \cup {[key |-> key, endpoint |-> 0]}
  /\ UNCHANGED <<conf, group, endpoints, declared, serving>>

-----------------------------------------------------------------------------
(* The ServeMux *)

Takes(key, r) == MethodWithin(r.method, key[1]) /\ (key[2] # "one" \/ r.path = "one")

\* The entry that would serve r, if any: of those that take it the narrowest.
Resolve(r) ==
  LET taking == {e \in mux : Takes(e.key, r)}
  IN  {e \in taking : \A f \in taking : Within(e.key, f.key)}

\* Mutant: the endpoint is looked up by its path alone.
MatchByPath(r) ==
  {i \in DOMAIN endpoints : endpoints[i].key[2] # "one" \/ r.path = "one"}

\* Router.Match: the endpoints whose pattern is the one that serves r.
Match(r) == {i \in DOMAIN endpoints : \E e \in Resolve(r) : e.key = endpoints[i].key}

\* SecurityOf: the requirements to enforce, if the endpoint declares any.
SecurityOf(i) == endpoints[i].security

\* operationSecurity: what the document says of the endpoint.
OperationSecurity(i) ==
  IF endpoints[i].security = << >> /\ ~endpoints[i].override THEN conf.security
  ELSE endpoints[i].security

-----------------------------------------------------------------------------
(* Serving *)

\* ServeHTTP composes the middleware around the mux, the first outermost.
Arrive(r) ==
  /\ req = Idle
  /\ endpoints # << >>
  /\ served < MaxRequests
  /\ req' = r
  /\ served' = served + 1
  /\ layers' = Append(conf.use, "mux")
  /\ entered' = << >>
  /\ headers' = NoHeaders
  /\ principals' = {}
  /\ UNCHANGED <<setup, recording, answer, stored>>

Serving(layer) == req # Idle /\ answer = Idle /\ layers # << >> /\ Head(layers) = layer

Enter(layer) == Serving(layer) /\ entered' = Append(entered, layer)

Answer(status, h, body) ==
  /\ answer' = [status |-> status, headers |-> h, body |-> body]
  /\ headers' = h
  /\ layers' = << >>
  /\ UNCHANGED <<setup, served, req, recording, stored, principals>>

GoOn(h, who) ==
  /\ layers' = Tail(layers)
  /\ headers' = h
  /\ principals' = who
  /\ UNCHANGED <<setup, served, req, recording, answer, stored>>

CorsPasses ==
  /\ Enter("cors")
  /\ ~Allows(req.origin, conf.cors)
  /\ GoOn(headers, principals)

CorsAdds ==
  /\ Enter("cors")
  /\ Allows(req.origin, conf.cors)
  /\ ~IsPreflight(req)
  /\ GoOn(CorsHeaders(headers, req.origin, conf.cors), principals)

CorsAnswersPreflight ==
  /\ Enter("cors")
  /\ Allows(req.origin, conf.cors)
  /\ IsPreflight(req)
  /\ Answer(204, PreflightHeaders(CorsHeaders(headers, req.origin, conf.cors)), "preflight")

Guarded == \E i \in Match(req) : SecurityOf(i) # << >>

AuthPasses ==
  /\ Enter("auth")
  /\ ~Guarded
  /\ GoOn(headers, principals)

AuthDecides ==
  /\ Enter("auth")
  /\ \E i \in Match(req) : \E d \in Authorize(SecurityOf(i), req.cred) :
       /\ SecurityOf(i) # << >>
       /\ IF d.pass THEN GoOn(headers, IF d.principals = {} THEN principals ELSE d.principals)
          ELSE \E hook \in Hooks : Answer(Shape(d.status, hook), headers, d.type)

\* GenerateKey of method, path and the headers varied by, here the Origin
\* header, which adds nothing when it is empty.
CacheKey ==
  <<req.method, req.path,
    IF \E i \in Match(req) : endpoints[i].byOrigin THEN req.origin ELSE NoOrigin>>

\* shouldCache with the default configuration, of the methods modelled here.
Excluded == {"POST"}

Caches == req.method \notin Excluded /\ \E i \in Match(req) : endpoints[i].cached

CachePasses ==
  /\ Enter("cache")
  /\ ~Caches
  /\ GoOn(headers, principals)

\* serveCachedResponse adds the stored headers to those on the writer.
CacheHits ==
  /\ Enter("cache")
  /\ Caches
  /\ CacheKey \in DOMAIN stored
  /\ LET s == stored[CacheKey] IN
     Answer(s.status,
            [origin |-> headers.origin \o s.headers.origin,
             vary |-> headers.vary \o s.headers.vary,
             credentials |-> headers.credentials \/ s.headers.credentials,
             preflight |-> headers.preflight \/ s.headers.preflight],
            "stored")

CacheMisses ==
  /\ Enter("cache")
  /\ Caches
  /\ CacheKey \notin DOMAIN stored
  /\ recording' = CacheKey
  /\ layers' = Tail(layers)
  /\ UNCHANGED <<setup, served, req, headers, principals, answer, stored>>

\* The mux answers 404 or 405 when no pattern takes the request.
MuxRejects ==
  /\ Enter("mux")
  /\ Resolve(req) = {}
  /\ Answer(404, headers, "mux")

MuxDispatches ==
  /\ Enter("mux")
  /\ \E e \in Resolve(req) :
       layers' = IF e.endpoint = 0 THEN <<"raw">>
                 ELSE endpoints[e.endpoint].middleware \o <<"handler">>
  /\ UNCHANGED <<setup, served, req, headers, principals, recording, answer, stored>>

\* A middleware of the endpoint's own that calls the next handler.
EndpointMiddleware ==
  /\ req # Idle /\ answer = Idle /\ layers # << >>
  /\ Head(layers) \notin {"cors", "auth", "cache", "mux", "raw", "handler"}
  /\ entered' = Append(entered, Head(layers))
  /\ GoOn(headers, principals)

RawHandler ==
  /\ Enter("raw")
  /\ Answer(200, headers, "raw")

BindResult == Bind(Fields, req.input, 1)

\* Mutant: a hook's zero status is written.
BindStatusZero(hook) == IF hook.kind = "returns" THEN hook.status ELSE 400

\* writeBindError: the status of the problem the hook returns, 400 when that is
\* zero; a hook that returns nil has no hold on the default problem.
BindStatus(hook) ==
  IF hook.kind = "returns" /\ hook.status # 0 THEN hook.status ELSE 400

BindFails ==
  /\ Enter("handler")
  /\ ~BindResult.ok
  /\ \E hook \in Hooks : Answer(BindStatus(hook), headers, "bind")

Handle ==
  /\ Enter("handler")
  /\ BindResult.ok
  /\ Answer(200, headers, "handler")

\* The call returns through the layers: a recorded 2xx response is stored
\* with every header that is on the writer by then.
Return ==
  /\ answer # Idle
  /\ stored' = IF recording # << >> /\ answer.status \in 200..299
               THEN [k \in DOMAIN stored \cup {recording} |->
                       IF k = recording THEN [status |-> answer.status, headers |-> answer.headers]
                       ELSE stored[k]]
               ELSE stored
  /\ req' = Idle
  /\ answer' = Idle
  /\ recording' = << >>
  /\ layers' = << >>
  /\ entered' = << >>
  /\ headers' = NoHeaders
  /\ principals' = {}
  /\ UNCHANGED <<setup, served>>

Configure ==
  \/ \E opts \in GroupLists \cup {<< >>} : RouterGroup(opts)
  \/ \E opts \in GroupLists : NestGroup(opts)
  \/ \E key \in Keys, opts \in OptionLists : Register(key, opts)
  \/ \E key \in RawKeys : RegisterRaw(key)

ServeStep ==
  \/ CorsPasses \/ CorsAdds \/ CorsAnswersPreflight
  \/ AuthPasses \/ AuthDecides
  \/ CachePasses \/ CacheHits \/ CacheMisses
  \/ MuxRejects \/ MuxDispatches
  \/ EndpointMiddleware \/ RawHandler \/ BindFails \/ Handle
  \/ Return

Next == Configure \/ (\E r \in Requests : Arrive(r)) \/ ServeStep

Spec == Init /\ [][Next]_vars

-----------------------------------------------------------------------------
(* Properties *)

Answered == answer # Idle

\* The state of the router and of the request that is being served.
TypeOK ==
  /\ conf.use \in Layers
  /\ Len(declared) = Len(endpoints)
  /\ \A e \in mux : e.endpoint \in 0..Len(endpoints)
  /\ served \in 0..MaxRequests
  /\ req \in Requests \cup {Idle}
  /\ principals \subseteq Schemes
  /\ DOMAIN stored \subseteq {<<r.method, r.path, o>> : r \in Requests, o \in Origins \cup {NoOrigin}}

\* The requirements among options that the last NoSecurity left.
Requirements(options) ==
  LET cuts == {k \in DOMAIN options : options[k].kind = "none"}
  IN  {options[k] : k \in {j \in DOMAIN options : /\ options[j].kind \in {"security", "optional"}
                                                 /\ \A c \in cuts : c < j}}

Holds(option, cred) ==
  option.kind = "security" =>
    \A s \in DOMAIN option.req :
      s \in Verified /\ (cred[s] = "admin" \/ (cred[s] = "plain" /\ option.req[s] = "any"))

\* What dispatch serves req with: endpoint indices, 0 for a raw handler.
Serves == {e.endpoint : e \in Resolve(req)}

\* The request being served may run a route of these options, and the context
\* holds the principals of a requirement that lets it.
Admitted(options) ==
  LET needs == Requirements(options)
      held  == {o \in needs : Holds(o, req.cred)}
  IN  /\ needs # {} => held # {}
      /\ principals # {} => \E o \in held : o.kind = "security" /\ DOMAIN o.req = principals
      /\ principals = {} => needs = {} \/ \E o \in held : o.kind = "optional"

\* Once the auth layer has been entered, an endpoint runs, or its stored
\* response is served, only if one requirement declared for it holds of the
\* request's credentials; and the principals in the context are those of one
\* requirement that holds, never of one that was tried and failed.  The
\* requirements are taken from the options in the order of the cascade, the
\* endpoint from the mux, not from Match (auth.go:63, options.go:129).
GuardedRuns ==
  Answered /\ answer.body \in {"handler", "bind", "stored"} /\ "auth" \in ToSet(entered) =>
    \A i \in Serves \ {0} : Admitted(declared[i])

Permitted == IF conf.cors.hasFunc THEN req.origin \in conf.cors.func
             ELSE \E i \in DOMAIN conf.cors.entries : req.origin \in conf.cors.entries[i]

\* A response that is not the cache's names exactly the origin of its own
\* request, or "*" when credentials are off, and only for an origin the
\* options permit; every response that names one, a stored one too, varies by
\* Origin and never pairs "*" with credentials.  A stored response may name
\* the origin it was made for, unless its route's cache varies by Origin: then
\* it names no origin but the one that asks (cors.go:57, key.go:62).
OriginAnswered ==
  Answered =>
    /\ answer.body # "stored" =>
         answer.headers.origin \in
           IF "cors" \in ToSet(entered) /\ req.origin # NoOrigin /\ Permitted
           THEN {<<req.origin>>} \cup IF conf.cors.credentials THEN {} ELSE {<<Star>>}
           ELSE {<< >>}
    /\ answer.headers.origin # << >> => "Origin" \in ToSet(answer.headers.vary)
    /\ Star \in ToSet(answer.headers.origin) => ~answer.headers.credentials
    /\ req.origin # NoOrigin /\ (\E i \in Serves \ {0} : endpoints[i].byOrigin) =>
         ToSet(answer.headers.origin) \subseteq {req.origin, Star}

\* names are those of the middleware among options, each once and in order.
InOrder(names, options) ==
  LET those == {j \in DOMAIN options : options[j].kind = "middleware"}
  IN  \E at \in [DOMAIN names -> those] :
        /\ \A k, l \in DOMAIN names : k < l => at[k] < at[l]
        /\ \A j \in those : \E k \in DOMAIN names : at[k] = j
        /\ \A k \in DOMAIN names : names[k] = options[at[k]].name

\* A request goes through the middleware of Use in the order it was added,
\* then through those of the groups from the outermost in, then through the
\* route's own, and reaches the handler through all of them or not at all
\* (router.go:69, 161).
LayersInOrder ==
  Answered /\ "mux" \in ToSet(entered) =>
    \A i \in Serves \ {0} :
      LET own == SubSeq(entered, Len(conf.use) + 2, Len(entered) - 1)
      IN  /\ entered = conf.use \o <<"mux">> \o own \o <<"handler">>
          /\ InOrder(own, declared[i])

\* A preflight of a permitted origin is answered by the cors layer, without
\* credentials and whatever the guard on the route it asks about; only an auth
\* layer outside it refuses one, for an OPTIONS route that is itself guarded,
\* or a cache outside it that has stored an answer, OPTIONS being a method
\* it stores by default (cors.go:94, config.go:51).
PreflightAnswered ==
  Answered /\ "cors" \in ToSet(conf.use)
  /\ IsPreflight(req) /\ req.origin # NoOrigin /\ Permitted =>
    \/ answer.body = "preflight" /\ answer.status = 204 /\ answer.headers.preflight
    \/ answer.body = "stored"
    \/ /\ "cors" \notin ToSet(entered)
       /\ \E i \in Serves \ {0} : endpoints[i].key[1] = "OPTIONS" /\ Requirements(declared[i]) # {}

AuthRefusals == {"invalid_credentials", "forbidden", "unauthenticated"}

\* The status of each outcome in the documentation of auth (auth.md:115).
DefaultStatus(refusal) ==
  IF refusal = "forbidden" THEN 403 ELSE 401

\* The statuses hooks choose with a problem they return, and those they leave
\* in the problem they were given.
Returned == {hook.status : hook \in {g \in Hooks : g.kind = "returns"}} \ {0}
Left == {hook.status : hook \in {g \in Hooks : g.kind = "changes"}}

\* A refusal has the status of its cause or one that a hook has chosen,
\* whatever that is; no answer has the status zero but a refusal of auth, and
\* that only when a hook clears the problem it was given and returns nil, which
\* by auth/config.go:24 is to write the default problem; and
\* a handler runs only with every required form field and file of its Params
\* in the request (handler.go:100, auth.go:154, bind.go:196).
StatusWritten ==
  Answered =>
    /\ answer.status = 0 => answer.body \in AuthRefusals /\ 0 \in Left
    /\ answer.body = "bind" => answer.status \in {400} \cup Returned
    /\ answer.body \in AuthRefusals =>
         answer.status \in {DefaultStatus(answer.body)} \cup Returned \cup Left
    /\ answer.body = "handler" =>
         \A i \in DOMAIN Fields :
           /\ Source(Fields[i]) = "form" /\ Fields[i].type.k \notin {"ptr", "slice"} =>
                Fields[i].tags["form"] \in DOMAIN req.input.form
           /\ Source(Fields[i]) = "file" /\ Fields[i].type.k = "file" =>
                Fields[i].tags["file"] \in DOMAIN req.input.files

\* The documentation of auth says the documented contract and the runtime
\* gate are always the same: an endpoint that the document says needs
\* credentials does not run without them.
ContractIsGate ==
  Answered /\ answer.body = "handler" /\ "auth" \in ToSet(conf.use) =>
    \A i \in Serves \ {0} :
      OperationSecurity(i) # << >> =>
        \E k \in DOMAIN OperationSecurity(i) :
          Holds([kind |-> "security", req |-> OperationSecurity(i)[k]], req.cred)

=============================================================================
