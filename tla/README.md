# minmux, verified: models and proofs

TLA+ modules that model minmux, its router and middleware, its streams, its
output cache and compression, and the chain from Go types to a generated client;
TLC configurations that model-check them on small instances; and theorems about
the stores, the cache, compression and the way of a request through router,
authentication and CORS that TLAPS checks.
Paths are those of the repository; `inmemory.go:40` is
`outputcache/inmemory/inmemory.go`, line 40.

    tlc -config MemoryStore_safety.cfg MCMemoryStore.tla
    tlapm MemoryStoreProofs.tla

## 1. Inventory

minmux is a typed router over `net/http` with middleware packages around it.
Everything at run time happens on the goroutine of a request; what is shared
between requests is listed under *state*.

| part | state it keeps | operations | what is hard | what makes it correct |
|---|---|---|---|---|
| `outputcache/inmemory` | a map of entries and a tag index behind one RWMutex; entries are shared through pointers | `Get`, `Set`, `Delete`, `Clear`, `InvalidateTag(s)`, a cleanup goroutine | `Get` is up to three critical sections and an unlocked read; the sweep judges by an earlier clock; index and map drift apart | an invalidated entry is never found again; leases are respected; fresh entries survive |
| `outputcache` middleware | the storage, named profiles | lookup, replay or 304, record, store; `InvalidateTag` from handlers | a miss spans the whole handler: mutations, profile changes and disconnects happen in between | what is stored is current and what a client was sent, as far as that can be promised |
| `outputcache/redis` | a Redis key space | as the in-memory store, over the network | several round trips per operation, none of them atomic together; partial pipelines | the same contract, weakened by the races |
| `compress` | per response a buffer and an encoder; per encoding and level a `sync.Pool` | `WriteHeader`, `Write`, `Flush`, `Hijack`, deferred `close` | the headers wait for the body; every order of calls is legal; encoders are shared | every byte once and in order, under the right headers; an encoder serves one response |
| `router.Recover` | none | recovers a panic, writes a 500 | runs after the deferred functions of inner middleware, and in the middle of streams | a panic before any output is a 500; a reader can tell a panic from an end |
| `router` routing | endpoints, the mux, the middleware list | register, `Use`, `Match`, groups | options cascade, and one discards the others; `Match` and the mux look up the same request twice | the options and the layers a request meets are its route's |
| `router` dispatch, binding | a binder per handler | bind path, query, header, form, file, body; problems | exclusive sources, required and absent, pointers and zero, hooks that return nothing | one answer per request, with a status; a bound value is what was sent |
| `router` stream writers | started/closed per writer | `Send`, `Part`, `Flush`, `Close` | headers go out before the first encoding error; a connection that breaks at any byte | values read back as they were sent, at once; an end without an error is the end |
| `auth` | verifiers | an OR-list of AND-sets of schemes | Go's arbitrary map order; the layers before and after | nobody is served whom no requirement admits |
| `cors` | options | preflight and actual requests | credentials and wildcards, `Vary`, a cache outside or inside | no origin is granted that is not allowed |
| `openapi` | none | derive a document from routes and types | types without a name or with the same one; what may be absent | a document a client can be made from |
| `clientgen` | the registry of names and types | declare components, build types, operations | names claimed in several passes must not collide | one name per thing; a client that says what the server understands |
| client runtime | one goroutine and pipe per streamed body | requests, results, streamed responses | the goroutine blocks on the pipe; escaping; results that are not what was documented | arguments arrive, results are what was answered, no goroutine outlives its request |
| `scalar`, static files | none | render, serve | none | — |

How they interact: middleware wraps the mux, the first `Use` outermost, and
sees the response through wrapped `http.ResponseWriter`s. The cache asks the
router which endpoint a request matches and reads that endpoint's options; it
calls its storage from every request goroutine. `compress` wraps the writer
the handler (and the cache's recorder) writes to. `Recover` is outermost and
runs last when a panic unwinds. `auth` and the cache look a request up with
`Router.Match` before the mux does; `openapi` reads what the routes declare, and
`clientgen` reads only the document; a generated client and the router meet
again on the wire.

Known hazards, each at its line and with the properties that would catch it
going wrong, are listed in `PROJECT.json` under `hazards`.

## 2. Modules

| module | models | extends / instantiates |
|---|---|---|
| `StorageContract` | what `outputcache.Storage` promises, whatever the backend | |
| `MemoryStore` | `outputcache/inmemory`, the detailed store | `INSTANCE StorageContract WITH` a refinement mapping |
| `MemoryStoreProofs`, `RedisStoreProofs`, `OutputCacheProofs`, `CompressWriterProofs`, `RequestPathProofs`, `StreamsProofs` | theorems about one module each | that module, `TLAPS` |
| `StreamsDeliveryProofs` | theorems about what `Streams` delivers | `StreamsProofs`, `Numbers` |
| `Numbers` | the least number of a set, induction | `WellFoundedInduction` |
| `RedisStore` | `outputcache/redis`, command by command | |
| `OutputCache` | `Cache.Middleware`, `responseRecorder`, profiles | |
| `CompressWriter` | the `compress` writer, its pool, the deferred close, `Recover` | |
| `Binding` | `router/bind.go`: the classification of a Params struct, the binding of each input | |
| `Cors`, `Auth` | what the two middlewares make of a request and their options | |
| `RequestPath` | groups, registration, the mux, the layers of `Use`, dispatch | `Cors`, `Auth`, `Binding` |
| `Wire` | the state two ends of a stream share, and the connection | |
| `ServerStreams` | `router/stream.go`, `Recover` in a stream, the iterators of `bind.go` | `Wire` |
| `ClientStreams` | the runtime's goroutine and pipe, the transport, its iterators | `Wire` |
| `Streams` | both ends together | `ServerStreams`, `ClientStreams` |
| `Document` | `openapi`: schemas, components, operations | `Binding` |
| `ClientGen` | `clientgen`: names, types, operations | `Document` |
| `JsonValues` | what `encoding/json` and the generated types keep of a value | `ClientGen` |
| `Contract` | document, generate, call, bind, answer, result | `JsonValues` |
| `MCMemoryStore`, `MCRedisStore`, `MCOutputCache`, `MCCompressWriter`, `MCRequestPath`, `MCStreams`, `MCContract` | constants and symmetry for TLC | one module each |

In every module an operator marked `Mutant:` is a plausible bug of the
operator after it; nothing uses it but the checks that the properties can fail.

### MemoryStore

One action per critical section, and one for each thing a goroutine does
between two of them. `heap` is the set of `*CachedResponse` ever built, an
address per response; `cache` maps keys to addresses, `tagIndex` counts how
often each key occurs under each tag (the order of the slice is never
observable: `Delete` removes one occurrence, invalidation all of them).

| action | code |
|---|---|
| `SetBegin`, `SetCommit` | the caller builds a response and `Set` stamps `ExpiresAt`; the locked section |
| `GetLookup`, `GetNow`, `GetCheck`, `GetDelete`, `GetSlide` | `Get`: read-locked lookup, `time.Now()`, the unlocked read of `ExpiresAt`, the call of `Delete`, the locked extension |
| `Delete`, `Clear`, `InvalidateTag`, `InvalidateTags` | one locked section each |
| `SweepBegin`, `Sweep` | the ticker and `cleanup`'s clock reading; its locked section |
| `StopCleanup`, `SweeperExit` | the function `StartCleanup` returns; the select that sees the closed channel |

The unlocked read in `GetCheck` is a data race with the write in `GetSlide`. A
`time.Time` is three words, but both values come from `time.Now()` and carry a
monotonic reading, and `After` then compares one word; so the read returns the
old or the new instant, which interleaving the two actions gives.

### StorageContract and the refinement

The contract has responses, named by number and labelled with tags; `Set`
makes a pending response findable, entries may be lost at any time, and
`InvalidateTags` removes every entry that carries a tag — perhaps others too.
`invalidated` remembers what was removed. `MemoryStore` maps its heap to the
labels, goroutines inside `Set` to the pending responses and goroutines inside
`Get` to what they hold; stale index entries, the sweep and the races inside
`Get` all become entries lost.

The contract lets an invalidation take too much because the store does: index
entries that a sweep leaves behind make it drop an entry stored later under
other tags. `ExactInvalidation` shows this happens only if a key's tags change.

### RedisStore

Redis runs one command at a time, so a command is a step, and the commands of
other goroutines and processes run between those of one call; a pipeline is no
transaction. `data` holds the data keys, `members` the tag keys.

| action | code |
|---|---|
| `GetSliding`, `GetExpire` | `Get`: GET of a sliding entry; EXPIRE of whatever the key holds by then |
| `SetBegin`, `SetTag`, `SetReply` | `Set`'s pipeline: SET, one SADD per tag, the answer |
| `InvalidateBegin`, `InvalidateDelete`, `InvalidateDrop`, `InvalidateReply` | `InvalidateTag`: SMEMBERS; DEL per member; DEL of the tag's key; the answer |
| `ClearBegin`, `ClearDelete`, `ClearDeleteTag`, `ClearSkip`, `ClearReply` | the SCAN loop of `Clear`, key by key, and a DEL whose error it drops |
| `SetResend`, `InvalidateResend`, `Fail`, `Lapse` | go-redis repeating what got no answer; a connection or context that ends; a TTL that runs out |

A TTL is modelled by the response it was computed from, and a key may expire at
any time. `raced`, `exposed`, `survivors`, `uncleared` and the field `doomed`
are history. The store does not implement `StorageContract`: `survivors`
collects the pairs of a response and a tag such that an invalidation of the tag
left the response although it was stored before the call. `SurvivorsRaced` is the
contract that remains: the listing of this response under this tag had been put at
risk (`raced`), by an invalidation of the tag that ran beside the response's Set, by a
Clear that dropped the tag, or by a Set that failed before it listed the key there.
The invalidation that put it at risk may be an earlier one than the one that is
outlived, as the run `redis_store_orphan` shows.

### OutputCache

The middleware on a storage that behaves as the contract says, each storage
call one step. A GET is `Arrive` (method check, `Match`, options, key), then
`Hit` or `Miss`, handler steps (`RecorderWriteHeader`, `RecorderWrite`,
`RecorderReadFrom`, `Disconnect`, `HandlerReturns`, `HandlerPanics`) and
`Store`. A POST is `Mutate` and `InvalidateTag`, in the order of
`www/docs/caching/outputcache.md`. The body is a number of chunks of one
version of the data, since the properties only tell apart how old a response
is and how much of it there is. `HandlerReturns` may come at any time: a handler
gives up for reasons of its own, too, and nobody tells the recorder.
`RecorderReadFrom` copies any number of chunks from a source that then ends or fails.
`began`, `floor`, `epoch` and the fields of `Entry` and `Recorder` so marked are history.

### CompressWriter

The calls of one handler are sequential, so each method is one action and each
helper of the code (`commitPlain`, `commitEncoded`, `close`, `WriteHeader`) an
operator from one state of a response to the next. The connection of
`net/http` is the part of a response that records what was sent: the first
final status fixes the headers, a body byte sends 200 if nothing was sent, a
204 drops its body. Encoders are shared: `encoder[e].target` is the writer an
encoder was last reset to and `pending` what it holds back. `Negotiate` and
`compressible` are not modelled: whether a response accepts gzip and which content
headers it has (`Contents`) is chosen freely. `Panic` runs `close` and
then `Recover`, as defers do.

### RequestPath, with Cors, Auth and Binding

`Cors`, `Auth` and `Binding` are operators: the header an origin is answered
with, the set of results an authenticator may come to, what a Params struct
binds to. `RequestPath` puts them in their places. A router is configured first
(`RouterGroup`, `NestGroup`, `Register`, `RegisterRaw`), then requests are served one
after the other, a step per layer. `group` is the current group's list of options, in
which a nested group has its parent's copied before its own; `Configured` applies a
list to a fresh endpoint, option after option. The mux refuses patterns in conflict
(`Clash`: both take some request and neither is narrower), as it panics on them, so
that of the patterns that take a request one is the narrowest. The same request is
looked up by the mux (`Resolve`) and, before that, by `Match`.

| action | code |
|---|---|
| `RouterGroup`, `NestGroup`, `Register`, `RegisterRaw` | `Router.Group`, `Group.Group`, `register` with the options of the group and then the route's, `Handle` |
| `Arrive` | `ServeHTTP`: the layers of `Use` around the mux |
| `CorsPasses`, `CorsAdds`, `CorsAnswersPreflight` | the three ways through `cors.New` |
| `AuthPasses`, `AuthDecides` | `Authenticator.Middleware`, for every result map order allows |
| `CachePasses`, `CacheHits`, `CacheMisses` | the cache's middleware, headers only; storing is part of `Return` |
| `MuxRejects`, `MuxDispatches`, `EndpointMiddleware`, `RawHandler` | `net/http`'s mux, the route's own middleware, a handler that is no endpoint |
| `BindFails`, `Handle`, `Return` | `buildDispatcher`, `writeBindError`; the layers returning |

A stored response is found by method and path, and by the origin if the route's
cache varies by it (`CacheKey`). What a hook does of a problem (`Hooks`) is any of:
no hook, nothing, changing the problem it is given, returning one with some status or
none; `BindStatus` and `Auth!Shape` say which status is then written.

The properties are stated over `declared`, the options as they were written, and
the mux, never over what `Match` and `Apply` computed from them; so they compare
two derivations of the same thing. `entered` is history.

### Streams, with Wire, ServerStreams and ClientStreams

A stream goes down (a handler writes, the client iterates) or up (the client's
goroutine encodes into a pipe, a handler iterates), in one of four framings. Bytes
are tokens: a separator, a newline, a payload or its cut half, a line of an
event, a boundary. `Cut` breaks the connection at any token or inside one.

| action | code |
|---|---|
| `ServerSend`, `ServerSendFails`, `ServerPartFails`, `ServerFlush`, `ServerClose` | the methods of the three writers, and their errors |
| `Spill`, `ServerReturns`, `ServerPanics`, `ServerAborts` | `net/http`'s buffer; a handler that returns, panics inside `Recover`, or aborts |
| `ClientFrames`, `ClientEncodes`, `ClientFails`, `ClientEnds`, `ClientWriteFails` | `jsonLinesBody`'s goroutine, write by write |
| `HookFails`, `TransportCopies`, `TransportEnds`, `TransportCloses` | `newRequest` giving up; the transport at the other end of the pipe |
| `Read`, `Stop`, `Cut` | an iterator's loop, a loop that breaks off, a connection that does |

The decoders exist twice in the code and twice here, as separate translations;
`twin` is the other one, given the same bytes. `fate`, `sent` and `twin` are
history.

### Contract, with Document, ClientGen and JsonValues

An API is a list of endpoints: Params structs as `Binding` has them, response
declarations, Go types. `DocumentEndpoint` adds one operation and its components
to the document, `DeclareTypes` builds the generator's registry, and
`GenerateOperation` one method, in the order of the generator, on which names
depend. `Call` picks a method with arguments; `NoRoute`, `Refuse`,
`HandleDeclared` and `HandleUndeclared` are the server, which binds with
`Binding!Bind`; `Return` is the generated dispatch. Go types carry JSON values,
abstracted to a few strings and numbers: `Held` says what a type keeps of a value.
How a name splits into words and how a path value is escaped are tables given in
`MCContract`. These modules declare RECURSIVE operators (types are trees), so
they are model-checked only.

## 3. Runs

The runs of the stores, the cache and `compress` use 2 goroutines or responses:
each property is about a pair of calls that overlap (or about one entry), and the
actor in the background — cleanup goroutine, pool, profile — comes on top.

| run | instance | shows |
|---|---|---|
| `memory_store` | 1 key, 2 tags, 2 goroutines, 2 responses, clock 0..2; the key's profile alternates between `Tags("a","a")` and sliding `Tags("a","b")` | `TypeOK`, `IndexCoversCache`, `InvalidatedIsGone`, `PrivateUntilStored`, `LeaseBounds`, `SweepSparesFresh`, `ImplementsStorage` |
| `memory_store_live` | the same with sliding entries under one tag, no symmetry | `ExpiredLeaves`, `SweeperStops`, `ExactInvalidation` |
| `redis_store` | 1 key, 2 tags, 2 goroutines, 2 responses (sliding under `a`, fixed under `a` and `b`), connections break | `TypeOK`, `ListedUnlessRaced`, `SurvivorsRaced`, `ClearLeavesNothingOld`, `LeaseOwnUnlessExposed` |
| `redis_store_orphan` | the same, connections never break | violated: `InvalidateRemovesAll` |
| `output_cache` | 2 requests, 1 key with a profile, 2 chunks, versions 0..2 | `TypeOK`, `StaleOnlyFromOverlap`, `ReplaysWhatWasSent` |
| `compress` | 2 responses, 2 encoders, `MinSize` 2, 3 chunks each | `TypeOK`, `EncodersExclusive`, `BodyIntact`, `HeldBack`, `StatusSent`, `FlushDelivers` |
| `request_path` | 1 endpoint in 0–2 groups and 1 raw route, 2 schemes, 6 option lists, 3 orders of the layers, 4 CORS configurations, 3 hooks (a returned problem without a status, one with 200, a status cleared), 2 of 29 requests | `TypeOK`, `GuardedRuns`, `OriginAnswered`, `LayersInOrder`, `PreflightAnswered`, `StatusWritten` |
| `request_gate` | the same with a default security in the document | violated: `ContractIsGate` |
| `streams` | both directions, 4 formats, with and without flushing, 2 values, 4 tokens in flight | `TypeOK`, `Faithful`, `CleanEndIsWhole`, `DecodersAgree`, `ProducerEnds`, `Prompt` |
| `stream_panic` | JSON lines, downwards | violated: `PanicClosesStream` |
| `contract` | 7 APIs of 1–5 endpoints, every method, argument and response | `TypeOK`, `NamesDistinct`, `CallArrives`, `ResultTruthful` |
| `contract_path` | the same | violated: `PathArrives` |

What the deeper properties say. `GuardedRuns`: behind the auth layer, what is
served, from the handler or the cache, is served because a requirement of the
route holds, and the principals in the context are those of one that does.
`OriginAnswered`: a response names the origin it was asked from or none; a stored
one may name another's, unless the route's cache varies by Origin, but always varies
by it and never pairs `*` with credentials. `StatusWritten`: a refusal has the status
of its cause or the one a hook chose; that may be any status, 200 too.
`ReplaysWhatWasSent`: an entry is what the client that caused it was sent, and all the
handler put out if that client stayed; it does not say that the handler got to its end.
`Faithful` and `CleanEndIsWhole`: the values of a stream arrive in order, an event's
data but for newlines at its edges, and no lost connection looks
like an end. `CallArrives`: what the caller
of a generated method sets in a field is what the handler finds in its own, or
the call is refused for a reason the argument gave. `ResultTruthful`: a method returns
just for the successes that were documented, everything else is an error, an
undocumented 2xx and a further success of a stream too, and values are those of the
server; excepted are bodies the document does not tell and a problem in the place of a
documented body. Each names its exceptions in its
comment; they are what the code does not keep, listed below.

Bounds. `MaxSets` 2 is what an overwrite needs; durations are 1, so a clock of
0..2 lets an entry be stored, extended once, expire and be replaced. Keys of
the store do not interact (both critical loops treat each key alone), so one
key is enough; two tags are needed for repeated and for changing tags. With
`MinSize` 2 and 3 chunks a body can be empty, held back, compressed at the
threshold, and written to after that. `MaxVersion` 2 allows two mutations, so
their invalidations can come in either order. Of `RedisStore` every race is
between two calls on one key; two responses let one overwrite the other, and
two tags let a pipeline stop between its SADDs. In `RequestPath`
one endpoint of two patterns (a GET with a variable, an OPTIONS) and a raw route
of the more specific pattern give every answer `Match` has; two requests are what
a stored response needs; the groups hold requirements, `NoSecurity` and
middleware, in both orders, and `MaxInherited` 4 is two of them, one in the other. A stream of two values has a first, a last and a next
one, and a `Window` of 4 tokens is less than two frames of events, so a writer
blocks in the middle. Each API of `contract` is there for one family of
collisions: operations, parameters and components of one name, structs of one
name, anonymous shapes of one signature, forms and files, streams, and a server
that has changed since. Requests, clocks and heaps are
bounded in the guards of the actions, by the constants named after the bound.

Symmetry is used where goroutines, responses and encoders are interchangeable,
and in no run that checks liveness.

Fairness (`MemoryStore!Fairness`): weak for every step inside a call (a
goroutine in `Get` or `Set` is scheduled, and Go's mutex is not unfair for
ever), weak for the ticker and the sweep, strong for the exit of the cleanup
goroutine: while `done` is closed the goroutine returns to its select again and
again, and Go's select chooses at random among ready channels. Nothing is
assumed about which calls are made, or about time passing. `Streams!Spec` is
weakly fair to the reading loop (its body is the user's and assumed to return, or
to `Stop`), to the transport and to the encoding goroutine, whose sequence yields,
fails or ends; nothing makes a handler write or return. Every other module is
checked for safety only. Runs whose system comes to its end (calls used up,
requests served) say `CHECK_DEADLOCK FALSE`.

### What the violated runs say

* `InvalidateRemovesAll` — `InvalidateTag` reads the members of the tag, a `Set`
  adds its key, and the DEL of the tag's key drops that listing. The response is
  stored and complete, and no later invalidation of the tag finds it.
* `ContractIsGate` — `Generator.Security` is the default of the document alone:
  an endpoint that declares nothing is documented as guarded and served to
  anybody, although `www/docs/middleware/auth.md:144` says that contract and gate
  are always the same.
* `PanicClosesStream` — inside `Recover`, a handler that panics in mid-stream has
  a problem appended and its response ended in order; `recover.go:24` says the
  connection closes.
* `PathArrives` — a path argument is escaped by `pathParam` and again by
  `URL.String`, since `newRequest` puts the escaped text into `Path`: `a b`
  arrives as `a%20b`.

Seen while modelling and not the subject of a run.

* `inmemory`: two hits on a sliding entry may write `ExpiresAt` in the opposite
  order of their clock readings (within `LeaseBounds`); `Get`'s lazy removal takes
  whatever the key leads to by then, a fresh entry too; a key that was overwritten
  stays listed in the index (harmless by `IndexCoversCache` and
  `ExactInvalidation`), and the sweep never touches the index, so it grows until a
  tag is invalidated.
* `outputcache`: a response cut short is stored as a complete 200, because its client
  left, but also because the handler gave up, or a source it copied from failed, while
  the client stayed; the recorder stores the last status a handler sets while the
  connection sends the first, and hides `Flush` and `Hijack`; a second
  `Cache.Close` panics. Outside `auth` the cache serves what a guarded handler
  answered to somebody else; outside `cors` it stores preflights and serves one
  origin the headers of another; inside `cors` a hit doubles them. Values of one
  header are joined by commas in the key.
* `compress`: a flush before any status or byte sends a compressible response
  without `Vary`; a panic before any output is answered 200, because the deferred
  `close` runs before `Recover`; an informational status is taken for the final one;
  a `Hijack` that fails underneath leaves the writer passing through, and a status still
  pending is lost.
* `auth`: with an optional requirement, an invalid credential is served
  anonymously or refused as map order has it. A `Problem` hook that changes the problem
  it is given and returns nil has changed the answer, although `auth/config.go:24` says
  that nil writes the default; a status it has cleared is written as 0, on which
  `net/http` panics, since only a returned problem's zero is replaced (`auth.go:163`):
  `StatusWritten` excepts it (`Left`). A hook may choose a status of success
  for a refusal, which an outer cache then stores, and one outside 100..999, on which
  `net/http` panics.
* Streams: the decoders of event streams put a newline before a data line only if there
  is data already, and trim one at the end, so `"\na\n"` arrives as `"a"`, although
  `www/docs/streaming.md:62` and `:77` say that data is written verbatim and combined per
  the spec, and `runtime.go:644` names the rules of the WHATWG, which keep both newlines:
  `Faithful` excepts them (`ButForNewlines`). They dispatch an event that the end of the
  stream cut; a comment is followed by an
  empty event; a json-seq record is yielded at the next one; a `Part` whose body
  failed looks whole after a deferred `Close`; a multipart response is begun and
  ended by `Close` alone, so a problem written later is lost; when a hook fails,
  the goroutine that encodes the body stays behind.
* Documents and clients: `[]byte` is documented as an array of integers and sent as
  a string; embedded structs are documented as a member; of two types with one name
  the second is described by the first; a parameter and a form field of one name
  make a struct that does not compile; an optional empty list and a pointer to ""
  cannot be sent; lists in the query and in headers are always refused; a further
  2xx of a streaming operation is returned as an error; anonymous structs that
  differ only in the variants of a union member share one type (`schema.go:387`); `AcceptsBody` over a form leaves it without
  fields; a client's name other than `Client` is not reserved; a multipart stream
  sent by a generated client has no boundary and is refused; the value of an
  error may be a body of another shape that happened to decode.

## 4. Proofs

Seven modules hold theorems about the specification of a component, for every value
of its constants that satisfies the module's named assumptions, and `Numbers` two
facts they need.
Each proof has the same shape: an inductive invariant
`IInv`, checked by TLC first, lemmas that say the actions preserve it,
one that puts them together, and theorems `Spec => []...` of what it implies.
None of the properties is inductive alone; what follows says what each needed.

### MemoryStoreProofs

Assumed: bounds are natural numbers, each key has a set of policies whose tag
counts and durations are natural numbers, the key of an idle goroutine is not a key.

* `TypeCorrect`, `IndexCovers`, `InvalidatedStaysGone`, `UnstoredIsPrivate`,
  `LeaseStaysBounded`: the five invariants of the run;
* `SweepSpares`: the action property `SweepSparesFresh`;
* `InvalidationExact`: the action property `ExactInvalidation`, for keys that keep their
  tags (`KeysKeepTags`: the policies of a key agree on the tags they carry, as in the
  run and as long as no profile is replaced under a route);
* `StoreImplementsContract`: `Spec => ImplementsStorage`.

`InvalidatedIsGone` says the map leads to no invalidated response, which a
`SetCommit` would break if a goroutine could store a response that was
invalidated before it was stored; `PrivateUntilStored` excludes that. It also
would break if invalidation missed a live entry that carries the tag;
`IndexCoversCache` excludes that. `PrivateUntilStored` needs `CallState`, which
says that a goroutine outside a call holds nothing and one inside holds a
response that exists. `LeaseBounds` needs from `CallState` that the clock a
`Get` read lies between the time its response was built and now, and that only
sliding entries are extended. `SweepSpares` needs `sweepNow <= clock`. The
refinement has one lemma per abstract action and uses `IInv`.

`InvalidationExact` needs a second invariant beside `IInv`, because the index may list
keys whose entries are long gone. `OwnTags` says that it lists a key only under tags
that some policy of the key carries, and that an entry, or a response about to be
stored, has the tags of one policy. Both hold whatever the policies are
(`TagsStayOwn`); only the last step, from a policy that carries the tag to the policy
of the entry, uses `KeysKeepTags`.

### OutputCacheProofs

Assumed: a response has a positive number of chunks, `MaxVersion` is a natural
number, profiles belong to keys.

* `TypeCorrect`;
* `OnlyOverlapLeavesStale`: `StaleOnlyFromOverlap`;
* `EntriesReplay`: `ReplaysWhatWasSent`.

An entry says what its request knew when it stored, so the invariant carries the
same facts about requests still under way: `Overtaken`, that a request which has
read data older than an announced version began before that announcement, and
`Recording`, that a recorder has at least what its connection took and at most what
its handler put out, and that while the client stays the three are one. It says
nothing of how far the handler has got. An announcement removes the tagged entries and raises `epoch` in one
step, which is why no entry of an earlier epoch needs a case of its own.

### RedisStoreProofs

Assumed: the number of responses is bounded by a natural number, keys and tags are
disjoint, neither contains the value of a call without one, and each key has a set
of policies. Nothing is assumed about their number: the theorems hold for
any number of goroutines, processes, keys and tags.

* `TypeCorrect`;
* `ListingsKept`: `ListedUnlessRaced`;
* `InvalidationsReach`: `SurvivorsRaced`;
* `ClearsReach`: `ClearLeavesNothingOld`;
* `LeasesOwn`: `LeaseOwnUnlessExposed`.

`SurvivorsRaced` speaks of the end of an invalidation. Its invariant,
`InvalidateReaches`, follows the call: a response that was stored before it
began is listed among the members it has still to delete, or its listing under the
tag was at risk, a pair of `raced`; the last DEL drops listings of such pairs alone.
That it was listed when the call read the members is `ListedUnlessRaced`, which in turn
needs of every Set under way that its tags are sent or still to be sent (`OneSet`,
`Knows`). `ClearReaches` is the same of the keys a Clear has scanned, and
`ExpireKnows` of the response a sliding `Get` has found.

### CompressWriterProofs

Assumed: `MinSize` is an integer (of any sign), `MaxChunks` a natural number, and
the values for no encoder and for the discarding writer are none of the sets'.

* `TypeCorrect`;
* `EncodersOneEach`: `EncodersExclusive`;
* `BodiesIntact`: `BodyIntact`;
* `BuffersBounded`: `HeldBack`;
* `StatusesSent`: `StatusSent`;
* `FlushesDeliver`: the action property `FlushDelivers`.

The invariant has one clause per response, `Served(r)`, which says in which of
four modes its writer is - undecided, holding back, passing through, encoding - and
what each knows: what the body on the wire, the encoder's pending bytes and the
buffer are together, namely what the handler wrote (`Kept`), and that nothing is left
behind once the response is over (`Whole`). `EncodersExclusive` is needed to see that
a step of one response changes no other: what an encoder holds belongs to one
response alone. The connection's lemmas (`SendHeaderSends`, `SendBodySends`, ...) are
stated once and used by every method.

### RequestPathProofs

Assumed: the Params struct is one a registration accepts (`FieldsAssumption`); the
layers of `Use` are sequences of the three middlewares, in any order and number;
groups and routes have any lists of options, over any schemes, with middleware that
is none of the layers; patterns and methods are those of the model
(`RouterAssumption`); requests have a method, a path, an origin and a verdict per
scheme (`RequestsAssumption`); the values for "no origin" and for `*` are no origins
(`OriginsAssumption`). Endpoints, groups, requests and origins may be any number.

* `TypeCorrect`;
* `GuardsHold`: `GuardedRuns`;
* `OriginsAnswered`: `OriginAnswered`;
* `LayersOrdered`: `LayersInOrder`;
* `PreflightsAnswered`: `PreflightAnswered`;
* `StatusesWritten`: `StatusWritten`.

The invariant has a part per concern. `RoutesOK` compares the two derivations of a
route's options: `SecurityFrom` says that the requirements on an endpoint are those
of its declared options that no later `NoSecurity` discards, `Places` that its
middleware is that of the options, each once and in order. It is an induction over the
options applied (`ConfiguredSays`), done with the least number that would fail
(`Numbers`), since the library's induction theorems take operators.
`RoutesOK` also says no two patterns of the mux clash, from which `ResolvedOnce`
derives that the mux finds one route, and `MatchIsServes` that `Match` finds the same one:
without it the gate could judge by another route's requirements. `WayOK` says that
what a request has entered and what is still ahead of it are, put together, its way:
the layers of `Use`, the mux, the route's middleware, the handler; it gives
`LayersInOrder` when nothing is ahead. `GateOK` says that once the auth layer is
passed a requirement holds whose principals the context has, and needs of `Auth` that
an accepted decision, in whatever order the alternatives were tried, comes from
one that holds (`Decided`, `PassAdmits`). `HeadersOK` says that the headers on the
writer are those the cors layer sets for this request, or, with a stored answer, those of
some other that were whole when they were stored; so `StoredOK` says it of every
stored response, and of one stored under an origin that it names no other. `AnswerOK` says what each layer's answer is like, and that a preflight
which has entered the cors layer has been answered there. The required inputs of
`StatusWritten` come from `BoundInputs`, about `Binding!Bind`; its statuses from
`HooksGive` and `RefusedIs`, which say what is written for each thing a hook may do.

Two definitions of the module were restated to be reasoned about: the application of
options is a recursive function instead of a fold, and the list of options that a
group inherits is one sequence, as in the code, instead of a list per level.

### StreamsProofs

Assumed: the framings are those the model knows, and a client sends none but the two
for JSON (`FormatsAssumption`). Payloads, events, the number of values and the window
are anything at all.

* `TypeCorrect`;
* `DecodersSame`: `DecodersAgree`.

The router decodes the first value of a record and stops; the client takes the
record whole, and two values in it are an error. So the two copies of the iterators
agree only while no record has two payloads, which `DecodersAgree` does not say and
`FramingOK` does: in what the reader may still be given (`Ahead`), every payload but
the first stands right after the framing's separator, `Mark`, and the first has none
before it in its record. That is not inductive without what the writers leave
behind: after JSON lines, and after a separator the client's goroutine wrote by
itself, `Ahead` ends in a `Mark` (`Ready`). Each action does one of five things to it:
it writes a frame (`FramingWritten`), has the reader take a token (`FramingTaken`),
moves bytes along (`SameAhead`), ends the connection (`Shortened`), or cuts what is
on it, perhaps inside a token (`FramingKept`, `PrefixFramed`). A panic's problem
comes after half a record and is excepted, as in the property. Event streams and
multipart streams need no framing: the iterators are the same there whatever they
are given (`SameNext`, `SameLast`).

### StreamsDeliveryProofs

Assumed besides: an event's fields are sequences of lines, and its data has at least
one (`EventsAssumption`), which is what `writeSSEField` and `writeSSEData` write of any
event. Payloads, events, their number and the window are anything at all.

* `DeliveryFaithful`: `Faithful`;
* `CleanEndWhole`: `CleanEndIsWhole`.

The two relate what an iterator has yielded to what was sent, and say nothing of the
bytes between, so neither is inductive; nor would it do to say which value each token
on the connection belongs to, since a token means something to an iterator only after
those before it. The invariant (`DInv`) says instead what the bytes ahead will make of
the iterator. `Track` has a run: the iterators it becomes, token by token of
`Ahead` (`Follows`). Each of them is `Fine`: its yields are the first of the values sent
(`Delivers`), and the record in progress is the next value, cut only where the
connection broke. The last is `Complete` as long as every byte reaches the reader: it
has been given everything that was written, up to what the framing holds back.
`Ended` says what an iterator that has met the end has yielded, and `ControlOK` which
states of the writer, the pipe and the connection go together: a clean end is only ever
that of a writer that has got to its end.

With that a step does one of four things. It reads a token, which drops the first step
of the run (`TrackTaken`), or the end, where `Complete` and `Fine` give `Ended`
(`LastEnds`). It breaks the connection, perhaps inside a token, which leaves a beginning
of the run with `Half` of a payload at its end (`TrackShort`, `FineHalf`). It moves
bytes along and changes nothing ahead (`SameBytes`). Or it writes: whatever iterator has
been given all before, the tokens written make of it one that has been given what
they add (`Adds`), which is shown for each framing (`AddsItem`, `AddsRecord`, `AddsPart`,
`AddsFailedPart`, `AddsClosing`, `AddsMark`) and for the lines of an event, of which the
last of a field counts and all of the data (`LinesRead`, `ArrivingIs`). That the
iterator of the other end yields the same is `DecodersSame`, so a run of the client's
speaks for both.

Two definitions were restated to be reasoned about: the values among the yields are a
recursive function instead of a filter, and `OfKind` is a set of positions. Which of the
newlines at the edges of an event's data are lost `Faithful` leaves open
(`ButForNewlines`); the proof has to know, and its `Arriving` says what the decoders make
of an event, from which `Faithful` follows.

### Only model-checked

* Liveness: `ExpiredLeaves`, `SweeperStops`, `ProducerEnds`, `Prompt`. Fairness and
  ENABLED are outside the prover's reach.
* `Document`, `ClientGen`, `JsonValues` and `Contract` declare RECURSIVE operators,
  for which the prover has no SMT backend, and stay with TLC.

## 5. Not modelled

Keys of the cache are members of a set, and in `RequestPath` method, path and the
Origin header: queries, other headers and `VaryByCustom` are left out of a key. Entity tags and 304 answers are
a hit like any other. Write errors of the connection below `compress`,
`Content-Length` and `Accept-Ranges`, and all logging are left out. Middleware is
`cors`, `auth` and the cache; `compress` has its own module, because its state is
the bytes of a response and theirs is its headers. Constraints, examples, texts
and metadata of a document do not reach a client and are left out, as are the text
of the generated files, the splitting of names into words, writing files and
pruning stale ones. Hosts in patterns, prefixes of groups and the redirects of the
mux are net/http's. Static files, the single-page fallback and the reference page
keep no state. The examples use the packages, and the client among them is
generated.

## 6. Plan

The storage came first because every cached response depends on it and its
races are beyond tests; then the middleware on its contract; then `compress`,
the other part with shared mutable state; then the store that is shared between
processes; then the way of a request, the streams, and the contract between
documents, clients and servers; then the proofs, in the same order. What is left:

* `Contract`: `NamesDistinct`, once the registry of `ClientGen` is in a module that
  reaches no RECURSIVE operator.
