---------------------------- MODULE RequestPathProofs ----------------------------
(***************************************************************************)
(* Theorems about RequestPath, for any number of routes, groups, options,  *)
(* layers and schemes.                                                     *)
(***************************************************************************)
EXTENDS RequestPath, Numbers, SequenceTheorems, TLAPS

-----------------------------------------------------------------------------
(* Numbers *)

\* The least of a set of numbers.
LEMMA MinIsLeast ==
  ASSUME NEW S \in SUBSET Nat, S # {}
  PROVE  Min(S) \in S /\ \A n \in S : Min(S) <= n
BY Least DEF Min

-----------------------------------------------------------------------------
(* What options make of an endpoint *)

Applied(f, key, options, m) ==
  f = [k \in 0..m |-> IF k = 0 THEN FreshEndpoint(key) ELSE Apply(f[k - 1], options[k])]

\* The recursion of Configured has a solution.
LEMMA AppliedExists ==
  ASSUME NEW key, NEW options, NEW m \in Nat
  PROVE  \E f : Applied(f, key, options, m)
<1> DEFINE S == {n \in Nat : \E f : Applied(f, key, options, n)}
<1>1. 0 \in S
  <2>1. Applied([k \in 0..0 |-> FreshEndpoint(key)], key, options, 0)
    BY DEF Applied
  <2> QED BY <2>1
<1>2. ASSUME NEW n \in S PROVE n + 1 \in S
  <2>1. PICK f : Applied(f, key, options, n)
    OBVIOUS
  <2>2. n \in Nat /\ n + 1 \in Nat /\ n \in 0..n
    OBVIOUS
  <2> DEFINE last == Apply(f[n], options[n + 1])
             g == [k \in 0..(n + 1) |-> IF k = n + 1 THEN last ELSE f[k]]
  <2>3. \A k \in 0..n : f[k] = IF k = 0 THEN FreshEndpoint(key) ELSE Apply(f[k - 1], options[k])
    BY <2>1 DEF Applied
  <2>4. g[n + 1] = last /\ \A k \in 0..n : g[k] = f[k]
    BY <2>2
  <2>5. g = [k \in 0..(n + 1) |-> g[k]]
    OBVIOUS
  <2> HIDE DEF g
  <2>6. ASSUME NEW k \in 0..(n + 1)
        PROVE  g[k] = IF k = 0 THEN FreshEndpoint(key) ELSE Apply(g[k - 1], options[k])
    <3>1. CASE k = n + 1
      BY <2>2, <2>4, <3>1
    <3>2. CASE k \in 0..n /\ k = 0
      BY <2>2, <2>3, <2>4, <3>2
    <3>3. CASE k \in 0..n /\ k # 0
      <4>1. k - 1 \in 0..n
        BY <2>2, <3>3
      <4> QED BY <2>3, <2>4, <3>3, <4>1
    <3> QED BY <2>2, <3>1, <3>2, <3>3
  <2>7. Applied(g, key, options, n + 1)
    BY <2>5, <2>6 DEF Applied
  <2> QED BY <2>2, <2>7
<1>3. S = Nat
  <2> HIDE DEF S
  <2>1. S \in SUBSET Nat
    BY DEF S
  <2> QED BY <1>1, <1>2, <2>1, Induction
<1> QED BY <1>3

LEMMA ConfiguredIs ==
  ASSUME NEW key, NEW options, Len(options) \in Nat
  PROVE  \E f : Applied(f, key, options, Len(options)) /\ Configured(key, options) = f[Len(options)]
<1> DEFINE F == CHOOSE f : Applied(f, key, options, Len(options))
<1>1. Applied(F, key, options, Len(options))
  BY AppliedExists
<1>2. Configured(key, options) = F[Len(options)]
  BY DEF Configured, Applied
<1> QED BY <1>1, <1>2

Endpoint ==
  [key : Methods \X Patterns, security : Seq(Requirement \cup {Anonymous}),
   override : BOOLEAN, middleware : Seq(Names), cached : BOOLEAN, byOrigin : BOOLEAN]

Asked(option) == IF option.kind = "security" THEN option.req ELSE Anonymous

\* Of the first m options, the j-th is a requirement no NoSecurity discards.
Stands(options, m, j) ==
  /\ options[j].kind \in {"security", "optional"}
  /\ \A c \in 1..m : options[c].kind = "none" => c < j

SecurityFrom(security, options, m) ==
  /\ \A k \in 1..Len(security) :
       \E j \in 1..m : Stands(options, m, j) /\ security[k] = Asked(options[j])
  /\ \A j \in 1..m : Stands(options, m, j) =>
       \E k \in 1..Len(security) : security[k] = Asked(options[j])

Places(at, names, options, m) ==
  /\ at \in [1..Len(names) -> {j \in 1..m : options[j].kind = "middleware"}]
  /\ \A k, l \in 1..Len(names) : k < l => at[k] < at[l]
  /\ \A j \in 1..m : options[j].kind = "middleware" => \E k \in 1..Len(names) : at[k] = j
  /\ \A k \in 1..Len(names) : names[k] = options[at[k]].name

LEMMA OptionKinds ==
  ASSUME NEW o \in Option
  PROVE  /\ o.kind \in {"security", "optional", "none", "middleware", "cache"}
         /\ o.kind = "security" => o.req \in Requirement
         /\ o.kind = "middleware" => o.name \in Names
         /\ o.kind = "cache" => o.byOrigin \in BOOLEAN
<1>1. CASE o \in [kind : {"security"}, req : Requirement]
  BY <1>1
<1>2. CASE o \in [kind : {"optional", "none"}]
  BY <1>2
<1>3. CASE o \in [kind : {"middleware"}, name : Names]
  BY <1>3
<1>4. CASE o \in [kind : {"cache"}, byOrigin : BOOLEAN]
  BY <1>4
<1> QED BY <1>1, <1>2, <1>3, <1>4 DEF Option

\* A requirement appended is one more that stands; options that are none
\* change nothing.
LEMMA AppendSecurity ==
  ASSUME NEW security \in Seq(Requirement \cup {Anonymous}), NEW options,
         NEW m \in Nat, SecurityFrom(security, options, m),
         options[m + 1].kind \in {"security", "optional"},
         Asked(options[m + 1]) \in Requirement \cup {Anonymous}
  PROVE  LET longer == Append(security, Asked(options[m + 1])) IN
         /\ longer \in Seq(Requirement \cup {Anonymous})
         /\ SecurityFrom(longer, options, m + 1)
<1> DEFINE R == Requirement \cup {Anonymous}
           asked == Asked(options[m + 1])
           longer == Append(security, asked)
<1> HIDE DEF R, asked
<1>0. security \in Seq(R) /\ asked \in R /\ Len(security) \in Nat
  BY DEF R, asked
<1>1. /\ longer \in Seq(R) /\ Len(longer) = Len(security) + 1
      /\ \A k \in 1..Len(security) : longer[k] = security[k]
      /\ longer[Len(security) + 1] = asked
  BY <1>0, AppendProperties
<1> HIDE DEF longer
<1>2. \A j \in 1..m : Stands(options, m + 1, j) <=> Stands(options, m, j)
  BY DEF Stands
<1>3. Stands(options, m + 1, m + 1) /\ m + 1 \in 1..(m + 1)
  BY DEF Stands
<1>4. ASSUME NEW k \in 1..Len(longer)
      PROVE  \E j \in 1..(m + 1) : Stands(options, m + 1, j) /\ longer[k] = Asked(options[j])
  <2>1. CASE k = Len(security) + 1
    BY <1>1, <1>3, <2>1 DEF asked
  <2>2. CASE k # Len(security) + 1
    <3>1. k \in 1..Len(security)
      BY <1>0, <1>1, <2>2
    <3>2. PICK j \in 1..m : Stands(options, m, j) /\ security[k] = Asked(options[j])
      BY <3>1 DEF SecurityFrom
    <3> QED BY <1>1, <1>2, <3>1, <3>2
  <2> QED BY <2>1, <2>2
<1>5. ASSUME NEW j \in 1..(m + 1), Stands(options, m + 1, j)
      PROVE  \E k \in 1..Len(longer) : longer[k] = Asked(options[j])
  <2>1. CASE j = m + 1
    <3>1. Len(security) + 1 \in 1..Len(longer)
      BY <1>0, <1>1
    <3> QED BY <1>1, <2>1, <3>1 DEF asked
  <2>2. CASE j # m + 1
    <3>1. j \in 1..m /\ Stands(options, m, j)
      BY <1>2, <1>5, <2>2
    <3>2. PICK k \in 1..Len(security) : security[k] = Asked(options[j])
      BY <3>1 DEF SecurityFrom
    <3>3. k \in 1..Len(longer)
      BY <1>0, <1>1
    <3> QED BY <1>1, <3>2, <3>3
  <2> QED BY <2>1, <2>2
<1> QED BY <1>1, <1>4, <1>5 DEF SecurityFrom, longer, R, asked

LEMMA OtherSecurity ==
  ASSUME NEW security, NEW options, NEW m \in Nat,
         SecurityFrom(security, options, m),
         options[m + 1].kind \in {"middleware", "cache"}
  PROVE  SecurityFrom(security, options, m + 1)
<1>1. \A j \in 1..m : Stands(options, m + 1, j) <=> Stands(options, m, j)
  BY DEF Stands
<1>2. ~Stands(options, m + 1, m + 1)
  BY DEF Stands
<1>3. \A j \in 1..(m + 1) : Stands(options, m + 1, j) => j \in 1..m
  BY <1>2
<1>4. 1..m \subseteq 1..(m + 1)
  OBVIOUS
<1> QED BY <1>1, <1>3, <1>4 DEF SecurityFrom

LEMMA NoneSecurity ==
  ASSUME NEW options, NEW m \in Nat, options[m + 1].kind = "none"
  PROVE  SecurityFrom(<< >>, options, m + 1)
<1>1. \A j \in 1..(m + 1) : ~Stands(options, m + 1, j)
  BY DEF Stands
<1> QED BY <1>1 DEF SecurityFrom

LEMMA AppendPlaces ==
  ASSUME NEW names \in Seq(Names), NEW options, NEW m \in Nat, NEW at,
         Places(at, names, options, m),
         options[m + 1].kind = "middleware", options[m + 1].name \in Names
  PROVE  LET longer == Append(names, options[m + 1].name) IN
         /\ longer \in Seq(Names)
         /\ \E to : Places(to, longer, options, m + 1)
<1> DEFINE name == options[m + 1].name
           longer == Append(names, name)
           n == Len(names)
           to == [k \in 1..(n + 1) |-> IF k = n + 1 THEN m + 1 ELSE at[k]]
<1>0. n \in Nat
  OBVIOUS
<1>1. /\ longer \in Seq(Names) /\ Len(longer) = n + 1
      /\ \A k \in 1..n : longer[k] = names[k]
      /\ longer[n + 1] = name
  BY AppendProperties
<1> HIDE DEF longer, n
<1>2. /\ \A k \in 1..n : at[k] \in 1..m /\ options[at[k]].kind = "middleware"
      /\ \A k, l \in 1..n : k < l => at[k] < at[l]
      /\ \A j \in 1..m : options[j].kind = "middleware" => \E k \in 1..n : at[k] = j
      /\ \A k \in 1..n : names[k] = options[at[k]].name
  BY DEF Places, n
<1>3. to[n + 1] = m + 1 /\ \A k \in 1..n : to[k] = at[k]
  BY <1>0
<1>4. to \in [1..(n + 1) -> {j \in 1..(m + 1) : options[j].kind = "middleware"}]
  BY <1>0, <1>2
<1> HIDE DEF to
<1>5. \A k, l \in 1..(n + 1) : k < l => to[k] < to[l]
  <2> SUFFICES ASSUME NEW k \in 1..(n + 1), NEW l \in 1..(n + 1), k < l
               PROVE  to[k] < to[l]
    OBVIOUS
  <2>1. k \in 1..n
    BY <1>0
  <2>2. CASE l = n + 1
    BY <1>2, <1>3, <2>1, <2>2
  <2>3. CASE l # n + 1
    BY <1>0, <1>2, <1>3, <2>1, <2>3
  <2> QED BY <2>2, <2>3
<1>6. \A j \in 1..(m + 1) : options[j].kind = "middleware" => \E k \in 1..(n + 1) : to[k] = j
  <2> SUFFICES ASSUME NEW j \in 1..(m + 1), options[j].kind = "middleware"
               PROVE  \E k \in 1..(n + 1) : to[k] = j
    OBVIOUS
  <2>1. CASE j = m + 1
    BY <1>0, <1>3, <2>1
  <2>2. CASE j # m + 1
    <3>1. PICK k \in 1..n : at[k] = j
      BY <1>2, <2>2
    <3> QED BY <1>0, <1>3, <3>1
  <2> QED BY <2>1, <2>2
<1>7. \A k \in 1..(n + 1) : longer[k] = options[to[k]].name
  BY <1>0, <1>1, <1>2, <1>3
<1>8. Places(to, longer, options, m + 1)
  BY <1>1, <1>4, <1>5, <1>6, <1>7 DEF Places
<1> QED BY <1>1, <1>8 DEF longer

LEMMA OtherPlaces ==
  ASSUME NEW names, NEW options, NEW m \in Nat, NEW at,
         Places(at, names, options, m), options[m + 1].kind # "middleware"
  PROVE  Places(at, names, options, m + 1)
<1>1. {j \in 1..(m + 1) : options[j].kind = "middleware"}
        = {j \in 1..m : options[j].kind = "middleware"}
  OBVIOUS
<1>2. \A j \in 1..(m + 1) : options[j].kind = "middleware" => j \in 1..m
  OBVIOUS
<1> QED BY <1>1, <1>2 DEF Places


\* An option applied to an endpoint that the first m have made.
LEMMA ApplyMakes ==
  ASSUME NEW ep \in Endpoint, NEW options, NEW m \in Nat,
         options[m + 1] \in Option,
         SecurityFrom(ep.security, options, m),
         \E at : Places(at, ep.middleware, options, m)
  PROVE  LET e == Apply(ep, options[m + 1]) IN
         /\ e \in Endpoint /\ e.key = ep.key
         /\ SecurityFrom(e.security, options, m + 1)
         /\ \E at : Places(at, e.middleware, options, m + 1)
<1> DEFINE o == options[m + 1]
           e == Apply(ep, o)
<1>1. /\ ep.security \in Seq(Requirement \cup {Anonymous}) /\ ep.middleware \in Seq(Names)
      /\ ep.key \in Methods \X Patterns /\ ep.override \in BOOLEAN /\ ep.cached \in BOOLEAN
      /\ ep.byOrigin \in BOOLEAN
      /\ ep = [key |-> ep.key, security |-> ep.security, override |-> ep.override,
               middleware |-> ep.middleware, cached |-> ep.cached, byOrigin |-> ep.byOrigin]
  BY DEF Endpoint
<1>2. PICK at : Places(at, ep.middleware, options, m)
  OBVIOUS
<1>3. /\ o.kind \in {"security", "optional", "none", "middleware", "cache"}
      /\ o.kind = "security" => o.req \in Requirement
      /\ o.kind = "middleware" => o.name \in Names
      /\ o.kind = "cache" => o.byOrigin \in BOOLEAN
  BY OptionKinds
<1>4. CASE o.kind \in {"security", "optional"}
  <2>1. Asked(o) \in Requirement \cup {Anonymous}
    BY <1>3, <1>4 DEF Asked
  <2>2. e = [ep EXCEPT !.security = Append(@, Asked(o))]
    BY <1>4 DEF Apply, Asked
  <2> DEFINE longer == Append(ep.security, Asked(o))
  <2>3. longer \in Seq(Requirement \cup {Anonymous}) /\ SecurityFrom(longer, options, m + 1)
    BY <1>1, <1>4, <2>1, AppendSecurity
  <2>4. e.security = longer /\ e.middleware = ep.middleware /\ e.key = ep.key
    BY <1>1, <2>2
  <2>5. e \in Endpoint
    <3> HIDE DEF longer
    <3>1. e = [ep EXCEPT !.security = longer]
      BY <2>2 DEF longer
    <3> QED BY <1>1, <2>3, <3>1 DEF Endpoint
  <2>6. Places(at, ep.middleware, options, m + 1)
    BY <1>2, <1>4, OtherPlaces
  <2> HIDE DEF e, longer
  <2> QED BY <2>3, <2>4, <2>5, <2>6 DEF e
<1>5. CASE o.kind = "none"
  <2>1. e = [ep EXCEPT !.security = << >>, !.override = TRUE]
    BY <1>5 DEF Apply
  <2>2. e.security = << >> /\ e.middleware = ep.middleware /\ e.key = ep.key
    BY <1>1, <2>1
  <2>3. e \in Endpoint
    <3>1. << >> \in Seq(Requirement \cup {Anonymous})
      OBVIOUS
    <3> DEFINE nothing == << >>
    <3> HIDE DEF nothing
    <3>2. e = [ep EXCEPT !.security = nothing, !.override = TRUE]
      BY <2>1 DEF nothing
    <3>3. nothing \in Seq(Requirement \cup {Anonymous})
      BY <3>1 DEF nothing
    <3> QED BY <1>1, <3>2, <3>3 DEF Endpoint
  <2>4. Places(at, ep.middleware, options, m + 1)
    BY <1>2, <1>5, OtherPlaces
  <2>5. SecurityFrom(<< >>, options, m + 1)
    BY <1>5, NoneSecurity
  <2> HIDE DEF e
  <2> QED BY <2>2, <2>3, <2>4, <2>5 DEF e
<1>6. CASE o.kind = "middleware"
  <2>1. e = [ep EXCEPT !.middleware = Append(@, o.name)]
    BY <1>6 DEF Apply
  <2> DEFINE longer == Append(ep.middleware, o.name)
  <2>2. longer \in Seq(Names) /\ \E to : Places(to, longer, options, m + 1)
    BY <1>1, <1>2, <1>3, <1>6, AppendPlaces
  <2>3. e.security = ep.security /\ e.middleware = longer /\ e.key = ep.key
    BY <1>1, <2>1
  <2>4. e \in Endpoint
    <3> HIDE DEF longer
    <3>1. e = [ep EXCEPT !.middleware = longer]
      BY <2>1 DEF longer
    <3> QED BY <1>1, <2>2, <3>1 DEF Endpoint
  <2>5. SecurityFrom(ep.security, options, m + 1)
    BY <1>6, OtherSecurity
  <2> HIDE DEF e, longer
  <2> QED BY <2>2, <2>3, <2>4, <2>5 DEF e
<1>7. CASE o.kind = "cache"
  <2>1. e = [ep EXCEPT !.cached = TRUE, !.byOrigin = o.byOrigin]
    BY <1>7 DEF Apply
  <2>2. e.security = ep.security /\ e.middleware = ep.middleware /\ e.key = ep.key
    BY <1>1, <2>1
  <2>3. e \in Endpoint
    <3>1. o.byOrigin \in BOOLEAN
      BY <1>3, <1>7
    <3> QED BY <1>1, <2>1, <3>1 DEF Endpoint
  <2>4. Places(at, ep.middleware, options, m + 1)
    BY <1>2, <1>7, OtherPlaces
  <2>5. SecurityFrom(ep.security, options, m + 1)
    BY <1>7, OtherSecurity
  <2> HIDE DEF e
  <2> QED BY <2>2, <2>3, <2>4, <2>5 DEF e
<1> QED BY <1>3, <1>4, <1>5, <1>6, <1>7

\* What a route's options make of its endpoint: its requirements are those the
\* last NoSecurity left, its middleware those of the options in their order.
LEMMA ConfiguredSays ==
  ASSUME NEW key \in Methods \X Patterns, NEW options \in Seq(Option)
  PROVE  LET ep == Configured(key, options) IN
         /\ ep \in Endpoint /\ ep.key = key
         /\ SecurityFrom(ep.security, options, Len(options))
         /\ \E at : Places(at, ep.middleware, options, Len(options))
<1>1. Len(options) \in Nat
  OBVIOUS
<1>2. PICK f : Applied(f, key, options, Len(options)) /\ Configured(key, options) = f[Len(options)]
  BY <1>1, ConfiguredIs
<1> DEFINE Made(m) == /\ f[m] \in Endpoint /\ f[m].key = key
                      /\ SecurityFrom(f[m].security, options, m)
                      /\ \E at : Places(at, f[m].middleware, options, m)
           S == {m \in Nat : m <= Len(options) => Made(m)}
<1>3. \A k \in 0..Len(options) :
        f[k] = IF k = 0 THEN FreshEndpoint(key) ELSE Apply(f[k - 1], options[k])
  BY <1>2 DEF Applied
<1>4. Made(0)
  <2> DEFINE ep == FreshEndpoint(key)
  <2>1. f[0] = ep
    BY <1>1, <1>3
  <2>2. ep \in Endpoint /\ ep.key = key /\ ep.security = << >> /\ ep.middleware = << >>
    <3>1. << >> \in Seq(Requirement \cup {Anonymous}) /\ << >> \in Seq(Names)
      OBVIOUS
    <3> QED BY <3>1 DEF FreshEndpoint, Endpoint
  <2>3. SecurityFrom(<< >>, options, 0)
    BY DEF SecurityFrom
  <2>4. Places([k \in 1..0 |-> 0], << >>, options, 0)
    BY DEF Places
  <2> HIDE DEF ep
  <2> QED BY <2>1, <2>2, <2>3, <2>4
<1>5. ASSUME NEW m \in Nat, m + 1 <= Len(options), Made(m)
      PROVE  Made(m + 1)
  <2>1. m + 1 \in 1..Len(options) /\ m + 1 \in 0..Len(options) /\ (m + 1) - 1 = m /\ m + 1 # 0
    BY <1>1, <1>5
  <2>2. f[m + 1] = Apply(f[m], options[m + 1])
    BY <1>3, <2>1
  <2>3. options[m + 1] \in Option
    BY <2>1
  <2>4. /\ f[m] \in Endpoint /\ f[m].key = key
        /\ SecurityFrom(f[m].security, options, m)
        /\ \E at : Places(at, f[m].middleware, options, m)
    BY <1>5
  <2> DEFINE e == Apply(f[m], options[m + 1])
  <2>5. /\ e \in Endpoint /\ e.key = f[m].key
        /\ SecurityFrom(e.security, options, m + 1)
        /\ \E at : Places(at, e.middleware, options, m + 1)
    BY <2>3, <2>4, ApplyMakes
  <2> HIDE DEF e
  <2> QED BY <2>2, <2>4, <2>5 DEF e
<1> HIDE DEF Made
<1>6. S = Nat
  <2>1. 0 \in S
    BY <1>4
  <2>2. \A m \in S : m + 1 \in S
    BY <1>1, <1>5
  <2> HIDE DEF S
  <2>3. S \in SUBSET Nat
    BY DEF S
  <2> QED BY <2>1, <2>2, <2>3, Induction
<1>7. Made(Len(options))
  BY <1>1, <1>6
<1> QED BY <1>2, <1>7 DEF Made


-----------------------------------------------------------------------------
(* The inductive invariant *)

RequestHeaders ==
  {"Origin", "Access-Control-Request-Method", "Access-Control-Request-Headers"}

Header ==
  [origin : Seq(Origins \cup {Star}), vary : Seq(RequestHeaders), credentials : BOOLEAN,
   preflight : BOOLEAN]

ConfOK ==
  /\ conf.use \in Layers
  /\ conf.cors \in CorsOptions

\* What registration keeps: an endpoint is what its options make of it, and it
\* has its entry in the mux, whose entries do not clash.
RoutesOK ==
  /\ group \in Seq(Option)
  /\ endpoints \in Seq(Endpoint)
  /\ declared \in Seq(Seq(Option))
  /\ Len(declared) = Len(endpoints)
  /\ \A i \in 1..Len(endpoints) :
       /\ SecurityFrom(endpoints[i].security, declared[i], Len(declared[i]))
       /\ \E at : Places(at, endpoints[i].middleware, declared[i], Len(declared[i]))
       /\ [key |-> endpoints[i].key, endpoint |-> i] \in mux
  /\ mux \subseteq [key : Methods \X Patterns, endpoint : 0..Len(endpoints)]
  /\ \A e \in mux : e.endpoint # 0 => endpoints[e.endpoint].key = e.key
  /\ \A e, f \in mux : e # f => ~Clash(e.key, f.key)

Layer == UseLayers \cup Names \cup {"mux", "raw", "handler"}

\* past and ahead, put together, are way.
Along(past, ahead, way) ==
  /\ Len(way) = Len(past) + Len(ahead)
  /\ \A k \in 1..Len(past) : past[k] = way[k]
  /\ \A k \in 1..Len(ahead) : ahead[k] = way[Len(past) + k]

\* The layers behind the mux that e leads to.
Route(e) ==
  IF e.endpoint = 0 THEN <<"raw">> ELSE endpoints[e.endpoint].middleware \o <<"handler">>

Way(e) == conf.use \o <<"mux">> \o Route(e)

\* The request is on its way: through the middleware of Use to the mux, and
\* then through those of what the mux has resolved it to.
WayOK ==
  /\ req \in Requests \cup {Idle}
  /\ entered \in Seq(Layer)
  /\ layers \in Seq(Layer)
  /\ req = Idle => answer = Idle /\ recording = << >>
  /\ answer # Idle => layers = << >>
  /\ req # Idle /\ answer = Idle /\ "mux" \notin ToSet(entered) =>
       Along(entered, layers, Append(conf.use, "mux"))
  /\ req # Idle /\ answer = Idle /\ "mux" \in ToSet(entered) => Resolve(req) # {}
  /\ req # Idle /\ "mux" \in ToSet(entered) =>
       /\ ToSet(conf.use) \subseteq ToSet(entered)
       /\ \A e \in Resolve(req) : Along(entered, layers, Way(e))

\* The context holds principals only once the auth layer has been entered, and
\* then those of a requirement that lets the request in.
GateOK ==
  /\ principals \subseteq Schemes
  /\ req # Idle /\ "auth" \notin ToSet(entered) => principals = {}
  /\ req # Idle /\ "auth" \in ToSet(entered)
     /\ (answer = Idle \/ answer.body \in {"handler", "bind", "stored"}) =>
       \A i \in Serves \ {0} : Admitted(declared[i])

\* The value the cors layer sets for the request, once it is entered.
Expected ==
  IF "cors" \in ToSet(entered) /\ Allows(req.origin, conf.cors)
  THEN MatchOrigin(req.origin, conf.cors) ELSE << >>

\* The origins that h names are the one the key varies by, if it does, or "*".
NamesOnly(h, origin) == origin # NoOrigin => ToSet(h.origin) \subseteq {origin, Star}

Whole(h) ==
  /\ h.origin # << >> => "Origin" \in ToSet(h.vary)
  /\ Star \in ToSet(h.origin) => ~conf.cors.credentials
  /\ h.credentials => conf.cors.credentials

HeadersOK ==
  /\ headers \in Header
  /\ Whole(headers)
  /\ answer # Idle => answer.headers = headers
  /\ req # Idle /\ (answer = Idle \/ answer.body # "stored") => headers.origin = Expected
  /\ req # Idle => NamesOnly(headers, CacheKey[3])

Written == Nat
Successes == 200..299

\* The statuses a refusal of auth may be given.
Refused(type) == {DefaultStatus(type)} \cup Returned \cup Left

\* An answer of this kind may have this status.
Fits(status, body) ==
  /\ status = 0 => body \in AuthRefusals /\ 0 \in Left
  /\ body = "bind" => status \in {400} \cup Returned
  /\ body \in AuthRefusals => status \in Refused(body)

StoredKeys == {<<r.method, r.path, o>> : r \in Requests, o \in Origins \cup {NoOrigin}}

StoredOK ==
  /\ recording # << >> => recording = CacheKey
  /\ DOMAIN stored \subseteq StoredKeys
  /\ \A k \in DOMAIN stored :
       /\ stored[k].status \in Successes
       /\ stored[k].headers \in Header
       /\ Whole(stored[k].headers)
       /\ NamesOnly(stored[k].headers, k[3])

\* What is known of an answer by the layer that gave it.
AnswerOK ==
  /\ served \in 0..MaxRequests
  /\ answer # Idle =>
       /\ answer.status \in Written
       /\ answer.body = "preflight" => answer.status = 204 /\ answer.headers.preflight
       /\ answer.body \in {"mux", "raw", "bind", "handler"} => "mux" \in ToSet(entered)
       /\ answer.body \notin {"preflight", "stored", "mux", "raw", "bind", "handler"} =>
            \E i \in Match(req) : SecurityOf(i) # << >>
       /\ Fits(answer.status, answer.body)
       /\ answer.body = "handler" => BindResult.ok
  /\ req # Idle /\ "cors" \in ToSet(entered) /\ Allows(req.origin, conf.cors) /\ IsPreflight(req) =>
       answer # Idle /\ answer.body = "preflight"

IInv ==
  /\ ConfOK /\ RoutesOK /\ WayOK /\ GateOK /\ HeadersOK /\ StoredOK /\ AnswerOK
-----------------------------------------------------------------------------
(* Sequences of layers *)

LEMMA AppendSet ==
  ASSUME NEW S, NEW s \in Seq(S), NEW x \in S
  PROVE  Append(s, x) \in Seq(S) /\ ToSet(Append(s, x)) = ToSet(s) \cup {x}
<1> DEFINE n == Len(s)
           longer == Append(s, x)
<1>1. n \in Nat /\ DOMAIN s = 1..n
  OBVIOUS
<1>2. /\ longer \in Seq(S) /\ DOMAIN longer = 1..(n + 1)
      /\ \A k \in 1..n : longer[k] = s[k]
      /\ longer[n + 1] = x
  BY AppendProperties
<1> HIDE DEF n, longer
<1>3. \A k \in 1..(n + 1) : k \in 1..n \/ k = n + 1
  BY <1>1
<1>4. 1..n \subseteq 1..(n + 1) /\ n + 1 \in 1..(n + 1)
  BY <1>1
<1>5. ToSet(longer) = ToSet(s) \cup {x}
  BY <1>1, <1>2, <1>3, <1>4 DEF ToSet
<1> QED BY <1>2, <1>5 DEF longer

LEMMA EmptySet == ToSet(<< >>) = {}
BY DEF ToSet

\* The next layer is the one that way says, and moves from ahead to past.
LEMMA GoesOn ==
  ASSUME NEW S, NEW past \in Seq(S), NEW ahead \in Seq(S), NEW way,
         ahead # << >>, Along(past, ahead, way)
  PROVE  /\ Along(Append(past, Head(ahead)), Tail(ahead), way)
         /\ Len(past) + 1 \in 1..Len(way)
         /\ Head(ahead) = way[Len(past) + 1]
         /\ Len(past) + 1 = Len(way) <=> Tail(ahead) = << >>
<1> DEFINE n == Len(past)
           m == Len(ahead)
           h == Head(ahead)
           longer == Append(past, h)
           rest == Tail(ahead)
<1>1. n \in Nat /\ m \in Nat \ {0} /\ h = ahead[1] /\ h \in S
  OBVIOUS
<1>2. /\ Len(longer) = n + 1
      /\ \A k \in 1..n : longer[k] = past[k]
      /\ longer[n + 1] = h
  BY <1>1, AppendProperties
<1>3. /\ rest \in Seq(S) /\ Len(rest) = m - 1
      /\ \A k \in 1..(m - 1) : rest[k] = ahead[k + 1]
  BY HeadTailProperties
<1>4. /\ Len(way) = n + m
      /\ \A k \in 1..n : past[k] = way[k]
      /\ \A k \in 1..m : ahead[k] = way[n + k]
  BY DEF Along
<1>5. rest = << >> <=> Len(rest) = 0
  <2> HIDE DEF rest
  <2> QED BY <1>3
<1> HIDE DEF n, m, h, longer, rest
<1>6. h = way[n + 1]
  BY <1>1, <1>4
<1>7. \A k \in 1..(n + 1) : longer[k] = way[k]
  BY <1>1, <1>2, <1>4, <1>6
<1>8. \A k \in 1..(m - 1) : rest[k] = way[(n + 1) + k]
  <2> SUFFICES ASSUME NEW k \in 1..(m - 1) PROVE rest[k] = way[(n + 1) + k]
    OBVIOUS
  <2>1. k + 1 \in 1..m /\ n + (k + 1) = (n + 1) + k
    BY <1>1
  <2> QED BY <1>3, <1>4, <2>1
<1>9. Len(way) = (n + 1) + (m - 1) /\ n + 1 \in 1..Len(way)
  BY <1>1, <1>4
<1>10. Along(longer, rest, way)
  BY <1>2, <1>3, <1>7, <1>8, <1>9 DEF Along
<1>11. n + 1 = Len(way) <=> rest = << >>
  BY <1>1, <1>3, <1>4, <1>5
<1> QED BY <1>6, <1>9, <1>10, <1>11 DEF n, h, longer, rest

LEMMA Single ==
  ASSUME NEW S, NEW x \in S
  PROVE  <<x>> \in Seq(S) /\ Len(<<x>>) = 1 /\ <<x>>[1] = x
OBVIOUS

\* The way to the mux, and what follows it.
LEMMA WayToMux ==
  ASSUME NEW use \in Seq(UseLayers)
  PROVE  LET way == Append(use, "mux") IN
         /\ way \in Seq(Layer) /\ Len(way) = Len(use) + 1
         /\ \A k \in 1..Len(use) : way[k] = use[k]
         /\ way[Len(use) + 1] = "mux"
<1>1. use \in Seq(Layer) /\ "mux" \in Layer
  BY DEF Layer
<1> QED BY <1>1, AppendProperties

LEMMA WayBehind ==
  ASSUME NEW use \in Seq(UseLayers), NEW route \in Seq(Layer)
  PROVE  LET way == use \o <<"mux">> \o route
             n == Len(use)
         IN  /\ way \in Seq(Layer) /\ Len(way) = n + 1 + Len(route)
             /\ \A k \in 1..n : way[k] = use[k]
             /\ way[n + 1] = "mux"
             /\ \A k \in 1..Len(route) : way[n + 1 + k] = route[k]
<1> DEFINE mux1 == <<"mux">>
           to == use \o mux1
           way == to \o route
           n == Len(use)
           m == Len(route)
<1>1. use \in Seq(Layer) /\ "mux" \in Layer /\ n \in Nat /\ m \in Nat
  BY DEF Layer
<1>2. mux1 \in Seq(Layer) /\ Len(mux1) = 1 /\ mux1[1] = "mux"
  BY <1>1, Single
<1> HIDE DEF mux1
<1>3. /\ to \in Seq(Layer) /\ Len(to) = n + 1
      /\ \A i \in 1..(n + 1) : to[i] = IF i <= n THEN use[i] ELSE mux1[i - n]
  <2>1. /\ to \in Seq(Layer) /\ Len(to) = Len(use) + Len(mux1)
        /\ \A i \in 1..Len(use) + Len(mux1) :
             to[i] = IF i <= Len(use) THEN use[i] ELSE mux1[i - Len(use)]
    BY <1>1, <1>2, ConcatProperties
  <2> HIDE DEF to
  <2> QED BY <1>2, <2>1
<1> HIDE DEF to
<1>4. /\ way \in Seq(Layer) /\ Len(way) = n + 1 + m
      /\ \A i \in 1..(n + 1 + m) : way[i] = IF i <= n + 1 THEN to[i] ELSE route[i - (n + 1)]
  <2>1. /\ way \in Seq(Layer) /\ Len(way) = Len(to) + Len(route)
        /\ \A i \in 1..Len(to) + Len(route) :
             way[i] = IF i <= Len(to) THEN to[i] ELSE route[i - Len(to)]
    <3>1. to \in Seq(Layer) /\ route \in Seq(Layer)
      BY <1>3
    <3> QED BY <3>1, ConcatProperties
  <2> HIDE DEF way
  <2> QED BY <1>3, <2>1
<1> HIDE DEF way, n, m
<1>5. \A k \in 1..n : way[k] = use[k]
  BY <1>1, <1>3, <1>4 DEF n
<1>6. way[n + 1] = "mux"
  <2>1. n + 1 \in 1..(n + 1) /\ n + 1 \in 1..(n + 1 + m) /\ ~(n + 1 <= n) /\ (n + 1) - n = 1
    BY <1>1
  <2> QED BY <1>2, <1>3, <1>4, <2>1
<1>7. \A k \in 1..m : way[n + 1 + k] = route[k]
  <2> SUFFICES ASSUME NEW k \in 1..m PROVE way[n + 1 + k] = route[k]
    OBVIOUS
  <2>1. n + 1 + k \in 1..(n + 1 + m) /\ ~(n + 1 + k <= n + 1) /\ (n + 1 + k) - (n + 1) = k
    BY <1>1
  <2> QED BY <1>4, <2>1
<1> QED BY <1>4, <1>5, <1>6, <1>7 DEF way, to, mux1, n, m

\* Two sequences along the same way, with nothing ahead, are the way.
LEMMA AtTheEnd ==
  ASSUME NEW S, NEW past \in Seq(S), NEW way \in Seq(S), Along(past, << >>, way)
  PROVE  past = way
BY DEF Along

-----------------------------------------------------------------------------
(* The mux *)

LEMMA WithinBoth ==
  ASSUME NEW a \in Methods \X Patterns, NEW b \in Methods \X Patterns, Within(a, b), Within(b, a)
  PROVE  a = b
<1>1. /\ a[1] \in Methods /\ b[1] \in Methods /\ a[2] \in Patterns /\ b[2] \in Patterns
      /\ a = <<a[1], a[2]>> /\ b = <<b[1], b[2]>>
  OBVIOUS
<1>2. a[1] = b[1]
  BY DEF Within, MethodWithin
<1>3. \A p \in Patterns : Depth(p) \in {1, 2, 3}
  BY DEF Depth, Patterns
<1>4. Depth(a[2]) = Depth(b[2])
  BY <1>1, <1>3 DEF Within
<1>5. \A p, q \in Patterns : Depth(p) = Depth(q) => p = q
  BY DEF Depth, Patterns
<1> QED BY <1>1, <1>2, <1>4, <1>5

\* Entries of one key are one entry.
LEMMA KeyOnce ==
  ASSUME RoutesOK, NEW e \in mux, NEW f \in mux, e.key = f.key
  PROVE  e = f
BY DEF RoutesOK, Clash, MethodWithin

\* The mux serves a request with one entry at most.
LEMMA ResolvedOnce ==
  ASSUME RoutesOK, NEW r, NEW e \in Resolve(r), NEW f \in Resolve(r)
  PROVE  e = f
<1>1. e \in mux /\ f \in mux /\ Within(e.key, f.key) /\ Within(f.key, e.key)
  BY DEF Resolve
<1>2. e.key \in Methods \X Patterns /\ f.key \in Methods \X Patterns
  BY <1>1 DEF RoutesOK
<1>3. e.key = f.key
  BY <1>1, <1>2, WithinBoth
<1> QED BY <1>1, <1>3, KeyOnce

\* Router.Match finds the endpoint that the mux dispatches to, and none else.
LEMMA MatchIsServes ==
  ASSUME RoutesOK
  PROVE  Match(req) = Serves \ {0} /\ Match(req) \subseteq 1..Len(endpoints)
<1>1. endpoints \in Seq(Endpoint) /\ DOMAIN endpoints = 1..Len(endpoints) /\ Len(endpoints) \in Nat
  BY DEF RoutesOK
<1>2. Match(req) \subseteq 1..Len(endpoints)
  BY <1>1 DEF Match
<1>3. ASSUME NEW i \in Match(req) PROVE i \in Serves \ {0}
  <2>1. PICK e \in Resolve(req) : e.key = endpoints[i].key
    BY DEF Match
  <2> DEFINE own == [key |-> endpoints[i].key, endpoint |-> i]
  <2>2. i \in 1..Len(endpoints) /\ own \in mux /\ e \in mux
    BY <1>2, <2>1 DEF RoutesOK, Resolve
  <2>3. own.key = endpoints[i].key /\ own.endpoint = i
    OBVIOUS
  <2> HIDE DEF own
  <2>4. e = own
    BY <2>1, <2>2, <2>3, KeyOnce
  <2> QED BY <1>1, <2>1, <2>2, <2>3, <2>4 DEF Serves
<1>4. ASSUME NEW i \in Serves \ {0} PROVE i \in Match(req)
  <2>1. PICK e \in Resolve(req) : e.endpoint = i
    BY DEF Serves
  <2>2. e \in mux /\ i # 0
    BY <2>1 DEF Resolve
  <2>3. i \in 0..Len(endpoints) /\ endpoints[i].key = e.key
    BY <2>1, <2>2 DEF RoutesOK
  <2> QED BY <1>1, <2>1, <2>2, <2>3 DEF Match
<1> QED BY <1>2, <1>3, <1>4

LEMMA ClashSymmetric ==
  ASSUME NEW a, NEW b, Clash(a, b)
  PROVE  Clash(b, a)
BY DEF Clash

LEMMA RoutesInit ==
  ASSUME Init
  PROVE  RoutesOK
<1>1. << >> \in Seq(Option) /\ << >> \in Seq(Endpoint) /\ << >> \in Seq(Seq(Option))
  OBVIOUS
<1>2. group = << >> /\ endpoints = << >> /\ declared = << >> /\ mux = {}
  BY DEF Init
<1>3. Len(endpoints) = 0 /\ Len(declared) = 0
  BY <1>2
<1>4. 1..0 = {}
  OBVIOUS
<1> QED BY <1>1, <1>2, <1>3, <1>4 DEF RoutesOK

LEMMA RegisterKeeps ==
  ASSUME RoutesOK, NEW key \in Keys, NEW opts \in OptionLists, Register(key, opts)
  PROVE  RoutesOK'
<1> DEFINE n == Len(endpoints)
           options == group \o opts
           ep == Configured(key, options)
           own == [key |-> key, endpoint |-> n + 1]
<1>1. /\ endpoints \in Seq(Endpoint) /\ declared \in Seq(Seq(Option)) /\ Len(declared) = n
      /\ n \in Nat /\ group \in Seq(Option)
  BY DEF RoutesOK
<1>2. key \in Methods \X Patterns /\ opts \in Seq(Option)
  BY RouterAssumption
<1>3. options \in Seq(Option)
  BY <1>1, <1>2, ConcatProperties
<1>4. /\ endpoints' = Append(endpoints, ep) /\ declared' = Append(declared, options)
      /\ mux' = mux \cup {own} /\ group' = group /\ \A e \in mux : ~Clash(key, e.key)
  BY DEF Register, Registrable
<1> HIDE DEF options
<1>5. /\ ep \in Endpoint /\ ep.key = key
      /\ SecurityFrom(ep.security, options, Len(options))
      /\ \E at : Places(at, ep.middleware, options, Len(options))
  BY <1>2, <1>3, ConfiguredSays
<1> HIDE DEF ep
<1>6. /\ endpoints' \in Seq(Endpoint) /\ Len(endpoints') = n + 1
      /\ \A i \in 1..n : endpoints'[i] = endpoints[i]
      /\ endpoints'[n + 1] = ep
  BY <1>1, <1>4, <1>5, AppendProperties
<1>7. /\ declared' \in Seq(Seq(Option)) /\ Len(declared') = n + 1
      /\ \A i \in 1..n : declared'[i] = declared[i]
      /\ declared'[n + 1] = options
  BY <1>1, <1>3, <1>4, AppendProperties
<1>8. /\ own \in [key : Methods \X Patterns, endpoint : 0..(n + 1)]
      /\ own.key = key /\ own.endpoint = n + 1
  BY <1>1, <1>2
<1>9. /\ mux \subseteq [key : Methods \X Patterns, endpoint : 0..n]
      /\ \A e \in mux : e.endpoint # 0 => endpoints[e.endpoint].key = e.key
      /\ \A e, f \in mux : e # f => ~Clash(e.key, f.key)
      /\ \A i \in 1..n :
           /\ SecurityFrom(endpoints[i].security, declared[i], Len(declared[i]))
           /\ \E at : Places(at, endpoints[i].middleware, declared[i], Len(declared[i]))
           /\ [key |-> endpoints[i].key, endpoint |-> i] \in mux
  BY DEF RoutesOK
<1>10. own = [key |-> endpoints'[n + 1].key, endpoint |-> n + 1]
  BY <1>5, <1>6
<1> HIDE DEF own, n
<1>11. \A i \in 1..(n + 1) : i \in 1..n \/ i = n + 1
  BY <1>1
<1>12. ASSUME NEW i \in 1..(n + 1)
       PROVE  /\ SecurityFrom(endpoints'[i].security, declared'[i], Len(declared'[i]))
              /\ \E at : Places(at, endpoints'[i].middleware, declared'[i], Len(declared'[i]))
              /\ [key |-> endpoints'[i].key, endpoint |-> i] \in mux'
  <2>1. CASE i \in 1..n
    BY <1>4, <1>6, <1>7, <1>9, <2>1
  <2>2. CASE i = n + 1
    BY <1>4, <1>5, <1>6, <1>7, <1>10, <2>2
  <2> QED BY <1>11, <2>1, <2>2
<1>13. mux' \subseteq [key : Methods \X Patterns, endpoint : 0..(n + 1)]
  <2>1. 0..n \subseteq 0..(n + 1)
    BY <1>1
  <2> QED BY <1>4, <1>8, <1>9, <2>1
<1>14. ASSUME NEW e \in mux', e.endpoint # 0
       PROVE  endpoints'[e.endpoint].key = e.key
  <2>1. CASE e \in mux
    <3>1. e.endpoint \in 0..n
      BY <1>9, <2>1
    <3>2. e.endpoint \in 1..n
      BY <1>1, <1>14, <3>1
    <3> QED BY <1>6, <1>9, <1>14, <2>1, <3>2
  <2>2. CASE e = own
    BY <1>5, <1>6, <1>8, <2>2
  <2> QED BY <1>4, <2>1, <2>2
<1>15. ASSUME NEW e \in mux', NEW f \in mux', e # f
       PROVE  ~Clash(e.key, f.key)
  <2>1. e \in mux \/ e = own
    BY <1>4
  <2>2. f \in mux \/ f = own
    BY <1>4
  <2>3. \A x \in mux : ~Clash(x.key, key)
    BY <1>4, ClashSymmetric
  <2> QED BY <1>4, <1>8, <1>9, <1>15, <2>1, <2>2, <2>3
<1> QED BY <1>1, <1>4, <1>6, <1>7, <1>12, <1>13, <1>14, <1>15 DEF RoutesOK

LEMMA RegisterRawKeeps ==
  ASSUME RoutesOK, NEW key \in RawKeys, RegisterRaw(key)
  PROVE  RoutesOK'
<1> DEFINE own == [key |-> key, endpoint |-> 0]
<1>1. key \in Methods \X Patterns
  BY RouterAssumption
<1>2. /\ mux' = mux \cup {own} /\ group' = group /\ endpoints' = endpoints /\ declared' = declared
      /\ \A e \in mux : ~Clash(key, e.key)
  BY DEF RegisterRaw, Registrable
<1>3. Len(endpoints) \in Nat
  BY DEF RoutesOK
<1>4. /\ own \in [key : Methods \X Patterns, endpoint : 0..Len(endpoints)]
      /\ own.key = key /\ own.endpoint = 0
  BY <1>1, <1>3
<1> HIDE DEF own
<1>5. \A e, f \in mux' : e # f => ~Clash(e.key, f.key)
  <2> SUFFICES ASSUME NEW e \in mux', NEW f \in mux', e # f
               PROVE  ~Clash(e.key, f.key)
    OBVIOUS
  <2>1. e \in mux \/ e = own
    BY <1>2
  <2>2. f \in mux \/ f = own
    BY <1>2
  <2>3. \A x \in mux : ~Clash(x.key, key)
    BY <1>2, ClashSymmetric
  <2>4. \A x, y \in mux : x # y => ~Clash(x.key, y.key)
    BY DEF RoutesOK
  <2> QED BY <1>2, <1>4, <2>1, <2>2, <2>3, <2>4
<1>6. /\ mux' \subseteq [key : Methods \X Patterns, endpoint : 0..Len(endpoints)]
      /\ \A e \in mux' : e.endpoint # 0 => endpoints[e.endpoint].key = e.key
  BY <1>2, <1>4 DEF RoutesOK
<1>7. mux \subseteq mux'
  BY <1>2
<1> QED BY <1>2, <1>5, <1>6, <1>7 DEF RoutesOK

LEMMA RoutesKept ==
  ASSUME RoutesOK, [Next]_vars
  PROVE  RoutesOK'
<1>1. ASSUME NEW opts \in GroupLists \cup {<< >>}, RouterGroup(opts) PROVE RoutesOK'
  <2>1. opts \in Seq(Option)
    <3>1. << >> \in Seq(Option)
      OBVIOUS
    <3> QED BY <3>1, RouterAssumption
  <2>2. group' \in Seq(Option) /\ UNCHANGED <<endpoints, declared, mux>>
    BY <1>1, <2>1 DEF RouterGroup
  <2> QED BY <2>2 DEF RoutesOK
<1>2. ASSUME NEW opts \in GroupLists, NestGroup(opts) PROVE RoutesOK'
  <2>1. group \in Seq(Option) /\ opts \in Seq(Option)
    BY RouterAssumption DEF RoutesOK
  <2>2. group \o opts \in Seq(Option)
    BY <2>1, ConcatProperties
  <2>3. group' \in Seq(Option) /\ UNCHANGED <<endpoints, declared, mux>>
    BY <1>2, <2>2 DEF NestGroup
  <2> QED BY <2>3 DEF RoutesOK
<1>3. CASE Configure
  BY <1>1, <1>2, <1>3, RegisterKeeps, RegisterRawKeeps DEF Configure
<1>4. CASE (\E r \in Requests : Arrive(r)) \/ ServeStep \/ UNCHANGED vars
  <2>1. UNCHANGED setup
    BY <1>4 DEF Arrive, ServeStep, CorsPasses, CorsAdds, CorsAnswersPreflight, AuthPasses,
       AuthDecides, CachePasses, CacheHits, CacheMisses, MuxRejects, MuxDispatches,
       EndpointMiddleware, RawHandler, BindFails, Handle, Return, GoOn, Answer, vars, setup
  <2> QED BY <2>1 DEF setup, RoutesOK
<1> QED BY <1>3, <1>4 DEF Next

-----------------------------------------------------------------------------
(* What the authenticator decides *)

Creds == [Schemes -> {"absent", "invalid", "plain", "admin"}]

LEMMA RequirementNames ==
  ASSUME NEW r \in Requirement
  PROVE  /\ r # Anonymous
         /\ DOMAIN r # {} /\ DOMAIN r \subseteq Schemes
         /\ \A s \in DOMAIN r : r[s] \in {"any", "admin"}
<1>1. PICK S \in (SUBSET Schemes) \ {{}} : r \in [S -> {"any", "admin"}]
  BY DEF Requirement
<1>2. DOMAIN Anonymous = {}
  BY DEF Anonymous
<1>3. DOMAIN r = S /\ S # {} /\ S \subseteq Schemes /\ \A s \in S : r[s] \in {"any", "admin"}
  BY <1>1
<1>4. r # Anonymous
  BY <1>2, <1>3
<1> QED BY <1>3, <1>4

LEMMA Satisfied ==
  ASSUME NEW s, NEW scope \in {"any", "admin"},
         NEW c \in {"absent", "invalid", "plain", "admin"},
         Verdict(s, scope, c) = "satisfied"
  PROVE  s \in Verified /\ (c = "admin" \/ (c = "plain" /\ scope = "any"))
BY DEF Verdict

\* authorize refuses; or lets an anonymous request in, if a requirement allows
\* it; or makes the principals of one requirement, all of whose schemes hold.
LEMMA Decided ==
  ASSUME NEW reqs \in Seq(Requirement \cup {Anonymous}), NEW cred, NEW d \in Authorize(reqs, cred)
  PROVE  \/ /\ d.pass = FALSE /\ d.type \in AuthRefusals /\ d.status = DefaultStatus(d.type)
         \/ /\ d.pass = TRUE /\ d.principals = {}
            /\ \E k \in 1..Len(reqs) : reqs[k] = Anonymous
         \/ /\ d.pass = TRUE
            /\ \E k \in 1..Len(reqs) :
                 /\ reqs[k] # Anonymous /\ d.principals = DOMAIN reqs[k]
                 /\ \A s \in DOMAIN reqs[k] : Verdict(s, reqs[k][s], cred[s]) = "satisfied"
<1>1. PICK outcome \in [DOMAIN reqs -> {"satisfied", "absent", "unauthorized", "forbidden"}] :
        /\ \A i \in DOMAIN reqs :
             IF reqs[i] = Anonymous THEN outcome[i] = "satisfied"
             ELSE outcome[i] \in TrySatisfy(reqs[i], cred)
        /\ d = Decide(reqs, outcome)
  BY DEF Authorize
<1>2. DOMAIN reqs = 1..Len(reqs) /\ Len(reqs) \in Nat
  OBVIOUS
<1> DEFINE named == {i \in DOMAIN reqs : reqs[i] # Anonymous}
           won == {i \in named : outcome[i] = "satisfied"}
           came(o) == \E i \in named : outcome[i] = o
<1>3. CASE won # {}
  <2> DEFINE k == Min(won)
  <2>1. k \in won
    <3>1. won \in SUBSET Nat
      BY <1>2
    <3> HIDE DEF won
    <3> QED BY <1>3, <3>1, MinIsLeast
  <2>2. d = Pass(DOMAIN reqs[k])
    BY <1>1, <1>3 DEF Decide
  <2>3. k \in 1..Len(reqs) /\ reqs[k] # Anonymous /\ "satisfied" \in TrySatisfy(reqs[k], cred)
    BY <1>1, <1>2, <2>1
  <2> HIDE DEF k, won
  <2>4. ASSUME NEW s \in DOMAIN reqs[k]
        PROVE  Verdict(s, reqs[k][s], cred[s]) = "satisfied"
    <3> DEFINE verdicts == {Verdict(t, reqs[k][t], cred[t]) : t \in DOMAIN reqs[k]}
    <3>1. verdicts \ {"satisfied"} = {}
      BY <2>3 DEF TrySatisfy
    <3> QED BY <3>1
  <2>5. d.pass = TRUE /\ d.principals = DOMAIN reqs[k]
    BY <2>2 DEF Pass
  <2>6. \E j \in 1..Len(reqs) :
          /\ reqs[j] # Anonymous /\ d.principals = DOMAIN reqs[j]
          /\ \A s \in DOMAIN reqs[j] : Verdict(s, reqs[j][s], cred[s]) = "satisfied"
    <3>1. k \in 1..Len(reqs)
      BY <2>3
    <3> WITNESS k \in 1..Len(reqs)
    <3> QED BY <2>3, <2>4, <2>5
  <2> QED BY <2>5, <2>6
<1>4. CASE won = {} /\ came("unauthorized")
  BY <1>1, <1>4, SMTT(30) DEF Decide, Problem, AuthRefusals, DefaultStatus
<1>5. CASE won = {} /\ ~came("unauthorized") /\ named # DOMAIN reqs
  <2>1. d = Pass({})
    BY <1>1, <1>5 DEF Decide
  <2>2. PICK k \in DOMAIN reqs : reqs[k] = Anonymous
    BY <1>5
  <2> QED BY <1>2, <2>1, <2>2 DEF Pass
<1>6. CASE won = {} /\ ~came("unauthorized") /\ named = DOMAIN reqs
  <2>1. d = Problem(403, "forbidden") \/ d = Problem(401, "unauthenticated")
    BY <1>1, <1>6 DEF Decide
  <2> QED BY <2>1 DEF Problem, AuthRefusals, DefaultStatus
<1> QED BY <1>3, <1>4, <1>5, <1>6

LEMMA RequirementsAre ==
  ASSUME NEW options \in Seq(Option)
  PROVE  Requirements(options)
           = {options[j] : j \in {i \in 1..Len(options) : Stands(options, Len(options), i)}}
<1>1. DOMAIN options = 1..Len(options)
  OBVIOUS
<1> QED BY <1>1 DEF Requirements, Stands

\* Admitted, of any credentials and principals.
Admits(options, cred, who) ==
  LET needs == Requirements(options)
      held  == {o \in needs : Holds(o, cred)}
  IN  /\ needs # {} => held # {}
      /\ who # {} => \E o \in held : o.kind = "security" /\ DOMAIN o.req = who
      /\ who = {} => needs = {} \/ \E o \in held : o.kind = "optional"

LEMMA AdmittedIs ==
  ASSUME NEW options
  PROVE  Admitted(options) <=> Admits(options, req.cred, principals)
BY DEF Admitted, Admits

\* A route that declares no requirement admits a request without principals.
LEMMA Unguarded ==
  ASSUME NEW options \in Seq(Option), NEW cred, SecurityFrom(<< >>, options, Len(options))
  PROVE  Admits(options, cred, {})
<1>1. \A j \in 1..Len(options) : ~Stands(options, Len(options), j)
  BY DEF SecurityFrom
<1>2. Requirements(options) = {}
  BY <1>1, RequirementsAre
<1> QED BY <1>2 DEF Admits

\* What authorize lets pass, the declared options admit.
LEMMA PassAdmits ==
  ASSUME NEW options \in Seq(Option), NEW reqs \in Seq(Requirement \cup {Anonymous}),
         SecurityFrom(reqs, options, Len(options)),
         NEW cred \in Creds, NEW d \in Authorize(reqs, cred), d.pass = TRUE,
         NEW who, who = {} \/ Admits(options, cred, who)
  PROVE  Admits(options, cred, IF d.principals = {} THEN who ELSE d.principals)
<1> DEFINE n == Len(options)
<1>1. \A j \in 1..n : options[j] \in Option
  OBVIOUS
<1>2. CASE d.principals = {} /\ \E k \in 1..Len(reqs) : reqs[k] = Anonymous
  <2>1. SUFFICES ASSUME who = {} PROVE Admits(options, cred, {})
    BY <1>2
  <2>2. PICK k \in 1..Len(reqs) : reqs[k] = Anonymous
    BY <1>2
  <2>3. PICK j \in 1..n : Stands(options, n, j) /\ reqs[k] = Asked(options[j])
    BY DEF SecurityFrom
  <2>4. options[j].kind = "optional"
    BY <1>1, <2>2, <2>3, OptionKinds, RequirementNames DEF Stands, Asked
  <2>5. options[j] \in Requirements(options) /\ Holds(options[j], cred)
    BY <2>3, <2>4, RequirementsAre DEF Holds
  <2> QED BY <2>4, <2>5 DEF Admits
<1>3. ASSUME NEW k \in 1..Len(reqs), reqs[k] # Anonymous, d.principals = DOMAIN reqs[k],
             \A s \in DOMAIN reqs[k] : Verdict(s, reqs[k][s], cred[s]) = "satisfied"
      PROVE  Admits(options, cred, IF d.principals = {} THEN who ELSE d.principals)
  <2>1. reqs[k] \in Requirement
    BY <1>3
  <2>2. /\ DOMAIN reqs[k] # {} /\ DOMAIN reqs[k] \subseteq Schemes
        /\ \A s \in DOMAIN reqs[k] : reqs[k][s] \in {"any", "admin"}
    BY <2>1, RequirementNames
  <2>3. PICK j \in 1..n : Stands(options, n, j) /\ reqs[k] = Asked(options[j])
    BY DEF SecurityFrom
  <2>4. options[j].kind = "security" /\ options[j].req = reqs[k]
    BY <1>3, <2>3 DEF Asked
  <2>5. Holds(options[j], cred)
    <3> SUFFICES ASSUME NEW s \in DOMAIN reqs[k]
                 PROVE  s \in Verified /\ (cred[s] = "admin" \/ (cred[s] = "plain" /\ reqs[k][s] = "any"))
      BY <2>4 DEF Holds
    <3>1. cred[s] \in {"absent", "invalid", "plain", "admin"}
      BY <2>2 DEF Creds
    <3> QED BY <1>3, <2>2, <3>1, Satisfied
  <2>6. options[j] \in Requirements(options)
    BY <2>3, RequirementsAre
  <2> QED BY <1>3, <2>2, <2>4, <2>5, <2>6 DEF Admits
<1> QED BY <1>2, <1>3, Decided

-----------------------------------------------------------------------------
(* The way through the layers *)

LEMMA UseIs ==
  ASSUME ConfOK
  PROVE  conf.use \in Seq(UseLayers)
BY RouterAssumption DEF ConfOK

LEMMA LayerNames ==
  /\ "mux" \notin UseLayers /\ "raw" \notin UseLayers /\ "handler" \notin UseLayers
  /\ \A name \in Names : name \notin UseLayers /\ name \notin {"mux", "raw", "handler"}
BY RouterAssumption DEF UseLayers

LEMMA RouteIs ==
  ASSUME RoutesOK, NEW e \in mux
  PROVE  /\ Route(e) \in Seq(Layer)
         /\ Len(Route(e)) \in Nat \ {0}
         /\ \A k \in 1..Len(Route(e)) :
              IF k = Len(Route(e)) THEN Route(e)[k] \in {"raw", "handler"} ELSE Route(e)[k] \in Names
<1>1. "raw" \in Layer /\ "handler" \in Layer /\ Names \subseteq Layer
  BY DEF Layer
<1>2. CASE e.endpoint = 0
  <2>1. <<"raw">> \in Seq(Layer) /\ Len(<<"raw">>) = 1 /\ <<"raw">>[1] = "raw"
    BY <1>1, Single
  <2>2. Route(e) = <<"raw">>
    BY <1>2 DEF Route
  <2> QED BY <2>1, <2>2
<1>3. CASE e.endpoint # 0
  <2> DEFINE own == endpoints[e.endpoint].middleware
             last == <<"handler">>
             route == own \o last
  <2>1. Route(e) = route
    BY <1>3 DEF Route
  <2>2. e.endpoint \in 1..Len(endpoints)
    BY <1>3 DEF RoutesOK
  <2>3. own \in Seq(Names)
    <3>1. endpoints[e.endpoint] \in Endpoint
      BY <2>2 DEF RoutesOK
    <3> QED BY <3>1 DEF Endpoint
  <2> HIDE DEF own
  <2>4. own \in Seq(Layer) /\ Len(own) \in Nat /\ \A k \in 1..Len(own) : own[k] \in Names
    BY <1>1, <2>3
  <2>5. last \in Seq(Layer) /\ Len(last) = 1 /\ last[1] = "handler"
    BY <1>1, Single
  <2> HIDE DEF last
  <2>6. /\ route \in Seq(Layer) /\ Len(route) = Len(own) + Len(last)
        /\ \A i \in 1..Len(own) + Len(last) :
             route[i] = IF i <= Len(own) THEN own[i] ELSE last[i - Len(own)]
    BY <2>4, <2>5, ConcatProperties
  <2> HIDE DEF route
  <2>7. Len(route) = Len(own) + 1
    BY <2>5, <2>6
  <2>8. ASSUME NEW k \in 1..Len(route)
        PROVE  IF k = Len(route) THEN route[k] \in {"raw", "handler"} ELSE route[k] \in Names
    BY <2>4, <2>5, <2>6, <2>7
  <2> QED BY <2>1, <2>4, <2>6, <2>7, <2>8
<1> QED BY <1>2, <1>3

\* What the layer to be entered can be, and where entering it leaves the request.
LEMMA BeforeMux ==
  ASSUME ConfOK, WayOK, NEW layer, Serving(layer), "mux" \notin ToSet(entered)
  PROVE  /\ layer \in UseLayers \cup {"mux"}
         /\ Along(Append(entered, layer), Tail(layers), Append(conf.use, "mux"))
         /\ layer = "mux" => /\ Tail(layers) = << >>
                             /\ Append(entered, layer) = Append(conf.use, "mux")
<1> DEFINE way == Append(conf.use, "mux")
           n == Len(conf.use)
           p == Len(entered) + 1
<1>1. conf.use \in Seq(UseLayers) /\ n \in Nat
  BY UseIs
<1>2. /\ way \in Seq(Layer) /\ Len(way) = n + 1
      /\ \A k \in 1..n : way[k] = conf.use[k]
      /\ way[n + 1] = "mux"
  BY <1>1, WayToMux
<1>3. /\ req # Idle /\ answer = Idle /\ layers # << >> /\ layer = Head(layers)
      /\ entered \in Seq(Layer) /\ layers \in Seq(Layer)
  BY DEF Serving, WayOK
<1>4. Along(entered, layers, way)
  BY <1>3 DEF WayOK
<1> HIDE DEF way
<1>5. /\ Along(Append(entered, layer), Tail(layers), way)
      /\ p \in 1..Len(way) /\ layer = way[p]
      /\ p = Len(way) <=> Tail(layers) = << >>
  BY <1>3, <1>4, GoesOn
<1> HIDE DEF n, p
<1>6. layer \in UseLayers \cup {"mux"} /\ (layer = "mux" => p = Len(way))
  <2>1. CASE p = n + 1
    BY <1>2, <1>5, <2>1
  <2>2. CASE p # n + 1
    <3>1. p \in 1..n
      BY <1>1, <1>2, <1>5, <2>2
    <3>2. layer \in UseLayers
      BY <1>1, <1>2, <1>5, <3>1 DEF n
    <3> QED BY <3>2, LayerNames
  <2> QED BY <2>1, <2>2
<1>7. ASSUME layer = "mux"
      PROVE  Tail(layers) = << >> /\ Append(entered, layer) = way
  <2>1. Tail(layers) = << >>
    BY <1>5, <1>6, <1>7
  <2>2. layer \in Layer
    BY <1>7 DEF Layer
  <2>3. Append(entered, layer) \in Seq(Layer)
    BY <1>3, <2>2, AppendSet
  <2>4. Along(Append(entered, layer), << >>, way)
    BY <1>5, <2>1
  <2> QED BY <1>2, <2>1, <2>3, <2>4, AtTheEnd
<1> QED BY <1>5, <1>6, <1>7 DEF way

LEMMA BehindMux ==
  ASSUME ConfOK, RoutesOK, WayOK, NEW layer, Serving(layer), "mux" \in ToSet(entered)
  PROVE  /\ layer \in Names \cup {"raw", "handler"}
         /\ \A e \in Resolve(req) : Along(Append(entered, layer), Tail(layers), Way(e))
         /\ layer \in {"raw", "handler"} => Tail(layers) = << >>
<1>1. /\ req # Idle /\ answer = Idle /\ layers # << >> /\ layer = Head(layers)
      /\ entered \in Seq(Layer) /\ layers \in Seq(Layer)
  BY DEF Serving, WayOK
<1>2. Resolve(req) # {} /\ \A e \in Resolve(req) : Along(entered, layers, Way(e))
  BY <1>1 DEF WayOK
<1>3. ASSUME NEW e \in Resolve(req)
      PROVE  /\ layer \in Names \cup {"raw", "handler"}
             /\ Along(Append(entered, layer), Tail(layers), Way(e))
             /\ layer \in {"raw", "handler"} => Tail(layers) = << >>
  <2> DEFINE way == Way(e)
             route == Route(e)
             n == Len(conf.use)
             p == Len(entered) + 1
  <2>1. conf.use \in Seq(UseLayers) /\ n \in Nat /\ Len(entered) \in Nat
    BY <1>1, UseIs
  <2>2. /\ route \in Seq(Layer) /\ Len(route) \in Nat \ {0}
        /\ \A k \in 1..Len(route) :
             IF k = Len(route) THEN route[k] \in {"raw", "handler"} ELSE route[k] \in Names
    BY RouteIs DEF Resolve
  <2> HIDE DEF route
  <2>3. /\ Len(way) = n + 1 + Len(route)
        /\ \A k \in 1..n : way[k] = conf.use[k]
        /\ \A k \in 1..Len(route) : way[n + 1 + k] = route[k]
    BY <2>1, <2>2, WayBehind DEF Way, route
  <2>4. Along(entered, layers, way)
    BY <1>2
  <2> HIDE DEF way
  <2>5. /\ Along(Append(entered, layer), Tail(layers), way)
        /\ p \in 1..Len(way) /\ layer = way[p]
        /\ p = Len(way) <=> Tail(layers) = << >>
    BY <1>1, <2>4, GoesOn
  <2>6. PICK k \in 1..Len(entered) : entered[k] = "mux"
    BY <1>1 DEF ToSet
  <2>7. way[k] = "mux"
    BY <2>4, <2>6 DEF Along
  <2>8. k \notin 1..n
    <3>1. \A i \in 1..n : way[i] \in UseLayers
      BY <2>1, <2>3
    <3> QED BY <2>7, <3>1, LayerNames
  <2> HIDE DEF n
  <2> DEFINE i == p - (n + 1)
  <2>9. i \in 1..Len(route) /\ p = n + 1 + i
    BY <2>1, <2>2, <2>3, <2>5, <2>6, <2>8
  <2>10. layer = route[i] /\ (i = Len(route) => p = Len(way))
    BY <2>3, <2>5, <2>9
  <2> HIDE DEF i, p
  <2>11. IF i = Len(route) THEN layer \in {"raw", "handler"} ELSE layer \in Names
    BY <2>2, <2>9, <2>10
  <2>12. layer \in {"raw", "handler"} => i = Len(route)
    BY <2>11, LayerNames
  <2> QED BY <2>5, <2>10, <2>11, <2>12 DEF way, p
<1> QED BY <1>2, <1>3

-----------------------------------------------------------------------------
(* The steps of a request *)

\* A layer is entered and calls the next.
Passes(layer) ==
  /\ Enter(layer)
  /\ layers' = Tail(layers)
  /\ UNCHANGED <<setup, served, req, answer, stored>>

\* A layer is entered and answers.
Answers(layer) ==
  /\ Enter(layer)
  /\ layers' = << >>
  /\ answer' # Idle
  /\ UNCHANGED <<setup, served, req, stored>>

LEMMA Codes ==
  /\ {200, 204, 404} \subseteq Written
  /\ Successes \subseteq Written /\ 0 \notin Successes
BY DEF Written, Successes

\* What hooks may make of a status is a status, and zero only when they clear it.
LEMMA HooksGive ==
  /\ Returned \subseteq Written /\ 0 \notin Returned /\ Left \subseteq Written
  /\ \A hook \in Hooks : BindStatus(hook) \in ({400} \cup Returned) \cap Written
<1>1. \A hook \in Hooks : hook.status \in Nat /\ hook.kind \in {"none", "nil", "changes", "returns"}
  BY RouterAssumption DEF Hook
<1>2. Returned \subseteq Written /\ 0 \notin Returned /\ Left \subseteq Written
  BY <1>1 DEF Returned, Left, Written
<1>3. ASSUME NEW hook \in Hooks
      PROVE  BindStatus(hook) \in ({400} \cup Returned) \cap Written
  <2>1. CASE hook.kind = "returns" /\ hook.status # 0
    BY <1>1, <2>1 DEF BindStatus, Returned, Written
  <2>2. CASE ~(hook.kind = "returns" /\ hook.status # 0)
    BY <2>2 DEF BindStatus, Written
  <2> QED BY <2>1, <2>2
<1> QED BY <1>2, <1>3

LEMMA RefusedIs ==
  ASSUME NEW type \in AuthRefusals, NEW status \in Refused(type)
  PROVE  status \in Written /\ Fits(status, type) /\ type \notin {"mux", "raw", "bind", "handler"}
         /\ type \notin {"preflight", "stored"}
<1>1. DefaultStatus(type) \in Written /\ DefaultStatus(type) # 0
  BY DEF DefaultStatus, Written
<1>2. type \notin {"mux", "raw", "bind", "handler", "preflight", "stored"}
  BY DEF AuthRefusals
<1> QED BY <1>1, <1>2, HooksGive DEF Refused, Fits

LEMMA IsAnswer ==
  ASSUME NEW status \in Written, NEW h, NEW body, Answer(status, h, body)
  PROVE  /\ answer'.status = status /\ answer'.headers = h /\ answer'.body = body
         /\ answer' # Idle
         /\ headers' = h /\ layers' = << >>
         /\ UNCHANGED <<setup, served, req, recording, stored, principals>>
<1>1. answer' = [status |-> status, headers |-> h, body |-> body]
  BY DEF Answer
<1>2. answer'.status = status /\ answer'.headers = h /\ answer'.body = body
  BY <1>1
<1>3. "body" \in DOMAIN answer' /\ "body" \notin DOMAIN Idle
  BY <1>1 DEF Idle
<1>4. answer' # Idle
  BY <1>3
<1> QED BY <1>2, <1>4 DEF Answer

LEMMA AnswersIs ==
  ASSUME NEW layer, Enter(layer), NEW status \in Written, NEW h, NEW body,
         Answer(status, h, body)
  PROVE  Answers(layer)
<1>1. answer' # Idle /\ layers' = << >>
  BY IsAnswer
<1>2. UNCHANGED <<setup, served, req, stored>>
  BY DEF Answer
<1> QED BY <1>1, <1>2 DEF Answers

\* The endpoint that Match finds, and its requirements.
LEMMA MatchedEndpoint ==
  ASSUME RoutesOK, NEW i \in Match(req)
  PROVE  /\ i \in Serves \ {0} /\ i \in 1..Len(endpoints)
         /\ SecurityOf(i) \in Seq(Requirement \cup {Anonymous})
         /\ declared[i] \in Seq(Option)
         /\ SecurityFrom(SecurityOf(i), declared[i], Len(declared[i]))
         /\ \A j \in Serves \ {0} : j = i
<1>1. i \in Serves \ {0} /\ i \in 1..Len(endpoints)
  BY MatchIsServes
<1>2. endpoints[i] \in Endpoint /\ declared[i] \in Seq(Option)
  BY <1>1 DEF RoutesOK
<1>3. endpoints[i].security \in Seq(Requirement \cup {Anonymous})
  BY <1>2 DEF Endpoint
<1>4. SecurityFrom(endpoints[i].security, declared[i], Len(declared[i]))
  BY <1>1 DEF RoutesOK
<1>5. \A j \in Serves \ {0} : j = i
  BY <1>1, ResolvedOnce DEF Serves
<1> QED BY <1>1, <1>2, <1>3, <1>4, <1>5 DEF SecurityOf

LEMMA ServedEndpoint ==
  ASSUME RoutesOK, NEW i \in Serves \ {0}
  PROVE  i \in Match(req)
BY MatchIsServes

\* What the authenticator does with its decision about the i-th endpoint.
Outcome(i, d) ==
  /\ SecurityOf(i) # << >>
  /\ \/ /\ d.pass = TRUE
        /\ GoOn(headers, IF d.principals = {} THEN principals ELSE d.principals)
     \/ /\ d.pass = FALSE
        /\ d.type \in AuthRefusals
        /\ \E status \in Refused(d.type) : Answer(status, headers, d.type)

\* AuthDecides, split: the request goes on, or the authenticator answers.
LEMMA AuthDecidesIs ==
  ASSUME RoutesOK, AuthDecides
  PROVE  \E i \in Match(req) : \E d \in Authorize(SecurityOf(i), req.cred) : Outcome(i, d)
<1>0. PICK i \in Match(req) : \E d \in Authorize(SecurityOf(i), req.cred) :
        /\ SecurityOf(i) # << >>
        /\ IF d.pass THEN GoOn(headers, IF d.principals = {} THEN principals ELSE d.principals)
           ELSE \E hook \in Hooks : Answer(Shape(d.status, hook), headers, d.type)
  BY DEF AuthDecides
<1>1. PICK d \in Authorize(SecurityOf(i), req.cred) :
        /\ SecurityOf(i) # << >>
        /\ IF d.pass THEN GoOn(headers, IF d.principals = {} THEN principals ELSE d.principals)
           ELSE \E hook \in Hooks : Answer(Shape(d.status, hook), headers, d.type)
  BY <1>0
<1>2. SecurityOf(i) \in Seq(Requirement \cup {Anonymous})
  BY MatchedEndpoint
<1>3. CASE d.pass = TRUE
  <2>1. Outcome(i, d)
    BY <1>1, <1>3 DEF Outcome
  <2> QED BY <2>1
<1>4. CASE d.pass = FALSE /\ d.type \in AuthRefusals /\ d.status = DefaultStatus(d.type)
  <2>1. \A hook \in Hooks : Shape(d.status, hook) \in Refused(d.type)
    BY <1>4 DEF Shape, Refused, Returned, Left
  <2>2. \E hook \in Hooks : Answer(Shape(d.status, hook), headers, d.type)
    <3>1. IF d.pass THEN GoOn(headers, IF d.principals = {} THEN principals ELSE d.principals)
          ELSE \E hook \in Hooks : Answer(Shape(d.status, hook), headers, d.type)
      BY <1>1
    <3>2. ~d.pass
      BY <1>4
    <3> QED BY <3>1, <3>2
  <2>3. \E status \in Refused(d.type) : Answer(status, headers, d.type)
    BY <2>1, <2>2
  <2>4. Outcome(i, d)
    BY <1>1, <1>4, <2>3 DEF Outcome
  <2> QED BY <2>4
<1>5. d.pass = TRUE
      \/ (d.pass = FALSE /\ d.type \in AuthRefusals /\ d.status = DefaultStatus(d.type))
  BY <1>2, Decided
<1> QED BY <1>3, <1>4, <1>5

\* Every step of the layers passes or answers, or is the mux's dispatch or the return.
LEMMA StepKinds ==
  ASSUME RoutesOK, StoredOK, ServeStep
  PROVE  \/ \E layer \in UseLayers \cup {Head(layers)} :
              layer \notin {"mux", "raw", "handler"} /\ Passes(layer)
         \/ \E layer \in UseLayers \cup {"raw", "handler"} : Answers(layer)
         \/ Resolve(req) = {} /\ Answers("mux")
         \/ MuxDispatches
         \/ Return
<1>1. CASE CorsPasses \/ CorsAdds \/ AuthPasses \/ CachePasses \/ CacheMisses
  <2>1. Passes("cors") \/ Passes("auth") \/ Passes("cache")
    BY <1>1 DEF CorsPasses, CorsAdds, AuthPasses, CachePasses, CacheMisses, GoOn, Passes, Enter
  <2> QED BY <2>1 DEF UseLayers
<1>2. CASE EndpointMiddleware
  <2>1. Passes(Head(layers)) /\ Head(layers) \notin {"mux", "raw", "handler"}
    BY <1>2 DEF EndpointMiddleware, GoOn, Passes, Enter, Serving
  <2> QED BY <2>1
<1>3. CASE CorsAnswersPreflight
  <2>1. /\ Enter("cors")
        /\ LET h == CorsHeaders(headers, req.origin, conf.cors)
           IN  Answer(204, PreflightHeaders(h), "preflight")
    BY <1>3 DEF CorsAnswersPreflight
  <2>2. Answers("cors")
    <3>1. 204 \in Written
      BY Codes
    <3> QED BY <2>1, <3>1, AnswersIs
  <2> QED BY <2>2 DEF UseLayers
<1>4. CASE AuthDecides
  <2>1. Enter("auth")
    BY <1>4 DEF AuthDecides
  <2>2. PICK i \in Match(req) : \E d \in Authorize(SecurityOf(i), req.cred) : Outcome(i, d)
    BY <1>4, AuthDecidesIs
  <2>5. PICK d \in Authorize(SecurityOf(i), req.cred) : Outcome(i, d)
    BY <2>2
  <2>3. CASE GoOn(headers, IF d.principals = {} THEN principals ELSE d.principals)
    <3>1. Passes("auth")
      BY <2>1, <2>3 DEF GoOn, Passes
    <3> QED BY <3>1 DEF UseLayers
  <2>4. CASE d.type \in AuthRefusals /\ \E status \in Refused(d.type) : Answer(status, headers, d.type)
    <3>1. Answers("auth")
      <4>1. PICK status \in Refused(d.type) : Answer(status, headers, d.type)
        BY <2>4
      <4>2. status \in Written
        BY <2>4, <4>1, RefusedIs
      <4> QED BY <2>1, <4>1, <4>2, AnswersIs
    <3> QED BY <3>1 DEF UseLayers
  <2> QED BY <2>3, <2>4, <2>5 DEF Outcome
<1>5. CASE CacheHits
  <2>1. Enter("cache") /\ \E h : Answer(stored[CacheKey].status, h, "stored")
    BY <1>5 DEF CacheHits
  <2>2. stored[CacheKey].status \in Written
    <3>1. CacheKey \in DOMAIN stored
      BY <1>5 DEF CacheHits
    <3>2. stored[CacheKey].status \in Successes
      BY <3>1 DEF StoredOK
    <3> QED BY <3>2, Codes
  <2>3. Answers("cache")
    <3>1. PICK h : Answer(stored[CacheKey].status, h, "stored")
      BY <2>1
    <3> QED BY <2>1, <2>2, <3>1, AnswersIs
  <2> QED BY <2>3 DEF UseLayers
<1>6. CASE MuxRejects
  <2>1. Resolve(req) = {} /\ Enter("mux") /\ Answer(404, headers, "mux") /\ 404 \in Written
    BY <1>6, Codes DEF MuxRejects
  <2>2. Answers("mux")
    BY <2>1, AnswersIs
  <2> QED BY <2>1, <2>2
<1>7. CASE RawHandler
  <2>1. Answers("raw")
    <3>1. Enter("raw") /\ Answer(200, headers, "raw") /\ 200 \in Written
      BY <1>7, Codes DEF RawHandler
    <3> QED BY <3>1, AnswersIs
  <2> QED BY <2>1
<1>8. CASE BindFails \/ Handle
  <2>1. 200 \in Written /\ \A hook \in Hooks : BindStatus(hook) \in Written
    BY Codes, HooksGive
  <2>2. /\ Enter("handler")
        /\ \/ \E hook \in Hooks : Answer(BindStatus(hook), headers, "bind")
           \/ Answer(200, headers, "handler")
    BY <1>8 DEF BindFails, Handle
  <2>4. PICK status \in Written, body \in {"bind", "handler"} : Answer(status, headers, body)
    BY <2>1, <2>2
  <2>3. Answers("handler")
    BY <2>2, <2>4, AnswersIs
  <2> QED BY <2>3
<1>9. CASE MuxDispatches \/ Return
  BY <1>9
<1> QED BY <1>1, <1>2, <1>3, <1>4, <1>5, <1>6, <1>7, <1>8, <1>9 DEF ServeStep

-----------------------------------------------------------------------------
(* The request keeps to its way *)

LEMMA SetupKept ==
  ASSUME UNCHANGED <<setup, req>>
  PROVE  /\ conf' = conf /\ endpoints' = endpoints /\ declared' = declared /\ mux' = mux
         /\ Resolve(req)' = Resolve(req) /\ Serves' = Serves /\ Match(req)' = Match(req)
         /\ CacheKey' = CacheKey
         /\ \A e : Way(e)' = Way(e)
BY DEF setup, Resolve, Serves, Match, Way, Route, CacheKey

LEMMA LayerEntered ==
  ASSUME ConfOK, RoutesOK, WayOK, NEW layer, Enter(layer)
  PROVE  /\ req # Idle /\ answer = Idle /\ layer \in Layer
         /\ Tail(layers) \in Seq(Layer)
         /\ entered' = Append(entered, layer) /\ entered' \in Seq(Layer)
         /\ ToSet(entered') = ToSet(entered) \cup {layer}
<1>1. Serving(layer) /\ entered' = Append(entered, layer) /\ req # Idle /\ answer = Idle
  BY DEF Enter, Serving
<1>2. layer \in Layer
  BY <1>1, BeforeMux, BehindMux DEF Layer
<1>3. entered \in Seq(Layer) /\ layers \in Seq(Layer) /\ layers # << >>
  BY <1>1 DEF WayOK, Serving
<1>4. Tail(layers) \in Seq(Layer)
  BY <1>3, HeadTailProperties
<1> QED BY <1>1, <1>2, <1>3, <1>4, AppendSet

LEMMA PassesKeepsWay ==
  ASSUME ConfOK, RoutesOK, WayOK, NEW layer, layer # "mux", Passes(layer)
  PROVE  WayOK'
<1>1. /\ Enter(layer) /\ Serving(layer) /\ layers' = Tail(layers) /\ req' = req /\ answer' = answer
      /\ UNCHANGED <<setup, req>>
  BY DEF Passes, Enter
<1>2. /\ req # Idle /\ answer = Idle /\ layers' \in Seq(Layer)
      /\ entered' = Append(entered, layer) /\ entered' \in Seq(Layer)
      /\ ToSet(entered') = ToSet(entered) \cup {layer}
  BY <1>1, LayerEntered
<1>3. /\ conf' = conf /\ Resolve(req)' = Resolve(req) /\ Resolve(req') = Resolve(req)'
      /\ \A e : Way(e)' = Way(e)
  BY <1>1, SetupKept
<1>4. ASSUME "mux" \notin ToSet(entered')
      PROVE  Along(entered', layers', Append(conf.use, "mux"))
  <2>1. "mux" \notin ToSet(entered)
    BY <1>2, <1>4
  <2> QED BY <1>1, <1>2, <2>1, BeforeMux
<1>5. ASSUME "mux" \in ToSet(entered')
      PROVE  /\ Resolve(req) # {}
             /\ ToSet(conf.use) \subseteq ToSet(entered')
             /\ \A e \in Resolve(req) : Along(entered', layers', Way(e))
  <2>1. "mux" \in ToSet(entered)
    BY <1>2, <1>5
  <2>2. \A e \in Resolve(req) : Along(entered', layers', Way(e))
    BY <1>1, <1>2, <2>1, BehindMux
  <2> QED BY <1>2, <2>1, <2>2 DEF WayOK
<1> QED BY <1>1, <1>2, <1>3, <1>4, <1>5 DEF WayOK

LEMMA AnswersKeepsWay ==
  ASSUME ConfOK, RoutesOK, WayOK, NEW layer, Answers(layer),
         layer \in UseLayers \cup {"raw", "handler"} \/ (layer = "mux" /\ Resolve(req) = {})
  PROVE  WayOK'
<1>1. /\ Enter(layer) /\ Serving(layer) /\ layers' = << >> /\ req' = req /\ answer' # Idle
      /\ UNCHANGED <<setup, req>>
  BY DEF Answers, Enter
<1>2. /\ req # Idle /\ answer = Idle
      /\ entered' = Append(entered, layer) /\ entered' \in Seq(Layer)
      /\ ToSet(entered') = ToSet(entered) \cup {layer}
  BY <1>1, LayerEntered
<1>3. /\ conf' = conf /\ Resolve(req)' = Resolve(req)
      /\ \A e : Way(e)' = Way(e)
  BY <1>1, SetupKept
<1>4. layers' \in Seq(Layer)
  <2>1. << >> \in Seq(Layer)
    OBVIOUS
  <2> QED BY <1>1, <2>1
<1>5. ASSUME "mux" \in ToSet(entered')
      PROVE  /\ ToSet(conf.use) \subseteq ToSet(entered')
             /\ \A e \in Resolve(req) : Along(entered', layers', Way(e))
  <2>1. CASE "mux" \in ToSet(entered)
    <3>1. layer \in {"raw", "handler"}
      BY <1>1, <2>1, BehindMux, LayerNames
    <3>2. \A e \in Resolve(req) : Along(entered', layers', Way(e))
      BY <1>1, <1>2, <2>1, <3>1, BehindMux
    <3> QED BY <1>2, <2>1, <3>2 DEF WayOK
  <2>2. CASE "mux" \notin ToSet(entered)
    <3>1. layer = "mux" /\ Resolve(req) = {}
      BY <1>2, <1>5, <2>2, LayerNames
    <3>2. entered' = Append(conf.use, "mux")
      BY <1>1, <1>2, <2>2, <3>1, BeforeMux
    <3>3. ToSet(Append(conf.use, "mux")) = ToSet(conf.use) \cup {"mux"}
      <4>1. conf.use \in Seq(Layer) /\ "mux" \in Layer
        BY UseIs DEF Layer
      <4> QED BY <4>1, AppendSet
    <3> QED BY <3>1, <3>2, <3>3
  <2> QED BY <2>1, <2>2
<1> QED BY <1>1, <1>2, <1>3, <1>4, <1>5 DEF WayOK

LEMMA DispatchKeepsWay ==
  ASSUME ConfOK, RoutesOK, WayOK, MuxDispatches
  PROVE  WayOK'
<1>1. Enter("mux") /\ Serving("mux") /\ req' = req /\ answer' = answer /\ UNCHANGED <<setup, req>>
  BY DEF MuxDispatches, Enter
<1>2. /\ req # Idle /\ answer = Idle
      /\ entered' = Append(entered, "mux") /\ entered' \in Seq(Layer)
      /\ ToSet(entered') = ToSet(entered) \cup {"mux"}
  BY <1>1, LayerEntered
<1>3. PICK e \in Resolve(req) : layers' = Route(e)
  BY DEF MuxDispatches, Route
<1>4. e \in mux
  BY DEF Resolve
<1>5. layers' \in Seq(Layer) /\ Len(layers') \in Nat
  BY <1>3, <1>4, RouteIs
<1>6. /\ conf' = conf /\ Resolve(req)' = Resolve(req)
      /\ \A f : Way(f)' = Way(f)
  BY <1>1, SetupKept
<1>7. "mux" \notin ToSet(entered)
  BY <1>1, BehindMux, LayerNames
<1>8. entered' = Append(conf.use, "mux")
  BY <1>1, <1>2, <1>7, BeforeMux
<1>9. conf.use \in Seq(UseLayers) /\ conf.use \in Seq(Layer) /\ "mux" \in Layer
  BY UseIs DEF Layer
<1>10. ToSet(conf.use) \subseteq ToSet(entered')
  <2>1. ToSet(Append(conf.use, "mux")) = ToSet(conf.use) \cup {"mux"}
    BY <1>9, AppendSet
  <2> QED BY <1>8, <2>1
<1>11. Along(entered', layers', Way(e))
  <2> DEFINE way == Way(e)
             past == Append(conf.use, "mux")
             n == Len(conf.use)
  <2>1. /\ Len(way) = n + 1 + Len(layers')
        /\ \A k \in 1..n : way[k] = conf.use[k]
        /\ way[n + 1] = "mux"
        /\ \A k \in 1..Len(layers') : way[n + 1 + k] = layers'[k]
    BY <1>3, <1>5, <1>9, WayBehind DEF Way
  <2>2. /\ Len(past) = n + 1
        /\ \A k \in 1..n : past[k] = conf.use[k]
        /\ past[n + 1] = "mux"
    BY <1>9, WayToMux
  <2>3. n \in Nat
    BY <1>9
  <2> HIDE DEF way, past, n
  <2>4. \A k \in 1..(n + 1) : past[k] = way[k]
    BY <2>1, <2>2, <2>3
  <2>5. Along(past, layers', way)
    BY <2>1, <2>2, <2>4 DEF Along
  <2> QED BY <1>8, <2>5 DEF past, way
<1>12. \A f \in Resolve(req) : f = e
  BY ResolvedOnce
<1> QED BY <1>1, <1>2, <1>5, <1>6, <1>10, <1>11, <1>12 DEF WayOK

LEMMA WayKept ==
  ASSUME ConfOK, RoutesOK, StoredOK, WayOK, [Next]_vars
  PROVE  WayOK'
<1>1. CASE Configure
  <2>1. UNCHANGED serving /\ req = Idle
    BY <1>1 DEF Configure, RouterGroup, NestGroup, Register, RegisterRaw, NotServing
  <2>2. UNCHANGED <<req, layers, entered, recording, answer>>
    BY <2>1 DEF serving
  <2> QED BY <2>1, <2>2 DEF WayOK
<1>2. ASSUME NEW r \in Requests, Arrive(r) PROVE WayOK'
  <2>1. /\ req' = r /\ req = Idle /\ layers' = Append(conf.use, "mux") /\ entered' = << >>
        /\ UNCHANGED <<setup, recording, answer>>
    BY <1>2 DEF Arrive
  <2>2. conf' = conf
    BY <2>1 DEF setup
  <2> DEFINE way == Append(conf.use, "mux")
  <2>3. way \in Seq(Layer)
    BY UseIs, WayToMux
  <2> HIDE DEF way
  <2>4. Along(<< >>, way, way)
    BY <2>3 DEF Along
  <2>5. << >> \in Seq(Layer)
    OBVIOUS
  <2>6. answer = Idle /\ recording = << >>
    BY <2>1 DEF WayOK
  <2> QED BY <2>1, <2>2, <2>3, <2>4, <2>5, <2>6, EmptySet DEF WayOK, way
<1>3. CASE ServeStep
  <2>1. CASE Return
    <3>1. req' = Idle /\ answer' = Idle /\ recording' = << >> /\ layers' = << >> /\ entered' = << >>
      BY <2>1 DEF Return
    <3>2. << >> \in Seq(Layer)
      OBVIOUS
    <3> QED BY <3>1, <3>2 DEF WayOK
  <2>2. ASSUME NEW layer, layer \notin {"mux", "raw", "handler"}, Passes(layer) PROVE WayOK'
    BY <2>2, PassesKeepsWay
  <2>3. ASSUME NEW layer \in UseLayers \cup {"raw", "handler"}, Answers(layer) PROVE WayOK'
    BY <2>3, AnswersKeepsWay
  <2>4. CASE Resolve(req) = {} /\ Answers("mux")
    BY <2>4, AnswersKeepsWay
  <2> QED BY <1>3, <2>1, <2>2, <2>3, <2>4, DispatchKeepsWay, StepKinds
<1>4. CASE UNCHANGED vars
  <2>1. UNCHANGED <<setup, req>> /\ UNCHANGED <<layers, entered, recording, answer>>
    BY <1>4 DEF vars, setup
  <2>2. conf' = conf /\ Resolve(req)' = Resolve(req) /\ \A e : Way(e)' = Way(e)
    BY <2>1, SetupKept
  <2> QED BY <2>1, <2>2 DEF WayOK
<1> QED BY <1>1, <1>2, <1>3, <1>4 DEF Next

-----------------------------------------------------------------------------
(* The gate holds *)

LEMMA AdmittedKept ==
  ASSUME UNCHANGED <<setup, req, principals>>, NEW i
  PROVE  Admitted(declared[i])' <=> Admitted(declared[i])
<1>1. declared' = declared /\ req' = req /\ principals' = principals
  BY DEF setup
<1> QED BY <1>1 DEF Admitted

LEMMA OtherLayerKeepsGate ==
  ASSUME ConfOK, RoutesOK, WayOK, GateOK, NEW layer, layer # "auth", Enter(layer),
         UNCHANGED <<setup, req, principals>>
  PROVE  GateOK'
<1>1. req # Idle /\ answer = Idle /\ ToSet(entered') = ToSet(entered) \cup {layer}
  BY LayerEntered
<1>2. "auth" \in ToSet(entered') <=> "auth" \in ToSet(entered)
  BY <1>1
<1>3. Serves' = Serves /\ req' = req /\ principals' = principals
  BY SetupKept
<1>4. \A i : Admitted(declared[i])' <=> Admitted(declared[i])
  BY AdmittedKept
<1> QED BY <1>1, <1>2, <1>3, <1>4 DEF GateOK

LEMMA AuthPassesKeepsGate ==
  ASSUME ConfOK, RoutesOK, WayOK, GateOK, AuthPasses
  PROVE  GateOK'
<1>1. Enter("auth") /\ UNCHANGED <<setup, req, principals>> /\ answer' = answer
      /\ \A i \in Match(req) : SecurityOf(i) = << >>
  BY DEF AuthPasses, GoOn, Guarded
<1>2. req # Idle /\ answer = Idle /\ "auth" \in ToSet(entered')
  BY <1>1, LayerEntered
<1>3. Serves' = Serves /\ req' = req /\ principals' = principals
  BY <1>1, SetupKept
<1>4. \A i : Admitted(declared[i])' <=> Admitted(declared[i])
  BY <1>1, AdmittedKept
<1>5. ASSUME NEW i \in Serves \ {0}
      PROVE  Admitted(declared[i])
  <2>1. CASE "auth" \in ToSet(entered)
    BY <1>2, <2>1 DEF GateOK
  <2>2. CASE "auth" \notin ToSet(entered)
    <3>1. principals = {}
      BY <1>2, <2>2 DEF GateOK
    <3>2. i \in Match(req)
      BY ServedEndpoint
    <3>3. SecurityFrom(<< >>, declared[i], Len(declared[i])) /\ declared[i] \in Seq(Option)
      BY <1>1, <3>2, MatchedEndpoint
    <3>4. Admits(declared[i], req.cred, {})
      BY <3>3, Unguarded
    <3> QED BY <3>1, <3>4, AdmittedIs
  <2> QED BY <2>1, <2>2
<1> QED BY <1>2, <1>3, <1>4, <1>5 DEF GateOK

LEMMA AuthDecidesKeepsGate ==
  ASSUME ConfOK, RoutesOK, WayOK, GateOK, AuthDecides
  PROVE  GateOK'
<1>1. PICK i \in Match(req) : \E d \in Authorize(SecurityOf(i), req.cred) : Outcome(i, d)
  BY AuthDecidesIs
<1>2. PICK d \in Authorize(SecurityOf(i), req.cred) : Outcome(i, d)
  BY <1>1
<1>3. Enter("auth")
  BY DEF AuthDecides
<1>4. req # Idle /\ answer = Idle /\ "auth" \in ToSet(entered')
  BY <1>3, LayerEntered
<1>5. /\ i \in Serves \ {0} /\ declared[i] \in Seq(Option)
      /\ SecurityOf(i) \in Seq(Requirement \cup {Anonymous})
      /\ SecurityFrom(SecurityOf(i), declared[i], Len(declared[i]))
      /\ \A j \in Serves \ {0} : j = i
  BY MatchedEndpoint
<1>6. CASE /\ d.pass = TRUE
           /\ GoOn(headers, IF d.principals = {} THEN principals ELSE d.principals)
  <2> DEFINE who == IF d.principals = {} THEN principals ELSE d.principals
  <2>1. principals' = who /\ UNCHANGED <<setup, req>>
    BY <1>6 DEF GoOn
  <2>2. Serves' = Serves /\ req' = req /\ declared' = declared
    BY <2>1, SetupKept
  <2>3. req.cred \in Creds
    BY <1>4, RequestsAssumption DEF WayOK, Creds
  <2>4. principals = {} \/ Admits(declared[i], req.cred, principals)
    <3>1. CASE "auth" \in ToSet(entered)
      <4>1. Admitted(declared[i])
        BY <1>4, <1>5, <3>1 DEF GateOK
      <4> QED BY <4>1, AdmittedIs
    <3>2. CASE "auth" \notin ToSet(entered)
      BY <1>4, <3>2 DEF GateOK
    <3> QED BY <3>1, <3>2
  <2>5. Admits(declared[i], req.cred, who)
    BY <1>5, <1>6, <2>3, <2>4, PassAdmits
  <2>6. Admitted(declared[i])' <=> Admits(declared[i], req.cred, who)
    <3> HIDE DEF who
    <3> QED BY <2>1, <2>2 DEF Admitted, Admits
  <2>7. who \subseteq Schemes
    <3>1. d.principals \subseteq Schemes
      <4>1. CASE d.principals = {}
        BY <4>1
      <4>2. ASSUME NEW k \in 1..Len(SecurityOf(i)), SecurityOf(i)[k] # Anonymous,
                   d.principals = DOMAIN SecurityOf(i)[k]
            PROVE  d.principals \subseteq Schemes
        <5>1. SecurityOf(i)[k] \in Requirement
          BY <1>5, <4>2
        <5> QED BY <4>2, <5>1, RequirementNames
      <4> QED BY <1>5, <1>6, <4>1, <4>2, Decided
    <3> QED BY <3>1 DEF GateOK
  <2> HIDE DEF who
  <2> QED BY <1>4, <1>5, <2>1, <2>2, <2>5, <2>6, <2>7 DEF GateOK
<1>7. CASE /\ d.type \in AuthRefusals
           /\ \E status \in Refused(d.type) : Answer(status, headers, d.type)
  <2> DEFINE type == d.type
  <2>1. PICK status \in Refused(type) : Answer(status, headers, type)
    BY <1>7
  <2>2. type \in AuthRefusals
    BY <1>7
  <2> HIDE DEF type
  <2>3. status \in Written /\ type \notin {"handler", "bind", "stored"}
    BY <2>1, <2>2, RefusedIs
  <2>4. answer' # Idle /\ answer'.body = type /\ principals' = principals
    BY <2>1, <2>3, IsAnswer
  <2> QED BY <1>4, <2>3, <2>4 DEF GateOK
<1> QED BY <1>2, <1>6, <1>7 DEF Outcome

LEMMA GateKept ==
  ASSUME ConfOK, RoutesOK, WayOK, GateOK, [Next]_vars
  PROVE  GateOK'
<1>1. CASE Configure
  <2>1. UNCHANGED serving /\ req = Idle
    BY <1>1 DEF Configure, RouterGroup, NestGroup, Register, RegisterRaw, NotServing
  <2> QED BY <2>1 DEF serving, GateOK
<1>2. ASSUME NEW r \in Requests, Arrive(r) PROVE GateOK'
  <2>1. entered' = << >> /\ principals' = {}
    BY <1>2 DEF Arrive
  <2>2. ToSet(entered') = {}
    BY <2>1, EmptySet
  <2> QED BY <2>1, <2>2 DEF GateOK
<1>3. CASE Return
  BY <1>3 DEF Return, GateOK
<1>4. CASE CorsPasses \/ CorsAdds \/ CorsAnswersPreflight
  <2>1. Enter("cors") /\ UNCHANGED <<setup, req, principals>>
    BY <1>4 DEF CorsPasses, CorsAdds, CorsAnswersPreflight, GoOn, Answer
  <2> QED BY <2>1, OtherLayerKeepsGate
<1>5. CASE CachePasses \/ CacheHits \/ CacheMisses
  <2>1. Enter("cache") /\ UNCHANGED <<setup, req, principals>>
    BY <1>5 DEF CachePasses, CacheHits, CacheMisses, GoOn, Answer
  <2> QED BY <2>1, OtherLayerKeepsGate
<1>6. CASE MuxRejects \/ MuxDispatches
  <2>1. Enter("mux") /\ UNCHANGED <<setup, req, principals>>
    BY <1>6 DEF MuxRejects, MuxDispatches, GoOn, Answer
  <2> QED BY <2>1, OtherLayerKeepsGate
<1>7. CASE EndpointMiddleware
  <2>1. Enter(Head(layers)) /\ Head(layers) # "auth" /\ UNCHANGED <<setup, req, principals>>
    BY <1>7 DEF EndpointMiddleware, GoOn, Enter, Serving
  <2> QED BY <2>1, OtherLayerKeepsGate
<1>8. CASE RawHandler \/ BindFails \/ Handle
  <2>1. (Enter("raw") \/ Enter("handler")) /\ UNCHANGED <<setup, req, principals>>
    BY <1>8 DEF RawHandler, BindFails, Handle, Answer
  <2> QED BY <2>1, OtherLayerKeepsGate
<1>9. CASE UNCHANGED vars
  <2>1. UNCHANGED <<setup, req, principals>> /\ entered' = entered /\ answer' = answer
    BY <1>9 DEF vars, setup
  <2>2. Serves' = Serves
    BY <2>1, SetupKept
  <2>3. \A i : Admitted(declared[i])' <=> Admitted(declared[i])
    BY <2>1, AdmittedKept
  <2> QED BY <2>1, <2>2, <2>3 DEF GateOK
<1> QED BY <1>1, <1>2, <1>3, <1>4, <1>5, <1>6, <1>7, <1>8, <1>9, AuthPassesKeepsGate,
           AuthDecidesKeepsGate DEF Next, ServeStep

-----------------------------------------------------------------------------
(* The headers of a response *)

LEMMA ConcatSet ==
  ASSUME NEW S, NEW s \in Seq(S), NEW t \in Seq(S)
  PROVE  /\ s \o t \in Seq(S)
         /\ ToSet(s \o t) = ToSet(s) \cup ToSet(t)
         /\ s \o t # << >> => s # << >> \/ t # << >>
<1> DEFINE st == s \o t
           n == Len(s)
           m == Len(t)
<1>1. n \in Nat /\ m \in Nat /\ DOMAIN s = 1..n /\ DOMAIN t = 1..m
  OBVIOUS
<1>2. /\ st \in Seq(S) /\ Len(st) = n + m
      /\ \A i \in 1..n + m : st[i] = IF i <= n THEN s[i] ELSE t[i - n]
  BY ConcatProperties
<1> HIDE DEF st, n, m
<1>3. DOMAIN st = 1..(n + m)
  BY <1>2
<1>4. ASSUME NEW x \in ToSet(st) PROVE x \in ToSet(s) \cup ToSet(t)
  <2>1. PICK i \in 1..(n + m) : st[i] = x
    BY <1>3 DEF ToSet
  <2>2. CASE i <= n
    <3>1. i \in 1..n /\ st[i] = s[i]
      BY <1>1, <1>2, <2>1, <2>2
    <3> QED BY <1>1, <2>1, <3>1 DEF ToSet
  <2>3. CASE ~(i <= n)
    <3>1. i - n \in 1..m /\ st[i] = t[i - n]
      BY <1>1, <1>2, <2>1, <2>3
    <3> QED BY <1>1, <2>1, <3>1 DEF ToSet
  <2> QED BY <2>2, <2>3
<1>5. ASSUME NEW x \in ToSet(s) PROVE x \in ToSet(st)
  <2>1. PICK i \in 1..n : s[i] = x
    BY <1>1 DEF ToSet
  <2>2. i \in 1..(n + m) /\ st[i] = x
    BY <1>1, <1>2, <2>1
  <2> QED BY <1>3, <2>2 DEF ToSet
<1>6. ASSUME NEW x \in ToSet(t) PROVE x \in ToSet(st)
  <2>1. PICK i \in 1..m : t[i] = x
    BY <1>1 DEF ToSet
  <2>2. n + i \in 1..(n + m) /\ ~(n + i <= n) /\ (n + i) - n = i
    BY <1>1
  <2>3. st[n + i] = x
    BY <1>2, <2>1, <2>2
  <2> QED BY <1>3, <2>2, <2>3 DEF ToSet
<1>7. st # << >> => s # << >> \/ t # << >>
  <2> SUFFICES ASSUME s = << >>, t = << >> PROVE st = << >>
    OBVIOUS
  <2> QED BY DEF st
<1>8. ToSet(st) = ToSet(s) \cup ToSet(t)
  BY <1>4, <1>5, <1>6
<1> QED BY <1>2, <1>7, <1>8 DEF st

LEMMA CorsIs ==
  ASSUME ConfOK
  PROVE  conf.cors \in [hasFunc : BOOLEAN, func : SUBSET Origins,
                        entries : Seq(SUBSET Origins), credentials : BOOLEAN]
BY RouterAssumption DEF ConfOK

\* matchOrigin: the origin itself, or the wildcard without credentials, when the
\* options permit the origin, and nothing when they do not.
LEMMA MatchOriginIs ==
  ASSUME ConfOK
  PROVE  LET value == MatchOrigin(req.origin, conf.cors) IN
         /\ Permitted => \/ value = <<req.origin>>
                         \/ value = <<Star>> /\ ~conf.cors.credentials
         /\ ~Permitted => value = << >>
<1> DEFINE opts == conf.cors
           origin == req.origin
           hits == {i \in DOMAIN opts.entries : origin \in opts.entries[i]}
           value == MatchOrigin(origin, opts)
<1>1. opts.hasFunc \in BOOLEAN
  BY CorsIs
<1>2. CASE opts.hasFunc
  <2>1. value = IF origin \in opts.func THEN <<origin>> ELSE << >>
    BY <1>2 DEF MatchOrigin
  <2>2. Permitted <=> origin \in opts.func
    BY <1>2 DEF Permitted
  <2> QED BY <2>1, <2>2
<1>3. CASE ~opts.hasFunc /\ hits = {}
  <2>1. value = << >>
    BY <1>3 DEF MatchOrigin
  <2>2. ~Permitted
    BY <1>3 DEF Permitted
  <2> QED BY <2>1, <2>2
<1>4. CASE ~opts.hasFunc /\ hits # {}
  <2>1. value = IF opts.entries[Min(hits)] = Origins /\ ~opts.credentials THEN <<Star>> ELSE <<origin>>
    BY <1>4 DEF MatchOrigin
  <2>2. Permitted
    BY <1>4 DEF Permitted
  <2> HIDE DEF value, hits
  <2> QED BY <2>1, <2>2 DEF value
<1> QED BY <1>1, <1>2, <1>3, <1>4

LEMMA AllowsIs ==
  ASSUME ConfOK, req \in Requests
  PROVE  /\ Allows(req.origin, conf.cors) <=> req.origin # NoOrigin /\ Permitted
         /\ Allows(req.origin, conf.cors) => req.origin \in Origins
<1>1. req.origin \in Origins \cup {NoOrigin}
  BY RequestsAssumption
<1>2. \A x : <<x>> # << >>
  OBVIOUS
<1> QED BY <1>1, <1>2, MatchOriginIs DEF Allows

\* What the cors layer makes of the headers of an allowed origin.
LEMMA CorsHeadersAre ==
  ASSUME ConfOK, req \in Requests, headers \in Header, Whole(headers),
         Allows(req.origin, conf.cors)
  PROVE  LET h == CorsHeaders(headers, req.origin, conf.cors) IN
         /\ h \in Header /\ Whole(h)
         /\ h.origin = MatchOrigin(req.origin, conf.cors)
<1> DEFINE value == MatchOrigin(req.origin, conf.cors)
           varied == Append(headers.vary, "Origin")
           h == CorsHeaders(headers, req.origin, conf.cors)
<1>1. req.origin \in Origins /\ Permitted
  BY AllowsIs
<1>2. value = <<req.origin>> \/ (value = <<Star>> /\ ~conf.cors.credentials)
  BY <1>1, MatchOriginIs
<1>3. value \in Seq(Origins \cup {Star}) /\ ToSet(value) = {value[1]}
  <2>1. \A x \in Origins \cup {Star} : <<x>> \in Seq(Origins \cup {Star}) /\ ToSet(<<x>>) = {<<x>>[1]}
    BY DEF ToSet
  <2> HIDE DEF value
  <2> QED BY <1>1, <1>2, <2>1
<1>4. conf.cors.credentials \in BOOLEAN
  BY CorsIs
<1>5. /\ headers.origin \in Seq(Origins \cup {Star}) /\ headers.vary \in Seq(RequestHeaders)
      /\ headers.credentials \in BOOLEAN /\ headers.preflight \in BOOLEAN
      /\ headers = [origin |-> headers.origin, vary |-> headers.vary,
                    credentials |-> headers.credentials, preflight |-> headers.preflight]
  BY DEF Header
<1>6. varied \in Seq(RequestHeaders) /\ "Origin" \in ToSet(varied)
  <2>1. "Origin" \in RequestHeaders
    BY DEF RequestHeaders
  <2> QED BY <1>5, <2>1, AppendSet
<1> DEFINE credentials == headers.credentials \/ (conf.cors.credentials /\ value # <<Star>>)
<1>7. h = [origin |-> value, vary |-> varied, credentials |-> credentials,
           preflight |-> headers.preflight]
  <2>1. h = [headers EXCEPT !.origin = value, !.vary = varied, !.credentials = credentials]
    BY DEF CorsHeaders
  <2> HIDE DEF h, value, varied, credentials
  <2> QED BY <1>5, <2>1
<1> HIDE DEF h, value, varied
<1>8. h \in Header
  BY <1>3, <1>4, <1>5, <1>6, <1>7 DEF Header
<1>9. Star \in ToSet(value) => ~conf.cors.credentials
  BY <1>1, <1>2, <1>3, OriginsAssumption
<1>10. h.credentials => conf.cors.credentials
  BY <1>4, <1>5, <1>7 DEF Whole
<1>11. h.origin = value /\ h.vary = varied
  BY <1>7
<1> QED BY <1>6, <1>8, <1>9, <1>10, <1>11 DEF Whole, h, value

LEMMA PreflightHeadersAre ==
  ASSUME NEW h \in Header, Whole(h)
  PROVE  LET p == PreflightHeaders(h) IN
         p \in Header /\ Whole(p) /\ p.origin = h.origin /\ p.preflight = TRUE
<1> DEFINE more == <<"Access-Control-Request-Method", "Access-Control-Request-Headers">>
           varied == h.vary \o more
           p == PreflightHeaders(h)
<1>1. /\ h.origin \in Seq(Origins \cup {Star}) /\ h.vary \in Seq(RequestHeaders)
      /\ h.credentials \in BOOLEAN /\ h.preflight \in BOOLEAN
      /\ h = [origin |-> h.origin, vary |-> h.vary, credentials |-> h.credentials,
              preflight |-> h.preflight]
  BY DEF Header
<1>2. more \in Seq(RequestHeaders)
  <2>1. \A x, y \in RequestHeaders : <<x, y>> \in Seq(RequestHeaders)
    OBVIOUS
  <2>2. /\ "Access-Control-Request-Method" \in RequestHeaders
        /\ "Access-Control-Request-Headers" \in RequestHeaders
    BY DEF RequestHeaders
  <2> QED BY <2>1, <2>2
<1> HIDE DEF more
<1>3. varied \in Seq(RequestHeaders) /\ ToSet(varied) = ToSet(h.vary) \cup ToSet(more)
  BY <1>1, <1>2, ConcatSet
<1>4. p = [origin |-> h.origin, vary |-> varied, credentials |-> h.credentials, preflight |-> TRUE]
  <2>1. p = [h EXCEPT !.vary = varied, !.preflight = TRUE]
    BY DEF PreflightHeaders, more
  <2> HIDE DEF p, varied
  <2> QED BY <1>1, <2>1
<1> HIDE DEF p, varied
<1>5. p \in Header
  BY <1>1, <1>3, <1>4 DEF Header
<1>6. /\ p.origin = h.origin /\ p.vary = varied /\ p.credentials = h.credentials
      /\ p.preflight = TRUE
  BY <1>4
<1> QED BY <1>3, <1>5, <1>6 DEF Whole, p

\* The headers of a stored response, added to those on the writer.
LEMMA JoinedHeaders ==
  ASSUME NEW h \in Header, Whole(h), NEW g \in Header, Whole(g)
  PROVE  LET j == [origin |-> h.origin \o g.origin, vary |-> h.vary \o g.vary,
                   credentials |-> h.credentials \/ g.credentials,
                   preflight |-> h.preflight \/ g.preflight]
         IN  /\ j \in Header /\ Whole(j)
             /\ \A o : NamesOnly(h, o) /\ NamesOnly(g, o) => NamesOnly(j, o)
<1> DEFINE origin == h.origin \o g.origin
           varied == h.vary \o g.vary
           j == [origin |-> origin, vary |-> varied, credentials |-> h.credentials \/ g.credentials,
                 preflight |-> h.preflight \/ g.preflight]
<1>1. /\ h.origin \in Seq(Origins \cup {Star}) /\ h.vary \in Seq(RequestHeaders)
      /\ h.credentials \in BOOLEAN /\ h.preflight \in BOOLEAN
      /\ g.origin \in Seq(Origins \cup {Star}) /\ g.vary \in Seq(RequestHeaders)
      /\ g.credentials \in BOOLEAN /\ g.preflight \in BOOLEAN
  BY DEF Header
<1>2. /\ origin \in Seq(Origins \cup {Star})
      /\ ToSet(origin) = ToSet(h.origin) \cup ToSet(g.origin)
      /\ origin # << >> => h.origin # << >> \/ g.origin # << >>
  BY <1>1, ConcatSet
<1>3. varied \in Seq(RequestHeaders) /\ ToSet(varied) = ToSet(h.vary) \cup ToSet(g.vary)
  BY <1>1, ConcatSet
<1> HIDE DEF origin, varied
<1>4. j \in Header
  BY <1>1, <1>2, <1>3 DEF Header
<1>5. j.origin = origin /\ j.vary = varied /\ j.credentials = (h.credentials \/ g.credentials)
  OBVIOUS
<1> HIDE DEF j
<1>6. Whole(j)
  BY <1>1, <1>2, <1>3, <1>5 DEF Whole
<1>7. \A o : NamesOnly(h, o) /\ NamesOnly(g, o) => NamesOnly(j, o)
  BY <1>2, <1>5 DEF NamesOnly
<1> QED BY <1>4, <1>6, <1>7 DEF j, origin, varied

LEMMA NoHeadersAre ==
  /\ NoHeaders \in Header /\ NoHeaders.origin = << >>
  /\ Whole(NoHeaders)
<1>1. << >> \in Seq(Origins \cup {Star}) /\ << >> \in Seq(RequestHeaders)
  OBVIOUS
<1> DEFINE nothing == << >>
<1>2. NoHeaders = [origin |-> nothing, vary |-> nothing, credentials |-> FALSE, preflight |-> FALSE]
  BY DEF NoHeaders
<1>3. NoHeaders.origin = << >> /\ ToSet(NoHeaders.origin) = {} /\ NoHeaders.credentials = FALSE
  BY <1>2, EmptySet
<1> HIDE DEF nothing
<1>4. NoHeaders \in Header
  BY <1>1, <1>2 DEF Header, nothing
<1> QED BY <1>3, <1>4 DEF Whole

\* The third component of the key is the request's origin, if any.
LEMMA KeyVaries ==
  /\ CacheKey[3] \in {req.origin, NoOrigin}
  /\ (\E i \in Match(req) : endpoints[i].byOrigin) => CacheKey[3] = req.origin
BY DEF CacheKey

LEMMA NamesKept ==
  ASSUME CacheKey' = CacheKey, NEW h, NamesOnly(h, CacheKey[3]), headers' = h
  PROVE  NamesOnly(headers, CacheKey[3])'
BY DEF NamesOnly

LEMMA WholeKept ==
  ASSUME conf' = conf, NEW h, Whole(h), headers' = h
  PROVE  Whole(headers)'
BY DEF Whole

\* A layer that leaves the headers alone, and does not add any.
LEMMA OtherLayerKeepsHeaders ==
  ASSUME ConfOK, RoutesOK, WayOK, HeadersOK, NEW layer, Enter(layer),
         layer # "cors" \/ ~Allows(req.origin, conf.cors),
         UNCHANGED <<setup, req, headers>>,
         answer' = answer \/ answer'.headers = headers
  PROVE  HeadersOK'
<1>1. req # Idle /\ answer = Idle /\ ToSet(entered') = ToSet(entered) \cup {layer}
  BY LayerEntered
<1>2. req' = req /\ headers' = headers /\ conf' = conf
  BY SetupKept
<1>3. Expected' = Expected
  BY <1>1, <1>2 DEF Expected
<1>4. Whole(headers)'
  BY <1>2, WholeKept DEF HeadersOK
<1>5. NamesOnly(headers, CacheKey[3])'
  BY <1>1, <1>2, SetupKept, NamesKept DEF HeadersOK
<1> QED BY <1>1, <1>2, <1>3, <1>4, <1>5 DEF HeadersOK

LEMMA CorsKeepsHeaders ==
  ASSUME ConfOK, RoutesOK, WayOK, HeadersOK, CorsAdds \/ CorsAnswersPreflight
  PROVE  /\ HeadersOK'
         /\ CorsAnswersPreflight => answer'.headers.preflight
<1>1. Enter("cors") /\ Allows(req.origin, conf.cors) /\ UNCHANGED <<setup, req>>
  BY DEF CorsAdds, CorsAnswersPreflight, GoOn, Answer
<1>2. req # Idle /\ answer = Idle /\ ToSet(entered') = ToSet(entered) \cup {"cors"}
  BY <1>1, LayerEntered
<1>3. req' = req /\ conf' = conf
  BY <1>1, SetupKept
<1>4. Expected' = MatchOrigin(req.origin, conf.cors)
  BY <1>1, <1>2, <1>3 DEF Expected
<1> DEFINE h == CorsHeaders(headers, req.origin, conf.cors)
<1>5. h \in Header /\ Whole(h) /\ h.origin = MatchOrigin(req.origin, conf.cors)
  <2>1. req \in Requests
    BY <1>2 DEF WayOK
  <2> QED BY <1>1, <2>1, CorsHeadersAre DEF HeadersOK
<1>6. NamesOnly(h, CacheKey[3]) /\ CacheKey' = CacheKey
  <2>1. req \in Requests
    BY <1>2 DEF WayOK
  <2>2. h.origin = <<req.origin>> \/ h.origin = <<Star>>
    BY <1>1, <1>5, <2>1, AllowsIs, MatchOriginIs
  <2> HIDE DEF h
  <2>3. \A x : ToSet(<<x>>) = {x}
    BY DEF ToSet
  <2>4. ToSet(h.origin) \subseteq {req.origin, Star}
    BY <2>2, <2>3
  <2>5. CacheKey[3] # NoOrigin => CacheKey[3] = req.origin
    BY KeyVaries
  <2> QED BY <1>1, <2>4, <2>5, SetupKept DEF NamesOnly
<1>7. CASE CorsAdds
  <2>1. headers' = h /\ answer' = answer
    BY <1>7 DEF CorsAdds, GoOn
  <2>2. ~CorsAnswersPreflight
    BY <1>7 DEF CorsAdds, CorsAnswersPreflight
  <2> HIDE DEF h
  <2>3. Whole(headers)'
    BY <1>3, <1>5, <2>1, WholeKept
  <2>4. NamesOnly(headers, CacheKey[3])'
    BY <1>6, <2>1, NamesKept
  <2> QED BY <1>2, <1>3, <1>4, <1>5, <2>1, <2>2, <2>3, <2>4 DEF HeadersOK
<1>8. CASE CorsAnswersPreflight
  <2> DEFINE p == PreflightHeaders(h)
  <2>1. Answer(204, p, "preflight")
    BY <1>8 DEF CorsAnswersPreflight
  <2> HIDE DEF h
  <2>2. p \in Header /\ Whole(p) /\ p.origin = h.origin /\ p.preflight = TRUE
    BY <1>5, PreflightHeadersAre
  <2> HIDE DEF p
  <2>3. 204 \in Written
    BY Codes
  <2>4. headers' = p /\ answer'.headers = p /\ answer' # Idle
    BY <2>1, <2>3, IsAnswer
  <2>5. Whole(headers)'
    BY <1>3, <2>2, <2>4, WholeKept
  <2>6. NamesOnly(p, CacheKey[3])
    BY <1>6, <2>2 DEF NamesOnly
  <2>7. NamesOnly(headers, CacheKey[3])'
    BY <1>6, <2>4, <2>6, NamesKept
  <2> QED BY <1>2, <1>3, <1>4, <1>5, <2>2, <2>4, <2>5, <2>7 DEF HeadersOK
<1> QED BY <1>7, <1>8

LEMMA CacheHitsKeepsHeaders ==
  ASSUME ConfOK, RoutesOK, WayOK, HeadersOK, StoredOK, CacheHits
  PROVE  HeadersOK'
<1> DEFINE s == stored[CacheKey]
           h == s.headers
           j == [origin |-> headers.origin \o h.origin, vary |-> headers.vary \o h.vary,
                 credentials |-> headers.credentials \/ h.credentials,
                 preflight |-> headers.preflight \/ h.preflight]
<1>1. Enter("cache") /\ CacheKey \in DOMAIN stored /\ Answer(s.status, j, "stored")
  BY DEF CacheHits
<1>2. s.status \in Successes /\ h \in Header /\ Whole(h) /\ NamesOnly(h, CacheKey[3])
  BY <1>1 DEF StoredOK
<1>3. req # Idle
  BY <1>1 DEF Enter, Serving
<1> HIDE DEF s, h
<1>4. j \in Header /\ Whole(j) /\ NamesOnly(j, CacheKey[3])
  <2>1. headers \in Header /\ Whole(headers) /\ NamesOnly(headers, CacheKey[3])
    BY <1>3 DEF HeadersOK
  <2> QED BY <1>2, <2>1, JoinedHeaders
<1> HIDE DEF j
<1>5. s.status \in Written
  BY <1>2, Codes
<1>6. /\ headers' = j /\ answer'.headers = j /\ answer'.body = "stored" /\ answer' # Idle
      /\ UNCHANGED <<setup, req>>
  <2>1. Answer(s.status, j, "stored")
    BY <1>1
  <2>2. PICK status \in Written : Answer(status, j, "stored")
    BY <1>5, <2>1
  <2>3. UNCHANGED <<setup, served, req, recording, stored, principals>>
    BY <2>2, IsAnswer
  <2>4. headers' = j /\ answer'.headers = j /\ answer'.body = "stored" /\ answer' # Idle
    BY <2>2, IsAnswer
  <2> QED BY <2>3, <2>4
<1>7. conf' = conf /\ CacheKey' = CacheKey
  BY <1>6, SetupKept
<1>8. Whole(headers)' /\ NamesOnly(headers, CacheKey[3])'
  BY <1>4, <1>6, <1>7, WholeKept, NamesKept
<1> QED BY <1>4, <1>6, <1>8 DEF HeadersOK

LEMMA HeadersKept ==
  ASSUME ConfOK, RoutesOK, WayOK, StoredOK, HeadersOK, [Next]_vars
  PROVE  HeadersOK'
<1>1. CASE Configure
  <2>1. UNCHANGED serving /\ req = Idle /\ conf' = conf
    BY <1>1 DEF Configure, RouterGroup, NestGroup, Register, RegisterRaw, NotServing
  <2>2. req' = Idle /\ headers' = headers /\ answer' = answer
    BY <2>1 DEF serving
  <2>3. Whole(headers)'
    BY <2>1, <2>2, WholeKept DEF HeadersOK
  <2> QED BY <2>2, <2>3 DEF HeadersOK
<1>2. ASSUME NEW r \in Requests, Arrive(r) PROVE HeadersOK'
  <2>1. /\ entered' = << >> /\ headers' = NoHeaders /\ req = Idle /\ answer' = answer
        /\ UNCHANGED setup
    BY <1>2 DEF Arrive
  <2>2. conf' = conf /\ answer' = Idle
    BY <2>1 DEF setup, WayOK
  <2>3. ToSet(entered') = {}
    BY <2>1, EmptySet
  <2>4. Expected' = << >>
    BY <2>3 DEF Expected
  <2>5. Whole(headers)'
    BY <2>1, <2>2, NoHeadersAre, WholeKept
  <2>6. NamesOnly(headers, CacheKey[3])'
    BY <2>1, NoHeadersAre, EmptySet DEF NamesOnly
  <2> QED BY <2>1, <2>2, <2>4, <2>5, <2>6, NoHeadersAre DEF HeadersOK
<1>3. CASE Return
  <2>1. headers' = NoHeaders /\ req' = Idle /\ answer' = Idle /\ UNCHANGED setup
    BY <1>3 DEF Return
  <2>2. conf' = conf
    BY <2>1 DEF setup
  <2>3. Whole(headers)'
    BY <2>1, <2>2, NoHeadersAre, WholeKept
  <2> QED BY <2>1, <2>3, NoHeadersAre DEF HeadersOK
<1>4. CASE CorsPasses
  <2>1. /\ Enter("cors") /\ ~Allows(req.origin, conf.cors) /\ answer' = answer
        /\ UNCHANGED <<setup, req, headers>>
    BY <1>4 DEF CorsPasses, GoOn
  <2> QED BY <2>1, OtherLayerKeepsHeaders
<1>5. CASE AuthPasses \/ CachePasses \/ CacheMisses \/ MuxDispatches
  <2>1. /\ Enter("auth") \/ Enter("cache") \/ Enter("mux")
        /\ answer' = answer /\ UNCHANGED <<setup, req, headers>>
    BY <1>5 DEF AuthPasses, CachePasses, CacheMisses, MuxDispatches, GoOn
  <2> QED BY <2>1, OtherLayerKeepsHeaders
<1>6. CASE EndpointMiddleware
  <2>1. /\ Enter(Head(layers)) /\ Head(layers) # "cors"
        /\ answer' = answer /\ UNCHANGED <<setup, req, headers>>
    BY <1>6 DEF EndpointMiddleware, GoOn, Enter, Serving
  <2> QED BY <2>1, OtherLayerKeepsHeaders
<1>7. CASE MuxRejects \/ RawHandler \/ BindFails \/ Handle
  <2>1. Enter("mux") \/ Enter("raw") \/ Enter("handler")
    BY <1>7 DEF MuxRejects, RawHandler, BindFails, Handle
  <2>2. \E status \in Written, body \in {"mux", "raw", "bind", "handler"} :
          Answer(status, headers, body)
    BY <1>7, Codes, HooksGive DEF MuxRejects, RawHandler, BindFails, Handle
  <2>4. answer'.headers = headers /\ UNCHANGED <<setup, req, headers>>
    BY <2>2, IsAnswer
  <2> QED BY <2>1, <2>4, OtherLayerKeepsHeaders
<1>8. CASE AuthDecides
  <2>1. Enter("auth")
    BY <1>8 DEF AuthDecides
  <2>2. \/ \E who : GoOn(headers, who)
        \/ \E status \in Written : \E body : Answer(status, headers, body)
    <3>1. PICK i \in Match(req) : \E d \in Authorize(SecurityOf(i), req.cred) : Outcome(i, d)
      BY <1>8, AuthDecidesIs
    <3>2. PICK d \in Authorize(SecurityOf(i), req.cred) : Outcome(i, d)
      BY <3>1
    <3> QED BY <3>2, RefusedIs DEF Outcome
  <2>4. CASE \E who : GoOn(headers, who)
    <3>1. answer' = answer /\ UNCHANGED <<setup, req, headers>>
      BY <2>4 DEF GoOn
    <3> QED BY <2>1, <3>1, OtherLayerKeepsHeaders
  <2>5. CASE \E status \in Written : \E body : Answer(status, headers, body)
    <3>1. answer'.headers = headers /\ UNCHANGED <<setup, req, headers>>
      BY <2>5, IsAnswer
    <3> QED BY <2>1, <3>1, OtherLayerKeepsHeaders
  <2> QED BY <2>2, <2>4, <2>5
<1>9. CASE UNCHANGED vars
  <2>1. /\ req' = req /\ headers' = headers /\ answer' = answer /\ conf' = conf
        /\ entered' = entered
    BY <1>9 DEF vars
  <2>2. Expected' = Expected
    BY <2>1 DEF Expected
  <2>3. Whole(headers)'
    BY <2>1, WholeKept DEF HeadersOK
  <2>4. CacheKey' = CacheKey
    BY <1>9, SetupKept DEF vars, setup
  <2>5. req # Idle => NamesOnly(headers, CacheKey[3])'
    BY <2>1, <2>4, NamesKept DEF HeadersOK
  <2> QED BY <2>1, <2>2, <2>3, <2>5 DEF HeadersOK
<1> QED BY <1>1, <1>2, <1>3, <1>4, <1>5, <1>6, <1>7, <1>8, <1>9, CorsKeepsHeaders,
           CacheHitsKeepsHeaders DEF Next, ServeStep

-----------------------------------------------------------------------------
(* What is stored *)

LEMMA StoredKept ==
  ASSUME ConfOK, WayOK, HeadersOK, StoredOK, [Next]_vars
  PROVE  StoredOK'
<1>1. CASE Configure
  <2>1. UNCHANGED serving /\ conf' = conf
    BY <1>1 DEF Configure, RouterGroup, NestGroup, Register, RegisterRaw
  <2>2. recording' = recording /\ req = Idle /\ stored' = stored
    BY <1>1, <2>1 DEF serving, Configure, RouterGroup, NestGroup, Register, RegisterRaw, NotServing
  <2>3. recording' = << >>
    BY <2>2 DEF WayOK
  <2> QED BY <2>1, <2>2, <2>3 DEF StoredOK, Whole, NamesOnly
<1>2. ASSUME NEW r \in Requests, Arrive(r) PROVE StoredOK'
  <2>1. recording' = recording /\ req = Idle /\ stored' = stored /\ UNCHANGED setup
    BY <1>2 DEF Arrive
  <2>2. recording' = << >> /\ conf' = conf
    BY <2>1 DEF WayOK, setup
  <2> QED BY <2>1, <2>2 DEF StoredOK, Whole, NamesOnly
<1>3. CASE Return
  <2>1. /\ answer # Idle /\ recording' = << >> /\ req' = Idle /\ UNCHANGED setup
        /\ stored' = IF recording # << >> /\ answer.status \in Successes
                     THEN [k \in DOMAIN stored \cup {recording} |->
                             IF k = recording
                             THEN [status |-> answer.status, headers |-> answer.headers]
                             ELSE stored[k]]
                     ELSE stored
    BY <1>3 DEF Return, Successes
  <2>2. conf' = conf
    BY <2>1 DEF setup
  <2>3. CASE ~(recording # << >> /\ answer.status \in Successes)
    <3>1. stored' = stored
      BY <2>1, <2>3
    <3>2. \A k \in DOMAIN stored : Whole(stored[k].headers)'
      BY <2>2, <3>1 DEF StoredOK, Whole
    <3> QED BY <2>1, <3>1, <3>2 DEF StoredOK, NamesOnly
  <2>4. CASE recording # << >> /\ answer.status \in Successes
    <3> DEFINE s == [status |-> answer.status, headers |-> answer.headers]
    <3>0. req # Idle /\ req \in Requests /\ recording = CacheKey
      BY <2>1, <2>4 DEF StoredOK, WayOK
    <3>1. /\ s.status \in Successes /\ s.headers = headers
          /\ NamesOnly(s.headers, recording[3])
      BY <2>1, <2>4, <3>0 DEF HeadersOK
    <3> HIDE DEF s
    <3>2. /\ DOMAIN stored' = DOMAIN stored \cup {recording}
          /\ stored'[recording] = s
          /\ \A k \in DOMAIN stored : k # recording => stored'[k] = stored[k]
      BY <2>1, <2>4 DEF s
    <3>3. recording \in StoredKeys
      <4>1. req.origin \in Origins \cup {NoOrigin}
        BY <3>0, RequestsAssumption
      <4> QED BY <3>0, <4>1 DEF StoredKeys, CacheKey
    <3>4. ASSUME NEW k \in DOMAIN stored'
          PROVE  /\ stored'[k].status \in Successes
                 /\ stored'[k].headers \in Header
                 /\ Whole(stored'[k].headers)
                 /\ NamesOnly(stored'[k].headers, k[3])
      BY <3>1, <3>2 DEF StoredOK, HeadersOK
    <3>5. ASSUME NEW k \in DOMAIN stored' PROVE Whole(stored[k].headers)'
      <4>1. Whole(stored'[k].headers)
        BY <3>4
      <4> QED BY <2>2, <4>1 DEF Whole
    <3>6. DOMAIN stored' \subseteq StoredKeys
      BY <3>2, <3>3 DEF StoredOK
    <3>7. /\ recording' = << >>
          /\ \A k \in DOMAIN stored' : stored'[k].status \in Successes /\ stored'[k].headers \in Header
      BY <2>1, <3>4
    <3>8. \A k \in DOMAIN stored' : NamesOnly(stored[k].headers, k[3])'
      BY <3>4 DEF NamesOnly
    <3> QED BY <3>5, <3>6, <3>7, <3>8 DEF StoredOK, StoredKeys
  <2> QED BY <2>3, <2>4
<1>4. CASE CacheMisses
  <2>1. recording' = CacheKey /\ req' = req /\ stored' = stored /\ UNCHANGED setup
    BY <1>4 DEF CacheMisses
  <2>2. conf' = conf /\ CacheKey' = CacheKey
    BY <2>1, SetupKept
  <2> QED BY <2>1, <2>2 DEF StoredOK, Whole, NamesOnly
<1>5. CASE UNCHANGED <<setup, req, recording, stored>>
  <2>1. conf' = conf /\ CacheKey' = CacheKey /\ recording' = recording /\ stored' = stored
    BY <1>5, SetupKept
  <2> QED BY <2>1 DEF StoredOK, Whole, NamesOnly
<1>6. CASE \/ CorsPasses \/ CorsAdds \/ CorsAnswersPreflight \/ AuthPasses \/ AuthDecides
           \/ CachePasses \/ CacheHits \/ MuxRejects \/ MuxDispatches \/ EndpointMiddleware
           \/ RawHandler \/ BindFails \/ Handle \/ UNCHANGED vars
  <2>1. UNCHANGED <<setup, req, recording, stored>>
    BY <1>6 DEF CorsPasses, CorsAdds, CorsAnswersPreflight, AuthPasses, AuthDecides, CachePasses,
       CacheHits, MuxRejects, MuxDispatches, EndpointMiddleware, RawHandler, BindFails, Handle,
       GoOn, Answer, vars, setup
  <2> QED BY <1>5, <2>1
<1> QED BY <1>1, <1>2, <1>3, <1>4, <1>6 DEF Next, ServeStep

-----------------------------------------------------------------------------
(* What is answered *)

\* Until a request is answered, no preflight of a permitted origin has passed
\* the cors layer.
LEMMA NoPreflightDue ==
  ASSUME ConfOK, RoutesOK, WayOK, AnswerOK, NEW layer, Enter(layer),
         layer # "cors" \/ ~Allows(req.origin, conf.cors) \/ ~IsPreflight(req)
  PROVE  ~("cors" \in ToSet(entered') /\ Allows(req.origin, conf.cors) /\ IsPreflight(req))
<1>1. req # Idle /\ answer = Idle /\ ToSet(entered') = ToSet(entered) \cup {layer}
  BY LayerEntered
<1> QED BY <1>1 DEF AnswerOK

LEMMA PassesKeepsAnswer ==
  ASSUME ConfOK, RoutesOK, WayOK, AnswerOK, NEW layer, Passes(layer),
         layer # "cors" \/ ~Allows(req.origin, conf.cors) \/ ~IsPreflight(req)
  PROVE  AnswerOK'
<1>1. Enter(layer) /\ answer' = answer /\ req' = req /\ served' = served /\ UNCHANGED <<setup, req>>
  BY DEF Passes
<1>2. answer = Idle /\ conf' = conf
  BY <1>1, LayerEntered, SetupKept
<1>3. ~("cors" \in ToSet(entered') /\ Allows(req.origin, conf.cors) /\ IsPreflight(req))
  BY <1>1, NoPreflightDue
<1> QED BY <1>1, <1>2, <1>3 DEF AnswerOK

LEMMA AnsweredKeepsAnswer ==
  ASSUME ConfOK, RoutesOK, WayOK, AnswerOK, NEW layer, Enter(layer), layer # "cors",
         NEW status \in Written, NEW body, Answer(status, headers, body),
         body \in {"mux", "raw", "bind", "handler"} => layer \in {"mux", "raw", "handler"},
         body \notin {"mux", "raw", "bind", "handler"} => \E i \in Match(req) : SecurityOf(i) # << >>,
         body # "preflight",
         Fits(status, body),
         body = "handler" => BindResult.ok
  PROVE  AnswerOK'
<1>1. /\ answer'.status = status /\ answer'.body = body /\ answer' # Idle
      /\ served' = served /\ UNCHANGED <<setup, req>> /\ req' = req
  BY IsAnswer
<1>2. ToSet(entered') = ToSet(entered) \cup {layer} /\ Serving(layer) /\ req # Idle
  BY LayerEntered DEF Enter
<1>3. conf' = conf /\ endpoints' = endpoints /\ Match(req)' = Match(req)
  BY <1>1, SetupKept
<1>4. body \in {"mux", "raw", "bind", "handler"} => "mux" \in ToSet(entered')
  BY <1>2, BeforeMux, LayerNames
<1>5. ~("cors" \in ToSet(entered') /\ Allows(req.origin, conf.cors) /\ IsPreflight(req))
  BY NoPreflightDue
<1>6. \A i : SecurityOf(i)' = SecurityOf(i)
  BY <1>3 DEF SecurityOf
<1>7. BindResult' = BindResult
  BY <1>1 DEF BindResult
<1>8. Fits(answer.status, answer.body)'
  BY <1>1 DEF Fits, Refused
<1> QED BY <1>1, <1>3, <1>4, <1>5, <1>6, <1>7, <1>8 DEF AnswerOK

LEMMA CacheHitsKeepsAnswer ==
  ASSUME ConfOK, RoutesOK, WayOK, StoredOK, AnswerOK, CacheHits
  PROVE  AnswerOK'
<1>1. /\ Enter("cache") /\ CacheKey \in DOMAIN stored
      /\ \E h : Answer(stored[CacheKey].status, h, "stored")
  BY DEF CacheHits
<1>2. stored[CacheKey].status \in Successes
  BY <1>1 DEF StoredOK
<1>3. stored[CacheKey].status \in Written
  BY <1>2, Codes
<1>4. /\ answer'.status \in Written /\ answer'.body = "stored" /\ answer' # Idle
      /\ served' = served /\ UNCHANGED <<setup, req>> /\ req' = req
  BY <1>1, <1>3, IsAnswer
<1>5. conf' = conf
  BY <1>4, SetupKept
<1>6. ~("cors" \in ToSet(entered') /\ Allows(req.origin, conf.cors) /\ IsPreflight(req))
  BY <1>1, NoPreflightDue
<1>7. answer'.status \in Successes
  <2>1. PICK h : Answer(stored[CacheKey].status, h, "stored")
    BY <1>1
  <2>2. answer'.status = stored[CacheKey].status
    BY <1>3, <2>1, IsAnswer
  <2> QED BY <1>2, <2>2
<1>8. Fits(answer.status, answer.body)'
  BY <1>4, <1>7, Codes DEF Fits, AuthRefusals
<1> QED BY <1>4, <1>5, <1>6, <1>8 DEF AnswerOK

LEMMA PreflightKeepsAnswer ==
  ASSUME ConfOK, RoutesOK, WayOK, HeadersOK, AnswerOK, CorsAnswersPreflight
  PROVE  AnswerOK'
<1>1. \E h : Answer(204, h, "preflight")
  BY DEF CorsAnswersPreflight
<1>2. 204 \in Written
  BY Codes
<1>3. /\ answer'.status = 204 /\ answer'.body = "preflight" /\ answer' # Idle
      /\ served' = served
  BY <1>1, <1>2, IsAnswer
<1>4. answer'.headers.preflight
  BY CorsKeepsHeaders
<1>5. Fits(answer.status, answer.body)'
  BY <1>3 DEF Fits, AuthRefusals
<1> QED BY <1>2, <1>3, <1>4, <1>5 DEF AnswerOK

LEMMA AnswerKept ==
  ASSUME ConfOK, RoutesOK, WayOK, HeadersOK, StoredOK, AnswerOK, [Next]_vars
  PROVE  AnswerOK'
<1>1. CASE Configure
  <2>1. UNCHANGED serving /\ req = Idle
    BY <1>1 DEF Configure, RouterGroup, NestGroup, Register, RegisterRaw, NotServing
  <2>2. answer = Idle /\ answer' = answer /\ req' = req /\ served' = served
    BY <2>1 DEF serving, WayOK
  <2> QED BY <2>1, <2>2 DEF AnswerOK
<1>2. ASSUME NEW r \in Requests, Arrive(r) PROVE AnswerOK'
  <2>1. /\ served < MaxRequests /\ served' = served + 1 /\ entered' = << >> /\ req = Idle
        /\ answer' = answer
    BY <1>2 DEF Arrive
  <2>2. answer' = Idle /\ ToSet(entered') = {}
    BY <2>1, EmptySet DEF WayOK
  <2>3. served' \in 0..MaxRequests
    BY <2>1, RouterAssumption DEF AnswerOK
  <2> QED BY <2>2, <2>3 DEF AnswerOK
<1>3. CASE Return
  <2>1. req' = Idle /\ answer' = Idle /\ served' = served
    BY <1>3 DEF Return
  <2> QED BY <2>1 DEF AnswerOK
<1>4. CASE CorsPasses \/ CorsAdds
  <2>1. Passes("cors") /\ (~Allows(req.origin, conf.cors) \/ ~IsPreflight(req))
    BY <1>4 DEF CorsPasses, CorsAdds, GoOn, Passes
  <2> QED BY <2>1, PassesKeepsAnswer
<1>5. CASE AuthPasses \/ CachePasses \/ CacheMisses
  <2>1. Passes("auth") \/ Passes("cache")
    BY <1>5 DEF AuthPasses, CachePasses, CacheMisses, GoOn, Passes
  <2> QED BY <2>1, PassesKeepsAnswer
<1>6. CASE EndpointMiddleware
  <2>1. Passes(Head(layers)) /\ Head(layers) # "cors"
    BY <1>6 DEF EndpointMiddleware, GoOn, Passes, Enter, Serving
  <2> QED BY <2>1, PassesKeepsAnswer
<1>7. CASE MuxDispatches
  <2>1. /\ Enter("mux") /\ answer' = answer /\ req' = req /\ served' = served
        /\ UNCHANGED <<setup, req>>
    BY <1>7 DEF MuxDispatches
  <2>2. answer = Idle /\ conf' = conf
    BY <2>1, LayerEntered, SetupKept
  <2>3. ~("cors" \in ToSet(entered') /\ Allows(req.origin, conf.cors) /\ IsPreflight(req))
    BY <2>1, NoPreflightDue
  <2> QED BY <2>1, <2>2, <2>3 DEF AnswerOK
<1>8. CASE AuthDecides
  <2>1. Enter("auth")
    BY <1>8 DEF AuthDecides
  <2>2. PICK i \in Match(req) : \E d \in Authorize(SecurityOf(i), req.cred) : Outcome(i, d)
    BY <1>8, AuthDecidesIs
  <2>5. PICK d \in Authorize(SecurityOf(i), req.cred) : Outcome(i, d)
    BY <2>2
  <2>3. CASE \E who : GoOn(headers, who)
    <3>1. Passes("auth")
      BY <2>1, <2>3 DEF GoOn, Passes
    <3> QED BY <3>1, PassesKeepsAnswer
  <2>4. ASSUME NEW type \in AuthRefusals, NEW status \in Refused(type), Answer(status, headers, type)
        PROVE  AnswerOK'
    <3>1. /\ status \in Written /\ Fits(status, type)
          /\ type \notin {"mux", "raw", "bind", "handler"} /\ type # "preflight"
      BY RefusedIs
    <3>2. \E j \in Match(req) : SecurityOf(j) # << >>
      BY <2>5 DEF Outcome
    <3>3. Answer(status, headers, type)
      BY <2>4
    <3> QED BY <2>1, <3>1, <3>2, <3>3, AnsweredKeepsAnswer
  <2> QED BY <2>3, <2>4, <2>5 DEF Outcome
<1>9. CASE MuxRejects
  <2>1. 404 \in Written /\ Enter("mux") /\ Answer(404, headers, "mux") /\ Fits(404, "mux")
    BY <1>9, Codes DEF MuxRejects, Fits, AuthRefusals
  <2> QED BY <2>1, AnsweredKeepsAnswer
<1>10. CASE RawHandler
  <2>1. 200 \in Written /\ Enter("raw") /\ Answer(200, headers, "raw") /\ Fits(200, "raw")
    BY <1>10, Codes DEF RawHandler, Fits, AuthRefusals
  <2> QED BY <2>1, AnsweredKeepsAnswer
<1>11. CASE BindFails
  <2>1. PICK hook \in Hooks : Enter("handler") /\ Answer(BindStatus(hook), headers, "bind")
    BY <1>11 DEF BindFails
  <2> DEFINE status == BindStatus(hook)
  <2>2. Answer(status, headers, "bind")
    BY <2>1
  <2>3. status \in Written /\ status \in {400} \cup Returned
    BY HooksGive
  <2> HIDE DEF status
  <2>4. Fits(status, "bind")
    BY <2>3, HooksGive DEF Fits, AuthRefusals
  <2> QED BY <2>1, <2>2, <2>3, <2>4, AnsweredKeepsAnswer
<1>12. CASE Handle
  <2>1. 200 \in Written /\ Enter("handler") /\ Answer(200, headers, "handler") /\ BindResult.ok
        /\ Fits(200, "handler")
    BY <1>12, Codes DEF Handle, Fits, AuthRefusals
  <2> QED BY <2>1, AnsweredKeepsAnswer
<1>13. CASE UNCHANGED vars
  <2>1. /\ UNCHANGED <<setup, req>> /\ answer' = answer /\ req' = req /\ entered' = entered
        /\ served' = served
    BY <1>13 DEF vars, setup
  <2>2. conf' = conf /\ endpoints' = endpoints /\ Match(req)' = Match(req)
    BY <2>1, SetupKept
  <2>3. \A i : SecurityOf(i)' = SecurityOf(i)
    BY <2>2 DEF SecurityOf
  <2>4. BindResult' = BindResult
    BY <2>1 DEF BindResult
  <2>5. Fits(answer.status, answer.body)' <=> Fits(answer.status, answer.body)
    BY <2>1 DEF Fits, Refused
  <2> QED BY <2>1, <2>2, <2>3, <2>4, <2>5 DEF AnswerOK
<1> QED BY <1>1, <1>2, <1>3, <1>4, <1>5, <1>6, <1>7, <1>8, <1>9, <1>10, <1>11, <1>12, <1>13,
           CacheHitsKeepsAnswer, PreflightKeepsAnswer DEF Next, ServeStep

-----------------------------------------------------------------------------
(* What a handler is given *)

\* buildBinder's closure fails when a required form field or file is missing.
LEMMA BoundInputs ==
  ASSUME NEW fields, NEW in, NEW limit, Bind(fields, in, limit).ok, NEW i \in DOMAIN fields
  PROVE  /\ Source(fields[i]) = "form" /\ fields[i].type.k \notin {"ptr", "slice"} =>
              fields[i].tags["form"] \in DOMAIN in.form
         /\ Source(fields[i]) = "file" /\ fields[i].type.k = "file" =>
              fields[i].tags["file"] \in DOMAIN in.files
<1> DEFINE fbs == CollectBinders(fields)
           results == [j \in DOMAIN fbs |-> ApplyBinder(fbs[j], in, limit)]
           bad == {j \in DOMAIN fbs : ~results[j].ok}
<1>1. bad = {}
  <2> SUFFICES ASSUME bad # {} PROVE FALSE
    OBVIOUS
  <2>1. CASE NeedsForm(fbs) /\ in.brokenForm
    <3>1. \E src, key, cause : Bind(fields, in, limit) = BindFailure(src, key, cause)
      BY <2>1 DEF Bind
    <3> QED BY <3>1 DEF BindFailure
  <2>2. CASE ~(NeedsForm(fbs) /\ in.brokenForm)
    <3>1. \E src, key, cause : Bind(fields, in, limit) = BindFailure(src, key, cause)
      BY <2>2 DEF Bind
    <3> QED BY <3>1 DEF BindFailure
  <2> QED BY <2>1, <2>2
<1>2. ASSUME Source(fields[i]) # "none"
      PROVE  /\ fbs[i] = ClassifyField(fields[i])
             /\ ApplyBinder(fbs[i], in, limit).ok
  <2>1. i \in DOMAIN fbs /\ fbs[i] = ClassifyField(fields[i])
    BY <1>2 DEF CollectBinders
  <2> HIDE DEF fbs
  <2> QED BY <1>1, <2>1
<1> HIDE DEF fbs
<1>3. ASSUME Source(fields[i]) = "form", fields[i].type.k \notin {"ptr", "slice"},
             fields[i].tags["form"] \notin DOMAIN in.form
      PROVE  FALSE
  <2>1. fbs[i].src = "form" /\ fbs[i].key = fields[i].tags["form"] /\ fbs[i].required
    <3>1. FieldRequired(fields[i])
      BY <1>3 DEF FieldRequired
    <3> QED BY <1>2, <1>3, <3>1 DEF ClassifyField
  <2>2. ApplyBinder(fbs[i], in, limit) = BindFormField(fbs[i], in)
    BY <2>1 DEF ApplyBinder
  <2>3. BindFormField(fbs[i], in) = Failed("required")
    BY <1>3, <2>1 DEF BindFormField
  <2> QED BY <1>2, <1>3, <2>2, <2>3 DEF Failed
<1>4. ASSUME Source(fields[i]) = "file", fields[i].type.k = "file",
             fields[i].tags["file"] \notin DOMAIN in.files
      PROVE  FALSE
  <2>1. fbs[i].src = "file" /\ fbs[i].key = fields[i].tags["file"] /\ fbs[i].required
    <3>1. FieldRequired(fields[i])
      BY <1>4 DEF FieldRequired
    <3> QED BY <1>2, <1>4, <3>1 DEF ClassifyField
  <2>2. ApplyBinder(fbs[i], in, limit) = BindFileField(fbs[i], in)
    BY <2>1 DEF ApplyBinder
  <2>3. \E cause : BindFileField(fbs[i], in) = Failed(cause)
    BY <1>4, <2>1 DEF BindFileField
  <2> QED BY <1>2, <1>4, <2>2, <2>3 DEF Failed
<1> QED BY <1>3, <1>4

-----------------------------------------------------------------------------
(* The theorems *)

LEMMA Invariance == Spec => []IInv
<1>1. Init => IInv
  <2> SUFFICES ASSUME Init PROVE IInv
    OBVIOUS
  <2>1. ConfOK
    BY DEF Init, ConfOK
  <2>2. /\ req = Idle /\ layers = << >> /\ entered = << >> /\ headers = NoHeaders
        /\ principals = {} /\ recording = << >> /\ answer = Idle /\ served = 0
        /\ stored = [k \in {} |-> Idle]
    BY DEF Init
  <2>3. WayOK
    <3>1. << >> \in Seq(Layer)
      OBVIOUS
    <3> QED BY <2>2, <3>1 DEF WayOK
  <2>4. GateOK
    BY <2>2 DEF GateOK
  <2>5. HeadersOK
    BY <2>2, NoHeadersAre DEF HeadersOK
  <2>6. StoredOK
    BY <2>2 DEF StoredOK
  <2>7. AnswerOK
    BY <2>2, RouterAssumption DEF AnswerOK
  <2> QED BY <2>1, <2>3, <2>4, <2>5, <2>6, <2>7, RoutesInit DEF IInv
<1>2. IInv /\ [Next]_vars => IInv'
  <2> SUFFICES ASSUME IInv, [Next]_vars PROVE IInv'
    OBVIOUS
  <2>1. ConfOK'
    <3>1. conf' = conf
      BY DEF Next, Configure, RouterGroup, NestGroup, Register, RegisterRaw, Arrive, ServeStep,
         CorsPasses, CorsAdds, CorsAnswersPreflight, AuthPasses, AuthDecides, CachePasses,
         CacheHits, CacheMisses, MuxRejects, MuxDispatches, EndpointMiddleware, RawHandler,
         BindFails, Handle, Return, GoOn, Answer, vars, setup
    <3> QED BY <3>1 DEF IInv, ConfOK
  <2> QED BY <2>1, RoutesKept, WayKept, GateKept, HeadersKept, StoredKept, AnswerKept DEF IInv
<1> QED BY <1>1, <1>2, PTL DEF Spec

\* The state of the router and of the request being served has its type.
THEOREM TypeCorrect == Spec => []TypeOK
<1>1. IInv => TypeOK
  <2> SUFFICES ASSUME IInv PROVE TypeOK
    OBVIOUS
  <2>1. \A e \in mux : e.endpoint \in 0..Len(endpoints)
    BY DEF IInv, RoutesOK
  <2> QED BY <2>1 DEF IInv, ConfOK, RoutesOK, WayOK, GateOK, StoredOK, AnswerOK, TypeOK, StoredKeys
<1> QED BY <1>1, Invariance, PTL

\* No endpoint runs behind the auth layer, and no stored response of one is
\* served there, unless one requirement declared for it holds of the request's
\* credentials; and the context holds the principals of such a requirement
\* (auth.go:63, options.go:129).
THEOREM GuardsHold == Spec => []GuardedRuns
<1>1. IInv => GuardedRuns
  <2> SUFFICES ASSUME IInv, answer # Idle, answer.body \in {"handler", "bind", "stored"},
                      "auth" \in ToSet(entered), NEW i \in Serves \ {0}
               PROVE  Admitted(declared[i])
    BY DEF GuardedRuns, Answered
  <2>1. req # Idle
    BY DEF IInv, WayOK
  <2> QED BY <2>1 DEF IInv, GateOK
<1> QED BY <1>1, Invariance, PTL

\* A response names its own request's origin or "*" without credentials, and
\* only an origin the options permit; it then varies by Origin, and never pairs
\* "*" with credentials, from the cache either; and the cache of a route that
\* varies by Origin gives no origin the name of another (cors.go:57, key.go:62).
THEOREM OriginsAnswered == Spec => []OriginAnswered
<1>1. IInv => OriginAnswered
  <2> SUFFICES ASSUME IInv, answer # Idle PROVE OriginAnswered
    BY DEF OriginAnswered, Answered
  <2>1. /\ answer.headers = headers /\ req # Idle /\ req \in Requests /\ ConfOK
        /\ Whole(headers) /\ headers \in Header
    BY DEF IInv, WayOK, HeadersOK
  <2>2. ASSUME answer.body # "stored"
        PROVE  headers.origin \in
                 IF "cors" \in ToSet(entered) /\ req.origin # NoOrigin /\ Permitted
                 THEN {<<req.origin>>} \cup IF conf.cors.credentials THEN {} ELSE {<<Star>>}
                 ELSE {<< >>}
    <3>1. headers.origin = Expected
      BY <2>1, <2>2 DEF IInv, HeadersOK
    <3>2. CASE "cors" \in ToSet(entered) /\ req.origin # NoOrigin /\ Permitted
      <4>1. headers.origin = MatchOrigin(req.origin, conf.cors)
        BY <2>1, <3>1, <3>2, AllowsIs DEF Expected
      <4> QED BY <2>1, <3>2, <4>1, MatchOriginIs
    <3>3. CASE ~("cors" \in ToSet(entered) /\ req.origin # NoOrigin /\ Permitted)
      BY <2>1, <3>1, <3>3, AllowsIs DEF Expected
    <3> QED BY <3>2, <3>3
  <2>3. headers.credentials \in BOOLEAN
    BY <2>1 DEF Header
  <2>4. ASSUME req.origin # NoOrigin, \E i \in Serves \ {0} : endpoints[i].byOrigin
        PROVE  ToSet(headers.origin) \subseteq {req.origin, Star}
    <3>1. \E i \in Match(req) : endpoints[i].byOrigin
      BY <2>4, MatchIsServes DEF IInv
    <3>2. CacheKey[3] = req.origin
      BY <3>1, KeyVaries
    <3>3. NamesOnly(headers, CacheKey[3])
      BY <2>1 DEF IInv, HeadersOK
    <3> QED BY <2>4, <3>2, <3>3 DEF NamesOnly
  <2> QED BY <2>1, <2>2, <2>3, <2>4 DEF OriginAnswered, Answered, Whole
<1> QED BY <1>1, Invariance, PTL

\* A request that is dispatched has gone through the middleware of Use in
\* order, then through those of the groups and the route, in the order of the
\* cascade, and has reached the handler (router.go:69, 161).
THEOREM LayersOrdered == Spec => []LayersInOrder
<1>1. IInv => LayersInOrder
  <2> SUFFICES ASSUME IInv, answer # Idle, "mux" \in ToSet(entered), NEW i \in Serves \ {0}
               PROVE  LET own == SubSeq(entered, Len(conf.use) + 2, Len(entered) - 1)
                      IN  /\ entered = conf.use \o <<"mux">> \o own \o <<"handler">>
                          /\ InOrder(own, declared[i])
    BY DEF LayersInOrder, Answered
  <2> DEFINE n == Len(conf.use)
             names == endpoints[i].middleware
             last == <<"handler">>
             to == conf.use \o <<"mux">>
             route == names \o last
             own == SubSeq(entered, n + 2, Len(entered) - 1)
  <2>1. ConfOK /\ RoutesOK /\ WayOK /\ req # Idle /\ layers = << >>
    BY DEF IInv, WayOK
  <2>2. PICK e \in Resolve(req) : e.endpoint = i
    BY DEF Serves
  <2>3. i \in 1..Len(endpoints) /\ Len(endpoints) \in Nat
    BY <2>1, MatchIsServes DEF RoutesOK
  <2>4. /\ endpoints[i] \in Endpoint /\ declared[i] \in Seq(Option)
        /\ \E at : Places(at, names, declared[i], Len(declared[i]))
    <3>1. endpoints[i] \in Endpoint
      BY <2>1, <2>3 DEF RoutesOK
    <3>2. declared[i] \in Seq(Option)
      BY <2>1, <2>3 DEF RoutesOK
    <3>3. \E at : Places(at, names, declared[i], Len(declared[i]))
      BY <2>1, <2>3 DEF RoutesOK
    <3> QED BY <3>1, <3>2, <3>3
  <2>5. names \in Seq(Names) /\ names \in Seq(Layer) /\ Len(names) \in Nat /\ DOMAIN names = 1..Len(names)
    <3>1. names \in Seq(Names)
      BY <2>4 DEF Endpoint
    <3> HIDE DEF names
    <3> QED BY <3>1 DEF Layer
  <2>6. last \in Seq(Layer) /\ Len(last) = 1 /\ last[1] = "handler"
    <3>1. "handler" \in Layer
      BY DEF Layer
    <3> QED BY <3>1, Single
  <2>7. conf.use \in Seq(UseLayers) /\ conf.use \in Seq(Layer) /\ n \in Nat
    BY <2>1, UseIs DEF Layer
  <2>8. to \in Seq(Layer)
    <3>1. "mux" \in Layer
      BY DEF Layer
    <3>2. <<"mux">> \in Seq(Layer)
      BY <3>1, Single
    <3> QED BY <2>7, <3>2, ConcatProperties
  <2>9. Way(e) = to \o route
    BY <2>2 DEF Way, Route
  <2> HIDE DEF names, last
  <2>10. /\ route \in Seq(Layer) /\ Len(route) = Len(names) + 1
         /\ \A k \in 1..Len(names) : route[k] = names[k]
    <3>1. /\ route \in Seq(Layer) /\ Len(route) = Len(names) + Len(last)
          /\ \A k \in 1..Len(names) + Len(last) :
               route[k] = IF k <= Len(names) THEN names[k] ELSE last[k - Len(names)]
      BY <2>5, <2>6, ConcatProperties
    <3> HIDE DEF route
    <3> QED BY <2>5, <2>6, <3>1
  <2>11. to \o route = (to \o names) \o last
    <3> HIDE DEF to
    <3>1. to \in Seq(Layer) /\ names \in Seq(Layer) /\ last \in Seq(Layer)
      BY <2>5, <2>6, <2>8
    <3>2. (to \o names) \o last = to \o (names \o last)
      BY <3>1, ConcatAssociative
    <3> QED BY <3>2
  <2> DEFINE way == to \o route
  <2>12. /\ way \in Seq(Layer) /\ Len(way) = n + 1 + Len(route)
         /\ \A k \in 1..Len(route) : way[n + 1 + k] = route[k]
    <3> HIDE DEF route
    <3> QED BY <2>7, <2>10, WayBehind
  <2>13. entered = way
    <3>1. entered \in Seq(Layer) /\ Along(entered, << >>, Way(e))
      BY <2>1, <2>2 DEF WayOK
    <3> HIDE DEF way
    <3> QED BY <2>9, <2>12, <3>1, AtTheEnd DEF way
  <2> HIDE DEF way, to, route
  <2>14. own = names
    <3>1. Len(entered) - 1 = n + 1 + Len(names) /\ Len(entered) = n + 2 + Len(names)
      BY <2>5, <2>7, <2>10, <2>12, <2>13
    <3> DEFINE m == n + 2
               l == Len(entered) - 1
    <3>2. m \in Int /\ l \in Int /\ l = n + 1 + Len(names) /\ l - m + 1 = Len(names)
      BY <2>5, <2>7, <3>1
    <3>3. ASSUME NEW k \in 1..Len(names) PROVE entered[m + k - 1] = names[k]
      <4>1. m + k - 1 = n + 1 + k /\ k \in 1..Len(route)
        BY <2>5, <2>7, <2>10
      <4> QED BY <2>10, <2>12, <2>13, <4>1
    <3>4. \A k \in m..l : entered[k] \in Layer
      <4>1. \A k \in m..l : k \in 1..Len(entered)
        BY <2>7, <3>1, <3>2
      <4> QED BY <2>12, <2>13, <4>1
    <3> HIDE DEF m, l
    <3> DEFINE part == SubSeq(entered, m, l)
    <3>5. /\ part \in Seq(Layer) /\ Len(part) = IF m <= l THEN l - m + 1 ELSE 0
          /\ \A k \in 1..(l - m + 1) : part[k] = entered[m + k - 1]
      BY <3>2, <3>4, SubSeqProperties
    <3> HIDE DEF part
    <3>6. Len(part) = Len(names) /\ \A k \in 1..Len(names) : part[k] = names[k]
      <4>1. Len(part) = Len(names)
        BY <2>5, <3>2, <3>5
      <4>2. 1..(l - m + 1) = 1..Len(names)
        BY <3>2
      <4> QED BY <3>3, <3>5, <4>1, <4>2
    <3>7. part = names
      BY <2>5, <3>5, <3>6
    <3> QED BY <3>7 DEF part, m, l
  <2>15. entered = to \o own \o last
    BY <2>11, <2>13, <2>14 DEF way
  <2>16. InOrder(names, declared[i])
    <3>1. PICK at : Places(at, names, declared[i], Len(declared[i]))
      BY <2>4
    <3>2. DOMAIN declared[i] = 1..Len(declared[i])
      BY <2>4
    <3> DEFINE those == {j \in DOMAIN declared[i] : declared[i][j].kind = "middleware"}
    <3>3. /\ at \in [DOMAIN names -> those]
          /\ \A k, l \in DOMAIN names : k < l => at[k] < at[l]
          /\ \A j \in those : \E k \in DOMAIN names : at[k] = j
          /\ \A k \in DOMAIN names : names[k] = declared[i][at[k]].name
      BY <2>5, <3>1, <3>2 DEF Places
    <3> QED BY <3>3 DEF InOrder
  <2> HIDE DEF own, n
  <2> QED BY <2>14, <2>15, <2>16 DEF to, last, own, n
<1> QED BY <1>1, Invariance, PTL

\* A preflight of a permitted origin is answered by the cors layer, unless an
\* auth layer outside it guards an OPTIONS route or a cache outside it has
\* stored an answer (cors.go:94).
THEOREM PreflightsAnswered == Spec => []PreflightAnswered
<1>1. IInv => PreflightAnswered
  <2> SUFFICES ASSUME IInv, answer # Idle, "cors" \in ToSet(conf.use), IsPreflight(req),
                      req.origin # NoOrigin, Permitted
               PROVE  \/ answer.body = "preflight" /\ answer.status = 204 /\ answer.headers.preflight
                      \/ answer.body = "stored"
                      \/ /\ "cors" \notin ToSet(entered)
                         /\ \E i \in Serves \ {0} :
                              endpoints[i].key[1] = "OPTIONS" /\ Requirements(declared[i]) # {}
    BY DEF PreflightAnswered, Answered
  <2>1. ConfOK /\ RoutesOK /\ WayOK /\ AnswerOK /\ req # Idle /\ req \in Requests
    BY DEF IInv, WayOK
  <2>2. Allows(req.origin, conf.cors)
    BY <2>1, AllowsIs
  <2>3. CASE "cors" \in ToSet(entered)
    BY <2>1, <2>2, <2>3 DEF AnswerOK
  <2>4. CASE "cors" \notin ToSet(entered) /\ answer.body \in {"mux", "raw", "bind", "handler"}
    BY <2>1, <2>4 DEF AnswerOK, WayOK
  <2>5. CASE "cors" \notin ToSet(entered) /\ answer.body \in {"preflight", "stored"}
    BY <2>1, <2>5 DEF AnswerOK
  <2>6. CASE /\ "cors" \notin ToSet(entered)
             /\ answer.body \notin {"preflight", "stored", "mux", "raw", "bind", "handler"}
    <3>1. PICK i \in Match(req) : SecurityOf(i) # << >>
      BY <2>1, <2>6 DEF AnswerOK
    <3>2. /\ i \in Serves \ {0} /\ declared[i] \in Seq(Option)
          /\ SecurityOf(i) \in Seq(Requirement \cup {Anonymous})
          /\ SecurityFrom(SecurityOf(i), declared[i], Len(declared[i]))
      BY <2>1, MatchedEndpoint
    <3>3. Requirements(declared[i]) # {}
      <4>1. 1 \in 1..Len(SecurityOf(i))
        BY <3>1, <3>2
      <4>2. PICK j \in 1..Len(declared[i]) : Stands(declared[i], Len(declared[i]), j)
        BY <3>2, <4>1 DEF SecurityFrom
      <4>3. declared[i][j] \in Requirements(declared[i])
        BY <3>2, <4>2, RequirementsAre
      <4> QED BY <4>3
    <3>4. endpoints[i].key[1] = "OPTIONS"
      <4>1. PICK e \in Resolve(req) : e.key = endpoints[i].key
        BY DEF Match
      <4>2. Takes(e.key, req) /\ req.method = "OPTIONS"
        BY DEF Resolve, IsPreflight
      <4> QED BY <4>1, <4>2 DEF Takes, MethodWithin
    <3> QED BY <2>6, <3>2, <3>3, <3>4
  <2> QED BY <2>3, <2>4, <2>5, <2>6
<1> QED BY <1>1, Invariance, PTL

\* Whatever statuses hooks choose: a request that cannot be bound gets 400 or
\* the one a hook returned, and never zero; a refusal of auth that of its cause,
\* one a hook returned or one it left in the problem, zero only if it left that;
\* and a handler runs only with every required form field and file of its
\* Params (handler.go:100, auth.go:154, bind.go:196).
THEOREM StatusesWritten == Spec => []StatusWritten
<1>1. IInv => StatusWritten
  <2> SUFFICES ASSUME IInv, answer # Idle PROVE StatusWritten
    BY DEF StatusWritten, Answered
  <2>1. AnswerOK
    BY DEF IInv
  <2>2. ASSUME answer.body = "handler", NEW i \in DOMAIN Fields
        PROVE  /\ Source(Fields[i]) = "form" /\ Fields[i].type.k \notin {"ptr", "slice"} =>
                    Fields[i].tags["form"] \in DOMAIN req.input.form
               /\ Source(Fields[i]) = "file" /\ Fields[i].type.k = "file" =>
                    Fields[i].tags["file"] \in DOMAIN req.input.files
    <3>1. Bind(Fields, req.input, 1).ok
      BY <2>1, <2>2 DEF AnswerOK, BindResult
    <3> QED BY <3>1, BoundInputs
  <2>3. Fits(answer.status, answer.body)
    BY <2>1 DEF AnswerOK
  <2> QED BY <2>2, <2>3 DEF StatusWritten, Answered, Fits, Refused
<1> QED BY <1>1, Invariance, PTL

=============================================================================
