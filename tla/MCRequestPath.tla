----------------------------- MODULE MCRequestPath -----------------------------
(* A small router for TLC: one endpoint, one raw route, two schemes.       *)
EXTENDS RequestPath, TLC

CONSTANTS o1, o2, o3, a, b

MCOrigins == {o1, o2, o3}
MCSchemes == {a, b}

MCLayers == {<<"cors", "auth", "cache">>, <<"cache", "auth", "cors">>,
             <<"auth", "cors", "cache">>}

List(entries, credentials) ==
  [hasFunc |-> FALSE, func |-> {}, entries |-> entries, credentials |-> credentials]
MCCors == {List(<<{o1}, MCOrigins>>, FALSE), List(<<MCOrigins>>, TRUE), List(<<{o1}, {o2}>>, FALSE),
           [hasFunc |-> TRUE, func |-> {o2}, entries |-> <<MCOrigins>>, credentials |-> TRUE]}

NeedsA(scope) == [kind |-> "security", req |-> (a :> scope)]
NeedsBoth == [kind |-> "security", req |-> (a :> "any" @@ b :> "admin")]
OfKind(kind) == [kind |-> kind]
CacheBy(origin) == [kind |-> "cache", byOrigin |-> origin]
Named(name) == [kind |-> "middleware", name |-> name]

MCNames == {"m1", "m2"}
MCGroupLists == {<<NeedsA("any"), Named("m1")>>, <<NeedsBoth, OfKind("none")>>}
MCOptionLists == {<< >>, <<NeedsBoth>>, <<OfKind("optional"), NeedsA("admin")>>,
                  <<OfKind("none"), Named("m2")>>, <<OfKind("none"), NeedsBoth, CacheBy(FALSE)>>,
                  <<OfKind("optional"), NeedsBoth, CacheBy(TRUE)>>}

NoSecurity == {<< >>}
DocumentedA == {<< (a :> "any") >>}

Form(k, t) == [tags |-> ("form" :> k), type |-> t, contentTypes |-> << >>]
MCFields == <<Form("name", Scalar("string")), Form("age", Ptr(Scalar("int8")))>>

Carries(form) ==
  [path |-> << >>, query |-> << >>, header |-> << >>, form |-> form, files |-> << >>,
   contentType |-> "urlencoded", brokenForm |-> FALSE]
Good == Carries("name" :> <<"x">>)
MCInputs == {Good, Carries("name" :> <<"x">> @@ "age" :> <<"big">>), Carries("age" :> <<"7">>)}

Request(method, path, origin, asks, ca, cb, input) ==
  [method |-> method, path |-> path, origin |-> origin, asksMethod |-> asks,
   cred |-> (a :> ca @@ b :> cb), input |-> input]

MCRequests ==
  {Request("GET", "one", o, FALSE, "admin", "admin", Good) : o \in {NoOrigin, o1, o2, o3}}
  \cup {Request("GET", "one", NoOrigin, FALSE, ca, cb, Good) :
          ca, cb \in {"absent", "invalid", "plain", "admin"}}
  \cup {Request(m, p, o1, m = "OPTIONS", "absent", "plain", Good) :
          m \in {"HEAD", "OPTIONS"}, p \in {"one", "two"}}
  \cup {Request("OPTIONS", "one", o, TRUE, "admin", "admin", Good) : o \in {o2, o3}}
  \cup {Request("OPTIONS", "two", o2, FALSE, "admin", "admin", Good)}
  \cup {Request("GET", "two", o1, FALSE, "admin", "admin", i) : i \in MCInputs}

MCKeys == {<<"GET", "any">>, <<"OPTIONS", "one">>}
MCRawKeys == {<<"GET", "one">>}
Returning(status) == [kind |-> "returns", status |-> status]
Clearing == [kind |-> "changes", status |-> 0]
MCHooks == {Returning(0), Returning(200), Clearing}
OneHook == {[kind |-> "none", status |-> 0]}
=============================================================================
