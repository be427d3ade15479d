------------------------------- MODULE MCContract -------------------------------
(* A few APIs for TLC, each after one way things can go wrong.             *)
EXTENDS Contract

Str == Scalar("string")
Member(name, type) == [name |-> name, type |-> type, omit |-> FALSE, embedded |-> FALSE]
MayMiss(name, type) == [Member(name, type) EXCEPT !.omit = TRUE]
Embeds(type) == [name |-> type.name, type |-> type, omit |-> FALSE, embedded |-> TRUE]
Struct(name, fields) == [k |-> "struct", name |-> name, fields |-> fields]
Iter(item) == [k |-> "iter", of |-> item]
NoType == [k |-> "none"]

Pet == Struct("Pet", <<Member("name", Str), MayMiss("tags", Slice(Str)), Member("age", Ptr(Scalar("int8")))>>)
OtherPet == Struct("Pet", <<Member("id", Scalar("int64"))>>)
Cat == Struct("Cat", <<Member("kind", Str), Member("name", Str)>>)
Dog == Struct("Dog", <<Member("kind", Str), Member("age", Scalar("int8"))>>)
Cow == Struct("Cow", <<Member("kind", Str), Member("id", Str)>>)
Zoo == Struct("Client", <<Embeds(Cat), Member("age", Scalar("int64"))>>)
Blob == Struct("Blob", <<Member("photo", [k |-> "bytes"])>>)
Anonymous == Struct("", <<Member("user_id", Str), Member("userId", Ptr(Str))>>)
Trouble == Struct("GetPetsByIdParams", <<Member("name", Str)>>)
Animal(variants) == [k |-> "union", prop |-> "kind",
                     variants |-> [i \in DOMAIN variants |-> [value |-> variants[i].name, type |-> variants[i]]]]
Pen(variants) == Struct("Pen", <<MayMiss("pet", Animal(variants))>>)

Field(src, key, type) == [tags |-> (src :> key), type |-> type, contentTypes |-> << >>, required |-> FALSE]
Needs(f) == [f EXCEPT !.required = TRUE]
Of(f, contentTypes) == [f EXCEPT !.contentTypes = contentTypes]

Lit(text) == [k |-> "lit", text |-> text]
Var(text) == [k |-> "var", text |-> text]
Rest(text) == [k |-> "rest", text |-> text]

Pets == <<Lit("pets")>>
OnePet == <<Lit("pets"), Var("id")>>
ByID == <<Lit("pets"), Lit("by"), Lit("id")>>
Named1 == <<Lit("pets"), Var("name")>>
Files == <<Lit("files"), Rest("name")>>
MCPathOrder == <<Files, Pets, ByID, OnePet, Named1>>

JSON(status, type) == [status |-> status, kind |-> "json", type |-> type, contentTypes |-> << >>]
None(status) == [status |-> status, kind |-> "none", type |-> NoType, contentTypes |-> << >>]
Stream(status, kind, type, contentType) ==
  [status |-> status, kind |-> kind, type |-> type, contentTypes |-> <<contentType>>]

Endpoint(method, path, fields, responses) ==
  [method |-> method, path |-> path, id |-> << >>, fields |-> fields, accepts |-> << >>, responses |-> responses]

Body(type) == Field("body", "", type)

\* Two operations of one name, parameters of the same words, and a component
\* that has the name of a Params struct.
Lookups == <<
  Endpoint("Get", OnePet, <<Field("path", "id", Str), Field("query", "user_id", Ptr(Str)),
                            Needs(Field("header", "userId", Scalar("int8")))>>,
           <<JSON(200, Pet), JSON(400, Trouble), None(404)>>),
  Endpoint("Get", ByID, <<Field("query", "tags", Slice(Str))>>, <<JSON(200, Anonymous), JSON(202, Pet)>>),
  [Endpoint("Delete", OnePet, <<Field("query", "kind", Scalar("bool")), Needs(Field("query", "age", Scalar("int64")))>>,
            << >>) EXCEPT !.id = <<"Get", "Pets", "By", "Id">>],
  Endpoint("Head", OnePet, <<Field("path", "id", Scalar("int8"))>>, <<None(200)>>)>>

\* JSON both ways: structs of one name, embedded, with bytes.
Bodies == <<
  Endpoint("Put", Pets, <<Body(Pet)>>, <<JSON(200, Pet), JSON(409, OtherPet)>>),
  Endpoint("Post", Pets, <<Body(Ptr(Zoo))>>, <<JSON(201, Slice(Blob)), None(204)>>),
  Endpoint("Patch", Pets, <<Body(Anonymous)>>, <<JSON(200, Zoo)>>)>>

\* Forms, files and raw bodies.
Uploads == <<
  Endpoint("Put", Files, <<Field("path", "name", Str), Field("form", "user_id", Str),
                           Field("form", "age", Ptr(Scalar("int8"))), Field("form", "tags", Slice(Str)),
                           Of(Field("file", "photo", [k |-> "file"]), <<"png">>)>>, <<None(204)>>),
  Endpoint("Post", Files, <<Field("path", "name", Str), Field("form", "kind", Str),
                            Field("form", "userId", Str), Field("form", "user_id", Str)>>, <<None(204)>>),
  Endpoint("Put", Pets, <<Body([k |-> "reader"])>>, <<None(204)>>),
  Endpoint("Patch", Pets, <<Field("file", "photo", [k |-> "files"]), Field("file", "pet", [k |-> "file"])>>,
           <<None(204)>>),
  [Endpoint("Post", Pets, <<Of(Body([k |-> "bytes"]), <<"json">>)>>, <<None(200)>>) EXCEPT !.accepts = <<Dog>>]>>

\* A parameter and a form field of one name.
Clash == <<Endpoint("Post", Named1, <<Field("path", "name", Str), Field("form", "name", Str)>>, <<None(204)>>)>>

Streams == <<
  Endpoint("Post", Pets, <<Of(Body(Iter(Cat)), <<"jsonl">>)>>,
           <<Stream(200, "stream", Dog, "jsonl"), None(202), JSON(409, Cat)>>),
  Endpoint("Get", Pets, << >>, <<Stream(200, "sse", NoType, "sse")>>),
  Endpoint("Put", Pets, <<Of(Body(Iter("Part")), <<"mixed">>)>>, <<Stream(200, "mixed", Dog, "mixed")>>)>>

\* Anonymous shapes of one signature, their unions of different variants, and
\* the same unions without a shape around them.
OneSignature == <<
  Endpoint("Get", Pets, << >>, <<JSON(200, Struct("", <<Member("pet", Animal(<<Cat, Dog>>))>>)), JSON(202, Cow)>>),
  Endpoint("Get", ByID, << >>, <<JSON(200, Slice(Struct("", <<Member("pet", Animal(<<Dog, Cow>>))>>)))>>),
  Endpoint("Put", Pets, << >>, <<JSON(200, Animal(<<Cat, Dog>>)), JSON(409, Animal(<<Dog, Cow>>))>>),
  Endpoint("Patch", Pets, << >>, <<JSON(200, Slice(Animal(<<Dog, Cow>>)))>>)>>

\* A union that gains a variant, an endpoint that goes.
Before1 == <<Endpoint("Get", Pets, << >>, <<JSON(200, Pen(<<Cat, Dog>>))>>),
             Endpoint("Delete", Pets, << >>, <<None(204)>>)>>
After1 == <<Endpoint("Get", Pets, << >>, <<JSON(200, Pen(<<Cat, Dog, Cow>>))>>)>>

MCAPIs == {[documented |-> a, served |-> a] : a \in {Lookups, Bodies, Uploads, Clash, Streams, OneSignature}}
            \cup {[documented |-> Before1, served |-> After1]}

MCCamel == ("pets" :> <<"Pets">> @@ "by" :> <<"By">> @@ "id" :> <<"Id">> @@ "name" :> <<"Name">>
            @@ "files" :> <<"Files">>)

MCWords == ("id" :> <<"ID">> @@ "name" :> <<"Name">> @@ "user_id" :> <<"User", "ID">> @@ "userId" :> <<"User", "ID">>
            @@ "tags" :> <<"Tags">> @@ "age" :> <<"Age">> @@ "kind" :> <<"Kind">> @@ "photo" :> <<"Photo">>
            @@ "pet" :> <<"Pet">> @@ "Pet" :> <<"Pet">> @@ "Cat" :> <<"Cat">> @@ "Dog" :> <<"Dog">>
            @@ "Cow" :> <<"Cow">> @@ "Client" :> <<"Client">> @@ "Blob" :> <<"Blob">> @@ "Pen" :> <<"Pen">>
            @@ "GetPetsByIdParams" :> <<"Get", "Pets", "By", "Id", "Params">>)

MCAlphabet == <<"Blob", "Cat", "Client", "Cow", "Dog", "GetPetsByIdParams", "Pen", "Pet", "age", "id", "json",
                "jsonl", "kind", "mixed", "multipart", "name", "octets", "pet", "photo", "sse", "tags",
                "urlencoded", "userId", "user_id">>

MCReservedNames == {<<"Client">>, <<"API", "Error">>, <<"Part">>}

MCPathTexts == {"x", "", "a b", "a/b"}
MCPathEscape == ("x" :> "x" @@ "7" :> "7" @@ "big" :> "big" @@ "" :> "" @@ "a b" :> "a%20b" @@ "a/b" :> "a%2Fb")
MCWildcardEscape == ("x" :> "x" @@ "7" :> "7" @@ "big" :> "big" @@ "" :> "" @@ "a b" :> "a%20b" @@ "a/b" :> "a/b")
MCProblem == [obj |-> ("title" :> [str |-> "x"])]
=============================================================================
