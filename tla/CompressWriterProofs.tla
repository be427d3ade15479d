-------------------------- MODULE CompressWriterProofs --------------------------
(***************************************************************************)
(* Theorems about CompressWriter, for any responses, encoders, minimum     *)
(* size and number of chunks.                                              *)
(***************************************************************************)
EXTENDS CompressWriter, SequenceTheorems, TLAPS

WireItems == ({"plain", "encoded"} \X ChunkRefs) \cup {<<"end">>, <<"problem">>}

\* The first n chunks that r writes.
All(r, n) == [i \in 1..n |-> <<r, i>>]
IsAll(chunks, r, n) == Len(chunks) = n /\ \A i \in 1..n : chunks[i] = <<r, i>>

(* A response s of r that is being served and whose handler has written n *)
(* chunks is in one of four modes.                                        *)

Undecided(s, n) ==
  /\ ~s.decided /\ ~s.passthrough /\ ~s.wroteHeader
  /\ s.enc = NoEncoder /\ s.buf = << >> /\ n = 0
  /\ s.status = OK /\ s.sent = 0 /\ s.wire = << >>
  /\ s.coding # "gzip" /\ s.sentCoding # "gzip"

Holding(s, r, n) ==
  /\ s.decided /\ ~s.passthrough /\ ~s.wroteHeader /\ s.enc = NoEncoder
  /\ s.vary /\ s.accepts /\ BodyAllowed(s.status)
  /\ s.sent = 0 /\ s.wire = << >>
  /\ s.coding # "gzip" /\ s.sentCoding # "gzip"
  /\ IsAll(s.buf, r, n)
  /\ n = 0 \/ n < MinSize

Passing(s, r, n) ==
  /\ s.decided /\ s.passthrough /\ s.enc = NoEncoder /\ s.buf = << >>
  /\ s.coding # "gzip" /\ s.sentCoding # "gzip"
  /\ s.sent = 0 => n = 0 /\ s.status = EarlyHints
  /\ s.sent # 0 /\ s.status # EarlyHints => s.sent = s.status
  /\ Len(s.wire) = IF BodyAllowed(s.sent) THEN n ELSE 0
  /\ \A i \in 1..Len(s.wire) : s.wire[i] = <<"plain", <<r, i>>>>

Encoding(s, pending, r, n) ==
  /\ s.decided /\ ~s.passthrough /\ s.enc # NoEncoder /\ s.buf = << >>
  /\ s.coding = "gzip" /\ s.vary /\ s.accepts
  /\ BodyAllowed(s.sent)
  /\ s.sent = 0 => s.status = EarlyHints
  /\ s.sent # 0 => s.sentCoding = "gzip" /\ s.sentVary
  /\ s.sent # 0 /\ s.status # EarlyHints => s.sent = s.status
  /\ Len(s.wire) + Len(pending) = n
  /\ \A i \in 1..Len(s.wire) : s.wire[i] = <<"encoded", <<r, i>>>>
  /\ \A i \in 1..Len(pending) : pending[i] = <<r, Len(s.wire) + i>>

Mode(s, pending, r, n) ==
  \/ Undecided(s, n)
  \/ Holding(s, r, n)
  \/ Passing(s, r, n)
  \/ Encoding(s, pending, r, n)

\* What a client is to find of a response of n chunks that is over.
Whole(s, r, n) ==
  /\ s.sentCoding = "gzip" => s.sentVary /\ s.accepts
  /\ s.wire = CASE ~BodyAllowed(s.sent)  -> << >>
                [] s.sentCoding = "gzip" -> Encoded(All(r, n)) \o EndOfStream
                [] OTHER                 -> Plain(All(r, n))

\* The status a handler chose is the one its response has and sends.
Kept(s, chosen) ==
  /\ s.decided /\ s.status # EarlyHints => chosen = s.status
  /\ ~s.decided => chosen = 0

Pending(r) == IF resp[r].enc = NoEncoder THEN << >> ELSE encoder[resp[r].enc].pending

\* A response s of r in a phase, its encoder holding back some of its n chunks.
ServedAs(s, held, label, r, n, chosen) ==
  /\ label = "running" => Mode(s, held, r, n) /\ Kept(s, chosen)
  /\ label # "running" => s.enc = NoEncoder /\ s.buf = << >>
  /\ label \in {"done", "hijacked"} => Whole(s, r, n)
  /\ label = "done" =>
       /\ s.sent # 0
       /\ s.status # EarlyHints /\ chosen # 0 => s.sent = chosen

Served(r) == ServedAs(resp[r], Pending(r), phase[r], r, written[r], wanted[r])

\* The inductive invariant.
IInv ==
  /\ TypeOK
  /\ EncodersExclusive
  /\ \A r \in Responses : Served(r)

-----------------------------------------------------------------------------
(* The connection *)

\* A status sent fixes the headers, the first final one.
LEMMA SendHeaderSends ==
  ASSUME NEW s \in Resp, NEW code \in Statuses \cup {ServerError}
  PROVE  LET t == SendHeader(s, code) IN
         /\ t \in Resp
         /\ t.content = s.content /\ t.accepts = s.accepts /\ t.status = s.status
         /\ t.decided = s.decided /\ t.wroteHeader = s.wroteHeader
         /\ t.passthrough = s.passthrough /\ t.buf = s.buf /\ t.enc = s.enc
         /\ t.coding = s.coding /\ t.vary = s.vary /\ t.wire = s.wire
         /\ s.sent # 0 \/ code < 200 => t = s
         /\ s.sent = 0 /\ ~(code < 200) =>
              t.sent = code /\ t.sentCoding = s.coding /\ t.sentVary = s.vary
<1>1. CASE s.sent # 0 \/ code < 200
  BY <1>1 DEF SendHeader, Informational
<1>2. CASE s.sent = 0 /\ ~(code < 200)
  <2> DEFINE t == [s EXCEPT !.sent = code, !.sentCoding = s.coding, !.sentVary = s.vary]
  <2>1. SendHeader(s, code) = t
    BY <1>2 DEF SendHeader, Informational
  <2>2. t \in Resp
    BY DEF Resp
  <2>3. /\ t.content = s.content /\ t.accepts = s.accepts /\ t.status = s.status
        /\ t.decided = s.decided /\ t.wroteHeader = s.wroteHeader
        /\ t.passthrough = s.passthrough /\ t.buf = s.buf /\ t.enc = s.enc
        /\ t.coding = s.coding /\ t.vary = s.vary /\ t.wire = s.wire
        /\ t.sent = code /\ t.sentCoding = s.coding /\ t.sentVary = s.vary
    BY DEF Resp
  <2> HIDE DEF t
  <2> QED BY <1>2, <2>1, <2>2, <2>3
<1> QED BY <1>1, <1>2

\* Bytes sent send the header first, and are dropped if that allows no body.
LEMMA SendSends ==
  ASSUME NEW s \in Resp, NEW items \in Seq(WireItems)
  PROVE  LET t == Send(s, items) IN
         /\ t \in Resp
         /\ t.content = s.content /\ t.accepts = s.accepts /\ t.status = s.status
         /\ t.decided = s.decided /\ t.wroteHeader = s.wroteHeader
         /\ t.passthrough = s.passthrough /\ t.buf = s.buf /\ t.enc = s.enc
         /\ t.coding = s.coding /\ t.vary = s.vary
         /\ s.sent # 0 => t.sent = s.sent /\ t.sentCoding = s.sentCoding /\ t.sentVary = s.sentVary
         /\ s.sent = 0 => t.sent = OK /\ t.sentCoding = s.coding /\ t.sentVary = s.vary
         /\ t.wire = IF BodyAllowed(t.sent) THEN s.wire \o items ELSE s.wire
<1> DEFINE h == SendHeader(s, OK)
           w == h.wire \o items
<1>1. /\ h \in Resp
      /\ h.content = s.content /\ h.accepts = s.accepts /\ h.status = s.status
      /\ h.decided = s.decided /\ h.wroteHeader = s.wroteHeader
      /\ h.passthrough = s.passthrough /\ h.buf = s.buf /\ h.enc = s.enc
      /\ h.coding = s.coding /\ h.vary = s.vary /\ h.wire = s.wire
      /\ s.sent # 0 => h.sent = s.sent /\ h.sentCoding = s.sentCoding /\ h.sentVary = s.sentVary
      /\ s.sent = 0 => h.sent = OK /\ h.sentCoding = s.coding /\ h.sentVary = s.vary
  BY SendHeaderSends DEF Statuses, OK
<1> HIDE DEF h
<1>2. w \in Seq(WireItems)
  <2>1. h.wire \in Seq(WireItems)
    BY <1>1 DEF Resp, WireItems
  <2> QED BY <2>1, ConcatProperties
<1>3. Send(s, items) = IF BodyAllowed(h.sent) THEN [h EXCEPT !.wire = w] ELSE h
  BY DEF Send, h
<1> HIDE DEF w
<1>4. [h EXCEPT !.wire = w] \in Resp
  BY <1>1, <1>2 DEF Resp, WireItems
<1>5. CASE BodyAllowed(h.sent)
  <2> DEFINE t == [h EXCEPT !.wire = w]
  <2>1. /\ t.content = h.content /\ t.accepts = h.accepts /\ t.status = h.status
        /\ t.decided = h.decided /\ t.wroteHeader = h.wroteHeader
        /\ t.passthrough = h.passthrough /\ t.buf = h.buf /\ t.enc = h.enc
        /\ t.coding = h.coding /\ t.vary = h.vary /\ t.sent = h.sent
        /\ t.sentCoding = h.sentCoding /\ t.sentVary = h.sentVary /\ t.wire = w
    BY <1>1 DEF Resp
  <2>2. w = s.wire \o items
    BY <1>1 DEF w
  <2> HIDE DEF t
  <2>3. t \in Resp /\ Send(s, items) = t
    BY <1>3, <1>4, <1>5 DEF t
  <2> QED BY <1>1, <1>5, <2>1, <2>2, <2>3
<1>6. CASE ~BodyAllowed(h.sent)
  BY <1>1, <1>3, <1>6
<1> QED BY <1>5, <1>6

\* Chunks put on the wire, as they are or through the encoder, are chunks of it
\* one by one.
LEMMA ItemsOf ==
  ASSUME NEW chunks \in Seq(ChunkRefs)
  PROVE  /\ Plain(chunks) \in Seq(WireItems) /\ Len(Plain(chunks)) = Len(chunks)
         /\ \A i \in 1..Len(chunks) : Plain(chunks)[i] = <<"plain", chunks[i]>>
         /\ Encoded(chunks) \in Seq(WireItems) /\ Len(Encoded(chunks)) = Len(chunks)
         /\ \A i \in 1..Len(chunks) : Encoded(chunks)[i] = <<"encoded", chunks[i]>>
<1>1. /\ Len(chunks) \in Nat
      /\ \A i \in 1..Len(chunks) : chunks[i] \in ChunkRefs
  OBVIOUS
<1>2. \A i \in 1..Len(chunks) :
        <<"plain", chunks[i]>> \in WireItems /\ <<"encoded", chunks[i]>> \in WireItems
  BY <1>1 DEF WireItems
<1>3. /\ Plain(chunks) \in [1..Len(chunks) -> WireItems]
      /\ Encoded(chunks) \in [1..Len(chunks) -> WireItems]
  BY <1>2 DEF Plain, Encoded
<1>4. /\ Plain(chunks) \in Seq(WireItems) /\ Len(Plain(chunks)) = Len(chunks)
      /\ Encoded(chunks) \in Seq(WireItems) /\ Len(Encoded(chunks)) = Len(chunks)
  BY <1>1, <1>3
<1>5. /\ \A i \in 1..Len(chunks) : Plain(chunks)[i] = <<"plain", chunks[i]>>
      /\ \A i \in 1..Len(chunks) : Encoded(chunks)[i] = <<"encoded", chunks[i]>>
  BY DEF Plain, Encoded
<1> QED BY <1>4, <1>5

-----------------------------------------------------------------------------
(* The modes of a response *)

\* What is held back goes out plain, header first.
LEMMA CommitPlainPasses ==
  ASSUME NEW s \in Resp, NEW r \in Responses, NEW n \in 0..MaxChunks,
         ~s.wroteHeader, s.enc = NoEncoder, s.sent = 0, s.wire = << >>,
         s.coding # "gzip", s.sentCoding # "gzip",
         IsAll(s.buf, r, n), n # 0 => BodyAllowed(s.status)
  PROVE  LET t == CommitPlain(s) IN
         /\ t \in Resp /\ t.decided /\ t.status = s.status /\ Passing(t, r, n)
<1> DEFINE t == [s EXCEPT !.decided = TRUE, !.passthrough = TRUE, !.wroteHeader = TRUE]
           u == SendHeader(t, s.status)
           v == Send(u, Plain(s.buf))
<1>0. /\ s.status \in Statuses /\ s.buf \in Seq(ChunkRefs) /\ Len(s.buf) \in Nat
      /\ s.status \in {103, 200, 204, 404}
  BY DEF Resp, Statuses, EarlyHints, OK, NoContent, NotFound
<1>1. t \in Resp
  BY DEF Resp
<1>2. /\ t.content = s.content /\ t.accepts = s.accepts /\ t.status = s.status
      /\ t.decided = TRUE /\ t.passthrough = TRUE /\ t.buf = s.buf /\ t.enc = s.enc
      /\ t.coding = s.coding /\ t.wire = << >> /\ t.sent = 0 /\ t.sentCoding = s.sentCoding
  BY DEF Resp
<1> HIDE DEF t
<1>3. /\ u \in Resp /\ u.decided /\ u.passthrough /\ u.status = s.status
      /\ u.buf = s.buf /\ u.enc = NoEncoder /\ u.wire = << >>
      /\ u.coding # "gzip" /\ u.sentCoding # "gzip"
      /\ s.status = EarlyHints => u.sent = 0
      /\ s.status # EarlyHints => u.sent = s.status
  BY <1>0, <1>1, <1>2, SendHeaderSends DEF EarlyHints
<1>4. CommitPlain(s) = IF s.buf = << >> THEN u ELSE [v EXCEPT !.buf = << >>]
  BY DEF CommitPlain, t
<1> HIDE DEF u
<1>5. CASE s.buf = << >>
  <2>1. n = 0 /\ CommitPlain(s) = u
    BY <1>4, <1>5 DEF IsAll
  <2>2. u.sent # 0 => s.status # EarlyHints /\ u.sent = s.status
    BY <1>0, <1>3
  <2>3. u.sent = 0 => u.status = EarlyHints
    BY <1>0, <1>3
  <2>4. Passing(u, r, n)
    BY <1>3, <1>5, <2>1, <2>2, <2>3 DEF Passing
  <2> QED BY <1>3, <2>1, <2>4
<1>6. CASE s.buf # << >>
  <2>1. n # 0 /\ Len(s.buf) = n /\ BodyAllowed(s.status)
        /\ \A i \in 1..n : s.buf[i] = <<r, i>>
    BY <1>0, <1>6 DEF IsAll
  <2> DEFINE items == Plain(s.buf)
  <2>a. /\ items \in Seq(WireItems) /\ Len(items) = Len(s.buf)
        /\ \A i \in 1..Len(s.buf) : items[i] = <<"plain", s.buf[i]>>
    BY <1>0, ItemsOf
  <2>b. v = Send(u, items)
    OBVIOUS
  <2> HIDE DEF items, v
  <2>2. /\ Len(items) = n
        /\ \A i \in 1..n : items[i] = <<"plain", <<r, i>>>>
    BY <2>1, <2>a
  <2>3. /\ v \in Resp /\ v.decided /\ v.passthrough /\ v.status = s.status
        /\ v.enc = NoEncoder /\ v.coding # "gzip" /\ v.sentCoding # "gzip"
        /\ u.sent # 0 => v.sent = u.sent
        /\ u.sent = 0 => v.sent = OK
        /\ v.wire = IF BodyAllowed(v.sent) THEN u.wire \o items ELSE u.wire
    BY <1>3, <2>a, <2>b, SendSends
  <2>4. /\ v.sent # 0 /\ BodyAllowed(v.sent)
        /\ s.status # EarlyHints => v.sent = s.status
    BY <1>0, <1>3, <2>1, <2>3 DEF BodyAllowed, OK, NoContent, EarlyHints
  <2>5. v.wire = items
    BY <1>3, <2>a, <2>3, <2>4
  <2> DEFINE w == [v EXCEPT !.buf = << >>]
  <2>c. << >> \in Seq(ChunkRefs)
    OBVIOUS
  <2>6. w \in Resp
    BY <2>3, <2>c DEF Resp
  <2>7. /\ w.decided /\ w.passthrough /\ w.status = s.status /\ w.enc = NoEncoder
        /\ w.buf = << >> /\ w.coding # "gzip" /\ w.sentCoding # "gzip"
        /\ w.sent = v.sent /\ w.wire = v.wire
    BY <2>3 DEF Resp
  <2> HIDE DEF w
  <2>8. Passing(w, r, n)
    BY <2>a, <2>2, <2>4, <2>5, <2>7 DEF Passing
  <2>d. CommitPlain(s) = w
    BY <1>4, <1>6 DEF w
  <2> QED BY <2>6, <2>7, <2>8, <2>d
<1> QED BY <1>5, <1>6

\* The first status a handler takes decides its response: it is held back or
\* passed through from then on.
LEMMA WriteHeaderDecides ==
  ASSUME NEW s \in Resp, NEW r \in Responses, NEW code \in Statuses,
         Undecided(s, 0)
  PROVE  LET t == WriteHeader(s, code) IN
         /\ t \in Resp /\ t.decided /\ t.status = code
         /\ Holding(t, r, 0) \/ Passing(t, r, 0)
<1> DEFINE t == [s EXCEPT !.decided = TRUE, !.status = code]
           v == [t EXCEPT !.vary = TRUE]
<1>0. 0 \in 0..MaxChunks
  BY ConstantsAssumption
<1>1. t \in Resp
  BY DEF Resp
<1>2. /\ t.content = s.content /\ t.accepts = s.accepts /\ t.status = code
      /\ t.decided = TRUE /\ ~t.passthrough /\ ~t.wroteHeader /\ t.buf = << >>
      /\ t.enc = NoEncoder /\ t.coding # "gzip" /\ t.sentCoding # "gzip"
      /\ t.sent = 0 /\ t.wire = << >>
  BY DEF Resp, Undecided
<1>3. v \in Resp
  BY <1>1 DEF Resp
<1>4. /\ v.content = s.content /\ v.accepts = s.accepts /\ v.status = code
      /\ v.decided = TRUE /\ ~v.passthrough /\ ~v.wroteHeader /\ v.buf = << >>
      /\ v.enc = NoEncoder /\ v.coding # "gzip" /\ v.sentCoding # "gzip"
      /\ v.sent = 0 /\ v.wire = << >> /\ v.vary = TRUE
  BY <1>1, <1>2 DEF Resp
<1>5. WriteHeader(s, code) = IF Eligible(s, code) /\ s.accepts THEN v
                             ELSE IF Eligible(s, code) THEN CommitPlain(v)
                             ELSE CommitPlain(t)
  BY DEF WriteHeader, Undecided
<1> HIDE DEF t, v
<1>6. IsAll(<< >>, r, 0)
  BY DEF IsAll
<1>7. CASE Eligible(s, code) /\ s.accepts
  BY <1>3, <1>4, <1>5, <1>6, <1>7 DEF Holding, Eligible
<1>8. /\ CommitPlain(v) \in Resp /\ CommitPlain(v).decided
      /\ CommitPlain(v).status = code /\ Passing(CommitPlain(v), r, 0)
  BY <1>0, <1>3, <1>4, <1>6, CommitPlainPasses
<1>9. /\ CommitPlain(t) \in Resp /\ CommitPlain(t).decided
      /\ CommitPlain(t).status = code /\ Passing(CommitPlain(t), r, 0)
  BY <1>0, <1>1, <1>2, <1>6, CommitPlainPasses
<1> QED BY <1>5, <1>7, <1>8, <1>9

\* A status sent to a response that is passed through changes nothing of what
\* has been sent.
LEMMA SendHeaderPasses ==
  ASSUME NEW s \in Resp, NEW r \in Responses, NEW n \in 0..MaxChunks,
         Passing(s, r, n)
  PROVE  LET t == SendHeader(s, OK) IN
         /\ t \in Resp /\ t.decided /\ t.status = s.status /\ t.sent # 0
         /\ Passing(t, r, n)
<1> DEFINE t == SendHeader(s, OK)
<1>1. /\ t \in Resp /\ t.status = s.status /\ t.decided = s.decided
      /\ t.passthrough = s.passthrough /\ t.buf = s.buf /\ t.enc = s.enc
      /\ t.coding = s.coding /\ t.wire = s.wire
      /\ s.sent # 0 => t = s
      /\ s.sent = 0 => t.sent = OK /\ t.sentCoding = s.coding
  BY SendHeaderSends DEF Statuses, OK
<1> HIDE DEF t
<1>2. CASE s.sent # 0
  <2>1. t = s /\ t.sent # 0
    BY <1>1, <1>2
  <2>2. s.decided
    BY DEF Passing
  <2> QED BY <1>1, <2>1, <2>2 DEF t
<1>3. CASE s.sent = 0
  <2>1. t.sent = OK /\ t.sentCoding # "gzip" /\ n = 0 /\ Len(t.wire) = 0
        /\ t.status = EarlyHints
    BY <1>1, <1>3 DEF Passing
  <2>2. BodyAllowed(t.sent) /\ t.sent # 0
    BY <2>1 DEF BodyAllowed, OK, NoContent
  <2>3. /\ s.decided /\ s.passthrough /\ s.enc = NoEncoder /\ s.buf = << >>
        /\ s.coding # "gzip"
    BY DEF Passing
  <2>4. /\ t.decided /\ t.passthrough /\ t.enc = NoEncoder /\ t.buf = << >>
        /\ t.coding # "gzip"
    BY <1>1, <2>3
  <2>5. \A i \in 1..Len(t.wire) : t.wire[i] = <<"plain", <<r, i>>>>
    BY <2>1
  <2>6. Passing(t, r, n)
    BY <2>1, <2>2, <2>4, <2>5 DEF Passing
  <2> QED BY <1>1, <2>2, <2>4, <2>6 DEF t
<1> QED BY <1>2, <1>3

\* A chunk written to a response that is passed through is the next on the wire.
LEMMA SendPasses ==
  ASSUME NEW s \in Resp, NEW r \in Responses, NEW n \in 0..MaxChunks,
         n < MaxChunks, Passing(s, r, n)
  PROVE  LET t == Send(s, Plain(<< <<r, n + 1>> >>)) IN
         /\ t \in Resp /\ t.decided /\ t.status = s.status
         /\ Passing(t, r, n + 1)
<1> DEFINE chunks == << <<r, n + 1>> >>
           items == Plain(chunks)
           t == Send(s, items)
<1>0. MaxChunks \in Nat /\ n \in Nat /\ n + 1 \in 1..MaxChunks
  BY ConstantsAssumption
<1>1. chunks \in Seq(ChunkRefs) /\ Len(chunks) = 1 /\ chunks[1] = <<r, n + 1>>
  BY <1>0 DEF ChunkRefs
<1> HIDE DEF chunks
<1>2. items \in Seq(WireItems) /\ Len(items) = 1 /\ items[1] = <<"plain", <<r, n + 1>>>>
  <2>1. 1 \in 1..Len(chunks)
    BY <1>1
  <2> QED BY <1>1, <2>1, ItemsOf
<1> HIDE DEF items
<1>3. /\ t \in Resp /\ t.status = s.status /\ t.decided = s.decided
      /\ t.passthrough = s.passthrough /\ t.buf = s.buf /\ t.enc = s.enc
      /\ t.coding = s.coding
      /\ s.sent # 0 => t.sent = s.sent /\ t.sentCoding = s.sentCoding
      /\ s.sent = 0 => t.sent = OK /\ t.sentCoding = s.coding
      /\ t.wire = IF BodyAllowed(t.sent) THEN s.wire \o items ELSE s.wire
  BY <1>2, SendSends
<1> HIDE DEF t
<1>4. /\ t.sent # 0
      /\ BodyAllowed(s.sent) <=> BodyAllowed(t.sent)
  BY <1>3 DEF BodyAllowed, OK, NoContent
<1>5. s.wire \in Seq(WireItems)
  BY DEF Resp, WireItems
<1>6. Passing(t, r, n + 1)
  <2>1. CASE BodyAllowed(t.sent)
    <3>1. Len(s.wire) = n /\ \A i \in 1..n : s.wire[i] = <<"plain", <<r, i>>>>
      BY <1>4, <2>1 DEF Passing
    <3>2. /\ t.wire = s.wire \o items /\ Len(t.wire) = n + 1
          /\ \A i \in 1..n : t.wire[i] = s.wire[i]
          /\ t.wire[n + 1] = items[1]
      <4>1. t.wire = s.wire \o items
        BY <1>3, <2>1
      <4>2. 1 \in 1..Len(items)
        BY <1>2
      <4>3. /\ Len(t.wire) = Len(s.wire) + Len(items)
            /\ \A i \in 1..Len(s.wire) : t.wire[i] = s.wire[i]
            /\ t.wire[Len(s.wire) + 1] = items[1]
        <5> DEFINE w == s.wire
        <5>1. w \in Seq(WireItems) /\ Len(w) \in Nat
          BY <1>5
        <5> HIDE DEF w
        <5>2. /\ Len(w \o items) = Len(w) + Len(items)
              /\ \A i \in 1..Len(w) + Len(items) :
                   (w \o items)[i] = IF i <= Len(w) THEN w[i] ELSE items[i - Len(w)]
          BY <1>2, <5>1, ConcatProperties
        <5>3. /\ \A i \in 1..Len(w) : (w \o items)[i] = w[i]
              /\ (w \o items)[Len(w) + 1] = items[1]
          BY <1>2, <5>1, <5>2
        <5> QED BY <4>1, <5>2, <5>3 DEF w
      <4>4. Len(items) = 1 /\ Len(s.wire) = n /\ n \in Nat
        BY <1>2, <3>1
      <4> QED BY <4>1, <4>3, <4>4
    <3>3. \A i \in 1..Len(t.wire) : t.wire[i] = <<"plain", <<r, i>>>>
      BY <1>0, <1>2, <3>1, <3>2
    <3> QED BY <1>3, <1>4, <2>1, <3>2, <3>3 DEF Passing
  <2>2. CASE ~BodyAllowed(t.sent)
    <3>1. Len(s.wire) = 0
      BY <1>4, <2>2 DEF Passing
    <3>2. t.wire = s.wire /\ (s.sent # 0 => t.sent = s.sent)
      BY <1>3, <2>2
    <3> QED BY <1>3, <1>4, <2>2, <3>1, <3>2 DEF Passing
  <2> QED BY <2>1, <2>2
<1>7. t \in Resp /\ t.decided /\ t.status = s.status
  BY <1>3 DEF Passing
<1> QED BY <1>6, <1>7 DEF t, items, chunks

\* What an encoder holds of a response goes out behind what it has put out.
LEMMA DrainEncodes ==
  ASSUME NEW s \in Resp, NEW r \in Responses, NEW n \in 0..MaxChunks,
         NEW held \in Seq(ChunkRefs), Encoding(s, held, r, n)
  PROVE  LET t == Send(s, Encoded(held)) IN
         /\ t \in Resp /\ t.status = s.status /\ t.enc = s.enc
         /\ t.sent # 0 /\ Encoding(t, << >>, r, n)
<1> DEFINE items == Encoded(held)
           t == Send(s, items)
<1>1. /\ items \in Seq(WireItems) /\ Len(items) = Len(held)
      /\ \A i \in 1..Len(held) : items[i] = <<"encoded", held[i]>>
  BY ItemsOf
<1> HIDE DEF items
<1>2. /\ t \in Resp /\ t.status = s.status /\ t.decided = s.decided
      /\ t.accepts = s.accepts /\ t.vary = s.vary
      /\ t.passthrough = s.passthrough /\ t.buf = s.buf /\ t.enc = s.enc
      /\ t.coding = s.coding
      /\ s.sent # 0 => t.sent = s.sent /\ t.sentCoding = s.sentCoding /\ t.sentVary = s.sentVary
      /\ s.sent = 0 => t.sent = OK /\ t.sentCoding = s.coding /\ t.sentVary = s.vary
      /\ t.wire = IF BodyAllowed(t.sent) THEN s.wire \o items ELSE s.wire
  BY <1>1, SendSends
<1> HIDE DEF t
<1>3. BodyAllowed(t.sent) /\ t.sent # 0
  <2>1. BodyAllowed(s.sent)
    BY DEF Encoding
  <2> QED BY <1>2, <2>1 DEF BodyAllowed, OK, NoContent
<1>4. /\ s.wire \in Seq(WireItems) /\ Len(s.wire) \in Nat /\ Len(held) \in Nat
      /\ Len(s.wire) + Len(held) = n
  BY DEF Resp, WireItems, Encoding
<1>5. /\ t.wire = s.wire \o items /\ Len(t.wire) = n
      /\ \A i \in 1..Len(s.wire) : t.wire[i] = s.wire[i]
      /\ \A i \in 1..Len(held) : t.wire[Len(s.wire) + i] = items[i]
  <2> DEFINE w == s.wire
  <2>1. t.wire = w \o items
    BY <1>2, <1>3
  <2>2. w \in Seq(WireItems) /\ Len(w) \in Nat /\ Len(w) + Len(items) = n
    BY <1>1, <1>4
  <2>a. w \in Seq(WireItems) /\ items \in Seq(WireItems)
    BY <1>1, <2>2
  <2> HIDE DEF w
  <2>3. /\ Len(w \o items) = Len(w) + Len(items)
        /\ \A i \in 1..Len(w) + Len(items) :
             (w \o items)[i] = IF i <= Len(w) THEN w[i] ELSE items[i - Len(w)]
    BY <2>a, ConcatProperties
  <2>4. /\ \A i \in 1..Len(w) : (w \o items)[i] = w[i]
        /\ \A i \in 1..Len(held) : (w \o items)[Len(w) + i] = items[i]
    BY <1>1, <1>4, <2>2, <2>3
  <2> QED BY <2>1, <2>2, <2>3, <2>4 DEF w
<1>6. ASSUME NEW i \in 1..Len(t.wire)
      PROVE  t.wire[i] = <<"encoded", <<r, i>>>>
  <2>1. CASE i <= Len(s.wire)
    BY <1>4, <1>5, <2>1 DEF Encoding
  <2>2. CASE i > Len(s.wire)
    <3> DEFINE j == i - Len(s.wire)
    <3>1. j \in 1..Len(held) /\ i = Len(s.wire) + j
      BY <1>4, <1>5, <2>2
    <3>2. items[j] = <<"encoded", held[j]>> /\ held[j] = <<r, Len(s.wire) + j>>
      BY <1>1, <3>1 DEF Encoding
    <3> QED BY <1>5, <3>1, <3>2
  <2> QED BY <1>4, <2>1, <2>2
<1>7. /\ s.decided /\ ~s.passthrough /\ s.enc # NoEncoder /\ s.buf = << >>
      /\ s.coding = "gzip" /\ s.vary /\ s.accepts
      /\ s.sent = 0 => s.status = EarlyHints
      /\ s.sent # 0 => s.sentCoding = "gzip" /\ s.sentVary
      /\ s.sent # 0 /\ s.status # EarlyHints => s.sent = s.status
  BY DEF Encoding
<1>8. /\ t.decided /\ ~t.passthrough /\ t.enc # NoEncoder /\ t.buf = << >>
      /\ t.coding = "gzip" /\ t.vary /\ t.accepts
      /\ t.sentCoding = "gzip" /\ t.sentVary
      /\ t.status # EarlyHints => t.sent = t.status
  BY <1>2, <1>7
<1>9. Len(t.wire) + Len(<< >>) = n
  BY <1>4, <1>5
<1>10. Encoding(t, << >>, r, n)
  BY <1>3, <1>6, <1>8, <1>9 DEF Encoding
<1> QED BY <1>2, <1>3, <1>10 DEF t, items

\* The chunks of a response one by one are all of them.
LEMMA AllPlain ==
  ASSUME NEW wire \in Seq(WireItems), NEW r \in Responses, NEW n \in Nat,
         Len(wire) = n, \A i \in 1..n : wire[i] = <<"plain", <<r, i>>>>
  PROVE  wire = Plain(All(r, n))
<1>1. /\ All(r, n) \in Seq(Responses \X (1..n)) /\ Len(All(r, n)) = n
      /\ \A i \in 1..n : All(r, n)[i] = <<r, i>>
  BY DEF All
<1>2. /\ Plain(All(r, n)) = [i \in 1..n |-> <<"plain", <<r, i>>>>]
  BY <1>1 DEF Plain
<1>3. wire = [i \in 1..n |-> wire[i]]
  OBVIOUS
<1> QED BY <1>2, <1>3

LEMMA AllEncoded ==
  ASSUME NEW wire \in Seq(WireItems), NEW r \in Responses, NEW n \in Nat,
         Len(wire) = n, \A i \in 1..n : wire[i] = <<"encoded", <<r, i>>>>
  PROVE  wire = Encoded(All(r, n))
<1>1. /\ All(r, n) \in Seq(Responses \X (1..n)) /\ Len(All(r, n)) = n
      /\ \A i \in 1..n : All(r, n)[i] = <<r, i>>
  BY DEF All
<1>2. /\ Encoded(All(r, n)) = [i \in 1..n |-> <<"encoded", <<r, i>>>>]
  BY <1>1 DEF Encoded
<1>3. wire = [i \in 1..n |-> wire[i]]
  OBVIOUS
<1> QED BY <1>2, <1>3

\* A response that is passed through is whole at any time.
LEMMA PassingWhole ==
  ASSUME NEW s \in Resp, NEW r \in Responses, NEW n \in 0..MaxChunks,
         Passing(s, r, n)
  PROVE  Whole(s, r, n)
<1>1. s.wire \in Seq(WireItems) /\ n \in Nat
  BY ConstantsAssumption DEF Resp, WireItems
<1>2. s.sentCoding # "gzip"
  BY DEF Passing
<1>3. CASE BodyAllowed(s.sent)
  <2>1. Len(s.wire) = n /\ \A i \in 1..n : s.wire[i] = <<"plain", <<r, i>>>>
    BY <1>3 DEF Passing
  <2>2. s.wire = Plain(All(r, n))
    BY <1>1, <2>1, AllPlain
  <2> QED BY <1>2, <1>3, <2>2 DEF Whole
<1>4. CASE ~BodyAllowed(s.sent)
  <2>1. Len(s.wire) = 0
    BY <1>4 DEF Passing
  <2>2. s.wire = << >>
    BY <1>1, <2>1
  <2> QED BY <1>2, <1>4, <2>2 DEF Whole
<1> QED BY <1>3, <1>4

\* The end of an encoder's stream makes the response whole and gives the
\* encoder up.
LEMMA EndStreamWhole ==
  ASSUME NEW s \in Resp, NEW r \in Responses, NEW n \in 0..MaxChunks,
         encoder[s.enc].pending \in Seq(ChunkRefs),
         Encoding(s, encoder[s.enc].pending, r, n)
  PROVE  LET t == EndStream(s) IN
         /\ t \in Resp /\ t.enc = NoEncoder /\ t.buf = << >> /\ t.sent # 0
         /\ t.status = s.status
         /\ t.status # EarlyHints => t.sent = t.status
         /\ Whole(t, r, n)
<1> DEFINE u == Drain(s, s.enc)
           v == Send(u, EndOfStream)
           t == [v EXCEPT !.enc = NoEncoder]
<1>1. /\ u \in Resp /\ u.status = s.status /\ u.sent # 0
      /\ Encoding(u, << >>, r, n)
  BY DrainEncodes DEF Drain
<1>2. EndOfStream \in Seq(WireItems)
  BY DEF EndOfStream, WireItems
<1>3. EndStream(s) = t
  BY DEF EndStream
<1> HIDE DEF u
<1>4. /\ u.wire \in Seq(WireItems) /\ n \in Nat /\ Len(u.wire) \in Nat
      /\ u.wire \o EndOfStream \in Seq(WireItems)
  BY <1>1, <1>2, ConstantsAssumption, ConcatProperties DEF Resp, WireItems
<1>5. /\ u.vary /\ u.accepts /\ BodyAllowed(u.sent) /\ u.buf = << >>
      /\ u.sentCoding = "gzip" /\ u.sentVary
      /\ u.status # EarlyHints => u.sent = u.status
      /\ Len(u.wire) = n
      /\ \A i \in 1..n : u.wire[i] = <<"encoded", <<r, i>>>>
  BY <1>1, <1>4 DEF Encoding
<1>6. u.wire = Encoded(All(r, n))
  BY <1>4, <1>5, AllEncoded
<1>7. /\ v \in Resp /\ v.status = s.status /\ v.buf = << >> /\ v.accepts = u.accepts
      /\ v.sent = u.sent /\ v.sentCoding = u.sentCoding /\ v.sentVary = u.sentVary
      /\ v.wire = IF BodyAllowed(v.sent) THEN u.wire \o EndOfStream ELSE u.wire
  BY <1>1, <1>2, <1>5, SendSends
<1> HIDE DEF v
<1>8. t \in Resp
  BY <1>7 DEF Resp
<1>9. /\ t.enc = NoEncoder /\ t.buf = << >> /\ t.status = s.status
      /\ t.accepts = u.accepts /\ t.sent = u.sent
      /\ t.sentCoding = "gzip" /\ t.sentVary = u.sentVary
      /\ t.wire = Encoded(All(r, n)) \o EndOfStream
  BY <1>5, <1>6, <1>7 DEF Resp
<1> HIDE DEF t
<1>10. Whole(t, r, n)
  BY <1>5, <1>9 DEF Whole
<1> QED BY <1>1, <1>3, <1>5, <1>8, <1>9, <1>10

\* What a Write, a close, a flush or a hijack begins with decides the response.
LEMMA DecidedMode ==
  ASSUME NEW r \in Responses, NEW n \in 0..MaxChunks, NEW held, NEW chosen,
         resp[r] \in Resp, Mode(resp[r], held, r, n), Kept(resp[r], chosen)
  PROVE  LET t == Decided(r) IN
         /\ t \in Resp /\ t.decided /\ t.enc = resp[r].enc
         /\ \/ Holding(t, r, n)
            \/ Passing(t, r, n)
            \/ t = resp[r] /\ Encoding(t, held, r, n)
         /\ t.status # EarlyHints =>
              t.status = IF chosen = 0 THEN OK ELSE chosen
<1> DEFINE s == resp[r]
           t == Decided(r)
<1>0. s.status \in Statuses /\ 0 \notin Statuses
  BY DEF Resp, Statuses, EarlyHints, OK, NoContent, NotFound
<1>1. CASE Undecided(s, n)
  <2>1. n = 0 /\ ~s.decided /\ s.status = OK /\ s.enc = NoEncoder /\ chosen = 0
    BY <1>1 DEF Undecided, Kept
  <2>2. t = WriteHeader(s, s.status)
    BY <2>1 DEF Decided
  <2>3. Undecided(s, 0)
    BY <1>1, <2>1
  <2>4. /\ t \in Resp /\ t.decided /\ t.status = OK
        /\ Holding(t, r, 0) \/ Passing(t, r, 0)
    BY <1>0, <2>1, <2>2, <2>3, WriteHeaderDecides
  <2>5. t.enc = NoEncoder
    BY <2>4 DEF Holding, Passing
  <2> QED BY <2>1, <2>4, <2>5
<1>2. CASE Holding(s, r, n) \/ Passing(s, r, n) \/ Encoding(s, held, r, n)
  <2>1. s.decided
    BY <1>2 DEF Holding, Passing, Encoding
  <2>2. t = s
    BY <2>1 DEF Decided
  <2>3. s.status # EarlyHints => chosen = s.status /\ chosen # 0
    BY <1>0, <2>1 DEF Kept
  <2> HIDE DEF s, t
  <2>4. t \in Resp /\ t.decided /\ t.enc = s.enc
    BY <2>1, <2>2 DEF s
  <2>5. t.status # EarlyHints => t.status = IF chosen = 0 THEN OK ELSE chosen
    BY <2>2, <2>3
  <2>6. Holding(t, r, n) \/ Passing(t, r, n) \/ (t = s /\ Encoding(t, held, r, n))
    BY <1>2, <2>2
  <2> QED BY <2>4, <2>5, <2>6 DEF s, t
<1> QED BY <1>1, <1>2 DEF Mode

\* A response that holds no encoder can commit to plain at any time.
LEMMA CommitPlainOf ==
  ASSUME NEW s \in Resp, NEW r \in Responses, NEW n \in 0..MaxChunks,
         Undecided(s, n) \/ Holding(s, r, n)
  PROVE  LET t == CommitPlain(s) IN
         /\ t \in Resp /\ t.decided /\ t.status = s.status /\ Passing(t, r, n)
<1>1. /\ ~s.wroteHeader /\ s.enc = NoEncoder /\ s.sent = 0 /\ s.wire = << >>
      /\ s.coding # "gzip" /\ s.sentCoding # "gzip"
  BY DEF Undecided, Holding
<1>2. IsAll(s.buf, r, n) /\ (n # 0 => BodyAllowed(s.status))
  BY DEF Undecided, Holding, IsAll
<1> QED BY <1>1, <1>2, CommitPlainPasses

\* close leaves a response whole, and the status the handler's own.
LEMMA ClosedWhole ==
  ASSUME NEW s \in Resp, NEW r \in Responses, NEW n \in 0..MaxChunks, NEW held,
         Mode(s, held, r, n),
         s.enc # NoEncoder => /\ held = encoder[s.enc].pending
                              /\ held \in Seq(ChunkRefs)
  PROVE  LET t == SendHeader(Closed(s), OK) IN
         /\ Closed(s) \in Resp /\ Closed(s).enc = NoEncoder /\ Closed(s).buf = << >>
         /\ t \in Resp /\ t.enc = NoEncoder /\ t.buf = << >>
         /\ t.sent # 0 /\ t.status = s.status
         /\ t.status # EarlyHints => t.sent = t.status
         /\ Whole(t, r, n)
<1> DEFINE c == Closed(s)
           t == SendHeader(c, OK)
<1>1. CASE Encoding(s, held, r, n)
  <2>1. s.enc # NoEncoder /\ held = encoder[s.enc].pending /\ held \in Seq(ChunkRefs)
    BY <1>1 DEF Encoding
  <2>2. c = EndStream(s)
    BY <2>1 DEF Closed
  <2>3. /\ c \in Resp /\ c.enc = NoEncoder /\ c.buf = << >> /\ c.sent # 0
        /\ c.status = s.status
        /\ c.status # EarlyHints => c.sent = c.status
        /\ Whole(c, r, n)
    BY <1>1, <2>1, <2>2, EndStreamWhole
  <2> HIDE DEF c
  <2>4. t = c
    BY <2>3 DEF SendHeader
  <2> QED BY <2>3, <2>4 DEF c, t
<1>2. CASE ~Encoding(s, held, r, n)
  <2>1. /\ c \in Resp /\ c.status = s.status /\ Passing(c, r, n)
    <3>1. CASE Passing(s, r, n)
      <4>1. s.enc = NoEncoder /\ s.passthrough
        BY <3>1 DEF Passing
      <4>2. c = s
        BY <4>1 DEF Closed
      <4> QED BY <3>1, <4>2
    <3>2. CASE Undecided(s, n) \/ Holding(s, r, n)
      <4>1. s.enc = NoEncoder /\ ~s.passthrough
        BY <3>2 DEF Undecided, Holding
      <4>2. c = CommitPlain(s)
        BY <4>1 DEF Closed
      <4> QED BY <3>2, <4>2, CommitPlainOf
    <3> QED BY <1>2, <3>1, <3>2 DEF Mode
  <2> HIDE DEF c
  <2>2. /\ t \in Resp /\ t.status = c.status /\ t.sent # 0 /\ Passing(t, r, n)
    BY <2>1, SendHeaderPasses
  <2> HIDE DEF t
  <2>3. Whole(t, r, n)
    BY <2>2, PassingWhole
  <2>4. /\ c.enc = NoEncoder /\ c.buf = << >> /\ t.enc = NoEncoder /\ t.buf = << >>
        /\ t.status # EarlyHints => t.sent = t.status
    BY <2>1, <2>2 DEF Passing
  <2> QED BY <2>1, <2>2, <2>3, <2>4 DEF c, t
<1> QED BY <1>1, <1>2

\* Hijack leaves whole what the handler wrote before it.
LEMMA HijackedWhole ==
  ASSUME NEW s \in Resp, NEW r \in Responses, NEW n \in 0..MaxChunks, NEW held,
         Mode(s, held, r, n),
         s.enc # NoEncoder => /\ held = encoder[s.enc].pending
                              /\ held \in Seq(ChunkRefs)
  PROVE  LET t == Hijacked(s) IN
         /\ t \in Resp /\ t.enc = NoEncoder /\ t.buf = << >>
         /\ Whole(t, r, n)
<1> DEFINE c == CASE s.enc # NoEncoder                  -> EndStream(s)
                  [] s.enc = NoEncoder /\ s.buf # << >> -> CommitPlain(s)
                  [] OTHER                              -> s
           t == [c EXCEPT !.passthrough = TRUE]
<1>1. c \in Resp /\ c.enc = NoEncoder /\ c.buf = << >> /\ Whole(c, r, n)
  <2>1. CASE Encoding(s, held, r, n)
    <3>1. s.enc # NoEncoder /\ held = encoder[s.enc].pending /\ held \in Seq(ChunkRefs)
      BY <2>1 DEF Encoding
    <3>2. c = EndStream(s)
      BY <3>1
    <3> HIDE DEF c
    <3> QED BY <2>1, <3>1, <3>2, EndStreamWhole
  <2>2. CASE Passing(s, r, n)
    <3>1. s.enc = NoEncoder /\ s.buf = << >>
      BY <2>2 DEF Passing
    <3>2. c = s
      BY <3>1
    <3> HIDE DEF c
    <3> QED BY <2>2, <3>1, <3>2, PassingWhole
  <2>3. CASE (Undecided(s, n) \/ Holding(s, r, n)) /\ s.buf = << >>
    <3>1. /\ s.enc = NoEncoder /\ s.wire = << >> /\ s.sentCoding # "gzip" /\ s.sent = 0
          /\ n = 0
      BY <2>3 DEF Undecided, Holding, IsAll
    <3>2. c = s
      BY <2>3, <3>1
    <3>3. Plain(All(r, 0)) = << >> /\ BodyAllowed(0)
      BY DEF Plain, All, BodyAllowed, NoContent
    <3> HIDE DEF c
    <3>4. Whole(s, r, n)
      BY <3>1, <3>3 DEF Whole
    <3> QED BY <2>3, <3>1, <3>2, <3>4
  <2>4. CASE (Undecided(s, n) \/ Holding(s, r, n)) /\ s.buf # << >>
    <3>1. s.enc = NoEncoder
      BY <2>4 DEF Undecided, Holding
    <3>2. c = CommitPlain(s)
      BY <2>4, <3>1
    <3> HIDE DEF c
    <3>3. c \in Resp /\ Passing(c, r, n)
      BY <2>4, <3>2, CommitPlainOf
    <3> QED BY <3>3, PassingWhole DEF Passing
  <2> QED BY <2>1, <2>2, <2>3, <2>4 DEF Mode
<1>2. Hijacked(s) = t
  BY DEF Hijacked
<1> HIDE DEF c
<1>3. t \in Resp
  BY <1>1 DEF Resp
<1>4. /\ t.enc = NoEncoder /\ t.buf = << >> /\ t.sent = c.sent /\ t.wire = c.wire
      /\ t.sentCoding = c.sentCoding /\ t.sentVary = c.sentVary /\ t.accepts = c.accepts
  BY <1>1 DEF Resp
<1> HIDE DEF t
<1>5. Whole(t, r, n)
  BY <1>1, <1>4 DEF Whole
<1> QED BY <1>2, <1>3, <1>4, <1>5

-----------------------------------------------------------------------------
(* The steps *)

\* A step of one response keeps the invariant if it leaves that response in
\* order and touches no encoder but its own or one that is nobody's.
LEMMA StepOf ==
  ASSUME IInv, NEW r \in Responses, NEW s \in Resp,
         NEW label \in {"idle", "running", "done", "panicked", "hijacked"},
         NEW n \in 0..MaxChunks, NEW chosen \in Statuses \cup {0},
         resp' = [resp EXCEPT ![r] = s],
         phase' = [phase EXCEPT ![r] = label],
         written' = [written EXCEPT ![r] = n],
         wanted' = [wanted EXCEPT ![r] = chosen],
         encoder' \in [Encoders -> [target: Responses \cup {Discard}, pending: Seq(ChunkRefs)]],
         pool' \in SUBSET Encoders,
         \A e \in Encoders : \/ encoder'[e] = encoder[e]
                             \/ e = resp[r].enc
                             \/ \A q \in Responses : resp[q].enc # e,
         \A e \in pool' : e \in pool \/ e = resp[r].enc,
         \A e \in pool' : encoder'[e] = Detached,
         s.enc # NoEncoder => label = "running" /\ s.enc \notin pool' /\ encoder'[s.enc].target = r,
         ServedAs(s, IF s.enc = NoEncoder THEN << >> ELSE encoder'[s.enc].pending,
                  label, r, n, chosen)
  PROVE  IInv'
<1>1. TypeOK'
  BY DEF IInv, TypeOK
<1>2. /\ resp'[r] = s /\ phase'[r] = label /\ written'[r] = n /\ wanted'[r] = chosen
      /\ \A q \in Responses : q # r =>
           /\ resp'[q] = resp[q] /\ phase'[q] = phase[q]
           /\ written'[q] = written[q] /\ wanted'[q] = wanted[q]
  BY DEF IInv, TypeOK
<1>3. ASSUME NEW q \in Responses, q # r, resp[q].enc # NoEncoder
      PROVE  /\ Running(q) /\ resp[q].enc \notin pool'
             /\ encoder[resp[q].enc].target = q
             /\ encoder'[resp[q].enc] = encoder[resp[q].enc]
  <2>1. /\ Running(q) /\ resp[q].enc \notin pool /\ encoder[resp[q].enc].target = q
        /\ resp[r].enc # NoEncoder => encoder[resp[r].enc].target = r
    BY <1>3 DEF IInv, EncodersExclusive
  <2>2. resp[q].enc \in Encoders
    BY <1>3 DEF IInv, TypeOK, Resp
  <2>3. resp[r].enc # resp[q].enc
    BY <1>3, <2>1
  <2> QED BY <2>1, <2>2, <2>3
<1>4. EncodersExclusive'
  <2>1. ASSUME NEW q \in Responses, resp'[q].enc # NoEncoder
        PROVE  /\ phase'[q] = "running" /\ resp'[q].enc \notin pool'
               /\ encoder'[resp'[q].enc].target = q
    <3>1. CASE q = r
      BY <1>2, <2>1, <3>1
    <3>2. CASE q # r
      BY <1>2, <1>3, <2>1, <3>2 DEF Running
    <3> QED BY <3>1, <3>2
  <2> QED BY <2>1 DEF EncodersExclusive, Running, Detached
<1>5. ASSUME NEW q \in Responses
      PROVE  Served(q)'
  <2>1. CASE q = r
    BY <1>2, <2>1 DEF Served, Pending
  <2>2. CASE q # r
    <3>1. Served(q)
      BY DEF IInv
    <3>2. (IF resp[q].enc = NoEncoder THEN << >> ELSE encoder'[resp[q].enc].pending)
            = Pending(q)
      BY <1>3, <2>2 DEF Pending
    <3> QED BY <1>2, <2>2, <3>1, <3>2 DEF Served, Pending
  <2> QED BY <2>1, <2>2
<1> QED BY <1>1, <1>4, <1>5 DEF IInv

\* What the invariant says of one response.
LEMMA Knows ==
  ASSUME IInv, NEW r \in Responses
  PROVE  /\ resp[r] \in Resp /\ written[r] \in 0..MaxChunks
         /\ wanted[r] \in Statuses \cup {0}
         /\ Running(r) => Mode(resp[r], Pending(r), r, written[r]) /\ Kept(resp[r], wanted[r])
         /\ ~Running(r) => resp[r].enc = NoEncoder /\ resp[r].buf = << >>
         /\ resp[r].enc # NoEncoder =>
              /\ resp[r].enc \in Encoders /\ resp[r].enc \notin pool
              /\ encoder[resp[r].enc] \in [target: {r}, pending: Seq(ChunkRefs)]
              /\ Pending(r) = encoder[resp[r].enc].pending
              /\ Pending(r) \in Seq(ChunkRefs)
         /\ \A q \in Responses : q # r /\ resp[r].enc # NoEncoder => resp[q].enc # resp[r].enc
         /\ encoder \in [Encoders -> [target: Responses \cup {Discard}, pending: Seq(ChunkRefs)]]
         /\ pool \in SUBSET Encoders
         /\ \A e \in pool : encoder[e] = Detached
<1>1. /\ resp[r] \in Resp /\ written[r] \in 0..MaxChunks
      /\ wanted[r] \in Statuses \cup {0}
      /\ encoder \in [Encoders -> [target: Responses \cup {Discard}, pending: Seq(ChunkRefs)]]
      /\ pool \in SUBSET Encoders
  BY DEF IInv, TypeOK
<1>2. /\ Running(r) => Mode(resp[r], Pending(r), r, written[r]) /\ Kept(resp[r], wanted[r])
      /\ ~Running(r) => resp[r].enc = NoEncoder /\ resp[r].buf = << >>
  BY DEF IInv, Served, ServedAs, Running
<1>3. ASSUME resp[r].enc # NoEncoder
      PROVE  /\ resp[r].enc \in Encoders /\ resp[r].enc \notin pool
             /\ encoder[resp[r].enc] \in [target: {r}, pending: Seq(ChunkRefs)]
             /\ Pending(r) = encoder[resp[r].enc].pending
             /\ Pending(r) \in Seq(ChunkRefs)
  <2>1. resp[r].enc \in Encoders
    BY <1>1, <1>3 DEF Resp
  <2>2. resp[r].enc \notin pool /\ encoder[resp[r].enc].target = r
    BY <1>3 DEF IInv, EncodersExclusive
  <2>3. encoder[resp[r].enc] \in [target: Responses \cup {Discard}, pending: Seq(ChunkRefs)]
    BY <1>1, <2>1
  <2>4. encoder[resp[r].enc] \in [target: {r}, pending: Seq(ChunkRefs)]
    BY <2>2, <2>3
  <2> QED BY <1>3, <2>1, <2>2, <2>4 DEF Pending
<1>4. ASSUME NEW q \in Responses, q # r, resp[r].enc # NoEncoder
      PROVE  resp[q].enc # resp[r].enc
  <2>1. /\ encoder[resp[r].enc].target = r
        /\ resp[q].enc # NoEncoder => encoder[resp[q].enc].target = q
    BY <1>4 DEF IInv, EncodersExclusive
  <2> QED BY <1>4, <2>1
<1>5. \A e \in pool : encoder[e] = Detached
  BY DEF IInv, EncodersExclusive
<1> QED BY <1>1, <1>2, <1>3, <1>4, <1>5

\* The maps of the responses a step leaves alone, and those it changes.
LEMMA Mapped ==
  ASSUME IInv, NEW r \in Responses
  PROVE  /\ resp = [resp EXCEPT ![r] = resp[r]]
         /\ phase = [phase EXCEPT ![r] = phase[r]]
         /\ written = [written EXCEPT ![r] = written[r]]
         /\ wanted = [wanted EXCEPT ![r] = wanted[r]]
         /\ phase[r] \in {"idle", "running", "done", "panicked", "hijacked"}
  BY DEF IInv, TypeOK

\* The status a handler chooses is the first final one.
LEMMA Chosen ==
  ASSUME IInv, NEW r \in Responses, NEW code \in Statuses, Choose(r, code)
  PROVE  LET chosen == IF wanted[r] = 0 /\ ~Informational(code) THEN code ELSE wanted[r] IN
         /\ wanted' = [wanted EXCEPT ![r] = chosen]
         /\ chosen \in Statuses \cup {0}
         /\ code # EarlyHints => chosen = IF wanted[r] = 0 THEN code ELSE wanted[r]
<1>1. wanted[r] \in Statuses \cup {0}
  BY Knows
<1>2. code # EarlyHints => ~Informational(code)
  BY DEF Informational, Statuses, EarlyHints, OK, NoContent, NotFound
<1> QED BY <1>1, <1>2 DEF Choose

LEMMA BeginStep ==
  ASSUME IInv, NEW r \in Responses, NEW content \in Contents, NEW accepts \in BOOLEAN,
         Begin(r, content, accepts)
  PROVE  IInv'
<1> DEFINE s == Fresh(content, accepts)
<1>1. s \in Resp
  BY DEF Fresh, Resp, Statuses
<1>2. /\ s.enc = NoEncoder /\ Undecided(s, 0) /\ Kept(s, 0)
  BY DEF Fresh, Undecided, Kept
<1> HIDE DEF s
<1>3. ServedAs(s, IF s.enc = NoEncoder THEN << >> ELSE encoder'[s.enc].pending,
               "running", r, 0, 0)
  BY <1>2 DEF ServedAs, Mode
<1>4. /\ resp' = [resp EXCEPT ![r] = s] /\ phase' = [phase EXCEPT ![r] = "running"]
      /\ written' = [written EXCEPT ![r] = 0] /\ wanted' = [wanted EXCEPT ![r] = 0]
      /\ encoder' = encoder /\ pool' = pool
  BY DEF Begin, Goto, s
<1>5. 0 \in 0..MaxChunks
  BY ConstantsAssumption
<1> QED BY <1>1, <1>2, <1>3, <1>4, <1>5, Knows, StepOf

LEMMA CallWriteHeaderStep ==
  ASSUME IInv, NEW r \in Responses, NEW code \in Statuses, CallWriteHeader(r, code)
  PROVE  IInv'
<1> DEFINE s == WriteHeader(resp[r], code)
           n == written[r]
           chosen == IF wanted[r] = 0 /\ ~Informational(code) THEN code ELSE wanted[r]
<1>1. /\ Running(r) /\ phase[r] = "running" /\ Choose(r, code)
      /\ resp' = [resp EXCEPT ![r] = s]
      /\ phase' = phase /\ written' = written /\ encoder' = encoder /\ pool' = pool
  BY DEF CallWriteHeader, Running
<1>2. /\ resp[r] \in Resp /\ n \in 0..MaxChunks /\ wanted[r] \in Statuses \cup {0}
      /\ Mode(resp[r], Pending(r), r, n) /\ Kept(resp[r], wanted[r])
  BY <1>1, Knows
<1>3. /\ wanted' = [wanted EXCEPT ![r] = chosen] /\ chosen \in Statuses \cup {0}
      /\ code # EarlyHints => chosen = IF wanted[r] = 0 THEN code ELSE wanted[r]
  BY <1>1, Chosen
<1>4. 0 \notin Statuses
  BY DEF Statuses, EarlyHints, OK, NoContent, NotFound
<1>5. /\ s \in Resp /\ s.enc = resp[r].enc
      /\ Mode(s, Pending(r), r, n) /\ Kept(s, chosen)
  <2>1. CASE resp[r].decided
    <3>1. s = resp[r]
      BY <2>1 DEF WriteHeader
    <3>2. s.status # EarlyHints => wanted[r] = s.status /\ wanted[r] # 0
      BY <1>2, <1>4, <2>1, <3>1 DEF Kept, Resp
    <3>3. s.status # EarlyHints => chosen = s.status
      BY <3>2
    <3> QED BY <1>2, <2>1, <3>1, <3>3 DEF Kept
  <2>2. CASE ~resp[r].decided
    <3>1. Undecided(resp[r], n) /\ n = 0
      BY <1>2, <2>2 DEF Mode, Undecided, Holding, Passing, Encoding
    <3>2. /\ s \in Resp /\ s.decided /\ s.status = code
          /\ Holding(s, r, 0) \/ Passing(s, r, 0)
      BY <1>2, <3>1, WriteHeaderDecides
    <3>3. wanted[r] = 0
      BY <1>2, <2>2 DEF Kept
    <3> HIDE DEF s, chosen
    <3>4. Kept(s, chosen)
      BY <1>3, <3>2, <3>3 DEF Kept
    <3>5. s.enc = NoEncoder /\ resp[r].enc = NoEncoder
      BY <3>1, <3>2 DEF Undecided, Holding, Passing
    <3> QED BY <3>1, <3>2, <3>4, <3>5 DEF Mode
  <2> QED BY <2>1, <2>2
<1> HIDE DEF s, n, chosen
<1>6. Pending(r) = IF s.enc = NoEncoder THEN << >> ELSE encoder'[s.enc].pending
  BY <1>1, <1>5 DEF Pending
<1>7. ServedAs(s, IF s.enc = NoEncoder THEN << >> ELSE encoder'[s.enc].pending,
               "running", r, n, chosen)
  BY <1>5, <1>6 DEF ServedAs
<1>8. /\ phase' = [phase EXCEPT ![r] = "running"] /\ written' = [written EXCEPT ![r] = n]
  BY <1>1, Mapped DEF n
<1>9. s.enc # NoEncoder => s.enc \notin pool' /\ encoder'[s.enc].target = r
  BY <1>1, <1>5, Knows
<1>10. /\ encoder' \in [Encoders -> [target: Responses \cup {Discard}, pending: Seq(ChunkRefs)]]
       /\ pool' \in SUBSET Encoders
       /\ \A e \in Encoders : encoder'[e] = encoder[e]
       /\ \A e \in pool' : e \in pool /\ encoder'[e] = Detached
  BY <1>1, Knows
<1>11. /\ s \in Resp /\ n \in 0..MaxChunks /\ chosen \in Statuses \cup {0}
       /\ resp' = [resp EXCEPT ![r] = s]
       /\ wanted' = [wanted EXCEPT ![r] = chosen]
  BY <1>1, <1>2, <1>3, <1>5
<1> QED BY <1>7, <1>8, <1>9, <1>10, <1>11, StepOf

\* What a Write begins with: the response decided, its status the one chosen.
LEMMA WriteOf ==
  ASSUME IInv, NEW r \in Responses, WriteBegins(r)
  PROVE  LET s == Decided(r)
             n == written[r]
             chosen == IF wanted[r] = 0 /\ ~Informational(OK) THEN OK ELSE wanted[r]
         IN  /\ phase' = [phase EXCEPT ![r] = "running"]
             /\ n \in 0..MaxChunks /\ n < MaxChunks /\ n + 1 \in 0..MaxChunks
             /\ n + 1 \in 1..MaxChunks
             /\ written' = [written EXCEPT ![r] = n + 1]
             /\ wanted' = [wanted EXCEPT ![r] = chosen] /\ chosen \in Statuses \cup {0}
             /\ s \in Resp /\ s.decided /\ s.enc = resp[r].enc
             /\ \/ Holding(s, r, n)
                \/ Passing(s, r, n)
                \/ s = resp[r] /\ Encoding(s, Pending(r), r, n)
             /\ s.status # EarlyHints => chosen = s.status
<1> DEFINE s == Decided(r)
           n == written[r]
           chosen == IF wanted[r] = 0 /\ ~Informational(OK) THEN OK ELSE wanted[r]
<1>1. /\ Running(r) /\ n < MaxChunks /\ Choose(r, OK) /\ phase' = phase
      /\ written' = [written EXCEPT ![r] = n + 1]
  BY DEF WriteBegins
<1>2. /\ resp[r] \in Resp /\ n \in 0..MaxChunks /\ wanted[r] \in Statuses \cup {0}
      /\ Mode(resp[r], Pending(r), r, n) /\ Kept(resp[r], wanted[r])
  BY <1>1, Knows
<1>3. OK \in Statuses /\ OK # EarlyHints
  BY DEF Statuses, OK, EarlyHints
<1>4. /\ wanted' = [wanted EXCEPT ![r] = chosen] /\ chosen \in Statuses \cup {0}
      /\ chosen = IF wanted[r] = 0 THEN OK ELSE wanted[r]
  BY <1>1, <1>3, Chosen
<1>5. /\ s \in Resp /\ s.decided /\ s.enc = resp[r].enc
      /\ \/ Holding(s, r, n)
         \/ Passing(s, r, n)
         \/ s = resp[r] /\ Encoding(resp[r], Pending(r), r, n)
      /\ s.status # EarlyHints => s.status = IF wanted[r] = 0 THEN OK ELSE wanted[r]
  BY <1>2, DecidedMode
<1>6. n + 1 \in 0..MaxChunks /\ n + 1 \in 1..MaxChunks
  BY <1>1, <1>2, ConstantsAssumption
<1>7. phase' = [phase EXCEPT ![r] = "running"]
  BY <1>1, Mapped DEF Running
<1> HIDE DEF s, n, chosen
<1>8. /\ Holding(s, r, n) \/ Passing(s, r, n) \/ (s = resp[r] /\ Encoding(s, Pending(r), r, n))
  BY <1>5
<1>9. s.status # EarlyHints => chosen = s.status
  BY <1>4, <1>5
<1> QED BY <1>1, <1>2, <1>4, <1>5, <1>6, <1>7, <1>8, <1>9 DEF s, n, chosen

\* The part of a step on the encoders when it leaves them and the pool alone.
LEMMA EncodersAlone ==
  ASSUME IInv, NEW r \in Responses, encoder' = encoder, pool' = pool
  PROVE  /\ encoder' \in [Encoders -> [target: Responses \cup {Discard}, pending: Seq(ChunkRefs)]]
         /\ pool' \in SUBSET Encoders
         /\ \A e \in Encoders : encoder'[e] = encoder[e]
         /\ \A e \in pool' : e \in pool /\ encoder'[e] = Detached
  BY Knows

LEMMA WritePassesThroughStep ==
  ASSUME IInv, NEW r \in Responses, WritePassesThrough(r)
  PROVE  IInv'
<1> DEFINE s == Decided(r)
           n == written[r]
           chosen == IF wanted[r] = 0 /\ ~Informational(OK) THEN OK ELSE wanted[r]
           t == Send(s, Plain(<< <<r, n + 1>> >>))
<1>1. /\ WriteBegins(r) /\ s.passthrough /\ resp' = [resp EXCEPT ![r] = t]
      /\ encoder' = encoder /\ pool' = pool
  BY DEF WritePassesThrough, Chunk
<1>2. /\ phase' = [phase EXCEPT ![r] = "running"]
      /\ n \in 0..MaxChunks /\ n < MaxChunks /\ n + 1 \in 0..MaxChunks
      /\ written' = [written EXCEPT ![r] = n + 1]
      /\ wanted' = [wanted EXCEPT ![r] = chosen] /\ chosen \in Statuses \cup {0}
      /\ s \in Resp /\ s.decided
      /\ \/ Holding(s, r, n)
         \/ Passing(s, r, n)
         \/ Encoding(s, Pending(r), r, n)
      /\ s.status # EarlyHints => chosen = s.status
  BY <1>1, WriteOf
<1> HIDE DEF s, n, chosen
<1>3. Passing(s, r, n)
  BY <1>1, <1>2 DEF Holding, Encoding
<1>4. /\ t \in Resp /\ t.decided /\ t.status = s.status /\ Passing(t, r, n + 1)
  BY <1>2, <1>3, SendPasses
<1> HIDE DEF t
<1>5. t.enc = NoEncoder
  BY <1>4 DEF Passing
<1>6. Kept(t, chosen)
  BY <1>2, <1>4 DEF Kept
<1>7. ServedAs(t, IF t.enc = NoEncoder THEN << >> ELSE encoder'[t.enc].pending,
               "running", r, n + 1, chosen)
  BY <1>4, <1>6 DEF ServedAs, Mode
<1>8. /\ encoder' \in [Encoders -> [target: Responses \cup {Discard}, pending: Seq(ChunkRefs)]]
      /\ pool' \in SUBSET Encoders
      /\ \A e \in Encoders : encoder'[e] = encoder[e]
      /\ \A e \in pool' : e \in pool /\ encoder'[e] = Detached
  BY <1>1, EncodersAlone
<1>9. resp' = [resp EXCEPT ![r] = t]
  BY <1>1
<1> QED BY <1>2, <1>4, <1>5, <1>7, <1>8, <1>9, StepOf

LEMMA WriteHoldsBackStep ==
  ASSUME IInv, NEW r \in Responses, WriteHoldsBack(r)
  PROVE  IInv'
<1> DEFINE s == Decided(r)
           n == written[r]
           chosen == IF wanted[r] = 0 /\ ~Informational(OK) THEN OK ELSE wanted[r]
           longer == Append(s.buf, <<r, n + 1>>)
           t == [s EXCEPT !.buf = longer]
<1>1. /\ WriteBegins(r) /\ ~s.passthrough /\ resp[r].enc = NoEncoder
      /\ Len(resp[r].buf) + 1 < MinSize
      /\ resp' = [resp EXCEPT ![r] = t]
      /\ encoder' = encoder /\ pool' = pool
  BY DEF WriteHoldsBack, Chunk
<1>2. /\ phase' = [phase EXCEPT ![r] = "running"]
      /\ n \in 0..MaxChunks /\ n < MaxChunks /\ n + 1 \in 0..MaxChunks
      /\ n + 1 \in 1..MaxChunks
      /\ written' = [written EXCEPT ![r] = n + 1]
      /\ wanted' = [wanted EXCEPT ![r] = chosen] /\ chosen \in Statuses \cup {0}
      /\ s \in Resp /\ s.decided /\ s.enc = resp[r].enc
      /\ \/ Holding(s, r, n)
         \/ Passing(s, r, n)
         \/ Encoding(s, Pending(r), r, n)
      /\ s.status # EarlyHints => chosen = s.status
  BY <1>1, WriteOf
<1>3. Holding(s, r, n)
  BY <1>1, <1>2 DEF Passing, Encoding
<1>4. Len(resp[r].buf) = n
  <2>1. Mode(resp[r], Pending(r), r, n)
    BY <1>1, Knows DEF WriteBegins
  <2>2. CASE Undecided(resp[r], n)
    BY <2>2 DEF Undecided
  <2>3. CASE Holding(resp[r], r, n)
    BY <2>3 DEF Holding, IsAll
  <2>4. CASE Passing(resp[r], r, n)
    <3>1. resp[r].decided /\ resp[r].passthrough
      BY <2>4 DEF Passing
    <3>2. s = resp[r]
      BY <3>1 DEF Decided
    <3> QED BY <1>1, <3>1, <3>2
  <2>5. CASE Encoding(resp[r], Pending(r), r, n)
    BY <1>1, <2>5 DEF Encoding
  <2> QED BY <2>1, <2>2, <2>3, <2>4, <2>5 DEF Mode
<1> HIDE DEF s, n, chosen
<1>5. /\ longer \in Seq(ChunkRefs) /\ IsAll(longer, r, n + 1)
  <2>1. <<r, n + 1>> \in ChunkRefs /\ s.buf \in Seq(ChunkRefs) /\ n \in Nat
    BY <1>2, ConstantsAssumption DEF ChunkRefs, Resp
  <2>2. Len(s.buf) = n /\ \A i \in 1..n : s.buf[i] = <<r, i>>
    BY <1>3 DEF Holding, IsAll
  <2>3. /\ longer \in Seq(ChunkRefs) /\ Len(longer) = n + 1
        /\ \A i \in 1..n : longer[i] = s.buf[i]
        /\ longer[n + 1] = <<r, n + 1>>
    BY <2>1, <2>2
  <2> QED BY <2>1, <2>2, <2>3 DEF IsAll
<1> HIDE DEF longer
<1>6. t \in Resp
  BY <1>2, <1>5 DEF Resp
<1>7. /\ t.decided = s.decided /\ t.passthrough = s.passthrough
      /\ t.wroteHeader = s.wroteHeader /\ t.enc = s.enc /\ t.vary = s.vary
      /\ t.accepts = s.accepts /\ t.status = s.status /\ t.sent = s.sent
      /\ t.wire = s.wire /\ t.coding = s.coding /\ t.sentCoding = s.sentCoding
      /\ t.buf = longer
  BY <1>2 DEF Resp
<1> HIDE DEF t
<1>8. Holding(t, r, n + 1)
  <2>1. /\ t.decided /\ ~t.passthrough /\ ~t.wroteHeader /\ t.enc = NoEncoder
        /\ t.vary /\ t.accepts /\ BodyAllowed(t.status)
        /\ t.sent = 0 /\ t.wire = << >>
        /\ t.coding # "gzip" /\ t.sentCoding # "gzip"
    BY <1>3, <1>7 DEF Holding
  <2>2. IsAll(t.buf, r, n + 1) /\ n + 1 < MinSize
    BY <1>1, <1>4, <1>5, <1>7
  <2> QED BY <2>1, <2>2 DEF Holding
<1>9. Kept(t, chosen) /\ t.enc = NoEncoder
  BY <1>2, <1>7, <1>8 DEF Kept, Holding
<1>10. ServedAs(t, IF t.enc = NoEncoder THEN << >> ELSE encoder'[t.enc].pending,
                "running", r, n + 1, chosen)
  BY <1>8, <1>9 DEF ServedAs, Mode
<1>11. /\ encoder' \in [Encoders -> [target: Responses \cup {Discard}, pending: Seq(ChunkRefs)]]
       /\ pool' \in SUBSET Encoders
       /\ \A e \in Encoders : encoder'[e] = encoder[e]
       /\ \A e \in pool' : e \in pool /\ encoder'[e] = Detached
  BY <1>1, EncodersAlone
<1>12. resp' = [resp EXCEPT ![r] = t]
  BY <1>1
<1> QED BY <1>2, <1>6, <1>9, <1>10, <1>11, <1>12, StepOf

LEMMA WriteEncodesStep ==
  ASSUME IInv, NEW r \in Responses, WriteEncodes(r)
  PROVE  IInv'
<1> DEFINE s == resp[r]
           e == s.enc
           n == written[r]
           chosen == IF wanted[r] = 0 /\ ~Informational(OK) THEN OK ELSE wanted[r]
           held == Pending(r)
           longer == Append(held, <<r, n + 1>>)
<1>1. /\ WriteBegins(r) /\ e # NoEncoder
      /\ encoder' = [encoder EXCEPT ![e].pending = Append(@, <<r, n + 1>>)]
      /\ resp' = resp /\ pool' = pool
  BY DEF WriteEncodes, Chunk
<1>2. /\ phase' = [phase EXCEPT ![r] = "running"]
      /\ n \in 0..MaxChunks /\ n < MaxChunks /\ n + 1 \in 0..MaxChunks
      /\ n + 1 \in 1..MaxChunks
      /\ written' = [written EXCEPT ![r] = n + 1]
      /\ wanted' = [wanted EXCEPT ![r] = chosen] /\ chosen \in Statuses \cup {0}
      /\ Decided(r).enc = e
      /\ \/ Holding(Decided(r), r, n)
         \/ Passing(Decided(r), r, n)
         \/ Decided(r) = s /\ Encoding(Decided(r), held, r, n)
      /\ Decided(r).status # EarlyHints => chosen = Decided(r).status
  BY <1>1, WriteOf
<1>3. Encoding(s, held, r, n) /\ (s.status # EarlyHints => chosen = s.status)
  BY <1>1, <1>2 DEF Holding, Passing
<1>4. /\ s \in Resp /\ e \in Encoders /\ e \notin pool
      /\ encoder[e] \in [target: {r}, pending: Seq(ChunkRefs)]
      /\ held = encoder[e].pending /\ held \in Seq(ChunkRefs)
      /\ encoder \in [Encoders -> [target: Responses \cup {Discard}, pending: Seq(ChunkRefs)]]
      /\ pool \in SUBSET Encoders /\ \A f \in pool : encoder[f] = Detached
  BY <1>1, Knows
<1> HIDE DEF s, n, chosen, held
<1>5. longer \in Seq(ChunkRefs)
  <2>1. <<r, n + 1>> \in ChunkRefs
    BY <1>2 DEF ChunkRefs
  <2> QED BY <1>4, <2>1
<1>6. /\ encoder' = [encoder EXCEPT ![e] = [target |-> r, pending |-> longer]]
  <2>1. encoder[e] = [target |-> r, pending |-> held]
    BY <1>4
  <2>2. encoder' = [encoder EXCEPT ![e] = [encoder[e] EXCEPT !.pending = longer]]
    BY <1>1, <1>4
  <2>3. [encoder[e] EXCEPT !.pending = longer] = [target |-> r, pending |-> longer]
    BY <2>1
  <2> QED BY <2>2, <2>3
<1>a. /\ Len(longer) = Len(held) + 1
      /\ \A i \in 1..Len(held) : longer[i] = held[i]
      /\ longer[Len(held) + 1] = <<r, n + 1>>
  BY <1>4
<1> HIDE DEF longer
<1>7. Encoding(s, longer, r, n + 1)
  <2>1. /\ Len(s.wire) \in Nat /\ Len(held) \in Nat /\ n \in Nat
        /\ Len(s.wire) + Len(held) = n
        /\ \A i \in 1..Len(held) : held[i] = <<r, Len(s.wire) + i>>
    BY SMTT(30), <1>2, <1>3, <1>4, ConstantsAssumption DEF Encoding, Resp
  <2>3. Len(s.wire) + Len(longer) = n + 1
    <3> DEFINE a == Len(s.wire)
               b == Len(held)
               c == Len(longer)
    <3>1. a \in Nat /\ b \in Nat /\ n \in Nat /\ a + b = n /\ c = b + 1
      BY <1>a, <2>1
    <3> HIDE DEF a, b, c
    <3>2. a + c = n + 1
      BY <3>1
    <3> QED BY <3>2 DEF a, c
  <2>4. ASSUME NEW i \in 1..Len(longer)
        PROVE  longer[i] = <<r, Len(s.wire) + i>>
    <3>1. CASE i \in 1..Len(held)
      BY <1>a, <2>1, <3>1
    <3>2. CASE i = Len(held) + 1
      <4>1. i = Len(longer)
        BY <1>a, <3>2
      <4>2. Len(s.wire) + i = n + 1
        BY <2>3, <4>1
      <4> QED BY <1>a, <3>2, <4>2
    <3> QED BY <1>a, <2>1, <3>1, <3>2
  <2> QED BY <1>3, <2>3, <2>4 DEF Encoding
<1>8. /\ encoder' \in [Encoders -> [target: Responses \cup {Discard}, pending: Seq(ChunkRefs)]]
      /\ encoder'[e] = [target |-> r, pending |-> longer]
      /\ \A f \in Encoders : f # e => encoder'[f] = encoder[f]
  BY <1>4, <1>5, <1>6
<1>9. Kept(s, chosen)
  BY <1>3 DEF Kept, Encoding
<1> HIDE DEF e
<1>10. e = s.enc /\ e # NoEncoder
  BY <1>1 DEF e
<1>11. ServedAs(s, IF s.enc = NoEncoder THEN << >> ELSE encoder'[s.enc].pending,
                "running", r, n + 1, chosen)
  <2>1. (IF s.enc = NoEncoder THEN << >> ELSE encoder'[s.enc].pending) = longer
    BY <1>8, <1>10
  <2> QED BY <1>7, <1>9, <2>1 DEF ServedAs, Mode
<1>12. /\ s.enc # NoEncoder => s.enc \notin pool' /\ encoder'[s.enc].target = r
       /\ pool' \in SUBSET Encoders
       /\ \A f \in Encoders : encoder'[f] = encoder[f] \/ f = resp[r].enc
       /\ \A f \in pool' : f \in pool /\ encoder'[f] = Detached
  BY <1>1, <1>4, <1>8, <1>10 DEF s
<1>13. resp' = [resp EXCEPT ![r] = s]
  BY <1>1, Mapped DEF s
<1>14. /\ s \in Resp /\ n + 1 \in 0..MaxChunks /\ chosen \in Statuses \cup {0}
       /\ phase' = [phase EXCEPT ![r] = "running"]
       /\ written' = [written EXCEPT ![r] = n + 1]
       /\ wanted' = [wanted EXCEPT ![r] = chosen]
       /\ encoder' \in [Encoders -> [target: Responses \cup {Discard}, pending: Seq(ChunkRefs)]]
  BY <1>2, <1>4, <1>8
<1> QED BY <1>11, <1>12, <1>13, <1>14, StepOf

\* The first encoded write: the headers go out, the buffer into the encoder.
LEMMA CommitEncodedEncodes ==
  ASSUME NEW s \in Resp, NEW r \in Responses, NEW n \in 0..MaxChunks,
         NEW e \in Encoders, NEW held \in Seq(ChunkRefs),
         Holding(s, r, n), IsAll(held, r, n + 1)
  PROVE  LET t == CommitEncoded(s, e) IN
         /\ t \in Resp /\ t.decided /\ t.status = s.status /\ t.enc = e
         /\ Encoding(t, held, r, n + 1)
<1> DEFINE c == [s EXCEPT !.coding = "gzip"]
           h == SendHeader(c, s.status)
           t == [h EXCEPT !.wroteHeader = TRUE, !.enc = e, !.buf = << >>]
<1>1. CommitEncoded(s, e) = t
  <2>1. c.status = s.status
    BY DEF Resp
  <2> QED BY <2>1 DEF CommitEncoded
<1>2. c \in Resp
  BY DEF Resp
<1>3. /\ c.status = s.status /\ c.decided = s.decided /\ c.passthrough = s.passthrough
      /\ c.accepts = s.accepts /\ c.vary = s.vary /\ c.coding = "gzip"
      /\ c.sent = s.sent /\ c.wire = s.wire
  BY DEF Resp
<1> HIDE DEF c
<1>4. /\ s.decided /\ ~s.passthrough /\ s.vary /\ s.accepts
      /\ BodyAllowed(s.status) /\ s.sent = 0 /\ s.wire = << >>
      /\ s.status \in Statuses /\ s.status \in {103, 200, 204, 404}
  BY DEF Holding, Resp, Statuses, EarlyHints, OK, NoContent, NotFound
<1>5. /\ h \in Resp /\ h.status = c.status /\ h.decided = c.decided
      /\ h.passthrough = c.passthrough /\ h.accepts = c.accepts /\ h.vary = c.vary
      /\ h.coding = c.coding /\ h.wire = c.wire
      /\ s.status = EarlyHints => h.sent = 0
      /\ s.status # EarlyHints =>
           h.sent = s.status /\ h.sentCoding = c.coding /\ h.sentVary = c.vary
  <2>1. /\ h \in Resp /\ h.status = c.status /\ h.decided = c.decided
        /\ h.passthrough = c.passthrough /\ h.accepts = c.accepts /\ h.vary = c.vary
        /\ h.coding = c.coding /\ h.wire = c.wire
        /\ s.status < 200 => h = c
        /\ c.sent = 0 /\ ~(s.status < 200) =>
             h.sent = s.status /\ h.sentCoding = c.coding /\ h.sentVary = c.vary
    BY <1>2, <1>4, SendHeaderSends
  <2> HIDE DEF h
  <2>2. c.sent = 0
    BY <1>3, <1>4
  <2>3. CASE s.status = EarlyHints
    BY <2>1, <2>2, <2>3 DEF EarlyHints
  <2>4. CASE s.status # EarlyHints
    <3>1. ~(s.status < 200)
      BY <1>4, <2>4 DEF EarlyHints
    <3> QED BY <2>1, <2>2, <2>4, <3>1
  <2> QED BY <2>3, <2>4
<1> HIDE DEF h
<1>6. t \in Resp
  <2>1. h \in Resp /\ << >> \in Seq(ChunkRefs)
    BY <1>5
  <2> QED BY <2>1 DEF Resp
<1>7. /\ t.status = h.status /\ t.decided = h.decided /\ t.passthrough = h.passthrough
      /\ t.accepts = h.accepts /\ t.vary = h.vary /\ t.coding = h.coding
      /\ t.wire = h.wire /\ t.sent = h.sent /\ t.sentCoding = h.sentCoding
      /\ t.sentVary = h.sentVary /\ t.enc = e /\ t.buf = << >>
  BY <1>5 DEF Resp
<1> HIDE DEF t
<1>8. /\ s.status = EarlyHints => h.sent = 0
      /\ s.status # EarlyHints =>
           h.sent = s.status /\ h.sent # 0 /\ h.sentCoding = "gzip" /\ h.sentVary
  <2>1. s.status # 0 /\ c.vary /\ c.coding = "gzip"
    BY <1>3, <1>4
  <2> QED BY <1>5, <2>1
<1>9. /\ t.decided /\ ~t.passthrough /\ t.enc # NoEncoder /\ t.buf = << >>
      /\ t.coding = "gzip" /\ t.vary /\ t.accepts /\ t.wire = << >>
      /\ t.status = s.status
  BY <1>3, <1>4, <1>5, <1>7, ConstantsAssumption
<1>10. /\ t.sent = 0 => t.status = EarlyHints
       /\ t.sent # 0 => t.sentCoding = "gzip" /\ t.sentVary
       /\ t.sent # 0 /\ t.status # EarlyHints => t.sent = t.status
  BY <1>7, <1>8, <1>9
<1>11. BodyAllowed(t.sent)
  BY <1>4, <1>7, <1>8 DEF BodyAllowed, NoContent
<1>12. n \in Nat /\ Len(<< >>) = 0 /\ Len(held) = n + 1 /\ \A i \in 1..Len(held) : held[i] = <<r, 0 + i>>
  BY ConstantsAssumption DEF IsAll
<1>13. Encoding(t, held, r, n + 1)
  BY <1>9, <1>10, <1>11, <1>12 DEF Encoding
<1> QED BY <1>1, <1>6, <1>7, <1>9, <1>13

LEMMA WriteCommitsStep ==
  ASSUME IInv, NEW r \in Responses, NEW e \in Encoders, WriteCommits(r, e)
  PROVE  IInv'
<1> DEFINE s == Decided(r)
           n == written[r]
           chosen == IF wanted[r] = 0 /\ ~Informational(OK) THEN OK ELSE wanted[r]
           longer == Append(s.buf, <<r, n + 1>>)
           t == CommitEncoded(s, e)
<1>1. /\ WriteBegins(r) /\ ~s.passthrough /\ s.enc = NoEncoder /\ Available(e)
      /\ resp' = [resp EXCEPT ![r] = t]
      /\ encoder' = [encoder EXCEPT ![e] = [target |-> r, pending |-> longer]]
      /\ pool' = pool \ {e}
  BY DEF WriteCommits, Chunk
<1>2. /\ phase' = [phase EXCEPT ![r] = "running"]
      /\ n \in 0..MaxChunks /\ n < MaxChunks /\ n + 1 \in 0..MaxChunks
      /\ n + 1 \in 1..MaxChunks
      /\ written' = [written EXCEPT ![r] = n + 1]
      /\ wanted' = [wanted EXCEPT ![r] = chosen] /\ chosen \in Statuses \cup {0}
      /\ s \in Resp /\ s.decided
      /\ \/ Holding(s, r, n)
         \/ Passing(s, r, n)
         \/ Encoding(s, Pending(r), r, n)
      /\ s.status # EarlyHints => chosen = s.status
  BY <1>1, WriteOf
<1>3. Holding(s, r, n)
  BY <1>1, <1>2 DEF Passing, Encoding
<1>4. \A q \in Responses : resp[q].enc # e
  <2>1. ASSUME NEW q \in Responses, e \in pool
        PROVE  resp[q].enc # e
    <3>1. resp[q].enc # NoEncoder => resp[q].enc \notin pool
      BY Knows
    <3> QED BY <2>1, <3>1, ConstantsAssumption
  <2> QED BY <1>1, <2>1 DEF Available
<1>5. /\ encoder \in [Encoders -> [target: Responses \cup {Discard}, pending: Seq(ChunkRefs)]]
      /\ pool \in SUBSET Encoders /\ \A f \in pool : encoder[f] = Detached
  BY Knows
<1> HIDE DEF s, n, chosen
<1>6. /\ longer \in Seq(ChunkRefs) /\ IsAll(longer, r, n + 1)
  <2>1. <<r, n + 1>> \in ChunkRefs /\ s.buf \in Seq(ChunkRefs) /\ n \in Nat
    BY <1>2, ConstantsAssumption DEF ChunkRefs, Resp
  <2>2. Len(s.buf) = n /\ \A i \in 1..n : s.buf[i] = <<r, i>>
    BY <1>3 DEF Holding, IsAll
  <2>3. /\ longer \in Seq(ChunkRefs) /\ Len(longer) = n + 1
        /\ \A i \in 1..n : longer[i] = s.buf[i]
        /\ longer[n + 1] = <<r, n + 1>>
    BY <2>1, <2>2
  <2> QED BY <2>1, <2>2, <2>3 DEF IsAll
<1> HIDE DEF longer
<1>7. /\ t \in Resp /\ t.decided /\ t.status = s.status /\ t.enc = e
      /\ Encoding(t, longer, r, n + 1)
  BY <1>2, <1>3, <1>6, CommitEncodedEncodes
<1> HIDE DEF t
<1>8. /\ encoder' \in [Encoders -> [target: Responses \cup {Discard}, pending: Seq(ChunkRefs)]]
      /\ encoder'[e] = [target |-> r, pending |-> longer]
      /\ \A f \in Encoders : f # e => encoder'[f] = encoder[f]
  BY <1>1, <1>5, <1>6
<1>9. Kept(t, chosen)
  BY <1>2, <1>7 DEF Kept
<1>10. ServedAs(t, IF t.enc = NoEncoder THEN << >> ELSE encoder'[t.enc].pending,
                "running", r, n + 1, chosen)
  <2>1. (IF t.enc = NoEncoder THEN << >> ELSE encoder'[t.enc].pending) = longer
    BY <1>7, <1>8, ConstantsAssumption
  <2> QED BY <1>7, <1>9, <2>1 DEF ServedAs, Mode
<1>11. /\ t.enc # NoEncoder => t.enc \notin pool' /\ encoder'[t.enc].target = r
       /\ pool' \in SUBSET Encoders
       /\ \A f \in Encoders : encoder'[f] = encoder[f] \/ \A q \in Responses : resp[q].enc # f
       /\ \A f \in pool' : f \in pool /\ encoder'[f] = Detached
  BY <1>1, <1>4, <1>5, <1>7, <1>8
<1>12. resp' = [resp EXCEPT ![r] = t]
  BY <1>1
<1>13. /\ t \in Resp /\ n + 1 \in 0..MaxChunks /\ chosen \in Statuses \cup {0}
       /\ phase' = [phase EXCEPT ![r] = "running"]
       /\ written' = [written EXCEPT ![r] = n + 1]
       /\ wanted' = [wanted EXCEPT ![r] = chosen]
       /\ encoder' \in [Encoders -> [target: Responses \cup {Discard}, pending: Seq(ChunkRefs)]]
  BY <1>2, <1>7, <1>8
<1> QED BY <1>10, <1>11, <1>12, <1>13, StepOf

LEMMA FlushPlainStep ==
  ASSUME IInv, NEW r \in Responses, FlushPlain(r)
  PROVE  IInv' /\ resp'[r].sent # 0 /\ Passing(resp'[r], r, written[r])
<1> DEFINE s == resp[r]
           n == written[r]
           chosen == IF wanted[r] = 0 /\ ~Informational(OK) THEN OK ELSE wanted[r]
           c == IF s.passthrough THEN s ELSE CommitPlain(s)
           t == SendHeader(c, OK)
<1>1. /\ Running(r) /\ s.enc = NoEncoder /\ Choose(r, OK)
      /\ resp' = [resp EXCEPT ![r] = t]
      /\ phase' = phase /\ written' = written /\ encoder' = encoder /\ pool' = pool
  BY DEF FlushPlain
<1>2. /\ s \in Resp /\ n \in 0..MaxChunks /\ wanted[r] \in Statuses \cup {0}
      /\ Mode(s, Pending(r), r, n) /\ Kept(s, wanted[r])
  BY <1>1, Knows
<1>3. OK \in Statuses /\ OK # EarlyHints /\ 0 \notin Statuses
  BY DEF Statuses, EarlyHints, OK, NoContent, NotFound
<1>4. /\ wanted' = [wanted EXCEPT ![r] = chosen] /\ chosen \in Statuses \cup {0}
      /\ chosen = IF wanted[r] = 0 THEN OK ELSE wanted[r]
  BY <1>1, <1>3, Chosen
<1>5. c \in Resp /\ Passing(c, r, n) /\ c.status = s.status
  <2>1. CASE Passing(s, r, n)
    <3>1. s.passthrough
      BY <2>1 DEF Passing
    <3> QED BY <1>2, <2>1, <3>1
  <2>2. CASE Undecided(s, n) \/ Holding(s, r, n)
    <3>1. ~s.passthrough
      BY <2>2 DEF Undecided, Holding
    <3>2. c = CommitPlain(s)
      BY <3>1
    <3> HIDE DEF c
    <3> QED BY <1>2, <2>2, <3>2, CommitPlainOf
  <2> QED BY <1>1, <1>2, <2>1, <2>2 DEF Mode, Encoding
<1>6. s.status # EarlyHints => chosen = s.status
  <2>1. CASE s.decided
    <3>1. s.status # EarlyHints => wanted[r] = s.status /\ wanted[r] # 0
      BY <1>2, <1>3, <2>1 DEF Kept, Resp
    <3> QED BY <1>4, <3>1
  <2>2. CASE ~s.decided
    <3>1. Undecided(s, n)
      BY <1>2, <2>2 DEF Mode, Holding, Passing, Encoding
    <3>2. s.status = OK /\ wanted[r] = 0
      BY <1>2, <2>2, <3>1 DEF Undecided, Kept
    <3> QED BY <1>4, <3>2
  <2> QED BY <2>1, <2>2
<1> HIDE DEF c
<1>7. /\ t \in Resp /\ t.decided /\ t.status = c.status /\ t.sent # 0 /\ Passing(t, r, n)
  BY <1>2, <1>5, SendHeaderPasses
<1> HIDE DEF s, n, chosen, t
<1>8. t.enc = NoEncoder /\ Kept(t, chosen)
  BY <1>5, <1>6, <1>7 DEF Kept, Passing
<1>9. ServedAs(t, IF t.enc = NoEncoder THEN << >> ELSE encoder'[t.enc].pending,
               "running", r, n, chosen)
  BY <1>7, <1>8 DEF ServedAs, Mode
<1>10. /\ encoder' \in [Encoders -> [target: Responses \cup {Discard}, pending: Seq(ChunkRefs)]]
       /\ pool' \in SUBSET Encoders
       /\ \A e \in Encoders : encoder'[e] = encoder[e]
       /\ \A e \in pool' : e \in pool /\ encoder'[e] = Detached
  BY <1>1, EncodersAlone
<1>11. /\ phase' = [phase EXCEPT ![r] = "running"] /\ written' = [written EXCEPT ![r] = n]
  BY <1>1, Mapped DEF n, Running
<1>12. /\ t \in Resp /\ n \in 0..MaxChunks /\ chosen \in Statuses \cup {0}
       /\ resp' = [resp EXCEPT ![r] = t] /\ wanted' = [wanted EXCEPT ![r] = chosen]
  BY <1>1, <1>2, <1>4, <1>7
<1>13. IInv'
  BY <1>8, <1>9, <1>10, <1>11, <1>12, StepOf
<1>14. resp'[r] = t
  <2>1. resp \in [Responses -> Resp]
    BY DEF IInv, TypeOK
  <2> QED BY <1>12, <2>1
<1> QED BY <1>7, <1>13, <1>14 DEF n

LEMMA FlushEncodedStep ==
  ASSUME IInv, NEW r \in Responses, FlushEncoded(r)
  PROVE  IInv' /\ resp'[r].sent # 0 /\ Encoding(resp'[r], << >>, r, written[r])
<1> DEFINE s == resp[r]
           e == s.enc
           n == written[r]
           held == Pending(r)
           t == Drain(s, e)
<1>1. /\ Running(r) /\ e # NoEncoder
      /\ resp' = [resp EXCEPT ![r] = t]
      /\ encoder' = [encoder EXCEPT ![e].pending = << >>]
      /\ phase' = phase /\ written' = written /\ wanted' = wanted /\ pool' = pool
  BY DEF FlushEncoded
<1>2. /\ s \in Resp /\ n \in 0..MaxChunks /\ wanted[r] \in Statuses \cup {0}
      /\ Mode(s, held, r, n) /\ Kept(s, wanted[r])
      /\ e \in Encoders /\ e \notin pool
      /\ encoder[e] \in [target: {r}, pending: Seq(ChunkRefs)]
      /\ held = encoder[e].pending /\ held \in Seq(ChunkRefs)
      /\ encoder \in [Encoders -> [target: Responses \cup {Discard}, pending: Seq(ChunkRefs)]]
      /\ pool \in SUBSET Encoders /\ \A f \in pool : encoder[f] = Detached
  BY <1>1, Knows
<1>3. Encoding(s, held, r, n) /\ s.decided
  BY <1>1, <1>2 DEF Mode, Undecided, Holding, Passing, Encoding
<1>4. t = Send(s, Encoded(held))
  BY <1>2 DEF Drain
<1> HIDE DEF t, s, n, held
<1>5. /\ t \in Resp /\ t.status = s.status /\ t.enc = s.enc
      /\ t.sent # 0 /\ Encoding(t, << >>, r, n)
  BY <1>2, <1>3, <1>4, DrainEncodes
<1>6. Kept(t, wanted[r])
  BY <1>2, <1>3, <1>5 DEF Kept, Encoding
<1>7. /\ encoder' \in [Encoders -> [target: Responses \cup {Discard}, pending: Seq(ChunkRefs)]]
      /\ encoder'[e] = [target |-> r, pending |-> << >>]
      /\ \A f \in Encoders : f # e => encoder'[f] = encoder[f]
  <2>1. encoder[e] = [target |-> r, pending |-> held]
    BY <1>2
  <2>2. [encoder[e] EXCEPT !.pending = << >>] = [target |-> r, pending |-> << >>]
    BY <2>1
  <2>3. encoder' = [encoder EXCEPT ![e] = [target |-> r, pending |-> << >>]]
    BY <1>1, <1>2, <2>2
  <2>4. [target |-> r, pending |-> << >>] \in [target: Responses \cup {Discard}, pending: Seq(ChunkRefs)]
    OBVIOUS
  <2> QED BY <1>2, <2>3, <2>4
<1> HIDE DEF e
<1>8. e = t.enc /\ e # NoEncoder
  BY <1>1, <1>5 DEF e
<1>9. ServedAs(t, IF t.enc = NoEncoder THEN << >> ELSE encoder'[t.enc].pending,
               "running", r, n, wanted[r])
  <2>1. (IF t.enc = NoEncoder THEN << >> ELSE encoder'[t.enc].pending) = << >>
    BY <1>7, <1>8
  <2> QED BY <1>5, <1>6, <2>1 DEF ServedAs, Mode
<1>10. /\ t.enc # NoEncoder => t.enc \notin pool' /\ encoder'[t.enc].target = r
       /\ pool' \in SUBSET Encoders
       /\ \A f \in Encoders : encoder'[f] = encoder[f] \/ f = resp[r].enc
       /\ \A f \in pool' : f \in pool /\ encoder'[f] = Detached
  BY <1>1, <1>2, <1>5, <1>7, <1>8 DEF s
<1>11. /\ phase' = [phase EXCEPT ![r] = "running"] /\ written' = [written EXCEPT ![r] = n]
       /\ wanted' = [wanted EXCEPT ![r] = wanted[r]]
  BY <1>1, Mapped DEF n, Running
<1>12. /\ t \in Resp /\ n \in 0..MaxChunks /\ wanted[r] \in Statuses \cup {0}
       /\ resp' = [resp EXCEPT ![r] = t]
       /\ encoder' \in [Encoders -> [target: Responses \cup {Discard}, pending: Seq(ChunkRefs)]]
  BY <1>1, <1>2, <1>5, <1>7
<1>13. IInv'
  BY <1>9, <1>10, <1>11, <1>12, StepOf
<1>14. resp'[r] = t
  <2>1. resp \in [Responses -> Resp]
    BY DEF IInv, TypeOK
  <2> QED BY <1>12, <2>1
<1> QED BY <1>5, <1>13, <1>14 DEF n

\* release gives the response's encoder back and touches no other.
LEMMA ReleaseOf ==
  ASSUME IInv, NEW r \in Responses, Release(r)
  PROVE  /\ encoder' \in [Encoders -> [target: Responses \cup {Discard}, pending: Seq(ChunkRefs)]]
         /\ pool' \in SUBSET Encoders
         /\ \A e \in Encoders : encoder'[e] = encoder[e] \/ e = resp[r].enc
         /\ \A e \in pool' : e \in pool \/ e = resp[r].enc
         /\ \A e \in pool' : encoder'[e] = Detached
<1>1. CASE resp[r].enc = NoEncoder
  <2>1. encoder' = encoder /\ pool' = pool
    BY <1>1 DEF Release
  <2> QED BY <2>1, EncodersAlone
<1>2. CASE resp[r].enc # NoEncoder
  <2> DEFINE e == resp[r].enc
  <2>1. encoder' = [encoder EXCEPT ![e] = Detached] /\ pool' = pool \cup {e}
    BY <1>2 DEF Release
  <2>2. /\ e \in Encoders /\ pool \in SUBSET Encoders
        /\ encoder \in [Encoders -> [target: Responses \cup {Discard}, pending: Seq(ChunkRefs)]]
        /\ \A f \in pool : encoder[f] = Detached
    BY <1>2, Knows
  <2>3. Detached \in [target: Responses \cup {Discard}, pending: Seq(ChunkRefs)]
    BY DEF Detached
  <2> HIDE DEF e
  <2>4. /\ encoder' \in [Encoders -> [target: Responses \cup {Discard}, pending: Seq(ChunkRefs)]]
        /\ encoder'[e] = Detached /\ \A f \in Encoders : f # e => encoder'[f] = encoder[f]
    BY <2>1, <2>2, <2>3
  <2> QED BY <2>1, <2>2, <2>4 DEF e
<1> QED BY <1>1, <1>2

LEMMA HijackStep ==
  ASSUME IInv, NEW r \in Responses, Hijack(r)
  PROVE  IInv'
<1> DEFINE s == resp[r]
           n == written[r]
           t == Hijacked(s)
<1>1. /\ Running(r) /\ Release(r) /\ resp' = [resp EXCEPT ![r] = t]
      /\ phase' = [phase EXCEPT ![r] = "hijacked"] /\ written' = written /\ wanted' = wanted
  BY DEF Hijack, Goto
<1>2. /\ s \in Resp /\ n \in 0..MaxChunks /\ wanted[r] \in Statuses \cup {0}
      /\ Mode(s, Pending(r), r, n)
      /\ s.enc # NoEncoder => Pending(r) = encoder[s.enc].pending /\ Pending(r) \in Seq(ChunkRefs)
  BY <1>1, Knows
<1> HIDE DEF s, n
<1>3. /\ t \in Resp /\ t.enc = NoEncoder /\ t.buf = << >> /\ Whole(t, r, n)
  BY <1>2, HijackedWhole
<1> HIDE DEF t
<1>4. ServedAs(t, IF t.enc = NoEncoder THEN << >> ELSE encoder'[t.enc].pending,
               "hijacked", r, n, wanted[r])
  BY <1>3 DEF ServedAs
<1>5. /\ encoder' \in [Encoders -> [target: Responses \cup {Discard}, pending: Seq(ChunkRefs)]]
      /\ pool' \in SUBSET Encoders
      /\ \A e \in Encoders : encoder'[e] = encoder[e] \/ e = resp[r].enc
      /\ \A e \in pool' : e \in pool \/ e = resp[r].enc
      /\ \A e \in pool' : encoder'[e] = Detached
  BY <1>1, ReleaseOf
<1>6. /\ written' = [written EXCEPT ![r] = n] /\ wanted' = [wanted EXCEPT ![r] = wanted[r]]
  BY <1>1, Mapped DEF n
<1>7. /\ resp' = [resp EXCEPT ![r] = t] /\ phase' = [phase EXCEPT ![r] = "hijacked"]
      /\ n \in 0..MaxChunks /\ wanted[r] \in Statuses \cup {0}
  BY <1>1, <1>2
<1> QED BY <1>3, <1>4, <1>5, <1>6, <1>7, StepOf

LEMMA ReturnStep ==
  ASSUME IInv, NEW r \in Responses, Return(r)
  PROVE  IInv'
<1> DEFINE s == resp[r]
           n == written[r]
           t == SendHeader(Closed(s), OK)
<1>1. /\ Running(r) /\ Release(r) /\ resp' = [resp EXCEPT ![r] = t]
      /\ phase' = [phase EXCEPT ![r] = "done"] /\ written' = written /\ wanted' = wanted
  BY DEF Return, Goto
<1>2. /\ s \in Resp /\ n \in 0..MaxChunks /\ wanted[r] \in Statuses \cup {0}
      /\ Mode(s, Pending(r), r, n) /\ Kept(s, wanted[r])
      /\ s.enc # NoEncoder => Pending(r) = encoder[s.enc].pending /\ Pending(r) \in Seq(ChunkRefs)
  BY <1>1, Knows
<1> HIDE DEF s, n
<1>3. /\ t \in Resp /\ t.enc = NoEncoder /\ t.buf = << >> /\ t.sent # 0
      /\ t.status = s.status /\ (t.status # EarlyHints => t.sent = t.status)
      /\ Whole(t, r, n)
  BY <1>2, ClosedWhole
<1> HIDE DEF t
<1>4. t.status # EarlyHints /\ wanted[r] # 0 => t.sent = wanted[r]
  BY <1>2, <1>3 DEF Kept
<1>5. ServedAs(t, IF t.enc = NoEncoder THEN << >> ELSE encoder'[t.enc].pending,
               "done", r, n, wanted[r])
  BY <1>3, <1>4 DEF ServedAs
<1>6. /\ encoder' \in [Encoders -> [target: Responses \cup {Discard}, pending: Seq(ChunkRefs)]]
      /\ pool' \in SUBSET Encoders
      /\ \A e \in Encoders : encoder'[e] = encoder[e] \/ e = resp[r].enc
      /\ \A e \in pool' : e \in pool \/ e = resp[r].enc
      /\ \A e \in pool' : encoder'[e] = Detached
  BY <1>1, ReleaseOf
<1>7. /\ written' = [written EXCEPT ![r] = n] /\ wanted' = [wanted EXCEPT ![r] = wanted[r]]
  BY <1>1, Mapped DEF n
<1>8. /\ resp' = [resp EXCEPT ![r] = t] /\ phase' = [phase EXCEPT ![r] = "done"]
      /\ n \in 0..MaxChunks /\ wanted[r] \in Statuses \cup {0}
  BY <1>1, <1>2
<1> QED BY <1>3, <1>5, <1>6, <1>7, <1>8, StepOf

LEMMA PanicStep ==
  ASSUME IInv, NEW r \in Responses, Panic(r)
  PROVE  IInv'
<1> DEFINE s == resp[r]
           n == written[r]
           c == Closed(s)
           u == SendHeader(c, ServerError)
           t == Send(u, Problem)
<1>1. /\ Running(r) /\ Release(r) /\ resp' = [resp EXCEPT ![r] = t]
      /\ phase' = [phase EXCEPT ![r] = "panicked"] /\ written' = written /\ wanted' = wanted
  BY DEF Panic, Goto
<1>2. /\ s \in Resp /\ n \in 0..MaxChunks /\ wanted[r] \in Statuses \cup {0}
      /\ Mode(s, Pending(r), r, n)
      /\ s.enc # NoEncoder => Pending(r) = encoder[s.enc].pending /\ Pending(r) \in Seq(ChunkRefs)
  BY <1>1, Knows
<1> HIDE DEF s, n
<1>3. c \in Resp /\ c.enc = NoEncoder /\ c.buf = << >>
  BY <1>2, ClosedWhole
<1> HIDE DEF c
<1>4. u \in Resp /\ u.enc = NoEncoder /\ u.buf = << >>
  BY <1>3, SendHeaderSends
<1> HIDE DEF u
<1>5. Problem \in Seq(WireItems)
  BY DEF Problem, WireItems
<1>6. t \in Resp /\ t.enc = NoEncoder /\ t.buf = << >>
  BY <1>4, <1>5, SendSends
<1> HIDE DEF t
<1>7. ServedAs(t, IF t.enc = NoEncoder THEN << >> ELSE encoder'[t.enc].pending,
               "panicked", r, n, wanted[r])
  BY <1>6 DEF ServedAs
<1>8. /\ encoder' \in [Encoders -> [target: Responses \cup {Discard}, pending: Seq(ChunkRefs)]]
      /\ pool' \in SUBSET Encoders
      /\ \A e \in Encoders : encoder'[e] = encoder[e] \/ e = resp[r].enc
      /\ \A e \in pool' : e \in pool \/ e = resp[r].enc
      /\ \A e \in pool' : encoder'[e] = Detached
  BY <1>1, ReleaseOf
<1>9. /\ written' = [written EXCEPT ![r] = n] /\ wanted' = [wanted EXCEPT ![r] = wanted[r]]
  BY <1>1, Mapped DEF n
<1>10. /\ resp' = [resp EXCEPT ![r] = t] /\ phase' = [phase EXCEPT ![r] = "panicked"]
       /\ n \in 0..MaxChunks /\ wanted[r] \in Statuses \cup {0}
  BY <1>1, <1>2
<1> QED BY <1>6, <1>7, <1>8, <1>9, <1>10, StepOf

LEMMA HijackedReturnStep ==
  ASSUME IInv, NEW r \in Responses, HijackedReturn(r)
  PROVE  IInv'
<1> DEFINE s == resp[r]
           n == written[r]
<1>1. /\ phase[r] = "hijacked" /\ phase' = [phase EXCEPT ![r] = "idle"]
      /\ resp' = resp /\ written' = written /\ wanted' = wanted
      /\ encoder' = encoder /\ pool' = pool
  BY DEF HijackedReturn, Goto
<1>2. /\ s \in Resp /\ n \in 0..MaxChunks /\ wanted[r] \in Statuses \cup {0}
      /\ s.enc = NoEncoder /\ s.buf = << >>
  BY <1>1, Knows DEF Running
<1>3. /\ resp' = [resp EXCEPT ![r] = s] /\ written' = [written EXCEPT ![r] = n]
      /\ wanted' = [wanted EXCEPT ![r] = wanted[r]]
  BY <1>1, Mapped
<1> HIDE DEF s, n
<1>4. ServedAs(s, IF s.enc = NoEncoder THEN << >> ELSE encoder'[s.enc].pending,
               "idle", r, n, wanted[r])
  BY <1>2 DEF ServedAs
<1>5. /\ encoder' \in [Encoders -> [target: Responses \cup {Discard}, pending: Seq(ChunkRefs)]]
      /\ pool' \in SUBSET Encoders
      /\ \A e \in Encoders : encoder'[e] = encoder[e]
      /\ \A e \in pool' : e \in pool /\ encoder'[e] = Detached
  BY <1>1, EncodersAlone
<1>6. phase' = [phase EXCEPT ![r] = "idle"]
  BY <1>1
<1> QED BY <1>2, <1>3, <1>4, <1>5, <1>6, StepOf

LEMMA PoolDropStep ==
  ASSUME IInv, NEW e \in Encoders, PoolDrop(e)
  PROVE  IInv'
<1>1. /\ pool' = pool \ {e} /\ resp' = resp /\ phase' = phase /\ written' = written
      /\ wanted' = wanted /\ encoder' = encoder
  BY DEF PoolDrop
<1>2. TypeOK'
  BY <1>1 DEF IInv, TypeOK
<1>3. EncodersExclusive'
  BY <1>1 DEF IInv, EncodersExclusive, Running
<1>4. \A r \in Responses : Served(r)'
  BY <1>1 DEF IInv, Served, Pending
<1> QED BY <1>2, <1>3, <1>4 DEF IInv

-----------------------------------------------------------------------------
(* The invariant *)

LEMMA InitIInv == Init => IInv
<1> SUFFICES ASSUME Init PROVE IInv
  OBVIOUS
<1> USE DEF Init
<1>1. Fresh("other", FALSE) \in Resp
  BY DEF Fresh, Resp, Statuses, Contents
<1>2. 0 \in 0..MaxChunks
  BY ConstantsAssumption
<1>3. Detached \in [target: Responses \cup {Discard}, pending: Seq(ChunkRefs)]
  BY DEF Detached
<1>4. TypeOK
  BY <1>1, <1>2, <1>3 DEF TypeOK
<1>5. /\ Fresh("other", FALSE).enc = NoEncoder /\ Fresh("other", FALSE).buf = << >>
  BY DEF Fresh
<1>6. EncodersExclusive
  BY <1>5 DEF EncodersExclusive
<1>7. \A r \in Responses : Served(r)
  BY <1>5 DEF Served, ServedAs
<1> QED BY <1>4, <1>6, <1>7 DEF IInv

LEMMA NextIInv == IInv /\ [Next]_vars => IInv'
<1> SUFFICES ASSUME IInv, [Next]_vars PROVE IInv'
  OBVIOUS
<1>1. CASE UNCHANGED vars
  <2>1. TypeOK' /\ EncodersExclusive'
    BY <1>1 DEF vars, IInv, TypeOK, EncodersExclusive, Running
  <2>2. \A r \in Responses : Served(r)'
    BY <1>1 DEF vars, IInv, Served, Pending
  <2> QED BY <2>1, <2>2 DEF IInv
<1>2. ASSUME NEW r \in Responses,
             \/ \E content \in Contents, accepts \in BOOLEAN : Begin(r, content, accepts)
             \/ \E code \in Statuses : CallWriteHeader(r, code)
             \/ WritePassesThrough(r) \/ WriteEncodes(r) \/ WriteHoldsBack(r)
             \/ \E e \in Encoders : WriteCommits(r, e)
             \/ FlushPlain(r) \/ FlushEncoded(r)
             \/ Hijack(r) \/ HijackedReturn(r) \/ Return(r) \/ Panic(r)
      PROVE  IInv'
  <2>1. ASSUME NEW content \in Contents, NEW accepts \in BOOLEAN, Begin(r, content, accepts)
        PROVE  IInv'
    BY <2>1, BeginStep
  <2>2. ASSUME NEW code \in Statuses, CallWriteHeader(r, code)
        PROVE  IInv'
    BY <2>2, CallWriteHeaderStep
  <2>3. CASE WritePassesThrough(r)
    BY <2>3, WritePassesThroughStep
  <2>4. CASE WriteEncodes(r)
    BY <2>4, WriteEncodesStep
  <2>5. CASE WriteHoldsBack(r)
    BY <2>5, WriteHoldsBackStep
  <2>6. ASSUME NEW e \in Encoders, WriteCommits(r, e)
        PROVE  IInv'
    BY <2>6, WriteCommitsStep
  <2>7. CASE FlushPlain(r)
    BY <2>7, FlushPlainStep
  <2>8. CASE FlushEncoded(r)
    BY <2>8, FlushEncodedStep
  <2>9. CASE Hijack(r)
    BY <2>9, HijackStep
  <2>10. CASE HijackedReturn(r)
    BY <2>10, HijackedReturnStep
  <2>11. CASE Return(r)
    BY <2>11, ReturnStep
  <2>12. CASE Panic(r)
    BY <2>12, PanicStep
  <2> QED BY <1>2, <2>1, <2>2, <2>3, <2>4, <2>5, <2>6, <2>7, <2>8, <2>9, <2>10, <2>11, <2>12
<1>3. ASSUME NEW e \in Encoders, PoolDrop(e)
      PROVE  IInv'
  BY <1>3, PoolDropStep
<1> QED BY <1>1, <1>2, <1>3 DEF Next

LEMMA SpecIInv == Spec => []IInv
BY InitIInv, NextIInv, PTL DEF Spec

-----------------------------------------------------------------------------
(* The properties *)

\* Every variable keeps its type: in particular a response never holds an
\* encoder that is not one, and its status is one a handler may choose.
THEOREM TypeCorrect == Spec => []TypeOK
<1>1. IInv => TypeOK
  BY DEF IInv
<1> QED BY <1>1, SpecIInv, PTL

\* An encoder never serves two responses, and nothing of one response is left
\* in it for the next (putEncoder, writer.go).
THEOREM EncodersOneEach == Spec => []EncodersExclusive
<1>1. IInv => EncodersExclusive
  BY DEF IInv
<1> QED BY <1>1, SpecIInv, PTL

\* What a client decodes of a response that is over is what its handler wrote,
\* whatever the handler's calls and the responses served beside it.
THEOREM BodiesIntact == Spec => []BodyIntact
<1>1. IInv => BodyIntact
  <2> SUFFICES ASSUME IInv, NEW r \in Responses, phase[r] \in {"done", "hijacked"}
               PROVE  /\ resp[r].sentCoding = "gzip" => resp[r].sentVary /\ resp[r].accepts
                      /\ resp[r].wire =
                           CASE ~BodyAllowed(resp[r].sent)  -> << >>
                             [] resp[r].sentCoding = "gzip" -> Encoded(AllOf(r)) \o EndOfStream
                             [] OTHER                       -> Plain(AllOf(r))
    BY DEF BodyIntact
  <2>1. Whole(resp[r], r, written[r])
    BY DEF IInv, Served, ServedAs
  <2>2. All(r, written[r]) = AllOf(r)
    BY DEF All, AllOf
  <2> QED BY <2>1, <2>2 DEF Whole
<1> QED BY <1>1, SpecIInv, PTL

\* What is held back of a body stays under MinSize and is held back only while
\* nothing of the response is out (Write, writer.go).
THEOREM BuffersBounded == Spec => []HeldBack
<1>1. IInv => HeldBack
  <2> SUFFICES ASSUME IInv, NEW r \in Responses, resp[r].buf # << >>
               PROVE  /\ Running(r)
                      /\ Len(resp[r].buf) < MinSize
                      /\ resp[r].sent = 0 /\ resp[r].wire = << >>
                      /\ resp[r].enc = NoEncoder /\ ~resp[r].passthrough
                      /\ resp[r].decided /\ resp[r].vary
    BY DEF HeldBack
  <2>1. Running(r) /\ Mode(resp[r], Pending(r), r, written[r]) /\ resp[r] \in Resp
    BY Knows
  <2>2. Holding(resp[r], r, written[r])
    BY <2>1 DEF Mode, Undecided, Passing, Encoding
  <2>3. Len(resp[r].buf) # 0
    BY <2>1 DEF Resp
  <2> QED BY <2>1, <2>2, <2>3 DEF Holding, IsAll
<1> QED BY <1>1, SpecIInv, PTL

\* A response that is over has its header out, with the status its handler chose
\* (close, writer.go).
THEOREM StatusesSent == Spec => []StatusSent
<1>1. IInv => StatusSent
  BY DEF IInv, StatusSent, Served, ServedAs
<1> QED BY <1>1, SpecIInv, PTL

\* The chunks of r on a wire.
On(wire, r) == {i \in 1..MaxChunks : \E j \in 1..Len(wire) :
                  wire[j] \in {<<"plain", <<r, i>>>>, <<"encoded", <<r, i>>>>}}

\* What has been put on the wire of a response of n chunks is all n of them.
LEMMA DeliveredAll ==
  ASSUME NEW wire, NEW r \in Responses, NEW n \in 0..MaxChunks, NEW kind \in {"plain", "encoded"},
         Len(wire) = n, \A i \in 1..n : wire[i] = <<kind, <<r, i>>>>
  PROVE  On(wire, r) = 1..n
<1>1. n \in Nat /\ MaxChunks \in Nat
  BY ConstantsAssumption
<1>2. ASSUME NEW i \in 1..n
      PROVE  /\ i \in 1..MaxChunks
             /\ \E j \in 1..Len(wire) :
                  wire[j] \in {<<"plain", <<r, i>>>>, <<"encoded", <<r, i>>>>}
  <2>1. i \in 1..MaxChunks /\ i \in 1..Len(wire)
    BY <1>1
  <2>2. wire[i] \in {<<"plain", <<r, i>>>>, <<"encoded", <<r, i>>>>}
    OBVIOUS
  <2> QED BY <2>1, <2>2
<1>3. ASSUME NEW i \in 1..MaxChunks, NEW j \in 1..Len(wire),
             wire[j] \in {<<"plain", <<r, i>>>>, <<"encoded", <<r, i>>>>}
      PROVE  i \in 1..n
  <2>1. wire[j] = <<kind, <<r, j>>>>
    OBVIOUS
  <2>2. i = j
    BY <1>3, <2>1
  <2> QED BY <2>2
<1> QED BY <1>2, <1>3 DEF On

\* A flush puts on the wire all that the handler has written, header first
\* (Flush, writer.go).
THEOREM FlushesDeliver == Spec => FlushDelivers
<1>1. IInv /\ [Next]_vars =>
        [\A r \in Responses : FlushPlain(r) \/ FlushEncoded(r) =>
           /\ resp'[r].sent # 0
           /\ BodyAllowed(resp'[r].sent) => Delivered(r)' = 1..written[r]]_vars
  <2> SUFFICES ASSUME IInv, NEW r \in Responses, FlushPlain(r) \/ FlushEncoded(r)
               PROVE  /\ resp'[r].sent # 0
                      /\ BodyAllowed(resp'[r].sent) => Delivered(r)' = 1..written[r]
    OBVIOUS
  <2> DEFINE n == written[r]
             t == resp'[r]
  <2>1. n \in 0..MaxChunks
    BY Knows
  <2>2. CASE FlushPlain(r)
    <3>1. t.sent # 0 /\ Passing(t, r, n)
      BY <2>2, FlushPlainStep
    <3>2. ASSUME BodyAllowed(t.sent)
          PROVE  Delivered(r)' = 1..n
      <4>1. Len(t.wire) = n /\ \A i \in 1..n : t.wire[i] = <<"plain", <<r, i>>>>
        BY <3>1, <3>2 DEF Passing
      <4>2. On(t.wire, r) = 1..n
        BY <2>1, <4>1, DeliveredAll
      <4> QED BY <4>2 DEF Delivered, On
    <3> QED BY <3>1, <3>2
  <2>3. CASE FlushEncoded(r)
    <3>1. t.sent # 0 /\ Encoding(t, << >>, r, n) /\ IInv'
      BY <2>3, FlushEncodedStep
    <3>2. /\ Len(t.wire) = n /\ \A i \in 1..n : t.wire[i] = <<"encoded", <<r, i>>>>
      <4>1. t \in Resp
        BY <3>1 DEF IInv, TypeOK
      <4>2. Len(t.wire) \in Nat /\ Len(t.wire) + 0 = n
        BY <3>1, <4>1 DEF Encoding, Resp
      <4>3. Len(t.wire) = n
        BY <4>2
      <4> QED BY <3>1, <4>3 DEF Encoding
    <3>3. On(t.wire, r) = 1..n
      BY <2>1, <3>2, DeliveredAll
    <3>4. Delivered(r)' = 1..n
      BY <3>3 DEF Delivered, On
    <3> QED BY <3>1, <3>4
  <2> QED BY <2>2, <2>3
<1> QED BY <1>1, SpecIInv, PTL DEF Spec, FlushDelivers

=============================================================================
