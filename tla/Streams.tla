--------------------------------- MODULE Streams ---------------------------------
(***************************************************************************)
(* Both ends of a stream: a handler's writer and the client's iterator, or *)
(* the client's goroutine and the handler's iterator.                      *)
(***************************************************************************)
EXTENDS ServerStreams, ClientStreams

Read ==
  IF Down
  THEN \/ net # << >> /\ Take(ClientNext(iter, Head(net)), ServerNext(twin, Head(net)))
       \/ Finish(ClientLast(iter), ServerLast(twin))
  ELSE \/ net # << >> /\ Take(ServerNext(iter, Head(net)), ClientNext(twin, Head(net)))
       \/ Finish(ServerLast(iter), ClientLast(twin))

Next == ServerWrites \/ ServerEnds \/ Goroutine \/ HookFails \/ Transport \/ Read \/ Stop \/ Cut

\* The loops over an iterator go on, the transport works as net/http's does,
\* and a sequence yields or ends.  Nothing makes a handler write, return or
\* break off.
Spec == Init /\ [][Next]_vars /\ WF_vars(Read) /\ WF_vars(Transport) /\ WF_vars(Goroutine)

-----------------------------------------------------------------------------
(* Properties *)

LastLine(lines) == IF lines = << >> THEN "" ELSE Last(lines)

\* The lines of a text that is read: of none, or of the empty one, the text is
\* the same.
Text(lines) == IF lines = <<"">> THEN << >> ELSE lines

\* A text that begins or ends with a newline.
NewlineAtEdge(lines) == Len(lines) > 1 /\ (Head(lines) = "" \/ Last(lines) = "")

\* got are lines but for empty ones at the edges.
ButForNewlines(lines, got) ==
  \E first \in 1..Len(lines) + 1, last \in 0..Len(lines) :
    /\ got = SubSeq(lines, first, last)
    /\ \A k \in 1..Len(lines) : k \notin first..last => lines[k] = ""

\* The value v has arrived as got: as it was sent, an event without its comment.
\* A field of an event that was given several lines arrives as its last one,
\* and of newlines at the edges of its data some may be lost.
ArrivedAs(v, got) ==
  IF conf.format # "sse" THEN got = v
  ELSE /\ got.id = LastLine(v.id) /\ got.event = LastLine(v.event) /\ got.retry = LastLine(v.retry)
       /\ IF NewlineAtEdge(v.data) THEN ButForNewlines(v.data, got.data)
          ELSE got.data = Text(v.data)

yields == iter.out

OfKind(kind) == {k \in DOMAIN yields : yields[k][1] = kind}

\* The values among what an iterator has yielded.
ValuesOf(out) ==
  LET first[n \in 0..Len(out)] ==
        IF n = 0 THEN << >>
        ELSE IF out[n][1] = "value" THEN Append(first[n - 1], out[n][2]) ELSE first[n - 1]
  IN  first[Len(out)]

Got == ValuesOf(yields)

\* The values yielded are the first that were sent, in their order.
InTurn == Len(Got) <= Len(sent) /\ \A k \in DOMAIN Got : ArrivedAs(sent[k], Got[k])

\* The state of the two ends and of the connection.
TypeOK ==
  /\ producer \in {"fresh", "open", "framed", "closed", "gone"}
  /\ fate \in {"", "whole", "failed", "panicked", "hooked"}
  /\ sent \in Seq(Values)
  /\ producer = "framed" => conf.format = "rs"
  /\ pipe \in {"open", "eof", "error", "closed"}
  /\ end \in {"open", "eof", "error"}
  /\ iter.closed => conf.format = "multipart"
  /\ \A k \in DOMAIN yields : yields[k][1] \in {"value", "cut", "bad", "head", "short", "error"}
  /\ reader \in {"reading", "stopped", "done"}

\* What an iterator yields are the values that were sent, in their order,
\* none twice and none made up.  An event's data is the text that was sent, but
\* newlines at its edges may be lost: streaming.md:62 says it is written
\* verbatim and streaming.md:77 that data lines are combined per the spec, yet
\* the decoders drop those it begins with and one at its end (bind.go:544, 569,
\* runtime.go:662, 687).  An id or a type of several lines is its last line.  A value cut in two is
\* yielded only just before the error, save for a part whose source failed; an
\* undecodable one never; an error ends the stream (bind.go:430,
\* runtime.go:538).  A panic in a handler that Recover catches is excepted (see
\* PanicClosesStream).
Faithful ==
  fate # "panicked" =>
    /\ InTurn
    /\ OfKind("bad") = {}
    /\ iter.closed => conf.format = "multipart"
    /\ \A k \in DOMAIN yields :
         /\ yields[k][1] = "error" => k = Len(yields)
         /\ yields[k][1] = "cut" /\ fate # "failed" /\ k < Len(yields) => yields[k + 1][1] = "error"

\* An iteration that ends without an error, and was not broken off, has been
\* given every value sent, as Faithful says they arrive, and its writer has got
\* to its end, or has written a multipart stream's last boundary: a sequence
\* that failed, an aborted handler or a lost connection never look like the
\* end of the stream.  A handler that leaves a multipart writer open, or a part
\* half copied, is excepted (runtime.go:500, stream.go:418).
CleanEndIsWhole ==
  /\ reader = "done"
  /\ fate # "panicked"
  /\ OfKind("error") = {}
  /\ conf.format = "multipart" => OfKind("short") = {} /\ fate # "failed"
  => /\ InTurn /\ Len(Got) = Len(sent)
     /\ (fate = "whole" \/ conf.format = "multipart")

\* The router's iterators and the runtime's are two copies of one decoder:
\* whatever is read they yield the same, save for the record a panic has
\* spoilt (bind.go:430, runtime.go:538).
DecodersAgree == fate # "panicked" => iter = twin

\* The goroutine that encodes a request body ends: with its sequence, or when
\* the server stops reading or the connection breaks while it is blocked in
\* the pipe; save where no request is sent (runtime.go:500).
ProducerEnds == [](Up /\ fate # "hooked" => <>(producer = "gone" \/ fate = "hooked"))

\* Where the connection can be flushed, a value is yielded once Send has
\* returned, without a further call of the handler: a part at its headers, and
\* under the record separator framing all but the last, whose end the reader
\* sees only with the next (stream.go:130, runtime.go:566).
Prompt ==
  \A n \in 1..MaxItems :
    [](Down /\ conf.flusher /\ Len(sent) >= n =>
       <>(\/ Cardinality(OfKind(IF conf.format = "multipart" THEN "head" ELSE "value"))
               >= (IF conf.format = "rs" THEN n - 1 ELSE n)
          \/ reader # "reading" \/ end = "error" \/ fate = "panicked"))

\* Recover's comment says of a panic in a streaming handler that the connection
\* will simply close mid-stream: the reader is not told that the stream has
\* ended as it should.
PanicClosesStream ==
  fate = "panicked" /\ reader = "done" => OfKind("error") # {}

=============================================================================
