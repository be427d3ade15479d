------------------------------ MODULE ServerStreams ------------------------------
(***************************************************************************)
(* The server's streams: StreamWriter, SSEWriter and MultipartWriter       *)
(* (router/stream.go) with the panic handling of Recover, and the          *)
(* iterators a handler is given for a streamed body (router/bind.go).      *)
(***************************************************************************)
EXTENDS Wire

-----------------------------------------------------------------------------
(* The iterators, a token at a time *)

\* A line or record: a value, cut or not; none of an empty one.  A decoder
\* reads the first JSON value and no further.
ServerDecode(record) ==
  IF record[1][1] = "cut" THEN <<"cut", record[1][2]>> ELSE <<"value", record[1][2]>>

ServerRecord(it) ==
  IF it.cur = << >> THEN it
  ELSE [it EXCEPT !.out = Append(@, ServerDecode(it.cur)), !.cur = << >>]

\* jsonlIterator: a Scanner hands out the rest before it reports an error.
ServerLine(it, t) ==
  IF t = Nl THEN ServerRecord(it) ELSE [it EXCEPT !.cur = Append(@, t)]

\* jsonSeqIterator, readJSONSeqRecord: a record goes from one separator to the next.
ServerSeq(it, t) ==
  CASE t = Rs                -> [ServerRecord(it) EXCEPT !.in = TRUE]
    [] t # Rs /\ (t = Nl \/ ~it.in) -> it
    [] OTHER                 -> [it EXCEPT !.cur = Append(@, t)]

\* data's lines are joined by newlines, though not to an empty buffer.
ServerData(data, text) == IF data = << >> /\ text = "" THEN data ELSE Append(data, text)

ServerField(ev, field, text) ==
  CASE field = "data" -> [ev EXCEPT !.data = ServerData(@, text)]
    [] field \in {"id", "event", "retry"} -> [ev EXCEPT ![field] = text]
    [] OTHER -> ev

\* flush: one newline is trimmed from the end of the data.
ServerEvent(it) ==
  LET d == it.ev.data
      ev == [it.ev EXCEPT !.data = IF Len(d) > 1 /\ Last(d) = "" THEN Front(d) ELSE d]
  IN  IF it.have THEN [it EXCEPT !.out = Append(@, <<"value", ev>>), !.ev = NoEvent, !.have = FALSE]
      ELSE it

\* sseIterator: a blank line dispatches what has accumulated.
ServerSSE(it, t) ==
  CASE t = Blank          -> ServerEvent(it)
    [] t[2] = "comment"   -> it
    [] OTHER              -> [it EXCEPT !.have = TRUE, !.ev = ServerField(@, t[2], t[3])]

\* The body of the part before ends, whole at a boundary; one that meets the
\* end of the stream fails to read.
ServerBody(it, whole) ==
  IF it.cur = << >> THEN it
  ELSE [it EXCEPT !.cur = << >>,
                  !.out = Append(@, CASE ~whole -> <<"short", it.cur[1][2]>>
                                      [] whole /\ it.cur[1][1] = "cut" -> <<"cut", it.cur[1][2]>>
                                      [] OTHER  -> <<"value", it.cur[1][2]>>)]

\* multipartIterator: a part is yielded at its headers.
ServerPart(it, t) ==
  CASE t[1] = "part" -> [ServerBody(it, TRUE) EXCEPT !.out = Append(@, <<"head", t[2]>>)]
    [] t = Closing   -> [ServerBody(it, TRUE) EXCEPT !.closed = TRUE]
    [] OTHER         -> [it EXCEPT !.cur = Append(@, t)]

\* The iterator of a body, by its Content-Type.
ServerNext(it, t) ==
  CASE conf.format = "lines" -> ServerLine(it, t)
    [] conf.format = "rs"    -> ServerSeq(it, t)
    [] conf.format = "sse"   -> ServerSSE(it, t)
    [] OTHER                 -> ServerPart(it, t)

\* Mutant: a record that an error cut short is decoded.
ServerRestAlways(it) ==
  CASE it.closed                      -> it
    [] conf.format \in {"lines", "rs"} -> ServerRecord(it)
    [] conf.format = "sse"            -> IF end = "eof" THEN ServerEvent(it) ELSE it
    [] OTHER                          -> ServerBody(it, FALSE)

\* The end of the body: what is yielded of the rest, and the error.
ServerRest(it) ==
  CASE it.closed             -> it
    [] conf.format = "lines" -> ServerRecord(it)
    [] conf.format = "rs"    -> IF end = "eof" THEN ServerRecord(it) ELSE it
    [] conf.format = "sse"   -> IF end = "eof" THEN ServerEvent(it) ELSE it
    [] OTHER                 -> ServerBody(it, FALSE)

ServerLast(it) ==
  IF end = "eof" \/ it.closed THEN ServerRest(it)
  ELSE [ServerRest(it) EXCEPT !.out = Append(@, <<"error", "">>)]

-----------------------------------------------------------------------------
(* The writers *)

SSELines(field, texts) == [k \in DOMAIN texts |-> <<"line", field, texts[k]>>]

\* SSEWriter.Send: a comment's newlines make it several comment lines.
SSEFrame(ev) ==
  SSELines("comment", ev.comment) \o SSELines("id", ev.id) \o SSELines("event", ev.event)
  \o SSELines("retry", ev.retry) \o SSELines("data", ev.data) \o <<Blank>>

Frame(v) ==
  CASE conf.format = "lines" -> << <<"item", v, "">>, Nl>>
    [] conf.format = "rs"    -> <<Rs, <<"item", v, "">>, Nl>>
    [] conf.format = "sse"   -> SSEFrame(v)
    [] OTHER                 -> << <<"part", v, "">>, <<"item", v, "">> >>

Handling == Down /\ producer \in {"fresh", "open", "closed"}
Writing == Handling /\ producer # "closed"

\* Bytes a writer writes, and its flush when the connection has one.
WriteOut(tokens, flushes) ==
  IF conf.flusher /\ flushes
  THEN net' = OnNet(buffer \o tokens) /\ buffer' = << >>
  ELSE net' = net /\ buffer' = buffer \o tokens

\* Mutant: Send leaves the flush to Flush and Close.
ServerSendUnflushed(v) ==
  /\ Writing
  /\ Len(sent) < MaxItems
  /\ Len(net) < Window
  /\ WriteOut(Frame(v), FALSE)
  /\ producer' = "open"
  /\ sent' = Append(sent, v)
  /\ UNCHANGED <<conf, fate, pipe, end, iter, twin, reader>>

\* Send and Part: headers on the first call, one frame, a flush.  Send blocks
\* while the connection takes no more.  After a break it may succeed still.
ServerSend(v) ==
  /\ Writing
  /\ Len(sent) < MaxItems
  /\ Len(net) < Window
  /\ WriteOut(Frame(v), TRUE)
  /\ producer' = "open"
  /\ sent' = Append(sent, v)
  /\ UNCHANGED <<conf, fate, pipe, end, iter, twin, reader>>

\* A first Send whose value does not encode: an error, but the headers are out.
ServerSendFails ==
  /\ Down
  /\ producer = "fresh"
  /\ producer' = "open"
  /\ UNCHANGED <<conf, fate, sent, buffer, pipe, net, end, iter, twin, reader>>

\* Part whose body fails while it is copied: its beginning is written, and a
\* handler that goes on or defers Close writes the next boundary after it.
ServerPartFails(v) ==
  /\ Writing
  /\ conf.format = "multipart"
  /\ fate = ""
  /\ WriteOut(<< <<"part", v, "">>, <<"cut", v, "">> >>, FALSE)
  /\ producer' = "open"
  /\ fate' = "failed"
  /\ UNCHANGED <<conf, sent, pipe, end, iter, twin, reader>>

ServerFlush ==
  /\ Writing
  /\ buffer # << >>
  /\ WriteOut(<< >>, TRUE)
  /\ UNCHANGED <<conf, producer, fate, sent, pipe, end, iter, twin, reader>>

\* Close: only the multipart writer has something left to write, and starts
\* the response if nobody did; the others leave a response nobody started.
ServerClose ==
  /\ Writing
  /\ producer = "open" \/ conf.format = "multipart"
  /\ WriteOut(IF conf.format = "multipart" THEN <<Closing>> ELSE << >>, TRUE)
  /\ producer' = "closed"
  /\ UNCHANGED <<conf, fate, sent, pipe, end, iter, twin, reader>>

\* net/http hands its buffer on when it is full.
Spill ==
  /\ Down
  /\ buffer # << >>
  /\ Len(net) < Window
  /\ net' = OnNet(buffer)
  /\ buffer' = << >>
  /\ UNCHANGED <<conf, producer, fate, sent, pipe, end, iter, twin, reader>>

\* The handler returns: net/http sends the rest and ends the body.
Respond(tokens) ==
  /\ producer' = "gone"
  /\ net' = OnNet(buffer \o tokens)
  /\ buffer' = << >>
  /\ end' = IF end = "open" THEN "eof" ELSE end
  /\ UNCHANGED <<conf, sent, pipe, iter, twin, reader>>

ServerReturns ==
  /\ Handling
  /\ producer # "fresh"
  /\ fate' = IF fate = "" THEN "whole" ELSE fate
  /\ Respond(<< >>)

\* The handler panics once it has begun to write.  Recover writes a status
\* that comes too late and a body that does not, and the response ends as any
\* other; a deferred Close has come first.
ServerPanics ==
  /\ Handling
  /\ producer # "fresh"
  /\ fate' = "panicked"
  /\ Respond(IF conf.format = "sse" THEN << <<"line", "problem", "">> >> ELSE <<Problem, Nl>>)

\* http.ErrAbortHandler, and any panic where no Recover is: the connection is
\* closed without the end of the body.
ServerAborts ==
  /\ Handling
  /\ producer # "fresh"
  /\ producer' = "gone"
  /\ fate' = "failed"
  /\ buffer' = << >>
  /\ end' = IF end = "open" THEN "error" ELSE end
  /\ UNCHANGED <<conf, sent, pipe, net, iter, twin, reader>>

ServerWrites ==
  \/ \E v \in Values : ServerSend(v)
  \/ ServerSendFails \/ ServerFlush \/ ServerClose \/ Spill
  \/ \E v \in Items : ServerPartFails(v)

ServerEnds == ServerReturns \/ ServerPanics \/ ServerAborts

=============================================================================
