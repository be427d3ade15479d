------------------------------ MODULE ClientStreams ------------------------------
(***************************************************************************)
(* The generated client's streams (clientgen/internal/runtime): the        *)
(* goroutine that encodes a streamed request body into a pipe, the         *)
(* transport that reads the pipe, and the iterators over a streamed        *)
(* response, which are written a second time for the client.               *)
(***************************************************************************)
EXTENDS Wire

-----------------------------------------------------------------------------
(* The iterators, a token at a time *)

\* json.Unmarshal takes a line or record whole: more than one value in it is
\* an error the loop is given.
ClientDecode(record) ==
  CASE Len(record) > 1      -> <<"bad", "">>
    [] Len(record) <= 1 /\ record[1][1] = "cut" -> <<"cut", record[1][2]>>
    [] OTHER                -> <<"value", record[1][2]>>

ClientRecord(it) ==
  IF it.cur = << >> THEN it
  ELSE [it EXCEPT !.out = Append(@, ClientDecode(it.cur)), !.cur = << >>]

\* jsonLineSeq: a Scanner hands out the rest before it reports an error.
ClientLine(it, t) ==
  IF t = Nl THEN ClientRecord(it) ELSE [it EXCEPT !.cur = Append(@, t)]

\* jsonSeqSeq, readJSONSeqRecord: a record goes from one separator to the next.
ClientSeq(it, t) ==
  CASE t = Rs                -> [ClientRecord(it) EXCEPT !.in = TRUE]
    [] t # Rs /\ (t = Nl \/ ~it.in) -> it
    [] OTHER                 -> [it EXCEPT !.cur = Append(@, t)]

\* data's lines are joined by newlines, though not to an empty buffer.
ClientData(data, text) == IF data = << >> /\ text = "" THEN data ELSE Append(data, text)

ClientField(ev, field, text) ==
  CASE field = "data" -> [ev EXCEPT !.data = ClientData(@, text)]
    [] field \in {"id", "event", "retry"} -> [ev EXCEPT ![field] = text]
    [] OTHER -> ev

\* Mutant: the data buffer is not reset with the event.
ClientEventKeepsData(it) ==
  LET d == it.ev.data
      ev == [it.ev EXCEPT !.data = IF Len(d) > 1 /\ Last(d) = "" THEN Front(d) ELSE d]
  IN  IF it.have THEN [it EXCEPT !.out = Append(@, <<"value", ev>>),
                                 !.ev = [NoEvent EXCEPT !.data = ev.data], !.have = FALSE]
      ELSE it

\* flush: one newline is trimmed from the end of the data.
ClientEvent(it) ==
  LET d == it.ev.data
      ev == [it.ev EXCEPT !.data = IF Len(d) > 1 /\ Last(d) = "" THEN Front(d) ELSE d]
  IN  IF it.have THEN [it EXCEPT !.out = Append(@, <<"value", ev>>), !.ev = NoEvent, !.have = FALSE]
      ELSE it

\* sseSeq: a blank line dispatches what has accumulated.
ClientSSE(it, t) ==
  CASE t = Blank          -> ClientEvent(it)
    [] t[2] = "comment"   -> it
    [] OTHER              -> [it EXCEPT !.have = TRUE, !.ev = ClientField(@, t[2], t[3])]

\* The body of the part before ends, whole at a boundary; one that meets the
\* end of the stream fails to read.
ClientBody(it, whole) ==
  IF it.cur = << >> THEN it
  ELSE [it EXCEPT !.cur = << >>,
                  !.out = Append(@, CASE ~whole -> <<"short", it.cur[1][2]>>
                                      [] whole /\ it.cur[1][1] = "cut" -> <<"cut", it.cur[1][2]>>
                                      [] OTHER  -> <<"value", it.cur[1][2]>>)]

\* multipartSeq: a part is yielded at its headers.
ClientPart(it, t) ==
  CASE t[1] = "part" -> [ClientBody(it, TRUE) EXCEPT !.out = Append(@, <<"head", t[2]>>)]
    [] t = Closing   -> [ClientBody(it, TRUE) EXCEPT !.closed = TRUE]
    [] OTHER         -> [it EXCEPT !.cur = Append(@, t)]

\* The iterator an operation returns, by the Content-Type of the response.
ClientNext(it, t) ==
  CASE conf.format = "lines" -> ClientLine(it, t)
    [] conf.format = "rs"    -> ClientSeq(it, t)
    [] conf.format = "sse"   -> ClientSSE(it, t)
    [] OTHER                 -> ClientPart(it, t)

\* The end of the body: what is yielded of the rest, and the error.
ClientRest(it) ==
  CASE it.closed             -> it
    [] conf.format = "lines" -> ClientRecord(it)
    [] conf.format = "rs"    -> IF end = "eof" THEN ClientRecord(it) ELSE it
    [] conf.format = "sse"   -> IF end = "eof" THEN ClientEvent(it) ELSE it
    [] OTHER                 -> ClientBody(it, FALSE)

ClientLast(it) ==
  IF end = "eof" \/ it.closed THEN ClientRest(it)
  ELSE [ClientRest(it) EXCEPT !.out = Append(@, <<"error", "">>)]

-----------------------------------------------------------------------------
(* The body of a request: jsonLinesBody's goroutine and the transport *)

Encoding == Up /\ producer \in {"fresh", "open", "framed"}

\* A write to the pipe returns once its reader has taken the bytes.
PipeTakes == pipe = "open" /\ buffer = << >>

\* Mutant: the separator is written whatever the framing.
ClientFramesAll ==
  /\ Encoding
  /\ producer # "framed"
  /\ Len(sent) < MaxItems
  /\ PipeTakes
  /\ buffer' = <<Rs>>
  /\ producer' = "framed"
  /\ UNCHANGED <<conf, fate, sent, pipe, net, end, iter, twin, reader>>

\* Under the record separator framing the separator is a write of its own.
ClientFrames ==
  /\ Encoding
  /\ conf.format = "rs"
  /\ producer # "framed"
  /\ Len(sent) < MaxItems
  /\ PipeTakes
  /\ buffer' = <<Rs>>
  /\ producer' = "framed"
  /\ UNCHANGED <<conf, fate, sent, pipe, net, end, iter, twin, reader>>

\* The encoder writes a value and its newline.
ClientEncodes(v) ==
  /\ Encoding
  /\ conf.format = "rs" <=> producer = "framed"
  /\ Len(sent) < MaxItems
  /\ PipeTakes
  /\ buffer' = << <<"item", v, "">>, Nl>>
  /\ producer' = "open"
  /\ sent' = Append(sent, v)
  /\ UNCHANGED <<conf, fate, pipe, net, end, iter, twin, reader>>

\* Mutant: a failure closes the pipe as the end of the sequence does.
ClientFailsClosed ==
  /\ Encoding
  /\ PipeTakes
  /\ pipe' = "eof"
  /\ fate' = "failed"
  /\ producer' = "gone"
  /\ UNCHANGED <<conf, sent, buffer, net, end, iter, twin, reader>>

\* The sequence yields an error, or a value does not encode: the pipe is
\* closed with the error.
ClientFails ==
  /\ Encoding
  /\ PipeTakes
  /\ pipe' = "error"
  /\ fate' = "failed"
  /\ producer' = "gone"
  /\ UNCHANGED <<conf, sent, buffer, net, end, iter, twin, reader>>

ClientEnds ==
  /\ Encoding
  /\ producer # "framed"
  /\ PipeTakes
  /\ pipe' = "eof"
  /\ fate' = "whole"
  /\ producer' = "gone"
  /\ UNCHANGED <<conf, sent, buffer, net, end, iter, twin, reader>>

\* Mutant: the error of a write is dropped, and the loop goes on.
ClientWriteIgnored ==
  /\ Encoding
  /\ pipe = "closed"
  /\ fate' = "failed"
  /\ UNCHANGED <<conf, producer, sent, buffer, pipe, net, end, iter, twin, reader>>

\* A write to a pipe its reader has closed fails, and the goroutine returns.
ClientWriteFails ==
  /\ Encoding
  /\ pipe = "closed"
  /\ producer' = "gone"
  /\ fate' = "failed"
  /\ UNCHANGED <<conf, sent, buffer, pipe, net, end, iter, twin, reader>>

\* newRequest returns an error of a hook, or of the URL: nobody ever reads the
\* pipe the goroutine writes to.
HookFails ==
  /\ Up
  /\ producer = "fresh"
  /\ fate = ""
  /\ end = "open" /\ reader = "reading"
  /\ fate' = "hooked"
  /\ reader' = "stopped"
  /\ UNCHANGED <<conf, producer, sent, buffer, pipe, net, end, iter, twin>>

\* The transport copies the pipe to the connection.
TransportCopies ==
  /\ Up
  /\ fate # "hooked"
  /\ buffer # << >>
  /\ end = "open"
  /\ Len(net) < Window
  /\ net' = net \o buffer
  /\ buffer' = << >>
  /\ UNCHANGED <<conf, producer, fate, sent, pipe, end, iter, twin, reader>>

\* The end of the pipe ends the body, an error breaks the connection.
TransportEnds ==
  /\ Up
  /\ pipe \in {"eof", "error"}
  /\ end = "open"
  /\ end' = pipe
  /\ UNCHANGED <<conf, producer, fate, sent, buffer, pipe, net, iter, twin, reader>>

\* A transport that has lost its connection closes the body.
TransportCloses ==
  /\ Up
  /\ fate # "hooked"
  /\ pipe = "open"
  /\ end = "error"
  /\ pipe' = "closed"
  /\ buffer' = << >>
  /\ UNCHANGED <<conf, producer, fate, sent, net, end, iter, twin, reader>>

Goroutine ==
  ClientFrames \/ (\E v \in Items : ClientEncodes(v)) \/ ClientFails \/ ClientEnds \/ ClientWriteFails

Transport == TransportCopies \/ TransportEnds \/ TransportCloses

=============================================================================
