---------------------------- MODULE CompressWriter ----------------------------
(***************************************************************************)
(* compress: the responseWriter that puts off its headers until it knows   *)
(* whether the body is worth compressing, and the pool of encoders that    *)
(* concurrent responses share.                                             *)
(*                                                                         *)
(* A handler's calls on its writer run on one goroutine, so each method is *)
(* one step; responses interleave and meet in the encoder pool.  Chunk i   *)
(* that handler r writes is <<r, i>> and counts one towards MinSize.  The  *)
(* net/http connection under the writer is part of the response: the first *)
(* final status sent fixes the headers, a body byte or a flush before that *)
(* sends 200, and a status without a body drops what is written.           *)
(***************************************************************************)
EXTENDS Integers, Sequences

CONSTANTS
  Responses,   \* responses served at the same time
  Encoders,    \* gzip writers, all of one encoding and level
  NoEncoder,
  Discard,     \* io.Discard, where a pooled encoder writes
  MinSize,     \* Options.MinSize: chunks held back before compressing
  MaxChunks    \* bound: chunks a handler writes

ASSUME ConstantsAssumption ==
  /\ MinSize \in Int
  /\ MaxChunks \in Nat
  /\ NoEncoder \notin Encoders
  /\ Discard \notin Responses

EarlyHints == 103
OK == 200
NoContent == 204
NotFound == 404
ServerError == 500

Statuses == {EarlyHints, OK, NoContent, NotFound}
Informational(code) == code < 200
BodyAllowed(code) == code # NoContent

VARIABLES
  resp,      \* per response: the responseWriter's fields and its connection
  phase,     \* per response: what its handler has come to
  written,   \* per response: chunks its handler has written
  wanted,    \* history: the final status its handler chose, 0 while it has not
  encoder,   \* per encoder: where it writes and what it has not put out yet
  pool       \* the encoders in the sync.Pool

vars == <<resp, phase, written, wanted, encoder, pool>>

\* Content headers a handler may set before its first call: a compressible
\* type, any other type or a Content-Range, or its own Content-Encoding.  Which
\* types are compressible is left open.
Contents == {"compressible", "other", "encoded"}

\* Mutant: New leaves the status at zero.
FreshUnset(content, accepts) ==
  [content |-> content, accepts |-> accepts,
   status |-> 0, decided |-> FALSE, wroteHeader |-> FALSE, passthrough |-> FALSE,
   buf |-> << >>, enc |-> NoEncoder,
   coding |-> IF content = "encoded" THEN "own" ELSE "none", vary |-> FALSE,
   sent |-> 0, sentCoding |-> "none", sentVary |-> FALSE, wire |-> << >>]

Fresh(content, accepts) ==
  [content |-> content, accepts |-> accepts,
   status |-> OK, decided |-> FALSE, wroteHeader |-> FALSE, passthrough |-> FALSE,
   buf |-> << >>, enc |-> NoEncoder,
   coding |-> IF content = "encoded" THEN "own" ELSE "none", vary |-> FALSE,
   sent |-> 0, sentCoding |-> "none", sentVary |-> FALSE, wire |-> << >>]

\* An encoder reset to io.Discard.
Detached == [target |-> Discard, pending |-> << >>]

Init ==
  /\ resp = [r \in Responses |-> Fresh("other", FALSE)]
  /\ phase = [r \in Responses |-> "idle"]
  /\ written = [r \in Responses |-> 0]
  /\ wanted = [r \in Responses |-> 0]
  /\ encoder = [e \in Encoders |-> Detached]
  /\ pool = {}

-----------------------------------------------------------------------------
(* The connection: s is a response, the result what it becomes *)

SendHeader(s, code) ==
  IF s.sent # 0 \/ Informational(code) THEN s
  ELSE [s EXCEPT !.sent = code, !.sentCoding = s.coding, !.sentVary = s.vary]

Send(s, items) ==
  LET t == SendHeader(s, OK) IN
  IF BodyAllowed(t.sent) THEN [t EXCEPT !.wire = @ \o items] ELSE t

Plain(chunks) == [i \in 1..Len(chunks) |-> <<"plain", chunks[i]>>]
Encoded(chunks) == [i \in 1..Len(chunks) |-> <<"encoded", chunks[i]>>]
EndOfStream == << <<"end">> >>
Problem == << <<"problem">> >>

(* The responseWriter's own methods *)

CommitPlain(s) ==
  LET t == [s EXCEPT !.decided = TRUE, !.passthrough = TRUE, !.wroteHeader = TRUE]
      u == IF s.wroteHeader THEN t ELSE SendHeader(t, s.status)
  IN  IF s.buf = << >> THEN u ELSE [Send(u, Plain(s.buf)) EXCEPT !.buf = << >>]

Eligible(s, code) == s.content = "compressible" /\ BodyAllowed(code)

\* A status is taken once, and 103 is a status like any other here.
WriteHeader(s, code) ==
  LET t == [s EXCEPT !.decided = TRUE, !.status = code]
      v == [t EXCEPT !.vary = TRUE]
  IN  CASE s.decided                        -> s
        [] ~s.decided /\ ~Eligible(s, code) -> CommitPlain(t)
        [] ~s.decided /\ Eligible(s, code)  -> IF s.accepts THEN v ELSE CommitPlain(v)

\* commitEncoded up to the encoder's first write.
CommitEncoded(s, e) ==
  LET t == [s EXCEPT !.coding = "gzip"]
  IN  [SendHeader(t, t.status) EXCEPT !.wroteHeader = TRUE, !.enc = e, !.buf = << >>]

\* The encoder puts out what it holds.
Drain(s, e) == Send(s, Encoded(encoder[e].pending))

-----------------------------------------------------------------------------
(* The handler *)

Running(r) == phase[r] = "running"
Chunk(r) == <<r, written[r] + 1>>
Goto(r, label) == phase' = [phase EXCEPT ![r] = label]
Choose(r, code) ==
  wanted' = [wanted EXCEPT ![r] = IF @ = 0 /\ ~Informational(code) THEN code ELSE @]

\* New wraps the writer, unless Options.Skip leaves the response alone; what
\* Negotiate makes of Accept-Encoding is left open.
Begin(r, content, accepts) ==
  /\ phase[r] \in {"idle", "done", "panicked"}
  /\ resp' = [resp EXCEPT ![r] = Fresh(content, accepts)]
  /\ Goto(r, "running")
  /\ written' = [written EXCEPT ![r] = 0]
  /\ wanted' = [wanted EXCEPT ![r] = 0]
  /\ UNCHANGED <<encoder, pool>>

CallWriteHeader(r, code) ==
  /\ Running(r)
  /\ resp' = [resp EXCEPT ![r] = WriteHeader(@, code)]
  /\ Choose(r, code)
  /\ UNCHANGED <<phase, written, encoder, pool>>

\* What every Write begins with.
Decided(r) == IF resp[r].decided THEN resp[r] ELSE WriteHeader(resp[r], resp[r].status)

WriteBegins(r) ==
  /\ Running(r)
  /\ written[r] < MaxChunks
  /\ written' = [written EXCEPT ![r] = @ + 1]
  /\ Choose(r, OK)
  /\ UNCHANGED phase

WritePassesThrough(r) ==
  /\ WriteBegins(r)
  /\ Decided(r).passthrough
  /\ resp' = [resp EXCEPT ![r] = Send(Decided(r), Plain(<<Chunk(r)>>))]
  /\ UNCHANGED <<encoder, pool>>

WriteEncodes(r) ==
  LET e == resp[r].enc IN
  /\ WriteBegins(r)
  /\ ~Decided(r).passthrough
  /\ e # NoEncoder
  /\ encoder' = [encoder EXCEPT ![e].pending = Append(@, Chunk(r))]
  /\ UNCHANGED <<resp, pool>>

\* Mutant: the buffer may reach MinSize.
WriteHoldsBackFull(r) ==
  /\ WriteBegins(r)
  /\ ~Decided(r).passthrough
  /\ resp[r].enc = NoEncoder
  /\ Len(resp[r].buf) + 1 <= MinSize
  /\ resp' = [resp EXCEPT ![r] = [Decided(r) EXCEPT !.buf = Append(@, Chunk(r))]]
  /\ UNCHANGED <<encoder, pool>>

\* The chunk joins the buffer, which is not worth compressing yet.
WriteHoldsBack(r) ==
  /\ WriteBegins(r)
  /\ ~Decided(r).passthrough
  /\ resp[r].enc = NoEncoder
  /\ Len(resp[r].buf) + 1 < MinSize
  /\ resp' = [resp EXCEPT ![r] = [Decided(r) EXCEPT !.buf = Append(@, Chunk(r))]]
  /\ UNCHANGED <<encoder, pool>>

\* An encoder that is nobody's: a pooled one, or a new one.
Available(e) == e \in pool \/ \A r \in Responses : resp[r].enc # e

\* Mutant: the encoder is not fed the buffer.
WriteCommitsLast(r, e) ==
  LET s == Decided(r) IN
  /\ WriteBegins(r)
  /\ ~s.passthrough
  /\ s.enc = NoEncoder
  /\ Len(s.buf) + 1 >= MinSize
  /\ Available(e)
  /\ resp' = [resp EXCEPT ![r] = CommitEncoded(s, e)]
  /\ encoder' = [encoder EXCEPT ![e] = [target |-> r, pending |-> <<Chunk(r)>>]]
  /\ pool' = pool \ {e}

\* The chunk makes the body worth it: an encoder is taken from the pool,
\* pointed at this response and fed the buffer.
WriteCommits(r, e) ==
  LET s == Decided(r) IN
  /\ WriteBegins(r)
  /\ ~s.passthrough
  /\ s.enc = NoEncoder
  /\ Len(s.buf) + 1 >= MinSize
  /\ Available(e)
  /\ resp' = [resp EXCEPT ![r] = CommitEncoded(s, e)]
  /\ encoder' = [encoder EXCEPT ![e] = [target |-> r, pending |-> Append(s.buf, Chunk(r))]]
  /\ pool' = pool \ {e}

\* Mutant: Flush reaches the connection alone.
FlushPast(r) ==
  /\ Running(r)
  /\ resp[r].enc = NoEncoder
  /\ resp' = [resp EXCEPT ![r] = SendHeader(@, OK)]
  /\ Choose(r, OK)
  /\ UNCHANGED <<phase, written, encoder, pool>>

FlushPlain(r) ==
  /\ Running(r)
  /\ resp[r].enc = NoEncoder
  /\ LET s == IF resp[r].passthrough THEN resp[r] ELSE CommitPlain(resp[r])
     IN  resp' = [resp EXCEPT ![r] = SendHeader(s, OK)]
  /\ Choose(r, OK)
  /\ UNCHANGED <<phase, written, encoder, pool>>

FlushEncoded(r) ==
  LET e == resp[r].enc IN
  /\ Running(r)
  /\ e # NoEncoder
  /\ resp' = [resp EXCEPT ![r] = Drain(@, e)]
  /\ encoder' = [encoder EXCEPT ![e].pending = << >>]
  /\ UNCHANGED <<phase, written, wanted, pool>>

\* Mutant: the response keeps the encoder it has released.
EndStreamKeeping(s) == Send(Drain(s, s.enc), EndOfStream)

\* The end of the encoder's stream; the encoder is given up.
EndStream(s) == [Send(Drain(s, s.enc), EndOfStream) EXCEPT !.enc = NoEncoder]

\* release: the encoder goes back to the pool, detached from the response.
Release(r) ==
  LET e == resp[r].enc IN
  IF e = NoEncoder
  THEN UNCHANGED <<encoder, pool>>
  ELSE /\ encoder' = [encoder EXCEPT ![e] = Detached]
       /\ pool' = pool \cup {e}

Hijacked(s) ==
  [(CASE s.enc # NoEncoder                    -> EndStream(s)
      [] s.enc = NoEncoder /\ s.buf # << >>   -> CommitPlain(s)
      [] OTHER                                -> s) EXCEPT !.passthrough = TRUE]

\* Hijack of a net/http connection.  Of its errors neither changes a thing: a
\* writer that is no Hijacker is left as it is, and a connection fails to be
\* hijacked only when it has been, with all of this done.
Hijack(r) ==
  /\ Running(r)
  /\ resp' = [resp EXCEPT ![r] = Hijacked(@)]
  /\ Release(r)
  /\ Goto(r, "hijacked")
  /\ UNCHANGED <<written, wanted>>

\* Mutant: close does nothing for an empty body.
ClosedEmpty(s) ==
  CASE s.enc # NoEncoder                                    -> EndStream(s)
    [] s.enc = NoEncoder /\ (s.passthrough \/ s.buf = << >>) -> s
    [] s.enc = NoEncoder /\ ~s.passthrough /\ s.buf # << >>  -> CommitPlain(s)

\* close, which New defers.
Closed(s) ==
  CASE s.enc # NoEncoder                   -> EndStream(s)
    [] s.enc = NoEncoder /\ s.passthrough  -> s
    [] s.enc = NoEncoder /\ ~s.passthrough -> CommitPlain(s)

Return(r) ==
  /\ Running(r)
  /\ resp' = [resp EXCEPT ![r] = SendHeader(Closed(@), OK)]
  /\ Release(r)
  /\ Goto(r, "done")
  /\ UNCHANGED <<written, wanted>>

\* The handler panics: close runs first, then router.Recover, the outermost
\* middleware, writes its 500 to the connection.
Panic(r) ==
  /\ Running(r)
  /\ resp' = [resp EXCEPT ![r] = Send(SendHeader(Closed(@), ServerError), Problem)]
  /\ Release(r)
  /\ Goto(r, "panicked")
  /\ UNCHANGED <<written, wanted>>

\* The connection belongs to the handler from here to its return.
HijackedReturn(r) ==
  /\ phase[r] = "hijacked"
  /\ Goto(r, "idle")
  /\ UNCHANGED <<resp, written, wanted, encoder, pool>>

\* A sync.Pool may drop what it holds.
PoolDrop(e) ==
  /\ e \in pool
  /\ pool' = pool \ {e}
  /\ UNCHANGED <<resp, phase, written, wanted, encoder>>

Next ==
  \/ \E r \in Responses :
       \/ \E content \in Contents, accepts \in BOOLEAN : Begin(r, content, accepts)
       \/ \E code \in Statuses : CallWriteHeader(r, code)
       \/ WritePassesThrough(r) \/ WriteEncodes(r) \/ WriteHoldsBack(r)
       \/ \E e \in Encoders : WriteCommits(r, e)
       \/ FlushPlain(r) \/ FlushEncoded(r)
       \/ Hijack(r) \/ HijackedReturn(r) \/ Return(r) \/ Panic(r)
  \/ \E e \in Encoders : PoolDrop(e)

Spec == Init /\ [][Next]_vars

-----------------------------------------------------------------------------
ChunkRefs == Responses \X (1..MaxChunks)

Resp == [content: Contents, accepts: BOOLEAN, status: Statuses,
         decided: BOOLEAN, wroteHeader: BOOLEAN, passthrough: BOOLEAN,
         buf: Seq(ChunkRefs), enc: Encoders \cup {NoEncoder},
         coding: {"none", "own", "gzip"}, vary: BOOLEAN,
         sent: Statuses \cup {0, ServerError}, sentCoding: {"none", "own", "gzip"},
         sentVary: BOOLEAN,
         wire: Seq(({"plain", "encoded"} \X ChunkRefs) \cup {<<"end">>, <<"problem">>})]

TypeOK ==
  /\ resp \in [Responses -> Resp]
  /\ phase \in [Responses -> {"idle", "running", "done", "panicked", "hijacked"}]
  /\ written \in [Responses -> 0..MaxChunks]
  /\ wanted \in [Responses -> Statuses \cup {0}]
  /\ encoder \in [Encoders -> [target: Responses \cup {Discard}, pending: Seq(ChunkRefs)]]
  /\ pool \in SUBSET Encoders

(* Safety *)

\* An encoder works for one response at a time: the one it writes to, and no
\* other holds it; a pooled encoder is held by none, writes nowhere and holds
\* back nothing of a finished response.  A finished response holds none.
EncodersExclusive ==
  /\ \A r \in Responses : resp[r].enc # NoEncoder =>
       /\ Running(r)
       /\ resp[r].enc \notin pool
       /\ encoder[resp[r].enc].target = r
  /\ \A e \in pool : encoder[e] = Detached

\* The bytes a client decodes are the handler's, once and in order, under a
\* Content-Encoding that says how they were sent: all plain, or all through
\* one encoder whose stream is closed, which a client gets only if it accepts
\* that, in a response that varies by Accept-Encoding.
AllOf(r) == [i \in 1..written[r] |-> <<r, i>>]
BodyIntact ==
  \A r \in Responses : phase[r] \in {"done", "hijacked"} =>
    /\ resp[r].sentCoding = "gzip" => resp[r].sentVary /\ resp[r].accepts
    /\ resp[r].wire = CASE ~BodyAllowed(resp[r].sent)       -> << >>
                        [] resp[r].sentCoding = "gzip"      -> Encoded(AllOf(r)) \o EndOfStream
                        [] OTHER                            -> Plain(AllOf(r))

\* A body is held back only while everything about it is open: less than MinSize
\* of it ("the middleware's per-request buffer ceiling", config.go:45), nothing
\* sent, no encoder taken, its headers decided, and Vary on them; and nothing
\* is held back once its response is over.
HeldBack ==
  \A r \in Responses : resp[r].buf # << >> =>
    /\ Running(r)
    /\ Len(resp[r].buf) < MinSize
    /\ resp[r].sent = 0 /\ resp[r].wire = << >>
    /\ resp[r].enc = NoEncoder /\ ~resp[r].passthrough
    /\ resp[r].decided /\ resp[r].vary

\* "A handler that wrote nothing at all still needs its status sent"
\* (writer.go:206): a response that is over has its header out, and the status
\* is the handler's unless it began with an informational one.
StatusSent ==
  \A r \in Responses : phase[r] = "done" =>
    /\ resp[r].sent # 0
    /\ resp[r].status # EarlyHints /\ wanted[r] # 0 => resp[r].sent = wanted[r]

(* Action properties *)

\* A flush leaves nothing behind: what the handler wrote before it is on the
\* connection after it, header included.
Delivered(r) == {i \in 1..MaxChunks : \E j \in 1..Len(resp[r].wire) :
                   resp[r].wire[j] \in {<<"plain", <<r, i>>>>, <<"encoded", <<r, i>>>>}}
FlushDelivers ==
  [][\A r \in Responses : FlushPlain(r) \/ FlushEncoded(r) =>
       /\ resp'[r].sent # 0
       /\ BodyAllowed(resp'[r].sent) => Delivered(r)' = 1..written[r]]_vars

=============================================================================
