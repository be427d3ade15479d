---------------------------------- MODULE Wire ----------------------------------
(***************************************************************************)
(* One stream of values between a minmux server and a generated client:    *)
(* the state both ends share and the HTTP connection between them, which   *)
(* is net/http's and modelled as the two ends use it.                      *)
(*                                                                         *)
(* The stream goes "down", a response a handler writes and the client      *)
(* iterates, or "up", a request body the client writes from a goroutine    *)
(* and a handler iterates.  Bytes are tokens <<kind, a, b>>:               *)
(*   "rs", "nl"       the record separator and a newline                   *)
(*   "item", "cut"    a payload, and one whose tail never came             *)
(*   "line", "blank"  a line of an event stream with its field and text    *)
(*   "part", "close"  a part's boundary and headers, the last boundary     *)
(*   "problem"        the 500 ProblemDetails of Recover                    *)
(***************************************************************************)
EXTENDS Integers, SequencesExt

CONSTANTS
  Items,          \* payloads of the formats other than "sse"
  Events,         \* events, [comment, id, event, retry, data]: lines each, none if omitted
  DownFormats,    \* among "lines", "rs", "sse", "multipart"
  UpFormats,      \* among "lines", "rs": the generated client streams no other
  MaxItems,       \* bound: values one stream carries
  Window          \* bound: tokens in flight before a writer blocks

ASSUME FormatsAssumption ==
  /\ DownFormats \subseteq {"lines", "rs", "sse", "multipart"}
  /\ UpFormats \subseteq {"lines", "rs"}

\* writeSSEField and writeSSEData write lines, of data at least one.  A line is
\* a text without a newline, and does not end in a carriage return, which the
\* Scanner that reads it would drop.
ASSUME EventsAssumption ==
  \A ev \in Events :
    /\ ev.comment \in Seq(STRING) /\ ev.id \in Seq(STRING) /\ ev.event \in Seq(STRING)
    /\ ev.retry \in Seq(STRING) /\ ev.data \in Seq(STRING) \ {<< >>}

VARIABLES
  conf,      \* [dir, format, flusher]: flusher, whether the writer can flush
  producer,  \* the writing side: "fresh", "open", "framed", "closed", "gone"
  fate,      \* history: how it ended, "", "whole", "failed", "panicked", "hooked"
  sent,      \* history: the values it wrote whole
  buffer,    \* written and on this side: net/http's buffer, or the pipe
  pipe,      \* up: "open", "eof", "error", "closed" (by its reader)
  net,       \* on the connection, not yet read
  end,       \* what comes after net: "open", "eof", "error"
  iter,      \* the iterator, with out, the <<kind, value>> it has yielded
  twin,      \* history: the other side's iterator, given the same bytes
  reader     \* "reading", "stopped" (the loop broke off), "done"

vars == <<conf, producer, fate, sent, buffer, pipe, net, end, iter, twin, reader>>

Rs == <<"rs", "", "">>
Nl == <<"nl", "", "">>
Blank == <<"blank", "", "">>
Closing == <<"close", "", "">>
Problem == <<"problem", "", "">>

NoEvent == [id |-> "", event |-> "", retry |-> "", data |-> << >>]

\* An iterator before its first read: out, the record or body it is in, the
\* event it has gathered, and whether it is past a separator, in an event, past
\* the last boundary.
Unread == [out |-> << >>, cur |-> << >>, ev |-> NoEvent, in |-> FALSE, have |-> FALSE, closed |-> FALSE]

Init ==
  /\ conf \in [dir : {"down"}, format : DownFormats, flusher : BOOLEAN]
              \cup [dir : {"up"}, format : UpFormats, flusher : {FALSE}]
  /\ producer = "fresh"
  /\ fate = ""
  /\ sent = << >>
  /\ buffer = << >>
  /\ pipe = "open"
  /\ net = << >>
  /\ end = "open"
  /\ iter = Unread
  /\ twin = Unread
  /\ reader = "reading"

Down == conf.dir = "down"
Up == conf.dir = "up"

Values == IF conf.format = "sse" THEN Events ELSE Items

\* Bytes reach the connection while it is whole; later ones are lost.
OnNet(tokens) == IF end = "open" THEN net \o tokens ELSE net

\* A payload of which only the beginning came.
Half(token) == IF token[1] = "item" THEN <<"cut", token[2], "">> ELSE token

\* The connection breaks: what is in flight may be lost from any byte on.
Cut ==
  /\ end = "open"
  /\ \E k \in 0..Len(net) :
       net' \in {SubSeq(net, 1, k)} \cup
                (IF k > 0 THEN {Append(SubSeq(net, 1, k - 1), Half(net[k]))} ELSE {})
  /\ end' = "error"
  /\ UNCHANGED <<conf, producer, fate, sent, buffer, pipe, iter, twin, reader>>

\* The reading loop goes on to the next token, the loop's body included.
Take(next, nextTwin) ==
  /\ reader = "reading"
  /\ net # << >>
  /\ ~iter.closed
  /\ iter' = next
  /\ twin' = nextTwin
  /\ net' = Tail(net)
  /\ UNCHANGED <<conf, producer, fate, sent, buffer, pipe, end, reader>>

\* It meets the end of what it reads: the iterator returns, and its deferred
\* Close closes the body.
Finish(last, lastTwin) ==
  /\ reader = "reading"
  /\ iter.closed \/ (net = << >> /\ end # "open")
  /\ iter' = last
  /\ twin' = lastTwin
  /\ reader' = "done"
  /\ end' = IF end = "open" THEN "error" ELSE end
  /\ UNCHANGED <<conf, producer, fate, sent, buffer, pipe, net>>

\* The loop over the iterator breaks off, or the caller's context ends: the
\* body is closed and the connection with it.
Stop ==
  /\ reader = "reading"
  /\ reader' = "stopped"
  /\ end' = IF end = "open" THEN "error" ELSE end
  /\ UNCHANGED <<conf, producer, fate, sent, buffer, pipe, net, iter, twin>>

=============================================================================
