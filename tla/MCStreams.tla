------------------------------- MODULE MCStreams -------------------------------
(* Streams of two values in every format for TLC.                          *)
EXTENDS Streams, TLC

CONSTANTS x, y

MCItems == {x, y}

Event(comment, event, data) ==
  [comment |-> comment, id |-> << >>, event |-> event, retry |-> << >>, data |-> data]

\* A comment of two lines with no data, an event with an empty line in its data,
\* and one with newlines at both edges of it.
MCEvents ==
  {Event(<<"c", "d">>, << >>, <<"">>),
   Event(<< >>, <<"e", "f">>, <<"a", "", "b">>),
   Event(<< >>, << >>, <<"", "a", "b", "">>)}

AllFormats == {"lines", "rs", "sse", "multipart"}
Sequential == {"lines", "rs"}
JustLines == {"lines"}
NoFormat == {}
=============================================================================
