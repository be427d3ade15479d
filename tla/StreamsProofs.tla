------------------------------ MODULE StreamsProofs ------------------------------
(***************************************************************************)
(* Theorems about Streams, for any values, any number of them and any      *)
(* window.                                                                 *)
(***************************************************************************)
EXTENDS Streams, SequenceTheorems, TLAPS

-----------------------------------------------------------------------------
(* The inductive invariant *)

\* The tokens of the formats whose values are separated.
Token ==
  {Rs, Nl} \cup {<<"item", v, "">> : v \in Items} \cup {<<"cut", v, "">> : v \in Items}

\* What stands before each payload but the first of JSON lines.
Mark == IF conf.format = "lines" THEN Nl ELSE Rs

Payload(t) == t # Mark /\ t # Nl

Framed(tokens) ==
  \A k \in 2..Len(tokens) : Payload(tokens[k]) => tokens[k - 1] = Mark

\* What the reader may still be given.
Ahead == IF end = "open" THEN net \o buffer ELSE net

\* Whether a payload may be written next.
Ready == IF Ahead = << >> THEN iter.cur = << >> ELSE Ahead[Len(Ahead)] = Mark

Separated == conf.format \in {"lines", "rs"}

\* No record ever has two payloads.
FramingOK ==
  Separated /\ fate # "panicked" =>
    /\ net \in Seq(Token) /\ buffer \in Seq(Token)
    /\ iter.cur \in Seq(Token) /\ Len(iter.cur) <= 1
    /\ Framed(Ahead)
    /\ iter.cur # << >> /\ Ahead # << >> => ~Payload(Ahead[1])
    /\ end = "open" /\ (conf.format = "lines" \/ producer = "framed") => Ready

Kinds == {"value", "cut", "bad", "head", "short", "error"}

\* An iterator, of whatever values.
IterOK(it) ==
  /\ it = [out |-> it.out, cur |-> it.cur, ev |-> it.ev, in |-> it.in,
           have |-> it.have, closed |-> it.closed]
  /\ it.closed => conf.format = "multipart"
  /\ it.out = [k \in 1..Len(it.out) |-> it.out[k]] /\ Len(it.out) \in Nat
  /\ \A k \in 1..Len(it.out) : it.out[k][1] \in Kinds

ConfOK ==
  conf \in [dir : {"down"}, format : DownFormats, flusher : BOOLEAN]
           \cup [dir : {"up"}, format : UpFormats, flusher : {FALSE}]

StateOK ==
  /\ ConfOK
  /\ producer \in {"fresh", "open", "framed", "closed", "gone"}
  /\ fate \in {"", "whole", "failed", "panicked", "hooked"}
  /\ fate = "panicked" => Down /\ producer = "gone"
  /\ producer = "framed" => Up /\ conf.format = "rs"
  /\ sent \in Seq(Values)
  /\ pipe \in {"open", "eof", "error", "closed"}
  /\ end \in {"open", "eof", "error"}
  /\ reader \in {"reading", "stopped", "done"}

IInv == StateOK /\ IterOK(iter) /\ FramingOK /\ DecodersAgree

-----------------------------------------------------------------------------
(* Tokens *)

\* What the assumption says of a stream.
LEMMA ConfIs ==
  ASSUME StateOK
  PROVE  /\ conf.dir \in {"down", "up"}
         /\ conf.format \in {"lines", "rs", "sse", "multipart"}
         /\ Up => Separated /\ conf.flusher = FALSE
BY FormatsAssumption DEF StateOK, ConfOK, Up, Separated

\* A cut payload is a payload still.
LEMMA Tokens ==
  /\ Rs \in Token /\ Nl \in Token /\ Mark \in Token /\ ~Payload(Mark) /\ ~Payload(Nl) /\ Rs # Nl
  /\ \A v \in Items : <<"item", v, "">> \in Token /\ Payload(<<"item", v, "">>)
  /\ \A t \in Token : Half(t) \in Token /\ (Payload(Half(t)) <=> Payload(t))
<1>1. Rs # Nl /\ Rs[1] = "rs" /\ Nl[1] = "nl"
  BY DEF Rs, Nl
<1>2. ASSUME NEW v \in Items, NEW kind \in {"item", "cut"}
      PROVE  <<kind, v, "">> \in Token /\ Payload(<<kind, v, "">>)
  <2>1. kind = "item" \/ kind = "cut"
    OBVIOUS
  <2>2. <<kind, v, "">>[1] = kind
    OBVIOUS
  <2> QED BY <1>1, <2>1, <2>2 DEF Token, Payload, Mark
<1>3. ASSUME NEW t \in Token
      PROVE  Half(t) \in Token /\ (Payload(Half(t)) <=> Payload(t))
  <2>1. CASE t \in {Rs, Nl}
    BY <1>1, <2>1 DEF Half
  <2>2. CASE t \notin {Rs, Nl}
    <3>0. t \in {<<"item", v, "">> : v \in Items} \/ t \in {<<"cut", v, "">> : v \in Items}
      BY <2>2 DEF Token
    <3>1. CASE t \in {<<"item", v, "">> : v \in Items}
      <4>1. PICK v \in Items : t = <<"item", v, "">>
        BY <3>1
      <4>2. Half(t) = <<"cut", v, "">>
        BY <4>1 DEF Half
      <4> QED BY <1>2, <4>1, <4>2
    <3>2. CASE t \in {<<"cut", v, "">> : v \in Items}
      <4>1. PICK v \in Items : t = <<"cut", v, "">>
        BY <3>2
      <4>2. Half(t) = t
        BY <4>1 DEF Half
      <4> QED BY <1>2, <4>1, <4>2
    <3> QED BY <3>0, <3>1, <3>2
  <2> QED BY <2>1, <2>2
<1> QED BY <1>1, <1>2, <1>3 DEF Token, Payload, Mark

\* A beginning of framed tokens, its last one perhaps cut, is framed.
LEMMA PrefixFramed ==
  ASSUME NEW S \in Seq(Token), Framed(S), NEW T \in Seq(Token), Len(T) <= Len(S),
         \A k \in 1..Len(T) : T[k] = S[k] \/ (k = Len(T) /\ T[k] = Half(S[k]))
  PROVE  Framed(T) /\ (T # << >> => S # << >> /\ (Payload(T[1]) <=> Payload(S[1])))
<1>1. Len(S) \in Nat /\ Len(T) \in Nat
  OBVIOUS
<1>2. ASSUME NEW k \in 1..Len(T)
      PROVE  Payload(T[k]) <=> Payload(S[k])
  <2>1. S[k] \in Token
    BY <1>1
  <2>2. T[k] = S[k] \/ T[k] = Half(S[k])
    OBVIOUS
  <2>3. Payload(Half(S[k])) <=> Payload(S[k])
    BY <2>1, Tokens
  <2> QED BY <2>2, <2>3
<1>3. ASSUME NEW k \in 2..Len(T), Payload(T[k])
      PROVE  T[k - 1] = Mark
  <2>1. k \in 1..Len(T) /\ k - 1 \in 1..Len(T) /\ k - 1 # Len(T) /\ k \in 2..Len(S)
    BY <1>1
  <2>2. T[k - 1] = S[k - 1]
    BY <2>1
  <2>3. Payload(S[k])
    BY <1>2, <1>3, <2>1
  <2> QED BY <2>1, <2>2, <2>3 DEF Framed
<1>4. Framed(T)
  BY <1>3 DEF Framed
<1>5. T # << >> => S # << >> /\ (Payload(T[1]) <=> Payload(S[1]))
  <2> SUFFICES ASSUME T # << >> PROVE S # << >> /\ (Payload(T[1]) <=> Payload(S[1]))
    OBVIOUS
  <2>1. 1 \in 1..Len(T)
    BY <1>1
  <2>2. Len(S) > 0
    BY <1>1, <2>1
  <2> QED BY <1>2, <2>1, <2>2
<1> QED BY <1>4, <1>5

\* Framed tokens after framed tokens.
LEMMA AppendFramed ==
  ASSUME NEW S \in Seq(Token), Framed(S), NEW R \in Seq(Token), Framed(R), R # << >>,
         S # << >> /\ Payload(R[1]) => S[Len(S)] = Mark
  PROVE  /\ Framed(S \o R) /\ S \o R \in Seq(Token) /\ S \o R # << >>
         /\ (S \o R)[Len(S \o R)] = R[Len(R)]
         /\ (S \o R)[1] = IF S = << >> THEN R[1] ELSE S[1]
<1> DEFINE T == S \o R
<1>1. /\ Len(S) \in Nat /\ Len(R) \in Nat \ {0} /\ Len(T) = Len(S) + Len(R)
      /\ S = << >> <=> Len(S) = 0
  OBVIOUS
<1>2. \A k \in 1..Len(T) : T[k] = IF k <= Len(S) THEN S[k] ELSE R[k - Len(S)]
  OBVIOUS
<1>3. T \in Seq(Token)
  OBVIOUS
<1> HIDE DEF T
<1>4. ASSUME NEW k \in 2..Len(T), Payload(T[k])
      PROVE  T[k - 1] = Mark
  <2>1. k \in 1..Len(T) /\ k - 1 \in 1..Len(T)
    BY <1>1
  <2>2. CASE k <= Len(S)
    <3>1. k \in 2..Len(S) /\ T[k] = S[k] /\ T[k - 1] = S[k - 1]
      BY <1>1, <1>2, <2>1, <2>2
    <3> QED BY <1>4, <3>1 DEF Framed
  <2>3. CASE k = Len(S) + 1
    <3>1. T[k] = R[1] /\ T[k - 1] = S[Len(S)] /\ S # << >>
      BY <1>1, <1>2, <2>1, <2>3
    <3> QED BY <1>4, <3>1
  <2>4. CASE k > Len(S) + 1
    <3> DEFINE j == k - Len(S)
    <3>1. j \in 2..Len(R) /\ ~(k <= Len(S)) /\ ~(k - 1 <= Len(S)) /\ (k - 1) - Len(S) = j - 1
      BY <1>1, <2>1, <2>4
    <3>3. T[k] = R[j] /\ T[k - 1] = R[(k - 1) - Len(S)]
      BY <1>2, <2>1, <3>1
    <3> HIDE DEF j
    <3> QED BY <1>4, <3>1, <3>3 DEF Framed
  <2> QED BY <1>1, <2>2, <2>3, <2>4
<1>5. T[Len(T)] = R[Len(R)]
  BY <1>1, <1>2
<1>6. T[1] = IF S = << >> THEN R[1] ELSE S[1]
  BY <1>1, <1>2
<1>7. T # << >>
  BY <1>1, <1>3
<1> QED BY <1>3, <1>4, <1>5, <1>6, <1>7 DEF Framed, T

-----------------------------------------------------------------------------
(* Iterators *)

\* A record with at most one payload is the same to both decoders.
LEMMA SameRecord ==
  ASSUME NEW it, Len(it.cur) <= 1, it.cur \in Seq(Token)
  PROVE  ClientRecord(it) = ServerRecord(it)
<1>1. ~(Len(it.cur) > 1)
  OBVIOUS
<1>2. ClientDecode(it.cur) = ServerDecode(it.cur)
  BY <1>1 DEF ClientDecode, ServerDecode
<1> QED BY <1>2 DEF ClientRecord, ServerRecord

\* While no record has two payloads the two decoders do the same.
LEMMA SameNext ==
  ASSUME NEW it, NEW t, Separated => Len(it.cur) <= 1 /\ it.cur \in Seq(Token)
  PROVE  ClientNext(it, t) = ServerNext(it, t)
<1>1. Separated => ClientRecord(it) = ServerRecord(it)
  BY SameRecord
<1>2. CASE Separated
  <2>1. ClientLine(it, t) = ServerLine(it, t)
    BY <1>1, <1>2 DEF ClientLine, ServerLine
  <2>2. ClientSeq(it, t) = ServerSeq(it, t)
    BY <1>1, <1>2 DEF ClientSeq, ServerSeq
  <2> QED BY <1>2, <2>1, <2>2 DEF ClientNext, ServerNext, Separated
<1>3. CASE conf.format = "sse"
  BY <1>3 DEF ClientNext, ServerNext, ClientSSE, ServerSSE, ClientEvent, ServerEvent,
              ClientField, ServerField, ClientData, ServerData
<1>4. CASE conf.format \notin {"lines", "rs", "sse"}
  <2>1. ClientBody(it, TRUE) = ServerBody(it, TRUE)
    BY DEF ClientBody, ServerBody
  <2>2. ClientPart(it, t) = ServerPart(it, t)
    BY <2>1 DEF ClientPart, ServerPart
  <2> QED BY <1>4, <2>2 DEF ClientNext, ServerNext
<1> QED BY <1>2, <1>3, <1>4 DEF Separated

\* And so at the end of the body.
LEMMA SameLast ==
  ASSUME NEW it, Separated => Len(it.cur) <= 1 /\ it.cur \in Seq(Token),
         it.closed => conf.format = "multipart"
  PROVE  ClientLast(it) = ServerLast(it)
<1>1. Separated => ClientRecord(it) = ServerRecord(it)
  BY SameRecord
<1>2. ClientEvent(it) = ServerEvent(it)
  BY DEF ClientEvent, ServerEvent
<1>3. ClientBody(it, FALSE) = ServerBody(it, FALSE)
  BY DEF ClientBody, ServerBody
<1>4. ClientRest(it) = ServerRest(it)
  <2>1. CASE it.closed
    BY <2>1 DEF ClientRest, ServerRest
  <2>2. CASE ~it.closed /\ conf.format = "lines"
    <3>1. ClientRecord(it) = ServerRecord(it)
      BY <1>1, <2>2 DEF Separated
    <3> QED BY <2>2, <3>1 DEF ClientRest, ServerRest
  <2>3. CASE ~it.closed /\ conf.format = "rs"
    <3>1. ClientRecord(it) = ServerRecord(it)
      BY <1>1, <2>3 DEF Separated
    <3> QED BY <2>3, <3>1 DEF ClientRest, ServerRest
  <2>4. CASE ~it.closed /\ conf.format = "sse"
    BY <1>2, <2>4 DEF ClientRest, ServerRest
  <2>5. CASE ~it.closed /\ conf.format \notin {"lines", "rs", "sse"}
    BY <1>3, <2>5 DEF ClientRest, ServerRest
  <2> QED BY <2>1, <2>2, <2>3, <2>4, <2>5
<1> QED BY <1>4 DEF ClientLast, ServerLast

\* A sequence, of whatever elements, and one more.
LEMMA AppendYield ==
  ASSUME NEW out, out = [k \in 1..Len(out) |-> out[k]], Len(out) \in Nat,
         \A k \in 1..Len(out) : out[k][1] \in Kinds, NEW y, y[1] \in Kinds
  PROVE  LET longer == Append(out, y) IN
         /\ longer = [k \in 1..Len(longer) |-> longer[k]] /\ Len(longer) \in Nat
         /\ \A k \in 1..Len(longer) : longer[k][1] \in Kinds
<1> DEFINE S == {out[k] : k \in 1..Len(out)} \cup {y}
           n == Len(out)
           longer == Append(out, y)
<1>1. y \in S /\ \A k \in 1..n : out[k] \in S
  OBVIOUS
<1> HIDE DEF S
<1>2. out \in Seq(S)
  BY <1>1
<1>3. /\ longer \in Seq(S) /\ Len(longer) = n + 1
      /\ \A k \in 1..n : longer[k] = out[k]
      /\ longer[n + 1] = y
  BY <1>1, <1>2, AppendProperties
<1> HIDE DEF longer
<1>4. longer = [k \in 1..Len(longer) |-> longer[k]]
  BY <1>3
<1>5. \A k \in 1..Len(longer) : longer[k][1] \in Kinds
  BY <1>3
<1> QED BY <1>3, <1>4, <1>5 DEF longer

\* Whether it yields one more or none, an iterator stays one.
LEMMA IterStays ==
  ASSUME NEW it, IterOK(it), NEW cur, NEW ev, NEW in, NEW have, NEW closed,
         closed => conf.format = "multipart"
  PROVE  /\ IterOK([out |-> it.out, cur |-> cur, ev |-> ev, in |-> in, have |-> have,
                    closed |-> closed])
         /\ \A y : y[1] \in Kinds =>
              IterOK([out |-> Append(it.out, y), cur |-> cur, ev |-> ev, in |-> in,
                      have |-> have, closed |-> closed])
<1>1. IterOK([out |-> it.out, cur |-> cur, ev |-> ev, in |-> in, have |-> have,
              closed |-> closed])
  BY DEF IterOK
<1>2. ASSUME NEW y, y[1] \in Kinds
      PROVE  IterOK([out |-> Append(it.out, y), cur |-> cur, ev |-> ev, in |-> in,
                     have |-> have, closed |-> closed])
  <2> DEFINE longer == Append(it.out, y)
  <2>1. /\ longer = [k \in 1..Len(longer) |-> longer[k]] /\ Len(longer) \in Nat
        /\ \A k \in 1..Len(longer) : longer[k][1] \in Kinds
    BY <1>2, AppendYield DEF IterOK
  <2> HIDE DEF longer
  <2>2. IterOK([out |-> longer, cur |-> cur, ev |-> ev, in |-> in, have |-> have,
                closed |-> closed])
    BY <2>1 DEF IterOK
  <2> QED BY <2>2 DEF longer
<1> QED BY <1>1, <1>2

\* Each step of an iterator leaves one, and of a record nothing.
LEMMA RecordStays ==
  ASSUME NEW it, IterOK(it)
  PROVE  IterOK(ClientRecord(it)) /\ ClientRecord(it).cur = << >>
<1>1. CASE it.cur = << >>
  BY <1>1 DEF ClientRecord
<1>2. CASE it.cur # << >>
  <2> DEFINE y == ClientDecode(it.cur)
             r == [out |-> Append(it.out, y), cur |-> << >>, ev |-> it.ev, in |-> it.in,
                   have |-> it.have, closed |-> it.closed]
  <2>1. y[1] \in Kinds
    BY DEF ClientDecode, Kinds
  <2>2. ClientRecord(it) = r
    <3>1. ClientRecord(it) = [it EXCEPT !.out = Append(it.out, y), !.cur = << >>]
      BY <1>2 DEF ClientRecord
    <3> HIDE DEF y
    <3> QED BY <3>1 DEF IterOK
  <2>3. IterOK(r)
    <3> HIDE DEF y
    <3>1. it.closed => conf.format = "multipart"
      BY DEF IterOK
    <3> QED BY <2>1, <3>1, IterStays
  <2>4. r.cur = << >>
    OBVIOUS
  <2> HIDE DEF r
  <2> QED BY <2>2, <2>3, <2>4
<1> QED BY <1>1, <1>2

LEMMA BodyStays ==
  ASSUME NEW it, IterOK(it), NEW whole \in BOOLEAN
  PROVE  IterOK(ClientBody(it, whole))
<1>1. CASE it.cur = << >>
  BY <1>1 DEF ClientBody
<1>2. CASE it.cur # << >>
  <2> DEFINE y == CASE ~whole -> <<"short", it.cur[1][2]>>
                    [] whole /\ it.cur[1][1] = "cut" -> <<"cut", it.cur[1][2]>>
                    [] OTHER  -> <<"value", it.cur[1][2]>>
             r == [out |-> Append(it.out, y), cur |-> << >>, ev |-> it.ev, in |-> it.in,
                   have |-> it.have, closed |-> it.closed]
  <2>1. y[1] \in Kinds
    BY DEF Kinds
  <2>2. ClientBody(it, whole) = r
    <3>1. ClientBody(it, whole) = [it EXCEPT !.cur = << >>, !.out = Append(it.out, y)]
      BY <1>2 DEF ClientBody
    <3> HIDE DEF y
    <3> QED BY <3>1 DEF IterOK
  <2>3. IterOK(r)
    <3> HIDE DEF y
    <3>1. it.closed => conf.format = "multipart"
      BY DEF IterOK
    <3> QED BY <2>1, <3>1, IterStays
  <2> HIDE DEF r
  <2> QED BY <2>2, <2>3
<1> QED BY <1>1, <1>2

LEMMA EventStays ==
  ASSUME NEW it, IterOK(it)
  PROVE  IterOK(ClientEvent(it))
<1>1. CASE ~it.have
  BY <1>1 DEF ClientEvent
<1>2. CASE it.have
  <2> DEFINE d == it.ev.data
             ev == [it.ev EXCEPT !.data = IF Len(d) > 1 /\ Last(d) = "" THEN Front(d) ELSE d]
             y == <<"value", ev>>
             r == [out |-> Append(it.out, y), cur |-> it.cur, ev |-> NoEvent, in |-> it.in,
                   have |-> FALSE, closed |-> it.closed]
  <2>0. ClientEvent(it) = [it EXCEPT !.out = Append(it.out, y), !.ev = NoEvent, !.have = FALSE]
    BY <1>2 DEF ClientEvent
  <2> HIDE DEF ev, d
  <2>1. y[1] \in Kinds
    BY DEF Kinds
  <2> HIDE DEF y
  <2>2. ClientEvent(it) = r
    BY <2>0 DEF IterOK
  <2>3. IterOK(r)
    <3>1. it.closed => conf.format = "multipart"
      BY DEF IterOK
    <3> QED BY <2>1, <3>1, IterStays
  <2> HIDE DEF r
  <2> QED BY <2>2, <2>3
<1> QED BY <1>1, <1>2

LEMMA NextStays ==
  ASSUME StateOK, NEW it, IterOK(it), NEW t
  PROVE  IterOK(ClientNext(it, t))
<1>0. /\ conf.format \in {"lines", "rs", "sse", "multipart"}
      /\ it = [out |-> it.out, cur |-> it.cur, ev |-> it.ev, in |-> it.in,
               have |-> it.have, closed |-> it.closed]
      /\ it.closed => conf.format = "multipart"
  BY ConfIs DEF IterOK
<1>1. IterOK([it EXCEPT !.cur = Append(it.cur, t)])
  <2> DEFINE cur == Append(it.cur, t)
  <2> HIDE DEF cur
  <2>1. IterOK([out |-> it.out, cur |-> cur, ev |-> it.ev, in |-> it.in, have |-> it.have,
                closed |-> it.closed])
    BY <1>0, IterStays
  <2>2. IterOK([it EXCEPT !.cur = cur])
    BY <1>0, <2>1
  <2> QED BY <2>2 DEF cur
<1>2. CASE conf.format = "lines"
  <2>1. IterOK(ClientLine(it, t))
    BY <1>1, RecordStays DEF ClientLine
  <2> QED BY <1>2, <2>1 DEF ClientNext
<1>3. CASE conf.format = "rs"
  <2>1. IterOK([ClientRecord(it) EXCEPT !.in = TRUE])
    <3> DEFINE r == ClientRecord(it)
    <3>1. IterOK(r)
      BY RecordStays
    <3> HIDE DEF r
    <3>2. r = [out |-> r.out, cur |-> r.cur, ev |-> r.ev, in |-> r.in, have |-> r.have,
               closed |-> r.closed] /\ (r.closed => conf.format = "multipart")
      BY <3>1 DEF IterOK
    <3>3. IterOK([out |-> r.out, cur |-> r.cur, ev |-> r.ev, in |-> TRUE, have |-> r.have,
                  closed |-> r.closed])
      BY <3>1, <3>2, IterStays
    <3>5. \A b : [r EXCEPT !.in = b] =
            [out |-> r.out, cur |-> r.cur, ev |-> r.ev, in |-> b, have |-> r.have,
             closed |-> r.closed]
      BY <3>2
    <3>4. IterOK([r EXCEPT !.in = TRUE])
      BY <3>3, <3>5
    <3> QED BY <3>4 DEF r
  <2>2. IterOK(ClientSeq(it, t))
    BY <1>1, <2>1 DEF ClientSeq
  <2> QED BY <1>3, <2>2 DEF ClientNext
<1>4. CASE conf.format = "sse"
  <2>1. IterOK([it EXCEPT !.have = TRUE, !.ev = ClientField(it.ev, t[2], t[3])])
    <3> DEFINE ev == ClientField(it.ev, t[2], t[3])
    <3> HIDE DEF ev
    <3>1. IterOK([out |-> it.out, cur |-> it.cur, ev |-> ev, in |-> it.in, have |-> TRUE,
                  closed |-> it.closed])
      BY <1>0, IterStays
    <3>3. \A b : [it EXCEPT !.have = b, !.ev = ev] =
            [out |-> it.out, cur |-> it.cur, ev |-> ev, in |-> it.in, have |-> b,
             closed |-> it.closed]
      <4>1. it = [out |-> it.out, cur |-> it.cur, ev |-> it.ev, in |-> it.in,
                  have |-> it.have, closed |-> it.closed]
        BY <1>0
      <4>2. ASSUME NEW b
            PROVE  [it EXCEPT !.have = b, !.ev = ev] =
                     [out |-> it.out, cur |-> it.cur, ev |-> ev, in |-> it.in, have |-> b,
                      closed |-> it.closed]
        <5> DEFINE mid == [it EXCEPT !.have = b]
        <5>1. [it EXCEPT !.have = b, !.ev = ev] = [mid EXCEPT !.ev = ev]
          OBVIOUS
        <5>2. mid = [out |-> it.out, cur |-> it.cur, ev |-> it.ev, in |-> it.in, have |-> b,
                     closed |-> it.closed]
          BY <4>1
        <5> HIDE DEF mid
        <5>3. [mid EXCEPT !.ev = ev] =
                [out |-> it.out, cur |-> it.cur, ev |-> ev, in |-> it.in, have |-> b,
                 closed |-> it.closed]
          BY <5>2
        <5> QED BY <5>1, <5>3
      <4> QED BY <4>2
    <3>2. IterOK([it EXCEPT !.have = TRUE, !.ev = ev])
      BY <3>1, <3>3
    <3> QED BY <3>2 DEF ev
  <2>2. IterOK(ClientSSE(it, t))
    <3>1. CASE t = Blank
      <4>1. t[2] # "comment"
        BY <3>1 DEF Blank
      <4>2. ClientSSE(it, t) = ClientEvent(it)
        BY <3>1, <4>1 DEF ClientSSE
      <4> QED BY <4>2, EventStays
    <3>2. CASE t # Blank
      BY <2>1, <3>2 DEF ClientSSE
    <3> QED BY <3>1, <3>2
  <2> QED BY <1>4, <2>2 DEF ClientNext
<1>5. CASE conf.format = "multipart"
  <2> DEFINE r == ClientBody(it, TRUE)
  <2>1. IterOK(r)
    BY BodyStays
  <2> HIDE DEF r
  <2>2. r = [out |-> r.out, cur |-> r.cur, ev |-> r.ev, in |-> r.in, have |-> r.have,
             closed |-> r.closed] /\ (r.closed => conf.format = "multipart")
    BY <2>1 DEF IterOK
  <2>3. IterOK([r EXCEPT !.closed = TRUE])
    <3>1. IterOK([out |-> r.out, cur |-> r.cur, ev |-> r.ev, in |-> r.in, have |-> r.have,
                  closed |-> TRUE])
      BY <1>5, <2>1, IterStays
    <3>2. \A b : [r EXCEPT !.closed = b] =
            [out |-> r.out, cur |-> r.cur, ev |-> r.ev, in |-> r.in, have |-> r.have,
             closed |-> b]
      BY <2>2
    <3> QED BY <3>1, <3>2
  <2>4. IterOK([r EXCEPT !.out = Append(r.out, <<"head", t[2]>>)])
    <3> DEFINE y == <<"head", t[2]>>
    <3>1. y[1] \in Kinds
      BY DEF Kinds
    <3> HIDE DEF y
    <3>2. IterOK([out |-> Append(r.out, y), cur |-> r.cur, ev |-> r.ev, in |-> r.in,
                  have |-> r.have, closed |-> r.closed])
      BY <2>1, <2>2, <3>1, IterStays
    <3>3. IterOK([r EXCEPT !.out = Append(r.out, y)])
      BY <2>2, <3>2
    <3> QED BY <3>3 DEF y
  <2>5. Closing[1] = "close"
    BY DEF Closing
  <2>6. IterOK(ClientPart(it, t))
    <3>1. CASE t[1] = "part"
      BY <2>4, <2>5, <3>1 DEF ClientPart, r
    <3>2. CASE t = Closing
      BY <2>3, <2>5, <3>2 DEF ClientPart, r
    <3>3. CASE t[1] # "part" /\ t # Closing
      BY <1>1, <3>3 DEF ClientPart
    <3> QED BY <3>1, <3>2, <3>3
  <2> QED BY <1>5, <2>6 DEF ClientNext
<1> QED BY <1>0, <1>2, <1>3, <1>4, <1>5

LEMMA LastStays ==
  ASSUME StateOK, NEW it, IterOK(it)
  PROVE  IterOK(ClientLast(it))
<1>0. /\ conf.format \in {"lines", "rs", "sse", "multipart"}
      /\ it.closed => conf.format = "multipart"
  BY ConfIs DEF IterOK
<1>1. IterOK(ClientRest(it))
  <2>1. CASE it.closed
    BY <1>0, <2>1 DEF ClientRest
  <2>2. CASE ~it.closed /\ conf.format = "lines"
    BY <2>2, RecordStays DEF ClientRest
  <2>3. CASE ~it.closed /\ conf.format = "rs"
    BY <2>3, RecordStays DEF ClientRest
  <2>4. CASE ~it.closed /\ conf.format = "sse"
    BY <2>4, EventStays DEF ClientRest
  <2>5. CASE ~it.closed /\ conf.format = "multipart"
    BY <2>5, BodyStays DEF ClientRest
  <2> QED BY <1>0, <2>1, <2>2, <2>3, <2>4, <2>5
<1>2. IterOK([ClientRest(it) EXCEPT !.out = Append(ClientRest(it).out, <<"error", "">>)])
  <2> DEFINE r == ClientRest(it)
             y == <<"error", "">>
  <2>1. y[1] \in Kinds
    BY DEF Kinds
  <2> HIDE DEF y, r
  <2>2. r = [out |-> r.out, cur |-> r.cur, ev |-> r.ev, in |-> r.in, have |-> r.have,
             closed |-> r.closed] /\ (r.closed => conf.format = "multipart")
    BY <1>1 DEF IterOK, r
  <2>3. IterOK([out |-> Append(r.out, y), cur |-> r.cur, ev |-> r.ev, in |-> r.in,
                have |-> r.have, closed |-> r.closed])
    BY <1>1, <2>1, <2>2, IterStays DEF r
  <2>4. IterOK([r EXCEPT !.out = Append(r.out, y)])
    BY <2>2, <2>3
  <2> QED BY <2>4 DEF r, y
<1> QED BY <1>1, <1>2 DEF ClientLast

\* What a record holds after a token, and after the end.
\* A token adds to an empty record, or is no payload.
LEMMA CurIs ==
  ASSUME NEW it, IterOK(it), NEW t \in Token, Separated, it.cur \in Seq(Token),
         Len(it.cur) <= 1, it.cur # << >> => ~Payload(t)
  PROVE  LET next == ClientNext(it, t) IN
         /\ next.cur \in Seq(Token) /\ Len(next.cur) <= 1
         /\ next.cur # << >> => t # Mark
<1>1. /\ ClientRecord(it).cur = << >> /\ IterOK(ClientRecord(it))
      /\ << >> \in Seq(Token) /\ Len(<< >>) = 0
  BY RecordStays
<1>2. it = [out |-> it.out, cur |-> it.cur, ev |-> it.ev, in |-> it.in,
            have |-> it.have, closed |-> it.closed]
  BY DEF IterOK
<1>3. CASE it.cur = << >>
  <2> DEFINE one == Append(it.cur, t)
  <2>1. one \in Seq(Token) /\ Len(one) = 1 /\ Len(one) <= 1
    BY <1>3
  <2> HIDE DEF one
  <2>2. [it EXCEPT !.cur = one].cur = one
    BY <1>2
  <2>3. CASE conf.format = "lines"
    <3>1. ClientNext(it, t) = IF t = Nl THEN ClientRecord(it) ELSE [it EXCEPT !.cur = one]
      BY <2>3 DEF ClientNext, ClientLine, one
    <3>2. CASE t = Nl
      <4>1. ClientNext(it, t).cur = << >>
        BY <1>1, <3>1, <3>2
      <4> QED BY <1>1, <4>1
    <3>3. CASE t # Nl
      <4>2. ClientNext(it, t) = [it EXCEPT !.cur = one]
        BY <3>1, <3>3
      <4>3. t # Mark
        BY <2>3, <3>3 DEF Mark
      <4>1. ClientNext(it, t).cur = one /\ t # Mark
        BY <2>2, <4>2, <4>3
      <4> QED BY <2>1, <4>1
    <3> QED BY <3>2, <3>3
  <2>4. CASE conf.format = "rs"
    <3>1. CASE t = Rs
      <4>1. ClientNext(it, t) = [ClientRecord(it) EXCEPT !.in = TRUE]
        BY <2>4, <3>1 DEF ClientNext, ClientSeq
      <4>2. ClientNext(it, t).cur = << >>
        BY <1>1, <4>1 DEF IterOK
      <4> QED BY <1>1, <4>2
    <3>2. CASE t # Rs
      <4>1. ClientNext(it, t) = IF t = Nl \/ ~it.in THEN it ELSE [it EXCEPT !.cur = one]
        BY <2>4, <3>2 DEF ClientNext, ClientSeq, one
      <4>2. t # Mark
        BY <2>4, <3>2 DEF Mark
      <4>3. ClientNext(it, t).cur = << >> \/ ClientNext(it, t).cur = one
        BY <1>3, <2>2, <4>1
      <4>4. CASE ClientNext(it, t).cur = << >>
        BY <1>1, <4>4
      <4>5. CASE ClientNext(it, t).cur = one
        BY <2>1, <4>2, <4>5
      <4> QED BY <4>3, <4>4, <4>5
    <3> QED BY <3>1, <3>2
  <2> QED BY <2>3, <2>4 DEF Separated
<1>4. CASE it.cur # << >>
  <2>0. ~Payload(t)
    BY <1>4
  <2>1. CASE conf.format = "lines"
    <3>1. t = Nl
      BY <2>0, <2>1 DEF Payload, Mark
    <3>2. ClientNext(it, t) = ClientRecord(it)
      BY <2>1, <3>1 DEF ClientNext, ClientLine
    <3>3. ClientNext(it, t).cur = << >>
      BY <1>1, <3>2
    <3> QED BY <1>1, <3>3
  <2>2. CASE conf.format = "rs"
    <3>1. CASE t = Rs
      <4>1. ClientNext(it, t) = [ClientRecord(it) EXCEPT !.in = TRUE]
        BY <2>2, <3>1 DEF ClientNext, ClientSeq
      <4>2. ClientNext(it, t).cur = << >>
        BY <1>1, <4>1 DEF IterOK
      <4> QED BY <1>1, <4>2
    <3>2. CASE t # Rs
      <4>1. t = Nl
        BY <2>0, <2>2, <3>2 DEF Payload, Mark
      <4>2. ClientNext(it, t) = it
        BY <2>2, <3>2, <4>1 DEF ClientNext, ClientSeq
      <4> QED BY <2>2, <3>2, <4>2 DEF Mark
    <3> QED BY <3>1, <3>2
  <2> QED BY <2>1, <2>2 DEF Separated
<1> QED BY <1>3, <1>4

\* The end adds nothing to a record.
LEMMA LastCur ==
  ASSUME NEW it, IterOK(it), Separated, it.cur \in Seq(Token), Len(it.cur) <= 1
  PROVE  LET last == ClientLast(it) IN last.cur = it.cur \/ last.cur = << >>
<1>1. it.closed = FALSE \/ ~it.closed
  BY DEF IterOK, Separated
<1>2. ClientRest(it) = it \/ ClientRest(it) = ClientRecord(it)
  BY <1>1 DEF ClientRest, Separated
<1>3. ClientRest(it).cur \in {it.cur, << >>} /\ IterOK(ClientRest(it))
  BY <1>2, RecordStays
<1>4. [ClientRest(it) EXCEPT !.out = Append(ClientRest(it).out, <<"error", "">>)].cur
        = ClientRest(it).cur
  BY <1>3 DEF IterOK
<1> QED BY <1>3, <1>4 DEF ClientLast

-----------------------------------------------------------------------------
(* Framing, step by step *)

\* FramingOK after a step of an unchanged stream.
LEMMA FramingAfter ==
  ASSUME conf' = conf, NEW ahead, ahead = Ahead',
         Separated /\ fate' # "panicked" =>
           /\ net' \in Seq(Token) /\ buffer' \in Seq(Token)
           /\ iter'.cur \in Seq(Token) /\ Len(iter'.cur) <= 1
           /\ Framed(ahead)
           /\ iter'.cur # << >> /\ ahead # << >> => ~Payload(ahead[1])
           /\ end' = "open" /\ (conf.format = "lines" \/ producer' = "framed") =>
                IF ahead = << >> THEN iter'.cur = << >> ELSE ahead[Len(ahead)] = Mark
  PROVE  FramingOK'
<1>1. Separated' = Separated /\ Mark' = Mark
  BY DEF Separated, Mark
<1>2. \A t : Payload(t)' <=> Payload(t)
  BY <1>1 DEF Payload
<1>3. Framed(ahead) => Framed(Ahead)'
  BY <1>1, <1>2 DEF Framed
<1> QED BY <1>1, <1>2, <1>3 DEF FramingOK, Ready

LEMMA AheadTokens ==
  ASSUME net \in Seq(Token), buffer \in Seq(Token)
  PROVE  Ahead \in Seq(Token) /\ (end = "open" => Ahead = net \o buffer)
BY DEF Ahead

\* What is ahead stays, or the connection is no longer open and a beginning
\* of it does.
LEMMA FramingKept ==
  ASSUME FramingOK, conf' = conf, fate = "panicked" => fate' = "panicked",
         iter' = iter \/ (Separated => iter'.cur \in {iter.cur, << >>}),
         NEW ahead, ahead = Ahead',
         Separated /\ fate' # "panicked" /\ net \in Seq(Token) /\ buffer \in Seq(Token) =>
           /\ net' \in Seq(Token) /\ buffer' \in Seq(Token) /\ ahead \in Seq(Token)
           /\ Len(ahead) <= Len(Ahead)
           /\ \A k \in 1..Len(ahead) :
                ahead[k] = Ahead[k] \/ (k = Len(ahead) /\ ahead[k] = Half(Ahead[k]))
           /\ end' = "open" => ahead = Ahead /\ end = "open" /\
                (producer' = "framed" => producer = "framed")
  PROVE  FramingOK'
<1>1. ASSUME Separated, fate' # "panicked"
      PROVE  /\ net' \in Seq(Token) /\ buffer' \in Seq(Token)
             /\ iter'.cur \in Seq(Token) /\ Len(iter'.cur) <= 1
             /\ Framed(ahead)
             /\ iter'.cur # << >> /\ ahead # << >> => ~Payload(ahead[1])
             /\ end' = "open" /\ (conf.format = "lines" \/ producer' = "framed") =>
                  IF ahead = << >> THEN iter'.cur = << >> ELSE ahead[Len(ahead)] = Mark
  <2>1. /\ net \in Seq(Token) /\ buffer \in Seq(Token)
        /\ iter.cur \in Seq(Token) /\ Len(iter.cur) <= 1
        /\ Framed(Ahead)
        /\ iter.cur # << >> /\ Ahead # << >> => ~Payload(Ahead[1])
        /\ end = "open" /\ (conf.format = "lines" \/ producer = "framed") => Ready
    BY <1>1 DEF FramingOK
  <2>2. /\ net' \in Seq(Token) /\ buffer' \in Seq(Token) /\ ahead \in Seq(Token)
        /\ Len(ahead) <= Len(Ahead)
        /\ \A k \in 1..Len(ahead) :
             ahead[k] = Ahead[k] \/ (k = Len(ahead) /\ ahead[k] = Half(Ahead[k]))
        /\ end' = "open" => ahead = Ahead /\ end = "open" /\
             (producer' = "framed" => producer = "framed")
    BY <1>1, <2>1
  <2>3. Ahead \in Seq(Token)
    BY <2>1, AheadTokens
  <2>4. Framed(ahead) /\ (ahead # << >> => Ahead # << >> /\ (Payload(ahead[1]) <=> Payload(Ahead[1])))
    BY <2>1, <2>2, <2>3, PrefixFramed
  <2>5. iter'.cur = iter.cur \/ iter'.cur = << >>
    BY <1>1
  <2>6. iter'.cur \in Seq(Token) /\ Len(iter'.cur) <= 1
    <3>1. CASE iter'.cur = iter.cur
      BY <2>1, <3>1
    <3>2. CASE iter'.cur = << >>
      <4>1. << >> \in Seq(Token) /\ Len(<< >>) = 0
        OBVIOUS
      <4> QED BY <3>2, <4>1
    <3> QED BY <2>5, <3>1, <3>2
  <2>7. iter'.cur # << >> /\ ahead # << >> => ~Payload(ahead[1])
    BY <2>1, <2>4, <2>5
  <2>8. end' = "open" /\ (conf.format = "lines" \/ producer' = "framed") =>
          IF ahead = << >> THEN iter'.cur = << >> ELSE ahead[Len(ahead)] = Mark
    BY <2>1, <2>2, <2>5 DEF Ready
  <2> QED BY <2>2, <2>4, <2>6, <2>7, <2>8
<1> QED BY <1>1, FramingAfter

\* More is written.
LEMMA FramingWritten ==
  ASSUME FramingOK, conf' = conf, fate' = fate, iter' = iter, end' = end,
         NEW R, NEW ahead, ahead = Ahead',
         Separated /\ fate # "panicked" =>
           /\ net' \in Seq(Token) /\ buffer' \in Seq(Token)
           /\ ahead = IF end = "open" THEN Ahead \o R ELSE Ahead
           /\ R \in Seq(Token) /\ R # << >> /\ Framed(R)
           /\ Payload(R[1]) => conf.format = "lines" \/ producer = "framed"
           /\ conf.format = "lines" \/ producer' = "framed" => R[Len(R)] = Mark
  PROVE  FramingOK'
<1>1. ASSUME Separated, fate' # "panicked"
      PROVE  /\ net' \in Seq(Token) /\ buffer' \in Seq(Token)
             /\ iter'.cur \in Seq(Token) /\ Len(iter'.cur) <= 1
             /\ Framed(ahead)
             /\ iter'.cur # << >> /\ ahead # << >> => ~Payload(ahead[1])
             /\ end' = "open" /\ (conf.format = "lines" \/ producer' = "framed") =>
                  IF ahead = << >> THEN iter'.cur = << >> ELSE ahead[Len(ahead)] = Mark
  <2>1. /\ net \in Seq(Token) /\ buffer \in Seq(Token)
        /\ iter.cur \in Seq(Token) /\ Len(iter.cur) <= 1
        /\ Framed(Ahead)
        /\ iter.cur # << >> /\ Ahead # << >> => ~Payload(Ahead[1])
        /\ end = "open" /\ (conf.format = "lines" \/ producer = "framed") => Ready
    BY <1>1 DEF FramingOK
  <2>2. /\ net' \in Seq(Token) /\ buffer' \in Seq(Token)
        /\ ahead = IF end = "open" THEN Ahead \o R ELSE Ahead
        /\ R \in Seq(Token) /\ R # << >> /\ Framed(R)
        /\ Payload(R[1]) => conf.format = "lines" \/ producer = "framed"
        /\ conf.format = "lines" \/ producer' = "framed" => R[Len(R)] = Mark
    BY <1>1
  <2>3. Ahead \in Seq(Token)
    BY <2>1, AheadTokens
  <2>4. CASE end = "open"
    <3>1. Payload(R[1]) => IF Ahead = << >> THEN iter.cur = << >> ELSE Ahead[Len(Ahead)] = Mark
      BY <2>1, <2>2, <2>4 DEF Ready
    <3>2. ahead = Ahead \o R
      BY <2>2, <2>4
    <3>3. /\ Framed(Ahead \o R) /\ Ahead \o R # << >>
          /\ (Ahead \o R)[Len(Ahead \o R)] = R[Len(R)]
          /\ (Ahead \o R)[1] = IF Ahead = << >> THEN R[1] ELSE Ahead[1]
      BY <2>1, <2>2, <2>3, <3>1, AppendFramed
    <3>4. /\ Framed(ahead) /\ ahead # << >> /\ ahead[Len(ahead)] = R[Len(R)]
          /\ ahead[1] = IF Ahead = << >> THEN R[1] ELSE Ahead[1]
      BY <3>2, <3>3
    <3>5. iter'.cur # << >> => ~Payload(ahead[1])
      BY <2>1, <3>1, <3>4
    <3> QED BY <2>1, <2>2, <3>4, <3>5
  <2>5. CASE end # "open"
    BY <2>1, <2>2, <2>5
  <2> QED BY <2>4, <2>5
<1> QED BY <1>1, FramingAfter

\* The next token is read.
LEMMA FramingTaken ==
  ASSUME FramingOK, IterOK(iter), DecodersAgree, conf' = conf, fate' = fate, producer' = producer,
         end' = end, buffer' = buffer, net # << >>, net' = Tail(net),
         Separated /\ fate # "panicked" => iter' = ClientNext(iter, Head(net))
  PROVE  FramingOK'
<1> DEFINE ahead == Ahead'
<1>1. ASSUME Separated, fate' # "panicked"
      PROVE  /\ net' \in Seq(Token) /\ buffer' \in Seq(Token)
             /\ iter'.cur \in Seq(Token) /\ Len(iter'.cur) <= 1
             /\ Framed(ahead)
             /\ iter'.cur # << >> /\ ahead # << >> => ~Payload(ahead[1])
             /\ end' = "open" /\ (conf.format = "lines" \/ producer' = "framed") =>
                  IF ahead = << >> THEN iter'.cur = << >> ELSE ahead[Len(ahead)] = Mark
  <2> DEFINE t == Head(net)
             n == Len(Ahead)
  <2>1. /\ net \in Seq(Token) /\ buffer \in Seq(Token)
        /\ iter.cur \in Seq(Token) /\ Len(iter.cur) <= 1
        /\ Framed(Ahead)
        /\ iter.cur # << >> /\ Ahead # << >> => ~Payload(Ahead[1])
        /\ end = "open" /\ (conf.format = "lines" \/ producer = "framed") => Ready
    BY <1>1 DEF FramingOK
  <2>2. Ahead \in Seq(Token) /\ n \in Nat
    BY <2>1, AheadTokens
  <2>3. /\ net' \in Seq(Token) /\ t \in Token /\ Len(net) \in Nat \ {0}
        /\ Len(net') = Len(net) - 1 /\ \A k \in 1..Len(net') : net'[k] = net[k + 1]
        /\ t = net[1]
    BY <2>1
  <2>4. ahead = IF end = "open" THEN net' \o buffer ELSE net'
    BY DEF Ahead
  <2>5. /\ ahead \in Seq(Token) /\ n > 0 /\ Len(ahead) = n - 1 /\ Ahead[1] = t
        /\ \A k \in 1..Len(ahead) : ahead[k] = Ahead[k + 1]
    <3>1. CASE end = "open"
      <4>1. ahead = net' \o buffer /\ Ahead = net \o buffer
        BY <2>4, <3>1 DEF Ahead
      <4> HIDE DEF ahead
      <4> QED BY <2>1, <2>3, <4>1
    <3>2. CASE end # "open"
      <4>1. ahead = net' /\ Ahead = net
        BY <2>4, <3>2 DEF Ahead
      <4> HIDE DEF ahead
      <4> QED BY <2>1, <2>3, <4>1
    <3> QED BY <3>1, <3>2
  <2> HIDE DEF ahead, n, t
  <2>6. Ahead # << >>
    BY <2>2, <2>5 DEF n
  <2>7. iter' = ClientNext(iter, t) /\ (iter.cur # << >> => ~Payload(t))
    BY <1>1, <2>1, <2>5, <2>6 DEF t
  <2>8. iter'.cur \in Seq(Token) /\ Len(iter'.cur) <= 1 /\ (iter'.cur # << >> => t # Mark)
    BY <1>1, <2>1, <2>3, <2>7, CurIs
  <2>9. Framed(ahead)
    <3> SUFFICES ASSUME NEW k \in 2..Len(ahead), Payload(ahead[k])
                 PROVE  ahead[k - 1] = Mark
      BY DEF Framed
    <3>1. k + 1 \in 2..Len(Ahead) /\ k \in 1..Len(ahead) /\ k - 1 \in 1..Len(ahead)
      BY <2>2, <2>5 DEF n
    <3>2. ahead[k] = Ahead[k + 1] /\ ahead[k - 1] = Ahead[(k - 1) + 1]
      BY <2>5, <3>1
    <3>3. Payload(Ahead[k + 1])
      BY <3>2
    <3>4. Ahead[(k + 1) - 1] = Mark
      BY <2>1, <3>1, <3>3 DEF Framed
    <3>5. (k + 1) - 1 = (k - 1) + 1
      BY <3>1
    <3> QED BY <3>2, <3>4, <3>5
  <2>10. iter'.cur # << >> /\ ahead # << >> => ~Payload(ahead[1])
    <3> SUFFICES ASSUME ahead # << >>, Payload(ahead[1]) PROVE t = Mark
      BY <2>8
    <3>1. 2 \in 2..Len(Ahead) /\ ahead[1] = Ahead[2]
      BY <2>2, <2>5 DEF n
    <3> QED BY <2>1, <2>5, <3>1 DEF Framed
  <2>11. end = "open" /\ (conf.format = "lines" \/ producer = "framed") =>
           IF ahead = << >> THEN iter'.cur = << >> ELSE ahead[Len(ahead)] = Mark
    <3> SUFFICES ASSUME end = "open", conf.format = "lines" \/ producer = "framed"
                 PROVE  IF ahead = << >> THEN iter'.cur = << >> ELSE ahead[Len(ahead)] = Mark
      OBVIOUS
    <3>1. Ahead[n] = Mark
      BY <2>1, <2>6 DEF Ready, n
    <3>2. CASE ahead = << >>
      <4>1. n = 1
        BY <2>2, <2>5, <3>2
      <4> QED BY <2>5, <2>8, <3>1, <3>2, <4>1
    <3>3. CASE ahead # << >>
      <4>1. Len(ahead) \in 1..Len(ahead) /\ Len(ahead) + 1 = n
        BY <2>2, <2>5, <3>3
      <4> QED BY <2>5, <3>1, <3>3, <4>1
    <3> QED BY <3>2, <3>3
  <2> QED BY <2>1, <2>3, <2>8, <2>9, <2>10, <2>11
<1> QED BY <1>1, FramingAfter

-----------------------------------------------------------------------------
(* The actions *)

\* What WriteOut does to what is ahead.
LEMMA WriteOutIs ==
  ASSUME NEW tokens \in Seq(Token), NEW flushes, WriteOut(tokens, flushes), end' = end,
         net \in Seq(Token), buffer \in Seq(Token)
  PROVE  /\ net' \in Seq(Token) /\ buffer' \in Seq(Token)
         /\ Ahead' = IF end = "open" THEN Ahead \o tokens ELSE Ahead
<1>1. buffer \o tokens \in Seq(Token) /\ << >> \in Seq(Token)
  OBVIOUS
<1>2. net \o (buffer \o tokens) = (net \o buffer) \o tokens
  OBVIOUS
<1>3. CASE conf.flusher /\ flushes
  <2>1. net' = OnNet(buffer \o tokens) /\ buffer' = << >>
    BY <1>3 DEF WriteOut
  <2>2. CASE end = "open"
    <3>1. net' = net \o (buffer \o tokens)
      BY <2>1, <2>2 DEF OnNet
    <3>2. net' \in Seq(Token)
      BY <1>1, <3>1
    <3>3. Ahead' = net'
      BY <2>1, <2>2, <3>2 DEF Ahead
    <3>4. Ahead = net \o buffer
      BY <2>2 DEF Ahead
    <3> QED BY <1>1, <1>2, <2>1, <2>2, <3>1, <3>2, <3>3, <3>4
  <2>3. CASE end # "open"
    <3>1. net' = net
      BY <2>1, <2>3 DEF OnNet
    <3> QED BY <1>1, <2>1, <2>3, <3>1 DEF Ahead
  <2> QED BY <2>2, <2>3
<1>4. CASE ~(conf.flusher /\ flushes)
  <2>1. net' = net /\ buffer' = buffer \o tokens
    BY <1>4 DEF WriteOut
  <2> QED BY <1>1, <1>2, <2>1 DEF Ahead
<1> QED BY <1>3, <1>4

\* The frame of a value in the formats that separate them.
LEMMA FrameIs ==
  ASSUME Separated, NEW v \in Values
  PROVE  /\ Frame(v) \in Seq(Token) /\ Frame(v) # << >> /\ Framed(Frame(v))
         /\ Payload(Frame(v)[1]) => conf.format = "lines"
         /\ conf.format = "lines" => Frame(v)[Len(Frame(v))] = Mark
<1> DEFINE item == <<"item", v, "">>
<1>1. item \in Token /\ Rs \in Token /\ Nl \in Token /\ ~Payload(Mark) /\ ~Payload(Nl)
  BY Tokens DEF Values, Separated
<1> HIDE DEF item
<1>2. CASE conf.format = "lines"
  <2>1. Frame(v) = <<item, Nl>>
    BY <1>2 DEF Frame, item
  <2> HIDE DEF Frame
  <2> QED BY <1>1, <1>2, <2>1 DEF Framed, Mark
<1>3. CASE conf.format = "rs"
  <2>1. Frame(v) = <<Rs, item, Nl>>
    BY <1>3 DEF Frame, item
  <2>2. Mark = Rs
    BY <1>3 DEF Mark
  <2> HIDE DEF Frame
  <2> QED BY <1>1, <1>3, <2>1, <2>2 DEF Framed
<1> QED BY <1>2, <1>3 DEF Separated

\* What is ahead stays as it is.
LEMMA SameAhead ==
  ASSUME FramingOK, conf' = conf, fate = "panicked" => fate' = "panicked", iter' = iter,
         Separated /\ net \in Seq(Token) /\ buffer \in Seq(Token) =>
           net' \in Seq(Token) /\ buffer' \in Seq(Token) /\ Ahead' = Ahead,
         end' = end \/ end = "open", producer' = "framed" => producer = "framed"
  PROVE  FramingOK'
<1> DEFINE ahead == Ahead'
<1>1. Separated /\ fate' # "panicked" /\ net \in Seq(Token) /\ buffer \in Seq(Token) =>
           /\ net' \in Seq(Token) /\ buffer' \in Seq(Token) /\ ahead \in Seq(Token)
           /\ Len(ahead) <= Len(Ahead)
           /\ \A k \in 1..Len(ahead) :
                ahead[k] = Ahead[k] \/ (k = Len(ahead) /\ ahead[k] = Half(Ahead[k]))
           /\ end' = "open" => ahead = Ahead /\ end = "open" /\
                (producer' = "framed" => producer = "framed")
  <2> SUFFICES ASSUME Separated, net \in Seq(Token), buffer \in Seq(Token)
               PROVE  /\ net' \in Seq(Token) /\ buffer' \in Seq(Token) /\ ahead \in Seq(Token)
                      /\ Len(ahead) <= Len(Ahead)
                      /\ \A k \in 1..Len(ahead) : ahead[k] = Ahead[k]
                      /\ ahead = Ahead
    OBVIOUS
  <2>1. Ahead \in Seq(Token) /\ ahead = Ahead
    BY AheadTokens
  <2> HIDE DEF ahead
  <2> QED BY <2>1
<1> HIDE DEF ahead
<1> QED BY <1>1, FramingKept DEF ahead

\* The connection is no longer open: what is ahead is what is on it, or a
\* beginning of that.
LEMMA Shortened ==
  ASSUME FramingOK, conf' = conf, fate = "panicked" => fate' = "panicked",
         iter' = iter \/ (Separated => iter'.cur \in {iter.cur, << >>}),
         net' = net, buffer' = buffer \/ buffer' = << >>, end' # "open"
  PROVE  FramingOK'
<1> DEFINE ahead == Ahead'
<1>1. ASSUME net \in Seq(Token), buffer \in Seq(Token)
      PROVE  /\ net' \in Seq(Token) /\ buffer' \in Seq(Token) /\ ahead \in Seq(Token)
             /\ Len(ahead) <= Len(Ahead)
             /\ \A k \in 1..Len(ahead) : ahead[k] = Ahead[k]
  <2>1. ahead = net
    BY DEF Ahead
  <2> HIDE DEF ahead
  <2>2. << >> \in Seq(Token)
    OBVIOUS
  <2>3. Len(net) <= Len(Ahead) /\ \A k \in 1..Len(net) : net[k] = Ahead[k]
    <3>1. CASE end = "open"
      BY <1>1, <3>1 DEF Ahead
    <3>2. CASE end # "open"
      BY <1>1, <3>2 DEF Ahead
    <3> QED BY <3>1, <3>2
  <2> QED BY <1>1, <2>1, <2>2, <2>3
<1> HIDE DEF ahead
<1> QED BY <1>1, FramingKept DEF ahead

-----------------------------------------------------------------------------
(* The invariant is inductive *)

LEMMA InitOK == Init => IInv
<1> SUFFICES ASSUME Init PROVE IInv
  OBVIOUS
<1>0. /\ producer = "fresh" /\ fate = "" /\ sent = << >> /\ buffer = << >> /\ pipe = "open"
      /\ net = << >> /\ end = "open" /\ iter = Unread /\ twin = Unread /\ reader = "reading"
  BY DEF Init
<1>1. StateOK
  <2>1. sent \in Seq(Values)
    <3>1. << >> \in Seq(Values)
      OBVIOUS
    <3> QED BY <1>0, <3>1
  <2>2. ConfOK
    BY DEF Init, ConfOK
  <2> QED BY <1>0, <2>1, <2>2 DEF StateOK
<1>2. IterOK(iter)
  <2>1. \A k \in 1..Len(<< >>) : FALSE
    OBVIOUS
  <2>2. << >> = [k \in 1..Len(<< >>) |-> << >>[k]] /\ Len(<< >>) \in Nat
    OBVIOUS
  <2> QED BY <1>0, <2>1, <2>2 DEF IterOK, Unread
<1>3. FramingOK
  <2>1. << >> \in Seq(Token) /\ Len(<< >>) = 0 /\ << >> \o << >> = << >>
    OBVIOUS
  <2>2. Ahead = << >> /\ iter.cur = << >>
    BY <1>0, <2>1 DEF Ahead, Unread
  <2>3. Framed(<< >>)
    <3>1. 2..Len(<< >>) = {}
      OBVIOUS
    <3> QED BY <3>1 DEF Framed
  <2>4. Framed(Ahead) /\ Ready /\ ~(iter.cur # << >>)
    BY <2>2, <2>3 DEF Ready
  <2>5. net \in Seq(Token) /\ buffer \in Seq(Token)
    BY <1>0, <2>1
  <2>6. iter.cur \in Seq(Token) /\ Len(iter.cur) <= 1
    BY <2>1, <2>2
  <2> QED BY <2>4, <2>5, <2>6 DEF FramingOK
<1>4. DecodersAgree
  BY <1>0 DEF DecodersAgree
<1> QED BY <1>1, <1>2, <1>3, <1>4 DEF IInv

\* Every step leaves the state in its sets; after a panic nobody writes.
LEMMA StateKept == StateOK /\ [Next]_vars => StateOK'
<1> SUFFICES ASSUME StateOK, [Next]_vars PROVE StateOK'
  OBVIOUS
<1>0. /\ sent \in Seq(Values)
      /\ conf' = conf => ConfOK' /\ Values' = Values /\ Down' = Down /\ Up' = Up
  BY DEF StateOK, ConfOK, Values, Down, Up
<1>1. ASSUME NEW v \in Values, ServerSend(v) PROVE StateOK'
  <2>1. Append(sent, v) \in Seq(Values)
    BY <1>0
  <2>2. /\ conf' = conf /\ fate' = fate /\ pipe' = pipe /\ end' = end /\ reader' = reader
        /\ sent' = Append(sent, v) /\ producer' = "open" /\ fate # "panicked"
    BY <1>1 DEF ServerSend, Writing, Handling, StateOK
  <2>3. ConfOK' /\ Values' = Values /\ Down' = Down /\ Up' = Up
    BY <1>0, <2>2
  <2> QED BY <2>1, <2>2, <2>3 DEF StateOK
<1>2. CASE ServerSendFails \/ ServerFlush \/ ServerClose \/ Spill
  <2>1. /\ conf' = conf /\ fate' = fate /\ pipe' = pipe /\ end' = end /\ reader' = reader
        /\ sent' = sent /\ producer' \in {producer, "open", "closed"}
        /\ producer' = producer \/ fate # "panicked"
    BY <1>2 DEF ServerSendFails, ServerFlush, ServerClose, Spill, Writing, Handling, StateOK
  <2>2. ConfOK' /\ Values' = Values /\ Down' = Down /\ Up' = Up
    BY <1>0, <2>1
  <2> QED BY <2>1, <2>2 DEF StateOK
<1>3. ASSUME NEW v \in Items, ServerPartFails(v) PROVE StateOK'
  <2>1. /\ conf' = conf /\ fate' = "failed" /\ pipe' = pipe /\ end' = end /\ reader' = reader
        /\ sent' = sent /\ producer' = "open"
    BY <1>3 DEF ServerPartFails
  <2>2. ConfOK' /\ Values' = Values /\ Down' = Down /\ Up' = Up
    BY <1>0, <2>1
  <2> QED BY <2>1, <2>2 DEF StateOK
<1>4. CASE ServerEnds
  <2>1. /\ conf' = conf /\ pipe' = pipe /\ end' \in {end, "eof", "error"} /\ reader' = reader
        /\ sent' = sent /\ producer' = "gone" /\ fate' \in {fate, "whole", "panicked", "failed"}
        /\ Down
    BY <1>4 DEF ServerEnds, ServerReturns, ServerPanics, ServerAborts, Respond, Handling
  <2>2. ConfOK' /\ Values' = Values /\ Down' = Down /\ Up' = Up
    BY <1>0, <2>1
  <2> QED BY <2>1, <2>2 DEF StateOK
<1>5. CASE ClientFrames
  <2>1. /\ conf' = conf /\ fate' = fate /\ pipe' = pipe /\ end' = end /\ reader' = reader
        /\ sent' = sent /\ producer' = "framed" /\ Up /\ conf.format = "rs" /\ fate # "panicked"
    BY <1>5 DEF ClientFrames, Encoding, StateOK, Down, Up
  <2>2. ConfOK' /\ Values' = Values /\ Down' = Down /\ Up' = Up
    BY <1>0, <2>1
  <2> QED BY <2>1, <2>2 DEF StateOK
<1>6. ASSUME NEW v \in Items, ClientEncodes(v) PROVE StateOK'
  <2>0. v \in Values
    BY <1>6, ConfIs DEF Values, ClientEncodes, Encoding, Separated, StateOK
  <2>1. Append(sent, v) \in Seq(Values)
    BY <1>0, <2>0
  <2>2. /\ conf' = conf /\ fate' = fate /\ pipe' = pipe /\ end' = end /\ reader' = reader
        /\ sent' = Append(sent, v) /\ producer' = "open" /\ fate # "panicked"
    BY <1>6 DEF ClientEncodes, Encoding, StateOK, Down, Up
  <2>3. ConfOK' /\ Values' = Values /\ Down' = Down /\ Up' = Up
    BY <1>0, <2>2
  <2> QED BY <2>1, <2>2, <2>3 DEF StateOK
<1>7. CASE ClientFails \/ ClientEnds \/ ClientWriteFails
  <2>1. /\ conf' = conf /\ fate' \in {"failed", "whole"} /\ pipe' \in {pipe, "error", "eof"}
        /\ end' = end /\ reader' = reader /\ sent' = sent /\ producer' = "gone"
    BY <1>7 DEF ClientFails, ClientEnds, ClientWriteFails
  <2>2. ConfOK' /\ Values' = Values /\ Down' = Down /\ Up' = Up
    BY <1>0, <2>1
  <2> QED BY <2>1, <2>2 DEF StateOK
<1>8. CASE HookFails
  <2>1. /\ conf' = conf /\ fate' = "hooked" /\ pipe' = pipe
        /\ end' = end /\ reader' = "stopped" /\ sent' = sent /\ producer' = producer
    BY <1>8 DEF HookFails
  <2>2. ConfOK' /\ Values' = Values /\ Down' = Down /\ Up' = Up
    BY <1>0, <2>1
  <2> QED BY <2>1, <2>2 DEF StateOK
<1>9. CASE Transport \/ Stop \/ Cut \/ Read
  <2>1. /\ conf' = conf /\ fate' = fate /\ pipe' \in {pipe, "closed"} /\ producer' = producer
        /\ end' \in {end, "error", "eof"} /\ reader' \in {reader, "stopped", "done"} /\ sent' = sent
    BY <1>9 DEF Transport, TransportCopies, TransportEnds, TransportCloses, Stop, Cut, Read, Take, Finish
  <2>2. ConfOK' /\ Values' = Values /\ Down' = Down /\ Up' = Up
    BY <1>0, <2>1
  <2>3. /\ pipe' \in {"open", "eof", "error", "closed"} /\ end' \in {"open", "eof", "error"}
        /\ reader' \in {"reading", "stopped", "done"}
    BY <2>1 DEF StateOK
  <2> QED BY <2>1, <2>2, <2>3 DEF StateOK
<1>10. CASE UNCHANGED vars
  <2>1. ConfOK' /\ Values' = Values /\ Down' = Down /\ Up' = Up
    BY <1>10, <1>0 DEF vars
  <2> QED BY <1>10, <2>1 DEF vars, StateOK
<1> QED BY <1>1, <1>2, <1>3, <1>4, <1>5, <1>6, <1>7, <1>8, <1>9, <1>10
        DEF Next, ServerWrites, Goroutine

\* The two ways of a step that reads, whichever side it reads on.
Taken ==
  /\ net # << >> /\ ~iter.closed
  /\ net' = Tail(net) /\ end' = end /\ reader' = reader
  /\ iter' = ClientNext(iter, Head(net))

Finished ==
  /\ iter.closed \/ (net = << >> /\ end # "open")
  /\ net' = net /\ end' = (IF end = "open" THEN "error" ELSE end) /\ reader' = "done"
  /\ iter' = ClientLast(iter)

LEMMA ReadSteps ==
  ASSUME IInv, Read
  PROVE  /\ conf' = conf /\ fate' = fate /\ producer' = producer /\ buffer' = buffer
         /\ sent' = sent /\ pipe' = pipe /\ reader = "reading"
         /\ Taken \/ Finished
         /\ fate # "panicked" => twin' = iter'
<1> USE DEF IInv
<1>0. /\ conf' = conf /\ fate' = fate /\ producer' = producer /\ buffer' = buffer
      /\ sent' = sent /\ pipe' = pipe /\ reader = "reading"
  BY DEF Read, Take, Finish
<1>1. Down \/ (Up /\ Separated /\ fate # "panicked")
  BY ConfIs DEF Up, Down, StateOK
<1>2. Separated /\ fate # "panicked" => Len(iter.cur) <= 1 /\ iter.cur \in Seq(Token)
  BY DEF FramingOK
<1>3. fate # "panicked" => twin = iter
  BY DEF DecodersAgree
<1>4. ASSUME NEW t, fate # "panicked" PROVE ClientNext(iter, t) = ServerNext(iter, t)
  BY <1>2, <1>4, SameNext
<1>5. fate # "panicked" => ClientLast(iter) = ServerLast(iter)
  <2>1. iter.closed => conf.format = "multipart"
    BY DEF IterOK
  <2> QED BY <1>2, <2>1, SameLast
<1>6. Up => fate # "panicked"
  BY <1>1 DEF Up, Down
<1>7. CASE net # << >> /\ (Take(ClientNext(iter, Head(net)), ServerNext(twin, Head(net))) \/
                           (Up /\ Take(ServerNext(iter, Head(net)), ClientNext(twin, Head(net)))))
  <2> DEFINE t == Head(net)
  <2>1. /\ net # << >> /\ ~iter.closed /\ net' = Tail(net) /\ end' = end /\ reader' = reader
        /\ \/ iter' = ClientNext(iter, t) /\ twin' = ServerNext(twin, t)
           \/ Up /\ iter' = ServerNext(iter, t) /\ twin' = ClientNext(twin, t)
    BY <1>7 DEF Take
  <2> HIDE DEF t
  <2>2. iter' = ClientNext(iter, t) /\ (fate # "panicked" => twin' = iter')
    BY <1>3, <1>4, <1>6, <2>1
  <2> QED BY <1>0, <2>1, <2>2 DEF Taken, t
<1>8. CASE Finish(ClientLast(iter), ServerLast(twin)) \/
           (Up /\ Finish(ServerLast(iter), ClientLast(twin)))
  <2>1. /\ iter.closed \/ (net = << >> /\ end # "open")
        /\ net' = net /\ end' = (IF end = "open" THEN "error" ELSE end) /\ reader' = "done"
        /\ \/ iter' = ClientLast(iter) /\ twin' = ServerLast(twin)
           \/ Up /\ iter' = ServerLast(iter) /\ twin' = ClientLast(twin)
    BY <1>8 DEF Finish
  <2>2. iter' = ClientLast(iter) /\ (fate # "panicked" => twin' = iter')
    BY <1>3, <1>5, <1>6, <2>1
  <2> QED BY <1>0, <2>1, <2>2 DEF Finished
<1> QED BY <1>7, <1>8, <1>1 DEF Read, Up, Down

\* What such a step does to the two iterators.
LEMMA ReadIs ==
  ASSUME IInv, Read
  PROVE  IterOK(iter)' /\ DecodersAgree' /\ FramingOK'
<1> USE DEF IInv
<1>0. /\ conf' = conf /\ fate' = fate /\ producer' = producer /\ buffer' = buffer
      /\ Taken \/ Finished
      /\ fate # "panicked" => twin' = iter'
  BY ReadSteps
<1>1. IterOK(iter)'
  <2>1. IterOK(ClientLast(iter)) /\ \A t : IterOK(ClientNext(iter, t))
    BY NextStays, LastStays
  <2>2. \A it : IterOK(it) /\ iter' = it => IterOK(iter)'
    BY <1>0 DEF IterOK
  <2> QED BY <1>0, <2>1, <2>2 DEF Taken, Finished
<1>2. DecodersAgree'
  BY <1>0 DEF DecodersAgree
<1>3. CASE Taken
  <2>1. net # << >> /\ net' = Tail(net) /\ end' = end /\ iter' = ClientNext(iter, Head(net))
    BY <1>3 DEF Taken
  <2>2. FramingOK'
    BY <1>0, <2>1, FramingTaken
  <2> QED BY <1>1, <1>2, <2>2
<1>4. CASE Finished
  <2>1. /\ net' = net /\ end' # "open" /\ iter' = ClientLast(iter)
    BY <1>4 DEF Finished
  <2>2. CASE Separated /\ fate # "panicked"
    <3>1. iter.cur \in Seq(Token) /\ Len(iter.cur) <= 1
      BY <2>2 DEF FramingOK
    <3>2. iter'.cur \in {iter.cur, << >>}
      BY <2>1, <2>2, <3>1, LastCur
    <3>3. FramingOK'
      BY <1>0, <2>1, <3>2, Shortened
    <3> QED BY <1>1, <1>2, <3>3
  <2>3. CASE ~(Separated /\ fate # "panicked")
    <3>1. FramingOK'
      BY <1>0, <2>3 DEF FramingOK, Separated
    <3> QED BY <1>1, <1>2, <3>1
  <2> QED BY <2>2, <2>3
<1> QED BY <1>0, <1>3, <1>4

\* The writing side of the server.
LEMMA ServerWritesFramed ==
  ASSUME IInv, ServerWrites \/ ServerEnds
  PROVE  FramingOK'
<1> USE DEF IInv
<1>0. conf' = conf /\ iter' = iter /\ Separated' = Separated
  BY DEF ServerWrites, ServerSend, ServerSendFails, ServerFlush, ServerClose, Spill, ServerPartFails,
         ServerEnds, ServerReturns, ServerPanics, ServerAborts, Respond, Separated
<1>1. ~Separated \/ fate' = "panicked" => FramingOK'
  BY <1>0 DEF FramingOK
<1>2. Separated /\ fate # "panicked" => net \in Seq(Token) /\ buffer \in Seq(Token)
  BY DEF FramingOK
<1>3. fate = "panicked" => producer = "gone"
  BY DEF StateOK
<1>4. << >> \in Seq(Token) /\ \A s \in Seq(Token) : s \o << >> = s
  OBVIOUS
<1>5. ASSUME NEW v \in Values, ServerSend(v), Separated
      PROVE  FramingOK'
  <2>1. /\ WriteOut(Frame(v), TRUE) /\ end' = end /\ fate' = fate /\ fate # "panicked"
        /\ producer' = "open"
    BY <1>3, <1>5 DEF ServerSend, Writing, Handling
  <2>2. /\ Frame(v) \in Seq(Token) /\ Frame(v) # << >> /\ Framed(Frame(v))
        /\ Payload(Frame(v)[1]) => conf.format = "lines"
        /\ conf.format = "lines" => Frame(v)[Len(Frame(v))] = Mark
    BY <1>5, FrameIs
  <2>3. /\ net' \in Seq(Token) /\ buffer' \in Seq(Token)
        /\ Ahead' = IF end = "open" THEN Ahead \o Frame(v) ELSE Ahead
    BY <1>2, <1>5, <2>1, <2>2, WriteOutIs
  <2> DEFINE ahead == Ahead'
             R == Frame(v)
  <2>4. ahead = Ahead'
    OBVIOUS
  <2>5. /\ net' \in Seq(Token) /\ buffer' \in Seq(Token)
        /\ ahead = IF end = "open" THEN Ahead \o R ELSE Ahead
        /\ R \in Seq(Token) /\ R # << >> /\ Framed(R)
        /\ Payload(R[1]) => conf.format = "lines" \/ producer = "framed"
        /\ conf.format = "lines" \/ producer' = "framed" => R[Len(R)] = Mark
    BY <2>1, <2>2, <2>3
  <2> HIDE DEF ahead, R
  <2> QED BY <1>0, <2>1, <2>4, <2>5, FramingWritten
<1>6. ASSUME ServerFlush \/ ServerClose, Separated
      PROVE  FramingOK'
  <2>1. /\ WriteOut(<< >>, TRUE) /\ end' = end /\ fate' = fate /\ fate # "panicked"
        /\ producer' = producer \/ producer' = "closed"
    BY <1>3, <1>6 DEF ServerFlush, ServerClose, Writing, Handling, Separated
  <2>2. /\ net' \in Seq(Token) /\ buffer' \in Seq(Token)
        /\ Ahead' = IF end = "open" THEN Ahead \o << >> ELSE Ahead
    BY <1>2, <1>4, <1>6, <2>1, WriteOutIs
  <2>3. Ahead \in Seq(Token)
    BY <1>2, <1>6, <2>1, AheadTokens
  <2>4. Ahead' = Ahead
    BY <1>4, <2>2, <2>3
  <2> QED BY <1>0, <2>1, <2>2, <2>4, SameAhead
<1>7. ASSUME ServerSendFails, Separated
      PROVE  FramingOK'
  <2>1. /\ net' = net /\ buffer' = buffer /\ end' = end /\ fate' = fate
        /\ producer' = "open"
    BY <1>7 DEF ServerSendFails
  <2>2. Ahead' = Ahead
    BY <2>1 DEF Ahead
  <2> QED BY <1>0, <2>1, <2>2, SameAhead
<1>8. ASSUME Spill \/ ServerReturns, Separated, fate # "panicked"
      PROVE  FramingOK'
  <2>0. buffer \o << >> = buffer
    BY <1>2, <1>4, <1>8
  <2>1. /\ net' = OnNet(buffer) /\ buffer' = << >> /\ (end' = end \/ end = "open")
        /\ (end # "open" => end' = end) /\ producer' \in {producer, "gone"}
    BY <1>8, <2>0 DEF Spill, ServerReturns, Respond
  <2>2. net' \in Seq(Token) /\ buffer' \in Seq(Token) /\ net' \o << >> = net'
    <3>1. net' = net \/ net' = net \o buffer
      BY <2>1 DEF OnNet
    <3>2. net \in Seq(Token) /\ net \o buffer \in Seq(Token)
      BY <1>2, <1>8
    <3>3. net' \in Seq(Token)
      BY <3>1, <3>2
    <3> QED BY <1>4, <2>1, <3>3
  <2>3. Ahead' = Ahead
    BY <2>1, <2>2 DEF Ahead, OnNet
  <2> QED BY <1>0, <1>8, <2>1, <2>2, <2>3, SameAhead
<1>9. ASSUME Spill, fate = "panicked"
      PROVE  FramingOK'
  BY <1>1, <1>9 DEF Spill
<1>10. ASSUME ServerAborts
       PROVE  FramingOK'
  <2>1. /\ net' = net /\ buffer' = << >> /\ end' # "open" /\ fate # "panicked"
    BY <1>3, <1>10 DEF ServerAborts, Handling
  <2> QED BY <1>0, <2>1, Shortened
<1>11. ASSUME NEW v \in Items, ServerPartFails(v)
       PROVE  FramingOK'
  BY <1>1, <1>11 DEF ServerPartFails, Separated
<1>12. ServerPanics => FramingOK'
  BY <1>1 DEF ServerPanics
<1>13. ServerReturns => fate # "panicked"
  BY <1>3 DEF ServerReturns, Handling
<1> QED BY <1>1, <1>5, <1>6, <1>7, <1>8, <1>9, <1>10, <1>11, <1>12, <1>13
        DEF ServerWrites, ServerEnds

\* The goroutine, the transport, and what ends the connection.
LEMMA ClientWritesFramed ==
  ASSUME IInv, Goroutine \/ HookFails \/ Transport \/ Stop \/ Cut \/ UNCHANGED vars
  PROVE  FramingOK'
<1> USE DEF IInv
<1>0. conf' = conf /\ iter' = iter
  BY DEF Goroutine, ClientFrames, ClientEncodes, ClientFails, ClientEnds, ClientWriteFails, HookFails,
         Transport, TransportCopies, TransportEnds, TransportCloses, Stop, Cut, vars
<1>1. ~Separated \/ fate' = "panicked" => FramingOK'
  BY <1>0 DEF FramingOK, Separated
<1>2. Separated /\ fate # "panicked" => net \in Seq(Token) /\ buffer \in Seq(Token)
  BY DEF FramingOK
<1>3. Up => Separated /\ fate # "panicked"
  BY ConfIs DEF StateOK, Up, Down
<1>4. << >> \in Seq(Token) /\ \A s \in Seq(Token) : s \o << >> = s
  OBVIOUS
<1>5. ASSUME NEW R \in Seq(Token), PipeTakes, buffer' = R, net' = net, end' = end, Up
      PROVE  /\ net' \in Seq(Token) /\ buffer' \in Seq(Token)
             /\ Ahead' = IF end = "open" THEN Ahead \o R ELSE Ahead
  <2>1. net \o << >> = net /\ buffer = << >> /\ net \in Seq(Token)
    BY <1>2, <1>3, <1>4, <1>5 DEF PipeTakes
  <2> QED BY <1>5, <2>1 DEF Ahead
<1>6. CASE ClientFrames
  <2> DEFINE R == <<Rs>>
             ahead == Ahead'
  <2>1. /\ PipeTakes /\ buffer' = R /\ net' = net /\ end' = end /\ Up /\ fate' = fate
        /\ conf.format = "rs"
    BY <1>6 DEF ClientFrames, Encoding
  <2>2. /\ R \in Seq(Token) /\ R # << >> /\ Framed(R) /\ ~Payload(R[1]) /\ R[Len(R)] = Mark
    <3>1. Rs \in Token /\ Mark = Rs /\ ~Payload(Rs)
      BY <2>1, Tokens DEF Mark
    <3>2. R \in Seq(Token) /\ R # << >> /\ Len(R) = 1 /\ R[1] = Rs
      BY <3>1
    <3>3. 2..Len(R) = {}
      BY <3>2
    <3> QED BY <3>1, <3>2, <3>3 DEF Framed
  <2>3. /\ net' \in Seq(Token) /\ buffer' \in Seq(Token)
        /\ ahead = IF end = "open" THEN Ahead \o R ELSE Ahead
    BY <1>5, <2>1, <2>2
  <2>4. ahead = Ahead'
    OBVIOUS
  <2> HIDE DEF R, ahead
  <2> QED BY <1>0, <2>1, <2>2, <2>3, <2>4, FramingWritten
<1>7. ASSUME NEW v \in Items, ClientEncodes(v)
      PROVE  FramingOK'
  <2> DEFINE item == <<"item", v, "">>
             R == <<item, Nl>>
             ahead == Ahead'
  <2>1. /\ PipeTakes /\ buffer' = R /\ net' = net /\ end' = end /\ Up /\ fate' = fate
        /\ conf.format = "rs" => producer = "framed"
        /\ producer' = "open"
    BY <1>7 DEF ClientEncodes, Encoding
  <2>2. item \in Token /\ Nl \in Token /\ ~Payload(Nl)
    BY Tokens
  <2> HIDE DEF item
  <2>3. /\ R \in Seq(Token) /\ R # << >> /\ Framed(R) /\ R[Len(R)] = Nl
    BY <2>2 DEF Framed
  <2>4. /\ net' \in Seq(Token) /\ buffer' \in Seq(Token)
        /\ ahead = IF end = "open" THEN Ahead \o R ELSE Ahead
    BY <1>5, <2>1, <2>3
  <2>5. ahead = Ahead'
    OBVIOUS
  <2>6. conf.format = "lines" \/ producer = "framed"
    BY <1>3, <2>1 DEF Separated
  <2>7. conf.format = "lines" => Nl = Mark
    BY DEF Mark
  <2> HIDE DEF R, ahead
  <2> QED BY <1>0, <2>1, <2>3, <2>4, <2>5, <2>6, <2>7, FramingWritten
<1>8. CASE ClientFails \/ ClientEnds \/ ClientWriteFails \/ HookFails \/ UNCHANGED vars
  <2>1. /\ net' = net /\ buffer' = buffer /\ end' = end
        /\ producer' = producer \/ producer' = "gone"
        /\ Up \/ fate' = fate
    BY <1>8 DEF ClientFails, ClientEnds, ClientWriteFails, HookFails, vars, Encoding
  <2>2. Ahead' = Ahead
    BY <2>1 DEF Ahead
  <2> QED BY <1>0, <1>3, <2>1, <2>2, SameAhead
<1>9. CASE TransportCopies
  <2>1. /\ Up /\ end = "open" /\ end' = end /\ net' = net \o buffer /\ buffer' = << >>
        /\ fate' = fate /\ producer' = producer
    BY <1>9 DEF TransportCopies
  <2>2. net' \in Seq(Token) /\ buffer' \in Seq(Token)
    <3>1. net \in Seq(Token) /\ buffer \in Seq(Token)
      BY <1>2, <1>3, <2>1
    <3>2. net \o buffer \in Seq(Token)
      BY <3>1
    <3> QED BY <1>4, <2>1, <3>2
  <2>3. Ahead' = Ahead
    BY <1>4, <2>1, <2>2 DEF Ahead
  <2> QED BY <1>0, <2>1, <2>2, <2>3, SameAhead
<1>10. CASE TransportEnds \/ TransportCloses \/ Stop
  <2>1. /\ net' = net /\ (buffer' = buffer \/ buffer' = << >>) /\ fate' = fate /\ end' # "open"
    BY <1>10 DEF TransportEnds, TransportCloses, Stop
  <2> QED BY <1>0, <2>1, Shortened
<1>11. CASE Cut
  <2> DEFINE ahead == Ahead'
  <2>1. /\ buffer' = buffer /\ fate' = fate /\ end' = "error" /\ end = "open" /\ producer' = producer
    BY <1>11 DEF Cut
  <2>2. PICK k \in 0..Len(net) :
          net' \in {SubSeq(net, 1, k)} \cup
                   (IF k > 0 THEN {Append(SubSeq(net, 1, k - 1), Half(net[k]))} ELSE {})
    BY <1>11 DEF Cut
  <2>3. ASSUME net \in Seq(Token), buffer \in Seq(Token)
        PROVE  /\ net' \in Seq(Token) /\ Len(net') <= Len(net)
               /\ \A j \in 1..Len(net') :
                    net'[j] = net[j] \/ (j = Len(net') /\ net'[j] = Half(net[j]))
    <3>0. Len(net) \in Nat /\ k \in Nat /\ k <= Len(net)
      BY <2>2, <2>3
    <3>1. CASE net' = SubSeq(net, 1, k)
      <4>1. /\ SubSeq(net, 1, k) \in Seq(Token) /\ Len(SubSeq(net, 1, k)) = k
            /\ \A j \in 1..k : SubSeq(net, 1, k)[j] = net[j]
        BY <2>3, <3>0
      <4> QED BY <3>0, <3>1, <4>1
    <3>2. CASE k > 0 /\ net' = Append(SubSeq(net, 1, k - 1), Half(net[k]))
      <4> DEFINE s == SubSeq(net, 1, k - 1)
                 h == Half(net[k])
      <4>1. /\ s \in Seq(Token) /\ Len(s) = k - 1
            /\ \A j \in 1..k - 1 : s[j] = net[j]
        BY <2>3, <3>0, <3>2
      <4>2. h \in Token
        <5>1. net[k] \in Token
          BY <2>3, <3>0, <3>2
        <5> QED BY <5>1, Tokens
      <4> HIDE DEF s
      <4>3. h = Half(net[k])
        OBVIOUS
      <4> HIDE DEF h
      <4>4. /\ Append(s, h) \in Seq(Token) /\ Len(Append(s, h)) = k
            /\ \A j \in 1..k - 1 : Append(s, h)[j] = s[j]
            /\ Append(s, h)[k] = h
        BY <3>0, <3>2, <4>1, <4>2
      <4>5. net' = Append(s, h)
        BY <3>2 DEF s, h
      <4>6. \A j \in 1..k : j \in 1..k - 1 \/ j = k
        BY <3>0
      <4> QED BY <3>0, <4>1, <4>3, <4>4, <4>5, <4>6
    <3> QED BY <2>2, <3>1, <3>2
  <2>4. ahead = net'
    BY <2>1 DEF Ahead
  <2>5. ASSUME net \in Seq(Token), buffer \in Seq(Token)
        PROVE  /\ Ahead = net \o buffer /\ Len(net) <= Len(Ahead)
               /\ \A j \in 1..Len(net) : Ahead[j] = net[j]
    <3>1. Ahead = net \o buffer
      BY <2>1 DEF Ahead
    <3>2. Len(net) <= Len(net \o buffer) /\ \A j \in 1..Len(net) : (net \o buffer)[j] = net[j]
      BY <2>5
    <3> QED BY <3>1, <3>2
  <2>6. ahead = Ahead'
    OBVIOUS
  <2> HIDE DEF ahead
  <2>7. ASSUME net \in Seq(Token), buffer \in Seq(Token)
        PROVE  /\ net' \in Seq(Token) /\ buffer' \in Seq(Token) /\ ahead \in Seq(Token)
               /\ Len(ahead) <= Len(Ahead)
               /\ \A j \in 1..Len(ahead) :
                    ahead[j] = Ahead[j] \/ (j = Len(ahead) /\ ahead[j] = Half(Ahead[j]))
    <3>1. Len(net) \in Nat /\ Len(Ahead) \in Nat /\ Len(net') \in Nat
      <4>1. net \o buffer \in Seq(Token)
        BY <2>7
      <4> QED BY <2>3, <2>5, <2>7, <4>1
    <3>2. \A j \in 1..Len(net') : j \in 1..Len(net)
      BY <2>3, <2>7, <3>1
    <3> QED BY <2>1, <2>3, <2>4, <2>5, <2>7, <3>1, <3>2
  <2> QED BY <1>0, <2>1, <2>6, <2>7, FramingKept
<1> QED BY <1>6, <1>7, <1>8, <1>9, <1>10, <1>11 DEF Goroutine, Transport

\* After a panic there is no other fate.
LEMMA PanicStays ==
  ASSUME StateOK, [Next]_vars, fate = "panicked"
  PROVE  fate' = "panicked"
<1> USE DEF StateOK, Down, Up
<1>1. CASE ServerWrites \/ ServerEnds
  BY <1>1 DEF ServerWrites, ServerSend, ServerSendFails, ServerFlush, ServerClose, Spill,
    ServerPartFails, ServerEnds, ServerReturns, ServerPanics, ServerAborts, Respond, Writing, Handling
<1>2. CASE Goroutine \/ HookFails \/ Transport \/ Stop \/ Cut \/ UNCHANGED vars
  BY <1>2 DEF Goroutine, ClientFrames, ClientEncodes, ClientFails, ClientEnds, ClientWriteFails,
    HookFails, Encoding, Transport, TransportCopies, TransportEnds, TransportCloses, Stop, Cut, vars
<1>3. CASE Read
  BY <1>3 DEF Read, Take, Finish
<1> QED BY <1>1, <1>2, <1>3 DEF Next

LEMMA Inductive == IInv /\ [Next]_vars => IInv'
<1> SUFFICES ASSUME IInv, [Next]_vars PROVE IInv'
  OBVIOUS
<1>1. StateOK'
  BY StateKept DEF IInv
<1>2. CASE Read
  BY <1>1, <1>2, ReadIs DEF IInv
<1>3. CASE ServerWrites \/ ServerEnds \/ Goroutine \/ HookFails \/ Transport \/ Stop \/ Cut
           \/ UNCHANGED vars
  <2>1. conf' = conf /\ iter' = iter /\ twin' = twin
    BY <1>3 DEF ServerWrites, ServerSend, ServerSendFails, ServerFlush, ServerClose, Spill,
      ServerPartFails, ServerEnds, ServerReturns, ServerPanics, ServerAborts, Respond,
      Goroutine, ClientFrames, ClientEncodes, ClientFails, ClientEnds, ClientWriteFails, HookFails,
      Transport, TransportCopies, TransportEnds, TransportCloses, Stop, Cut, vars
  <2>2. IterOK(iter)'
    BY <2>1 DEF IInv, IterOK
  <2>3. fate = "panicked" => fate' = "panicked"
    BY PanicStays DEF IInv
  <2>4. DecodersAgree'
    BY <2>1, <2>3 DEF IInv, DecodersAgree
  <2>5. FramingOK'
    BY <1>3, ServerWritesFramed, ClientWritesFramed
  <2> QED BY <1>1, <2>2, <2>4, <2>5 DEF IInv
<1> QED BY <1>2, <1>3 DEF Next

-----------------------------------------------------------------------------
(* The theorems *)

LEMMA InvariantHolds == Spec => []IInv
BY InitOK, Inductive, PTL DEF Spec

\* For any values, however many: the two ends and the connection stay what
\* TypeOK says of them.  Only under the record separator framing is a separator
\* ever out without its value, and only a multipart iterator meets a last
\* boundary before the end of the body (runtime.go:508, stream.go:428).
THEOREM TypeCorrect == Spec => []TypeOK
<1>1. IInv => TypeOK
  <2> SUFFICES ASSUME IInv PROVE TypeOK
    OBVIOUS
  <2>1. \A k \in DOMAIN yields : yields[k][1] \in Kinds
    <3>1. DOMAIN iter.out = 1..Len(iter.out)
      <4> DEFINE n == Len(iter.out)
      <4>1. iter.out = [k \in 1..n |-> iter.out[k]]
        BY DEF IInv, IterOK
      <4> HIDE DEF n
      <4>2. DOMAIN [k \in 1..n |-> iter.out[k]] = 1..n
        OBVIOUS
      <4> QED BY <4>1, <4>2 DEF n
    <3> QED BY <3>1 DEF IInv, IterOK, yields
  <2> QED BY <2>1 DEF IInv, StateOK, IterOK, TypeOK, Kinds
<1> QED BY <1>1, InvariantHolds, PTL

\* The router's iterators and the generated client's yield the same of every
\* stream either end writes and of every beginning of it a broken connection
\* leaves, though the router decodes the first value of a record and the
\* client demands that there is no other (bind.go:430, runtime.go:538): no
\* record ever holds two, save the one a recovered panic has spoilt.
THEOREM DecodersSame == Spec => []DecodersAgree
BY InvariantHolds, PTL DEF IInv

=============================================================================
