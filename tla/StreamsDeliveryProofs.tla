------------------------- MODULE StreamsDeliveryProofs -------------------------
(***************************************************************************)
(* That a stream delivers what was sent, for any values, any number of     *)
(* them and any window: Faithful and CleanEndIsWhole of Streams.           *)
(***************************************************************************)
EXTENDS StreamsProofs, Numbers

-----------------------------------------------------------------------------
(* Sequences, of whatever elements *)

IsSeq(s) == s = [k \in 1..Len(s) |-> s[k]] /\ Len(s) \in Nat

\* A sequence of elements of a set.
LEMMA ElementsIn ==
  ASSUME NEW s, IsSeq(s), NEW S, \A k \in 1..Len(s) : s[k] \in S
  PROVE  s \in Seq(S)
<1> DEFINE n == Len(s)
<1>1. s = [k \in 1..n |-> s[k]] /\ n \in Nat
  BY DEF IsSeq
<1> HIDE DEF n
<1>2. s \in [1..n -> S]
  BY <1>1 DEF n
<1> QED BY <1>1, <1>2

\* One in the sense of Seq is one here.
LEMMA InSeq ==
  ASSUME NEW S, NEW s \in Seq(S)
  PROVE  IsSeq(s)
BY DEF IsSeq

\* The empty sequence is the one of length 0.
LEMMA EmptyIs ==
  /\ IsSeq(<< >>) /\ Len(<< >>) = 0
  /\ \A s : IsSeq(s) => (s = << >> <=> Len(s) = 0)
<1>1. << >> \in Seq({}) /\ Len(<< >>) = 0
  OBVIOUS
<1>2. ASSUME NEW s, IsSeq(s), Len(s) = 0
      PROVE  s = << >>
  <2>1. s \in Seq({})
    BY <1>2, ElementsIn
  <2> QED BY <1>2, <2>1
<1> QED BY <1>1, <1>2, InSeq

\* The elements of a concatenation.
LEMMA ConcatIs ==
  ASSUME NEW s, IsSeq(s), NEW t, IsSeq(t)
  PROVE  /\ IsSeq(s \o t) /\ Len(s \o t) = Len(s) + Len(t)
         /\ \A k \in 1..Len(s) : (s \o t)[k] = s[k]
         /\ \A k \in 1..Len(t) : (s \o t)[Len(s) + k] = t[k]
<1> DEFINE S == {s[k] : k \in 1..Len(s)} \cup {t[k] : k \in 1..Len(t)}
<1>1. (\A k \in 1..Len(s) : s[k] \in S) /\ (\A k \in 1..Len(t) : t[k] \in S)
  OBVIOUS
<1> HIDE DEF S
<1>2. s \in Seq(S) /\ t \in Seq(S)
  BY <1>1, ElementsIn
<1>3. s \o t \in Seq(S)
  BY <1>2
<1>4. IsSeq(s \o t)
  BY <1>3, InSeq
<1> QED BY <1>2, <1>4

\* Concatenation is associative and the empty sequence its unit.
LEMMA ConcatMore ==
  ASSUME NEW s, IsSeq(s), NEW t, IsSeq(t), NEW u, IsSeq(u)
  PROVE  s \o (t \o u) = (s \o t) \o u /\ s \o << >> = s
<1> DEFINE S == {s[k] : k \in 1..Len(s)} \cup {t[k] : k \in 1..Len(t)} \cup {u[k] : k \in 1..Len(u)}
<1>1. /\ \A k \in 1..Len(s) : s[k] \in S
      /\ \A k \in 1..Len(t) : t[k] \in S
      /\ \A k \in 1..Len(u) : u[k] \in S
  OBVIOUS
<1> HIDE DEF S
<1>2. s \in Seq(S) /\ t \in Seq(S) /\ u \in Seq(S)
  BY <1>1, ElementsIn
<1> QED BY <1>2

\* The elements of a sequence and one more.
LEMMA AppendIs ==
  ASSUME NEW s, IsSeq(s), NEW x
  PROVE  /\ IsSeq(Append(s, x)) /\ Len(Append(s, x)) = Len(s) + 1
         /\ \A k \in 1..Len(s) : Append(s, x)[k] = s[k]
         /\ Append(s, x)[Len(s) + 1] = x
<1> DEFINE S == {s[k] : k \in 1..Len(s)} \cup {x}
<1>1. (\A k \in 1..Len(s) : s[k] \in S) /\ x \in S
  OBVIOUS
<1> HIDE DEF S
<1>2. s \in Seq(S)
  BY <1>1, ElementsIn
<1>3. /\ Append(s, x) \in Seq(S) /\ Len(Append(s, x)) = Len(s) + 1
      /\ \A k \in 1..Len(s) : Append(s, x)[k] = s[k]
      /\ Append(s, x)[Len(s) + 1] = x
  BY <1>1, <1>2, AppendProperties
<1> QED BY <1>3, InSeq

\* Those of a sequence but its first.
LEMMA TailIs ==
  ASSUME NEW s, IsSeq(s), s # << >>
  PROVE  /\ IsSeq(Tail(s)) /\ Len(s) \in Nat \ {0} /\ Len(Tail(s)) = Len(s) - 1
         /\ Head(s) = s[1]
         /\ \A k \in 1..Len(s) - 1 : Tail(s)[k] = s[k + 1]
<1> DEFINE S == {s[k] : k \in 1..Len(s)}
<1>1. \A k \in 1..Len(s) : s[k] \in S
  OBVIOUS
<1> HIDE DEF S
<1>2. s \in Seq(S)
  BY <1>1, ElementsIn
<1>3. Tail(s) \in Seq(S) /\ Len(Tail(s)) = Len(s) - 1
  BY <1>2
<1>4. IsSeq(Tail(s))
  BY <1>3, InSeq
<1> QED BY <1>2, <1>3, <1>4

\* A beginning.
LEMMA BeginningIs ==
  ASSUME NEW s, IsSeq(s), NEW n \in 0..Len(s)
  PROVE  /\ IsSeq(SubSeq(s, 1, n)) /\ Len(SubSeq(s, 1, n)) = n
         /\ \A k \in 1..n : SubSeq(s, 1, n)[k] = s[k]
<1> DEFINE S == {s[k] : k \in 1..Len(s)}
<1>1. \A k \in 1..Len(s) : s[k] \in S
  OBVIOUS
<1> HIDE DEF S
<1>2. s \in Seq(S) /\ Len(s) \in Nat
  BY <1>1, ElementsIn DEF IsSeq
<1>3. SubSeq(s, 1, n) \in Seq(S)
  BY <1>2
<1>4. IsSeq(SubSeq(s, 1, n))
  BY <1>3, InSeq
<1> QED BY <1>2, <1>4

-----------------------------------------------------------------------------
(* The values among what an iterator yields *)

Gathered(f, out, m) ==
  f = [n \in 0..m |->
         IF n = 0 THEN << >>
         ELSE IF out[n][1] = "value" THEN Append(f[n - 1], out[n][2]) ELSE f[n - 1]]

\* The recursion of ValuesOf has a solution.
LEMMA GatheredExists ==
  ASSUME NEW out, NEW m \in Nat
  PROVE  \E f : Gathered(f, out, m)
<1> DEFINE S == {n \in Nat : \E f : Gathered(f, out, n)}
<1>1. 0 \in S
  <2>1. Gathered([k \in 0..0 |-> << >>], out, 0)
    BY DEF Gathered
  <2> QED BY <2>1
<1>2. ASSUME NEW n \in S PROVE n + 1 \in S
  <2>1. PICK f : Gathered(f, out, n)
    OBVIOUS
  <2>2. n \in Nat /\ n + 1 \in Nat /\ n \in 0..n
    OBVIOUS
  <2> DEFINE last == IF out[n + 1][1] = "value" THEN Append(f[n], out[n + 1][2]) ELSE f[n]
             g == [k \in 0..(n + 1) |-> IF k = n + 1 THEN last ELSE f[k]]
  <2>3. \A k \in 0..n :
          f[k] = IF k = 0 THEN << >>
                 ELSE IF out[k][1] = "value" THEN Append(f[k - 1], out[k][2]) ELSE f[k - 1]
    BY <2>1 DEF Gathered
  <2>4. g[n + 1] = last /\ \A k \in 0..n : g[k] = f[k]
    BY <2>2
  <2>5. g = [k \in 0..(n + 1) |-> g[k]]
    OBVIOUS
  <2> HIDE DEF g
  <2>6. ASSUME NEW k \in 0..(n + 1)
        PROVE  g[k] = IF k = 0 THEN << >>
                      ELSE IF out[k][1] = "value" THEN Append(g[k - 1], out[k][2]) ELSE g[k - 1]
    <3>1. CASE k = n + 1
      BY <2>2, <2>4, <3>1
    <3>2. CASE k \in 0..n /\ k = 0
      BY <2>2, <2>3, <2>4, <3>2
    <3>3. CASE k \in 0..n /\ k # 0
      <4>1. k - 1 \in 0..n
        BY <2>2, <3>3
      <4> QED BY <2>3, <2>4, <3>3, <4>1
    <3> QED BY <2>2, <3>1, <3>2, <3>3
  <2>7. Gathered(g, out, n + 1)
    BY <2>5, <2>6 DEF Gathered
  <2> QED BY <2>2, <2>7
<1>3. S = Nat
  <2> HIDE DEF S
  <2>1. S \in SUBSET Nat
    BY DEF S
  <2> QED BY <1>1, <1>2, <2>1, Induction
<1> QED BY <1>3

\* A recursion along a longer sequence agrees with it.
LEMMA GatheredAgree ==
  ASSUME NEW f, NEW g, NEW out, NEW longer, NEW m \in Nat, NEW l \in Nat, m <= l,
         Gathered(f, out, m), Gathered(g, longer, l), \A k \in 1..m : longer[k] = out[k]
  PROVE  f[m] = g[m]
<1> DEFINE S == {n \in Nat : n <= m => f[n] = g[n]}
<1>1. \A k \in 0..m :
        f[k] = IF k = 0 THEN << >>
               ELSE IF out[k][1] = "value" THEN Append(f[k - 1], out[k][2]) ELSE f[k - 1]
  BY DEF Gathered
<1>2. \A k \in 0..l :
        g[k] = IF k = 0 THEN << >>
               ELSE IF longer[k][1] = "value" THEN Append(g[k - 1], longer[k][2]) ELSE g[k - 1]
  BY DEF Gathered
<1>3. 0 \in S
  <2>1. 0 \in 0..m /\ 0 \in 0..l
    OBVIOUS
  <2> QED BY <1>1, <1>2, <2>1
<1>4. ASSUME NEW n \in S PROVE n + 1 \in S
  <2> SUFFICES ASSUME n + 1 <= m PROVE f[n + 1] = g[n + 1]
    OBVIOUS
  <2>1. n \in Nat /\ n + 1 \in 0..m /\ n + 1 \in 0..l /\ n + 1 \in 1..m /\ n + 1 # 0 /\ (n + 1) - 1 = n
    OBVIOUS
  <2>2. f[n] = g[n] /\ longer[n + 1] = out[n + 1]
    BY <2>1
  <2>3. f[n + 1] = IF out[n + 1][1] = "value" THEN Append(f[n], out[n + 1][2]) ELSE f[n]
    BY <1>1, <2>1
  <2>4. g[n + 1] = IF longer[n + 1][1] = "value" THEN Append(g[n], longer[n + 1][2]) ELSE g[n]
    BY <1>2, <2>1
  <2> QED BY <2>2, <2>3, <2>4
<1>5. S = Nat
  <2> HIDE DEF S
  <2>1. S \in SUBSET Nat
    BY DEF S
  <2> QED BY <1>3, <1>4, <2>1, Induction
<1> QED BY <1>5

\* The recursion that ValuesOf chooses.
LEMMA ValuesOfIs ==
  ASSUME NEW out, Len(out) \in Nat
  PROVE  \E f : Gathered(f, out, Len(out)) /\ ValuesOf(out) = f[Len(out)]
<1> DEFINE F == CHOOSE f : Gathered(f, out, Len(out))
<1>1. Gathered(F, out, Len(out))
  BY GatheredExists
<1>2. ValuesOf(out) = F[Len(out)]
  BY DEF ValuesOf, Gathered
<1> QED BY <1>1, <1>2

\* What one more yield adds.
LEMMA ValuesGrow ==
  ASSUME NEW out, IsSeq(out), NEW y
  PROVE  ValuesOf(Append(out, y)) =
           IF y[1] = "value" THEN Append(ValuesOf(out), y[2]) ELSE ValuesOf(out)
<1> DEFINE longer == Append(out, y)
           n == Len(out)
<1>1. n \in Nat /\ Len(longer) = n + 1 /\ longer[n + 1] = y /\ \A k \in 1..n : longer[k] = out[k]
  BY AppendIs DEF IsSeq
<1> HIDE DEF longer
<1>2. PICK f : Gathered(f, out, n) /\ ValuesOf(out) = f[n]
  BY <1>1, ValuesOfIs
<1>3. PICK g : Gathered(g, longer, n + 1) /\ ValuesOf(longer) = g[n + 1]
  <2>1. Len(longer) \in Nat
    BY <1>1
  <2> QED BY <1>1, <2>1, ValuesOfIs
<1> HIDE DEF n
<1>4. f[n] = g[n]
  <2>1. n + 1 \in Nat /\ n <= n + 1
    BY <1>1
  <2> QED BY <1>1, <1>2, <1>3, <2>1, GatheredAgree
<1>5. g[n + 1] = IF longer[n + 1][1] = "value" THEN Append(g[n], longer[n + 1][2]) ELSE g[n]
  <2>1. n + 1 \in 0..(n + 1) /\ n + 1 # 0 /\ (n + 1) - 1 = n
    BY <1>1
  <2> QED BY <1>3, <2>1 DEF Gathered
<1> QED BY <1>1, <1>2, <1>3, <1>4, <1>5 DEF longer

\* Nothing yielded has no values.
LEMMA NoValues == ValuesOf(<< >>) = << >>
<1>1. Len(<< >>) = 0
  OBVIOUS
<1>2. PICK f : Gathered(f, << >>, 0) /\ ValuesOf(<< >>) = f[0]
  BY <1>1, ValuesOfIs
<1> QED BY <1>2 DEF Gathered

-----------------------------------------------------------------------------
(* What has been delivered of what was sent *)

\* The lines of an event's data that arrive: an empty one adds nothing to an
\* empty buffer, and a newline at the end is trimmed.
LeadingEmpty(lines) ==
  CHOOSE n \in 0..Len(lines) :
    /\ \A k \in 1..n : lines[k] = ""
    /\ n < Len(lines) => lines[n + 1] # ""

ArrivingData(lines) ==
  LET rest == SubSeq(lines, LeadingEmpty(lines) + 1, Len(lines))
  IN  IF Len(rest) > 1 /\ Last(rest) = "" THEN Front(rest) ELSE rest

\* What exactly a value arrives as; ArrivedAs of Streams says what that keeps.
Arriving(v) ==
  IF conf.format # "sse" THEN v
  ELSE [id |-> LastLine(v.id), event |-> LastLine(v.event), retry |-> LastLine(v.retry),
        data |-> ArrivingData(v.data)]

Num(out) == Len(ValuesOf(out))

\* The values yielded are the first of the values sent.
Delivers(out, s) ==
  /\ Num(out) \in 0..Len(s)
  /\ ValuesOf(out) = [k \in 1..Num(out) |-> Arriving(s[k])]

\* One yield more: no value, or the next.
LEMMA DeliversMore ==
  ASSUME NEW out, IsSeq(out), NEW s, Len(s) \in Nat, Delivers(out, s), NEW y
  PROVE  /\ y[1] # "value" =>
              Delivers(Append(out, y), s) /\ Num(Append(out, y)) = Num(out)
         /\ y = <<"value", Arriving(s[Num(out) + 1])>> /\ Num(out) < Len(s) =>
              Delivers(Append(out, y), s) /\ Num(Append(out, y)) = Num(out) + 1
<1> DEFINE m == Num(out)
           had == ValuesOf(out)
<1>1. /\ m \in Nat /\ m <= Len(s) /\ had = [k \in 1..m |-> Arriving(s[k])] /\ Len(had) = m
      /\ ValuesOf(Append(out, y)) = IF y[1] = "value" THEN Append(had, y[2]) ELSE had
  BY ValuesGrow DEF Delivers, Num
<1>2. ASSUME y[1] # "value"
      PROVE  Delivers(Append(out, y), s) /\ Num(Append(out, y)) = Num(out)
  BY <1>1, <1>2 DEF Delivers, Num
<1>3. ASSUME y = <<"value", Arriving(s[m + 1])>>, m < Len(s)
      PROVE  Delivers(Append(out, y), s) /\ Num(Append(out, y)) = m + 1
  <2> DEFINE x == Arriving(s[m + 1])
             got == Append(had, x)
  <2>1. ValuesOf(Append(out, y)) = got
    BY <1>1, <1>3
  <2> HIDE DEF m, had
  <2>2. IsSeq(had)
    <3>1. had = [k \in 1..m |-> had[k]] /\ Len(had) \in Nat
      BY <1>1
    <3> QED BY <1>1, <3>1 DEF IsSeq
  <2>3. \A k \in 1..m : had[k] = Arriving(s[k])
    BY <1>1
  <2>4. IsSeq(got) /\ Len(got) = m + 1 /\ got[m + 1] = x /\ \A k \in 1..m : got[k] = had[k]
    <3> HIDE DEF x
    <3> QED BY <1>1, <2>2, AppendIs
  <2> HIDE DEF got
  <2>5. \A k \in 1..(m + 1) : got[k] = Arriving(s[k])
    BY <1>1, <2>3, <2>4
  <2>6. got = [k \in 1..(m + 1) |-> got[k]]
    BY <2>4 DEF IsSeq
  <2>7. got = [k \in 1..(m + 1) |-> Arriving(s[k])]
    BY <2>5, <2>6
  <2>8. m + 1 \in 0..Len(s)
    BY <1>1, <1>3
  <2> QED BY <2>1, <2>4, <2>7, <2>8 DEF Delivers, Num
<1> QED BY <1>2, <1>3

\* One value more is sent.
LEMMA DeliversStill ==
  ASSUME NEW out, NEW s, IsSeq(s), Delivers(out, s), NEW v
  PROVE  Delivers(out, Append(s, v))
<1> DEFINE m == Num(out)
           longer == Append(s, v)
<1>1. /\ Len(s) \in Nat /\ m \in 0..Len(s) /\ ValuesOf(out) = [k \in 1..m |-> Arriving(s[k])]
  BY DEF Delivers, IsSeq
<1>2. Len(longer) = Len(s) + 1 /\ \A k \in 1..Len(s) : longer[k] = s[k]
  BY AppendIs
<1> HIDE DEF m, longer
<1>3. m \in 0..Len(longer) /\ \A k \in 1..m : longer[k] = s[k]
  BY <1>1, <1>2
<1>4. [k \in 1..m |-> Arriving(s[k])] = [k \in 1..m |-> Arriving(longer[k])]
  BY <1>3
<1> QED BY <1>1, <1>3, <1>4 DEF Delivers, m, longer

\* What an iterator's steps change.
LEMMA RecordIs ==
  ASSUME NEW it, IterOK(it)
  PROVE  LET r == ClientRecord(it) IN
         /\ IterOK(r) /\ r.cur = << >> /\ r.in = it.in /\ r.closed = it.closed
         /\ r.out = IF it.cur = << >> THEN it.out ELSE Append(it.out, ClientDecode(it.cur))
<1>1. it = [out |-> it.out, cur |-> it.cur, ev |-> it.ev, in |-> it.in, have |-> it.have,
            closed |-> it.closed]
  BY DEF IterOK
<1>2. CASE it.cur = << >>
  BY <1>2 DEF ClientRecord
<1>3. CASE it.cur # << >>
  <2> DEFINE y == ClientDecode(it.cur)
  <2>1. ClientRecord(it) = [it EXCEPT !.out = Append(it.out, y), !.cur = << >>]
    BY <1>3 DEF ClientRecord
  <2> HIDE DEF y
  <2>2. /\ ClientRecord(it).in = it.in /\ ClientRecord(it).closed = it.closed
        /\ ClientRecord(it).out = Append(it.out, y)
    BY <1>1, <2>1
  <2> QED BY <1>3, <2>2, RecordStays DEF y
<1> QED BY <1>2, <1>3

\* And those of the end of a part's body.
LEMMA BodyIs ==
  ASSUME NEW it, IterOK(it), NEW whole \in BOOLEAN
  PROVE  LET r == ClientBody(it, whole) IN
         /\ IterOK(r) /\ r.cur = << >> /\ r.closed = it.closed
         /\ r.out = IF it.cur = << >> THEN it.out
                    ELSE Append(it.out, IF ~whole THEN <<"short", it.cur[1][2]>>
                                        ELSE IF it.cur[1][1] = "cut" THEN <<"cut", it.cur[1][2]>>
                                        ELSE <<"value", it.cur[1][2]>>)
<1>1. it = [out |-> it.out, cur |-> it.cur, ev |-> it.ev, in |-> it.in, have |-> it.have,
            closed |-> it.closed]
  BY DEF IterOK
<1>2. CASE it.cur = << >>
  BY <1>2, BodyStays DEF ClientBody
<1>3. CASE it.cur # << >>
  <2> DEFINE y == IF ~whole THEN <<"short", it.cur[1][2]>>
                  ELSE IF it.cur[1][1] = "cut" THEN <<"cut", it.cur[1][2]>>
                  ELSE <<"value", it.cur[1][2]>>
  <2>1. ClientBody(it, whole) = [it EXCEPT !.cur = << >>, !.out = Append(it.out, y)]
    BY <1>3 DEF ClientBody
  <2> HIDE DEF y
  <2>2. /\ ClientBody(it, whole).cur = << >> /\ ClientBody(it, whole).closed = it.closed
        /\ ClientBody(it, whole).out = Append(it.out, y)
    BY <1>1, <2>1
  <2> QED BY <1>3, <2>2, BodyStays DEF y
<1> QED BY <1>2, <1>3

-----------------------------------------------------------------------------
(* The invariant: what the bytes ahead will make of the iterator *)

Item(v) == <<"item", v, "">>
Beginning(v) == <<"cut", v, "">>

\* Yields of a stream that has not ended: values and heads, and the part whose
\* source failed.
Plain(out, f) ==
  \A k \in 1..Len(out) :
    \/ out[k][1] \in {"value", "head"}
    \/ out[k][1] = "cut" /\ f = "failed" /\ conf.format = "multipart"

\* An iterator on its way, when s has been sent with fate f by a writer in
\* state p and the connection is e: past the last boundary it has everything,
\* and a record or line in progress is the next value, cut only where the
\* connection broke.
Fine(it, s, f, p, e) ==
  /\ IterOK(it)
  /\ Delivers(it.out, s)
  /\ Plain(it.out, f)
  /\ it.closed => Num(it.out) = Len(s) /\ p \in {"closed", "gone"}
  /\ Separated /\ it.cur # << >> =>
       /\ Num(it.out) < Len(s)
       /\ \/ it.cur = <<Item(s[Num(it.out) + 1])>>
          \/ e = "error" /\ it.cur = <<Beginning(s[Num(it.out) + 1])>>

\* An iterator that has been given all that was written.
Complete(it, s, f, p) ==
  /\ conf.format = "lines" => Num(it.out) = Len(s) /\ it.cur = << >>
  /\ conf.format = "rs" /\ p = "framed" => Num(it.out) = Len(s) /\ it.cur = << >> /\ it.in
  /\ conf.format = "rs" /\ p # "framed" =>
       \/ Len(s) = 0 /\ it.cur = << >>
       \/ it.in /\ Num(it.out) + 1 = Len(s) /\ it.cur = <<Item(s[Len(s)])>>
  /\ conf.format = "sse" => Num(it.out) = Len(s) /\ it.have = FALSE /\ it.ev = NoEvent
  /\ conf.format = "multipart" =>
       \/ Num(it.out) = Len(s) /\ it.cur = << >>
       \/ ~it.closed /\ Num(it.out) + 1 = Len(s) /\ it.cur = <<Item(s[Len(s)])>>
       \/ ~it.closed /\ Num(it.out) = Len(s) /\ f = "failed" /\ it.cur # << >> /\ it.cur[1][1] = "cut"

\* The iterators it becomes, token by token.
Follows(run, it, tokens) ==
  /\ run[0] = it
  /\ \A k \in 1..Len(tokens) : run[k] = ClientNext(run[k - 1], tokens[k])

\* Every byte reaches the reader, save where the connection breaks.
Arrives(f, e) == e # "error" /\ ~(Up /\ f = "failed")

Track(it, tokens, s, f, p, e) ==
  \E run :
    /\ Follows(run, it, tokens)
    /\ \A k \in 0..Len(tokens) : Fine(run[k], s, f, p, e)
    /\ Arrives(f, e) => Complete(run[Len(tokens)], s, f, p)

TrackOK ==
  fate # "panicked" /\ reader # "done" => Track(iter, Ahead, sent, fate, producer, end)

\* What an iterator that has ended has yielded.
Ended(out, s, f, p) ==
  /\ Delivers(out, s)
  /\ \A k \in 1..Len(out) :
       /\ out[k][1] # "bad"
       /\ out[k][1] = "error" => k = Len(out)
       /\ out[k][1] = "cut" /\ f # "failed" /\ k < Len(out) => out[k + 1][1] = "error"
  /\ /\ \A k \in 1..Len(out) : out[k][1] # "error"
     /\ conf.format = "multipart" => (\A k \in 1..Len(out) : out[k][1] # "short") /\ f # "failed"
     => Num(out) = Len(s) /\ p \in {"closed", "gone"} /\ (f = "whole" \/ conf.format = "multipart")

EndedOK == fate # "panicked" /\ reader = "done" => Ended(iter.out, sent, fate, producer)

\* How the two ends, the pipe and the connection go together.
ControlOK ==
  /\ Down =>
       /\ end = "eof" => producer = "gone" /\ fate \in {"whole", "failed", "panicked"}
       /\ fate = "failed" /\ (producer # "gone" \/ end = "eof") => conf.format = "multipart"
       /\ producer # "gone" => fate \in {"", "failed"}
  /\ Up =>
       /\ pipe \in {"eof", "error"} => buffer = << >> /\ producer = "gone"
       /\ pipe = "eof" => fate = "whole"
       /\ end = "eof" => pipe = "eof"
       /\ pipe = "closed" => end = "error"
       /\ fate \in {"whole", "failed"} => producer = "gone"
       /\ producer # "closed"

BytesOK == IsSeq(net) /\ IsSeq(buffer)

DInv == IInv /\ BytesOK /\ ControlOK /\ TrackOK /\ EndedOK

-----------------------------------------------------------------------------
(* What stays *)

\* One yield more is plain too.
LEMMA PlainMore ==
  ASSUME NEW out, IsSeq(out), NEW f, Plain(out, f), NEW y,
         y[1] \in {"value", "head"} \/ (y[1] = "cut" /\ f = "failed" /\ conf.format = "multipart")
  PROVE  Plain(Append(out, y), f)
<1> DEFINE n == Len(out)
           longer == Append(out, y)
<1>1. n \in Nat /\ Len(longer) = n + 1 /\ longer[n + 1] = y /\ \A k \in 1..n : longer[k] = out[k]
  BY AppendIs DEF IsSeq
<1> HIDE DEF longer
<1>2. ASSUME NEW k \in 1..Len(longer)
      PROVE  k \in 1..n \/ k = n + 1
  BY <1>1
<1> QED BY <1>1, <1>2 DEF Plain, longer

\* An iterator stays fine as the writer goes on.
LEMMA FineStays ==
  ASSUME NEW it, NEW s, IsSeq(s), NEW f, NEW p, NEW e, Fine(it, s, f, p, e),
         NEW s2, s2 = s \/ (p \notin {"closed", "gone"} /\ \E v : s2 = Append(s, v)),
         NEW f2, f = "failed" => f2 = "failed",
         NEW p2, p \in {"closed", "gone"} => p2 \in {"closed", "gone"},
         NEW e2, e = "error" => e2 = "error"
  PROVE  Fine(it, s2, f2, p2, e2)
<1>1. Delivers(it.out, s2)
  BY DeliversStill DEF Fine
<1>2. Plain(it.out, f2)
  BY DEF Fine, Plain
<1>3. it.closed => Num(it.out) = Len(s2) /\ p2 \in {"closed", "gone"}
  BY DEF Fine
<1>4. ASSUME Separated, it.cur # << >>
      PROVE  /\ Num(it.out) < Len(s2)
             /\ \/ it.cur = <<Item(s2[Num(it.out) + 1])>>
                \/ e2 = "error" /\ it.cur = <<Beginning(s2[Num(it.out) + 1])>>
  <2> DEFINE m == Num(it.out)
  <2>1. /\ m \in Nat /\ m < Len(s) /\ Len(s) \in Nat
        /\ it.cur = <<Item(s[m + 1])>> \/ (e2 = "error" /\ it.cur = <<Beginning(s[m + 1])>>)
    BY <1>4 DEF Fine, Delivers, IsSeq
  <2> HIDE DEF m
  <2>2. s2[m + 1] = s[m + 1] /\ m < Len(s2)
    <3>1. CASE s2 = s
      BY <2>1, <3>1
    <3>2. ASSUME NEW v, s2 = Append(s, v)
          PROVE  s2[m + 1] = s[m + 1] /\ m < Len(s2)
      <4>1. m + 1 \in 1..Len(s)
        BY <2>1
      <4>2. Len(s2) = Len(s) + 1 /\ \A k \in 1..Len(s) : s2[k] = s[k]
        BY <3>2, AppendIs
      <4> QED BY <2>1, <4>1, <4>2
    <3> QED BY <3>1, <3>2
  <2> QED BY <2>1, <2>2 DEF m
<1> QED BY <1>1, <1>2, <1>3, <1>4 DEF Fine

\* It has still been given all that was written, whatever the writer's fate.
LEMMA CompleteStays ==
  ASSUME NEW it, NEW s, NEW f, NEW p, Complete(it, s, f, p),
         NEW f2, f = "failed" => f2 = "failed", NEW p2, p2 = "framed" <=> p = "framed"
  PROVE  Complete(it, s, f2, p2)
BY DEF Complete

\* The bytes ahead stay, and the writer goes on.
LEMMA TrackStays ==
  ASSUME NEW it, NEW tokens, NEW s, IsSeq(s), NEW f, NEW p, NEW e, Track(it, tokens, s, f, p, e),
         NEW s2, s2 = s \/ (p \notin {"closed", "gone"} /\ \E v : s2 = Append(s, v)),
         NEW f2, f = "failed" => f2 = "failed",
         NEW p2, p \in {"closed", "gone"} => p2 \in {"closed", "gone"},
         NEW e2, e = "error" => e2 = "error",
         Arrives(f2, e2) => Arrives(f, e) /\ s2 = s /\ (p2 = "framed" <=> p = "framed")
  PROVE  Track(it, tokens, s2, f2, p2, e2)
<1>1. PICK run : /\ Follows(run, it, tokens)
                 /\ \A k \in 0..Len(tokens) : Fine(run[k], s, f, p, e)
                 /\ Arrives(f, e) => Complete(run[Len(tokens)], s, f, p)
  BY DEF Track
<1>2. \A k \in 0..Len(tokens) : Fine(run[k], s2, f2, p2, e2)
  BY <1>1, FineStays
<1>3. Arrives(f2, e2) => Complete(run[Len(tokens)], s2, f2, p2)
  BY <1>1, CompleteStays
<1> QED BY <1>1, <1>2, <1>3 DEF Track

\* A token is read.
LEMMA TrackTaken ==
  ASSUME NEW it, NEW tokens, Len(tokens) \in Nat \ {0}, NEW s, NEW f, NEW p, NEW e,
         Track(it, tokens, s, f, p, e),
         NEW rest, Len(rest) = Len(tokens) - 1, \A k \in 1..Len(rest) : rest[k] = tokens[k + 1]
  PROVE  Track(ClientNext(it, tokens[1]), rest, s, f, p, e)
<1> DEFINE n == Len(rest)
<1>1. PICK run : /\ Follows(run, it, tokens)
                 /\ \A k \in 0..Len(tokens) : Fine(run[k], s, f, p, e)
                 /\ Arrives(f, e) => Complete(run[Len(tokens)], s, f, p)
  BY DEF Track
<1> DEFINE later == [k \in 0..n |-> run[k + 1]]
<1>2. n \in Nat /\ Len(tokens) = n + 1
  OBVIOUS
<1> HIDE DEF n
<1>3. \A k \in 0..n : later[k] = run[k + 1]
  OBVIOUS
<1> HIDE DEF later
<1>4. later[0] = ClientNext(it, tokens[1])
  <2>1. 0 \in 0..n /\ 1 \in 1..Len(tokens) /\ 0 + 1 = 1 /\ 1 - 1 = 0
    BY <1>2
  <2>2. later[0] = run[1] /\ run[1] = ClientNext(run[0], tokens[1]) /\ run[0] = it
    BY <1>1, <1>3, <2>1 DEF Follows
  <2> QED BY <2>2
<1>5. ASSUME NEW k \in 1..n
      PROVE  later[k] = ClientNext(later[k - 1], rest[k])
  <2>1. /\ k \in 0..n /\ k - 1 \in 0..n /\ k + 1 \in 1..Len(tokens) /\ (k - 1) + 1 = k
        /\ (k + 1) - 1 = k
    BY <1>2
  <2>2. later[k] = run[k + 1] /\ later[k - 1] = run[k] /\ rest[k] = tokens[k + 1]
    BY <1>3, <2>1 DEF n
  <2>3. run[k + 1] = ClientNext(run[k], tokens[k + 1])
    BY <1>1, <2>1 DEF Follows
  <2> QED BY <2>2, <2>3
<1>6. ASSUME NEW k \in 0..n
      PROVE  Fine(later[k], s, f, p, e)
  <2>1. k + 1 \in 0..Len(tokens)
    BY <1>2
  <2> QED BY <1>1, <1>3, <2>1
<1>7. Arrives(f, e) => Complete(later[n], s, f, p)
  <2>1. n \in 0..n
    BY <1>2
  <2> QED BY <1>1, <1>2, <1>3, <2>1
<1>8. Follows(later, ClientNext(it, tokens[1]), rest)
  BY <1>4, <1>5 DEF Follows, n
<1> QED BY <1>6, <1>7, <1>8 DEF Track, n

\* An iterator with the same yields and nothing else of a record.
LEMMA FineAlike ==
  ASSUME NEW it, NEW s, NEW f, NEW p, NEW e, Fine(it, s, f, p, e),
         NEW next, IterOK(next), next.out = it.out, next.closed = it.closed,
         Separated => next.cur = it.cur \/ next.cur = << >>
  PROVE  Fine(next, s, f, p, e)
BY DEF Fine

\* Half a payload instead of a whole one.
LEMMA FineHalf ==
  ASSUME StateOK, NEW it, NEW t, NEW s, IsSeq(s), NEW f, NEW p, NEW e, Fine(it, s, f, p, e),
         Fine(ClientNext(it, t), s, f, p, e)
  PROVE  Fine(ClientNext(it, Half(t)), s, f, p, "error")
<1> DEFINE h == Half(t)
           next == ClientNext(it, h)
<1>0. /\ IterOK(it) /\ IterOK(next) /\ conf.format \in {"lines", "rs", "sse", "multipart"}
      /\ it = [out |-> it.out, cur |-> it.cur, ev |-> it.ev, in |-> it.in, have |-> it.have,
               closed |-> it.closed]
      /\ Fine(it, s, f, p, "error") /\ Fine(ClientNext(it, t), s, f, p, "error")
  <2>1. Fine(it, s, f, p, "error") /\ Fine(ClientNext(it, t), s, f, p, "error")
    BY FineStays
  <2>2. IterOK(it)
    BY DEF Fine
  <2>3. IterOK(next)
    BY <2>2, NextStays
  <2>4. conf.format \in {"lines", "rs", "sse", "multipart"}
    BY ConfIs
  <2>5. it = [out |-> it.out, cur |-> it.cur, ev |-> it.ev, in |-> it.in, have |-> it.have,
              closed |-> it.closed]
    BY <2>2 DEF IterOK
  <2> QED BY <2>1, <2>2, <2>3, <2>4, <2>5
<1>1. CASE t[1] # "item"
  BY <1>0, <1>1 DEF Half
<1>2. CASE t[1] = "item"
  <2>1. h = Beginning(t[2]) /\ h[1] = "cut"
    BY <1>2 DEF Half, Beginning
  <2>2. /\ t # Nl /\ t # Rs /\ h # Nl /\ h # Rs /\ h # Blank /\ h # Closing /\ h[1] # "part"
    <3>1. Nl[1] = "nl" /\ Rs[1] = "rs" /\ Blank[1] = "blank" /\ Closing[1] = "close"
      BY DEF Nl, Rs, Blank, Closing
    <3> HIDE DEF h
    <3> QED BY <1>2, <2>1, <3>1
  <2> HIDE DEF h
  <2>3. ASSUME Separated,
               ClientNext(it, t) = [it EXCEPT !.cur = Append(it.cur, t)],
               next = [it EXCEPT !.cur = Append(it.cur, h)]
        PROVE  Fine(next, s, f, p, "error")
    <3> DEFINE m == Num(it.out)
               whole == [it EXCEPT !.cur = Append(it.cur, t)]
    <3>1. /\ it.cur = << >> \/ \E a : it.cur = <<a>>
          /\ whole.out = it.out /\ whole.cur = Append(it.cur, t)
          /\ next.out = it.out /\ next.cur = Append(it.cur, h) /\ next.closed = it.closed
      BY <1>0, <2>3 DEF Fine
    <3>2. Append(it.cur, t) # << >>
      <4>1. CASE it.cur = << >>
        BY <4>1
      <4>2. CASE \E a : it.cur = <<a>>
        BY <4>2
      <4> QED BY <3>1, <4>1, <4>2
    <3>3. /\ m < Len(s)
          /\ Append(it.cur, t) = <<Item(s[m + 1])>> \/ Append(it.cur, t) = <<Beginning(s[m + 1])>>
      BY <1>0, <2>3, <3>1, <3>2 DEF Fine
    <3>4. it.cur = << >>
      <4>1. Len(Append(it.cur, t)) = 1
        <5>1. \A a : Len(<<a>>) = 1
          OBVIOUS
        <5>2. \E a : Append(it.cur, t) = <<a>>
          BY <3>3
        <5> QED BY <5>1, <5>2
      <4>2. \A a : Len(Append(<<a>>, t)) = 2
        OBVIOUS
      <4> QED BY <3>1, <4>1, <4>2
    <3>5. t = Item(s[m + 1])
      <4>1. Append(it.cur, t)[1] = t /\ \A a : <<a>>[1] = a
        BY <3>4
      <4>2. t = Item(s[m + 1]) \/ t = Beginning(s[m + 1])
        BY <3>3, <4>1
      <4>3. Beginning(s[m + 1])[1] = "cut"
        BY DEF Beginning
      <4> QED BY <1>2, <4>2, <4>3
    <3>6. next.cur = <<Beginning(s[m + 1])>>
      <4>1. t[2] = s[m + 1]
        BY <3>5 DEF Item
      <4>2. h = Beginning(s[m + 1])
        BY <2>1, <4>1
      <4>3. Append(<< >>, h) = <<h>>
        OBVIOUS
      <4> QED BY <3>1, <3>4, <4>2, <4>3
    <3> QED BY <1>0, <3>1, <3>3, <3>6 DEF Fine
  <2>4. CASE conf.format = "lines"
    <3>1. ClientNext(it, t) = [it EXCEPT !.cur = Append(it.cur, t)]
      BY <2>2, <2>4 DEF ClientNext, ClientLine
    <3>2. next = [it EXCEPT !.cur = Append(it.cur, h)]
      BY <2>2, <2>4 DEF ClientNext, ClientLine
    <3> QED BY <2>3, <2>4, <3>1, <3>2 DEF Separated, h
  <2>5. CASE conf.format = "rs" /\ it.in
    <3>1. ClientNext(it, t) = [it EXCEPT !.cur = Append(it.cur, t)]
      BY <2>2, <2>5 DEF ClientNext, ClientSeq
    <3>2. next = [it EXCEPT !.cur = Append(it.cur, h)]
      BY <2>2, <2>5 DEF ClientNext, ClientSeq
    <3> QED BY <2>3, <2>5, <3>1, <3>2 DEF Separated, h
  <2>6. CASE conf.format = "rs" /\ ~it.in
    <3>1. next = it
      BY <2>2, <2>6 DEF ClientNext, ClientSeq
    <3> QED BY <1>0, <3>1 DEF h
  <2>7. CASE conf.format = "sse"
    <3>1. next = it \/ next = [it EXCEPT !.have = TRUE, !.ev = ClientField(it.ev, h[2], h[3])]
      BY <2>2, <2>7 DEF ClientNext, ClientSSE
    <3>2. next.out = it.out /\ next.closed = it.closed
      <4> DEFINE ev == ClientField(it.ev, h[2], h[3])
      <4> HIDE DEF ev
      <4>1. next = it \/ next = [it EXCEPT !.have = TRUE, !.ev = ev]
        BY <3>1 DEF ev
      <4> QED BY <1>0, <4>1
    <3> QED BY <1>0, <2>7, <3>2, FineAlike DEF Separated, h
  <2>8. CASE conf.format = "multipart"
    <3>1. next = [it EXCEPT !.cur = Append(it.cur, h)]
      BY <2>2, <2>8 DEF ClientNext, ClientPart
    <3>2. next.out = it.out /\ next.closed = it.closed
      <4> DEFINE cur == Append(it.cur, h)
      <4> HIDE DEF cur
      <4>1. next = [it EXCEPT !.cur = cur]
        BY <3>1 DEF cur
      <4> QED BY <1>0, <4>1
    <3> QED BY <1>0, <2>8, <3>2, FineAlike DEF Separated, h
  <2> QED BY <1>0, <2>4, <2>5, <2>6, <2>7, <2>8 DEF h
<1> QED BY <1>1, <1>2

\* The connection breaks: a beginning of the bytes is left.
LEMMA TrackShort ==
  ASSUME StateOK, NEW it, NEW tokens, NEW s, IsSeq(s), NEW f, NEW p, NEW e,
         Track(it, tokens, s, f, p, e), Len(tokens) \in Nat,
         NEW short, Len(short) \in Nat, Len(short) <= Len(tokens),
         \A k \in 1..Len(short) :
           short[k] = tokens[k] \/ (k = Len(short) /\ short[k] = Half(tokens[k]))
  PROVE  Track(it, short, s, f, p, "error")
<1> DEFINE n == Len(short)
<1>1. PICK run : /\ Follows(run, it, tokens)
                 /\ \A k \in 0..Len(tokens) : Fine(run[k], s, f, p, e)
  BY DEF Track
<1> DEFINE cut == [k \in 0..n |-> IF k < n THEN run[k]
                                  ELSE IF n = 0 THEN it ELSE ClientNext(run[n - 1], short[n])]
<1>2. n \in Nat /\ n <= Len(tokens)
  OBVIOUS
<1> HIDE DEF n
<1>3. \A k \in 0..n : cut[k] = IF k < n THEN run[k]
                               ELSE IF n = 0 THEN it ELSE ClientNext(run[n - 1], short[n])
  OBVIOUS
<1> HIDE DEF cut
<1>4. cut[0] = it
  <2>1. 0 \in 0..n /\ run[0] = it
    BY <1>1, <1>2 DEF Follows
  <2> QED BY <1>2, <1>3, <2>1
<1>5. ASSUME NEW k \in 1..n
      PROVE  /\ cut[k] = ClientNext(cut[k - 1], short[k])
             /\ Fine(cut[k], s, f, p, "error")
  <2>1. k \in 1..Len(tokens) /\ k \in 0..n /\ k - 1 \in 0..n /\ k - 1 < n /\ k \in 0..Len(tokens)
        /\ k - 1 \in 0..Len(tokens)
    BY <1>2
  <2>2. cut[k - 1] = run[k - 1]
    BY <1>3, <2>1
  <2>3. run[k] = ClientNext(run[k - 1], tokens[k]) /\ Fine(run[k - 1], s, f, p, e)
        /\ Fine(run[k], s, f, p, e)
    BY <1>1, <2>1 DEF Follows
  <2>4. CASE k < n
    <3>1. cut[k] = run[k] /\ short[k] = tokens[k]
      BY <1>3, <2>1, <2>4 DEF n
    <3>2. Fine(run[k], s, f, p, "error")
      BY <2>3, FineStays
    <3> QED BY <2>2, <2>3, <3>1, <3>2
  <2>5. CASE k = n
    <3>1. cut[k] = ClientNext(run[k - 1], short[k])
      BY <1>2, <1>3, <2>1, <2>5
    <3>2. short[k] = tokens[k] \/ short[k] = Half(tokens[k])
      BY DEF n
    <3>3. Fine(run[k], s, f, p, "error") /\ Fine(ClientNext(run[k - 1], Half(tokens[k])), s, f, p, "error")
      BY <2>3, FineStays, FineHalf
    <3> QED BY <2>2, <2>3, <3>1, <3>2, <3>3
  <2> QED BY <1>2, <2>4, <2>5
<1>6. Fine(cut[0], s, f, p, "error")
  <2>1. 0 \in 0..Len(tokens)
    OBVIOUS
  <2>2. Fine(run[0], s, f, p, e) /\ run[0] = it
    BY <1>1, <2>1 DEF Follows
  <2> QED BY <1>4, <2>2, FineStays
<1>7. \A k \in 0..n : Fine(cut[k], s, f, p, "error")
  BY <1>2, <1>5, <1>6
<1>8. ~Arrives(f, "error")
  BY DEF Arrives
<1> QED BY <1>4, <1>5, <1>7, <1>8 DEF Track, Follows, n

-----------------------------------------------------------------------------
(* What is written *)

\* Tokens a writer adds: whatever iterator had been given all, they make one
\* that has been given what they add.
Adds(tokens, s, f, p, s2, f2, p2) ==
  \A it :
    Fine(it, s, f, p, "open") /\ Fine(it, s2, f2, p2, "open") /\ Complete(it, s, f, p) =>
      \E run :
        /\ Follows(run, it, tokens)
        /\ \A k \in 1..Len(tokens) : Fine(run[k], s2, f2, p2, "open")
        /\ Complete(run[Len(tokens)], s2, f2, p2)

\* The run through tokens goes on through more.
LEMMA FollowsOn ==
  ASSUME NEW first, NEW it, NEW tokens, IsSeq(tokens), Follows(first, it, tokens),
         NEW second, NEW more, IsSeq(more), Follows(second, first[Len(tokens)], more)
  PROVE  \E run :
           /\ Follows(run, it, tokens \o more)
           /\ run[Len(tokens) + Len(more)] = second[Len(more)]
           /\ \A k \in 0..Len(tokens) : run[k] = first[k]
           /\ \A k \in 1..Len(more) : run[Len(tokens) + k] = second[k]
<1> DEFINE n == Len(tokens)
           l == Len(more)
           all == tokens \o more
           run == [k \in 0..(n + l) |-> IF k <= n THEN first[k] ELSE second[k - n]]
<1>1. /\ n \in Nat /\ l \in Nat /\ Len(all) = n + l
      /\ \A k \in 1..n : all[k] = tokens[k]
      /\ \A k \in 1..l : all[n + k] = more[k]
  BY ConcatIs DEF IsSeq
<1>2. \A k \in 0..(n + l) : run[k] = IF k <= n THEN first[k] ELSE second[k - n]
  OBVIOUS
<1>3. first[0] = it /\ \A k \in 1..n : first[k] = ClientNext(first[k - 1], tokens[k])
  BY DEF Follows
<1>4. second[0] = first[n] /\ \A k \in 1..l : second[k] = ClientNext(second[k - 1], more[k])
  BY DEF Follows
<1> HIDE DEF run, n, l, all
<1>5. ASSUME NEW k \in 0..n
      PROVE  run[k] = first[k]
  BY <1>1, <1>2
<1>6. ASSUME NEW k \in 0..l
      PROVE  run[n + k] = second[k]
  <2>1. n + k \in 0..(n + l) /\ (n + k) - n = k /\ (n + k <= n => k = 0)
    BY <1>1
  <2> QED BY <1>1, <1>2, <1>4, <2>1
<1>7. ASSUME NEW k \in 1..(n + l)
      PROVE  run[k] = ClientNext(run[k - 1], all[k])
  <2>1. CASE k <= n
    <3>1. k \in 1..n /\ k \in 0..n /\ k - 1 \in 0..n
      BY <1>1, <2>1
    <3> QED BY <1>1, <1>3, <1>5, <3>1
  <2>2. CASE k > n
    <3> DEFINE j == k - n
    <3>1. j \in 1..l /\ j \in 0..l /\ j - 1 \in 0..l /\ k = n + j /\ k - 1 = n + (j - 1)
      BY <1>1, <2>2
    <3> HIDE DEF j
    <3>2. run[k] = second[j] /\ run[k - 1] = second[j - 1] /\ all[k] = more[j]
      BY <1>1, <1>6, <3>1
    <3> QED BY <1>4, <3>1, <3>2
  <2> QED BY <1>1, <2>1, <2>2
<1>8. run[0] = it
  BY <1>1, <1>3, <1>5
<1>9. Follows(run, it, all)
  BY <1>1, <1>7, <1>8 DEF Follows
<1>10. run[n + l] = second[l] /\ \A k \in 1..l : run[n + k] = second[k]
  BY <1>1, <1>6
<1> QED BY <1>5, <1>9, <1>10 DEF n, l, all

\* They are written, and reach the reader.
LEMMA TrackMore ==
  ASSUME NEW it, NEW tokens, IsSeq(tokens), NEW s, IsSeq(s), NEW f, NEW p,
         Track(it, tokens, s, f, p, "open"), Arrives(f, "open"),
         NEW s2, s2 = s \/ (p \notin {"closed", "gone"} /\ \E v : s2 = Append(s, v)),
         NEW f2, f = "failed" => f2 = "failed",
         NEW p2, p \in {"closed", "gone"} => p2 \in {"closed", "gone"},
         NEW more, IsSeq(more), Adds(more, s, f, p, s2, f2, p2)
  PROVE  Track(it, tokens \o more, s2, f2, p2, "open")
<1> DEFINE n == Len(tokens)
           l == Len(more)
<1>1. PICK first : /\ Follows(first, it, tokens)
                   /\ \A k \in 0..n : Fine(first[k], s, f, p, "open")
                   /\ Complete(first[n], s, f, p)
  BY DEF Track
<1>2. \A k \in 0..n : Fine(first[k], s2, f2, p2, "open")
  BY <1>1, FineStays
<1>3. n \in Nat /\ l \in Nat /\ n \in 0..n /\ Len(tokens \o more) = n + l
  BY ConcatIs DEF IsSeq
<1>4. PICK second : /\ Follows(second, first[n], more)
                    /\ \A k \in 1..l : Fine(second[k], s2, f2, p2, "open")
                    /\ Complete(second[l], s2, f2, p2)
  BY <1>1, <1>2, <1>3 DEF Adds
<1>5. PICK run : /\ Follows(run, it, tokens \o more)
                 /\ run[n + l] = second[l]
                 /\ \A k \in 0..n : run[k] = first[k]
                 /\ \A k \in 1..l : run[n + k] = second[k]
  BY <1>1, <1>4, FollowsOn
<1> HIDE DEF n, l
<1>6. ASSUME NEW k \in 0..(n + l)
      PROVE  Fine(run[k], s2, f2, p2, "open")
  <2>1. CASE k <= n
    <3>1. k \in 0..n
      BY <1>3, <2>1
    <3> QED BY <1>2, <1>5, <3>1
  <2>2. CASE k > n
    <3>1. k - n \in 1..l /\ n + (k - n) = k
      BY <1>3, <2>2
    <3>2. run[n + (k - n)] = second[k - n]
      BY <1>5, <3>1
    <3> QED BY <1>4, <3>1, <3>2
  <2> QED BY <1>3, <2>1, <2>2
<1> QED BY <1>3, <1>4, <1>5, <1>6 DEF Track

\* What a payload makes of an iterator between two.
LEMMA ItemRead ==
  ASSUME StateOK, Separated, NEW it, NEW s, NEW f, NEW p, Fine(it, s, f, p, "open"),
         it.cur = << >>, conf.format = "rs" => it.in, Num(it.out) < Len(s)
  PROVE  LET next == ClientNext(it, Item(s[Num(it.out) + 1])) IN
         /\ Fine(next, s, f, p, "open")
         /\ next.cur = <<Item(s[Num(it.out) + 1])>> /\ next.out = it.out /\ next.in = it.in
<1> DEFINE t == Item(s[Num(it.out) + 1])
           next == ClientNext(it, t)
<1>1. t # Nl /\ t # Rs /\ t # Mark
  <2>1. Nl[1] = "nl" /\ Rs[1] = "rs" /\ t[1] = "item"
    BY DEF Nl, Rs, Item
  <2> QED BY <2>1 DEF Mark
<1> HIDE DEF t
<1>2. /\ IterOK(it)
      /\ it = [out |-> it.out, cur |-> it.cur, ev |-> it.ev, in |-> it.in, have |-> it.have,
               closed |-> it.closed]
  BY DEF Fine, IterOK
<1>3. next = [it EXCEPT !.cur = Append(it.cur, t)]
  <2>1. CASE conf.format = "lines"
    BY <1>1, <2>1 DEF ClientNext, ClientLine
  <2>2. CASE conf.format = "rs"
    BY <1>1, <2>2 DEF ClientNext, ClientSeq
  <2> QED BY <2>1, <2>2 DEF Separated
<1>4. Append(it.cur, t) = <<t>>
  OBVIOUS
<1>5. next.cur = <<t>> /\ next.out = it.out /\ next.in = it.in /\ next.closed = it.closed
  BY <1>2, <1>3, <1>4
<1>6. IterOK(next)
  BY <1>2, NextStays
<1> HIDE DEF next
<1>7. Fine(next, s, f, p, "open")
  BY <1>5, <1>6 DEF Fine, t
<1> QED BY <1>5, <1>7 DEF t, next

\* What the end of a record or line makes of it.
LEMMA RecordRead ==
  ASSUME Separated, NEW it, NEW s, Len(s) \in Nat, NEW f, NEW p, Fine(it, s, f, p, "open")
  PROVE  LET next == ClientRecord(it) IN
         /\ Fine(next, s, f, p, "open") /\ next.cur = << >> /\ next.in = it.in
         /\ Num(next.out) = IF it.cur = << >> THEN Num(it.out) ELSE Num(it.out) + 1
<1> DEFINE next == ClientRecord(it)
           m == Num(it.out)
<1>1. /\ IterOK(it) /\ IterOK(next) /\ next.cur = << >> /\ next.in = it.in /\ next.closed = it.closed
      /\ next.out = IF it.cur = << >> THEN it.out ELSE Append(it.out, ClientDecode(it.cur))
  BY RecordIs DEF Fine
<1>2. CASE it.cur = << >>
  BY <1>1, <1>2, FineAlike
<1>3. CASE it.cur # << >>
  <2> DEFINE v == s[m + 1]
  <2>1. m < Len(s) /\ it.cur = <<Item(v)>> /\ ~it.closed
    BY <1>3 DEF Fine, IterOK, Separated
  <2>2. ClientDecode(it.cur) = <<"value", Arriving(v)>>
    <3>1. Len(it.cur) = 1 /\ it.cur[1][1] = "item" /\ it.cur[1][2] = v
      <4>1. Item(v)[1] = "item" /\ Item(v)[2] = v
        BY DEF Item
      <4>2. \A a : Len(<<a>>) = 1 /\ <<a>>[1] = a
        OBVIOUS
      <4> QED BY <2>1, <4>1, <4>2
    <3>2. Arriving(v) = v
      BY DEF Arriving, Separated
    <3> QED BY <3>1, <3>2 DEF ClientDecode
  <2>3. IsSeq(it.out)
    BY <1>1 DEF IterOK, IsSeq
  <2>4. Delivers(next.out, s) /\ Num(next.out) = m + 1
    <3> DEFINE y == <<"value", Arriving(v)>>
    <3>1. next.out = Append(it.out, y) /\ y = <<"value", Arriving(s[Num(it.out) + 1])>>
      BY <1>1, <1>3, <2>2
    <3> HIDE DEF y
    <3> QED BY <2>1, <2>3, <3>1, DeliversMore DEF Fine
  <2>5. Plain(next.out, f)
    <3> DEFINE y == <<"value", Arriving(v)>>
    <3>1. next.out = Append(it.out, y) /\ y[1] = "value"
      BY <1>1, <1>3, <2>2
    <3> HIDE DEF y
    <3> QED BY <2>3, <3>1, PlainMore DEF Fine
  <2> HIDE DEF next
  <2>6. Fine(next, s, f, p, "open")
    BY <1>1, <2>1, <2>4, <2>5 DEF Fine
  <2> QED BY <1>1, <1>3, <2>4, <2>6 DEF next
<1> QED BY <1>2, <1>3

\* What the mark before a payload makes of it: the record before it ends.
LEMMA MarkRead ==
  ASSUME StateOK, Separated, NEW it, NEW s, Len(s) \in Nat, NEW f, NEW p, Fine(it, s, f, p, "open")
  PROVE  LET next == ClientNext(it, Mark) IN
         /\ Fine(next, s, f, p, "open") /\ next.cur = << >>
         /\ conf.format = "rs" => next.in
         /\ Num(next.out) = IF it.cur = << >> THEN Num(it.out) ELSE Num(it.out) + 1
<1> DEFINE r == ClientRecord(it)
<1>1. /\ Fine(r, s, f, p, "open") /\ r.cur = << >>
      /\ Num(r.out) = IF it.cur = << >> THEN Num(it.out) ELSE Num(it.out) + 1
  BY RecordRead
<1>2. CASE conf.format = "lines"
  <2>1. ClientNext(it, Mark) = r
    BY <1>2 DEF ClientNext, ClientLine, Mark
  <2> QED BY <1>1, <1>2, <2>1
<1>3. CASE conf.format = "rs"
  <2> DEFINE next == [r EXCEPT !.in = TRUE]
  <2>1. ClientNext(it, Mark) = next
    BY <1>3 DEF ClientNext, ClientSeq, Mark
  <2>2. IterOK(next)
    <3>1. IterOK(it)
      BY DEF Fine
    <3> QED BY <2>1, <3>1, NextStays
  <2>3. next.out = r.out /\ next.cur = r.cur /\ next.closed = r.closed /\ next.in
    <3> HIDE DEF r
    <3>1. r = [out |-> r.out, cur |-> r.cur, ev |-> r.ev, in |-> r.in, have |-> r.have,
               closed |-> r.closed]
      BY <1>1 DEF Fine, IterOK
    <3> QED BY <3>1
  <2>4. Fine(next, s, f, p, "open")
    <3> HIDE DEF next, r
    <3> QED BY <1>1, <2>2, <2>3, FineAlike
  <2> QED BY <1>1, <2>1, <2>3, <2>4
<1> QED BY <1>2, <1>3 DEF Separated

\* A run of one token.
LEMMA RunOne ==
  ASSUME NEW it, NEW t, NEW a, a = ClientNext(it, t)
  PROVE  \E run : Follows(run, it, <<t>>) /\ run[1] = a
<1> DEFINE run == [k \in 0..1 |-> IF k = 0 THEN it ELSE a]
<1>1. run[0] = it /\ run[1] = a
  OBVIOUS
<1> HIDE DEF run
<1>2. Follows(run, it, <<t>>)
  <2>1. Len(<<t>>) = 1 /\ <<t>>[1] = t
    OBVIOUS
  <2>2. \A k \in 1..1 : k = 1 /\ k - 1 = 0
    OBVIOUS
  <2> QED BY <1>1, <2>1, <2>2 DEF Follows
<1> QED BY <1>1, <1>2

\* Through two.
LEMMA RunTwo ==
  ASSUME NEW it, NEW t, NEW a, a = ClientNext(it, t), NEW u, NEW b, b = ClientNext(a, u)
  PROVE  \E run : Follows(run, it, <<t, u>>) /\ run[1] = a /\ run[2] = b
<1> DEFINE run == [k \in 0..2 |-> IF k = 0 THEN it ELSE IF k = 1 THEN a ELSE b]
<1>1. run[0] = it /\ run[1] = a /\ run[2] = b
  OBVIOUS
<1> HIDE DEF run
<1>2. Follows(run, it, <<t, u>>)
  <2>1. Len(<<t, u>>) = 2 /\ <<t, u>>[1] = t /\ <<t, u>>[2] = u
    OBVIOUS
  <2>2. \A k \in 1..2 : (k = 1 /\ k - 1 = 0) \/ (k = 2 /\ k - 1 = 1)
    OBVIOUS
  <2> QED BY <1>1, <2>1, <2>2 DEF Follows
<1> QED BY <1>1, <1>2

\* Through three.
LEMMA RunThree ==
  ASSUME NEW it, NEW t, NEW a, a = ClientNext(it, t), NEW u, NEW b, b = ClientNext(a, u),
         NEW w, NEW c, c = ClientNext(b, w)
  PROVE  \E run : Follows(run, it, <<t, u, w>>) /\ run[1] = a /\ run[2] = b /\ run[3] = c
<1> DEFINE run == [k \in 0..3 |-> IF k = 0 THEN it ELSE IF k = 1 THEN a ELSE IF k = 2 THEN b ELSE c]
<1>1. run[0] = it /\ run[1] = a /\ run[2] = b /\ run[3] = c
  OBVIOUS
<1> HIDE DEF run
<1>2. Follows(run, it, <<t, u, w>>)
  <2>1. Len(<<t, u, w>>) = 3 /\ <<t, u, w>>[1] = t /\ <<t, u, w>>[2] = u /\ <<t, u, w>>[3] = w
    OBVIOUS
  <2>2. \A k \in 1..3 : (k = 1 /\ k - 1 = 0) \/ (k = 2 /\ k - 1 = 1) \/ (k = 3 /\ k - 1 = 2)
    OBVIOUS
  <2> QED BY <1>1, <2>1, <2>2 DEF Follows
<1> QED BY <1>1, <1>2

\* A separator is written before the value it belongs to.
LEMMA AddsMark ==
  ASSUME StateOK, conf.format = "rs", NEW s, Len(s) \in Nat, NEW f, NEW p, p # "framed"
  PROVE  Adds(<<Rs>>, s, f, p, s, f, "framed")
<1> SUFFICES ASSUME NEW it, Fine(it, s, f, "framed", "open"), Complete(it, s, f, p)
             PROVE  \E run :
                      /\ Follows(run, it, <<Rs>>)
                      /\ \A k \in 1..Len(<<Rs>>) : Fine(run[k], s, f, "framed", "open")
                      /\ Complete(run[Len(<<Rs>>)], s, f, "framed")
  BY DEF Adds
<1> DEFINE a == ClientNext(it, Rs)
<1>1. Separated /\ Mark = Rs
  BY DEF Separated, Mark
<1>2. /\ Fine(a, s, f, "framed", "open") /\ a.cur = << >> /\ a.in
      /\ Num(a.out) = IF it.cur = << >> THEN Num(it.out) ELSE Num(it.out) + 1
  BY <1>1, MarkRead
<1>3. Num(a.out) = Len(s)
  <2>1. Num(it.out) \in 0..Len(s)
    BY DEF Fine, Delivers
  <2>2. \A v : <<v>> # << >>
    OBVIOUS
  <2>3. (Len(s) = 0 /\ it.cur = << >>) \/ (Num(it.out) + 1 = Len(s) /\ it.cur # << >>)
    BY <2>2 DEF Complete
  <2> HIDE DEF a
  <2> QED BY <1>2, <2>1, <2>3
<1>4. Complete(a, s, f, "framed")
  BY <1>2, <1>3 DEF Complete
<1> HIDE DEF a
<1>5. PICK run : Follows(run, it, <<Rs>>) /\ run[1] = a
  BY RunOne DEF a
<1>6. Len(<<Rs>>) = 1 /\ \A k \in 1..1 : k = 1
  OBVIOUS
<1> WITNESS run
<1> QED BY <1>2, <1>4, <1>5, <1>6

\* A payload and its newline where a payload may stand.
LEMMA ItemAdds ==
  ASSUME StateOK, Separated, NEW it, NEW s, Len(s) \in Nat, NEW f,
         NEW p, conf.format = "rs" => p # "framed",
         Fine(it, s, f, p, "open"), it.cur = << >>, conf.format = "rs" => it.in,
         Num(it.out) + 1 = Len(s)
  PROVE  LET a == ClientNext(it, Item(s[Len(s)]))
             b == ClientNext(a, Nl)
         IN  Fine(a, s, f, p, "open") /\ Fine(b, s, f, p, "open") /\ Complete(b, s, f, p)
<1> DEFINE a == ClientNext(it, Item(s[Len(s)]))
           b == ClientNext(a, Nl)
           m == Num(it.out)
<1>1. m \in Nat /\ m + 1 = Len(s) /\ m < Len(s)
  BY DEF Fine, Delivers
<1>2. /\ Fine(a, s, f, p, "open")
      /\ a.cur = <<Item(s[Len(s)])>> /\ a.out = it.out /\ a.in = it.in
  BY <1>1, ItemRead
<1> HIDE DEF a
<1>3. a.cur # << >>
  BY <1>2
<1>4. CASE conf.format = "lines"
  <2>1. Nl = Mark
    BY <1>4 DEF Mark
  <2>2. Fine(b, s, f, p, "open") /\ b.cur = << >> /\ Num(b.out) = Num(a.out) + 1
    BY <1>2, <1>3, <2>1, MarkRead
  <2>3. Complete(b, s, f, p)
    BY <1>1, <1>2, <1>4, <2>2 DEF Complete
  <2> QED BY <1>2, <2>2, <2>3 DEF a
<1>5. CASE conf.format = "rs"
  <2>1. Nl # Rs
    BY Tokens
  <2>2. b = a
    BY <1>5, <2>1 DEF ClientNext, ClientSeq
  <2>3. Complete(a, s, f, p)
    BY <1>1, <1>2, <1>5 DEF Complete
  <2> QED BY <1>2, <2>2, <2>3 DEF a
<1> QED BY <1>4, <1>5 DEF Separated

\* A payload and its newline add a value to a stream between two.
LEMMA AddsItem ==
  ASSUME StateOK, Separated, NEW s, IsSeq(s), NEW v, NEW f,
         NEW p, conf.format = "rs" => p = "framed"
  PROVE  Adds(<<Item(v), Nl>>, s, f, p, Append(s, v), f, "open")
<1> DEFINE s2 == Append(s, v)
           R == <<Item(v), Nl>>
<1>1. Len(s) \in Nat /\ Len(s2) = Len(s) + 1 /\ s2[Len(s2)] = v
  BY AppendIs DEF IsSeq
<1> HIDE DEF s2
<1>2. Len(R) = 2 /\ \A k \in 1..2 : k = 1 \/ k = 2
  OBVIOUS
<1> SUFFICES ASSUME NEW it, Fine(it, s2, f, "open", "open"), Complete(it, s, f, p)
             PROVE  \E run :
                      /\ Follows(run, it, R)
                      /\ \A k \in 1..Len(R) : Fine(run[k], s2, f, "open", "open")
                      /\ Complete(run[Len(R)], s2, f, "open")
  BY DEF Adds, s2
<1> DEFINE a == ClientNext(it, Item(v))
           b == ClientNext(a, Nl)
<1>3. Num(it.out) + 1 = Len(s2) /\ it.cur = << >> /\ (conf.format = "rs" => it.in)
  BY <1>1 DEF Complete, Separated
<1>4. Fine(a, s2, f, "open", "open") /\ Fine(b, s2, f, "open", "open") /\ Complete(b, s2, f, "open")
  BY <1>1, <1>3, ItemAdds
<1> HIDE DEF a, b
<1>5. PICK run : Follows(run, it, R) /\ run[1] = a /\ run[2] = b
  BY RunTwo DEF a, b
<1> HIDE DEF R
<1> WITNESS run
<1> QED BY <1>2, <1>4, <1>5

\* A separator, a payload and its newline do under the record separator framing.
LEMMA AddsRecord ==
  ASSUME StateOK, conf.format = "rs", NEW s, IsSeq(s), NEW v, NEW f, NEW p, p # "framed"
  PROVE  Adds(<<Rs, Item(v), Nl>>, s, f, p, Append(s, v), f, "open")
<1> DEFINE s2 == Append(s, v)
           R == <<Rs, Item(v), Nl>>
<1>1. Len(s) \in Nat /\ Len(s2) = Len(s) + 1 /\ s2[Len(s2)] = v
  BY AppendIs DEF IsSeq
<1> HIDE DEF s2
<1>2. Len(R) = 3 /\ \A k \in 1..3 : k = 1 \/ k = 2 \/ k = 3
  OBVIOUS
<1> SUFFICES ASSUME NEW it, Fine(it, s, f, p, "open"), Fine(it, s2, f, "open", "open"),
                    Complete(it, s, f, p)
             PROVE  \E run :
                      /\ Follows(run, it, R)
                      /\ \A k \in 1..Len(R) : Fine(run[k], s2, f, "open", "open")
                      /\ Complete(run[Len(R)], s2, f, "open")
  BY DEF Adds, s2
<1> DEFINE c == ClientNext(it, Rs)
           a == ClientNext(c, Item(v))
           b == ClientNext(a, Nl)
<1>3. Separated /\ Mark = Rs
  BY DEF Separated, Mark
<1>4. /\ Fine(c, s2, f, "open", "open") /\ c.cur = << >> /\ c.in
      /\ Num(c.out) = IF it.cur = << >> THEN Num(it.out) ELSE Num(it.out) + 1
  BY <1>1, <1>3, MarkRead
<1> HIDE DEF c
<1>5. Num(c.out) = Len(s)
  <2>1. Num(it.out) \in 0..Len(s)
    BY DEF Fine, Delivers
  <2>2. \A w : <<w>> # << >>
    OBVIOUS
  <2>3. (Len(s) = 0 /\ it.cur = << >>) \/ (Num(it.out) + 1 = Len(s) /\ it.cur # << >>)
    BY <2>2 DEF Complete
  <2>4. CASE Len(s) = 0 /\ it.cur = << >>
    BY <1>4, <2>1, <2>4
  <2>5. CASE Num(it.out) + 1 = Len(s) /\ it.cur # << >>
    BY <1>4, <2>5
  <2> QED BY <2>3, <2>4, <2>5
<1>6. Fine(a, s2, f, "open", "open") /\ Fine(b, s2, f, "open", "open") /\ Complete(b, s2, f, "open")
  <2>1. Num(c.out) + 1 = Len(s2)
    BY <1>1, <1>5
  <2> QED BY <1>1, <1>3, <1>4, <2>1, ItemAdds
<1> HIDE DEF a, b
<1>7. PICK run : Follows(run, it, R) /\ run[1] = c /\ run[2] = a /\ run[3] = b
  BY RunThree DEF a, b, c
<1> HIDE DEF R
<1> WITNESS run
<1> QED BY <1>2, <1>4, <1>6, <1>7

\* The iterator has n parts, the last one's boundary yet to come.
Parts(it, s, f, n) ==
  \/ n = Num(it.out) /\ it.cur = << >>
  \/ n = Num(it.out) + 1 /\ n <= Len(s) /\ it.cur = <<Item(s[n])>>
  \/ n = Num(it.out) /\ f = "failed" /\ it.cur # << >> /\ it.cur[1][1] = "cut"

\* What the boundary makes of it.
LEMMA BodyRead ==
  ASSUME conf.format = "multipart", NEW it, NEW s, Len(s) \in Nat, NEW f, NEW p,
         Fine(it, s, f, p, "open"),
         NEW n, Parts(it, s, f, n)
  PROVE  LET r == ClientBody(it, TRUE) IN
         /\ IterOK(r) /\ r.cur = << >> /\ r.closed = it.closed
         /\ Delivers(r.out, s) /\ Plain(r.out, f) /\ Num(r.out) = n
<1> DEFINE r == ClientBody(it, TRUE)
<1>1. /\ IterOK(it) /\ IterOK(r) /\ r.cur = << >> /\ r.closed = it.closed
      /\ r.out = IF it.cur = << >> THEN it.out
                 ELSE Append(it.out, IF it.cur[1][1] = "cut" THEN <<"cut", it.cur[1][2]>>
                                     ELSE <<"value", it.cur[1][2]>>)
      /\ Delivers(it.out, s) /\ Plain(it.out, f) /\ IsSeq(it.out) /\ Num(it.out) \in Nat
  <2>1. IterOK(it) /\ Delivers(it.out, s) /\ Plain(it.out, f)
    BY DEF Fine
  <2>2. IsSeq(it.out) /\ Num(it.out) \in Nat
    BY <2>1 DEF IterOK, IsSeq, Delivers
  <2>3. TRUE \in BOOLEAN
    OBVIOUS
  <2> QED BY <2>1, <2>2, <2>3, BodyIs
<1> HIDE DEF r
<1>2. CASE it.cur = << >>
  <2>1. \A w : <<w>> # << >>
    OBVIOUS
  <2>2. n = Num(it.out)
    BY <1>2, <2>1 DEF Parts
  <2> QED BY <1>1, <1>2, <2>2 DEF r
<1>3. CASE n = Num(it.out) + 1 /\ n <= Len(s) /\ it.cur = <<Item(s[n])>>
  <2> DEFINE y == <<"value", Arriving(s[Num(it.out) + 1])>>
  <2>1. it.cur # << >> /\ it.cur[1] = Item(s[n])
    BY <1>3
  <2>2. Item(s[n])[1] = "item" /\ Item(s[n])[2] = s[n] /\ Arriving(s[n]) = s[n]
    BY DEF Item, Arriving
  <2>3. r.out = Append(it.out, y)
    BY <1>1, <1>3, <2>1, <2>2
  <2>4. y[1] = "value"
    OBVIOUS
  <2>5. Num(it.out) < Len(s) /\ y = <<"value", Arriving(s[Num(it.out) + 1])>>
    BY <1>1, <1>3
  <2> HIDE DEF y
  <2>6. Delivers(r.out, s) /\ Num(r.out) = n
    BY <1>1, <1>3, <2>3, <2>5, DeliversMore
  <2>7. Plain(r.out, f)
    BY <1>1, <2>3, <2>4, PlainMore
  <2> QED BY <1>1, <2>6, <2>7 DEF r
<1>4. CASE n = Num(it.out) /\ f = "failed" /\ it.cur # << >> /\ it.cur[1][1] = "cut"
  <2> DEFINE y == <<"cut", it.cur[1][2]>>
  <2>1. r.out = Append(it.out, y) /\ y[1] = "cut"
    BY <1>1, <1>4
  <2> HIDE DEF y
  <2>2. Delivers(r.out, s) /\ Num(r.out) = n
    BY <1>1, <1>4, <2>1, DeliversMore
  <2>3. Plain(r.out, f)
    BY <1>1, <1>4, <2>1, PlainMore
  <2> QED BY <1>1, <2>2, <2>3 DEF r
<1> QED BY <1>2, <1>3, <1>4 DEF Parts

Part(v) == <<"part", v, "">>

\* A part's headers, once n parts have come whole.
LEMMA PartRead ==
  ASSUME StateOK, conf.format = "multipart", NEW it, NEW s, Len(s) \in Nat, NEW f,
         Fine(it, s, f, "open", "open"), NEW v,
         NEW n, Parts(it, s, f, n)
  PROVE  LET next == ClientNext(it, Part(v)) IN
         /\ Fine(next, s, f, "open", "open") /\ next.cur = << >> /\ ~next.closed /\ Num(next.out) = n
<1> DEFINE r == ClientBody(it, TRUE)
           t == Part(v)
           next == ClientNext(it, t)
           y == <<"head", t[2]>>
<1>1. /\ IterOK(r) /\ r.cur = << >> /\ r.closed = it.closed
      /\ Delivers(r.out, s) /\ Plain(r.out, f) /\ Num(r.out) = n
  BY BodyRead
<1>2. ~it.closed /\ IterOK(it) /\ IterOK(next)
  BY NextStays DEF Fine
<1>3. next = [r EXCEPT !.out = Append(r.out, y)]
  <2>1. t[1] = "part" /\ Closing[1] = "close"
    BY DEF Part, Closing
  <2> HIDE DEF t
  <2>2. t # Closing
    BY <2>1
  <2> QED BY <2>1, <2>2 DEF ClientNext, ClientPart
<1>4. y[1] = "head"
  OBVIOUS
<1> HIDE DEF r, y, next
<1>5. next.out = Append(r.out, y) /\ next.cur = r.cur /\ next.closed = r.closed
  BY <1>1, <1>3 DEF IterOK
<1>6. IsSeq(r.out)
  BY <1>1 DEF IterOK, IsSeq
<1>7. Delivers(next.out, s) /\ Num(next.out) = n
  BY <1>1, <1>4, <1>5, <1>6, DeliversMore
<1>8. Plain(next.out, f)
  BY <1>1, <1>4, <1>5, <1>6, PlainMore
<1>9. Fine(next, s, f, "open", "open")
  BY <1>1, <1>2, <1>5, <1>7, <1>8 DEF Fine, Separated
<1> QED BY <1>1, <1>2, <1>5, <1>7, <1>9 DEF next

\* A part's body, whole or not.
LEMMA ContentRead ==
  ASSUME StateOK, conf.format = "multipart", NEW it, NEW s, NEW f, NEW p,
         Fine(it, s, f, p, "open"), it.cur = << >>, NEW t, t[1] \in {"item", "cut"}
  PROVE  LET next == ClientNext(it, t) IN
         /\ Fine(next, s, f, p, "open") /\ next.cur = <<t>> /\ next.closed = it.closed
         /\ next.out = it.out
<1> DEFINE next == ClientNext(it, t)
           cur == Append(it.cur, t)
<1>1. t[1] # "part" /\ t # Closing
  <2>1. Closing[1] = "close"
    BY DEF Closing
  <2> QED BY <2>1
<1>2. next = [it EXCEPT !.cur = cur]
  BY <1>1 DEF ClientNext, ClientPart
<1>3. cur = <<t>>
  OBVIOUS
<1>4. IterOK(it) /\ IterOK(next)
  BY NextStays DEF Fine
<1> HIDE DEF next, cur
<1>5. next.out = it.out /\ next.closed = it.closed /\ next.cur = cur
  BY <1>2, <1>4 DEF IterOK
<1>6. Fine(next, s, f, p, "open")
  BY <1>4, <1>5, FineAlike DEF Separated
<1> QED BY <1>3, <1>5, <1>6 DEF next

\* A part adds a value once its boundary or the last comes.
LEMMA AddsPart ==
  ASSUME StateOK, conf.format = "multipart", NEW s, IsSeq(s), NEW v, NEW f, NEW p
  PROVE  Adds(<<Part(v), Item(v)>>, s, f, p, Append(s, v), f, "open")
<1> DEFINE s2 == Append(s, v)
           t == Item(v)
           u == Part(v)
           R == <<u, t>>
<1>1. /\ Len(s) \in Nat /\ Len(s2) = Len(s) + 1 /\ s2[Len(s2)] = v
      /\ \A k \in 1..Len(s) : s2[k] = s[k]
  BY AppendIs DEF IsSeq
<1> HIDE DEF s2
<1>2. Len(R) = 2 /\ \A k \in 1..2 : k = 1 \/ k = 2
  OBVIOUS
<1> SUFFICES ASSUME NEW it, Fine(it, s2, f, "open", "open"), Complete(it, s, f, p)
             PROVE  \E run :
                      /\ Follows(run, it, R)
                      /\ \A k \in 1..Len(R) : Fine(run[k], s2, f, "open", "open")
                      /\ Complete(run[Len(R)], s2, f, "open")
  BY DEF Adds, s2
<1> DEFINE a == ClientNext(it, u)
           b == ClientNext(a, t)
           n == Len(s)
<1>3. /\ Fine(a, s2, f, "open", "open") /\ a.cur = << >> /\ ~a.closed /\ Num(a.out) = n
  <2>1. Num(it.out) \in Nat
    BY DEF Fine, Delivers
  <2>2. Parts(it, s2, f, n)
    <3>1. CASE Num(it.out) + 1 = Len(s) /\ it.cur = <<Item(s[Len(s)])>>
      <4>1. n \in 1..Len(s)
        BY <1>1, <2>1, <3>1
      <4> QED BY <1>1, <3>1, <4>1 DEF Parts
    <3> QED BY <3>1 DEF Complete, Parts
  <2>3. Len(s2) \in Nat
    BY <1>1
  <2> HIDE DEF n
  <2> QED BY <2>2, <2>3, PartRead
<1> HIDE DEF a
<1>4. Fine(b, s2, f, "open", "open") /\ b.cur = <<t>> /\ b.closed = a.closed /\ b.out = a.out
  <2>1. t[1] \in {"item", "cut"}
    BY DEF Item
  <2> QED BY <1>3, <2>1, ContentRead
<1> HIDE DEF b
<1>5. Complete(b, s2, f, "open")
  BY <1>1, <1>3, <1>4 DEF Complete
<1> HIDE DEF t, u
<1>6. PICK run : Follows(run, it, R) /\ run[1] = a /\ run[2] = b
  BY RunTwo DEF a, b
<1> HIDE DEF R
<1> WITNESS run
<1> QED BY <1>2, <1>3, <1>4, <1>5, <1>6

\* A part whose source fails.
LEMMA AddsFailedPart ==
  ASSUME StateOK, conf.format = "multipart", NEW s, IsSeq(s), NEW v, NEW f, NEW p
  PROVE  Adds(<<Part(v), Beginning(v)>>, s, f, p, s, "failed", "open")
<1> DEFINE t == Beginning(v)
           u == Part(v)
           R == <<u, t>>
<1>1. Len(s) \in Nat
  BY DEF IsSeq
<1>2. Len(R) = 2 /\ \A k \in 1..2 : k = 1 \/ k = 2
  OBVIOUS
<1> SUFFICES ASSUME NEW it, Fine(it, s, "failed", "open", "open"), Complete(it, s, f, p)
             PROVE  \E run :
                      /\ Follows(run, it, R)
                      /\ \A k \in 1..Len(R) : Fine(run[k], s, "failed", "open", "open")
                      /\ Complete(run[Len(R)], s, "failed", "open")
  BY DEF Adds
<1> DEFINE a == ClientNext(it, u)
           b == ClientNext(a, t)
           n == Len(s)
<1>3. /\ Fine(a, s, "failed", "open", "open") /\ a.cur = << >> /\ ~a.closed /\ Num(a.out) = n
  <2>1. Num(it.out) \in Nat
    BY DEF Fine, Delivers
  <2>2. Parts(it, s, "failed", n)
    BY <1>1, <2>1 DEF Complete, Parts
  <2> HIDE DEF n
  <2> QED BY <1>1, <2>2, PartRead
<1> HIDE DEF a
<1>4. t[1] = "cut"
  BY DEF Beginning
<1>5. /\ Fine(b, s, "failed", "open", "open") /\ b.cur = <<t>> /\ b.closed = a.closed
      /\ b.out = a.out
  BY <1>3, <1>4, ContentRead
<1> HIDE DEF b, t, u
<1>6. b.cur # << >> /\ b.cur[1] = t
  BY <1>5
<1>7. Complete(b, s, "failed", "open")
  BY <1>3, <1>4, <1>5, <1>6 DEF Complete
<1>8. PICK run : Follows(run, it, R) /\ run[1] = a /\ run[2] = b
  BY RunTwo DEF a, b
<1> HIDE DEF R
<1> WITNESS run
<1> QED BY <1>2, <1>3, <1>5, <1>7, <1>8

\* The last boundary.
LEMMA AddsClosing ==
  ASSUME StateOK, conf.format = "multipart", NEW s, IsSeq(s), NEW f, NEW p
  PROVE  Adds(<<Closing>>, s, f, p, s, f, "closed")
<1> DEFINE t == Closing
           R == <<t>>
<1>1. Len(s) \in Nat
  BY DEF IsSeq
<1>2. Len(R) = 1 /\ \A k \in 1..1 : k = 1
  OBVIOUS
<1> SUFFICES ASSUME NEW it, Fine(it, s, f, "closed", "open"), Complete(it, s, f, p)
             PROVE  \E run :
                      /\ Follows(run, it, R)
                      /\ \A k \in 1..Len(R) : Fine(run[k], s, f, "closed", "open")
                      /\ Complete(run[Len(R)], s, f, "closed")
  BY DEF Adds
<1> DEFINE a == ClientNext(it, t)
           n == Len(s)
           r == ClientBody(it, TRUE)
<1>3. /\ IterOK(r) /\ r.cur = << >> /\ r.closed = it.closed
      /\ Delivers(r.out, s) /\ Plain(r.out, f) /\ Num(r.out) = n
  <2>1. Parts(it, s, f, n)
    BY <1>1 DEF Complete, Parts
  <2> QED BY <1>1, <2>1, BodyRead
<1>4. a = [r EXCEPT !.closed = TRUE]
  <2>1. t[1] # "part"
    BY DEF Closing
  <2> QED BY <2>1 DEF ClientNext, ClientPart
<1>5. IterOK(a)
  <2>1. IterOK(it)
    BY DEF Fine
  <2> QED BY <2>1, NextStays
<1> HIDE DEF a, r
<1>6. a.out = r.out /\ a.cur = r.cur
  BY <1>3, <1>4 DEF IterOK
<1>7. Fine(a, s, f, "closed", "open") /\ Complete(a, s, f, "closed")
  BY <1>3, <1>5, <1>6 DEF Fine, Complete, Separated
<1> HIDE DEF t
<1>8. PICK run : Follows(run, it, R) /\ run[1] = a
  BY RunOne DEF a
<1> HIDE DEF R
<1> WITNESS run
<1> QED BY <1>2, <1>7, <1>8 DEF t

\* Tokens that change nothing of what has been yielded.
Quiet(tokens, it, next) ==
  \E run :
    /\ Follows(run, it, tokens)
    /\ run[Len(tokens)] = next
    /\ \A k \in 0..Len(tokens) :
         IterOK(run[k]) /\ run[k].out = it.out /\ run[k].closed = it.closed

\* Quiet tokens after quiet tokens.
LEMMA QuietOn ==
  ASSUME NEW it, NEW tokens, IsSeq(tokens), NEW mid, Quiet(tokens, it, mid),
         NEW more, IsSeq(more), NEW next, Quiet(more, mid, next)
  PROVE  Quiet(tokens \o more, it, next)
<1> DEFINE n == Len(tokens)
           l == Len(more)
           ok(x) == IterOK(x) /\ x.out = it.out /\ x.closed = it.closed
<1>1. PICK first : /\ Follows(first, it, tokens) /\ first[n] = mid
                   /\ \A k \in 0..n : ok(first[k])
  BY DEF Quiet
<1>2. PICK second : /\ Follows(second, mid, more) /\ second[l] = next
                    /\ \A k \in 0..l : IterOK(second[k]) /\ second[k].out = mid.out
                                         /\ second[k].closed = mid.closed
  BY DEF Quiet
<1>3. PICK run : /\ Follows(run, it, tokens \o more)
                 /\ run[n + l] = second[l]
                 /\ \A k \in 0..n : run[k] = first[k]
                 /\ \A k \in 1..l : run[n + k] = second[k]
  BY <1>1, <1>2, FollowsOn
<1>4. n \in Nat /\ l \in Nat /\ Len(tokens \o more) = n + l
  BY ConcatIs DEF IsSeq
<1> HIDE DEF n, l
<1>5. mid.out = it.out /\ mid.closed = it.closed
  <2>1. n \in 0..n
    BY <1>4
  <2> QED BY <1>1, <2>1
<1>6. ASSUME NEW k \in 0..(n + l)
      PROVE  ok(run[k])
  <2>1. CASE k <= n
    <3>1. k \in 0..n
      BY <1>4, <2>1
    <3> QED BY <1>1, <1>3, <3>1
  <2>2. CASE k > n
    <3>1. k - n \in 1..l /\ k - n \in 0..l /\ n + (k - n) = k
      BY <1>4, <2>2
    <3>2. run[n + (k - n)] = second[k - n]
      BY <1>3, <3>1
    <3> QED BY <1>2, <1>5, <3>1, <3>2
  <2> QED BY <1>4, <2>1, <2>2
<1> QED BY <1>2, <1>3, <1>4, <1>6 DEF Quiet

\* And a token after them.
LEMMA QuietThen ==
  ASSUME NEW it, NEW head, IsSeq(head), NEW x, Quiet(head, it, x), NEW t
  PROVE  \E run :
           /\ Follows(run, it, head \o <<t>>)
           /\ Len(head \o <<t>>) = Len(head) + 1 /\ Len(head) \in Nat
           /\ run[Len(head) + 1] = ClientNext(x, t)
           /\ \A k \in 0..Len(head) :
                IterOK(run[k]) /\ run[k].out = it.out /\ run[k].closed = it.closed
<1> DEFINE more == <<t>>
           b == ClientNext(x, t)
<1>1. PICK first : /\ Follows(first, it, head) /\ first[Len(head)] = x
                   /\ \A k \in 0..Len(head) :
                        IterOK(first[k]) /\ first[k].out = it.out /\ first[k].closed = it.closed
  BY DEF Quiet
<1>2. PICK second : Follows(second, x, more) /\ second[1] = b
  BY RunOne
<1>3. IsSeq(more) /\ Len(more) = 1
  <2>1. <<t>> \in Seq({t}) /\ Len(<<t>>) = 1
    OBVIOUS
  <2> QED BY <2>1, InSeq
<1> HIDE DEF more, b
<1>4. Follows(first, it, head) /\ Follows(second, first[Len(head)], more)
  BY <1>1, <1>2
<1>5. PICK run : /\ Follows(run, it, head \o more)
                 /\ run[Len(head) + Len(more)] = second[Len(more)]
                 /\ \A k \in 0..Len(head) : run[k] = first[k]
                 /\ \A k \in 1..Len(more) : run[Len(head) + k] = second[k]
  BY <1>3, <1>4, FollowsOn
<1>6. Len(head) \in Nat /\ Len(head \o more) = Len(head) + 1
  <2>1. Len(head) \in Nat
    BY DEF IsSeq
  <2>2. Len(head \o more) = Len(head) + Len(more)
    BY <1>3, ConcatIs
  <2> QED BY <1>3, <2>1, <2>2
<1>7. run[Len(head) + 1] = b
  BY <1>2, <1>3, <1>5
<1>8. \A k \in 0..Len(head) :
        IterOK(run[k]) /\ run[k].out = it.out /\ run[k].closed = it.closed
  BY <1>1, <1>5
<1> QED BY <1>5, <1>6, <1>7, <1>8 DEF more, b

\* The iterator within an event, n lines of which have counted.
At(it, a, b, c, d, n) ==
  [out |-> it.out, cur |-> it.cur, ev |-> [id |-> a, event |-> b, retry |-> c, data |-> d],
   in |-> it.in, have |-> n > 0, closed |-> it.closed]

\* It is an iterator with the same yields.
LEMMA AtOK ==
  ASSUME NEW it, IterOK(it), NEW a, NEW b, NEW c, NEW d, NEW n
  PROVE  /\ IterOK(At(it, a, b, c, d, n)) /\ At(it, a, b, c, d, n).out = it.out
         /\ At(it, a, b, c, d, n).closed = it.closed
BY DEF At, IterOK

Line(field, text) == <<"line", field, text>>

\* What a line of each field makes of it.
LEMMA LineRead ==
  ASSUME conf.format = "sse", NEW it, NEW a, NEW b, NEW c, NEW d, NEW n \in Nat, NEW text
  PROVE  /\ ClientNext(At(it, a, b, c, d, n), Line("comment", text)) = At(it, a, b, c, d, n)
         /\ ClientNext(At(it, a, b, c, d, n), Line("id", text)) = At(it, text, b, c, d, n + 1)
         /\ ClientNext(At(it, a, b, c, d, n), Line("event", text)) = At(it, a, text, c, d, n + 1)
         /\ ClientNext(At(it, a, b, c, d, n), Line("retry", text)) = At(it, a, b, text, d, n + 1)
         /\ ClientNext(At(it, a, b, c, d, n), Line("data", text)) =
              At(it, a, b, c, ClientData(d, text), n + 1)
<1> DEFINE x == At(it, a, b, c, d, n)
           e == [id |-> a, event |-> b, retry |-> c, data |-> d]
<1>1. \A field : Line(field, text) # Blank /\ Line(field, text)[2] = field /\ Line(field, text)[3] = text
  <2>1. Blank[1] = "blank" /\ \A field : Line(field, text)[1] = "line"
    BY DEF Blank, Line
  <2>2. \A field : Line(field, text)[2] = field /\ Line(field, text)[3] = text
    BY DEF Line
  <2> QED BY <2>1, <2>2
<1>2. x.ev = e
  BY DEF At
<1>3. ASSUME NEW field
      PROVE  ClientNext(x, Line(field, text)) =
               IF field = "comment" THEN x
               ELSE [x EXCEPT !.have = TRUE, !.ev = ClientField(e, field, text)]
  <2> HIDE DEF x, e
  <2> QED BY <1>1, <1>2 DEF ClientNext, ClientSSE
<1>4. ASSUME NEW i, NEW j, NEW k, NEW l
      PROVE  [x EXCEPT !.have = TRUE, !.ev = [id |-> i, event |-> j, retry |-> k, data |-> l]] =
               At(it, i, j, k, l, n + 1)
  <2> DEFINE ev == [id |-> i, event |-> j, retry |-> k, data |-> l]
  <2>1. n + 1 > 0
    OBVIOUS
  <2>2. At(it, i, j, k, l, n + 1) =
          [out |-> it.out, cur |-> it.cur, ev |-> ev, in |-> it.in, have |-> n + 1 > 0,
           closed |-> it.closed]
    BY DEF At
  <2>3. PICK g : x = [out |-> it.out, cur |-> it.cur, ev |-> e, in |-> it.in, have |-> g,
                      closed |-> it.closed]
    BY DEF At
  <2> HIDE DEF x, e, ev
  <2>4. ASSUME NEW h
        PROVE  [x EXCEPT !.have = h, !.ev = ev] =
                 [out |-> it.out, cur |-> it.cur, ev |-> ev, in |-> it.in, have |-> h,
                  closed |-> it.closed]
    <3> DEFINE mid == [x EXCEPT !.have = h]
    <3>1. mid = [out |-> it.out, cur |-> it.cur, ev |-> e, in |-> it.in, have |-> h,
                 closed |-> it.closed]
      BY <2>3
    <3>2. [x EXCEPT !.have = h, !.ev = ev] = [mid EXCEPT !.ev = ev]
      OBVIOUS
    <3> HIDE DEF mid
    <3> QED BY <3>1, <3>2
  <2>5. (n + 1 > 0) = TRUE
    BY <2>1
  <2>6. At(it, i, j, k, l, n + 1) =
          [out |-> it.out, cur |-> it.cur, ev |-> ev, in |-> it.in, have |-> TRUE,
           closed |-> it.closed]
    BY <2>2, <2>5, Zenon
  <2>7. [x EXCEPT !.have = TRUE, !.ev = ev] =
          [out |-> it.out, cur |-> it.cur, ev |-> ev, in |-> it.in, have |-> TRUE,
           closed |-> it.closed]
    BY <2>4
  <2> QED BY <2>6, <2>7 DEF ev
<1>5. ClientField(e, "id", text) = [id |-> text, event |-> b, retry |-> c, data |-> d]
  BY DEF ClientField
<1>6. ClientField(e, "event", text) = [id |-> a, event |-> text, retry |-> c, data |-> d]
  BY DEF ClientField
<1>7. ClientField(e, "retry", text) = [id |-> a, event |-> b, retry |-> text, data |-> d]
  BY DEF ClientField
<1>8. ClientField(e, "data", text) =
        [id |-> a, event |-> b, retry |-> c, data |-> ClientData(d, text)]
  <2> DEFINE more == ClientData(d, text)
  <2>1. ClientField(e, "data", text) = [e EXCEPT !.data = more]
    BY DEF ClientField
  <2> HIDE DEF more
  <2>2. [e EXCEPT !.data = more] = [id |-> a, event |-> b, retry |-> c, data |-> more]
    OBVIOUS
  <2> QED BY <2>1, <2>2 DEF more
<1> HIDE DEF e, x
<1>9. ClientNext(x, Line("comment", text)) = x
  BY <1>3
<1>10. ClientNext(x, Line("id", text)) = At(it, text, b, c, d, n + 1)
  <2>1. ClientNext(x, Line("id", text)) = [x EXCEPT !.have = TRUE, !.ev = ClientField(e, "id", text)]
    BY <1>3
  <2> QED BY <1>4, <1>5, <2>1
<1>11. ClientNext(x, Line("event", text)) = At(it, a, text, c, d, n + 1)
  <2>1. ClientNext(x, Line("event", text)) = [x EXCEPT !.have = TRUE, !.ev = ClientField(e, "event", text)]
    BY <1>3
  <2> QED BY <1>4, <1>6, <2>1
<1>12. ClientNext(x, Line("retry", text)) = At(it, a, b, text, d, n + 1)
  <2>1. ClientNext(x, Line("retry", text)) = [x EXCEPT !.have = TRUE, !.ev = ClientField(e, "retry", text)]
    BY <1>3
  <2> QED BY <1>4, <1>7, <2>1
<1>13. ClientNext(x, Line("data", text)) = At(it, a, b, c, ClientData(d, text), n + 1)
  <2>1. ClientNext(x, Line("data", text)) = [x EXCEPT !.have = TRUE, !.ev = ClientField(e, "data", text)]
    BY <1>3
  <2> QED BY <1>4, <1>8, <2>1
<1> QED BY <1>9, <1>10, <1>11, <1>12, <1>13 DEF x

\* The lines of a field: of more than one the last counts.
LEMMA LinesAre ==
  ASSUME NEW field, NEW texts \in Seq(STRING)
  PROVE  /\ IsSeq(SSELines(field, texts)) /\ Len(SSELines(field, texts)) = Len(texts)
         /\ \A k \in 1..Len(texts) : SSELines(field, texts)[k] = Line(field, texts[k])
<1> DEFINE n == Len(texts)
           lines == [k \in 1..n |-> Line(field, texts[k])]
<1>1. n \in Nat /\ DOMAIN texts = 1..n
  OBVIOUS
<1>2. SSELines(field, texts) = lines
  BY <1>1 DEF SSELines, Line
<1> HIDE DEF n
<1>3. Len(lines) = n /\ lines = [k \in 1..n |-> lines[k]]
      /\ \A k \in 1..n : lines[k] = Line(field, texts[k])
  BY <1>1
<1> HIDE DEF lines
<1>4. IsSeq(lines)
  BY <1>1, <1>3 DEF IsSeq
<1> QED BY <1>2, <1>3, <1>4 DEF n

\* A run through lines, its iterators given one by one.
LEMMA QuietRun ==
  ASSUME NEW it, NEW field, NEW texts \in Seq(STRING), NEW at,
         \A k \in 0..Len(texts) : IterOK(at[k]) /\ at[k].out = it.out /\ at[k].closed = it.closed,
         \A k \in 1..Len(texts) : at[k] = ClientNext(at[k - 1], Line(field, texts[k]))
  PROVE  Quiet(SSELines(field, texts), at[0], at[Len(texts)])
<1>1. Follows(at, at[0], SSELines(field, texts))
  BY LinesAre DEF Follows
<1>2. at[0].out = it.out /\ at[0].closed = it.closed
  OBVIOUS
<1> QED BY <1>1, <1>2, LinesAre DEF Quiet

LastOr(texts, a) == IF texts = << >> THEN a ELSE texts[Len(texts)]

\* Comment lines change nothing.
LEMMA CommentRead ==
  ASSUME conf.format = "sse", NEW it, IterOK(it), NEW texts \in Seq(STRING),
         NEW a, NEW b, NEW c, NEW d, NEW n \in Nat
  PROVE  Quiet(SSELines("comment", texts), At(it, a, b, c, d, n), At(it, a, b, c, d, n))
<1> DEFINE x == At(it, a, b, c, d, n)
           m == Len(texts)
           at == [k \in 0..m |-> x]
<1>1. \A text : ClientNext(x, Line("comment", text)) = x
  BY LineRead
<1>2. IterOK(x) /\ x.out = it.out /\ x.closed = it.closed
  BY AtOK
<1> HIDE DEF x
<1>3. m \in Nat /\ 0 \in 0..m /\ m \in 0..m /\ \A k \in 1..m : k \in 0..m /\ k - 1 \in 0..m
  OBVIOUS
<1>4. \A k \in 0..m : at[k] = x
  OBVIOUS
<1> HIDE DEF at, m
<1>5. \A k \in 0..m : IterOK(at[k]) /\ at[k].out = it.out /\ at[k].closed = it.closed
  BY <1>2, <1>4
<1>6. \A k \in 1..m : at[k] = ClientNext(at[k - 1], Line("comment", texts[k]))
  BY <1>1, <1>3, <1>4
<1>7. Quiet(SSELines("comment", texts), at[0], at[m])
  BY <1>5, <1>6, QuietRun DEF m
<1> QED BY <1>3, <1>4, <1>7 DEF x

\* Of the lines of an id the last counts.
LEMMA IdRead ==
  ASSUME conf.format = "sse", NEW it, IterOK(it), NEW texts \in Seq(STRING),
         NEW a, NEW b, NEW c, NEW d, NEW n \in Nat
  PROVE  Quiet(SSELines("id", texts), At(it, a, b, c, d, n),
               At(it, LastOr(texts, a), b, c, d, n + Len(texts)))
<1> DEFINE m == Len(texts)
           at == [k \in 0..m |-> IF k = 0 THEN At(it, a, b, c, d, n) ELSE At(it, texts[k], b, c, d, n + k)]
<1>1. /\ m \in Nat /\ 0 \in 0..m /\ m \in 0..m /\ (m = 0 <=> texts = << >>)
      /\ \A k \in 1..m : k \in 0..m /\ k - 1 \in 0..m /\ k # 0
  OBVIOUS
<1>2. /\ at[0] = At(it, a, b, c, d, n)
      /\ \A k \in 1..m : at[k] = At(it, texts[k], b, c, d, n + k)
  BY <1>1
<1> HIDE DEF at, m
<1>3. ASSUME NEW k \in 0..m
      PROVE  IterOK(at[k]) /\ at[k].out = it.out /\ at[k].closed = it.closed
  <2>1. k = 0 \/ k \in 1..m
    BY <1>1
  <2> QED BY <1>2, <2>1, AtOK
<1>4. ASSUME NEW k \in 1..m
      PROVE  at[k] = ClientNext(at[k - 1], Line("id", texts[k]))
  <2>1. CASE k = 1
    <3>1. at[k - 1] = At(it, a, b, c, d, n) /\ n + k = n + 1
      BY <1>2, <2>1
    <3>2. at[k] = At(it, texts[k], b, c, d, n + k)
      BY <1>2
    <3> QED BY <3>1, <3>2, LineRead
  <2>2. CASE k # 1
    <3>1. k - 1 \in 1..m /\ n + (k - 1) \in Nat /\ (n + (k - 1)) + 1 = n + k
      BY <1>1, <2>2
    <3>2. at[k - 1] = At(it, texts[k - 1], b, c, d, n + (k - 1))
      BY <1>2, <3>1
    <3>3. at[k] = At(it, texts[k], b, c, d, n + k)
      BY <1>2
    <3> HIDE DEF at
    <3> QED BY <3>1, <3>2, <3>3, LineRead
  <2> QED BY <2>1, <2>2
<1>5. Quiet(SSELines("id", texts), at[0], at[m])
  BY <1>3, <1>4, QuietRun DEF m
<1>6. at[m] = At(it, LastOr(texts, a), b, c, d, n + Len(texts))
  <2>1. CASE m = 0
    <3>1. texts = << >> /\ n + m = n
      BY <1>1, <2>1
    <3> QED BY <1>2, <2>1, <3>1 DEF LastOr, m
  <2>2. CASE m # 0
    <3>1. m \in 1..m /\ texts # << >>
      BY <1>1, <2>2
    <3> QED BY <1>2, <3>1 DEF LastOr, m
  <2> QED BY <2>1, <2>2
<1> QED BY <1>2, <1>5, <1>6

\* Of those of an event's type.
LEMMA TypeRead ==
  ASSUME conf.format = "sse", NEW it, IterOK(it), NEW texts \in Seq(STRING),
         NEW a, NEW b, NEW c, NEW d, NEW n \in Nat
  PROVE  Quiet(SSELines("event", texts), At(it, a, b, c, d, n),
               At(it, a, LastOr(texts, b), c, d, n + Len(texts)))
<1> DEFINE m == Len(texts)
           at == [k \in 0..m |-> IF k = 0 THEN At(it, a, b, c, d, n) ELSE At(it, a, texts[k], c, d, n + k)]
<1>1. /\ m \in Nat /\ 0 \in 0..m /\ m \in 0..m /\ (m = 0 <=> texts = << >>)
      /\ \A k \in 1..m : k \in 0..m /\ k - 1 \in 0..m /\ k # 0
  OBVIOUS
<1>2. /\ at[0] = At(it, a, b, c, d, n)
      /\ \A k \in 1..m : at[k] = At(it, a, texts[k], c, d, n + k)
  BY <1>1
<1> HIDE DEF at, m
<1>3. ASSUME NEW k \in 0..m
      PROVE  IterOK(at[k]) /\ at[k].out = it.out /\ at[k].closed = it.closed
  <2>1. k = 0 \/ k \in 1..m
    BY <1>1
  <2> QED BY <1>2, <2>1, AtOK
<1>4. ASSUME NEW k \in 1..m
      PROVE  at[k] = ClientNext(at[k - 1], Line("event", texts[k]))
  <2>1. CASE k = 1
    <3>1. at[k - 1] = At(it, a, b, c, d, n) /\ n + k = n + 1
      BY <1>2, <2>1
    <3>2. at[k] = At(it, a, texts[k], c, d, n + k)
      BY <1>2
    <3> QED BY <3>1, <3>2, LineRead
  <2>2. CASE k # 1
    <3>1. k - 1 \in 1..m /\ n + (k - 1) \in Nat /\ (n + (k - 1)) + 1 = n + k
      BY <1>1, <2>2
    <3>2. at[k - 1] = At(it, a, texts[k - 1], c, d, n + (k - 1))
      BY <1>2, <3>1
    <3>3. at[k] = At(it, a, texts[k], c, d, n + k)
      BY <1>2
    <3> HIDE DEF at
    <3> QED BY <3>1, <3>2, <3>3, LineRead
  <2> QED BY <2>1, <2>2
<1>5. Quiet(SSELines("event", texts), at[0], at[m])
  BY <1>3, <1>4, QuietRun DEF m
<1>6. at[m] = At(it, a, LastOr(texts, b), c, d, n + Len(texts))
  <2>1. CASE m = 0
    <3>1. texts = << >> /\ n + m = n
      BY <1>1, <2>1
    <3> QED BY <1>2, <2>1, <3>1 DEF LastOr, m
  <2>2. CASE m # 0
    <3>1. m \in 1..m /\ texts # << >>
      BY <1>1, <2>2
    <3> QED BY <1>2, <3>1 DEF LastOr, m
  <2> QED BY <2>1, <2>2
<1> QED BY <1>2, <1>5, <1>6

\* Of those of its retry.
LEMMA RetryRead ==
  ASSUME conf.format = "sse", NEW it, IterOK(it), NEW texts \in Seq(STRING),
         NEW a, NEW b, NEW c, NEW d, NEW n \in Nat
  PROVE  Quiet(SSELines("retry", texts), At(it, a, b, c, d, n),
               At(it, a, b, LastOr(texts, c), d, n + Len(texts)))
<1> DEFINE m == Len(texts)
           at == [k \in 0..m |-> IF k = 0 THEN At(it, a, b, c, d, n) ELSE At(it, a, b, texts[k], d, n + k)]
<1>1. /\ m \in Nat /\ 0 \in 0..m /\ m \in 0..m /\ (m = 0 <=> texts = << >>)
      /\ \A k \in 1..m : k \in 0..m /\ k - 1 \in 0..m /\ k # 0
  OBVIOUS
<1>2. /\ at[0] = At(it, a, b, c, d, n)
      /\ \A k \in 1..m : at[k] = At(it, a, b, texts[k], d, n + k)
  BY <1>1
<1> HIDE DEF at, m
<1>3. ASSUME NEW k \in 0..m
      PROVE  IterOK(at[k]) /\ at[k].out = it.out /\ at[k].closed = it.closed
  <2>1. k = 0 \/ k \in 1..m
    BY <1>1
  <2> QED BY <1>2, <2>1, AtOK
<1>4. ASSUME NEW k \in 1..m
      PROVE  at[k] = ClientNext(at[k - 1], Line("retry", texts[k]))
  <2>1. CASE k = 1
    <3>1. at[k - 1] = At(it, a, b, c, d, n) /\ n + k = n + 1
      BY <1>2, <2>1
    <3>2. at[k] = At(it, a, b, texts[k], d, n + k)
      BY <1>2
    <3> QED BY <3>1, <3>2, LineRead
  <2>2. CASE k # 1
    <3>1. k - 1 \in 1..m /\ n + (k - 1) \in Nat /\ (n + (k - 1)) + 1 = n + k
      BY <1>1, <2>2
    <3>2. at[k - 1] = At(it, a, b, texts[k - 1], d, n + (k - 1))
      BY <1>2, <3>1
    <3>3. at[k] = At(it, a, b, texts[k], d, n + k)
      BY <1>2
    <3> HIDE DEF at
    <3> QED BY <3>1, <3>2, <3>3, LineRead
  <2> QED BY <2>1, <2>2
<1>5. Quiet(SSELines("retry", texts), at[0], at[m])
  BY <1>3, <1>4, QuietRun DEF m
<1>6. at[m] = At(it, a, b, LastOr(texts, c), d, n + Len(texts))
  <2>1. CASE m = 0
    <3>1. texts = << >> /\ n + m = n
      BY <1>1, <2>1
    <3> QED BY <1>2, <2>1, <3>1 DEF LastOr, m
  <2>2. CASE m # 0
    <3>1. m \in 1..m /\ texts # << >>
      BY <1>1, <2>2
    <3> QED BY <1>2, <3>1 DEF LastOr, m
  <2> QED BY <2>1, <2>2
<1> QED BY <1>2, <1>5, <1>6

\* The lines of data that come to nothing.
LEMMA LeadingIs ==
  ASSUME NEW lines \in Seq(STRING)
  PROVE  LET z == LeadingEmpty(lines) IN
         /\ z \in 0..Len(lines)
         /\ \A k \in 1..z : lines[k] = ""
         /\ z < Len(lines) => lines[z + 1] # ""
<1> DEFINE m == Len(lines)
           S == {n \in 0..m : n < m => lines[n + 1] # ""}
<1>1. m \in Nat
  OBVIOUS
<1>2. m \in S /\ S \in SUBSET Nat
  <2>1. m \in 0..m /\ ~(m < m) /\ \A n \in 0..m : n \in Nat
    BY <1>1
  <2> QED BY <2>1
<1> HIDE DEF S
<1>3. PICK z \in S : \A n \in S : z <= n
  BY <1>2, Least
<1> USE DEF S
<1>4. ASSUME NEW k \in 1..z
      PROVE  lines[k] = ""
  <2>1. z \in 0..m
    OBVIOUS
  <2> HIDE DEF S, m
  <2>2. k - 1 \in 0..m /\ ~(z <= k - 1) /\ (k - 1) + 1 = k
    BY <1>1, <2>1
  <2>3. k - 1 \notin S
    BY <1>3, <2>2
  <2> QED BY <2>2, <2>3 DEF S
<1>5. /\ z \in 0..m
      /\ \A k \in 1..z : lines[k] = ""
      /\ z < m => lines[z + 1] # ""
  BY <1>4
<1> HIDE DEF S
<1> QED BY <1>5 DEF LeadingEmpty

\* An event's data but for the lines that come to nothing.
DataRest(lines) == SubSeq(lines, LeadingEmpty(lines) + 1, Len(lines))

\* Lines of data are gathered, but for the empty ones they begin with.
LEMMA DataRead ==
  ASSUME conf.format = "sse", NEW it, IterOK(it), NEW texts \in Seq(STRING),
         NEW a, NEW b, NEW c, NEW n \in Nat
  PROVE  Quiet(SSELines("data", texts), At(it, a, b, c, << >>, n),
               At(it, a, b, c, DataRest(texts), n + Len(texts)))
<1> DEFINE m == Len(texts)
           z == LeadingEmpty(texts)
           part(k) == SubSeq(texts, z + 1, k)
           at == [k \in 0..m |-> At(it, a, b, c, part(k), n + k)]
<1>1. /\ m \in Nat /\ 0 \in 0..m /\ m \in 0..m
      /\ \A k \in 1..m : k \in 0..m /\ k - 1 \in 0..m
  OBVIOUS
<1>2. /\ z \in 0..m
      /\ \A k \in 1..z : texts[k] = ""
      /\ z < m => texts[z + 1] # ""
  BY LeadingIs
<1>12. z \in Nat /\ z <= m
  <2>1. z \in 0..Len(texts)
    BY <1>2
  <2> HIDE DEF z
  <2> QED BY <2>1
<1> HIDE DEF z, m
<1>3. ASSUME NEW k \in 1..m
      PROVE  part(k) = ClientData(part(k - 1), texts[k])
  <2>1. k \in Nat /\ z \in Nat /\ k <= m /\ k >= 1
    BY <1>1, <1>12
  <2>2. CASE k <= z
    <3>1. part(k) = << >> /\ part(k - 1) = << >>
      <4>1. \A l \in Int : l < z + 1 => part(l) = << >>
        BY <2>1, SubSeqEmpty
      <4> HIDE DEF part
      <4> QED BY <2>1, <2>2, <4>1
    <3>2. texts[k] = ""
      <4>1. k \in 1..z
        BY <2>1, <2>2
      <4> QED BY <1>2, <4>1
    <3> QED BY <3>1, <3>2 DEF ClientData
  <2>3. CASE k = z + 1
    <3>1. part(k - 1) = << >>
      BY <2>1, <2>3, SubSeqEmpty
    <3>2. part(k) = <<texts[k]>>
      <4>1. part(k) = part(k - 1) \o <<texts[k]>>
        <5>1. z + 1 \in 1..Len(texts) /\ k \in (z + 1)..Len(texts)
          BY <1>1, <2>1, <2>3 DEF m
        <5> QED BY <5>1, SubSeqRecursiveSecond
      <4>2. \A x : << >> \o <<x>> = <<x>>
        OBVIOUS
      <4> HIDE DEF part
      <4> QED BY <3>1, <4>1, <4>2
    <3>3. texts[k] # ""
      <4>1. z < m
        BY <1>1, <2>1, <2>3
      <4> QED BY <1>2, <2>3, <4>1
    <3>4. Append(<< >>, texts[k]) = <<texts[k]>>
      OBVIOUS
    <3> HIDE DEF part
    <3> QED BY <3>1, <3>2, <3>3, <3>4 DEF ClientData
  <2>4. CASE k > z + 1
    <3>1. part(k - 1) \in Seq(STRING) /\ Len(part(k - 1)) # 0
      <4>1. /\ z + 1 \in Int /\ k - 1 \in Int /\ z + 1 <= k - 1
            /\ \A i \in (z + 1)..(k - 1) : i \in 1..Len(texts)
        BY <1>1, <2>1, <2>4 DEF m
      <4>2. \A i \in (z + 1)..(k - 1) : texts[i] \in STRING
        BY <4>1
      <4> HIDE DEF part
      <4>3. /\ part(k - 1) \in Seq(STRING)
            /\ Len(part(k - 1)) = IF z + 1 <= k - 1 THEN k - 1 - (z + 1) + 1 ELSE 0
        BY <4>1, <4>2, SubSeqProperties DEF part
      <4> QED BY <2>1, <4>1, <4>3
    <3>2. part(k) = Append(part(k - 1), texts[k])
      <4>1. part(k) = part(k - 1) \o <<texts[k]>>
        <5>1. z + 1 \in 1..Len(texts) /\ k \in (z + 1)..Len(texts)
          BY <1>1, <2>1, <2>4 DEF m
        <5> QED BY <5>1, SubSeqRecursiveSecond
      <4>2. texts[k] \in STRING
        <5>1. k \in 1..Len(texts)
          BY DEF m
        <5> QED BY <5>1
      <4> HIDE DEF part
      <4> QED BY <3>1, <4>1, <4>2, AppendIsConcat
    <3>3. part(k - 1) # << >>
      <4>1. Len(<< >>) = 0
        OBVIOUS
      <4> HIDE DEF part
      <4> QED BY <3>1, <4>1
    <3> HIDE DEF part
    <3> QED BY <3>2, <3>3 DEF ClientData
  <2> QED BY <2>1, <2>2, <2>3, <2>4
<1>4. part(0) = << >>
  <2>1. z + 1 \in Int /\ 0 < z + 1
    BY <1>12
  <2> QED BY <2>1, SubSeqEmpty
<1>5. part(m) = DataRest(texts)
  BY DEF DataRest, z, m
<1>6. \A k \in 0..m : at[k] = At(it, a, b, c, part(k), n + k)
  OBVIOUS
<1> HIDE DEF at, part
<1>7. \A k \in 0..m : IterOK(at[k]) /\ at[k].out = it.out /\ at[k].closed = it.closed
  BY <1>6, AtOK
<1>8. ASSUME NEW k \in 1..m
      PROVE  at[k] = ClientNext(at[k - 1], Line("data", texts[k]))
  <2>1. k \in 0..m /\ k - 1 \in 0..m /\ n + (k - 1) \in Nat /\ (n + (k - 1)) + 1 = n + k
    BY <1>1
  <2>2. /\ at[k] = At(it, a, b, c, part(k), n + k)
        /\ at[k - 1] = At(it, a, b, c, part(k - 1), n + (k - 1))
    BY <1>6, <2>1
  <2> QED BY <1>3, <2>1, <2>2, LineRead
<1>9. Quiet(SSELines("data", texts), at[0], at[m])
  BY <1>7, <1>8, QuietRun DEF m
<1>10. at[0] = At(it, a, b, c, << >>, n)
  <2>1. n + 0 = n
    OBVIOUS
  <2> QED BY <1>1, <1>4, <1>6, <2>1
<1>11. at[m] = At(it, a, b, c, DataRest(texts), n + Len(texts))
  BY <1>1, <1>5, <1>6 DEF m
<1> QED BY <1>9, <1>10, <1>11

\* What flush trims.
Trimmed(d) == IF Len(d) > 1 /\ Last(d) = "" THEN Front(d) ELSE d

Event(a, b, c, d) == [id |-> a, event |-> b, retry |-> c, data |-> d]

\* An event has become a value, and nothing is left of it.
Dispatched(next, it, ev) ==
  /\ next.out = Append(it.out, <<"value", ev>>)
  /\ next.closed = it.closed /\ next.ev = NoEvent /\ next.have = FALSE

\* The blank line makes a value of what has been gathered.
LEMMA EventRead ==
  ASSUME conf.format = "sse", NEW it, NEW a, NEW b, NEW c, NEW d, NEW n, n \in Nat \ {0},
         NEW x, x = At(it, a, b, c, d, n)
  PROVE  Dispatched(ClientNext(x, Blank), it, Event(a, b, c, Trimmed(d)))
<1> DEFINE e == [id |-> a, event |-> b, retry |-> c, data |-> d]
           trimmed == Trimmed(d)
           y == Event(a, b, c, trimmed)
           out == Append(it.out, <<"value", y>>)
           next == ClientNext(x, Blank)
<1>1. x.ev = e /\ x.out = it.out /\ x.have
  <2>1. x.ev = e /\ x.out = it.out /\ x.have = (n > 0)
    BY DEF At
  <2>2. n > 0
    OBVIOUS
  <2> HIDE DEF e
  <2> QED BY <2>1, <2>2, Zenon
<1>2. e.data = d
  OBVIOUS
<1>3. [x.ev EXCEPT !.data = IF Len(x.ev.data) > 1 /\ Last(x.ev.data) = "" THEN Front(x.ev.data)
                            ELSE x.ev.data] = y
  <2>1. [x.ev EXCEPT !.data = IF Len(x.ev.data) > 1 /\ Last(x.ev.data) = "" THEN Front(x.ev.data)
                              ELSE x.ev.data] = [e EXCEPT !.data = trimmed]
    BY <1>1, <1>2 DEF Trimmed
  <2>3. y = [id |-> a, event |-> b, retry |-> c, data |-> trimmed]
    BY DEF Event
  <2> HIDE DEF trimmed, y
  <2>2. [e EXCEPT !.data = trimmed] = y
    BY <2>3
  <2> QED BY <2>1, <2>2
<1>4. PICK g : x = [out |-> it.out, cur |-> it.cur, ev |-> e, in |-> it.in, have |-> g,
                    closed |-> it.closed]
  BY DEF At
<1> HIDE DEF e, y
<1>5. next = [x EXCEPT !.out = out, !.ev = NoEvent, !.have = FALSE]
  <2>1. next = ClientEvent(x)
    <3>1. conf.format # "lines" /\ conf.format # "rs"
      OBVIOUS
    <3>2. next = ClientSSE(x, Blank)
      BY <3>1 DEF ClientNext
    <3>3. Blank[2] # "comment"
      BY DEF Blank
    <3> QED BY <3>2, <3>3 DEF ClientSSE
  <2> DEFINE ev == [x.ev EXCEPT !.data = IF Len(x.ev.data) > 1 /\ Last(x.ev.data) = ""
                                         THEN Front(x.ev.data) ELSE x.ev.data]
  <2>2. ev = y
    BY <1>3
  <2>3. ClientEvent(x) = IF x.have THEN [x EXCEPT !.out = Append(x.out, <<"value", ev>>), !.ev = NoEvent,
                                                  !.have = FALSE]
                         ELSE x
    BY DEF ClientEvent
  <2> HIDE DEF ev
  <2>4. Append(x.out, <<"value", ev>>) = out
    BY <1>1, <2>2
  <2> HIDE DEF out, next
  <2> QED BY <1>1, <2>1, <2>3, <2>4
<1> HIDE DEF out
<1>6. \A w : w = NoEvent =>
        /\ [x EXCEPT !.out = out, !.ev = w, !.have = FALSE].out = out
        /\ [x EXCEPT !.out = out, !.ev = w, !.have = FALSE].closed = it.closed
        /\ [x EXCEPT !.out = out, !.ev = w, !.have = FALSE].ev = w
        /\ [x EXCEPT !.out = out, !.ev = w, !.have = FALSE].have = FALSE
  BY <1>4
<1> HIDE DEF next
<1> QED BY <1>5, <1>6 DEF Dispatched, next, out, y, trimmed

\* The lines of an event, up to the blank one.
LEMMA LinesRead ==
  ASSUME conf.format = "sse", NEW v \in Events, NEW it, IterOK(it)
  PROVE  \E head, n :
           /\ n \in Nat \ {0}
           /\ SSEFrame(v) = head \o <<Blank>> /\ IsSeq(head)
           /\ Quiet(head, At(it, "", "", "", << >>, 0),
                    At(it, LastOr(v.id, ""), LastOr(v.event, ""), LastOr(v.retry, ""),
                       DataRest(v.data), n))
<1> DEFINE A == SSELines("comment", v.comment)
           B == SSELines("id", v.id)
           C == SSELines("event", v.event)
           D == SSELines("retry", v.retry)
           E == SSELines("data", v.data)
           n1 == 0 + Len(v.id)
           n2 == n1 + Len(v.event)
           n3 == n2 + Len(v.retry)
           n4 == n3 + Len(v.data)
           x0 == At(it, "", "", "", << >>, 0)
           x1 == At(it, LastOr(v.id, ""), "", "", << >>, n1)
           x2 == At(it, LastOr(v.id, ""), LastOr(v.event, ""), "", << >>, n2)
           x3 == At(it, LastOr(v.id, ""), LastOr(v.event, ""), LastOr(v.retry, ""), << >>, n3)
           x4 == At(it, LastOr(v.id, ""), LastOr(v.event, ""), LastOr(v.retry, ""),
                    DataRest(v.data), n4)
<1>1. /\ v.comment \in Seq(STRING) /\ v.id \in Seq(STRING) /\ v.event \in Seq(STRING)
      /\ v.retry \in Seq(STRING) /\ v.data \in Seq(STRING) /\ v.data # << >>
  BY EventsAssumption
<1>2. /\ 0 \in Nat /\ n1 \in Nat /\ n2 \in Nat /\ n3 \in Nat /\ n4 \in Nat \ {0}
  <2>1. /\ Len(v.id) \in Nat /\ Len(v.event) \in Nat /\ Len(v.retry) \in Nat
        /\ Len(v.data) \in Nat /\ Len(v.data) # 0
    <3>1. Len(v.id) \in Nat /\ Len(v.event) \in Nat /\ Len(v.retry) \in Nat /\ Len(v.data) \in Nat
      BY <1>1
    <3>2. IsSeq(v.data)
      BY <1>1, InSeq
    <3>3. Len(v.data) = 0 => v.data = << >>
      BY <3>2, EmptyIs
    <3>4. v.data # << >>
      BY <1>1
    <3> QED BY <3>1, <3>3, <3>4
  <2>2. \A i, j, k, l \in Nat :
          l # 0 => /\ 0 + i \in Nat /\ 0 + i + j \in Nat /\ 0 + i + j + k \in Nat
                   /\ 0 + i + j + k + l \in Nat \ {0}
    OBVIOUS
  <2> QED BY <2>1, <2>2
<1>3. IsSeq(A) /\ IsSeq(B) /\ IsSeq(C) /\ IsSeq(D) /\ IsSeq(E)
  BY <1>1, LinesAre
<1>4. Quiet(A, x0, x0)
  BY <1>1, <1>2, CommentRead
<1>5. Quiet(B, x0, x1)
  BY <1>1, <1>2, IdRead
<1> HIDE DEF n1
<1>6. Quiet(C, x1, x2)
  BY <1>1, <1>2, TypeRead
<1> HIDE DEF n2
<1>7. Quiet(D, x2, x3)
  BY <1>1, <1>2, RetryRead
<1> HIDE DEF n3
<1>8. Quiet(E, x3, x4)
  BY <1>1, <1>2, DataRead
<1> HIDE DEF n4
<1>9. SSEFrame(v) = (A \o B \o C \o D \o E) \o <<Blank>>
  BY DEF SSEFrame
<1> HIDE DEF A, B, C, D, E, x0, x1, x2, x3, x4
<1>10. Quiet(A \o B, x0, x1) /\ IsSeq(A \o B)
  BY <1>3, <1>4, <1>5, QuietOn, ConcatIs
<1>11. Quiet(A \o B \o C, x0, x2) /\ IsSeq(A \o B \o C)
  BY <1>3, <1>6, <1>10, QuietOn, ConcatIs
<1>12. Quiet(A \o B \o C \o D, x0, x3) /\ IsSeq(A \o B \o C \o D)
  BY <1>3, <1>7, <1>11, QuietOn, ConcatIs
<1>13. Quiet(A \o B \o C \o D \o E, x0, x4) /\ IsSeq(A \o B \o C \o D \o E)
  BY <1>3, <1>8, <1>12, QuietOn, ConcatIs
<1> WITNESS A \o B \o C \o D \o E, n4
<1> QED BY <1>2, <1>9, <1>13 DEF x0, x4

\* What an event arrives as is what those lines make of it.
LEMMA ArrivingIs ==
  ASSUME conf.format = "sse", NEW v \in Events
  PROVE  Arriving(v) = Event(LastOr(v.id, ""), LastOr(v.event, ""), LastOr(v.retry, ""),
                             Trimmed(DataRest(v.data)))
<1>1. \A lines : LastLine(lines) = LastOr(lines, "")
  BY DEF LastLine, LastOr, Last
<1>2. ArrivingData(v.data) = Trimmed(DataRest(v.data))
  BY DEF ArrivingData, Trimmed, DataRest
<1> QED BY <1>1, <1>2 DEF Arriving, Event

\* A sequence without its last element.
LEMMA FrontIs ==
  ASSUME NEW S, NEW s \in Seq(S), Len(s) > 1
  PROVE  /\ Front(s) \in Seq(S) /\ Len(Front(s)) = Len(s) - 1
         /\ \A k \in 1..(Len(s) - 1) : Front(s)[k] = s[k]
BY DEF Front

\* A stretch of a sequence.
LEMMA StretchIs ==
  ASSUME NEW S, NEW s \in Seq(S), NEW a \in 1..Len(s), NEW b \in 1..Len(s), a <= b
  PROVE  /\ SubSeq(s, a, b) \in Seq(S) /\ Len(SubSeq(s, a, b)) = (b - a) + 1
         /\ \A k \in 1..((b - a) + 1) : SubSeq(s, a, b)[k] = s[(a + k) - 1]
OBVIOUS

\* Sequences of the same elements are the same.
LEMMA SameSeq ==
  ASSUME NEW S, NEW s \in Seq(S), NEW t \in Seq(S), Len(s) = Len(t),
         \A k \in 1..Len(s) : s[k] = t[k]
  PROVE  s = t
OBVIOUS

\* Text, NewlineAtEdge and ButForNewlines of Streams, for any empty line.
TextBut(lines, nil) == IF lines = <<nil>> THEN << >> ELSE lines

EmptyAtEdge(lines, nil) == Len(lines) > 1 /\ (Head(lines) = nil \/ Last(lines) = nil)

ButForEmpty(lines, got, nil) ==
  \E first \in 1..Len(lines) + 1, last \in 0..Len(lines) :
    /\ got = SubSeq(lines, first, last)
    /\ \A k \in 1..Len(lines) : k \notin first..last => lines[k] = nil

WithoutLast(rest, nil) == IF Len(rest) > 1 /\ Last(rest) = nil THEN Front(rest) ELSE rest

\* Of a sequence without the empty lines (nil) it begins with and one it ends
\* with: it is that sequence, but for empty lines at its edges.
LEMMA Edges ==
  ASSUME NEW S, NEW nil, NEW texts \in Seq(S), Len(texts) > 0,
         NEW z \in 0..Len(texts), \A k \in 1..z : texts[k] = nil,
         z < Len(texts) => texts[z + 1] # nil,
         NEW rest, rest = SubSeq(texts, z + 1, Len(texts)),
         NEW got, got = WithoutLast(rest, nil)
  PROVE  IF EmptyAtEdge(texts, nil) THEN ButForEmpty(texts, got, nil)
         ELSE got = TextBut(texts, nil)
<1> DEFINE m == Len(texts)
           edge == m > 1 /\ (texts[1] = nil \/ texts[m] = nil)
<1>1. m \in Nat /\ m > 0 /\ Head(texts) = texts[1] /\ Last(texts) = texts[m]
  BY DEF Last
<1>2. z \in Nat /\ z <= m /\ z + 1 \in 1..(m + 1) /\ m \in 0..m
  BY <1>1
<1>3. /\ rest \in Seq(S) /\ Len(rest) = m - z
      /\ \A k \in 1..(m - z) : rest[k] = texts[z + k]
  BY <1>1, <1>2
<1>4. got = IF Len(rest) > 1 /\ Last(rest) = nil THEN Front(rest) ELSE rest
  BY DEF WithoutLast
<1>5. EmptyAtEdge(texts, nil) <=> edge
  BY <1>1 DEF EmptyAtEdge
<1>6. ASSUME Len(rest) > 0 PROVE Last(rest) = texts[m]
  <2>1. Last(rest) = rest[m - z]
    BY <1>3 DEF Last
  <2>2. m - z \in 1..(m - z) /\ z + (m - z) = m
    BY <1>1, <1>2, <1>3, <1>6
  <2> QED BY <1>3, <2>1, <2>2
<1>7. CASE ~edge /\ texts[1] = nil
  <2>0. m = 1 /\ z # 0
    <3>1. m = 1
      <4>1. ~(m > 1)
        BY <1>7
      <4>2. m \in Nat /\ m > 0
        BY <1>1
      <4> HIDE DEF m, edge
      <4> QED BY <4>1, <4>2
    <3>2. ASSUME z = 0 PROVE FALSE
      <4>1. 0 < m /\ z + 1 = 1
        BY <3>1, <3>2
      <4> QED BY <1>7, <3>2, <4>1
    <3> QED BY <3>1, <3>2
  <2>1. m = 1 /\ z = 1
    BY <1>2, <2>0
  <2>2. texts = <<nil>>
    BY <1>7, <2>1
  <2>3. rest = << >>
    BY <1>3, <2>1
  <2>4. got = << >>
    <3>1. ~(Len(rest) > 1)
      BY <1>3, <2>1
    <3> QED BY <1>4, <2>3, <3>1
  <2> QED BY <1>7, <1>5, <2>2, <2>4 DEF TextBut
<1>8. CASE ~edge /\ texts[1] # nil
  <2>1. z = 0
    BY <1>1, <1>2, <1>8
  <2>2. rest = texts
    BY <1>1, <2>1
  <2>3. ~(Len(rest) > 1 /\ Last(rest) = nil)
    BY <1>1, <1>8, <2>2
  <2>4. texts # <<nil>>
    BY <1>8
  <2>5. got = texts
    BY <1>4, <2>2, <2>3
  <2> QED BY <1>8, <1>5, <2>4, <2>5 DEF TextBut
<1>9. CASE edge
  <2> SUFFICES \E first \in 1..m + 1, last \in 0..m :
                 /\ got = SubSeq(texts, first, last)
                 /\ \A k \in 1..m : k \notin first..last => texts[k] = nil
    BY <1>9, <1>5 DEF ButForEmpty
  <2>1. \A k \in 1..m : k < z + 1 => texts[k] = nil
    BY <1>1, <1>2
  <2>2. CASE ~(Len(rest) > 1 /\ Last(rest) = nil)
    <3>1. got = SubSeq(texts, z + 1, m)
      BY <1>4, <2>2
    <3>2. \A k \in 1..m : k \notin (z + 1)..m => texts[k] = nil
      BY <1>1, <1>2, <2>1
    <3> QED BY <1>2, <3>1, <3>2
  <2>3. CASE Len(rest) > 1 /\ Last(rest) = nil
    <3> DEFINE least == SubSeq(texts, z + 1, m - 1)
    <3>1. m - z > 1 /\ m - 1 \in 0..m /\ texts[m] = nil
      BY <1>1, <1>2, <1>3, <1>6, <2>3
    <3>2. got = least
      <4> HIDE DEF m
      <4>1. /\ got \in Seq(S) /\ Len(got) = (m - z) - 1
            /\ \A k \in 1..((m - z) - 1) : got[k] = rest[k]
        <5>1. got = Front(rest) /\ Len(rest) > 1
          BY <1>4, <2>3
        <5>2. /\ Front(rest) \in Seq(S) /\ Len(Front(rest)) = Len(rest) - 1
              /\ \A k \in 1..(Len(rest) - 1) : Front(rest)[k] = rest[k]
          BY <1>3, <5>1, FrontIs
        <5> QED BY <1>3, <5>1, <5>2
      <4>2. z + 1 \in 1..m /\ m - 1 \in 1..m /\ z + 1 <= m - 1
            /\ ((m - 1) - (z + 1)) + 1 = (m - z) - 1
        BY <1>1, <1>2, <3>1
      <4>3. /\ least \in Seq(S) /\ Len(least) = (m - z) - 1
            /\ \A k \in 1..((m - z) - 1) : least[k] = texts[((z + 1) + k) - 1]
        BY <4>2, StretchIs DEF m
      <4>4. \A k \in 1..((m - z) - 1) : k \in 1..(m - z) /\ ((z + 1) + k) - 1 = z + k
        BY <1>1, <1>2
      <4> HIDE DEF least
      <4>5. \A k \in 1..Len(got) : got[k] = least[k]
        <5> TAKE k \in 1..Len(got)
        <5>1. k \in 1..((m - z) - 1)
          BY <4>1
        <5>2. got[k] = texts[z + k]
          BY <1>3, <4>1, <4>4, <5>1
        <5>3. least[k] = texts[z + k]
          BY <4>3, <4>4, <5>1
        <5> QED BY <5>2, <5>3
      <4> QED BY <4>1, <4>3, <4>5, SameSeq
    <3>3. \A k \in 1..m : k \notin (z + 1)..(m - 1) => texts[k] = nil
      BY <1>1, <1>2, <2>1, <3>1
    <3> QED BY <1>2, <3>1, <3>2, <3>3
  <2> QED BY <2>2, <2>3
<1> QED BY <1>7, <1>8, <1>9

\* The data that arrives is the text that was sent, but for newlines at its edges.
LEMMA ArrivingDataIs ==
  ASSUME NEW texts \in Seq(STRING), Len(texts) > 0
  PROVE  IF NewlineAtEdge(texts) THEN ButForNewlines(texts, ArrivingData(texts))
         ELSE ArrivingData(texts) = Text(texts)
<1> DEFINE z == LeadingEmpty(texts)
           rest == SubSeq(texts, z + 1, Len(texts))
           got == ArrivingData(texts)
           nil == ""
<1>1. /\ z \in 0..Len(texts)
      /\ \A k \in 1..z : texts[k] = nil
      /\ z < Len(texts) => texts[z + 1] # nil
  BY LeadingIs
<1>2. got = WithoutLast(rest, nil)
  BY DEF ArrivingData, WithoutLast
<1> HIDE DEF z, rest, got, nil
<1>3. rest = SubSeq(texts, z + 1, Len(texts))
  BY DEF rest
<1>4. IF EmptyAtEdge(texts, nil) THEN ButForEmpty(texts, got, nil) ELSE got = TextBut(texts, nil)
  BY <1>1, <1>2, <1>3, Edges, Zenon
<1>5. /\ NewlineAtEdge(texts) <=> EmptyAtEdge(texts, nil)
      /\ ButForNewlines(texts, got) <=> ButForEmpty(texts, got, nil)
      /\ Text(texts) = TextBut(texts, nil)
  BY Zenon DEF NewlineAtEdge, EmptyAtEdge, ButForNewlines, ButForEmpty, Text, TextBut, nil
<1> QED BY <1>4, <1>5 DEF got

LEMMA ArrivingArrives ==
  ASSUME NEW v \in Values
  PROVE  ArrivedAs(v, Arriving(v))
<1>1. CASE conf.format # "sse"
  <2>1. Arriving(v) = v
    BY <1>1 DEF Arriving
  <2> QED BY <1>1, <2>1 DEF ArrivedAs
<1>2. CASE conf.format = "sse"
  <2>1. v.data \in Seq(STRING) /\ v.data # << >>
    BY <1>2, EventsAssumption DEF Values
  <2> DEFINE got == Arriving(v)
  <2>2. /\ got.id = LastLine(v.id) /\ got.event = LastLine(v.event)
        /\ got.retry = LastLine(v.retry) /\ got.data = ArrivingData(v.data)
    BY <1>2 DEF Arriving
  <2> HIDE DEF got
  <2>3. IF NewlineAtEdge(v.data) THEN ButForNewlines(v.data, got.data)
        ELSE got.data = Text(v.data)
    <3>1. Len(v.data) > 0
      BY <2>1
    <3> QED BY <2>1, <2>2, <3>1, ArrivingDataIs
  <2>4. ArrivedAs(v, got)
    BY <1>2, <2>2, <2>3 DEF ArrivedAs
  <2> QED BY <2>4 DEF got
<1> QED BY <1>1, <1>2

\* The frame of an event adds its value.
LEMMA AddsEvent ==
  ASSUME StateOK, conf.format = "sse", NEW s, IsSeq(s), NEW v \in Events, NEW f, NEW p
  PROVE  Adds(SSEFrame(v), s, f, p, Append(s, v), f, "open")
<1> DEFINE s2 == Append(s, v)
           R == SSEFrame(v)
<1>1. Len(s) \in Nat /\ Len(s2) = Len(s) + 1 /\ s2[Len(s) + 1] = v
  BY AppendIs DEF IsSeq
<1> HIDE DEF s2
<1> SUFFICES ASSUME NEW it, Fine(it, s2, f, "open", "open"), Complete(it, s, f, p)
             PROVE  \E run :
                      /\ Follows(run, it, R)
                      /\ \A k \in 1..Len(R) : Fine(run[k], s2, f, "open", "open")
                      /\ Complete(run[Len(R)], s2, f, "open")
  BY DEF Adds, s2
<1> HIDE DEF R
<1>2. /\ IterOK(it) /\ Delivers(it.out, s2) /\ Plain(it.out, f) /\ IsSeq(it.out)
      /\ it.closed = FALSE \/ ~it.closed
      /\ Num(it.out) = Len(s) /\ it.have = FALSE /\ it.ev = NoEvent /\ ~Separated
  BY DEF Fine, IterOK, IsSeq, Complete, Separated
<1>3. it = At(it, "", "", "", << >>, 0)
  <2>1. (0 > 0) = FALSE
    OBVIOUS
  <2>2. At(it, "", "", "", << >>, 0) =
          [out |-> it.out, cur |-> it.cur, ev |-> NoEvent, in |-> it.in, have |-> 0 > 0,
           closed |-> it.closed]
    BY DEF At, NoEvent
  <2>3. At(it, "", "", "", << >>, 0) =
          [out |-> it.out, cur |-> it.cur, ev |-> it.ev, in |-> it.in, have |-> it.have,
           closed |-> it.closed]
    BY <1>2, <2>1, <2>2, Zenon
  <2> QED BY <1>2, <2>3 DEF IterOK
<1>4. PICK head, n :
        /\ n \in Nat \ {0}
        /\ R = head \o <<Blank>> /\ IsSeq(head)
        /\ Quiet(head, it, At(it, LastOr(v.id, ""), LastOr(v.event, ""), LastOr(v.retry, ""),
                              DataRest(v.data), n))
  BY <1>2, <1>3, LinesRead DEF R
<1> DEFINE x == At(it, LastOr(v.id, ""), LastOr(v.event, ""), LastOr(v.retry, ""),
                   DataRest(v.data), n)
           b == ClientNext(x, Blank)
           y == <<"value", Arriving(v)>>
<1>5. b.out = Append(it.out, y) /\ b.closed = it.closed /\ b.ev = NoEvent /\ b.have = FALSE
  <2> DEFINE i == LastOr(v.id, "")
             j == LastOr(v.event, "")
             k == LastOr(v.retry, "")
             d == DataRest(v.data)
  <2>1. Arriving(v) = Event(i, j, k, Trimmed(d))
    BY ArrivingIs
  <2>2. x = At(it, i, j, k, d, n) /\ n \in Nat \ {0}
    BY <1>4
  <2> HIDE DEF i, j, k, d, x
  <2>3. Dispatched(ClientNext(x, Blank), it, Event(i, j, k, Trimmed(d)))
    BY <2>2, EventRead
  <2> QED BY <2>1, <2>3 DEF Dispatched
<1>6. IterOK(x) /\ IterOK(b)
  <2>1. IterOK(x)
    BY <1>2, AtOK
  <2> HIDE DEF x
  <2> QED BY <2>1, NextStays
<1> HIDE DEF x, b
<1>7. Delivers(b.out, s2) /\ Num(b.out) = Len(s2) /\ Plain(b.out, f)
  <2>1. y = <<"value", Arriving(s2[Num(it.out) + 1])>> /\ Num(it.out) < Len(s2) /\ Len(s2) \in Nat
    BY <1>1, <1>2
  <2>2. y[1] = "value"
    OBVIOUS
  <2> HIDE DEF y
  <2>3. Delivers(b.out, s2) /\ Num(b.out) = Num(it.out) + 1
    BY <1>2, <1>5, <2>1, DeliversMore
  <2>4. Plain(b.out, f)
    BY <1>2, <1>5, <2>2, PlainMore
  <2> QED BY <1>1, <1>2, <2>3, <2>4
<1>8. Fine(b, s2, f, "open", "open") /\ Complete(b, s2, f, "open")
  <2>1. ~it.closed
    BY DEF Fine
  <2> QED BY <1>2, <1>5, <1>6, <1>7, <2>1 DEF Fine, Complete
<1>9. PICK run : /\ Follows(run, it, R)
                 /\ Len(R) = Len(head) + 1 /\ Len(head) \in Nat
                 /\ run[Len(head) + 1] = b
                 /\ \A k \in 0..Len(head) :
                      IterOK(run[k]) /\ run[k].out = it.out /\ run[k].closed = it.closed
  <2>1. IsSeq(head) /\ Quiet(head, it, x) /\ R = head \o <<Blank>>
    BY <1>4 DEF x
  <2>2. \E run :
          /\ Follows(run, it, head \o <<Blank>>)
          /\ Len(head \o <<Blank>>) = Len(head) + 1 /\ Len(head) \in Nat
          /\ run[Len(head) + 1] = ClientNext(x, Blank)
          /\ \A k \in 0..Len(head) :
               IterOK(run[k]) /\ run[k].out = it.out /\ run[k].closed = it.closed
    BY <2>1, QuietThen
  <2> QED BY <2>1, <2>2 DEF b
<1>10. ASSUME NEW k \in 1..Len(R)
       PROVE  Fine(run[k], s2, f, "open", "open")
  <2>1. CASE k = Len(head) + 1
    BY <1>8, <1>9, <2>1
  <2>2. CASE k \in 0..Len(head)
    BY <1>2, <1>9, <2>2, FineAlike
  <2> QED BY <1>9, <2>1, <2>2
<1> WITNESS run
<1> QED BY <1>8, <1>9, <1>10

-----------------------------------------------------------------------------
(* The bytes ahead *)

\* What is ahead is a sequence.
LEMMA AheadIs ==
  ASSUME BytesOK
  PROVE  IsSeq(Ahead) /\ Ahead = IF end = "open" THEN net \o buffer ELSE net
<1>1. IsSeq(net) /\ IsSeq(buffer)
  BY DEF BytesOK
<1>2. IsSeq(net \o buffer)
  BY <1>1, ConcatIs
<1> QED BY <1>1, <1>2 DEF Ahead

\* What a writer hands on is ahead, while the connection is whole.
LEMMA WrittenIs ==
  ASSUME BytesOK, NEW tokens, IsSeq(tokens), NEW flushes, WriteOut(tokens, flushes), end' = end
  PROVE  BytesOK' /\ Ahead' = IF end = "open" THEN Ahead \o tokens ELSE Ahead
<1>1. IsSeq(net) /\ IsSeq(buffer) /\ IsSeq(<< >>)
  BY EmptyIs DEF BytesOK
<1>2. IsSeq(buffer \o tokens) /\ IsSeq(net \o (buffer \o tokens))
  BY <1>1, ConcatIs
<1>3. net \o (buffer \o tokens) = (net \o buffer) \o tokens
  BY <1>1, ConcatMore
<1>4. (net \o (buffer \o tokens)) \o << >> = net \o (buffer \o tokens)
  BY <1>1, <1>2, ConcatMore
<1>5. CASE conf.flusher /\ flushes
  <2>1. net' = OnNet(buffer \o tokens) /\ buffer' = << >>
    BY <1>5 DEF WriteOut
  <2>2. CASE end = "open"
    <3>1. net' = net \o (buffer \o tokens)
      BY <2>1, <2>2 DEF OnNet
    <3>2. IsSeq(net') /\ IsSeq(buffer')
      BY <1>1, <1>2, <2>1, <3>1
    <3>3. Ahead' = Ahead \o tokens
      BY <1>3, <1>4, <2>1, <2>2, <3>1 DEF Ahead
    <3> QED BY <2>2, <3>2, <3>3 DEF BytesOK, IsSeq
  <2>3. CASE end # "open"
    <3>1. net' = net
      BY <2>1, <2>3 DEF OnNet
    <3>2. IsSeq(net') /\ IsSeq(buffer')
      BY <1>1, <2>1, <3>1
    <3> QED BY <2>3, <3>1, <3>2 DEF BytesOK, Ahead, IsSeq
  <2> QED BY <2>2, <2>3
<1>6. CASE ~(conf.flusher /\ flushes)
  <2>1. net' = net /\ buffer' = buffer \o tokens
    BY <1>6 DEF WriteOut
  <2>2. IsSeq(net') /\ IsSeq(buffer')
    BY <1>1, <1>2, <2>1
  <2>3. Ahead' = IF end = "open" THEN Ahead \o tokens ELSE Ahead
    BY <1>3, <2>1 DEF Ahead
  <2> QED BY <2>2, <2>3 DEF BytesOK, IsSeq
<1> QED BY <1>5, <1>6

\* The frame of a value makes it of an iterator that has been given all before.
LEMMA FrameAdds ==
  ASSUME StateOK, NEW s, IsSeq(s), NEW v \in Values, NEW f, NEW p, p # "framed", Down
  PROVE  IsSeq(Frame(v)) /\ Adds(Frame(v), s, f, p, Append(s, v), f, "open")
<1>1. \A a, b : IsSeq(<<a, b>>)
  <2>1. ASSUME NEW a, NEW b PROVE IsSeq(<<a, b>>)
    <3>1. <<a, b>> \in Seq({a, b})
      OBVIOUS
    <3> QED BY <3>1, InSeq
  <2> QED BY <2>1
<1>2. \A a, b, c : IsSeq(<<a, b, c>>)
  <2>1. ASSUME NEW a, NEW b, NEW c PROVE IsSeq(<<a, b, c>>)
    <3>1. <<a, b, c>> \in Seq({a, b, c})
      OBVIOUS
    <3> QED BY <3>1, InSeq
  <2> QED BY <2>1
<1>3. CASE conf.format = "lines"
  <2>1. Frame(v) = <<Item(v), Nl>>
    BY <1>3 DEF Frame, Item
  <2> QED BY <1>1, <1>3, <2>1, AddsItem DEF Separated
<1>4. CASE conf.format = "rs"
  <2>1. Frame(v) = <<Rs, Item(v), Nl>>
    BY <1>4 DEF Frame, Item
  <2> QED BY <1>2, <1>4, <2>1, AddsRecord
<1>5. CASE conf.format = "sse"
  <2>1. Frame(v) = SSEFrame(v) /\ v \in Events
    BY <1>5 DEF Frame, Values
  <2>2. IsSeq(SSEFrame(v))
    <3>1. \E it : IterOK(it)
      <4>1. IterOK(Unread)
        <5>1. IsSeq(<< >>) /\ Len(<< >>) = 0 /\ \A k \in 1..0 : FALSE
          BY EmptyIs
        <5> QED BY <5>1 DEF Unread, IterOK, IsSeq
      <4> QED BY <4>1
    <3>2. PICK head, n : SSEFrame(v) = head \o <<Blank>> /\ IsSeq(head)
      BY <1>5, <2>1, <3>1, LinesRead
    <3>3. IsSeq(<<Blank>>)
      <4>1. <<Blank>> \in Seq({Blank})
        OBVIOUS
      <4> QED BY <4>1, InSeq
    <3> QED BY <3>2, <3>3, ConcatIs
  <2> QED BY <1>5, <2>1, <2>2, AddsEvent
<1>6. CASE conf.format = "multipart"
  <2>1. Frame(v) = <<Part(v), Item(v)>>
    BY <1>6 DEF Frame, Item, Part
  <2> QED BY <1>1, <1>6, <2>1, AddsPart
<1> QED BY <1>3, <1>4, <1>5, <1>6, ConfIs

-----------------------------------------------------------------------------
(* A step leaves the format as it is *)

\* An iterator's steps and the predicates about it depend on the format alone.
LEMMA Alike ==
  ASSUME conf' = conf
  PROVE  /\ \A it, t : ClientNext(it, t)' = ClientNext(it, t)
         /\ \A it, s, f, p, e : Fine(it, s, f, p, e)' <=> Fine(it, s, f, p, e)
         /\ \A it, s, f, p : Complete(it, s, f, p)' <=> Complete(it, s, f, p)
         /\ \A f, e : Arrives(f, e)' <=> Arrives(f, e)
         /\ \A out, s, f, p : Ended(out, s, f, p)' <=> Ended(out, s, f, p)
<1>1. \A it, t : ClientNext(it, t)' = ClientNext(it, t)
  BY DEF ClientNext, ClientLine, ClientSeq, ClientSSE, ClientPart
<1>2. \A v : Arriving(v)' = Arriving(v)
  BY DEF Arriving
<1>3. \A out : Num(out)' = Num(out) /\ ValuesOf(out)' = ValuesOf(out)
  BY DEF Num, ValuesOf
<1>4. \A out, s : Delivers(out, s)' <=> Delivers(out, s)
  BY <1>2, <1>3 DEF Delivers
<1>5. \A out, f : Plain(out, f)' <=> Plain(out, f)
  BY DEF Plain
<1>6. \A it : IterOK(it)' <=> IterOK(it)
  BY DEF IterOK
<1>7. Separated' = Separated
  BY DEF Separated
<1>8. \A it, s, f, p, e : Fine(it, s, f, p, e)' <=> Fine(it, s, f, p, e)
  BY <1>3, <1>4, <1>5, <1>6, <1>7 DEF Fine
<1>9. \A it, s, f, p : Complete(it, s, f, p)' <=> Complete(it, s, f, p)
  BY <1>3 DEF Complete
<1>10. \A f, e : Arrives(f, e)' <=> Arrives(f, e)
  BY DEF Arrives, Up
<1>11. \A out, s, f, p : Ended(out, s, f, p)' <=> Ended(out, s, f, p)
  BY <1>3, <1>4 DEF Ended
<1> QED BY <1>1, <1>8, <1>9, <1>10, <1>11

\* TrackOK after a step, from the state it leaves.
LEMMA TrackAfter ==
  ASSUME conf' = conf,
         NEW it, it = iter', NEW tokens, tokens = Ahead', NEW s, s = sent', NEW f, f = fate',
         NEW p, p = producer', NEW e, e = end',
         f # "panicked" /\ reader' # "done" => Track(it, tokens, s, f, p, e)
  PROVE  TrackOK'
<1> SUFFICES ASSUME fate' # "panicked", reader' # "done"
             PROVE  Track(iter, Ahead, sent, fate, producer, end)'
  BY DEF TrackOK
<1>1. PICK run : /\ Follows(run, it, tokens)
                 /\ \A k \in 0..Len(tokens) : Fine(run[k], s, f, p, e)
                 /\ Arrives(f, e) => Complete(run[Len(tokens)], s, f, p)
  BY DEF Track
<1>2. /\ \A x, t : ClientNext(x, t)' = ClientNext(x, t)
      /\ \A x : Fine(x, s, f, p, e)' <=> Fine(x, s, f, p, e)
      /\ \A x : Complete(x, s, f, p)' <=> Complete(x, s, f, p)
      /\ Arrives(f, e)' <=> Arrives(f, e)
  BY Alike
<1>3. Follows(run, iter, Ahead)'
  BY <1>1, <1>2 DEF Follows
<1>4. \A k \in 0..Len(Ahead') : Fine(run[k], sent, fate, producer, end)'
  BY <1>1, <1>2
<1>5. ASSUME Arrives(fate, end)'
      PROVE  Complete(run[Len(Ahead)], sent, fate, producer)'
  <2>1. Arrives(f, e)
    BY <1>2, <1>5
  <2>2. Complete(run[Len(tokens)], s, f, p)'
    BY <1>1, <1>2, <2>1
  <2> QED BY <2>2
<1>6. \E r : /\ Follows(r, iter, Ahead)'
             /\ \A k \in 0..Len(Ahead') : Fine(r[k], sent, fate, producer, end)'
             /\ Arrives(fate, end)' => Complete(r[Len(Ahead)], sent, fate, producer)'
  BY <1>3, <1>4, <1>5
<1> QED BY <1>6 DEF Track

\* And EndedOK.
LEMMA EndedAfter ==
  ASSUME conf' = conf,
         NEW out, out = iter'.out, NEW s, s = sent', NEW f, f = fate', NEW p, p = producer',
         f # "panicked" /\ reader' = "done" => Ended(out, s, f, p)
  PROVE  EndedOK'
<1> SUFFICES ASSUME fate' # "panicked", reader' = "done"
             PROVE  Ended(iter.out, sent, fate, producer)'
  BY DEF EndedOK
<1>1. Ended(out, s, f, p)'
  BY Alike
<1> QED BY <1>1

\* What a step that does not read leaves of the two ends: a writer that has
\* closed or gone writes no more, and the fate it has met it keeps, or panics.
GoesOn ==
  /\ conf' = conf /\ iter' = iter
  /\ sent' = sent \/ (producer \notin {"closed", "gone"} /\ \E v : sent' = Append(sent, v))
  /\ \A f \in {"failed", "whole"} : fate = f => fate' \in {f, "panicked"}
  /\ fate = "panicked" => fate' = "panicked"
  /\ producer \in {"closed", "gone"} => producer' \in {"closed", "gone"}
  /\ end = "error" => end' = "error"
  /\ reader' = "done" <=> reader = "done"

\* What an ended iterator has yielded stays true of a writer that goes on.
LEMMA EndedStays ==
  ASSUME NEW out, NEW s, IsSeq(s), NEW f, NEW p, Ended(out, s, f, p),
         NEW s2, s2 = s \/ (p \notin {"closed", "gone"} /\ \E v : s2 = Append(s, v)),
         NEW f2, f = "failed" => f2 = "failed", f = "whole" => f2 = "whole",
         NEW p2, p \in {"closed", "gone"} => p2 \in {"closed", "gone"}
  PROVE  Ended(out, s2, f2, p2)
<1>0. Delivers(out, s) /\ \A v : Delivers(out, Append(s, v))
  BY DeliversStill DEF Ended
<1>1. Delivers(out, s2)
  BY <1>0
<1>2. ASSUME NEW k \in 1..Len(out)
      PROVE  /\ out[k][1] # "bad"
             /\ out[k][1] = "error" => k = Len(out)
             /\ out[k][1] = "cut" /\ f2 # "failed" /\ k < Len(out) => out[k + 1][1] = "error"
  BY <1>2 DEF Ended
<1>3. ASSUME \A k \in 1..Len(out) : out[k][1] # "error",
             conf.format = "multipart" => (\A k \in 1..Len(out) : out[k][1] # "short") /\ f2 # "failed"
      PROVE  Num(out) = Len(s2) /\ p2 \in {"closed", "gone"} /\ (f2 = "whole" \/ conf.format = "multipart")
  <2>1. Num(out) = Len(s) /\ p \in {"closed", "gone"} /\ (f = "whole" \/ conf.format = "multipart")
    BY <1>3 DEF Ended
  <2>2. s2 = s
    BY <2>1
  <2> QED BY <2>1, <2>2
<1> QED BY <1>1, <1>2, <1>3 DEF Ended

\* So EndedOK holds after a step that does not read.
LEMMA EndedKept ==
  ASSUME DInv, GoesOn
  PROVE  EndedOK'
<1> DEFINE s2 == sent'
           f2 == fate'
           p2 == producer'
           out == iter'.out
<1>1. IsSeq(sent)
  BY InSeq DEF DInv, IInv, StateOK
<1>2. /\ s2 = sent \/ (producer \notin {"closed", "gone"} /\ \E v : s2 = Append(sent, v))
      /\ fate = "failed" => f2 \in {"failed", "panicked"}
      /\ fate = "whole" => f2 \in {"whole", "panicked"}
      /\ fate = "panicked" => f2 = "panicked"
      /\ producer \in {"closed", "gone"} => p2 \in {"closed", "gone"}
      /\ out = iter.out /\ conf' = conf
      /\ reader' = "done" => reader = "done"
  BY DEF GoesOn
<1>3. s2 = sent' /\ f2 = fate' /\ p2 = producer' /\ out = iter'.out
  OBVIOUS
<1> HIDE DEF s2, f2, p2, out
<1>4. ASSUME f2 # "panicked", reader' = "done"
      PROVE  Ended(out, s2, f2, p2)
  <2>1. Ended(out, sent, fate, producer)
    BY <1>2, <1>4 DEF DInv, EndedOK
  <2> QED BY <1>1, <1>2, <1>4, <2>1, EndedStays
<1> QED BY <1>2, <1>3, <1>4, EndedAfter

\* What is ahead stays, and a writer goes on: no value is sent without bytes
\* while they would arrive.
LEMMA SameBytes ==
  ASSUME DInv, GoesOn, Ahead' = Ahead,
         fate' # "panicked" /\ end' # "error" /\ ~(Up /\ fate' = "failed") =>
           /\ Arrives(fate, end) /\ sent' = sent
           /\ producer' = "framed" <=> producer = "framed"
  PROVE  TrackOK'
<1> DEFINE s2 == sent'
           f2 == fate'
           p2 == producer'
           e2 == end'
<1>1. IsSeq(sent)
  BY InSeq DEF DInv, IInv, StateOK
<1>2. /\ s2 = sent \/ (producer \notin {"closed", "gone"} /\ \E v : s2 = Append(sent, v))
      /\ fate = "failed" => f2 \in {"failed", "panicked"}
      /\ fate = "panicked" => f2 = "panicked"
      /\ producer \in {"closed", "gone"} => p2 \in {"closed", "gone"}
      /\ end = "error" => e2 = "error"
      /\ reader' # "done" => reader # "done"
      /\ iter' = iter /\ conf' = conf
  BY DEF GoesOn
<1>3. f2 # "panicked" /\ Arrives(f2, e2) =>
        /\ Arrives(fate, end) /\ s2 = sent
        /\ p2 = "framed" <=> producer = "framed"
  BY DEF Arrives
<1>4. s2 = sent' /\ f2 = fate' /\ p2 = producer' /\ e2 = end'
  OBVIOUS
<1> HIDE DEF s2, f2, p2, e2
<1>5. ASSUME f2 # "panicked", reader' # "done"
      PROVE  Track(iter, Ahead, s2, f2, p2, e2)
  <2>1. Track(iter, Ahead, sent, fate, producer, end)
    BY <1>2, <1>5 DEF DInv, TrackOK
  <2> QED BY <1>1, <1>2, <1>3, <1>5, <2>1, TrackStays
<1>6. iter = iter' /\ Ahead = Ahead'
  BY <1>2
<1> QED BY <1>2, <1>4, <1>5, <1>6, TrackAfter

\* The connection breaks, or has broken, and a beginning of the bytes is left.
LEMMA LessBytes ==
  ASSUME DInv, GoesOn, end' = "error", NEW short, short = Ahead',
         Len(short) \in Nat, Len(short) <= Len(Ahead),
         \A k \in 1..Len(short) :
           short[k] = Ahead[k] \/ (k = Len(short) /\ short[k] = Half(Ahead[k]))
  PROVE  TrackOK'
<1> DEFINE s2 == sent'
           f2 == fate'
           p2 == producer'
<1>1. IsSeq(sent) /\ StateOK /\ Len(Ahead) \in Nat
  BY InSeq, AheadIs DEF DInv, IInv, StateOK, IsSeq
<1>2. /\ s2 = sent \/ (producer \notin {"closed", "gone"} /\ \E v : s2 = Append(sent, v))
      /\ fate = "failed" => f2 \in {"failed", "panicked"}
      /\ fate = "panicked" => f2 = "panicked"
      /\ producer \in {"closed", "gone"} => p2 \in {"closed", "gone"}
      /\ reader' # "done" => reader # "done"
      /\ iter' = iter /\ conf' = conf
  BY DEF GoesOn
<1>4. s2 = sent' /\ f2 = fate' /\ p2 = producer'
  OBVIOUS
<1> HIDE DEF s2, f2, p2
<1>5. ASSUME f2 # "panicked", reader' # "done"
      PROVE  Track(iter, short, s2, f2, p2, "error")
  <2>1. Track(iter, Ahead, sent, fate, producer, end)
    BY <1>2, <1>5 DEF DInv, TrackOK
  <2>2. Track(iter, short, sent, fate, producer, "error")
    BY <1>1, <2>1, TrackShort
  <2>3. ~Arrives(f2, "error")
    BY DEF Arrives
  <2> QED BY <1>1, <1>2, <1>5, <2>2, <2>3, TrackStays
<1>6. iter = iter' /\ "error" = end'
  BY <1>2
<1> QED BY <1>2, <1>4, <1>5, <1>6, TrackAfter

\* More is written, and reaches the reader.
LEMMA MoreBytes ==
  ASSUME DInv, GoesOn, end = "open", end' = "open", NEW more, IsSeq(more), Ahead' = Ahead \o more,
         NEW s2, s2 = sent', NEW f2, f2 = fate', NEW p2, p2 = producer',
         Adds(more, sent, fate, producer, s2, f2, p2), fate # "panicked" => Arrives(fate, "open")
  PROVE  TrackOK'
<1>1. IsSeq(sent) /\ IsSeq(Ahead)
  BY InSeq, AheadIs DEF DInv, IInv, StateOK
<1>2. /\ s2 = sent \/ (producer \notin {"closed", "gone"} /\ \E v : s2 = Append(sent, v))
      /\ fate = "failed" => f2 \in {"failed", "panicked"}
      /\ fate = "panicked" => f2 = "panicked"
      /\ producer \in {"closed", "gone"} => p2 \in {"closed", "gone"}
      /\ reader' # "done" => reader # "done"
      /\ iter' = iter /\ conf' = conf
  BY DEF GoesOn
<1>3. ASSUME f2 # "panicked", reader' # "done"
      PROVE  Track(iter, Ahead \o more, s2, f2, p2, "open")
  <2>1. Track(iter, Ahead, sent, fate, producer, "open") /\ Arrives(fate, "open")
    BY <1>2, <1>3 DEF DInv, TrackOK
  <2> QED BY <1>1, <1>2, <1>3, <2>1, TrackMore
<1>4. iter = iter' /\ Ahead \o more = Ahead' /\ "open" = end'
  BY <1>2
<1> QED BY <1>2, <1>3, <1>4, TrackAfter

-----------------------------------------------------------------------------
(* The steps that do not read *)

\* What any of them leaves.
LEMMA ServerGoesOn ==
  ASSUME DInv, ServerWrites \/ ServerEnds
  PROVE  GoesOn
<1>1. StateOK /\ ControlOK
  BY DEF DInv, IInv
<1>2. ASSUME NEW v, ServerSend(v)
      PROVE  GoesOn
  <2>1. sent' = Append(sent, v) /\ producer \notin {"closed", "gone"}
    BY <1>2 DEF ServerSend, Writing, Handling
  <2>2. conf' = conf /\ iter' = iter /\ fate' = fate /\ end' = end /\ reader' = reader
    BY <1>2 DEF ServerSend
  <2> QED BY <2>1, <2>2 DEF GoesOn
<1>3. ASSUME ServerSendFails \/ ServerFlush \/ ServerClose \/ Spill
      PROVE  GoesOn
  <2>1. /\ conf' = conf /\ iter' = iter /\ fate' = fate /\ end' = end /\ reader' = reader
        /\ sent' = sent
    BY <1>3 DEF ServerSendFails, ServerFlush, ServerClose, Spill
  <2>2. producer \in {"closed", "gone"} => producer' \in {"closed", "gone"}
    BY <1>3 DEF ServerSendFails, ServerFlush, ServerClose, Spill, Writing, Handling
  <2> QED BY <2>1, <2>2 DEF GoesOn
<1>4. ASSUME NEW v, ServerPartFails(v)
      PROVE  GoesOn
  <2>1. /\ conf' = conf /\ iter' = iter /\ end' = end /\ reader' = reader
        /\ sent' = sent /\ fate = ""
    BY <1>4 DEF ServerPartFails
  <2>2. producer \notin {"closed", "gone"}
    BY <1>4 DEF ServerPartFails, Writing, Handling
  <2> QED BY <2>1, <2>2 DEF GoesOn
<1>5. ASSUME ServerEnds
      PROVE  GoesOn
  <2>1. /\ conf' = conf /\ iter' = iter /\ reader' = reader /\ sent' = sent /\ producer' = "gone"
        /\ end = "error" => end' = "error"
    BY <1>5 DEF ServerEnds, ServerReturns, ServerPanics, ServerAborts, Respond
  <2>2. Down /\ producer # "gone"
    BY <1>5 DEF ServerEnds, ServerReturns, ServerPanics, ServerAborts, Handling
  <2>3. fate \in {"", "failed"}
    BY <1>1, <2>2 DEF ControlOK
  <2>4. fate = "failed" => fate' \in {"failed", "panicked"}
    BY <1>5 DEF ServerEnds, ServerReturns, ServerPanics, ServerAborts
  <2> QED BY <2>1, <2>3, <2>4 DEF GoesOn
<1> QED BY <1>2, <1>3, <1>4, <1>5 DEF ServerWrites

\* The same of the goroutine, the transport and what ends the connection.
LEMMA ClientGoesOn ==
  ASSUME DInv, Goroutine \/ HookFails \/ Transport \/ Stop \/ Cut \/ UNCHANGED vars
  PROVE  GoesOn
<1>1. StateOK /\ ControlOK
  BY DEF DInv, IInv
<1>2. ASSUME NEW v, ClientEncodes(v)
      PROVE  GoesOn
  <2>1. sent' = Append(sent, v) /\ producer \notin {"closed", "gone"}
    BY <1>2 DEF ClientEncodes, Encoding
  <2>2. conf' = conf /\ iter' = iter /\ fate' = fate /\ end' = end /\ reader' = reader
    BY <1>2 DEF ClientEncodes
  <2> QED BY <2>1, <2>2 DEF GoesOn
<1>3. ASSUME ClientFrames \/ ClientFails \/ ClientEnds \/ ClientWriteFails
      PROVE  GoesOn
  <2>1. /\ conf' = conf /\ iter' = iter /\ end' = end /\ reader' = reader /\ sent' = sent
    BY <1>3 DEF ClientFrames, ClientFails, ClientEnds, ClientWriteFails
  <2>2. Up /\ producer \notin {"closed", "gone"}
    BY <1>3 DEF ClientFrames, ClientFails, ClientEnds, ClientWriteFails, Encoding
  <2>3. fate \notin {"whole", "failed", "panicked"}
    BY <1>1, <2>2 DEF ControlOK, StateOK
  <2> QED BY <2>1, <2>2, <2>3 DEF GoesOn
<1>4. ASSUME HookFails
      PROVE  GoesOn
  <2>1. /\ conf' = conf /\ iter' = iter /\ end' = end /\ sent' = sent /\ producer' = producer
        /\ fate = "" /\ reader = "reading" /\ reader' = "stopped"
    BY <1>4 DEF HookFails
  <2> QED BY <2>1 DEF GoesOn
<1>5. ASSUME Transport \/ Stop \/ Cut
      PROVE  GoesOn
  <2>1. /\ conf' = conf /\ iter' = iter /\ sent' = sent /\ producer' = producer /\ fate' = fate
        /\ end = "error" => end' = "error"
    BY <1>5 DEF Transport, TransportCopies, TransportEnds, TransportCloses, Stop, Cut
  <2>2. reader' = "done" <=> reader = "done"
    BY <1>5 DEF Transport, TransportCopies, TransportEnds, TransportCloses, Stop, Cut
  <2> QED BY <2>1, <2>2 DEF GoesOn
<1>6. ASSUME UNCHANGED vars
      PROVE  GoesOn
  BY <1>6 DEF vars, GoesOn
<1> QED BY <1>2, <1>3, <1>4, <1>5, <1>6 DEF Goroutine

\* Short sequences.
LEMMA ShortAre ==
  /\ IsSeq(<< >>)
  /\ \A a : IsSeq(<<a>>)
  /\ \A a, b : IsSeq(<<a, b>>)
<1>1. ASSUME NEW a PROVE IsSeq(<<a>>)
  <2>1. <<a>> \in Seq({a})
    OBVIOUS
  <2> QED BY <2>1, InSeq
<1>2. ASSUME NEW a, NEW b PROVE IsSeq(<<a, b>>)
  <2>1. <<a, b>> \in Seq({a, b})
    OBVIOUS
  <2> QED BY <2>1, InSeq
<1> QED BY <1>1, <1>2, EmptyIs

\* Bytes that are handed on from the buffer, or stay where they are.
LEMMA HandedOn ==
  ASSUME BytesOK
  PROVE  /\ net' = net /\ buffer' = buffer /\ end' = end => BytesOK' /\ Ahead' = Ahead
         /\ net' = OnNet(buffer) /\ buffer' = << >> /\ (end' = end \/ end' # "open") =>
              BytesOK' /\ Ahead' = Ahead
         /\ net' = net /\ buffer' = << >> /\ (end # "open" \/ buffer = << >>)
            /\ (end' = end \/ end' # "open") =>
              BytesOK' /\ Ahead' = Ahead
<1>1. IsSeq(net) /\ IsSeq(buffer) /\ IsSeq(<< >>)
  BY ShortAre DEF BytesOK
<1>2. IsSeq(net \o buffer) /\ (net \o buffer) \o << >> = net \o buffer /\ net \o << >> = net
  BY <1>1, ConcatIs, ConcatMore
<1>3. ASSUME net' = net, buffer' = buffer, end' = end
      PROVE  BytesOK' /\ Ahead' = Ahead
  <2>1. IsSeq(net') /\ IsSeq(buffer')
    BY <1>1, <1>3
  <2> QED BY <1>3, <2>1 DEF BytesOK, Ahead, IsSeq
<1>4. ASSUME net' = OnNet(buffer), buffer' = << >>, end' = end \/ end' # "open"
      PROVE  BytesOK' /\ Ahead' = Ahead
  <2>1. net' = IF end = "open" THEN net \o buffer ELSE net
    BY <1>4 DEF OnNet
  <2>2. IsSeq(net') /\ IsSeq(buffer')
    BY <1>1, <1>2, <1>4, <2>1
  <2>3. Ahead' = Ahead
    BY <1>2, <1>4, <2>1 DEF Ahead
  <2> QED BY <2>2, <2>3 DEF BytesOK, IsSeq
<1>5. ASSUME net' = net, buffer' = << >>, end # "open" \/ buffer = << >>, end' = end \/ end' # "open"
      PROVE  BytesOK' /\ Ahead' = Ahead
  <2>1. IsSeq(net') /\ IsSeq(buffer')
    BY <1>1, <1>5
  <2>2. Ahead' = Ahead
    BY <1>2, <1>5 DEF Ahead
  <2> QED BY <2>1, <2>2 DEF BytesOK, IsSeq
<1> QED BY <1>3, <1>4, <1>5

\* A handler's writer writes, and what it writes makes of an iterator that has
\* been given all before one that has been given that too.
LEMMA WriterAdds ==
  ASSUME DInv, GoesOn, Writing, NEW tokens, IsSeq(tokens), NEW flushes, WriteOut(tokens, flushes),
         end' = end,
         NEW s2, s2 = sent', NEW f2, f2 = fate', NEW p2, p2 = producer',
         Adds(tokens, sent, fate, producer, s2, f2, p2)
  PROVE  BytesOK' /\ TrackOK'
<1>1. Down /\ ~Up /\ producer # "gone"
  BY DEF Writing, Handling, Up, Down
<1>2. BytesOK' /\ Ahead' = IF end = "open" THEN Ahead \o tokens ELSE Ahead
  BY WrittenIs DEF DInv
<1>3. CASE end = "open"
  <2>1. Arrives(fate, "open")
    BY <1>1 DEF Arrives
  <2>2. end' = "open" /\ Ahead' = Ahead \o tokens
    BY <1>2, <1>3
  <2> QED BY <1>2, <1>3, <2>1, <2>2, MoreBytes
<1>4. CASE end # "open"
  <2>1. end = "error"
    BY <1>1, <1>4 DEF DInv, ControlOK, IInv, StateOK
  <2> QED BY <1>2, <1>4, <2>1, SameBytes
<1> QED BY <1>3, <1>4

\* Send and Part: a frame.
LEMMA SendKept ==
  ASSUME DInv, NEW v \in Values, ServerSend(v)
  PROVE  BytesOK' /\ TrackOK'
<1>1. StateOK /\ IsSeq(sent)
  BY InSeq DEF DInv, IInv, StateOK
<1>2. Down /\ producer # "framed" /\ Writing
  BY DEF ServerSend, Writing, Handling
<1>3. IsSeq(Frame(v)) /\ Adds(Frame(v), sent, fate, producer, Append(sent, v), fate, "open")
  BY <1>1, <1>2, FrameAdds
<1>4. /\ Append(sent, v) = sent' /\ fate = fate' /\ "open" = producer' /\ end' = end
      /\ WriteOut(Frame(v), TRUE)
  BY DEF ServerSend
<1>5. GoesOn
  BY ServerGoesOn DEF ServerWrites
<1> QED BY <1>2, <1>3, <1>4, <1>5, WriterAdds

\* Part whose body fails: its headers and its beginning.
LEMMA PartFailsKept ==
  ASSUME DInv, NEW v \in Items, ServerPartFails(v)
  PROVE  BytesOK' /\ TrackOK'
<1>1. StateOK /\ IsSeq(sent)
  BY InSeq DEF DInv, IInv, StateOK
<1>2. conf.format = "multipart" /\ Writing
  BY DEF ServerPartFails
<1> DEFINE tokens == <<Part(v), Beginning(v)>>
<1>3. IsSeq(tokens) /\ Adds(tokens, sent, fate, producer, sent, "failed", "open")
  BY <1>1, <1>2, ShortAre, AddsFailedPart
<1>4. /\ sent = sent' /\ "failed" = fate' /\ "open" = producer' /\ end' = end
      /\ WriteOut(tokens, FALSE)
  BY DEF ServerPartFails, Part, Beginning
<1>5. GoesOn
  BY ServerGoesOn DEF ServerWrites
<1> HIDE DEF tokens
<1> QED BY <1>2, <1>3, <1>4, <1>5, WriterAdds

\* Close: the last boundary of a multipart stream, nothing of another.
LEMMA CloseKept ==
  ASSUME DInv, ServerClose
  PROVE  BytesOK' /\ TrackOK'
<1>1. StateOK /\ IsSeq(sent)
  BY InSeq DEF DInv, IInv, StateOK
<1>2. /\ Writing /\ sent = sent' /\ fate = fate' /\ "closed" = producer' /\ end' = end
      /\ WriteOut(IF conf.format = "multipart" THEN <<Closing>> ELSE << >>, TRUE)
  BY DEF ServerClose
<1>3. GoesOn
  BY ServerGoesOn DEF ServerWrites
<1>4. CASE conf.format = "multipart"
  <2>1. IsSeq(<<Closing>>) /\ Adds(<<Closing>>, sent, fate, producer, sent, fate, "closed")
    BY <1>1, <1>4, ShortAre, AddsClosing
  <2>2. WriteOut(<<Closing>>, TRUE)
    BY <1>2, <1>4
  <2> QED BY <1>2, <1>3, <2>1, <2>2, WriterAdds
<1>5. CASE conf.format # "multipart"
  <2>1. IsSeq(<< >>) /\ IsSeq(Ahead) /\ WriteOut(<< >>, TRUE) /\ BytesOK
    BY <1>2, <1>5, ShortAre, AheadIs DEF DInv
  <2>2. BytesOK' /\ Ahead' = IF end = "open" THEN Ahead \o << >> ELSE Ahead
    BY <1>2, <2>1, WrittenIs
  <2>3. Ahead' = Ahead
    BY <2>1, <2>2, ConcatMore
  <2>4. Down /\ ~Up /\ producer # "framed" /\ producer' # "framed"
    BY <1>2 DEF Writing, Handling, Up, Down
  <2>5. end' # "error" => Arrives(fate, end)
    BY <1>2, <2>4 DEF Arrives
  <2> QED BY <1>2, <1>3, <2>2, <2>3, <2>4, <2>5, SameBytes
<1> QED BY <1>4, <1>5

\* The first Send fails, a flush, net/http's own, and the handler's return.
LEMMA HandsOnKept ==
  ASSUME DInv, ServerSendFails \/ ServerFlush \/ Spill \/ ServerReturns
  PROVE  BytesOK' /\ TrackOK'
<1>0. BytesOK /\ StateOK /\ IsSeq(buffer) /\ IsSeq(<< >>)
  BY ShortAre DEF DInv, IInv, BytesOK
<1>1. GoesOn
  BY ServerGoesOn DEF ServerWrites, ServerEnds
<1>2. Down /\ ~Up /\ sent' = sent /\ producer # "framed" /\ producer' # "framed"
  BY <1>0 DEF ServerSendFails, ServerFlush, Spill, ServerReturns, Respond, Writing, Handling,
              Up, Down, StateOK
<1>3. end' # "error" => Arrives(fate, end)
  <2>1. end = "error" => end' = "error"
    BY <1>1 DEF GoesOn
  <2> QED BY <1>2, <2>1 DEF Arrives
<1>4. BytesOK' /\ Ahead' = Ahead
  <2>1. CASE ServerSendFails
    <3>1. net' = net /\ buffer' = buffer /\ end' = end
      BY <2>1 DEF ServerSendFails
    <3> QED BY <1>0, <3>1, HandedOn
  <2>2. CASE ServerFlush
    <3>1. WriteOut(<< >>, TRUE) /\ end' = end
      BY <2>2 DEF ServerFlush
    <3>2. BytesOK' /\ Ahead' = IF end = "open" THEN Ahead \o << >> ELSE Ahead
      BY <1>0, <3>1, WrittenIs
    <3>3. Ahead \o << >> = Ahead
      BY <1>0, AheadIs, ConcatMore
    <3> QED BY <3>2, <3>3
  <2>3. CASE Spill
    <3>1. net' = OnNet(buffer) /\ buffer' = << >> /\ end' = end
      BY <2>3 DEF Spill
    <3> QED BY <1>0, <3>1, HandedOn
  <2>4. CASE ServerReturns
    <3>1. net' = OnNet(buffer \o << >>) /\ buffer' = << >> /\ end' # "open"
      BY <1>0, <2>4 DEF ServerReturns, Respond
    <3>2. buffer \o << >> = buffer
      BY <1>0, ConcatMore
    <3> QED BY <1>0, <3>1, <3>2, HandedOn
  <2> QED BY <2>1, <2>2, <2>3, <2>4
<1> QED BY <1>1, <1>2, <1>3, <1>4, SameBytes DEF DInv

\* What is on the connection is a beginning of what is ahead.
LEMMA NetIs ==
  ASSUME BytesOK
  PROVE  /\ Len(net) \in Nat /\ Len(net) <= Len(Ahead)
         /\ \A k \in 1..Len(net) : net[k] = Ahead[k]
<1>1. IsSeq(net) /\ IsSeq(buffer)
  BY DEF BytesOK
<1>2. /\ Len(net) \in Nat /\ Len(buffer) \in Nat /\ Len(net \o buffer) = Len(net) + Len(buffer)
      /\ \A k \in 1..Len(net) : (net \o buffer)[k] = net[k]
  <2>1. Len(net) \in Nat /\ Len(buffer) \in Nat
    BY <1>1 DEF IsSeq
  <2> QED BY <1>1, <2>1, ConcatIs
<1>3. Ahead = IF end = "open" THEN net \o buffer ELSE net
  BY AheadIs
<1>4. CASE end = "open"
  <2>1. Ahead = net \o buffer
    BY <1>3, <1>4
  <2> QED BY <1>2, <2>1
<1>5. CASE end # "open"
  <2>1. Ahead = net
    BY <1>3, <1>5
  <2> QED BY <1>2, <2>1
<1> QED BY <1>4, <1>5

\* The connection is left broken, with what is on it still to be read.
LEMMA BrokenKept ==
  ASSUME DInv, GoesOn, net' = net, buffer' \in {buffer, << >>}, end' = "error"
  PROVE  BytesOK' /\ TrackOK'
<1>1. BytesOK /\ IsSeq(net) /\ IsSeq(buffer) /\ IsSeq(<< >>)
  BY ShortAre DEF DInv, BytesOK
<1>2. IsSeq(net') /\ IsSeq(buffer')
  BY <1>1
<1>3. BytesOK'
  BY <1>2 DEF BytesOK, IsSeq
<1>4. net = Ahead'
  BY DEF Ahead
<1>5. /\ Len(net) \in Nat /\ Len(net) <= Len(Ahead)
      /\ \A k \in 1..Len(net) : net[k] = Ahead[k]
  BY <1>1, NetIs
<1>6. TrackOK'
  BY <1>4, <1>5, LessBytes
<1> QED BY <1>3, <1>6

\* The connection is cut, at any byte.
LEMMA CutKept ==
  ASSUME DInv, Cut
  PROVE  BytesOK' /\ TrackOK'
<1>1. BytesOK /\ IsSeq(net) /\ IsSeq(buffer) /\ GoesOn
  BY ClientGoesOn DEF DInv, BytesOK
<1>2. /\ Len(net) \in Nat /\ Len(net) <= Len(Ahead) /\ Len(Ahead) \in Nat
      /\ \A k \in 1..Len(net) : net[k] = Ahead[k]
  BY <1>1, NetIs, AheadIs DEF IsSeq
<1>3. PICK k \in 0..Len(net) :
        \/ net' = SubSeq(net, 1, k)
        \/ k > 0 /\ net' = Append(SubSeq(net, 1, k - 1), Half(net[k]))
  <2>1. PICK k \in 0..Len(net) :
          net' \in {SubSeq(net, 1, k)} \cup
                   (IF k > 0 THEN {Append(SubSeq(net, 1, k - 1), Half(net[k]))} ELSE {})
    BY DEF Cut
  <2> QED BY <2>1
<1>4. end' = "error" /\ buffer' = buffer
  BY DEF Cut
<1> DEFINE short == net'
<1>5. /\ IsSeq(short) /\ Len(short) = k
      /\ \A j \in 1..k : short[j] = Ahead[j] \/ (j = k /\ short[j] = Half(Ahead[j]))
  <2>1. CASE net' = SubSeq(net, 1, k)
    <3>1. /\ IsSeq(SubSeq(net, 1, k)) /\ Len(SubSeq(net, 1, k)) = k
          /\ \A j \in 1..k : SubSeq(net, 1, k)[j] = net[j]
      BY <1>1, BeginningIs
    <3>2. /\ IsSeq(short) /\ Len(short) = k
          /\ \A j \in 1..k : short[j] = net[j]
      BY <2>1, <3>1
    <3> HIDE DEF short
    <3>3. \A j \in 1..k : j \in 1..Len(net)
      BY <1>2
    <3> QED BY <1>2, <3>2, <3>3
  <2>2. CASE k > 0 /\ net' = Append(SubSeq(net, 1, k - 1), Half(net[k]))
    <3> DEFINE first == SubSeq(net, 1, k - 1)
    <3>0. k - 1 \in 0..Len(net)
      BY <1>2, <2>2
    <3>1. /\ IsSeq(first) /\ Len(first) = k - 1
          /\ \A j \in 1..k - 1 : first[j] = net[j]
      BY <1>1, <3>0, BeginningIs
    <3> HIDE DEF first
    <3>2. /\ IsSeq(Append(first, Half(net[k]))) /\ Len(Append(first, Half(net[k]))) = (k - 1) + 1
          /\ \A j \in 1..k - 1 : Append(first, Half(net[k]))[j] = first[j]
          /\ Append(first, Half(net[k]))[(k - 1) + 1] = Half(net[k])
      <4>1. IsSeq(first)
        BY <3>1
      <4>2. LET x == Half(net[k]) IN
            /\ IsSeq(Append(first, x)) /\ Len(Append(first, x)) = Len(first) + 1
            /\ \A j \in 1..Len(first) : Append(first, x)[j] = first[j]
            /\ Append(first, x)[Len(first) + 1] = x
        BY <4>1, AppendIs
      <4> QED BY <3>1, <4>2
    <3>3. short = Append(first, Half(net[k])) /\ (k - 1) + 1 = k
      BY <2>2, <1>2 DEF first
    <3>4. /\ IsSeq(short) /\ Len(short) = k /\ short[k] = Half(net[k])
          /\ \A j \in 1..k - 1 : short[j] = net[j]
      BY <3>1, <3>2, <3>3
    <3> HIDE DEF short
    <3>5. ASSUME NEW j \in 1..k
          PROVE  short[j] = Ahead[j] \/ (j = k /\ short[j] = Half(Ahead[j]))
      <4>1. j \in 1..Len(net) /\ net[j] = Ahead[j]
        BY <1>2
      <4>2. j = k \/ j \in 1..k - 1
        OBVIOUS
      <4> QED BY <3>4, <4>1, <4>2
    <3> QED BY <3>4, <3>5
  <2> QED BY <1>3, <2>1, <2>2
<1>6. short = Ahead' /\ BytesOK'
  <2>1. IsSeq(net') /\ IsSeq(buffer')
    BY <1>1, <1>4, <1>5
  <2>2. net' = Ahead'
    BY <1>4 DEF Ahead
  <2> QED BY <2>1, <2>2 DEF BytesOK, IsSeq
<1> HIDE DEF short
<1>7. Len(short) \in Nat /\ Len(short) <= Len(Ahead)
  BY <1>2, <1>5
<1>8. TrackOK'
  BY <1>1, <1>4, <1>5, <1>6, <1>7, LessBytes
<1> QED BY <1>6, <1>8

\* A handler that panics or is aborted.
LEMMA BreaksKept ==
  ASSUME DInv, ServerPanics \/ ServerAborts
  PROVE  BytesOK' /\ TrackOK'
<1>1. CASE ServerPanics
  <2>1. TrackOK'
    BY <1>1 DEF ServerPanics, TrackOK
  <2>2. PICK tokens : IsSeq(tokens) /\ net' = OnNet(buffer \o tokens) /\ buffer' = << >>
    <3>1. /\ IsSeq(<< <<"line", "problem", "">> >>) /\ IsSeq(<<Problem, Nl>>)
      BY ShortAre
    <3> QED BY <1>1, <3>1 DEF ServerPanics, Respond
  <2>3. IsSeq(net) /\ IsSeq(buffer) /\ IsSeq(<< >>)
    BY ShortAre DEF DInv, BytesOK
  <2>4. IsSeq(buffer \o tokens)
    BY <2>2, <2>3, ConcatIs
  <2>5. IsSeq(net \o (buffer \o tokens))
    BY <2>3, <2>4, ConcatIs
  <2>6. IsSeq(net') /\ IsSeq(buffer')
    BY <2>2, <2>3, <2>5 DEF OnNet
  <2> QED BY <2>1, <2>6 DEF BytesOK, IsSeq
<1>2. CASE ServerAborts
  <2>1. Down /\ producer # "gone" /\ net' = net /\ buffer' = << >>
    BY <1>2 DEF ServerAborts, Handling
  <2>2. end # "eof"
    BY <2>1 DEF DInv, ControlOK
  <2>3. end' = "error"
    BY <1>2, <2>2 DEF ServerAborts, DInv, IInv, StateOK
  <2>4. GoesOn
    BY <1>2, ServerGoesOn DEF ServerEnds
  <2> QED BY <2>1, <2>3, <2>4, BrokenKept
<1> QED BY <1>1, <1>2

\* The reading loop breaks off, or a hook fails before the request is sent.
LEMMA StopKept ==
  ASSUME DInv, Stop \/ HookFails \/ UNCHANGED vars
  PROVE  BytesOK' /\ TrackOK'
<1>1. GoesOn /\ BytesOK
  BY ClientGoesOn DEF DInv
<1>2. /\ net' = net /\ buffer' = buffer /\ sent' = sent /\ producer' = producer
      /\ end' = end \/ end' = "error"
  BY DEF Stop, HookFails, vars
<1>3. CASE end' = end
  <2>1. BytesOK' /\ Ahead' = Ahead
    BY <1>1, <1>2, <1>3, HandedOn
  <2>2. end' # "error" /\ ~(Up /\ fate' = "failed") => Arrives(fate, end)
    <3>1. fate = "failed" => fate' = "failed"
      BY DEF Stop, HookFails, vars
    <3> QED BY <1>3, <3>1 DEF Arrives
  <2> QED BY <1>1, <1>2, <2>1, <2>2, SameBytes
<1>4. CASE end' = "error"
  BY <1>1, <1>2, <1>4, BrokenKept
<1> QED BY <1>2, <1>3, <1>4

\* The goroutine hands the pipe bytes, which the pipe has none of.
LEMMA PipeAdds ==
  ASSUME DInv, GoesOn, Encoding, PipeTakes, NEW tokens, IsSeq(tokens), buffer' = tokens, net' = net,
         end' = end,
         NEW s2, s2 = sent', NEW f2, f2 = fate', NEW p2, p2 = producer',
         Adds(tokens, sent, fate, producer, s2, f2, p2)
  PROVE  BytesOK' /\ TrackOK'
<1>1. /\ BytesOK /\ IsSeq(net) /\ buffer = << >> /\ pipe = "open" /\ fate # "failed" /\ end # "eof"
      /\ end \in {"open", "eof", "error"}
  BY DEF DInv, BytesOK, PipeTakes, Encoding, ControlOK, IInv, StateOK
<1>2. net \o << >> = net
  BY <1>1, ConcatMore
<1>3. BytesOK'
  <2>1. IsSeq(net') /\ IsSeq(buffer')
    BY <1>1
  <2> QED BY <2>1 DEF BytesOK, IsSeq
<1>4. CASE end = "open"
  <2>1. Ahead = net /\ Ahead' = net \o tokens
    BY <1>1, <1>2, <1>4 DEF Ahead
  <2>2. Arrives(fate, "open")
    BY <1>1 DEF Arrives
  <2>3. end' = "open" /\ Ahead' = Ahead \o tokens
    BY <1>4, <2>1
  <2> QED BY <1>3, <1>4, <2>2, <2>3, MoreBytes
<1>5. CASE end = "error"
  <2>1. Ahead' = Ahead
    BY <1>5 DEF Ahead
  <2> QED BY <1>3, <1>5, <2>1, SameBytes
<1> QED BY <1>1, <1>4, <1>5

\* The goroutine writes a separator, or a value and its newline.
LEMMA EncodesKept ==
  ASSUME DInv, ClientFrames \/ \E v \in Items : ClientEncodes(v)
  PROVE  BytesOK' /\ TrackOK'
<1>1. StateOK /\ IsSeq(sent) /\ GoesOn
  BY InSeq, ClientGoesOn DEF DInv, IInv, StateOK, Goroutine
<1>2. CASE ClientFrames
  <2>1. /\ Encoding /\ PipeTakes /\ conf.format = "rs" /\ producer # "framed"
        /\ buffer' = <<Rs>> /\ net' = net /\ end' = end
        /\ sent = sent' /\ fate = fate' /\ "framed" = producer'
    BY <1>2 DEF ClientFrames
  <2>2. IsSeq(<<Rs>>) /\ Adds(<<Rs>>, sent, fate, producer, sent, fate, "framed")
    BY <1>1, <2>1, ShortAre, AddsMark DEF IsSeq
  <2> QED BY <1>1, <2>1, <2>2, PipeAdds
<1>3. ASSUME NEW v \in Items, ClientEncodes(v)
      PROVE  BytesOK' /\ TrackOK'
  <2>1. /\ Encoding /\ PipeTakes /\ (conf.format = "rs" => producer = "framed")
        /\ buffer' = <<Item(v), Nl>> /\ net' = net /\ end' = end
        /\ Append(sent, v) = sent' /\ fate = fate' /\ "open" = producer'
    BY <1>3 DEF ClientEncodes, Item
  <2>2. Separated
    BY <1>1, <2>1, ConfIs DEF Encoding
  <2>3. /\ IsSeq(<<Item(v), Nl>>)
        /\ Adds(<<Item(v), Nl>>, sent, fate, producer, Append(sent, v), fate, "open")
    BY <1>1, <2>1, <2>2, ShortAre, AddsItem
  <2> QED BY <1>1, <2>1, <2>3, PipeAdds
<1> QED BY <1>2, <1>3

\* The goroutine returns.
LEMMA GoroutineEndsKept ==
  ASSUME DInv, ClientFails \/ ClientEnds \/ ClientWriteFails
  PROVE  BytesOK' /\ TrackOK'
<1>1. BytesOK /\ GoesOn
  BY ClientGoesOn DEF DInv, Goroutine
<1>2. /\ Up /\ producer \in {"fresh", "open", "framed"}
      /\ net' = net /\ buffer' = buffer /\ end' = end /\ sent' = sent /\ producer' = "gone"
  BY DEF ClientFails, ClientEnds, ClientWriteFails, Encoding
<1>3. fate # "failed"
  BY <1>2 DEF DInv, ControlOK
<1>4. BytesOK' /\ Ahead' = Ahead
  BY <1>1, <1>2, HandedOn
<1>5. fate' = "failed" \/ (producer # "framed" /\ fate' = "whole")
  BY DEF ClientFails, ClientEnds, ClientWriteFails
<1>6. end' # "error" /\ ~(Up /\ fate' = "failed") =>
        Arrives(fate, end) /\ (producer' = "framed" <=> producer = "framed")
  BY <1>2, <1>3, <1>5 DEF Arrives
<1> QED BY <1>1, <1>2, <1>4, <1>6, SameBytes

\* The transport copies the pipe, ends with it, or closes it.
LEMMA TransportKept ==
  ASSUME DInv, Transport
  PROVE  BytesOK' /\ TrackOK'
<1>1. BytesOK /\ GoesOn
  BY ClientGoesOn DEF DInv
<1>2. Up /\ sent' = sent /\ producer' = producer /\ fate' = fate
  BY DEF Transport, TransportCopies, TransportEnds, TransportCloses
<1>3. CASE TransportCopies
  <2>1. net' = OnNet(buffer) /\ buffer' = << >> /\ end' = end /\ end = "open"
    BY <1>3 DEF TransportCopies, OnNet
  <2>2. BytesOK' /\ Ahead' = Ahead
    BY <1>1, <2>1, HandedOn
  <2> QED BY <1>1, <1>2, <2>1, <2>2, SameBytes DEF Arrives
<1>4. CASE TransportEnds
  <2>1. net' = net /\ buffer' = buffer /\ end = "open" /\ end' = pipe /\ pipe \in {"eof", "error"}
    BY <1>4 DEF TransportEnds
  <2>2. buffer = << >>
    BY <1>2, <2>1 DEF DInv, ControlOK
  <2>3. end' # "open" /\ buffer' = << >>
    BY <2>1, <2>2
  <2>4. BytesOK' /\ Ahead' = Ahead
    BY <1>1, <2>1, <2>2, <2>3, HandedOn
  <2> QED BY <1>1, <1>2, <2>1, <2>4, SameBytes DEF Arrives
<1>5. CASE TransportCloses
  <2>1. net' = net /\ buffer' = << >> /\ end' = "error"
    BY <1>5 DEF TransportCloses
  <2> QED BY <1>1, <2>1, BrokenKept
<1> QED BY <1>3, <1>4, <1>5 DEF Transport

\* Every step of these.
LEMMA OthersKept ==
  ASSUME DInv,
         ServerWrites \/ ServerEnds \/ Goroutine \/ HookFails \/ Transport \/ Stop \/ Cut
           \/ UNCHANGED vars
  PROVE  BytesOK' /\ TrackOK' /\ EndedOK'
<1>1. BytesOK' /\ TrackOK'
  <2>1. CASE ServerWrites
    BY <2>1, SendKept, HandsOnKept, CloseKept, PartFailsKept DEF ServerWrites
  <2>2. CASE ServerEnds
    BY <2>2, HandsOnKept, BreaksKept DEF ServerEnds
  <2>3. CASE Goroutine
    BY <2>3, EncodesKept, GoroutineEndsKept DEF Goroutine
  <2> QED BY <2>1, <2>2, <2>3, TransportKept, StopKept, CutKept
<1>2. GoesOn
  BY ServerGoesOn, ClientGoesOn
<1> QED BY <1>1, <1>2, EndedKept

\* The two ends, the pipe and the connection still go together.
LEMMA ControlKept ==
  ASSUME StateOK, ControlOK, [Next]_vars
  PROVE  ControlOK'
<1>0. conf' = conf
  BY DEF Next, ServerWrites, ServerSend, ServerSendFails, ServerFlush, ServerClose, Spill,
    ServerPartFails, ServerEnds, ServerReturns, ServerPanics, ServerAborts, Respond,
    Goroutine, ClientFrames, ClientEncodes, ClientFails, ClientEnds, ClientWriteFails, HookFails,
    Transport, TransportCopies, TransportEnds, TransportCloses, Stop, Cut, Read, Take, Finish, vars
<1>1. (Down' <=> Down) /\ (Up' <=> Up) /\ ~(Up /\ Down) /\ conf'.format = conf.format
  BY <1>0 DEF Down, Up
<1>2. CASE ServerWrites \/ ServerEnds
  <2>1. Down
    BY <1>2 DEF ServerWrites, ServerSend, ServerSendFails, ServerFlush, ServerClose, Spill,
      ServerPartFails, ServerEnds, ServerReturns, ServerPanics, ServerAborts, Handling, Writing
  <2>2. ASSUME NEW v, ServerSend(v)
        PROVE  ControlOK'
    BY <1>1, <2>1, <2>2 DEF ServerSend, Writing, Handling, ControlOK
  <2>3. ASSUME ServerSendFails \/ ServerFlush \/ ServerClose \/ Spill
        PROVE  ControlOK'
    <3>1. fate' = fate /\ end' = end
      BY <2>3 DEF ServerSendFails, ServerFlush, ServerClose, Spill
    <3>2. (producer = "gone" <=> producer' = "gone")
      BY <2>3 DEF ServerSendFails, ServerFlush, ServerClose, Spill, Writing, Handling
    <3> QED BY <1>1, <2>1, <3>1, <3>2 DEF ControlOK
  <2>4. ASSUME NEW v, ServerPartFails(v)
        PROVE  ControlOK'
    <3>1. conf.format = "multipart" /\ fate' = "failed" /\ producer # "gone" /\ end' = end
      BY <2>4 DEF ServerPartFails, Writing, Handling
    <3> QED BY <1>1, <2>1, <3>1 DEF ControlOK
  <2>5. ASSUME ServerEnds
        PROVE  ControlOK'
    <3>0. producer # "gone" /\ producer' = "gone"
      BY <2>5 DEF ServerEnds, ServerReturns, ServerPanics, ServerAborts, Respond, Handling
    <3>1. fate \in {"", "failed"} /\ (fate = "failed" => conf.format = "multipart") /\ end # "eof"
      BY <2>1, <3>0 DEF ControlOK
    <3>2. CASE ServerReturns
      <4>1. fate' = IF fate = "" THEN "whole" ELSE fate
        BY <3>2 DEF ServerReturns
      <4> QED BY <1>1, <2>1, <3>0, <3>1, <4>1 DEF ControlOK
    <3>3. CASE ServerPanics
      <4>1. fate' = "panicked"
        BY <3>3 DEF ServerPanics
      <4> QED BY <1>1, <2>1, <3>0, <3>1, <4>1 DEF ControlOK
    <3>4. CASE ServerAborts
      <4>1. fate' = "failed" /\ end' # "eof"
        BY <3>1, <3>4 DEF ServerAborts
      <4> QED BY <1>1, <2>1, <3>0, <3>1, <4>1 DEF ControlOK
    <3> QED BY <2>5, <3>2, <3>3, <3>4 DEF ServerEnds
  <2> QED BY <1>2, <2>2, <2>3, <2>4, <2>5 DEF ServerWrites
<1>3. CASE Goroutine \/ HookFails \/ Transport
  <2>1. Up
    BY <1>3 DEF Goroutine, ClientFrames, ClientEncodes, ClientFails, ClientEnds, ClientWriteFails,
      Encoding, HookFails, Transport, TransportCopies, TransportEnds, TransportCloses
  <2>2. CASE Goroutine
    <3>1. Encoding
      BY <2>2 DEF Goroutine, ClientFrames, ClientEncodes, ClientFails, ClientEnds, ClientWriteFails
    <3>2. /\ fate \notin {"whole", "failed"} /\ pipe \notin {"eof", "error"} /\ end # "eof"
      BY <2>1, <3>1 DEF ControlOK, Encoding
    <3>3. end' = end
      BY <2>2 DEF Goroutine, ClientFrames, ClientEncodes, ClientFails, ClientEnds, ClientWriteFails
    <3>4. ASSUME ClientFrames \/ \E v \in Items : ClientEncodes(v)
          PROVE  ControlOK'
      <4>1. fate' = fate /\ pipe' = pipe /\ producer' # "closed"
        BY <3>4 DEF ClientFrames, ClientEncodes
      <4> QED BY <1>1, <2>1, <3>2, <3>3, <4>1 DEF ControlOK
    <3>5. ASSUME ClientFails \/ ClientEnds
          PROVE  ControlOK'
      <4>1. /\ buffer' = << >> /\ producer' = "gone"
            /\ (pipe' = "eof" /\ fate' = "whole") \/ (pipe' = "error" /\ fate' = "failed")
        BY <3>5 DEF ClientFails, ClientEnds, PipeTakes
      <4> QED BY <1>1, <2>1, <3>2, <3>3, <4>1 DEF ControlOK
    <3>6. ASSUME ClientWriteFails
          PROVE  ControlOK'
      <4>1. fate' = "failed" /\ pipe' = pipe /\ producer' = "gone" /\ pipe = "closed"
        BY <3>6 DEF ClientWriteFails
      <4> QED BY <1>1, <2>1, <3>2, <3>3, <4>1 DEF ControlOK
    <3> QED BY <2>2, <3>4, <3>5, <3>6 DEF Goroutine
  <2>3. CASE HookFails
    <3>1. /\ fate' = "hooked" /\ producer' = producer /\ buffer' = buffer /\ pipe' = pipe
          /\ end' = end /\ producer = "fresh" /\ end = "open"
      BY <2>3 DEF HookFails
    <3> QED BY <1>1, <2>1, <3>1 DEF ControlOK
  <2>4. CASE TransportCopies
    <3>1. /\ fate' = fate /\ producer' = producer /\ buffer' = << >> /\ pipe' = pipe /\ end' = end
      BY <2>4 DEF TransportCopies
    <3> QED BY <1>1, <2>1, <3>1 DEF ControlOK
  <2>5. CASE TransportEnds
    <3>1. /\ fate' = fate /\ producer' = producer /\ buffer' = buffer /\ pipe' = pipe
          /\ pipe \in {"eof", "error"} /\ end' = pipe
      BY <2>5 DEF TransportEnds
    <3> QED BY <1>1, <2>1, <3>1 DEF ControlOK
  <2>6. CASE TransportCloses
    <3>1. /\ fate' = fate /\ producer' = producer /\ pipe' = "closed"
          /\ end = "error" /\ end' = end
      BY <2>6 DEF TransportCloses
    <3> QED BY <1>1, <2>1, <3>1 DEF ControlOK
  <2> QED BY <1>3, <2>2, <2>3, <2>4, <2>5, <2>6 DEF Transport
<1>4. CASE Stop \/ Cut \/ Read \/ UNCHANGED vars
  <2>1. fate' = fate /\ producer' = producer /\ buffer' = buffer /\ pipe' = pipe
    BY <1>4 DEF Stop, Cut, Read, Take, Finish, vars
  <2>2. end' = end \/ end' = "error"
    BY <1>4 DEF Stop, Cut, Read, Take, Finish, vars
  <2> QED BY <1>1, <2>1, <2>2 DEF ControlOK
<1> QED BY <1>2, <1>3, <1>4 DEF Next

-----------------------------------------------------------------------------
(* The steps that read *)

\* A token is read: what was ahead but its first is ahead.
LEMMA TakenKept ==
  ASSUME DInv, Read, Taken
  PROVE  BytesOK' /\ TrackOK' /\ EndedOK'
<1>1. /\ conf' = conf /\ fate' = fate /\ producer' = producer /\ buffer' = buffer /\ sent' = sent
      /\ reader = "reading"
  BY ReadSteps DEF DInv
<1>2. /\ net # << >> /\ net' = Tail(net) /\ end' = end /\ reader' = reader
      /\ iter' = ClientNext(iter, Head(net))
  BY DEF Taken
<1>3. IsSeq(net) /\ IsSeq(buffer) /\ BytesOK
  BY DEF DInv, BytesOK
<1> DEFINE rest == Tail(net)
<1>4. /\ IsSeq(rest) /\ Len(net) \in Nat \ {0} /\ Len(rest) = Len(net) - 1 /\ Head(net) = net[1]
      /\ \A k \in 1..Len(net) - 1 : rest[k] = net[k + 1]
  BY <1>2, <1>3, TailIs
<1>5. net' = rest
  BY <1>2
<1> HIDE DEF rest
<1>6. BytesOK'
  <2>1. IsSeq(net') /\ IsSeq(buffer')
    BY <1>1, <1>3, <1>4, <1>5
  <2> QED BY <2>1 DEF BytesOK, IsSeq
<1>7. PICK tokens : tokens = Ahead'
  OBVIOUS
<1>8. /\ Len(Ahead) \in Nat \ {0} /\ Len(tokens) = Len(Ahead) - 1 /\ Ahead[1] = net[1]
      /\ \A k \in 1..Len(tokens) : tokens[k] = Ahead[k + 1]
  <2>1. CASE end = "open"
    <3>1. Ahead = net \o buffer /\ tokens = rest \o buffer
      BY <1>1, <1>2, <1>5, <1>7, <2>1 DEF Ahead
    <3>2. Len(buffer) \in Nat /\ Len(rest) \in Nat
      BY <1>3, <1>4 DEF IsSeq
    <3>3. /\ Len(Ahead) = Len(net) + Len(buffer)
          /\ \A k \in 1..Len(net) : Ahead[k] = net[k]
          /\ \A k \in 1..Len(buffer) : Ahead[Len(net) + k] = buffer[k]
      BY <1>3, <3>1, ConcatIs
    <3>4. /\ Len(tokens) = Len(rest) + Len(buffer)
          /\ \A k \in 1..Len(rest) : tokens[k] = rest[k]
          /\ \A k \in 1..Len(buffer) : tokens[Len(rest) + k] = buffer[k]
      <4>1. IsSeq(rest) /\ IsSeq(buffer)
        BY <1>3, <1>4
      <4>2. LET t == rest \o buffer IN
            /\ Len(t) = Len(rest) + Len(buffer)
            /\ \A k \in 1..Len(rest) : t[k] = rest[k]
            /\ \A k \in 1..Len(buffer) : t[Len(rest) + k] = buffer[k]
        BY <4>1, ConcatIs
      <4>3. tokens = rest \o buffer
        BY <3>1
      <4> QED BY <4>2, <4>3
    <3>5. ASSUME NEW k \in 1..Len(tokens)
          PROVE  tokens[k] = Ahead[k + 1]
      <4>1. CASE k <= Len(rest)
        <5>1. k \in 1..Len(rest) /\ k + 1 \in 1..Len(net)
          BY <1>4, <3>2, <4>1
        <5> QED BY <1>4, <3>3, <3>4, <5>1
      <4>2. CASE k > Len(rest)
        <5> DEFINE j == k - Len(rest)
        <5>1. j \in 1..Len(buffer) /\ k = Len(rest) + j /\ k + 1 = Len(net) + j
          BY <1>4, <3>2, <3>4, <4>2
        <5> HIDE DEF j
        <5> QED BY <3>3, <3>4, <5>1
      <4> QED BY <3>2, <4>1, <4>2
    <3>6. Len(Ahead) \in Nat \ {0} /\ Len(tokens) = Len(Ahead) - 1 /\ Ahead[1] = net[1]
      BY <1>4, <3>2, <3>3, <3>4
    <3> QED BY <3>5, <3>6
  <2>2. CASE end # "open"
    <3>1. Ahead = net /\ tokens = rest
      BY <1>2, <1>5, <1>7, <2>2 DEF Ahead
    <3> QED BY <1>4, <3>1
  <2> QED BY <2>1, <2>2
<1>9. ASSUME fate # "panicked"
      PROVE  Track(ClientNext(iter, Ahead[1]), tokens, sent, fate, producer, end)
  <2>1. Track(iter, Ahead, sent, fate, producer, end)
    BY <1>1, <1>9 DEF DInv, TrackOK
  <2> QED BY <1>8, <2>1, TrackTaken
<1>10. TrackOK'
  <2>1. ClientNext(iter, Ahead[1]) = iter' /\ sent = sent' /\ fate = fate' /\ producer = producer'
        /\ end = end'
    BY <1>1, <1>2, <1>4, <1>8
  <2> QED BY <1>1, <1>7, <1>9, <2>1, TrackAfter
<1>11. EndedOK'
  BY <1>1, <1>2 DEF EndedOK
<1> QED BY <1>6, <1>10, <1>11

\* Yields that end with an error.
LEMMA ErrorEnds ==
  ASSUME NEW out, IsSeq(out), NEW s, Len(s) \in Nat, Delivers(out, s), NEW f, Plain(out, f), NEW p
  PROVE  Ended(Append(out, <<"error", "">>), s, f, p)
<1> DEFINE Err == <<"error", "">>
           n == Len(out)
<1>1. Err[1] = "error"
  OBVIOUS
<1> HIDE DEF Err
<1>2. n \in Nat
  BY DEF IsSeq
<1>3. \A k \in 1..n : out[k][1] \notin {"bad", "error"} /\ (out[k][1] = "cut" => f = "failed")
  BY DEF Plain
<1>4. /\ IsSeq(Append(out, Err)) /\ Len(Append(out, Err)) = n + 1
      /\ \A k \in 1..n : Append(out, Err)[k] = out[k]
      /\ Append(out, Err)[n + 1] = Err
  BY AppendIs
<1>5. Delivers(Append(out, Err), s)
  BY <1>1, DeliversMore
<1>6. Ended(Append(out, Err), s, f, p)
  <2> DEFINE longer == Append(out, Err)
  <2>1. /\ Len(longer) = n + 1 /\ longer[n + 1] = Err /\ Delivers(longer, s)
        /\ \A k \in 1..n : longer[k] = out[k]
    BY <1>4, <1>5
  <2> HIDE DEF longer, n
  <2>2. n + 1 \in 1..Len(longer) /\ \A k \in 1..Len(longer) : k \in 1..n \/ k = n + 1
    BY <1>2, <2>1
  <2>3. ASSUME NEW k \in 1..Len(longer)
        PROVE  /\ longer[k][1] # "bad"
               /\ longer[k][1] = "error" => k = Len(longer)
               /\ longer[k][1] = "cut" /\ f # "failed" /\ k < Len(longer) => longer[k + 1][1] = "error"
    BY <1>1, <1>3, <2>1, <2>2
  <2>4. ~\A k \in 1..Len(longer) : longer[k][1] # "error"
    BY <1>1, <2>1, <2>2
  <2>5. Ended(longer, s, f, p)
    BY <2>1, <2>3, <2>4 DEF Ended
  <2> QED BY <2>5 DEF longer
<1> QED BY <1>6 DEF Err

\* After a value cut short.
LEMMA ShortEnds ==
  ASSUME NEW out, IsSeq(out), NEW s, Len(s) \in Nat, Delivers(out, s), NEW f, Plain(out, f), NEW p,
         NEW y, y[1] = "cut" \/ y[1] = "short"
  PROVE  Ended(Append(Append(out, y), <<"error", "">>), s, f, p)
<1> DEFINE Err == <<"error", "">>
           n == Len(out)
<1>1. Err[1] = "error"
  OBVIOUS
<1> HIDE DEF Err
<1>2. n \in Nat
  BY DEF IsSeq
<1>3. \A k \in 1..n : out[k][1] \notin {"bad", "error"} /\ (out[k][1] = "cut" => f = "failed")
  BY DEF Plain
<1> DEFINE mid == Append(out, y)
           longer == Append(mid, Err)
<1>4. /\ IsSeq(mid) /\ Len(mid) = n + 1 /\ mid[n + 1] = y
      /\ \A k \in 1..n : mid[k] = out[k]
  BY AppendIs
<1>5. Delivers(mid, s)
  BY DeliversMore
<1> HIDE DEF mid
<1>6. Delivers(longer, s)
  BY <1>1, <1>4, <1>5, DeliversMore
<1>7. /\ Len(longer) = Len(mid) + 1 /\ longer[Len(mid) + 1] = Err
      /\ \A k \in 1..Len(mid) : longer[k] = mid[k]
  BY <1>4, AppendIs
<1> HIDE DEF longer, n
<1>8. /\ Len(longer) = n + 2 /\ longer[n + 2] = Err /\ longer[n + 1] = y
      /\ \A k \in 1..n : longer[k] = out[k]
  BY <1>2, <1>4, <1>7
<1>9. n + 2 \in 1..Len(longer) /\ \A k \in 1..Len(longer) : k \in 1..n \/ k = n + 1 \/ k = n + 2
  BY <1>2, <1>8
<1>10. ASSUME NEW k \in 1..Len(longer)
      PROVE  /\ longer[k][1] # "bad"
             /\ longer[k][1] = "error" => k = Len(longer)
             /\ longer[k][1] = "cut" /\ f # "failed" /\ k < Len(longer) => longer[k + 1][1] = "error"
  <2>1. CASE k \in 1..n
    BY <1>3, <1>8, <2>1
  <2>2. CASE k = n + 1
    <3>1. longer[k] = y /\ longer[k + 1] = Err
      BY <1>2, <1>8, <2>2
    <3> QED BY <1>1, <3>1
  <2>3. CASE k = n + 2
    <3>1. longer[k] = Err /\ k = Len(longer)
      BY <1>8, <2>3
    <3> QED BY <1>1, <3>1
  <2> QED BY <1>9, <2>1, <2>2, <2>3
<1>11. ~\A k \in 1..Len(longer) : longer[k][1] # "error"
  BY <1>1, <1>8, <1>9
<1>12. Ended(longer, s, f, p)
  BY <1>6, <1>10, <1>11 DEF Ended
<1> QED BY <1>12 DEF longer, mid, Err

\* Yields that end without one: all that was sent, or a part's body cut short.
LEMMA CleanEnds ==
  ASSUME NEW out, IsSeq(out), NEW s, Len(s) \in Nat, Delivers(out, s), NEW f, Plain(out, f), NEW p
  PROVE  /\ /\ Num(out) = Len(s) /\ p \in {"closed", "gone"}
            /\ f = "whole" \/ conf.format = "multipart"
            => Ended(out, s, f, p)
         /\ \A y : y[1] = "short" /\ conf.format = "multipart" => Ended(Append(out, y), s, f, p)
<1> DEFINE n == Len(out)
<1>2. n \in Nat
  BY DEF IsSeq
<1>3. \A k \in 1..n : out[k][1] \notin {"bad", "error"} /\ (out[k][1] = "cut" => f = "failed")
  BY DEF Plain
<1>4. ASSUME Num(out) = Len(s), p \in {"closed", "gone"}, f = "whole" \/ conf.format = "multipart"
      PROVE  Ended(out, s, f, p)
  <2>1. ASSUME NEW k \in 1..Len(out)
        PROVE  /\ out[k][1] # "bad"
               /\ out[k][1] = "error" => k = Len(out)
               /\ out[k][1] = "cut" /\ f # "failed" /\ k < Len(out) => out[k + 1][1] = "error"
    BY <1>3
  <2> QED BY <1>4, <2>1 DEF Ended
<1>5. ASSUME NEW y, y[1] = "short", conf.format = "multipart"
      PROVE  Ended(Append(out, y), s, f, p)
  <2> DEFINE longer == Append(out, y)
  <2>1. /\ Len(longer) = n + 1 /\ longer[n + 1] = y
        /\ \A k \in 1..n : longer[k] = out[k]
    BY AppendIs
  <2>2. Delivers(longer, s)
    BY <1>5, DeliversMore
  <2> HIDE DEF longer, n
  <2>3. n + 1 \in 1..Len(longer) /\ \A k \in 1..Len(longer) : k \in 1..n \/ k = n + 1
    BY <1>2, <2>1
  <2>4. ASSUME NEW k \in 1..Len(longer)
        PROVE  /\ longer[k][1] # "bad"
               /\ longer[k][1] = "error" => k = Len(longer)
               /\ longer[k][1] = "cut" /\ f # "failed" /\ k < Len(longer) => longer[k + 1][1] = "error"
    BY <1>3, <1>5, <2>1, <2>3
  <2>5. ~\A k \in 1..Len(longer) : longer[k][1] # "short"
    BY <1>5, <2>1, <2>3
  <2>6. Ended(longer, s, f, p)
    BY <1>5, <2>2, <2>4, <2>5 DEF Ended
  <2> QED BY <2>6 DEF longer
<1> QED BY <1>4, <1>5

\* What an iterator yields of the rest and at the end of the body.
LEMMA LastIs ==
  ASSUME StateOK, NEW it, IterOK(it)
  PROVE  /\ it.closed => ClientLast(it) = it
         /\ ~it.closed /\ end = "eof" =>
              /\ Separated => ClientLast(it) = ClientRecord(it)
              /\ conf.format = "sse" => ClientLast(it) = ClientEvent(it)
              /\ conf.format = "multipart" => ClientLast(it) = ClientBody(it, FALSE)
         /\ ~it.closed /\ end # "eof" =>
              /\ conf.format = "lines" =>
                   ClientLast(it).out = Append(ClientRecord(it).out, <<"error", "">>)
              /\ conf.format \in {"rs", "sse"} => ClientLast(it).out = Append(it.out, <<"error", "">>)
              /\ conf.format = "multipart" =>
                   ClientLast(it).out = Append(ClientBody(it, FALSE).out, <<"error", "">>)
<1>1. ASSUME it.closed
      PROVE  ClientLast(it) = it
  <2>1. ClientLast(it) = ClientRest(it)
    BY <1>1 DEF ClientLast
  <2>2. conf.format \notin {"lines", "rs", "sse"}
    BY <1>1 DEF IterOK
  <2>3. ClientRest(it) = it
    BY <1>1, <2>2 DEF ClientRest
  <2> QED BY <2>1, <2>3
<1>2. ASSUME ~it.closed, end = "eof"
      PROVE  /\ Separated => ClientLast(it) = ClientRecord(it)
             /\ conf.format = "sse" => ClientLast(it) = ClientEvent(it)
             /\ conf.format = "multipart" => ClientLast(it) = ClientBody(it, FALSE)
  BY <1>2 DEF ClientLast, ClientRest, Separated
<1>3. ASSUME ~it.closed, end # "eof"
      PROVE  /\ conf.format = "lines" =>
                  ClientLast(it).out = Append(ClientRecord(it).out, <<"error", "">>)
             /\ conf.format \in {"rs", "sse"} => ClientLast(it).out = Append(it.out, <<"error", "">>)
             /\ conf.format = "multipart" =>
                  ClientLast(it).out = Append(ClientBody(it, FALSE).out, <<"error", "">>)
  <2>1. ASSUME NEW r, IterOK(r), ClientRest(it) = r
        PROVE  ClientLast(it).out = Append(r.out, <<"error", "">>)
    <3>1. ClientLast(it) = [r EXCEPT !.out = Append(@, <<"error", "">>)]
      BY <1>3, <2>1 DEF ClientLast
    <3>2. "out" \in DOMAIN r
      BY <2>1 DEF IterOK
    <3> QED BY <3>1, <3>2
  <2>2. IterOK(ClientRecord(it)) /\ IterOK(ClientBody(it, FALSE))
    BY RecordStays, BodyStays
  <2>3. /\ conf.format = "lines" => ClientRest(it) = ClientRecord(it)
        /\ conf.format \in {"rs", "sse"} => ClientRest(it) = it
        /\ conf.format = "multipart" => ClientRest(it) = ClientBody(it, FALSE)
    BY <1>3 DEF ClientRest
  <2> QED BY <2>1, <2>2, <2>3
<1> QED BY <1>1, <1>2, <1>3

\* What a record in progress is yielded as.
LEMMA RecordYields ==
  ASSUME Separated, NEW it, NEW s, Len(s) \in Nat, NEW f, NEW p, NEW e, Fine(it, s, f, p, e)
  PROVE  LET out == ClientRecord(it).out IN
         \/ it.cur = << >> /\ out = it.out
         \/ /\ it.cur = <<Item(s[Num(it.out) + 1])>> /\ IsSeq(out) /\ Delivers(out, s) /\ Plain(out, f)
            /\ Num(out) = Num(it.out) + 1
         \/ \E v : it.cur = <<Beginning(v)>> /\ out = Append(it.out, <<"cut", v>>)
<1>1. IterOK(it) /\ Delivers(it.out, s) /\ Plain(it.out, f) /\ IsSeq(it.out)
  BY DEF Fine, IterOK, IsSeq
<1>2. ClientRecord(it).out = IF it.cur = << >> THEN it.out ELSE Append(it.out, ClientDecode(it.cur))
  BY <1>1, RecordIs
<1>3. CASE it.cur = << >>
  BY <1>2, <1>3
<1>4. CASE it.cur # << >> /\ it.cur = <<Item(s[Num(it.out) + 1])>>
  <2> DEFINE v == s[Num(it.out) + 1]
             out == Append(it.out, <<"value", v>>)
  <2>1. Num(it.out) < Len(s)
    BY <1>4 DEF Fine
  <2>2. ClientDecode(it.cur) = <<"value", v>>
    <3>1. it.cur = <<Item(v)>>
      BY <1>4
    <3>2. Len(<<Item(v)>>) = 1 /\ <<Item(v)>>[1] = Item(v) /\ Item(v)[1] = "item" /\ Item(v)[2] = v
      BY DEF Item
    <3> HIDE DEF v
    <3> QED BY <3>1, <3>2 DEF ClientDecode
  <2>3. Arriving(v) = v
    BY DEF Separated, Arriving
  <2>4. Delivers(out, s) /\ Num(out) = Num(it.out) + 1
    BY <1>1, <2>1, <2>3, DeliversMore
  <2>5. Plain(out, f)
    <3>1. <<"value", v>>[1] = "value"
      OBVIOUS
    <3> QED BY <1>1, <3>1, PlainMore
  <2>6. IsSeq(out)
    BY <1>1, AppendIs
  <2>7. ClientRecord(it).out = out
    BY <1>2, <1>4, <2>2
  <2> HIDE DEF out
  <2> QED BY <1>4, <2>4, <2>5, <2>6, <2>7
<1>5. CASE it.cur # << >> /\ it.cur # <<Item(s[Num(it.out) + 1])>>
  <2>1. PICK v : it.cur = <<Beginning(v)>>
    BY <1>5 DEF Fine
  <2>2. ClientDecode(it.cur) = <<"cut", v>>
    <3>1. /\ Len(<<Beginning(v)>>) = 1 /\ <<Beginning(v)>>[1] = Beginning(v)
          /\ Beginning(v)[1] = "cut" /\ Beginning(v)[2] = v
      BY DEF Beginning
    <3> QED BY <2>1, <3>1 DEF ClientDecode
  <2>3. ClientRecord(it).out = Append(it.out, <<"cut", v>>)
    BY <1>2, <1>5, <2>2
  <2> QED BY <2>1, <2>3
<1> QED BY <1>3, <1>4, <1>5

\* At the end the iterator has yielded what was sent, or an error.
LEMMA LastEnds ==
  ASSUME DInv, reader = "reading", fate # "panicked", iter.closed \/ (net = << >> /\ end # "open")
  PROVE  Ended(ClientLast(iter).out, sent, fate, producer)
<1>0. StateOK /\ IterOK(iter) /\ IsSeq(sent) /\ ControlOK
  BY InSeq DEF DInv, IInv, StateOK
<1>1. StateOK /\ IterOK(iter) /\ IsSeq(sent) /\ Len(sent) \in Nat /\ ControlOK
  BY <1>0 DEF IsSeq
<1>2. PICK run : /\ Follows(run, iter, Ahead)
                 /\ \A k \in 0..Len(Ahead) : Fine(run[k], sent, fate, producer, end)
                 /\ Arrives(fate, end) => Complete(run[Len(Ahead)], sent, fate, producer)
  BY DEF DInv, TrackOK, Track
<1>3. Len(Ahead) \in Nat
  BY AheadIs DEF DInv, IsSeq
<1>4. Fine(iter, sent, fate, producer, end)
  <2>1. 0 \in 0..Len(Ahead) /\ run[0] = iter
    BY <1>2, <1>3 DEF Follows
  <2> QED BY <1>2, <2>1
<1>5. IsSeq(iter.out) /\ Delivers(iter.out, sent) /\ Plain(iter.out, fate)
  BY <1>4 DEF Fine, IterOK, IsSeq
<1>6. CASE iter.closed
  <2>1. conf.format = "multipart" /\ ClientLast(iter) = iter
    BY <1>1, <1>6, LastIs DEF IterOK
  <2>2. Num(iter.out) = Len(sent) /\ producer \in {"closed", "gone"}
    BY <1>4, <1>6 DEF Fine
  <2> QED BY <1>1, <1>5, <2>1, <2>2, CleanEnds
<1>7. CASE ~iter.closed /\ end = "error"
  <2>0. end # "eof"
    BY <1>7
  <2>1. CASE conf.format = "lines"
    <3>1. ClientLast(iter).out = Append(ClientRecord(iter).out, <<"error", "">>)
      BY <1>1, <1>7, <2>0, <2>1, LastIs
    <3>2. LET out == ClientRecord(iter).out IN
          \/ iter.cur = << >> /\ out = iter.out
          \/ /\ iter.cur = <<Item(sent[Num(iter.out) + 1])>>
             /\ IsSeq(out) /\ Delivers(out, sent) /\ Plain(out, fate)
             /\ Num(out) = Num(iter.out) + 1
          \/ \E v : iter.cur = <<Beginning(v)>> /\ out = Append(iter.out, <<"cut", v>>)
      BY <1>1, <1>4, <2>1, RecordYields DEF Separated
    <3> DEFINE out == ClientRecord(iter).out
    <3>3. CASE IsSeq(out) /\ Delivers(out, sent) /\ Plain(out, fate)
      BY <1>1, <3>1, <3>3, ErrorEnds
    <3>4. CASE \E v : out = Append(iter.out, <<"cut", v>>)
      <4>1. PICK v : out = Append(iter.out, <<"cut", v>>)
        BY <3>4
      <4> DEFINE y == <<"cut", v>>
      <4>2. (y[1] = "cut" \/ y[1] = "short") /\ ClientRecord(iter).out = Append(iter.out, y)
        BY <4>1
      <4> HIDE DEF y
      <4>3. Ended(Append(Append(iter.out, y), <<"error", "">>), sent, fate, producer)
        BY <1>1, <1>5, <4>2, ShortEnds
      <4> QED BY <3>1, <4>2, <4>3
    <3> QED BY <1>5, <3>2, <3>3, <3>4
  <2>2. CASE conf.format \in {"rs", "sse"}
    <3>1. ClientLast(iter).out = Append(iter.out, <<"error", "">>)
      BY <1>1, <1>7, <2>0, <2>2, LastIs
    <3>2. Ended(Append(iter.out, <<"error", "">>), sent, fate, producer)
      BY <1>1, <1>5, ErrorEnds
    <3> QED BY <3>1, <3>2
  <2>3. CASE conf.format = "multipart"
    <3>1. ClientLast(iter).out = Append(ClientBody(iter, FALSE).out, <<"error", "">>)
      BY <1>1, <1>7, <2>0, <2>3, LastIs
    <3>2. \/ ClientBody(iter, FALSE).out = iter.out
          \/ ClientBody(iter, FALSE).out = Append(iter.out, <<"short", iter.cur[1][2]>>)
      BY <1>1, BodyIs
    <3>3. <<"short", iter.cur[1][2]>>[1] \in {"cut", "short"}
      OBVIOUS
    <3>4. Ended(Append(iter.out, <<"error", "">>), sent, fate, producer)
      BY <1>1, <1>5, ErrorEnds
    <3> DEFINE y == <<"short", iter.cur[1][2]>>
    <3>5. y[1] = "cut" \/ y[1] = "short"
      BY <3>3
    <3> HIDE DEF y
    <3>6. Ended(Append(Append(iter.out, y), <<"error", "">>), sent, fate, producer)
      BY <1>1, <1>5, <3>5, ShortEnds
    <3>7. ClientBody(iter, FALSE).out = iter.out \/ ClientBody(iter, FALSE).out = Append(iter.out, y)
      BY <3>2 DEF y
    <3> QED BY <3>1, <3>4, <3>6, <3>7
  <2> QED BY <1>1, <2>1, <2>2, <2>3, ConfIs
<1>8. CASE ~iter.closed /\ end = "eof"
  <2>1. Ahead = << >>
    BY <1>8 DEF Ahead
  <2>2. Len(Ahead) = 0 /\ run[Len(Ahead)] = iter
    <3>1. Len(Ahead) = 0
      BY <2>1, EmptyIs
    <3> QED BY <1>2, <3>1 DEF Follows
  <2>3. producer = "gone" /\ (fate = "whole" \/ (conf.format = "multipart" /\ Down))
    <3>1. CASE Down
      BY <1>1, <1>8, <3>1 DEF ControlOK
    <3>2. CASE Up
      BY <1>1, <1>8, <3>2 DEF ControlOK
    <3> QED BY <1>1, <3>1, <3>2, ConfIs DEF Up, Down
  <2>4. Complete(iter, sent, fate, producer)
    <3>1. Arrives(fate, end)
      BY <1>8, <2>3 DEF Arrives, Up, Down
    <3> QED BY <1>2, <2>2, <3>1
  <2>5. Num(iter.out) \in 0..Len(sent)
    BY <1>5 DEF Delivers
  <2>6. CASE Separated
    <3>1. ClientLast(iter) = ClientRecord(iter)
      BY <1>1, <1>8, <2>6, LastIs
    <3>2. fate = "whole"
      BY <2>3, <2>6 DEF Separated
    <3> DEFINE out == ClientRecord(iter).out
    <3>3. \/ iter.cur = << >> /\ out = iter.out /\ Num(iter.out) = Len(sent)
          \/ /\ IsSeq(out) /\ Delivers(out, sent) /\ Plain(out, fate) /\ Num(out) = Len(sent)
      <4>0. \/ iter.cur = << >> /\ out = iter.out
            \/ /\ iter.cur = <<Item(sent[Num(iter.out) + 1])>>
               /\ IsSeq(out) /\ Delivers(out, sent) /\ Plain(out, fate)
               /\ Num(out) = Num(iter.out) + 1
            \/ \E v : iter.cur = <<Beginning(v)>> /\ out = Append(iter.out, <<"cut", v>>)
        BY <1>1, <1>4, <2>6, RecordYields
      <4> HIDE DEF out
      <4>1. \/ Num(iter.out) = Len(sent) /\ iter.cur = << >>
            \/ Num(iter.out) + 1 = Len(sent) /\ iter.cur = <<Item(sent[Len(sent)])>>
        <5>1. CASE conf.format = "lines"
          BY <2>4, <5>1 DEF Complete
        <5>2. CASE conf.format = "rs"
          <6>1. \/ Len(sent) = 0 /\ iter.cur = << >>
                \/ Num(iter.out) + 1 = Len(sent) /\ iter.cur = <<Item(sent[Len(sent)])>>
            BY <2>3, <2>4, <5>2 DEF Complete
          <6> QED BY <2>5, <6>1
        <5> QED BY <2>6, <5>1, <5>2 DEF Separated
      <4>2. CASE iter.cur = << >>
        <5>1. \A x : << >> # <<x>>
          OBVIOUS
        <5> QED BY <4>0, <4>1, <4>2, <5>1
      <4>3. CASE iter.cur = <<Item(sent[Len(sent)])>> /\ Num(iter.out) + 1 = Len(sent)
        <5>1. \A x : << >> # <<x>>
          OBVIOUS
        <5>2. \A v, w : <<Item(v)>> # <<Beginning(w)>>
          <6>1. ASSUME NEW v, NEW w PROVE <<Item(v)>> # <<Beginning(w)>>
            <7>1. <<Item(v)>>[1][1] = "item" /\ <<Beginning(w)>>[1][1] = "cut"
              BY DEF Item, Beginning
            <7> QED BY <7>1
          <6> QED BY <6>1
        <5> QED BY <4>0, <4>3, <5>1, <5>2
      <4> QED BY <4>1, <4>2, <4>3
    <3> HIDE DEF out
    <3>4. Ended(out, sent, fate, producer)
      <4>1. CASE out = iter.out /\ Num(iter.out) = Len(sent)
        BY <1>1, <1>5, <2>3, <3>2, <4>1, CleanEnds
      <4>2. CASE IsSeq(out) /\ Delivers(out, sent) /\ Plain(out, fate) /\ Num(out) = Len(sent)
        BY <1>1, <2>3, <3>2, <4>2, CleanEnds
      <4> QED BY <3>3, <4>1, <4>2
    <3> QED BY <3>1, <3>4 DEF out
  <2>7. CASE conf.format = "sse"
    <3>1. iter.have = FALSE /\ Num(iter.out) = Len(sent) /\ fate = "whole"
      BY <2>3, <2>4, <2>7 DEF Complete
    <3>2. ClientLast(iter) = iter
      <4>1. ClientLast(iter) = ClientEvent(iter)
        BY <1>1, <1>8, <2>7, LastIs
      <4> QED BY <3>1, <4>1 DEF ClientEvent
    <3> QED BY <1>1, <1>5, <2>3, <3>1, <3>2, CleanEnds
  <2>8. CASE conf.format = "multipart"
    <3>1. ClientLast(iter) = ClientBody(iter, FALSE)
      BY <1>1, <1>8, <2>8, LastIs
    <3>2. ClientBody(iter, FALSE).out = IF iter.cur = << >> THEN iter.out
                                        ELSE Append(iter.out, <<"short", iter.cur[1][2]>>)
      BY <1>1, BodyIs
    <3>3. CASE iter.cur = << >>
      <4>1. Num(iter.out) = Len(sent)
        <5>1. \A x : << >> # <<x>>
          OBVIOUS
        <5> QED BY <2>4, <2>8, <3>3, <5>1 DEF Complete
      <4>2. ClientLast(iter).out = iter.out
        BY <3>1, <3>2, <3>3
      <4> QED BY <1>1, <1>5, <2>3, <2>8, <4>1, <4>2, CleanEnds
    <3>4. CASE iter.cur # << >>
      <4> DEFINE y == <<"short", iter.cur[1][2]>>
      <4>1. y[1] = "short"
        OBVIOUS
      <4>2. ClientLast(iter).out = Append(iter.out, y)
        BY <3>1, <3>2, <3>4
      <4> HIDE DEF y
      <4>3. Ended(Append(iter.out, y), sent, fate, producer)
        BY <1>1, <1>5, <2>8, <4>1, CleanEnds
      <4> QED BY <4>2, <4>3
    <3> QED BY <3>3, <3>4
  <2> QED BY <1>1, <2>6, <2>7, <2>8, ConfIs DEF Separated
<1> QED BY <1>1, <1>6, <1>7, <1>8 DEF StateOK

\* The end is met: what was tracked has ended as it should.
LEMMA FinishedKept ==
  ASSUME DInv, Read, Finished
  PROVE  BytesOK' /\ TrackOK' /\ EndedOK'
<1>1. /\ conf' = conf /\ fate' = fate /\ producer' = producer /\ buffer' = buffer /\ sent' = sent
      /\ reader = "reading"
  BY ReadSteps DEF DInv
<1>2. /\ iter.closed \/ (net = << >> /\ end # "open")
      /\ net' = net /\ reader' = "done" /\ iter' = ClientLast(iter)
  BY DEF Finished
<1>3. BytesOK'
  <2>1. IsSeq(net') /\ IsSeq(buffer')
    BY <1>1, <1>2 DEF DInv, BytesOK
  <2> QED BY <2>1 DEF BytesOK, IsSeq
<1>4. TrackOK'
  BY <1>2 DEF TrackOK
<1>5. fate # "panicked" => Ended(ClientLast(iter).out, sent, fate, producer)
  BY <1>1, <1>2, LastEnds
<1>6. ClientLast(iter).out = iter'.out /\ sent = sent' /\ fate = fate' /\ producer = producer'
  BY <1>1, <1>2
<1>7. EndedOK'
  BY <1>1, <1>5, <1>6, EndedAfter
<1> QED BY <1>3, <1>4, <1>7

-----------------------------------------------------------------------------
(* The invariant is inductive *)

\* Nothing has been sent, and nothing yielded.
LEMMA InitDelivers == Init => DInv
<1> SUFFICES ASSUME Init PROVE DInv
  OBVIOUS
<1>1. IInv
  BY InitOK
<1>2. IsSeq(<< >>) /\ Len(<< >>) = 0
  BY EmptyIs
<1>3. net = << >> /\ buffer = << >> /\ sent = << >> /\ iter = Unread /\ producer = "fresh"
  BY DEF Init
<1>4. BytesOK
  BY <1>2, <1>3 DEF BytesOK
<1>5. ControlOK
  BY DEF Init, ControlOK
<1>6. EndedOK
  BY DEF Init, EndedOK
<1>7. TrackOK
  <2>1. Ahead = << >>
    <3>1. << >> \o << >> = << >>
      BY <1>2, ConcatMore
    <3> QED BY <1>3, <3>1 DEF Ahead
  <2>2. /\ Unread.out = << >> /\ Unread.cur = << >> /\ Unread.closed = FALSE
        /\ Unread.have = FALSE /\ Unread.ev = NoEvent
    BY DEF Unread
  <2>3. Num(Unread.out) = 0 /\ ValuesOf(Unread.out) = << >>
    BY <1>2, <2>2, NoValues DEF Num
  <2>4. Delivers(Unread.out, << >>)
    <3>1. << >> = [k \in 1..0 |-> Arriving(<< >>[k])]
      OBVIOUS
    <3>2. 0 \in 0..Len(<< >>)
      BY <1>2
    <3> QED BY <2>3, <3>1, <3>2 DEF Delivers
  <2>5. Plain(Unread.out, fate)
    BY <1>2, <2>2 DEF Plain
  <2>6. IterOK(Unread)
    BY <1>1, <1>3 DEF IInv
  <2>7. Fine(Unread, << >>, fate, producer, end)
    BY <2>2, <2>4, <2>5, <2>6 DEF Fine
  <2>8. Complete(Unread, << >>, fate, producer)
    BY <1>2, <1>3, <2>2, <2>3 DEF Complete
  <2> DEFINE run == [k \in 0..0 |-> Unread]
  <2>9. run[0] = Unread
    OBVIOUS
  <2> HIDE DEF run
  <2>10. Follows(run, Unread, << >>)
    BY <1>2, <2>9 DEF Follows
  <2>11. \A k \in 0..Len(<< >>) : Fine(run[k], << >>, fate, producer, end)
    BY <1>2, <2>7, <2>9
  <2>12. Complete(run[Len(<< >>)], << >>, fate, producer)
    BY <1>2, <2>8, <2>9
  <2>13. Track(Unread, << >>, << >>, fate, producer, end)
    BY <2>10, <2>11, <2>12 DEF Track
  <2> QED BY <1>3, <2>1, <2>13 DEF TrackOK
<1> QED BY <1>1, <1>4, <1>5, <1>6, <1>7 DEF DInv

\* And every step keeps the invariant.
LEMMA DeliveryInductive == DInv /\ [Next]_vars => DInv'
<1> SUFFICES ASSUME DInv, [Next]_vars PROVE DInv'
  OBVIOUS
<1>1. IInv' /\ ControlOK'
  BY Inductive, ControlKept DEF DInv, IInv
<1>2. BytesOK' /\ TrackOK' /\ EndedOK'
  <2>1. CASE Read
    <3>1. Taken \/ Finished
      BY <2>1, ReadSteps DEF DInv
    <3> QED BY <2>1, <3>1, TakenKept, FinishedKept
  <2>2. CASE ~Read
    BY <2>2, OthersKept DEF Next
  <2> QED BY <2>1, <2>2
<1> QED BY <1>1, <1>2 DEF DInv

\* So it always holds.
LEMMA DeliveryHolds == Spec => []DInv
BY InitDelivers, DeliveryInductive, PTL DEF Spec

-----------------------------------------------------------------------------
(* The theorems *)

\* What the invariant says of the yields, whether the iteration has ended or not.
LEMMA YieldsAre ==
  ASSUME DInv, fate # "panicked"
  PROVE  /\ Delivers(iter.out, sent)
         /\ DOMAIN iter.out = 1..Len(iter.out) /\ Len(iter.out) \in Nat
         /\ \A k \in 1..Len(iter.out) :
              /\ iter.out[k][1] # "bad"
              /\ iter.out[k][1] = "error" => k = Len(iter.out)
              /\ iter.out[k][1] = "cut" /\ fate # "failed" /\ k < Len(iter.out) =>
                   iter.out[k + 1][1] = "error"
<1>3. DOMAIN iter.out = 1..Len(iter.out) /\ Len(iter.out) \in Nat
  <2> DEFINE n == Len(iter.out)
  <2>1. iter.out = [k \in 1..n |-> iter.out[k]] /\ n \in Nat
    BY DEF DInv, IInv, IterOK
  <2> HIDE DEF n
  <2>2. DOMAIN [k \in 1..n |-> iter.out[k]] = 1..n
    OBVIOUS
  <2> QED BY <2>1, <2>2 DEF n
<1>1. CASE reader # "done"
  <2>1. PICK run : /\ Follows(run, iter, Ahead)
                   /\ \A k \in 0..Len(Ahead) : Fine(run[k], sent, fate, producer, end)
    BY <1>1 DEF DInv, TrackOK, Track
  <2>0. Len(Ahead) \in Nat
    BY AheadIs DEF DInv, IsSeq
  <2>2. 0 \in 0..Len(Ahead) /\ run[0] = iter
    BY <2>0, <2>1 DEF Follows
  <2>3. Delivers(iter.out, sent) /\ Plain(iter.out, fate)
    BY <2>1, <2>2 DEF Fine
  <2>4. \A k \in 1..Len(iter.out) :
          iter.out[k][1] \notin {"bad", "error"} /\ (iter.out[k][1] = "cut" => fate = "failed")
    BY <2>3 DEF Plain
  <2> QED BY <2>3, <2>4, <1>3
<1>2. CASE reader = "done"
  BY <1>2, <1>3 DEF DInv, EndedOK, Ended
<1> QED BY <1>1, <1>2

\* What has been yielded is what has been sent, as Faithful has it.
LEMMA GotIs ==
  ASSUME DInv, Delivers(iter.out, sent)
  PROVE  InTurn /\ Len(Got) = Num(iter.out)
<1> DEFINE n == Num(iter.out)
           m == Len(sent)
<1>1. sent \in Seq(Values)
  BY DEF DInv, IInv, StateOK
<1>2. m \in Nat /\ \A k \in 1..m : sent[k] \in Values
  BY <1>1
<1>3. n \in 0..m /\ Got = [k \in 1..n |-> Arriving(sent[k])] /\ Len(Got) = n
  BY DEF Delivers, Got, yields, Num
<1> HIDE DEF n, m
<1>4. DOMAIN Got = 1..n /\ \A k \in 1..n : k \in 1..m /\ Got[k] = Arriving(sent[k])
  BY <1>2, <1>3
<1>5. \A k \in DOMAIN Got : ArrivedAs(sent[k], Got[k])
  BY <1>2, <1>4, ArrivingArrives
<1> QED BY <1>2, <1>3, <1>5 DEF InTurn, n, m

\* For any values, any number of them and any window: what an iterator yields
\* are the values that were sent, in their order, none twice and none made up;
\* the data of an event is the text that was sent, but for newlines at its
\* edges, which may be lost, and its id or type the last line of it; a value cut
\* in two comes only before the error that ends the stream (bind.go:430,
\* runtime.go:538).
THEOREM DeliveryFaithful == Spec => []Faithful
<1>1. DInv => Faithful
  <2> SUFFICES ASSUME DInv, fate # "panicked"
               PROVE  /\ InTurn
                      /\ OfKind("bad") = {}
                      /\ iter.closed => conf.format = "multipart"
                      /\ \A k \in DOMAIN yields :
                           /\ yields[k][1] = "error" => k = Len(yields)
                           /\ yields[k][1] = "cut" /\ fate # "failed" /\ k < Len(yields) =>
                                yields[k + 1][1] = "error"
    BY DEF Faithful
  <2>1. /\ Delivers(iter.out, sent)
        /\ DOMAIN iter.out = 1..Len(iter.out)
        /\ \A k \in 1..Len(iter.out) :
             /\ iter.out[k][1] # "bad"
             /\ iter.out[k][1] = "error" => k = Len(iter.out)
             /\ iter.out[k][1] = "cut" /\ fate # "failed" /\ k < Len(iter.out) =>
                  iter.out[k + 1][1] = "error"
    BY YieldsAre
  <2>2. InTurn
    BY <2>1, GotIs
  <2>3. OfKind("bad") = {}
    BY <2>1 DEF OfKind, yields
  <2>4. iter.closed => conf.format = "multipart"
    BY DEF DInv, IInv, IterOK
  <2> QED BY <2>1, <2>2, <2>3, <2>4 DEF yields
<1> QED BY <1>1, DeliveryHolds, PTL

\* And likewise an iteration that ends without an error, and was not broken
\* off, has been given every value: a sequence that fails, an aborted handler
\* or a lost connection never looks like the end of the stream
\* (runtime.go:500, stream.go:418).
THEOREM CleanEndWhole == Spec => []CleanEndIsWhole
<1>1. DInv => CleanEndIsWhole
  <2> SUFFICES ASSUME DInv, reader = "done", fate # "panicked", OfKind("error") = {},
                      conf.format = "multipart" => OfKind("short") = {} /\ fate # "failed"
               PROVE  InTurn /\ Len(Got) = Len(sent) /\ (fate = "whole" \/ conf.format = "multipart")
    BY DEF CleanEndIsWhole
  <2>1. DOMAIN iter.out = 1..Len(iter.out) /\ Delivers(iter.out, sent)
    BY YieldsAre
  <2>2. /\ \A k \in 1..Len(iter.out) : iter.out[k][1] # "error"
        /\ conf.format = "multipart" => \A k \in 1..Len(iter.out) : iter.out[k][1] # "short"
    BY <2>1 DEF OfKind, yields
  <2>3. Num(iter.out) = Len(sent) /\ (fate = "whole" \/ conf.format = "multipart")
    BY <2>2 DEF DInv, EndedOK, Ended
  <2>4. InTurn /\ Len(Got) = Len(sent)
    BY <2>1, <2>3, GotIs
  <2> QED BY <2>3, <2>4
<1> QED BY <1>1, DeliveryHolds, PTL

=============================================================================
