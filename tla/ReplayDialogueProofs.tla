------------------------ MODULE ReplayDialogueProofs ------------------------
(***************************************************************************)
(* Proofs about Replay as a dialogue: what is under way between the client *)
(* and the session, in both directions, at every point of it.  The content *)
(* is followed line by line, the commands and replies one by one.          *)
(***************************************************************************)
EXTENDS ReplayProofs

-----------------------------------------------------------------------------
(* Lines and the text they make.                                           *)

Ended(l) == [i \in DOMAIN l |-> l[i] \o CRLF]

(* The text of whole lines.                                                *)
Whole(l) == FlattenSeq(Ended(l))

LEMMA LineEndTyped ==
  ASSUME NEW E, CR \in E, LF \in E PROVE CRLF \in Seq(E)
BY DEF CRLF

LEMMA WholeEmpty == Whole(<<>>) = <<>>
<1> DEFINE e == <<>>
           g == Ended(e)
<1>1. DOMAIN e = 1..0 /\ \A i : i \notin 1..0
  BY EmptySeq, LenProperties
<1>2. g \in [1..0 -> {}]
  BY <1>1 DEF Ended
<1>3. Whole(e) = FlattenSeq(g)
  BY DEF Whole
<1> HIDE DEF g
<1> QED
  BY <1>2, <1>3, EmptyFunction, FlattenEmpty

LEMMA WholeAppend ==
  ASSUME NEW E, CR \in E, LF \in E, NEW l \in Seq(Seq(E)), NEW x \in Seq(E)
  PROVE  /\ Whole(l) \in Seq(E)
         /\ Whole(Append(l, x)) = Whole(l) \o (x \o CRLF)
<1> DEFINE n == Len(l)
           u == Append(l, x)
           f == Ended(l)
           g == Ended(u)
           y == x \o CRLF
<1>1. n \in Nat /\ DOMAIN l = 1..n /\ \A i \in 1..n : l[i] \in Seq(E)
  BY LenProperties, ElementOfSeq
<1>2. CRLF \in Seq(E)
  BY LineEndTyped
<1> HIDE DEF CRLF
<1>3. f \in [1..n -> Seq(E)]
  BY <1>1, <1>2, ConcatProperties DEF Ended
<1>4. y \in Seq(E)
  BY <1>2, ConcatProperties
<1>5. u \in Seq(Seq(E)) /\ Len(u) = n + 1
      /\ (\A i \in 1..n : u[i] = l[i]) /\ u[n + 1] = x
  BY AppendProperties
<1> HIDE DEF u
<1>6. DOMAIN u = 1..n + 1
  BY <1>5, LenProperties
<1>7. g = [i \in 1..n + 1 |-> IF i <= n THEN f[i] ELSE y]
  <2> SUFFICES ASSUME NEW i \in 1..n + 1
               PROVE  u[i] \o CRLF = IF i <= n THEN f[i] ELSE y
    BY <1>6 DEF Ended
  <2>0. i \in 1..n \/ (i = n + 1 /\ ~(i <= n))
    <3> HIDE DEF n
    <3> QED
      BY <1>1
  <2>1. CASE i \in 1..n
    <3>1. i <= n /\ u[i] = l[i] /\ i \in DOMAIN l
      <4> HIDE DEF n
      <4> QED
        BY <1>1, <1>5, <2>1
    <3>2. f[i] = l[i] \o CRLF
      BY <3>1 DEF Ended
    <3> QED
      BY <3>1, <3>2
  <2>2. CASE i = n + 1 /\ ~(i <= n)
    BY <1>5, <2>2
  <2> QED
    BY <2>0, <2>1, <2>2
<1> HIDE DEF f, g, n, y
<1>8. g \in [1..n + 1 -> Seq(E)] /\ (\A i \in 1..n : g[i] = f[i]) /\ g[n + 1] = y
  BY <1>1, <1>3, <1>4, <1>7
<1>9. g = Append(f, y)
  BY <1>1, <1>3, <1>4, <1>8, AppendFunction
<1>10. f \in Seq(Seq(E))
  BY <1>1, <1>3, FunctionIsSeq
<1>11. FlattenSeq(f) \in Seq(E) /\ FlattenSeq(Append(f, y)) = FlattenSeq(f) \o y
  BY <1>4, <1>10, FlattenProperties
<1>12. Whole(l) = FlattenSeq(f) /\ Whole(u) = FlattenSeq(g)
  BY DEF Whole, f, g
<1> QED
  BY <1>9, <1>11, <1>12 DEF u, y

LEMMA WholeConcat ==
  ASSUME NEW E, CR \in E, LF \in E, NEW s \in Seq(Seq(E)), NEW t \in Seq(Seq(E))
  PROVE  Whole(s \o t) = Whole(s) \o Whole(t)
<1> DEFINE T == Seq(Seq(E))
           A == {u \in T : Whole(s \o u) = Whole(s) \o Whole(u)}
<1>1. <<>> \in A
  <2>1. Whole(s) \in Seq(E) /\ <<>> \in T
    BY EmptySeq, WholeAppend
  <2> QED
    BY <2>1, ConcatEmptySeq, WholeEmpty
<1>2. ASSUME NEW u \in T \cap A, NEW x \in Seq(E) PROVE Append(u, x) \in A
  <2>1. Append(u, x) \in T /\ s \o u \in T /\ s \o Append(u, x) = Append(s \o u, x)
    BY AppendProperties, ConcatProperties, AppendConcat, SMTT(30)
  <2> DEFINE y == x \o CRLF
  <2>2. y \in Seq(E)
    <3>1. CRLF \in Seq(E)
      BY LineEndTyped
    <3> QED
      BY <3>1, ConcatProperties
  <2>3. /\ Whole(s) \in Seq(E) /\ Whole(u) \in Seq(E)
        /\ Whole(Append(s \o u, x)) = Whole(s \o u) \o y
        /\ Whole(Append(u, x)) = Whole(u) \o y
    BY <2>1, WholeAppend
  <2> HIDE DEF y
  <2>4. (Whole(s) \o Whole(u)) \o y = Whole(s) \o (Whole(u) \o y)
    <3> DEFINE a == Whole(s)
               b == Whole(u)
    <3>1. a \in Seq(E) /\ b \in Seq(E)
      BY <2>3
    <3> HIDE DEF a, b, A, T
    <3>2. (a \o b) \o y = a \o (b \o y)
      BY <2>2, <3>1, ConcatAssociative, SMTT(30)
    <3> QED
      BY <3>2 DEF a, b
  <2> QED
    BY <2>1, <2>3, <2>4
<1>3. T \subseteq A
  <2> HIDE DEF A
  <2> QED
    BY <1>1, <1>2, SeqInductive
<1> QED
  BY <1>3

LEMMA WholeOne ==
  ASSUME NEW E, CR \in E, LF \in E, NEW x \in Seq(E)
  PROVE  Whole(<<x>>) = x \o CRLF
<1>1. <<>> \in Seq(Seq(E)) /\ Append(<<>>, x) = <<x>>
  BY EmptySeq
<1>2. x \o CRLF \in Seq(E)
  <2>1. CRLF \in Seq(E)
    BY LineEndTyped
  <2> QED
    BY <2>1, ConcatProperties
<1>3. Whole(Append(<<>>, x)) = <<>> \o (x \o CRLF)
  BY <1>1, WholeAppend, WholeEmpty
<1> QED
  BY <1>1, <1>2, <1>3, ConcatEmptySeq

(* What the client sends after its 354 for lines that it has yet to send.  *)
StuffAll(r) == [i \in DOMAIN r |-> Stuffed(r[i])]
Terminator == <<".">> \o CRLF
Stream(r) == Whole(StuffAll(r)) \o Terminator

LEMMA StuffedIn ==
  ASSUME NEW E, "." \in E, NEW t \in Seq(E)
  PROVE  Stuffed(t) \in Seq(E)
<1>1. <<".">> \in Seq(E)
  BY Single
<1>2. <<".">> \o t \in Seq(E)
  BY <1>1, ConcatProperties
<1> QED
  BY <1>2 DEF Stuffed

LEMMA StuffAllIn ==
  ASSUME NEW E, "." \in E, NEW r \in Seq(Seq(E))
  PROVE  /\ StuffAll(r) \in Seq(Seq(E)) /\ Len(StuffAll(r)) = Len(r)
         /\ \A i \in 1..Len(r) : StuffAll(r)[i] = Stuffed(r[i])
<1> DEFINE n == Len(r)
           f == StuffAll(r)
<1>1. n \in Nat /\ DOMAIN r = 1..n /\ \A i \in 1..n : r[i] \in Seq(E)
  BY LenProperties, ElementOfSeq
<1>2. f \in [1..n -> Seq(E)] /\ \A i \in 1..n : f[i] = Stuffed(r[i])
  BY <1>1, StuffedIn DEF StuffAll
<1> HIDE DEF n, f
<1>3. f \in Seq(Seq(E)) /\ Len(f) = n
  BY <1>1, <1>2, FunctionIsSeq
<1> QED
  BY <1>2, <1>3 DEF n, f

LEMMA StuffHead ==
  ASSUME NEW E, "." \in E, NEW r \in Seq(Seq(E)), r # <<>>
  PROVE  StuffAll(r) = <<Stuffed(Head(r))>> \o StuffAll(Tail(r))
<1> DEFINE h == Stuffed(Head(r))
           t == StuffAll(Tail(r))
           o == <<h>>
           f == StuffAll(r)
<1>1. /\ Head(r) \in Seq(E) /\ Head(r) = r[1] /\ Tail(r) \in Seq(Seq(E))
      /\ Len(r) \in Nat \ {0} /\ Len(Tail(r)) = Len(r) - 1
      /\ \A i \in 1..Len(r) - 1 : Tail(r)[i] = r[i + 1]
  BY HeadTailProperties, EmptySeq
<1>2. h \in Seq(E) /\ o \in Seq(Seq(E)) /\ Len(o) = 1 /\ o[1] = h
  BY <1>1, StuffedIn, Single
<1>3. /\ t \in Seq(Seq(E)) /\ Len(t) = Len(r) - 1
      /\ \A i \in 1..Len(r) - 1 : t[i] = Stuffed(Tail(r)[i])
  BY <1>1, StuffAllIn
<1>4. /\ f \in Seq(Seq(E)) /\ Len(f) = Len(r)
      /\ \A i \in 1..Len(r) : f[i] = Stuffed(r[i])
  BY StuffAllIn
<1> HIDE DEF f, t, o
<1> DEFINE c == o \o t
<1>5. /\ c \in Seq(Seq(E)) /\ Len(c) = Len(o) + Len(t)
      /\ \A i \in 1..Len(o) + Len(t) : c[i] = IF i <= Len(o) THEN o[i] ELSE t[i - Len(o)]
  BY <1>2, <1>3, ConcatProperties
<1> HIDE DEF c
<1>6. ASSUME NEW i \in 1..Len(f) PROVE f[i] = c[i]
  <2>1. CASE i = 1
    BY <1>1, <1>2, <1>3, <1>4, <1>5, <2>1
  <2>2. CASE i # 1
    <3>1. i - 1 \in 1..Len(r) - 1 /\ (i - 1) + 1 = i
      BY <1>1, <1>4, <2>2
    <3>2. c[i] = t[i - 1]
      BY <1>1, <1>2, <1>3, <1>4, <1>5, <2>2
    <3>3. t[i - 1] = Stuffed(r[i])
      BY <1>1, <1>3, <3>1
    <3> QED
      BY <1>4, <3>2, <3>3
  <2> QED
    BY <2>1, <2>2
<1>7. f = c
  BY <1>1, <1>2, <1>3, <1>4, <1>5, <1>6, SeqEqual
<1> QED
  BY <1>7 DEF f, c, o, t

LEMMA StreamIn ==
  ASSUME NEW E, CR \in E, LF \in E, "." \in E, NEW r \in Seq(Seq(E))
  PROVE  Stream(r) \in Seq(E) /\ Terminator \in Seq(E)
<1>1. CRLF \in Seq(E) /\ <<".">> \in Seq(E)
  BY LineEndTyped, Single
<1>2. Terminator \in Seq(E)
  <2> DEFINE d == <<".">>
  <2> HIDE DEF d, CRLF
  <2>1. d \o CRLF \in Seq(E)
    BY <1>1, ConcatProperties DEF d
  <2> QED
    BY <2>1 DEF Terminator, d
<1>3. Whole(StuffAll(r)) \in Seq(E)
  BY StuffAllIn, WholeAppend, EmptySeq
<1> QED
  BY <1>2, <1>3, ConcatProperties DEF Stream

LEMMA StreamHead ==
  ASSUME NEW E, CR \in E, LF \in E, "." \in E, NEW r \in Seq(Seq(E)), r # <<>>
  PROVE  Stream(r) = (Stuffed(Head(r)) \o CRLF) \o Stream(Tail(r))
<1> DEFINE h == Stuffed(Head(r))
           t == Tail(r)
           x == h \o CRLF
           w == Whole(StuffAll(t))
<1>1. h \in Seq(E) /\ t \in Seq(Seq(E)) /\ <<h>> \in Seq(Seq(E))
  BY HeadTyped, StuffedIn, Single
<1>2. x \in Seq(E) /\ w \in Seq(E) /\ Terminator \in Seq(E)
  <2>1. CRLF \in Seq(E)
    BY LineEndTyped
  <2>2. StuffAll(t) \in Seq(Seq(E))
    BY <1>1, StuffAllIn
  <2>3. Whole(StuffAll(t)) \in Seq(E)
    BY <2>2, WholeAppend, EmptySeq
  <2> QED
    BY <1>1, <2>1, <2>3, ConcatProperties, StreamIn
<1>3. Whole(StuffAll(r)) = x \o w
  <2>1. StuffAll(r) = <<h>> \o StuffAll(t)
    BY StuffHead
  <2>2. StuffAll(t) \in Seq(Seq(E))
    BY <1>1, StuffAllIn
  <2>3. Whole(<<h>>) = x
    BY <1>1, WholeOne
  <2>4. Whole(<<h>> \o StuffAll(t)) = Whole(<<h>>) \o Whole(StuffAll(t))
    BY <1>1, <2>2, WholeConcat
  <2> QED
    BY <2>1, <2>3, <2>4
<1> HIDE DEF x, w, Terminator
<1>4. (x \o w) \o Terminator = x \o (w \o Terminator)
  BY <1>2, ConcatAssociative, SMTT(30)
<1>5. Stream(r) = (x \o w) \o Terminator /\ Stream(t) = w \o Terminator
  BY <1>3 DEF Stream, w
<1> QED
  BY <1>4, <1>5 DEF x

(* Three parts of a sequence, in either grouping.                          *)
Regroups(s, t, u) == s \o (t \o u) = (s \o t) \o u

LEMMA Associative ==
  ASSUME NEW E, NEW s \in Seq(E), NEW t \in Seq(E), NEW u \in Seq(E)
  PROVE  Regroups(s, t, u)
BY ConcatAssociative, SMTT(30) DEF Regroups

-----------------------------------------------------------------------------
(* The lines of a body.                                                    *)

LEMMA TrimAppend ==
  ASSUME NEW E, NEW s \in Seq(E), NEW c \in E
  PROVE  TrimCR(Append(s, c)) = IF c = CR THEN s ELSE Append(s, c)
<1> DEFINE u == Append(s, c)
<1>1. u # <<>>
  BY AppendProperties
<1>2. Front(u) = s /\ Last(u) = c
  BY FrontAppend
<1> HIDE DEF u
<1>3. TrimCR(u) = IF c = CR THEN s ELSE u
  BY <1>1, <1>2 DEF TrimCR
<1> QED
  BY <1>3 DEF u

LEMMA TrimEmpty == TrimCR(<<>>) = <<>>
BY DEF TrimCR

LEMMA LineEndAppend ==
  ASSUME NEW E, CR \in E, LF \in E, NEW s \in Seq(E)
  PROVE  /\ s \o CRLF = Append(Append(s, CR), LF)
         /\ TrimCR(s \o CRLF) = s \o CRLF
<1>1. Append(s, CR) \in Seq(E) /\ Append(s, CR) = s \o <<CR>>
  BY AppendProperties, AppendIsConcat
<1>2. Append(Append(s, CR), LF) = (s \o <<CR>>) \o <<LF>>
  BY <1>1, AppendIsConcat
<1>3. (s \o <<CR>>) \o <<LF>> = s \o (<<CR>> \o <<LF>>)
  <2>1. <<CR>> \in Seq(E) /\ <<LF>> \in Seq(E)
    BY Single
  <2> QED
    BY <2>1, ConcatAssociative
<1>4. s \o CRLF = Append(Append(s, CR), LF)
  BY <1>2, <1>3, CRLFJoined
<1>5. TrimCR(Append(Append(s, CR), LF)) = Append(Append(s, CR), LF)
  BY <1>1, SymbolsTyped, TrimAppend
<1> QED
  BY <1>4, <1>5

LEMMA ExtendLast ==
  ASSUME NEW E, NEW q \in Seq(Seq(E)), NEW x \in Seq(E), NEW c \in E, c # LF
  PROVE  Extend(Append(q, x), c) = Append(q, Append(x, c))
<1> DEFINE r == Append(q, x)
           v == Append(q, Append(x, c))
           z == Extend(r, c)
           n == Len(q)
<1>1. Append(x, c) \in Seq(E) /\ n \in Nat
  BY AppendProperties, LenProperties
<1>2. /\ r \in Seq(Seq(E)) /\ r # <<>> /\ Len(r) = n + 1
      /\ (\A i \in 1..n : r[i] = q[i]) /\ r[n + 1] = x
  BY AppendProperties
<1>3. /\ v \in Seq(Seq(E)) /\ Len(v) = n + 1
      /\ (\A i \in 1..n : v[i] = q[i]) /\ v[n + 1] = Append(x, c)
  BY <1>1, AppendProperties
<1>4. r \in Parts(E)
  BY <1>2 DEF Parts
<1> HIDE DEF r, n, v
<1>5. /\ z \in Seq(Seq(E)) /\ Len(z) = Len(r)
      /\ \A i \in 1..Len(r) : z[i] = IF i = Len(r) THEN Append(r[i], c) ELSE r[i]
  BY <1>4, ExtendProperties DEF Parts
<1> HIDE DEF z
<1>6. ASSUME NEW i \in 1..Len(z) PROVE z[i] = v[i]
  <2>1. i \in 1..n + 1 /\ (i = n + 1 \/ i \in 1..n)
    BY <1>1, <1>2, <1>5
  <2>2. CASE i = n + 1
    BY <1>2, <1>3, <1>5, <2>1, <2>2
  <2>3. CASE i \in 1..n
    BY <1>1, <1>2, <1>3, <1>5, <2>1, <2>3
  <2> QED
    BY <2>1, <2>2, <2>3
<1>7. z = v
  BY <1>2, <1>3, <1>5, <1>6, SeqEqual
<1> QED
  BY <1>7 DEF z, v, r

(* The lines of s: q, and x that no LF has ended.                          *)
LinesOf(E, s, q, x) ==
  /\ q \in Seq(Seq(E \ {LF})) /\ x \in Seq(E \ {LF})
  /\ Split(s) = Append(q, x)

LEMMA LinesEmpty == ASSUME NEW E PROVE LinesOf(E, <<>>, <<>>, <<>>)
<1>1. Append(<<>>, <<>>) = << <<>> >>
  OBVIOUS
<1> QED
  BY <1>1, EmptySeq, SplitEmpty DEF LinesOf

LEMMA LinesAppend ==
  ASSUME NEW E, NEW s \in Seq(E), NEW c \in E, NEW q, NEW x, LinesOf(E, s, q, x)
  PROVE  IF c = LF THEN LinesOf(E, Append(s, c), Append(q, x), <<>>)
                   ELSE LinesOf(E, Append(s, c), q, Append(x, c))
<1>1. q \in Seq(Seq(E \ {LF})) /\ x \in Seq(E \ {LF}) /\ Split(s) = Append(q, x)
  BY DEF LinesOf
<1>2. Split(Append(s, c)) = Extend(Append(q, x), c)
  BY <1>1, SplitProperties
<1>3. CASE c = LF
  <2>1. Extend(Append(q, x), c) = Append(Append(q, x), <<>>)
    BY <1>3 DEF Extend
  <2>2. Append(q, x) \in Seq(Seq(E \ {LF})) /\ <<>> \in Seq(E \ {LF})
    BY <1>1, AppendProperties, EmptySeq
  <2> QED
    BY <1>2, <1>3, <2>1, <2>2 DEF LinesOf
<1>4. CASE c # LF
  <2>1. c \in E \ {LF}
    BY <1>4
  <2>2. Extend(Append(q, x), c) = Append(q, Append(x, c))
    BY <1>1, <1>4, <2>1, ExtendLast
  <2>3. Append(x, c) \in Seq(E \ {LF})
    BY <1>1, <2>1, AppendProperties
  <2> QED
    BY <1>1, <1>2, <1>4, <2>2, <2>3 DEF LinesOf
<1> QED
  BY <1>3, <1>4

LEMMA LinesExist ==
  ASSUME NEW E, NEW s \in Seq(E) PROVE \E q, x : LinesOf(E, s, q, x)
<1> DEFINE A == {t \in Seq(E) : \E q, x : LinesOf(E, t, q, x)}
<1>1. <<>> \in A
  BY EmptySeq, LinesEmpty
<1>2. ASSUME NEW t \in Seq(E) \cap A, NEW c \in E PROVE Append(t, c) \in A
  <2>1. PICK q, x : LinesOf(E, t, q, x)
    OBVIOUS
  <2>2. Append(t, c) \in Seq(E)
    BY AppendProperties
  <2> QED
    BY <2>1, <2>2, LinesAppend
<1>3. Seq(E) \subseteq A
  <2> HIDE DEF A
  <2> QED
    BY <1>1, <1>2, SeqInductive
<1> QED
  BY <1>3

LEMMA BodyLinesOf ==
  ASSUME NEW E, NEW b, NEW q, NEW x, LinesOf(E, b, q, x)
  PROVE  /\ BodyLines(b) = IF x = <<>> THEN Trimmed(q) ELSE Append(Trimmed(q), x)
         /\ Trimmed(q) \in Seq(Seq(E \ {LF}))
<1> DEFINE F == E \ {LF}
           n == Len(q)
           parts == Split(b)
           lines == [i \in DOMAIN parts |->
                       IF i < Len(parts) THEN TrimCR(parts[i]) ELSE parts[i]]
           f == Trimmed(q)
<1>1. q \in Seq(Seq(F)) /\ x \in Seq(F) /\ parts = Append(q, x)
  BY DEF LinesOf
<1>2. n \in Nat /\ DOMAIN q = 1..n /\ \A i \in 1..n : q[i] \in Seq(F)
  BY <1>1, LenProperties, ElementOfSeq
<1> HIDE DEF F, parts
<1>3. /\ parts \in Seq(Seq(F)) /\ Len(parts) = n + 1
      /\ (\A i \in 1..n : parts[i] = q[i]) /\ parts[n + 1] = x
  BY <1>1, AppendProperties
<1>4. DOMAIN parts = 1..n + 1
  BY <1>3, LenProperties
<1>5. f \in [1..n -> Seq(F)] /\ \A i \in 1..n : f[i] = TrimCR(q[i])
  BY <1>2, TrimTyped DEF Trimmed
<1>6. f \in Seq(Seq(F))
  <2> HIDE DEF f, n
  <2> QED
    BY <1>2, <1>5, FunctionIsSeq
<1>7. lines = [i \in 1..n + 1 |-> IF i < n + 1 THEN TrimCR(parts[i]) ELSE parts[i]]
  BY <1>3, <1>4
<1> HIDE DEF lines, n, f
<1>8. ASSUME NEW i \in 1..n PROVE lines[i] = f[i]
  BY <1>2, <1>3, <1>5, <1>7
<1>9. lines[n + 1] = x
  BY <1>2, <1>3, <1>7
<1>10. lines \in [1..n + 1 -> Seq(F)]
  <2> SUFFICES ASSUME NEW i \in 1..n + 1 PROVE lines[i] \in Seq(F)
    BY <1>7
  <2>1. i \in 1..n \/ i = n + 1
    BY <1>2
  <2> QED
    BY <1>1, <1>5, <1>8, <1>9, <2>1
<1>11. lines = Append(f, x)
  BY <1>1, <1>2, <1>5, <1>8, <1>9, <1>10, AppendFunction, SMTT(30)
<1>12. Front(lines) = f /\ Last(lines) = x
  BY <1>1, <1>6, <1>11, FrontAppend
<1>13. BodyLines(b) = IF Last(lines) = <<>> THEN Front(lines) ELSE lines
  BY DEF BodyLines, lines, parts
<1> QED
  BY <1>6, <1>11, <1>12, <1>13 DEF f, F

(* The lines of a body hold no line end, and no symbol that it does not.   *)
LEMMA BodyLinesIn ==
  ASSUME NEW E, NEW b \in Seq(E)
  PROVE  BodyLines(b) \in Seq(Seq(E \ {LF}))
<1>1. PICK q, x : LinesOf(E, b, q, x)
  BY LinesExist
<1>2. /\ BodyLines(b) = IF x = <<>> THEN Trimmed(q) ELSE Append(Trimmed(q), x)
      /\ Trimmed(q) \in Seq(Seq(E \ {LF})) /\ x \in Seq(E \ {LF})
  <2>1. x \in Seq(E \ {LF})
    BY <1>1 DEF LinesOf
  <2> QED
    BY <1>1, <2>1, BodyLinesOf
<1>3. Append(Trimmed(q), x) \in Seq(Seq(E \ {LF}))
  BY <1>2, AppendProperties
<1> QED
  BY <1>2, <1>3

(* What Normalised makes of the symbols of a body, one by one.             *)
Mark(b, i) ==
  CASE b[i] = LF -> CRLF
    [] b[i] = CR /\ (i < Len(b) /\ b[i + 1] = LF) -> <<>>
    [] OTHER -> <<b[i]>>
Marks(b) == [i \in DOMAIN b |-> Mark(b, i)]
Plain(b) == FlattenSeq(Marks(b))

LEMMA MarkTyped ==
  ASSUME NEW b \in Seq(Symbols), NEW i \in 1..Len(b)
  PROVE  /\ Mark(b, i) \in Seq(Symbols)
         /\ b[i] = LF => Mark(b, i) = CRLF
         /\ b[i] # LF /\ ~(b[i] = CR /\ i < Len(b) /\ b[i + 1] = LF) => Mark(b, i) = <<b[i]>>
         /\ b[i] = CR /\ i < Len(b) /\ b[i + 1] = LF => Mark(b, i) = <<>>
<1>1. b[i] \in Symbols /\ CR # LF
  BY ElementOfSeq, SymbolsTyped
<1>2. <<b[i]>> \in Seq(Symbols) /\ CRLF \in Seq(Symbols) /\ <<>> \in Seq(Symbols)
  BY <1>1, Single, DotTyped, EmptySeq
<1> HIDE DEF CRLF
<1>3. CASE b[i] = LF
  BY <1>1, <1>2, <1>3 DEF Mark
<1>4. CASE b[i] = CR /\ i < Len(b) /\ b[i + 1] = LF
  BY <1>1, <1>2, <1>4 DEF Mark
<1>5. CASE b[i] # LF /\ ~(b[i] = CR /\ i < Len(b) /\ b[i + 1] = LF)
  BY <1>1, <1>2, <1>5 DEF Mark
<1> QED
  BY <1>1, <1>3, <1>4, <1>5

LEMMA MarksTyped ==
  ASSUME NEW b \in Seq(Symbols)
  PROVE  /\ Marks(b) \in Seq(Seq(Symbols)) /\ Marks(b) \in [1..Len(b) -> Seq(Symbols)]
         /\ Len(Marks(b)) = Len(b)
         /\ \A i \in 1..Len(b) : Marks(b)[i] = Mark(b, i)
<1>1. Len(b) \in Nat /\ DOMAIN b = 1..Len(b)
  BY LenProperties
<1>2. /\ Marks(b) \in [1..Len(b) -> Seq(Symbols)]
      /\ \A i \in 1..Len(b) : Marks(b)[i] = Mark(b, i)
  BY <1>1, MarkTyped DEF Marks
<1> QED
  BY <1>1, <1>2, FunctionIsSeq

(* A symbol that is no LF after a CR adds its mark.                        *)
LEMMA MarksAppend ==
  ASSUME NEW b \in Seq(Symbols), NEW c \in Symbols,
         c # LF \/ b = <<>> \/ b[Len(b)] # CR
  PROVE  Marks(Append(b, c)) = Append(Marks(b), IF c = LF THEN CRLF ELSE <<c>>)
<1> DEFINE u == Append(b, c)
           n == Len(b)
           f == Marks(b)
           g == Marks(u)
           y == IF c = LF THEN CRLF ELSE <<c>>
<1>1. /\ u \in Seq(Symbols) /\ Len(u) = n + 1 /\ n \in Nat
      /\ (\A i \in 1..n : u[i] = b[i]) /\ u[n + 1] = c
  BY AppendProperties, LenProperties
<1>2. y \in Seq(Symbols)
  BY DotTyped, Single
<1> HIDE DEF u
<1>3. /\ f \in [1..n -> Seq(Symbols)] /\ g \in [1..Len(u) -> Seq(Symbols)]
      /\ (\A i \in 1..n : f[i] = Mark(b, i)) /\ \A i \in 1..Len(u) : g[i] = Mark(u, i)
  BY <1>1, MarksTyped
<1> HIDE DEF f, g
<1>4. ASSUME NEW i \in 1..n PROVE g[i] = f[i]
  <2>1. /\ i \in 1..Len(u) /\ u[i] = b[i] /\ i < Len(u)
        /\ g[i] = Mark(u, i) /\ f[i] = Mark(b, i)
    BY <1>1, <1>3
  <2>2. i < n => u[i + 1] = b[i + 1]
    BY <1>1
  <2>3. i = n => u[i + 1] = c /\ b # <<>>
    <3>1. n = 0 => i \notin 1..n
      BY <1>1
    <3> QED
      BY <1>1, <3>1, EmptySeq
  <2>4. (u[i] = CR /\ i < Len(u) /\ u[i + 1] = LF) <=> (b[i] = CR /\ i < n /\ b[i + 1] = LF)
    BY <1>1, <2>1, <2>2, <2>3
  <2>5. Mark(u, i) = Mark(b, i)
    <3> HIDE DEF n, CRLF
    <3> QED
      BY <2>1, <2>4 DEF Mark, n
  <2> QED
    BY <2>1, <2>5
<1>5. g[n + 1] = y
  <2>1. n + 1 \in 1..Len(u) /\ ~(n + 1 < Len(u))
    BY <1>1
  <2>2. c = LF => Mark(u, n + 1) = CRLF
    BY <1>1, <2>1, MarkTyped
  <2>3. c # LF => Mark(u, n + 1) = <<c>>
    BY <1>1, <2>1, MarkTyped
  <2> QED
    BY <1>3, <2>1, <2>2, <2>3
<1>6. g = Append(f, y)
  <2> HIDE DEF n, y
  <2>1. g \in [1..n + 1 -> Seq(Symbols)]
    BY <1>1, <1>3
  <2> QED
    BY <1>1, <1>2, <1>3, <1>4, <1>5, <2>1, AppendFunction
<1> QED
  BY <1>6 DEF g, f, u

(* A CR before a LF is dropped.                                            *)
LEMMA MarksLineEnd ==
  ASSUME NEW a \in Seq(Symbols)
  PROVE  Marks(Append(Append(a, CR), LF)) = Append(Append(Marks(a), <<>>), CRLF)
<1> DEFINE b == Append(a, CR)
           u == Append(b, LF)
           n == Len(a)
           f == Marks(a)
           g == Marks(u)
           h == [i \in 1..n + 1 |-> IF i = n + 1 THEN <<>> ELSE f[i]]
<1>1. /\ b \in Seq(Symbols) /\ Len(b) = n + 1 /\ n \in Nat
      /\ (\A i \in 1..n : b[i] = a[i]) /\ b[n + 1] = CR
  BY SymbolsTyped, AppendProperties, LenProperties
<1> HIDE DEF b
<1>2. /\ u \in Seq(Symbols) /\ Len(u) = n + 2
      /\ (\A i \in 1..n + 1 : u[i] = b[i]) /\ u[n + 2] = LF
  <2>1. /\ u \in Seq(Symbols) /\ Len(u) = Len(b) + 1
        /\ (\A i \in 1..Len(b) : u[i] = b[i]) /\ u[Len(b) + 1] = LF
    BY <1>1, SymbolsTyped, AppendProperties
  <2> HIDE DEF u, n
  <2> QED
    BY <1>1, <2>1
<1> HIDE DEF u
<1>3. /\ f \in [1..n -> Seq(Symbols)] /\ g \in [1..Len(u) -> Seq(Symbols)]
      /\ (\A i \in 1..n : f[i] = Mark(a, i)) /\ \A i \in 1..Len(u) : g[i] = Mark(u, i)
  BY <1>2, MarksTyped
<1> HIDE DEF f, g
<1>4. <<>> \in Seq(Symbols) /\ CRLF \in Seq(Symbols) /\ CR # LF
  BY EmptySeq, DotTyped, SymbolsTyped
<1>5. ASSUME NEW i \in 1..n PROVE g[i] = f[i]
  <2>1. /\ i \in 1..Len(u) /\ u[i] = a[i] /\ i < Len(u)
        /\ g[i] = Mark(u, i) /\ f[i] = Mark(a, i)
    BY <1>1, <1>2, <1>3
  <2>2. i < n => u[i + 1] = a[i + 1]
    BY <1>1, <1>2
  <2>3. i = n => u[i + 1] = CR
    BY <1>1, <1>2
  <2>4. (u[i] = CR /\ i < Len(u) /\ u[i + 1] = LF) <=> (a[i] = CR /\ i < n /\ a[i + 1] = LF)
    BY <1>1, <1>4, <2>1, <2>2, <2>3
  <2>5. Mark(u, i) = Mark(a, i)
    <3> HIDE DEF n, CRLF
    <3> QED
      BY <2>1, <2>4 DEF Mark, n
  <2> QED
    BY <2>1, <2>5
<1>6. g[n + 1] = <<>> /\ g[n + 2] = CRLF
  <2> HIDE DEF n
  <2>1. n + 1 \in 1..Len(u) /\ n + 2 \in 1..Len(u) /\ n + 1 < Len(u) /\ (n + 1) + 1 = n + 2
    BY <1>1, <1>2
  <2>2. u[n + 1] = CR
    BY <1>1, <1>2
  <2>3. Mark(u, n + 1) = <<>>
    BY <1>2, <2>1, <2>2, MarkTyped
  <2>4. Mark(u, n + 2) = CRLF
    BY <1>2, <2>1, MarkTyped
  <2> QED
    BY <1>3, <2>1, <2>3, <2>4
<1>7. h = Append(f, <<>>) /\ h \in [1..n + 1 -> Seq(Symbols)]
  <2>1. h \in [1..n + 1 -> Seq(Symbols)]
    <3> SUFFICES ASSUME NEW i \in 1..n + 1
                 PROVE  (IF i = n + 1 THEN <<>> ELSE f[i]) \in Seq(Symbols)
      OBVIOUS
    <3> HIDE DEF n
    <3>1. i = n + 1 \/ i \in 1..n
      BY <1>1
    <3> QED
      BY <1>3, <1>4, <3>1
  <2>2. (\A i \in 1..n : h[i] = f[i]) /\ h[n + 1] = <<>>
    <3> HIDE DEF n
    <3> QED
      BY <1>1
  <2> HIDE DEF h, n
  <2> QED
    BY <1>1, <1>3, <1>4, <2>1, <2>2, AppendFunction
<1>8. g = Append(h, CRLF)
  <2>1. \A i \in 1..n + 1 : g[i] = h[i]
    <3> SUFFICES ASSUME NEW i \in 1..n + 1 PROVE g[i] = h[i]
      OBVIOUS
    <3>1. i = n + 1 \/ (i \in 1..n /\ i # n + 1)
      <4> HIDE DEF n
      <4> QED
        BY <1>1
    <3> QED
      BY <1>5, <1>6, <3>1
  <2> HIDE DEF h, n, CRLF
  <2> DEFINE m == n + 1
  <2>2. m \in Nat /\ m + 1 = n + 2 /\ g \in [1..m + 1 -> Seq(Symbols)]
    BY <1>1, <1>2, <1>3
  <2>3. /\ h \in [1..m -> Seq(Symbols)] /\ (\A i \in 1..m : g[i] = h[i])
        /\ g[m + 1] = CRLF
    BY <1>6, <1>7, <2>1, <2>2
  <2> HIDE DEF m
  <2> QED
    BY <1>4, <2>2, <2>3, AppendFunction
<1> QED
  BY <1>7, <1>8 DEF g, f, u, b

LEMMA LinesSame ==
  ASSUME NEW E, NEW s, NEW q, NEW x, NEW p, NEW y,
         LinesOf(E, s, q, x), LinesOf(E, s, p, y)
  PROVE  q = p /\ x = y
<1>1. /\ q \in Seq(Seq(E \ {LF})) /\ x \in Seq(E \ {LF})
      /\ p \in Seq(Seq(E \ {LF})) /\ y \in Seq(E \ {LF})
      /\ Append(q, x) = Append(p, y)
  BY DEF LinesOf
<1>2. Front(Append(q, x)) = q /\ Last(Append(q, x)) = x
  BY <1>1, FrontAppend
<1>3. Front(Append(p, y)) = p /\ Last(Append(p, y)) = y
  BY <1>1, FrontAppend
<1> QED
  BY <1>1, <1>2, <1>3

LEMMA PlainEmpty == Plain(<<>>) = <<>>
<1> DEFINE e == <<>>
           g == Marks(e)
<1>1. DOMAIN e = 1..0 /\ \A i : i \notin 1..0
  BY EmptySeq, LenProperties
<1>2. g \in [1..0 -> {}]
  BY <1>1 DEF Marks
<1>3. Plain(e) = FlattenSeq(g)
  BY DEF Plain
<1> HIDE DEF g
<1> QED
  BY <1>2, <1>3, EmptyFunction, FlattenEmpty

LEMMA PlainTyped ==
  ASSUME NEW b \in Seq(Symbols) PROVE Plain(b) \in Seq(Symbols)
<1>1. Marks(b) \in Seq(Seq(Symbols))
  BY MarksTyped
<1> QED
  BY <1>1, FlattenTyped DEF Plain

LEMMA PlainAppend ==
  ASSUME NEW b \in Seq(Symbols), NEW c \in Symbols
  PROVE  /\ c # LF => Plain(Append(b, c)) = Append(Plain(b), c)
         /\ c = LF /\ (b = <<>> \/ b[Len(b)] # CR) => Plain(Append(b, c)) = Plain(b) \o CRLF
<1> DEFINE y == IF c = LF THEN CRLF ELSE <<c>>
           f == Marks(b)
<1>1. y \in Seq(Symbols)
  BY DotTyped, Single
<1>2. f \in Seq(Seq(Symbols))
  BY MarksTyped
<1>3. (c # LF \/ b = <<>> \/ b[Len(b)] # CR) => Marks(Append(b, c)) = Append(f, y)
  BY MarksAppend
<1> HIDE DEF y, f
<1>4. FlattenSeq(f) \in Seq(Symbols) /\ FlattenSeq(Append(f, y)) = FlattenSeq(f) \o y
  BY <1>1, <1>2, FlattenProperties
<1>5. (c # LF \/ b = <<>> \/ b[Len(b)] # CR) => Plain(Append(b, c)) = Plain(b) \o y
  BY <1>3, <1>4 DEF Plain, f
<1>6. Plain(b) \o <<c>> = Append(Plain(b), c)
  BY PlainTyped, AppendIsConcat
<1> QED
  BY <1>5, <1>6 DEF y

LEMMA PlainLineEnd ==
  ASSUME NEW a \in Seq(Symbols)
  PROVE  Plain(Append(Append(a, CR), LF)) = Plain(a) \o CRLF
<1> DEFINE e == <<>>
           f == Marks(a)
           g == Append(f, e)
<1>1. f \in Seq(Seq(Symbols)) /\ e \in Seq(Symbols) /\ CRLF \in Seq(Symbols)
  BY MarksTyped, EmptySeq, DotTyped
<1>2. Marks(Append(Append(a, CR), LF)) = Append(g, CRLF)
  BY MarksLineEnd
<1> HIDE DEF f, e, CRLF
<1>3. g \in Seq(Seq(Symbols))
  BY <1>1, AppendProperties
<1>4. /\ FlattenSeq(f) \in Seq(Symbols)
      /\ FlattenSeq(g) = FlattenSeq(f) \o e
      /\ FlattenSeq(Append(g, CRLF)) = FlattenSeq(g) \o CRLF
  <2>1. FlattenSeq(f) \in Seq(Symbols) /\ FlattenSeq(g) = FlattenSeq(f) \o e
    BY <1>1, FlattenProperties
  <2> HIDE DEF g
  <2>2. FlattenSeq(Append(g, CRLF)) = FlattenSeq(g) \o CRLF
    BY <1>1, <1>3, FlattenProperties
  <2> QED
    BY <2>1, <2>2
<1>5. FlattenSeq(f) \o e = FlattenSeq(f)
  BY <1>4, ConcatEmptySeq DEF e
<1> QED
  BY <1>2, <1>4, <1>5 DEF Plain, f

(* The text of a body, its LFs made CRLFs, is that of its lines.           *)
LEMMA PlainIs ==
  ASSUME NEW b \in Seq(Symbols), NEW q, NEW x, LinesOf(Symbols, b, q, x)
  PROVE  Plain(b) = Whole(Trimmed(q)) \o x
<1> DEFINE A == {t \in Seq(Symbols) :
                   \A p, y : LinesOf(Symbols, t, p, y) => Plain(t) = Whole(Trimmed(p)) \o y}
<1>1. <<>> \in A
  <2>1. SUFFICES ASSUME NEW p, NEW y, LinesOf(Symbols, <<>>, p, y)
                 PROVE  Plain(<<>>) = Whole(Trimmed(p)) \o y
    BY EmptySeq
  <2>2. p = <<>> /\ y = <<>>
    BY <2>1, LinesEmpty, LinesSame
  <2>3. Trimmed(<<>>) = <<>>
    <3> DEFINE e == <<>>
    <3>1. DOMAIN e = 1..0 /\ \A i : i \notin 1..0
      BY EmptySeq, LenProperties
    <3>2. Trimmed(e) \in [1..0 -> {}]
      BY <3>1 DEF Trimmed
    <3> QED
      BY <3>2, EmptyFunction
  <2>4. <<>> \o <<>> = <<>>
    BY EmptySeq, ConcatEmptySeq
  <2> QED
    BY <2>2, <2>3, <2>4, PlainEmpty, WholeEmpty
<1>2. ASSUME NEW t \in Seq(Symbols) \cap A, NEW c \in Symbols PROVE Append(t, c) \in A
  <2>1. PICK p, y : LinesOf(Symbols, t, p, y)
    BY LinesExist
  <2> DEFINE w == Whole(Trimmed(p))
             u == Append(t, c)
  <2>2. /\ p \in Seq(Seq(Symbols)) /\ y \in Seq(Symbols)
    <3>1. p \in Seq(Seq(Symbols \ {LF})) /\ y \in Seq(Symbols \ {LF})
      BY <2>1 DEF LinesOf
    <3>2. Symbols \ {LF} \subseteq Symbols /\ Seq(Symbols \ {LF}) \subseteq Seq(Symbols)
      BY SeqMonotonic
    <3> QED
      BY <3>1, <3>2, SeqMonotonic
  <2>3. /\ w \in Seq(Symbols) /\ Trimmed(p) \in Seq(Seq(Symbols))
        /\ Trimmed(Append(p, y)) = Append(Trimmed(p), TrimCR(y))
        /\ TrimCR(y) \in Seq(Symbols)
    BY <2>2, SymbolsTyped, TrimTyped, TrimmedAppend, WholeAppend
  <2>4. Whole(Trimmed(Append(p, y))) = w \o (TrimCR(y) \o CRLF)
    BY <2>3, SymbolsTyped, WholeAppend
  <2>5. u \in Seq(Symbols)
    BY AppendProperties
  <2>6. Plain(t) = w \o y
    BY <2>1
  <2>7. CASE c # LF
    <3>1. LinesOf(Symbols, u, p, Append(y, c))
      BY <2>1, <2>7, LinesAppend
    <3>2. Plain(u) = Append(w \o y, c)
      BY <2>6, <2>7, PlainAppend
    <3>3. Append(w \o y, c) = w \o Append(y, c)
      <4>1. w \in Seq(Symbols) /\ y \in Seq(Symbols)
        BY <2>2, <2>3
      <4> HIDE DEF w, A, u
      <4>2. w \o Append(y, c) = Append(w \o y, c)
        BY <4>1, AppendConcat
      <4> QED
        BY <4>2
    <3> QED
      BY <2>5, <3>1, <3>2, <3>3, LinesSame
  <2>8. CASE c = LF
    <3>1. LinesOf(Symbols, u, Append(p, y), <<>>)
      BY <2>1, <2>8, LinesAppend
    <3>2. Plain(u) = w \o (TrimCR(y) \o CRLF)
      <4> DEFINE z == TrimCR(y)
      <4>0. (w \o z) \o CRLF = w \o (z \o CRLF)
        <5>1. w \in Seq(Symbols) /\ z \in Seq(Symbols) /\ CRLF \in Seq(Symbols)
          BY <2>3, DotTyped
        <5> HIDE DEF CRLF, w, z
        <5> QED
          BY <5>1, ConcatAssociative, SMTT(30)
      <4>1. CASE t = <<>>
        <5>1. y = <<>>
          BY <2>1, <4>1, LinesEmpty, LinesSame
        <5>2. z = y
          BY <5>1, TrimEmpty
        <5>3. Plain(u) = Plain(t) \o CRLF
          BY <2>8, <4>1, PlainAppend
        <5> QED
          BY <2>6, <4>0, <5>2, <5>3
      <4>2. CASE t # <<>>
        <5>1. PICK a \in Seq(Symbols), d \in Symbols : t = Append(a, d)
          BY <4>2, SequenceEmptyOrAppend
        <5>2. PICK p0, y0 : LinesOf(Symbols, a, p0, y0)
          BY <5>1, LinesExist
        <5>3. t[Len(t)] = d
          BY <5>1, AppendProperties
        <5>4. y0 \in Seq(Symbols)
          <6>1. y0 \in Seq(Symbols \ {LF})
            BY <5>2 DEF LinesOf
          <6> QED
            BY <6>1, SeqMonotonic
        <5>5. CASE d = LF
          <6>1. y = <<>>
            BY <2>1, <5>1, <5>2, <5>5, LinesAppend, LinesSame
          <6>2. Plain(u) = Plain(t) \o CRLF
            BY <2>8, <5>3, <5>5, SymbolsTyped, PlainAppend
          <6> QED
            BY <2>6, <4>0, <6>1, <6>2, TrimEmpty
        <5>6. CASE d # LF
          <6>1. p = p0 /\ y = Append(y0, d)
            <7>1. LinesOf(Symbols, t, p0, Append(y0, d))
              BY <5>1, <5>2, <5>6, LinesAppend
            <7> HIDE DEF A
            <7> QED
              BY <2>1, <7>1, LinesSame
          <6>2. z = IF d = CR THEN y0 ELSE y
            BY <5>1, <5>4, <6>1, TrimAppend
          <6>3. CASE d # CR
            <7>1. Plain(u) = Plain(t) \o CRLF
              BY <2>8, <5>3, <6>3, PlainAppend
            <7> QED
              BY <2>6, <4>0, <6>2, <6>3, <7>1
          <6>4. CASE d = CR
            <7>1. Plain(u) = Plain(a) \o CRLF
              BY <2>8, <5>1, <6>4, PlainLineEnd
            <7>2. Append(Plain(a), CR) = Append(w \o y0, CR)
              <8>1. Plain(t) = Append(Plain(a), CR)
                BY <5>1, <6>4, SymbolsTyped, PlainAppend
              <8>2. w \o y = Append(w \o y0, CR)
                BY <2>3, <5>4, <6>1, <6>4, SymbolsTyped, AppendConcat, SMTT(30)
              <8> QED
                BY <2>6, <8>1, <8>2
            <7>3. Plain(a) \in Seq(Symbols) /\ w \o y0 \in Seq(Symbols)
              BY <2>3, <5>1, <5>4, PlainTyped, ConcatProperties
            <7>4. Plain(a) = w \o y0
              <8>1. Front(Append(Plain(a), CR)) = Plain(a)
                BY <7>3, SymbolsTyped, FrontAppend
              <8>2. Front(Append(w \o y0, CR)) = w \o y0
                BY <7>3, SymbolsTyped, FrontAppend
              <8> QED
                BY <7>2, <8>1, <8>2
            <7> QED
              BY <4>0, <6>2, <6>4, <7>1, <7>4
          <6> QED
            BY <6>3, <6>4
        <5> QED
          BY <5>5, <5>6
      <4> QED
        BY <4>1, <4>2
    <3>3. Whole(Trimmed(Append(p, y))) \o <<>> = w \o (TrimCR(y) \o CRLF)
      <4>1. Whole(Trimmed(Append(p, y))) \in Seq(Symbols)
        <5>1. Append(Trimmed(p), TrimCR(y)) \in Seq(Seq(Symbols))
          BY <2>3, AppendProperties
        <5> QED
          BY <2>3, <5>1, SymbolsTyped, WholeAppend, EmptySeq
      <4> QED
        BY <2>4, <4>1, ConcatEmptySeq
    <3> QED
      BY <2>5, <3>1, <3>2, <3>3, LinesSame
  <2> QED
    BY <2>7, <2>8
<1>3. Seq(Symbols) \subseteq A
  <2> HIDE DEF A
  <2> QED
    BY <1>1, <1>2, SeqInductive
<1> QED
  BY <1>3

LEMMA NormalisedIs ==
  ASSUME NEW b \in Seq(Symbols)
  PROVE  Normalised(b) = Plain(b) \o (IF Last(b) = LF THEN <<>> ELSE CRLF)
<1> HIDE DEF CRLF
<1> QED
  BY DEF Normalised, Plain, Marks, Mark

(* What sendBody makes of a body line by line is the whole body with its   *)
(* line ends normalised, which NeverPartial states symbol by symbol.       *)
THEOREM WholeIsNormalised ==
  ASSUME NEW b \in Seq(Symbols), b # <<>>
  PROVE  Whole(BodyLines(b)) = Normalised(b)
<1>1. PICK q, x : LinesOf(Symbols, b, q, x)
  BY LinesExist
<1> DEFINE l == Trimmed(q)
           w == Whole(l)
<1>2. /\ BodyLines(b) = IF x = <<>> THEN l ELSE Append(l, x)
      /\ l \in Seq(Seq(Symbols \ {LF})) /\ x \in Seq(Symbols \ {LF})
  <2>1. x \in Seq(Symbols \ {LF})
    BY <1>1 DEF LinesOf
  <2> QED
    BY <1>1, <2>1, BodyLinesOf, ZenonT(30)
<1>3. l \in Seq(Seq(Symbols)) /\ x \in Seq(Symbols)
  <2>1. Seq(Symbols \ {LF}) \subseteq Seq(Symbols)
    BY SeqMonotonic
  <2> QED
    BY <1>2, <2>1, SeqMonotonic
<1>4. Plain(b) = w \o x
  BY <1>1, PlainIs
<1> HIDE DEF l
<1>5. w \in Seq(Symbols) /\ Whole(Append(l, x)) = w \o (x \o CRLF)
  BY <1>3, SymbolsTyped, WholeAppend
<1>6. PICK a \in Seq(Symbols), d \in Symbols : b = Append(a, d)
  BY SequenceEmptyOrAppend
<1>7. PICK p, y : LinesOf(Symbols, a, p, y)
  BY <1>6, LinesExist
<1>8. Last(b) = d
  BY <1>6, FrontAppend
<1>9. x = IF d = LF THEN <<>> ELSE Append(y, d)
  <2>1. CASE d = LF
    <3>1. LinesOf(Symbols, b, Append(p, y), <<>>)
      BY <1>6, <1>7, <2>1, LinesAppend
    <3> QED
      BY <1>1, <2>1, <3>1, LinesSame
  <2>2. CASE d # LF
    <3>1. LinesOf(Symbols, b, p, Append(y, d))
      BY <1>6, <1>7, <2>2, LinesAppend
    <3> QED
      BY <1>1, <2>2, <3>1, LinesSame
  <2> QED
    BY <2>1, <2>2
<1>10. d # LF => x # <<>>
  <2>1. y \in Seq(Symbols)
    <3>1. y \in Seq(Symbols \ {LF})
      BY <1>7 DEF LinesOf
    <3> QED
      BY <3>1, SeqMonotonic
  <2> QED
    BY <1>6, <1>9, <2>1, AppendProperties
<1> HIDE DEF w
<1>11. CASE d = LF
  <2>1. BodyLines(b) = l /\ x = <<>>
    BY <1>2, <1>9, <1>11
  <2>2. w \o <<>> = w
    BY <1>5, ConcatEmptySeq
  <2>3. Normalised(b) = Plain(b) \o <<>>
    BY <1>8, <1>11, NormalisedIs
  <2> QED
    BY <1>4, <2>1, <2>2, <2>3 DEF w
<1>12. CASE d # LF
  <2>1. BodyLines(b) = Append(l, x)
    BY <1>2, <1>10, <1>12
  <2>2. Normalised(b) = Plain(b) \o CRLF
    BY <1>8, <1>12, NormalisedIs
  <2>3. (w \o x) \o CRLF = w \o (x \o CRLF)
    <3>1. w \in Seq(Symbols) /\ x \in Seq(Symbols) /\ CRLF \in Seq(Symbols)
      BY <1>3, <1>5, DotTyped
    <3> HIDE DEF CRLF
    <3>2. w \o (x \o CRLF) = (w \o x) \o CRLF
      BY <3>1, ConcatAssociative, SMTT(30)
    <3> QED
      BY <3>2
  <2> QED
    BY <1>4, <1>5, <2>1, <2>2, <2>3
<1> QED
  BY <1>11, <1>12

-----------------------------------------------------------------------------
(* The line that comes next.                                               *)

LEMMA Cancels ==
  ASSUME NEW E, NEW p \in Seq(E), NEW s \in Seq(E), NEW t \in Seq(E), p \o s = p \o t
  PROVE  s = t
<1>1. SubSeq(p \o s, Len(p) + 1, Len(p \o s)) = s
  BY ConcatParts
<1>2. SubSeq(p \o t, Len(p) + 1, Len(p \o t)) = t
  BY ConcatParts
<1> QED
  BY <1>1, <1>2

LEMMA EmptyConcat ==
  ASSUME NEW E, NEW s \in Seq(E), NEW t \in Seq(E), s \o t = <<>>
  PROVE  s = <<>> /\ t = <<>>
<1>1. Len(s \o t) = Len(s) + Len(t) /\ Len(s) \in Nat /\ Len(t) \in Nat
  BY ConcatProperties, LenProperties
<1>2. Len(s \o t) = 0
  BY EmptySeq
<1>3. Len(s) = 0 /\ Len(t) = 0
  BY <1>1, <1>2
<1> QED
  BY <1>3, EmptySeq

LEMMA WireSplit ==
  ASSUME wire \in Seq(Symbols), HasLine
  PROVE  wire = FirstLine \o AfterLine
<1> DEFINE line == FirstLine
           rest == AfterLine
           c == line \o rest
           k == Len(line)
           n == Len(wire)
<1>1. /\ line \in Seq(Symbols) /\ rest \in Seq(Symbols)
      /\ k \in Nat \ {0} /\ k <= n
      /\ \A i \in 1..k : line[i] = wire[i]
  BY NextLineFound DEF NextLine
<1>2. n \in Nat /\ \A i \in 1..n : wire[i] \in Symbols
  BY LenProperties, ElementOfSeq
<1>3. rest = SubSeq(wire, k + 1, n)
  BY DEF AfterLine
<1> HIDE DEF line, rest
<1>4. Len(rest) = n - k /\ \A i \in 1..n - k : rest[i] = wire[k + i]
  <2> DEFINE j == k + 1
  <2>1. j \in Int /\ n \in Int /\ n - j + 1 = n - k /\ (\A i \in j..n : wire[i] \in Symbols)
        /\ (j <= n <=> n - k # 0) /\ \A i \in 1..n - k : j + i - 1 = k + i
    BY <1>1, <1>2
  <2> HIDE DEF j, n, k
  <2>2. /\ Len(SubSeq(wire, j, n)) = IF j <= n THEN n - j + 1 ELSE 0
        /\ \A i \in 1..n - j + 1 : SubSeq(wire, j, n)[i] = wire[j + i - 1]
    BY <2>1, SubSeqProperties
  <2> QED
    BY <1>3, <2>1, <2>2 DEF j
<1>5. /\ c \in Seq(Symbols) /\ Len(c) = k + Len(rest)
      /\ \A i \in 1..k + Len(rest) : c[i] = IF i <= k THEN line[i] ELSE rest[i - k]
  BY <1>1, ConcatProperties
<1> HIDE DEF c, k, n
<1>6. Len(c) = n
  BY <1>1, <1>2, <1>4, <1>5
<1>7. ASSUME NEW i \in 1..n PROVE c[i] = wire[i]
  <2>1. i \in 1..k + Len(rest)
    BY <1>1, <1>2, <1>4
  <2>2. CASE i <= k
    <3>1. i \in 1..k
      BY <1>1, <1>2, <2>2
    <3> QED
      BY <1>1, <1>5, <2>1, <2>2, <3>1
  <2>3. CASE ~(i <= k)
    <3>1. i - k \in 1..n - k /\ k + (i - k) = i
      BY <1>1, <1>2, <2>3
    <3> QED
      BY <1>4, <1>5, <2>1, <2>3, <3>1
  <2> QED
    BY <2>2, <2>3
<1>8. wire = c
  BY <1>5, <1>6, <1>7, SeqEqual DEF n
<1> QED
  BY <1>8 DEF c, line, rest

LEMMA TextOf ==
  ASSUME NEW E, CR \in E, LF \in E, NEW x \in Seq(E)
  PROVE  Text(x \o CRLF) = x
<1>1. x \o CRLF = Append(Append(x, CR), LF) /\ Append(x, CR) \in Seq(E)
  BY LineEndAppend, AppendProperties
<1>2. Front(x \o CRLF) = Append(x, CR)
  BY <1>1, FrontAppend
<1>3. TrimCR(Append(x, CR)) = x
  BY TrimAppend
<1> QED
  BY <1>2, <1>3 DEF Text

LEMMA StuffedReads ==
  ASSUME NEW x \in Seq(Symbols)
  PROVE  Stuffed(x) # <<".">> /\ Unstuffed(Stuffed(x)) = x
<1> DEFINE d == <<".">>
           y == d \o x
<1>1. d \in Seq(Symbols) /\ Len(d) = 1 /\ d[1] = "." /\ "." \in Symbols
  BY DotTyped, Single DEF Symbols
<1> HIDE DEF d
<1>2. /\ y \in Seq(Symbols) /\ Len(y) = 1 + Len(x) /\ Len(x) \in Nat
      /\ y[1] = "."
      /\ \A i \in 1..Len(x) : y[i + 1] = x[i]
  <2>1. /\ y \in Seq(Symbols) /\ Len(y) = Len(d) + Len(x) /\ Len(x) \in Nat
        /\ \A i \in 1..Len(d) + Len(x) : y[i] = IF i <= Len(d) THEN d[i] ELSE x[i - Len(d)]
    BY <1>1, ConcatProperties, LenProperties
  <2> HIDE DEF y
  <2>2. y[1] = "."
    BY <1>1, <2>1
  <2>3. ASSUME NEW i \in 1..Len(x) PROVE y[i + 1] = x[i]
    <3>1. i + 1 \in 1..Len(d) + Len(x) /\ ~(i + 1 <= Len(d)) /\ (i + 1) - Len(d) = i
      BY <1>1, <2>1
    <3> QED
      BY <2>1, <3>1
  <2> QED
    BY <1>1, <2>1, <2>2, <2>3
<1> HIDE DEF y
<1>3. CASE x # <<>> /\ Head(x) = "."
  <2>1. Stuffed(x) = y
    BY <1>3 DEF Stuffed, y, d
  <2>2. Len(x) # 0
    BY <1>3, EmptySeq
  <2>3. y # d
    BY <1>1, <1>2, <2>2
  <2>4. y # <<>> /\ Head(y) = "."
    BY <1>2, EmptySeq, HeadTailProperties
  <2>5. Tail(y) \in Seq(Symbols) /\ Len(Tail(y)) = Len(x)
        /\ \A i \in 1..Len(x) : Tail(y)[i] = y[i + 1]
    <3>1. /\ Tail(y) \in Seq(Symbols) /\ Len(Tail(y)) = Len(y) - 1
          /\ \A i \in 1..Len(y) - 1 : Tail(y)[i] = y[i + 1]
      BY <1>2, <2>4, HeadTailProperties
    <3> QED
      BY <1>2, <3>1
  <2>6. Tail(y) = x
    BY <1>2, <2>5, SeqEqual
  <2>7. Unstuffed(y) = x
    BY <2>4, <2>6 DEF Unstuffed
  <2> QED
    BY <2>1, <2>3, <2>7 DEF d
<1>4. CASE ~(x # <<>> /\ Head(x) = ".")
  <2>1. Stuffed(x) = x /\ Unstuffed(x) = x
    BY <1>4 DEF Stuffed, Unstuffed
  <2>2. x # d
    <3>1. d # <<>>
      BY <1>1, EmptySeq
    <3>2. Head(d) = d[1]
      BY <1>1, <3>1, HeadTailProperties
    <3>3. d # <<>> /\ Head(d) = "."
      BY <1>1, <3>1, <3>2
    <3> QED
      BY <1>4, <3>3
  <2> QED
    BY <2>1, <2>2 DEF d
<1> QED
  BY <1>3, <1>4

(* When the stream goes on with a whole line and a LF has come, that line  *)
(* is the next one.                                                        *)
NextIs(u, x, v) ==
  /\ u \in Seq(Symbols) /\ x \in Seq(Symbols \ {LF}) /\ v \in Seq(Symbols)
  /\ wire \o u = (x \o CRLF) \o v

LEMMA LineTaken ==
  ASSUME wire \in Seq(Symbols), HasLine, NEW u, NEW x, NEW v, NextIs(u, x, v)
  PROVE  /\ FirstLine = x \o CRLF /\ Text(FirstLine) = x
         /\ AfterLine \in Seq(Symbols) /\ AfterLine \o u = v
<1> DEFINE line == FirstLine
           rest == AfterLine
           y == x \o CRLF
           n == Len(x)
           k == Len(line)
           t == wire \o u
<1>0. /\ u \in Seq(Symbols) /\ x \in Seq(Symbols \ {LF}) /\ v \in Seq(Symbols)
      /\ t = y \o v
  BY DEF NextIs
<1>1. x \in Seq(Symbols) /\ n \in Nat /\ \A i \in 1..n : x[i] # LF
  BY <1>0, SeqMonotonic, LenProperties, ElementOfSeq
<1>2. /\ line \in Seq(Symbols) /\ rest \in Seq(Symbols)
      /\ k \in Nat \ {0} /\ k <= Len(wire)
      /\ \A i \in 1..k : line[i] = wire[i]
      /\ \A i \in 1..k : line[i] = LF <=> i = k
  BY NextLineFound DEF NextLine
<1>3. wire = line \o rest
  BY WireSplit
<1>4. /\ y \in Seq(Symbols) /\ Len(y) = n + 2
      /\ (\A i \in 1..n : y[i] = x[i]) /\ y[n + 1] = CR /\ y[n + 2] = LF
  <2> DEFINE a == Append(x, CR)
             b == Append(a, LF)
  <2>1. y = b
    BY <1>1, SymbolsTyped, LineEndAppend
  <2>2. /\ a \in Seq(Symbols) /\ Len(a) = n + 1
        /\ (\A i \in 1..n : a[i] = x[i]) /\ a[n + 1] = CR
    BY <1>1, SymbolsTyped, AppendProperties
  <2> HIDE DEF a, n
  <2>3. /\ b \in Seq(Symbols) /\ Len(b) = Len(a) + 1
        /\ (\A i \in 1..Len(a) : b[i] = a[i]) /\ b[Len(a) + 1] = LF
    BY <2>2, SymbolsTyped, AppendProperties
  <2> HIDE DEF b, y
  <2> QED
    BY <1>1, <2>1, <2>2, <2>3
<1> HIDE DEF y, line, rest
<1>5. /\ t = y \o v
      /\ \A i \in 1..Len(wire) : t[i] = wire[i]
      /\ \A i \in 1..n + 2 : t[i] = y[i]
  <2>1. /\ \A i \in 1..Len(wire) + Len(u) :
             t[i] = IF i <= Len(wire) THEN wire[i] ELSE u[i - Len(wire)]
        /\ Len(wire) \in Nat /\ Len(u) \in Nat
    BY <1>0, ConcatProperties, LenProperties
  <2>2. t = y \o v
    BY <1>0
  <2>3. /\ \A i \in 1..Len(y) + Len(v) : (y \o v)[i] = IF i <= Len(y) THEN y[i] ELSE v[i - Len(y)]
        /\ Len(v) \in Nat
    BY <1>0, <1>4, ConcatProperties, LenProperties
  <2> HIDE DEF t, n
  <2>4. \A i \in 1..Len(wire) : t[i] = wire[i]
    BY <2>1
  <2>5. \A i \in 1..n + 2 : t[i] = y[i]
    BY <1>1, <1>4, <2>2, <2>3
  <2> QED
    BY <2>2, <2>4, <2>5
<1> HIDE DEF t, n, k
<1>6. k = n + 2
  <2>0. Len(wire) \in Nat
    BY LenProperties
  <2>1. k \in 1..k /\ k \in 1..Len(wire) /\ line[k] = LF /\ line[k] = wire[k]
    BY <1>2, <2>0
  <2>2. t[k] = LF
    BY <1>5, <2>1
  <2>3. CASE k < n + 2
    <3>1. k \in 1..n + 2 /\ (k \in 1..n \/ k = n + 1)
      BY <1>1, <1>2, <2>3
    <3> QED
      BY <1>1, <1>4, <1>5, <2>2, <3>1, SymbolsTyped
  <2>4. CASE k > n + 2
    <3>1. n + 2 \in 1..k /\ n + 2 \in 1..Len(wire) /\ n + 2 \in 1..n + 2 /\ n + 2 # k
      BY <1>1, <1>2, <2>0, <2>4
    <3>2. t[n + 2] = line[n + 2] /\ t[n + 2] = LF
      BY <1>2, <1>4, <1>5, <3>1
    <3> QED
      BY <1>2, <3>1, <3>2
  <2> QED
    BY <1>1, <1>2, <2>3, <2>4
<1>7. line = y
  <2>1. ASSUME NEW i \in 1..k PROVE line[i] = y[i]
    <3>1. i \in 1..n + 2 /\ i \in 1..Len(wire)
      BY <1>1, <1>2, <1>6, LenProperties
    <3> QED
      BY <1>2, <1>5, <3>1
  <2> QED
    BY <1>2, <1>4, <1>6, <2>1, SeqEqual DEF k
<1>8. rest \o u = v
  <2>1. line \o (rest \o u) = (line \o rest) \o u
    <3>1. line \in Seq(Symbols) /\ rest \in Seq(Symbols) /\ u \in Seq(Symbols)
      BY <1>0, <1>2
    <3>2. Regroups(line, rest, u)
      BY <3>1, Associative
    <3> QED
      BY <3>2 DEF Regroups
  <2>2. line \o (rest \o u) = line \o v
    BY <1>3, <1>5, <1>7, <2>1 DEF t
  <2>3. rest \o u \in Seq(Symbols)
    BY <1>0, <1>2, ConcatProperties
  <2> QED
    BY <1>0, <1>2, <2>2, <2>3, Cancels
<1>9. Text(y) = x
  BY <1>1, SymbolsTyped, TextOf DEF y
<1> QED
  BY <1>2, <1>7, <1>8, <1>9 DEF line, rest, y

-----------------------------------------------------------------------------
(* The paths of MAIL and RCPT.                                             *)

Path0(a) == <<"<">> \o a \o <<">">>

(* An address of a message file, without what sanitizeAddr takes out.      *)
Word == Symbols \ {">", CR, LF}

LEMMA WordTyped ==
  /\ Word \subseteq Symbols /\ Word \subseteq Symbols \ {">"} /\ Word \subseteq Symbols \ {LF}
  /\ (Symbols \ {">"}) \ {CR, LF} \subseteq Word
BY DEF Word

LEMMA SanitizeIn ==
  ASSUME NEW a \in Seq(Symbols \ {">"}) PROVE sanitizeAddr(a) \in Seq(Word)
<1> DEFINE f == [i \in DOMAIN a |-> IF a[i] \in {CR, LF} THEN <<>> ELSE <<a[i]>>]
<1>1. /\ Len(a) \in Nat /\ DOMAIN a = 1..Len(a)
      /\ \A i \in 1..Len(a) : a[i] \in Symbols \ {">"}
  BY LenProperties, ElementOfSeq
<1>2. f \in [1..Len(a) -> Seq(Word)]
  <2> SUFFICES ASSUME NEW i \in 1..Len(a)
               PROVE  (IF a[i] \in {CR, LF} THEN <<>> ELSE <<a[i]>>) \in Seq(Word)
    BY <1>1
  <2>1. CASE a[i] \in {CR, LF}
    BY <2>1, EmptySeq
  <2>2. CASE a[i] \notin {CR, LF}
    <3>1. a[i] \in Word
      BY <1>1, <2>2 DEF Word
    <3> QED
      BY <2>2, <3>1, Single
  <2> QED
    BY <2>1, <2>2
<1>3. f \in Seq(Seq(Word))
  BY <1>1, <1>2, FunctionIsSeq
<1> QED
  BY <1>3, FlattenTyped DEF sanitizeAddr

LEMMA CleanIn ==
  ASSUME NEW rcpts \in Seq(Seq(Symbols \ {">"}))
  PROVE  Clean(rcpts) \in Seq(Seq(Word))
<1> DEFINE f == Clean(rcpts)
           n == Len(rcpts)
<1>1. n \in Nat /\ DOMAIN rcpts = 1..n /\ \A i \in 1..n : rcpts[i] \in Seq(Symbols \ {">"})
  BY LenProperties, ElementOfSeq
<1>2. f \in [1..n -> Seq(Word)]
  BY <1>1, SanitizeIn DEF Clean
<1> HIDE DEF f, n
<1>3. f \in Seq(Seq(Word))
  BY <1>1, <1>2, FunctionIsSeq
<1> QED
  BY <1>3 DEF f

LEMMA NullSenderJoined == NullSender = Path0(<<>>) /\ NullSender \in Seq(Clear)
<1> DEFINE a == <<"<">>
           b == <<">">>
           n == NullSender
<1>1. a \in Seq(Clear) /\ Len(a) = 1 /\ a[1] = "<" /\ b \in Seq(Clear) /\ Len(b) = 1 /\ b[1] = ">"
  BY SymbolsTyped, Single
<1>2. n \in Seq(Clear) /\ Len(n) = 2 /\ n[1] = "<" /\ n[2] = ">"
  BY SymbolsTyped DEF NullSender
<1> HIDE DEF a, b, n
<1>3. a \o b = n
  BY <1>1, <1>2, TwoJoined
<1>4. a \o <<>> = a
  BY <1>1, ConcatEmptySeq
<1>5. Path0(<<>>) = (a \o <<>>) \o b
  BY DEF Path0, a, b
<1> QED
  BY <1>2, <1>3, <1>4, <1>5 DEF n

LEMMA SanitizeNull == sanitizeAddr(NullSender) = NullSender
<1> DEFINE a == <<"<">>
           b == <<">">>
           e == <<>>
           s == <<a>>
           t == <<a, b>>
           n == NullSender
           f == [i \in DOMAIN n |-> IF n[i] \in {CR, LF} THEN <<>> ELSE <<n[i]>>]
<1>1. /\ a \in Seq(Clear) /\ b \in Seq(Clear) /\ e \in Seq(Seq(Clear))
      /\ s \in Seq(Seq(Clear)) /\ s = Append(e, a) /\ t = Append(s, b)
  BY SymbolsTyped, EmptySeq, Single
<1>2. DOMAIN n = 1..2 /\ n[1] = "<" /\ n[2] = ">" /\ "<" \notin {CR, LF} /\ ">" \notin {CR, LF}
  BY DEF NullSender, CR, LF
<1>3. f = t
  <2>1. f = [i \in 1..2 |-> IF i = 1 THEN a ELSE b]
    BY <1>2
  <2>2. t = [i \in 1..2 |-> IF i = 1 THEN a ELSE b]
    OBVIOUS
  <2> QED
    BY <2>1, <2>2
<1>4. FlattenSeq(s) = FlattenSeq(e) \o a
  BY <1>1, FlattenProperties
<1>5. FlattenSeq(t) = FlattenSeq(s) \o b
  BY <1>1, FlattenProperties
<1>6. FlattenSeq(e) \o a = a
  <2>1. FlattenSeq(e) = <<>>
    BY FlattenEmpty
  <2> QED
    BY <1>1, <2>1, ConcatEmptySeq
<1>7. a \o b = n
  <2>1. Len(a) = 1 /\ a[1] = "<" /\ Len(b) = 1 /\ b[1] = ">"
    OBVIOUS
  <2>2. n \in Seq(Clear) /\ Len(n) = 2
    BY SymbolsTyped DEF NullSender
  <2> HIDE DEF a, b, n
  <2> QED
    BY <1>1, <1>2, <2>1, <2>2, TwoJoined
<1>8. sanitizeAddr(n) = FlattenSeq(f)
  BY DEF sanitizeAddr
<1> HIDE DEF f, t, s, e, a, b, n
<1> QED
  BY <1>3, <1>4, <1>5, <1>6, <1>7, <1>8 DEF n

PathElements(s, v, a) ==
  /\ s \in Seq(Symbols) /\ Len(s) = Len(a) + 3
  /\ s[1] = v /\ s[2] = "<" /\ s[Len(a) + 3] = ">"
  /\ \A i \in 1..Len(a) : s[i + 2] = a[i]

LEMMA PathText ==
  ASSUME NEW v \in Symbols, NEW a \in Seq(Symbols)
  PROVE  PathElements(<<v>> \o Path0(a), v, a)
<1> DEFINE n == Len(a)
           o == <<v>>
           x == <<"<">>
           z == <<">">>
           b == x \o a
           c == b \o z
           s == o \o c
<1>1. /\ o \in Seq(Symbols) /\ Len(o) = 1 /\ o[1] = v
      /\ x \in Seq(Symbols) /\ Len(x) = 1 /\ x[1] = "<"
      /\ z \in Seq(Symbols) /\ Len(z) = 1 /\ z[1] = ">"
      /\ n \in Nat
  BY DotTyped, Single, LenProperties
<1> HIDE DEF o, x, z
<1>2. /\ b \in Seq(Symbols) /\ Len(b) = Len(x) + n
      /\ \A i \in 1..Len(x) + n : b[i] = IF i <= Len(x) THEN x[i] ELSE a[i - Len(x)]
  BY <1>1, ConcatProperties
<1> HIDE DEF b
<1>3. /\ c \in Seq(Symbols) /\ Len(c) = Len(b) + Len(z)
      /\ \A i \in 1..Len(b) + Len(z) : c[i] = IF i <= Len(b) THEN b[i] ELSE z[i - Len(b)]
  <2>1. b \in Seq(Symbols) /\ z \in Seq(Symbols)
    BY <1>1, <1>2
  <2> QED
    BY <2>1, ConcatProperties
<1> HIDE DEF c
<1>4. /\ s \in Seq(Symbols) /\ Len(s) = Len(o) + Len(c)
      /\ \A i \in 1..Len(o) + Len(c) : s[i] = IF i <= Len(o) THEN o[i] ELSE c[i - Len(o)]
  <2>1. o \in Seq(Symbols) /\ c \in Seq(Symbols)
    BY <1>1, <1>3
  <2> QED
    BY <2>1, ConcatProperties
<1>0. s = <<v>> \o Path0(a)
  BY DEF s, o, c, b, x, z, Path0
<1> HIDE DEF s, n
<1>5. b[1] = "<" /\ \A i \in 1..n : b[i + 1] = a[i]
  <2>1. 1 \in 1..Len(x) + n /\ 1 <= Len(x)
    BY <1>1
  <2>2. ASSUME NEW i \in 1..n PROVE b[i + 1] = a[i]
    <3>1. i + 1 \in 1..Len(x) + n /\ ~(i + 1 <= Len(x)) /\ (i + 1) - Len(x) = i
      BY <1>1
    <3> QED
      BY <1>2, <3>1
  <2> QED
    BY <1>1, <1>2, <2>1, <2>2
<1>6. /\ c[1] = "<" /\ c[n + 2] = ">" /\ Len(c) = n + 2
      /\ \A i \in 1..n : c[i + 1] = a[i]
  <2>1. 1 \in 1..Len(b) + Len(z) /\ 1 <= Len(b)
    BY <1>1, <1>2
  <2>2. n + 2 \in 1..Len(b) + Len(z) /\ ~(n + 2 <= Len(b)) /\ (n + 2) - Len(b) = 1
    BY <1>1, <1>2
  <2>3. ASSUME NEW i \in 1..n PROVE c[i + 1] = a[i]
    <3>1. i + 1 \in 1..Len(b) + Len(z) /\ i + 1 <= Len(b)
      BY <1>1, <1>2
    <3> QED
      BY <1>3, <1>5, <3>1
  <2>4. c[1] = b[1] /\ c[n + 2] = z[1]
    BY <1>3, <2>1, <2>2
  <2> QED
    BY <1>1, <1>2, <1>3, <1>5, <2>3, <2>4
<1>7. /\ s[1] = v /\ s[2] = "<" /\ s[n + 3] = ">" /\ Len(s) = n + 3
      /\ \A i \in 1..n : s[i + 2] = a[i]
  <2>1. 1 \in 1..Len(o) + Len(c) /\ 1 <= Len(o)
    BY <1>1, <1>6
  <2>2. n + 3 \in 1..Len(o) + Len(c) /\ ~(n + 3 <= Len(o)) /\ (n + 3) - Len(o) = n + 2
    BY <1>1, <1>6
  <2>3. 2 \in 1..Len(o) + Len(c) /\ ~(2 <= Len(o)) /\ 2 - Len(o) = 1
    BY <1>1, <1>6
  <2>4. ASSUME NEW i \in 1..n PROVE s[i + 2] = a[i]
    <3>1. /\ i + 2 \in 1..Len(o) + Len(c) /\ ~(i + 2 <= Len(o))
          /\ (i + 2) - Len(o) = i + 1
      BY <1>1, <1>6
    <3> QED
      BY <1>4, <1>6, <3>1
  <2>5. s[1] = o[1] /\ s[n + 3] = c[n + 2] /\ s[2] = c[1]
    BY <1>4, <2>1, <2>2, <2>3
  <2> QED
    BY <1>1, <1>4, <1>6, <2>4, <2>5
<1> QED
  BY <1>0, <1>4, <1>7 DEF PathElements, n

LEMMA PathOf ==
  ASSUME NEW v \in Symbols, v # ">", NEW a \in Seq(Symbols \ {">"}),
         Text(FirstLine) = <<v>> \o Path0(a)
  PROVE  Path = a
<1> DEFINE s == <<v>> \o Path0(a)
           n == Len(a)
           I == {i \in 1..Len(s) : s[i] = ">"}
           k == SelectInSeq(s, LAMBDA c : c = ">")
<1>1. a \in Seq(Symbols) /\ n \in Nat /\ \A i \in 1..n : a[i] # ">"
  BY SeqMonotonic, LenProperties, ElementOfSeq
<1>2. Path = SubSeq(s, 3, k - 1)
  BY DEF Path
<1>3. k = IF I # {} THEN Min(I) ELSE 0
  BY DEF SelectInSeq
<1>4. /\ s \in Seq(Symbols) /\ Len(s) = n + 3
      /\ s[1] = v /\ s[2] = "<" /\ s[n + 3] = ">"
      /\ \A i \in 1..n : s[i + 2] = a[i]
  BY <1>1, PathText, ZenonT(30) DEF PathElements
<1> HIDE DEF s, n, k
<1>5. n + 3 \in I /\ I \subseteq Nat
  BY <1>1, <1>4
<1>6. ASSUME NEW i \in I PROVE i = n + 3
  <2>1. i \in 1..n + 3 /\ s[i] = ">"
    BY <1>4
  <2>2. i # 1 /\ i # 2
    BY <1>4, <2>1
  <2>3. CASE i < n + 3
    <3>1. i - 2 \in 1..n /\ (i - 2) + 2 = i
      BY <1>1, <2>1, <2>2, <2>3
    <3>2. s[i] = a[i - 2]
      BY <1>4, <3>1
    <3> QED
      BY <1>1, <2>1, <3>1, <3>2
  <2> QED
    BY <1>1, <2>1, <2>3
<1> HIDE DEF I
<1>7. k = n + 3
  <2>1. Min(I) \in I
    BY <1>5, LeastExists
  <2> QED
    BY <1>3, <1>5, <1>6, <2>1
<1> DEFINE m == k - 1
           t == SubSeq(s, 3, m)
<1>8. t = a
  <2>1. /\ 3 \in Int /\ m \in Int /\ m = n + 2
        /\ (IF 3 <= m THEN m - 3 + 1 ELSE 0) = n /\ m - 3 + 1 = n
        /\ \A i \in 1..n : 3 + i - 1 = i + 2
    BY <1>1, <1>7
  <2>2. \A i \in 3..m : s[i] \in Symbols
    <3>1. \A i \in 1..n + 3 : s[i] \in Symbols
      BY <1>4, ElementOfSeq
    <3> HIDE DEF m
    <3> QED
      BY <1>1, <2>1, <3>1
  <2> HIDE DEF m
  <2>3. /\ t \in Seq(Symbols) /\ Len(t) = IF 3 <= m THEN m - 3 + 1 ELSE 0
        /\ \A i \in 1..m - 3 + 1 : t[i] = s[3 + i - 1]
    BY <2>1, <2>2, SubSeqProperties
  <2> HIDE DEF t
  <2>4. Len(t) = n /\ \A i \in 1..n : t[i] = a[i]
    BY <1>4, <2>1, <2>3
  <2> QED
    BY <1>1, <2>3, <2>4, SeqEqual DEF n
<1> QED
  BY <1>2, <1>8

(* What replay makes of the sender of the file is the path of the sender   *)
(* that was stored.                                                        *)
LEMMA SenderPath ==
  ASSUME NEW a \in Seq(Symbols \ {">"})
  PROVE  /\ formatSender(sanitizeAddr(FormatNullSender(a))) = Path0(sanitizeAddr(a))
         /\ sanitizeAddr(a) \in Seq(Word)
<1> DEFINE f == sanitizeAddr(a)
<1>1. f \in Seq(Word)
  BY SanitizeIn
<1>2. NullSender # <<>>
  <2>1. Len(NullSender) = 2
    BY DEF NullSender
  <2> QED
    BY <2>1, NullSenderJoined, EmptySeq, SMTT(30)
<1>3. formatSender(NullSender) = NullSender
  BY <1>2 DEF formatSender, FormatNullSender
<1>4. CASE a = <<>>
  <2>1. sanitizeAddr(<<>>) = <<>>
    <3> DEFINE e == <<>>
               g == [i \in DOMAIN e |-> IF e[i] \in {CR, LF} THEN <<>> ELSE <<e[i]>>]
    <3>1. DOMAIN e = 1..0 /\ \A i : i \notin 1..0
      BY EmptySeq, LenProperties
    <3>2. g \in [1..0 -> {}]
      BY <3>1
    <3>3. sanitizeAddr(e) = FlattenSeq(g)
      BY DEF sanitizeAddr
    <3> HIDE DEF g
    <3> QED
      BY <3>2, <3>3, EmptyFunction, FlattenEmpty
  <2>2. FormatNullSender(a) = NullSender
    BY <1>4 DEF FormatNullSender
  <2> QED
    BY <1>1, <1>3, <1>4, <2>1, <2>2, SanitizeNull, NullSenderJoined
<1>5. CASE a # <<>>
  <2>1. FormatNullSender(a) = a
    BY <1>5 DEF FormatNullSender
  <2>2. CASE f = <<>>
    <3>1. formatSender(f) = NullSender
      BY <2>2 DEF formatSender, FormatNullSender
    <3> QED
      BY <1>1, <2>1, <2>2, <3>1, NullSenderJoined
  <2>3. CASE f # <<>>
    <3>1. f # NullSender
      <4>1. ASSUME f = NullSender PROVE FALSE
        <5>1. Len(f) = 2 /\ f[2] = ">"
          BY <4>1 DEF NullSender
        <5>2. 2 \in 1..Len(f)
          BY <5>1
        <5> HIDE DEF f
        <5>3. f[2] \in Word /\ ">" \notin Word
          BY <1>1, <5>2, ElementOfSeq DEF Word
        <5> QED
          BY <5>1, <5>3
      <4> QED
        BY <4>1
    <3>2. FormatNullSender(f) = f
      BY <2>3 DEF FormatNullSender
    <3>3. formatSender(f) = Path0(f)
      BY <3>1, <3>2 DEF formatSender, Path0
    <3> QED
      BY <1>1, <2>1, <3>3
  <2> QED
    BY <2>2, <2>3
<1> QED
  BY <1>4, <1>5

-----------------------------------------------------------------------------
(* A session in the content of this client.                                *)

(* It has read the lines l and has r before it, of which u has not been    *)
(* sent, or is lost.                                                       *)
Reading(l, r, u) ==
  /\ l \in Seq(Seq(Symbols \ {LF})) /\ r \in Seq(Seq(Symbols \ {LF}))
  /\ u \in Seq(Symbols)
  /\ l \o r = BodyLines(msg.body)
  /\ wire \o u = Stream(r)
  /\ skip = "no" => buf = Whole(l)
  /\ pc = "DATA" => wire = <<>> /\ l = <<>>
  /\ pc = "body" /\ open => u = Stream(todo)
  /\ pc = "sent" /\ open => u = <<>>

IsReading == \E l, r, u : Reading(l, r, u)

LEMMA LinesTyped ==
  ASSUME NEW r \in Seq(Seq(Symbols \ {LF}))
  PROVE  r \in Seq(Seq(Symbols)) /\ Stream(r) \in Seq(Symbols)
<1>1. Seq(Symbols \ {LF}) \subseteq Seq(Symbols)
  BY SeqMonotonic
<1>2. r \in Seq(Seq(Symbols))
  BY <1>1, SeqMonotonic
<1>3. "." \in Symbols
  BY DEF Symbols
<1> QED
  BY <1>2, <1>3, SymbolsTyped, StreamIn

LEMMA StreamEmpty == Stream(<<>>) = Terminator /\ Terminator = Terminator \o <<>>
<1> DEFINE e == <<>>
           g == StuffAll(e)
<1>1. DOMAIN e = 1..0 /\ \A i : i \notin 1..0
  BY EmptySeq, LenProperties
<1>2. g \in [1..0 -> {}]
  BY <1>1 DEF StuffAll
<1>3. g = <<>>
  <2> HIDE DEF g
  <2> QED
    BY <1>2, EmptyFunction
<1>4. Terminator \in Seq(Symbols)
  <2>1. "." \in Symbols /\ e \in Seq(Seq(Symbols))
    BY EmptySeq DEF Symbols
  <2> QED
    BY <2>1, SymbolsTyped, StreamIn
<1>5. <<>> \o Terminator = Terminator /\ Terminator = Terminator \o <<>>
  BY <1>4, ConcatEmptySeq
<1> QED
  BY <1>3, <1>5, WholeEmpty DEF Stream

LEMMA NextOfContent ==
  ASSUME Typed, HasLine, NEW l, NEW r, NEW u, Reading(l, r, u)
  PROVE  /\ AfterLine \in Seq(Symbols)
         /\ r = <<>> => IsDot(FirstLine) /\ AfterLine = <<>> /\ u = <<>>
         /\ r # <<>> => /\ Text(FirstLine) = Stuffed(Head(r))
                        /\ AfterLine \o u = Stream(Tail(r))
                        /\ ~IsDot(FirstLine)
                        /\ Head(r) \in Seq(Symbols \ {LF})
                        /\ Tail(r) \in Seq(Seq(Symbols \ {LF}))
<1>1. /\ wire \in Seq(Symbols) /\ u \in Seq(Symbols) /\ wire \o u = Stream(r)
      /\ r \in Seq(Seq(Symbols \ {LF}))
  BY DEF Typed, StreamTyped, Reading
<1>2. AfterLine \in Seq(Symbols)
  BY <1>1, NextLineFound DEF NextLine
<1>3. CASE r = <<>>
  <2> DEFINE d == <<".">>
  <2>1. wire \o u = (d \o CRLF) \o <<>>
    <3>1. wire \o u = Terminator \o <<>>
      BY <1>1, <1>3, StreamEmpty
    <3> QED
      BY <3>1 DEF Terminator
  <2>2. d \in Seq(Symbols \ {LF}) /\ <<>> \in Seq(Symbols)
    <3>1. "." \in Symbols \ {LF}
      BY DEF Symbols, LF
    <3> QED
      BY <3>1, Single, EmptySeq
  <2> HIDE DEF d
  <2>3. NextIs(u, d, <<>>)
    BY <1>1, <2>1, <2>2 DEF NextIs
  <2>4. Text(FirstLine) = d /\ AfterLine \o u = <<>>
    BY <1>1, <2>3, LineTaken
  <2>5. AfterLine = <<>> /\ u = <<>>
    BY <1>1, <1>2, <2>4, EmptyConcat
  <2> QED
    BY <1>2, <1>3, <2>4, <2>5 DEF IsDot, d
<1>4. CASE r # <<>>
  <2> DEFINE x == Head(r)
             t == Tail(r)
  <2>1. x \in Seq(Symbols \ {LF}) /\ t \in Seq(Seq(Symbols \ {LF}))
    BY <1>1, <1>4, HeadTyped
  <2>2. x \in Seq(Symbols)
    BY <2>1, SeqMonotonic
  <2>3. Stream(t) \in Seq(Symbols) /\ r \in Seq(Seq(Symbols))
    BY <1>1, <2>1, LinesTyped
  <2>4. "." \in Symbols \ {LF} /\ "." \in Symbols
    BY DEF Symbols, LF
  <2>5. Stream(r) = (Stuffed(x) \o CRLF) \o Stream(t)
    BY <1>4, <2>3, <2>4, SymbolsTyped, StreamHead
  <2>6. Stuffed(x) \in Seq(Symbols \ {LF})
    BY <2>1, <2>4, StuffedIn
  <2>7. Stuffed(x) # <<".">>
    BY <2>2, StuffedReads
  <2> DEFINE y == Stuffed(x)
             v == Stream(t)
  <2>8. y \in Seq(Symbols \ {LF}) /\ v \in Seq(Symbols) /\ wire \o u = (y \o CRLF) \o v
    BY <1>1, <2>3, <2>5, <2>6
  <2> HIDE DEF x, t, y, v
  <2>9. NextIs(u, y, v)
    BY <1>1, <2>8 DEF NextIs
  <2>10. Text(FirstLine) = y /\ AfterLine \o u = v
    BY <1>1, <2>9, LineTaken
  <2> QED
    BY <1>2, <1>4, <2>1, <2>7, <2>10 DEF IsDot, y, v, x, t
<1> QED
  BY <1>3, <1>4

(* One more line has been read.                                            *)
LEMMA LinesMove ==
  ASSUME NEW E, NEW l \in Seq(E), NEW r \in Seq(E), r # <<>>
  PROVE  Append(l, Head(r)) \o Tail(r) = l \o r
<1> DEFINE x == Head(r)
           t == Tail(r)
           o == <<x>>
<1>1. x \in E /\ t \in Seq(E)
  BY HeadTyped
<1>2. o \in Seq(E) /\ Len(o) = 1 /\ o[1] = x
  BY <1>1, Single
<1>3. r = o \o t
  <2> DEFINE c == o \o t
  <2>1. /\ x = r[1] /\ Len(t) = Len(r) - 1 /\ Len(r) \in Nat \ {0}
        /\ \A i \in 1..Len(r) - 1 : t[i] = r[i + 1]
    BY HeadTailProperties, EmptySeq
  <2> HIDE DEF o, t, x
  <2>2. /\ c \in Seq(E) /\ Len(c) = Len(o) + Len(t)
        /\ \A i \in 1..Len(o) + Len(t) : c[i] = IF i <= Len(o) THEN o[i] ELSE t[i - Len(o)]
    BY <1>1, <1>2, ConcatProperties
  <2> HIDE DEF c
  <2>3. ASSUME NEW i \in 1..Len(r) PROVE r[i] = c[i]
    <3>1. CASE i = 1
      BY <1>2, <2>1, <2>2, <3>1
    <3>2. CASE i # 1
      <4>1. i - 1 \in 1..Len(r) - 1 /\ (i - 1) + 1 = i
        BY <2>1, <3>2
      <4>2. c[i] = t[i - 1]
        BY <1>2, <2>1, <2>2, <3>2
      <4> QED
        BY <2>1, <4>1, <4>2
    <3> QED
      BY <3>1, <3>2
  <2>4. Len(c) = Len(r)
    BY <1>2, <2>1, <2>2
  <2>5. r = c
    BY <2>2, <2>3, <2>4, SeqEqual
  <2> QED
    BY <2>5 DEF c
<1>4. Append(l, x) = l \o o
  BY <1>1, AppendIsConcat
<1> HIDE DEF o, t, x
<1>5. l \o (o \o t) = (l \o o) \o t
  <2>1. Regroups(l, o, t)
    BY <1>1, <1>2, Associative
  <2> QED
    BY <2>1 DEF Regroups
<1> QED
  BY <1>3, <1>4, <1>5 DEF x, t

LEMMA LineStaysReading ==
  ASSUME Typed, IsReading, LongLine \/ SkipLine \/ KeepLine
  PROVE  IsReading'
<1>1. PICK l, r, u : Reading(l, r, u)
  BY DEF IsReading
<1>2. /\ TakeLine /\ HasLine /\ wire' = AfterLine
      /\ UNCHANGED <<msg, pc, open, todo>>
  BY DEF LongLine, SkipLine, KeepLine, TakeLine, clientVars
<1>3. NextLine(FirstLine, AfterLine)
  BY <1>2, TakenTyped DEF Typed
<1>4. ~IsDot(FirstLine)
  <2>1. CASE LongLine
    BY <1>3, <2>1, LongIsNoDot DEF LongLine
  <2>2. CASE SkipLine \/ KeepLine
    BY <2>2 DEF SkipLine, KeepLine
  <2> QED
    BY <2>1, <2>2
<1>5. r # <<>>
  BY <1>1, <1>2, <1>4, NextOfContent
<1> DEFINE x == Head(r)
           m == Append(l, x)
           t == Tail(r)
           F == Symbols \ {LF}
<1>6. /\ Text(FirstLine) = Stuffed(x) /\ AfterLine \o u = Stream(t)
      /\ x \in Seq(F) /\ t \in Seq(Seq(F))
  BY <1>1, <1>2, <1>5, NextOfContent
<1>7. /\ l \in Seq(Seq(F)) /\ r \in Seq(Seq(F)) /\ u \in Seq(Symbols)
      /\ l \o r = BodyLines(msg.body)
      /\ skip = "no" => buf = Whole(l)
      /\ pc = "DATA" => wire = <<>>
      /\ pc = "body" /\ open => u = Stream(todo)
      /\ pc = "sent" /\ open => u = <<>>
  BY <1>1 DEF Reading
<1>8. m \in Seq(Seq(F)) /\ m \o t = BodyLines(msg.body)
  <2>1. m \in Seq(Seq(F))
    BY <1>6, <1>7, AppendProperties
  <2> HIDE DEF F
  <2>2. m \o t = l \o r
    BY <1>5, <1>7, LinesMove
  <2> QED
    BY <1>7, <2>1, <2>2
<1>9. pc # "DATA"
  <2>1. wire # <<>>
    BY <1>2 DEF HasLine, Range
  <2> QED
    BY <1>7, <2>1
<1>10. skip' = "no" => buf' = Whole(m)
  <2> SUFFICES ASSUME skip' = "no" PROVE buf' = Whole(m)
    OBVIOUS
  <2> DEFINE text == Unstuffed(Text(FirstLine))
  <2>1. skip = "no" /\ buf' = (buf \o text) \o CRLF
    <3>1. CASE LongLine
      BY <3>1 DEF LongLine
    <3>2. CASE SkipLine
      BY <3>2 DEF SkipLine, sessionVars, contentVars
    <3>3. CASE KeepLine
      <4>1. /\ skip = "no"
            /\ IF Overflows(text) THEN skip' = "large" /\ UNCHANGED buf
               ELSE buf' = buf \o text \o CRLF /\ UNCHANGED skip
        BY <3>3 DEF KeepLine
      <4> QED
        BY <4>1
    <3> QED
      BY <3>1, <3>2, <3>3
  <2>2. x \in Seq(Symbols) /\ l \in Seq(Seq(Symbols))
    BY <1>6, <1>7, LinesTyped, SeqMonotonic
  <2>3. text = x
    BY <1>6, <2>2, StuffedReads
  <2>4. Whole(l) \in Seq(Symbols) /\ Whole(m) = Whole(l) \o (x \o CRLF)
    BY <2>2, SymbolsTyped, WholeAppend
  <2> HIDE DEF text, m, x, CRLF
  <2>5. Whole(l) \o (x \o CRLF) = (Whole(l) \o x) \o CRLF
    <3>1. Whole(l) \in Seq(Symbols) /\ x \in Seq(Symbols) /\ CRLF \in Seq(Symbols)
      BY <2>2, <2>4, DotTyped
    <3>2. Regroups(Whole(l), x, CRLF)
      BY <3>1, Associative
    <3> QED
      BY <3>2 DEF Regroups
  <2> QED
    BY <1>7, <2>1, <2>3, <2>4, <2>5
<1> HIDE DEF m, t, x
<1>11. PICK p, q : p = m /\ q = t
  OBVIOUS
<1>12. Reading(p, q, u)'
  BY <1>2, <1>6, <1>7, <1>8, <1>9, <1>10, <1>11 DEF Reading
<1> QED
  BY <1>12 DEF IsReading

(* A prefix, and what follows it.                                          *)
LEMMA PrefixRest ==
  ASSUME NEW E, NEW s \in Seq(E), NEW p \in Prefixes(s)
  PROVE  /\ p \in Seq(E)
         /\ \E v \in Seq(E) : p \o v = s
         /\ Len(p) <= Len(s) /\ \A i \in 1..Len(p) : p[i] = s[i]
<1>1. PICK k \in 0..Len(s) : p = SubSeq(s, 1, k)
  BY DEF Prefixes
<1> DEFINE n == Len(s)
           v == SubSeq(s, k + 1, n)
           c == p \o v
<1>2. n \in Nat /\ k \in Nat /\ k <= n /\ k \in Int /\ \A i \in 1..n : s[i] \in E
  BY LenProperties, ElementOfSeq
<1>3. p \in Seq(E) /\ Len(p) = k /\ \A i \in 1..k : p[i] = s[i]
  BY <1>1, <1>2, BeginsProperties DEF Begins
<1>4. v \in Seq(E) /\ Len(v) = n - k /\ \A i \in 1..n - k : v[i] = s[k + i]
  <2> DEFINE j == k + 1
  <2>1. j \in Int /\ n \in Int /\ n - j + 1 = n - k /\ (\A i \in j..n : s[i] \in E)
        /\ (j <= n <=> n - k # 0) /\ \A i \in 1..n - k : j + i - 1 = k + i
    BY <1>2
  <2> HIDE DEF j, n
  <2>2. /\ SubSeq(s, j, n) \in Seq(E)
        /\ Len(SubSeq(s, j, n)) = IF j <= n THEN n - j + 1 ELSE 0
        /\ \A i \in 1..n - j + 1 : SubSeq(s, j, n)[i] = s[j + i - 1]
    BY <2>1, SubSeqProperties
  <2> QED
    BY <2>1, <2>2 DEF j
<1> HIDE DEF v, n
<1>5. /\ c \in Seq(E) /\ Len(c) = Len(p) + Len(v)
      /\ \A i \in 1..Len(p) + Len(v) : c[i] = IF i <= Len(p) THEN p[i] ELSE v[i - Len(p)]
  BY <1>3, <1>4, ConcatProperties
<1> HIDE DEF c
<1>6. ASSUME NEW i \in 1..n PROVE c[i] = s[i]
  <2>1. i \in 1..Len(p) + Len(v)
    BY <1>2, <1>3, <1>4
  <2>2. CASE i <= k
    <3>1. i \in 1..k
      BY <1>2, <2>2
    <3> QED
      BY <1>3, <1>5, <2>1, <2>2, <3>1
  <2>3. CASE ~(i <= k)
    <3>1. i - k \in 1..n - k /\ k + (i - k) = i
      BY <1>2, <2>3
    <3> QED
      BY <1>3, <1>4, <1>5, <2>1, <2>3, <3>1
  <2> QED
    BY <2>2, <2>3
<1>7. Len(c) = n
  BY <1>2, <1>3, <1>4, <1>5
<1>8. c = s
  BY <1>5, <1>6, <1>7, SeqEqual DEF n
<1> QED
  BY <1>2, <1>3, <1>4, <1>8 DEF c, n

LEMMA CutReading ==
  ASSUME Typed, IsReading, wire' \in Prefixes(wire), ~open',
         UNCHANGED <<msg, pc, buf, skip>>
  PROVE  IsReading'
<1>1. PICK l, r, u : Reading(l, r, u)
  BY DEF IsReading
<1>2. wire \in Seq(Symbols)
  BY DEF Typed, StreamTyped
<1>3. PICK v \in Seq(Symbols) :
        wire' \o v = wire /\ wire' \in Seq(Symbols) /\ Len(wire') <= Len(wire)
  BY <1>2, PrefixRest
<1>4. /\ l \in Seq(Seq(Symbols \ {LF})) /\ r \in Seq(Seq(Symbols \ {LF}))
      /\ u \in Seq(Symbols) /\ l \o r = BodyLines(msg.body) /\ wire \o u = Stream(r)
      /\ skip = "no" => buf = Whole(l)
      /\ pc = "DATA" => wire = <<>> /\ l = <<>>
  BY <1>1 DEF Reading
<1> DEFINE t == v \o u
<1>5. t \in Seq(Symbols)
  BY <1>3, <1>4, ConcatProperties
<1>6. wire' \o t = Stream(r)
  <2>1. wire' \o (v \o u) = (wire' \o v) \o u
    <3>1. Regroups(wire', v, u)
      BY <1>3, <1>4, Associative
    <3> QED
      BY <3>1 DEF Regroups
  <2> QED
    BY <1>3, <1>4, <2>1
<1>7. wire = <<>> => wire' = <<>>
  BY <1>3, EmptySeq, LenProperties
<1> HIDE DEF t
<1>8. PICK q : q = t
  OBVIOUS
<1>9. Reading(l, r, q)'
  BY <1>4, <1>5, <1>6, <1>7, <1>8 DEF Reading
<1> QED
  BY <1>9 DEF IsReading

LEMMA EndReading ==
  ASSUME IsReading, UNCHANGED <<msg, wire, buf, skip>>, pc' = "done"
  PROVE  IsReading'
<1>1. PICK l, r, u : Reading(l, r, u)
  BY DEF IsReading
<1>2. Reading(l, r, u)'
  BY <1>1 DEF Reading
<1> QED
  BY <1>2 DEF IsReading

(* The session has just sent its 354 and nothing has come yet.             *)
LEMMA StartsReading ==
  ASSUME msg \in Message, wire' = <<>>, buf' = <<>>, UNCHANGED <<msg, pc, open>>,
         pc \in {"body", "sent"} => ~open
  PROVE  IsReading'
<1> DEFINE r == BodyLines(msg.body)
           u == Stream(r)
           l == <<>>
<1>1. r \in Seq(Seq(Symbols \ {LF})) /\ l \in Seq(Seq(Symbols \ {LF}))
  BY EmptySeq, BodyLinesIn DEF Message
<1>2. u \in Seq(Symbols)
  BY <1>1, LinesTyped
<1>3. l \o r = r /\ <<>> \o u = u
  <2>1. l \o r = r
    <3> HIDE DEF r
    <3> QED
      BY <1>1, ConcatEmptySeq
  <2>2. <<>> \o u = u
    <3> HIDE DEF u
    <3> QED
      BY <1>2, ConcatEmptySeq
  <2> QED
    BY <2>1, <2>2
<1>4. Whole(l) = <<>>
  BY WholeEmpty
<1> HIDE DEF r, u, l
<1>5. PICK p, q, v : p = l /\ q = r /\ v = u
  OBVIOUS
<1>6. Reading(p, q, v)'
  <2>1. (BodyLines(msg.body))' = q
    BY <1>5 DEF r
  <2>2. (wire \o v = Stream(q))'
    BY <1>3, <1>5 DEF u
  <2>3. p \o q = q /\ p = <<>>
    BY <1>3, <1>5 DEF l
  <2> QED
    BY <1>1, <1>2, <1>4, <1>5, <2>1, <2>2, <2>3 DEF Reading
<1> QED
  BY <1>6 DEF IsReading

(* What the client sends is what the content lacks.                        *)
LEMMA SendLineReading ==
  ASSUME Typed, IsReading, SendLine
  PROVE  IsReading'
<1>1. PICK l, r, u : Reading(l, r, u)
  BY DEF IsReading
<1> DEFINE piece == Stuffed(Head(todo)) \o CRLF
           v == Stream(Tail(todo))
<1>2. /\ pc = "body" /\ todo # <<>> /\ todo \in Seq(Seq(Symbols)) /\ wire \in Seq(Symbols)
      /\ wire' = IF open THEN wire \o piece ELSE wire
      /\ todo' = Tail(todo)
      /\ UNCHANGED <<msg, pc, open, buf, skip>>
  BY DEF SendLine, Send, Typed, ClientTyped, StreamTyped, sessionVars, contentVars
<1>3. /\ l \in Seq(Seq(Symbols \ {LF})) /\ r \in Seq(Seq(Symbols \ {LF}))
      /\ u \in Seq(Symbols) /\ l \o r = BodyLines(msg.body) /\ wire \o u = Stream(r)
      /\ skip = "no" => buf = Whole(l)
      /\ open => u = Stream(todo)
  BY <1>1, <1>2 DEF Reading
<1>4. CASE open
  <2>1. "." \in Symbols /\ CRLF \in Seq(Symbols)
    BY DotTyped DEF Symbols
  <2>2. Stream(todo) = piece \o v
    BY <1>2, <2>1, SymbolsTyped, StreamHead
  <2>3. piece \in Seq(Symbols) /\ v \in Seq(Symbols)
    <3>1. Head(todo) \in Seq(Symbols) /\ Tail(todo) \in Seq(Seq(Symbols))
      BY <1>2, HeadTyped
    <3>2. Stuffed(Head(todo)) \in Seq(Symbols)
      BY <3>1, StuffedTyped
    <3> QED
      BY <2>1, <3>1, <3>2, SymbolsTyped, StreamIn, ConcatProperties
  <2>4. v = Stream(todo')
    BY <1>2
  <2> HIDE DEF piece, v
  <2>5. Regroups(wire, piece, v)
    BY <1>2, <2>3, Associative
  <2>6. wire' \o v = Stream(r)
    BY <1>2, <1>3, <1>4, <2>2, <2>5 DEF Regroups
  <2>7. PICK q : q = v
    OBVIOUS
  <2>8. Reading(l, r, q)'
    BY <1>2, <1>3, <2>3, <2>4, <2>6, <2>7 DEF Reading
  <2> QED
    BY <2>8 DEF IsReading
<1>5. CASE ~open
  <2>1. Reading(l, r, u)'
    BY <1>1, <1>2, <1>3, <1>5 DEF Reading
  <2> QED
    BY <2>1 DEF IsReading
<1> QED
  BY <1>4, <1>5

LEMMA SendDotReading ==
  ASSUME Typed, IsReading, SendDot
  PROVE  IsReading'
<1>1. PICK l, r, u : Reading(l, r, u)
  BY DEF IsReading
<1>2. /\ pc = "body" /\ todo = <<>> /\ wire \in Seq(Symbols)
      /\ wire' = (IF open THEN wire \o Terminator ELSE wire)
      /\ pc' = "sent" /\ UNCHANGED <<msg, open, buf, skip>>
  BY DEF SendDot, Send, Goto, Typed, StreamTyped, sessionVars, contentVars, Terminator
<1>3. /\ l \in Seq(Seq(Symbols \ {LF})) /\ r \in Seq(Seq(Symbols \ {LF}))
      /\ u \in Seq(Symbols) /\ l \o r = BodyLines(msg.body) /\ wire \o u = Stream(r)
      /\ skip = "no" => buf = Whole(l)
      /\ open => u = Stream(todo)
  BY <1>1, <1>2 DEF Reading
<1>4. CASE open
  <2>1. u = Terminator
    BY <1>2, <1>3, <1>4, StreamEmpty
  <2>2. wire' = Stream(r)
    BY <1>2, <1>3, <1>4, <2>1
  <2>3. Stream(r) \o <<>> = Stream(r) /\ <<>> \in Seq(Symbols)
    BY <1>3, LinesTyped, ConcatEmptySeq, EmptySeq
  <2>4. wire' \o <<>> = Stream(r)
    BY <2>2, <2>3
  <2>5. Reading(l, r, <<>>)'
    BY <1>2, <1>3, <2>3, <2>4 DEF Reading
  <2> QED
    BY <2>5 DEF IsReading
<1>5. CASE ~open
  <2>1. Reading(l, r, u)'
    BY <1>1, <1>2, <1>3, <1>5 DEF Reading
  <2> QED
    BY <2>1 DEF IsReading
<1> QED
  BY <1>4, <1>5

LEMMA BeginReading ==
  ASSUME Typed, IsReading, BeginBody
  PROVE  IsReading'
<1>1. PICK l, r, u : Reading(l, r, u)
  BY DEF IsReading
<1>2. /\ pc = "DATA" /\ pc' = "body" /\ todo' = BodyLines(msg.body)
      /\ UNCHANGED <<msg, wire, open, buf, skip>>
  BY DEF BeginBody, Goto, sessionVars, contentVars
<1>3. /\ l = <<>> /\ wire = <<>> /\ r \in Seq(Seq(Symbols \ {LF})) /\ u \in Seq(Symbols)
      /\ l \o r = BodyLines(msg.body) /\ wire \o u = Stream(r)
  BY <1>1, <1>2 DEF Reading
<1>4. <<>> \o r = r /\ <<>> \o u = u
  BY <1>3, ConcatEmptySeq
<1>5. todo' = r /\ u = Stream(r)
  BY <1>2, <1>3, <1>4
<1>6. Reading(l, r, u)'
  BY <1>1, <1>2, <1>5 DEF Reading
<1> QED
  BY <1>6 DEF IsReading

LEMMA StreamSome ==
  ASSUME NEW t \in Seq(Seq(Symbols)) PROVE Stream(t) # <<>>
<1>1. "." \in Symbols
  BY DEF Symbols
<1> DEFINE w == Whole(StuffAll(t))
           e == Terminator
<1>2. e \in Seq(Symbols)
  BY <1>1, SymbolsTyped, StreamIn
<1>3. w \in Seq(Symbols)
  <2>1. StuffAll(t) \in Seq(Seq(Symbols))
    BY <1>1, StuffAllIn
  <2> QED
    BY <2>1, SymbolsTyped, WholeAppend, DotTyped
<1>4. Len(e) # 0
  <2> DEFINE d == <<".">>
  <2>1. d \in Seq(Symbols) /\ Len(d) = 1 /\ CRLF \in Seq(Symbols)
    BY <1>1, Single, DotTyped
  <2> HIDE DEF d
  <2>2. Len(d \o CRLF) = Len(d) + Len(CRLF) /\ Len(CRLF) \in Nat
    BY <2>1, ConcatProperties, LenProperties
  <2> QED
    BY <2>1, <2>2 DEF Terminator, d
<1> HIDE DEF w, e
<1>5. w \o e # <<>>
  <2> SUFFICES ASSUME w \o e = <<>> PROVE FALSE
    OBVIOUS
  <2>1. e = <<>>
    BY <1>2, <1>3, EmptyConcat
  <2> QED
    BY <1>4, <2>1, EmptySeq
<1> QED
  BY <1>5 DEF Stream, w, e

(* At the terminator the session has every line and nothing is left.       *)
LEMMA EndOfReading ==
  ASSUME Typed, IsReading, TakeLine, IsDot(FirstLine)
  PROVE  /\ wire' = <<>>
         /\ skip = "no" => buf = Whole(BodyLines(msg.body))
         /\ pc = "body" => ~open
<1>1. PICK l, r, u : Reading(l, r, u)
  BY DEF IsReading
<1>2. HasLine /\ wire' = AfterLine
  BY DEF TakeLine
<1>3. r = <<>> /\ AfterLine = <<>> /\ u = <<>>
  BY <1>1, <1>2, NextOfContent
<1>4. /\ l \in Seq(Seq(Symbols \ {LF})) /\ l \o r = BodyLines(msg.body)
      /\ skip = "no" => buf = Whole(l)
  BY <1>1 DEF Reading
<1>5. l \o <<>> = l
  BY <1>4, ConcatEmptySeq
<1>6. pc = "body" => ~open
  <2>1. todo \in Seq(Seq(Symbols))
    BY DEF Typed, ClientTyped
  <2>2. Stream(todo) # <<>>
    BY <2>1, StreamSome
  <2> QED
    BY <1>1, <1>3, <2>2 DEF Reading
<1> QED
  BY <1>2, <1>3, <1>4, <1>5, <1>6

-----------------------------------------------------------------------------
(* Replies under way.                                                      *)

(* A reply that ends a command, as the 421 of a server that stops does not.*)
IsFinal(x) == x.last /\ x.code # 421
Silent(s) == \A j \in 1..Len(s) : ~IsFinal(s[j])
OneFinal(s) == \A j, k \in 1..Len(s) : IsFinal(s[j]) /\ IsFinal(s[k]) => j = k
GrantedBy(s, code) == \E j \in 1..Len(s) : s[j].last /\ s[j].code = code

LEMMA NoReplies == Silent(<<>>)
BY EmptySeq DEF Silent

LEMMA SilentIsOne ==
  ASSUME NEW s, Silent(s)
  PROVE  OneFinal(s) /\ \A code : code # 421 => ~GrantedBy(s, code)
BY DEF Silent, OneFinal, GrantedBy, IsFinal

LEMMA TailReplies ==
  ASSUME NEW s \in Seq(ReplyLines), s # <<>>
  PROVE  /\ Tail(s) \in Seq(ReplyLines)
         /\ Silent(s) => Silent(Tail(s))
         /\ OneFinal(s) => OneFinal(Tail(s))
         /\ OneFinal(s) /\ IsFinal(Head(s)) => Silent(Tail(s))
         /\ \A code : GrantedBy(Tail(s), code) => GrantedBy(s, code)
         /\ Head(s).last => GrantedBy(s, Head(s).code)
<1> DEFINE t == Tail(s)
           n == Len(s)
<1>1. /\ t \in Seq(ReplyLines) /\ Len(t) = n - 1 /\ n \in Nat \ {0} /\ Head(s) = s[1]
      /\ \A i \in 1..n - 1 : t[i] = s[i + 1]
  BY HeadTailProperties, EmptySeq
<1> HIDE DEF t, n
<1>2. ASSUME NEW i \in 1..Len(t)
      PROVE  i + 1 \in 1..n /\ t[i] = s[i + 1] /\ i + 1 # 1
  BY <1>1
<1>3. 1 \in 1..n
  BY <1>1
<1>4. Silent(s) => Silent(t)
  BY <1>2 DEF Silent, n
<1>5. OneFinal(s) => OneFinal(t)
  <2> SUFFICES ASSUME OneFinal(s), NEW j \in 1..Len(t), NEW k \in 1..Len(t),
                      IsFinal(t[j]), IsFinal(t[k])
               PROVE  j = k
    BY DEF OneFinal
  <2>1. j + 1 \in 1..n /\ k + 1 \in 1..n /\ IsFinal(s[j + 1]) /\ IsFinal(s[k + 1])
    BY <1>2
  <2>2. j + 1 = k + 1
    BY <2>1 DEF OneFinal, n
  <2>3. Len(t) \in Nat
    BY <1>1
  <2> QED
    BY <2>2, <2>3
<1>6. OneFinal(s) /\ IsFinal(Head(s)) => Silent(t)
  <2> SUFFICES ASSUME OneFinal(s), IsFinal(s[1]), NEW j \in 1..Len(t), IsFinal(t[j])
               PROVE  FALSE
    BY <1>1 DEF Silent
  <2>1. j + 1 \in 1..n /\ IsFinal(s[j + 1]) /\ j + 1 # 1
    BY <1>2
  <2> QED
    BY <1>3, <2>1 DEF OneFinal, n
<1>7. ASSUME NEW code, GrantedBy(t, code) PROVE GrantedBy(s, code)
  <2>1. PICK j \in 1..Len(t) : t[j].last /\ t[j].code = code
    BY <1>7 DEF GrantedBy
  <2>2. j + 1 \in 1..n /\ s[j + 1].last /\ s[j + 1].code = code
    BY <1>2, <2>1
  <2> QED
    BY <2>2 DEF GrantedBy, n
<1>8. Head(s).last => GrantedBy(s, Head(s).code)
  BY <1>1, <1>3 DEF GrantedBy, n
<1> QED
  BY <1>1, <1>4, <1>5, <1>6, <1>7, <1>8 DEF t

LEMMA AppendReply ==
  ASSUME NEW s \in Seq(ReplyLines), NEW x \in ReplyLines
  PROVE  /\ Append(s, x) \in Seq(ReplyLines) /\ s \o <<x>> = Append(s, x)
         /\ Silent(s) /\ ~IsFinal(x) => Silent(Append(s, x))
         /\ Silent(s) => OneFinal(Append(s, x))
         /\ OneFinal(s) /\ ~IsFinal(x) => OneFinal(Append(s, x))
         /\ \A code : GrantedBy(Append(s, x), code) =>
                        GrantedBy(s, code) \/ (x.last /\ x.code = code)
<1> DEFINE t == Append(s, x)
           n == Len(s)
<1>1. /\ t \in Seq(ReplyLines) /\ Len(t) = n + 1 /\ n \in Nat
      /\ (\A i \in 1..n : t[i] = s[i]) /\ t[n + 1] = x
  BY AppendProperties, LenProperties
<1>0. s \o <<x>> = t
  BY AppendIsConcat
<1> HIDE DEF t, n
<1>2. ASSUME NEW i \in 1..Len(t)
      PROVE  \/ i \in 1..n /\ t[i] = s[i] /\ i # n + 1
             \/ i = n + 1 /\ t[i] = x
  <2>1. i \in 1..n + 1
    BY <1>1
  <2>2. i \in 1..n \/ i = n + 1
    BY <1>1, <2>1
  <2>3. i \in 1..n => i # n + 1
    BY <1>1
  <2> QED
    BY <1>1, <2>2, <2>3
<1>3. Silent(s) /\ ~IsFinal(x) => Silent(t)
  BY <1>2 DEF Silent, n
<1>4. Silent(s) => OneFinal(t)
  <2> SUFFICES ASSUME Silent(s), NEW j \in 1..Len(t), NEW k \in 1..Len(t),
                      IsFinal(t[j]), IsFinal(t[k])
               PROVE  j = k
    BY DEF OneFinal
  <2>1. j = n + 1 /\ k = n + 1
    BY <1>2 DEF Silent, n
  <2> QED
    BY <2>1
<1>5. OneFinal(s) /\ ~IsFinal(x) => OneFinal(t)
  <2> SUFFICES ASSUME OneFinal(s), ~IsFinal(x), NEW j \in 1..Len(t), NEW k \in 1..Len(t),
                      IsFinal(t[j]), IsFinal(t[k])
               PROVE  j = k
    BY DEF OneFinal
  <2>1. j \in 1..n /\ k \in 1..n /\ IsFinal(s[j]) /\ IsFinal(s[k])
    BY <1>2
  <2> QED
    BY <2>1 DEF OneFinal, n
<1>6. ASSUME NEW code, GrantedBy(t, code)
      PROVE  GrantedBy(s, code) \/ (x.last /\ x.code = code)
  <2>1. PICK j \in 1..Len(t) : t[j].last /\ t[j].code = code
    BY <1>6 DEF GrantedBy
  <2> QED
    BY <1>2, <2>1 DEF GrantedBy, n
<1> QED
  BY <1>0, <1>1, <1>3, <1>4, <1>5, <1>6 DEF t

LEMMA PrefixReplies ==
  ASSUME NEW s \in Seq(ReplyLines), NEW p \in Prefixes(s)
  PROVE  /\ p \in Seq(ReplyLines)
         /\ Silent(s) => Silent(p)
         /\ OneFinal(s) => OneFinal(p)
         /\ \A code : GrantedBy(p, code) => GrantedBy(s, code)
<1>1. /\ p \in Seq(ReplyLines) /\ Len(p) <= Len(s) /\ Len(s) \in Nat /\ Len(p) \in Nat
      /\ \A i \in 1..Len(p) : p[i] = s[i]
  BY PrefixRest, LenProperties
<1>2. ASSUME NEW i \in 1..Len(p) PROVE i \in 1..Len(s) /\ p[i] = s[i]
  BY <1>1
<1>3. Silent(s) => Silent(p)
  BY <1>2 DEF Silent
<1>4. OneFinal(s) => OneFinal(p)
  BY <1>2 DEF OneFinal
<1>5. ASSUME NEW code, GrantedBy(p, code) PROVE GrantedBy(s, code)
  BY <1>2, <1>5 DEF GrantedBy
<1> QED
  BY <1>1, <1>3, <1>4, <1>5

-----------------------------------------------------------------------------
(* Commands under way.                                                     *)

NoEnd(s) == \A i \in 1..Len(s) : s[i] # LF
OneLine(s) == \A i \in 1..Len(s) - 1 : s[i] # LF

LEMMA NoEndNoLine ==
  ASSUME wire \in Seq(Symbols), NoEnd(wire)
  PROVE  ~HasLine /\ OneLine(wire)
<1>1. Len(wire) \in Nat /\ DOMAIN wire = 1..Len(wire)
  BY LenProperties
<1> QED
  BY <1>1 DEF NoEnd, OneLine, HasLine, Range

LEMMA EmptyNoEnd == NoEnd(<<>>)
BY EmptySeq DEF NoEnd

LEMMA PrefixNoEnd ==
  ASSUME NEW s \in Seq(Symbols), NEW p \in Prefixes(s)
  PROVE  /\ p \in Seq(Symbols)
         /\ NoEnd(s) => NoEnd(p)
         /\ OneLine(s) => OneLine(p)
         /\ OneLine(s) => p = s \/ NoEnd(p)
         /\ s = <<>> => p = <<>>
<1>1. /\ p \in Seq(Symbols) /\ Len(p) <= Len(s) /\ Len(s) \in Nat /\ Len(p) \in Nat
      /\ \A i \in 1..Len(p) : p[i] = s[i]
  BY PrefixRest, LenProperties
<1>2. NoEnd(s) => NoEnd(p)
  BY <1>1 DEF NoEnd
<1>3. OneLine(s) => OneLine(p)
  BY <1>1 DEF OneLine
<1>4. ASSUME OneLine(s), p # s PROVE NoEnd(p)
  <2>1. Len(p) # Len(s)
    BY <1>1, <1>4, SeqEqual
  <2> QED
    BY <1>1, <1>4, <2>1 DEF OneLine, NoEnd
<1>5. s = <<>> => p = <<>>
  BY <1>1, EmptySeq
<1> QED
  BY <1>1, <1>2, <1>3, <1>4, <1>5

LEMMA LastLine ==
  ASSUME wire \in Seq(Symbols), HasLine, OneLine(wire)
  PROVE  AfterLine = <<>> /\ FirstLine[1] = wire[1]
<1> DEFINE line == FirstLine
           rest == AfterLine
           k == Len(line)
<1>1. /\ line \in Seq(Symbols) /\ rest \in Seq(Symbols)
      /\ k \in Nat \ {0} /\ k <= Len(wire)
      /\ \A i \in 1..k : line[i] = wire[i]
      /\ \A i \in 1..k : line[i] = LF <=> i = k
  BY NextLineFound DEF NextLine
<1>2. wire = line \o rest
  BY WireSplit
<1> HIDE DEF line, rest
<1>3. Len(wire) \in Nat /\ k \in 1..k /\ 1 \in 1..k
  BY <1>1, LenProperties
<1>4. k = Len(wire)
  <2>1. wire[k] = LF
    BY <1>1, <1>3
  <2> QED
    BY <1>1, <1>3, <2>1 DEF OneLine
<1>5. Len(line \o rest) = k + Len(rest) /\ Len(rest) \in Nat
  BY <1>1, ConcatProperties, LenProperties
<1>6. Len(rest) = 0
  BY <1>1, <1>2, <1>4, <1>5
<1>7. rest = <<>>
  BY <1>1, <1>6, EmptySeq
<1> QED
  BY <1>1, <1>3, <1>7 DEF line, rest

LEMMA CommandRead ==
  ASSUME wire \in Seq(Symbols), NEW v \in Symbols \ {LF}, NEW a \in Seq(Symbols \ {LF}),
         wire = Command(v, a)
  PROVE  /\ HasLine /\ FirstLine[1] = v /\ wire[1] = v
         /\ Text(FirstLine) = <<v>> \o a /\ AfterLine = <<>>
         /\ OneLine(wire) /\ wire # <<>>
<1> DEFINE o == <<v>>
           x == o \o a
           y == x \o CRLF
           n == Len(x)
<1>1. o \in Seq(Symbols \ {LF}) /\ Len(o) = 1 /\ o[1] = v
  BY Single
<1> HIDE DEF o
<1>2. /\ x \in Seq(Symbols \ {LF}) /\ n = 1 + Len(a) /\ Len(a) \in Nat /\ x[1] = v
  <2>1. /\ x \in Seq(Symbols \ {LF}) /\ n = Len(o) + Len(a)
        /\ \A i \in 1..Len(o) + Len(a) : x[i] = IF i <= Len(o) THEN o[i] ELSE a[i - Len(o)]
    BY <1>1, ConcatProperties
  <2>2. Len(a) \in Nat
    BY LenProperties
  <2> HIDE DEF x
  <2>3. 1 \in 1..Len(o) + Len(a) /\ 1 <= Len(o)
    BY <1>1, <2>2
  <2> QED
    BY <1>1, <2>1, <2>2, <2>3
<1>3. wire = y
  BY DEF Command, o
<1> HIDE DEF x
<1>4. x \in Seq(Symbols) /\ n \in Nat /\ \A i \in 1..n : x[i] # LF
  BY <1>2, SeqMonotonic, LenProperties, ElementOfSeq
<1>5. /\ y \in Seq(Symbols) /\ Len(y) = n + 2
      /\ (\A i \in 1..n : y[i] = x[i]) /\ y[n + 1] = CR /\ y[n + 2] = LF
  <2> DEFINE c == Append(x, CR)
             b == Append(c, LF)
  <2>1. y = b
    BY <1>4, SymbolsTyped, LineEndAppend
  <2>2. /\ c \in Seq(Symbols) /\ Len(c) = n + 1
        /\ (\A i \in 1..n : c[i] = x[i]) /\ c[n + 1] = CR
    BY <1>4, SymbolsTyped, AppendProperties
  <2> HIDE DEF c, n
  <2>3. /\ b \in Seq(Symbols) /\ Len(b) = Len(c) + 1
        /\ (\A i \in 1..Len(c) : b[i] = c[i]) /\ b[Len(c) + 1] = LF
    BY <2>2, SymbolsTyped, AppendProperties
  <2> HIDE DEF b, y
  <2> QED
    BY <1>4, <2>1, <2>2, <2>3
<1> HIDE DEF y, n
<1>6. wire # <<>> /\ wire[1] = v
  BY <1>2, <1>3, <1>5, EmptySeq
<1>7. HasLine
  <2>1. n + 2 \in 1..Len(wire) /\ wire[n + 2] = LF
    BY <1>3, <1>4, <1>5
  <2>2. DOMAIN wire = 1..Len(wire)
    BY LenProperties
  <2> QED
    BY <2>1, <2>2 DEF HasLine, Range
<1>8. OneLine(wire)
  <2> SUFFICES ASSUME NEW i \in 1..Len(wire) - 1 PROVE wire[i] # LF
    BY DEF OneLine
  <2>1. i \in 1..n \/ i = n + 1
    BY <1>3, <1>4, <1>5
  <2> QED
    BY <1>3, <1>4, <1>5, <2>1, SymbolsTyped
<1>9. AfterLine = <<>> /\ FirstLine[1] = wire[1]
  BY <1>7, <1>8, LastLine
<1>10. Text(FirstLine) = x
  <2>1. <<>> \in Seq(Symbols) /\ wire \o <<>> = wire /\ y \o <<>> = y
    BY <1>5, EmptySeq, ConcatEmptySeq
  <2>2. NextIs(<<>>, x, <<>>)
    <3>1. wire \o <<>> = (x \o CRLF) \o <<>>
      BY <1>3, <2>1 DEF y
    <3> QED
      BY <1>2, <2>1, <3>1 DEF NextIs
  <2> QED
    BY <1>7, <2>2, LineTaken
<1> QED
  BY <1>6, <1>7, <1>8, <1>9, <1>10 DEF x, o

-----------------------------------------------------------------------------
(* The message that a replay carries.                                      *)

Copied == message \in Messages /\ msg = Stored(message)
Sender == sanitizeAddr(message.from)

LEMMA MessageIs ==
  ASSUME Copied
  PROVE  /\ msg \in Message /\ message.body \in Seq(Symbols) /\ msg.body = message.body
         /\ formatSender(msg.from) = Path0(Sender) /\ Sender \in Seq(Word)
         /\ msg.to \in Seq(Seq(Word))
         /\ Sent(message) = [from |-> Sender, to |-> msg.to,
                             body |-> Normalised(message.body)]
<1>1. /\ message \in Message
      /\ message.from \in Seq(Symbols \ {">"})
      /\ message.to \in Seq(Seq(Symbols \ {">"}))
  BY MessagesAssumption, AddressAssumption DEF Copied, Message
<1>2. /\ message.from \in Seq(Symbols) /\ message.to \in Seq(Seq(Symbols))
      /\ message.body \in Seq(Symbols)
  BY <1>1 DEF Message
<1>3. msg \in Message
  BY <1>2, StoredTyped DEF Copied
<1>4. /\ msg.from = sanitizeAddr(FormatNullSender(message.from))
      /\ msg.to = Clean(message.to) /\ msg.body = message.body
  BY DEF Copied, Stored, Clean
<1>5. formatSender(msg.from) = Path0(Sender) /\ Sender \in Seq(Word)
  BY <1>1, <1>4, SenderPath DEF Sender
<1>6. msg.to \in Seq(Seq(Word))
  BY <1>1, <1>4, CleanIn
<1>7. Sent(message) = [from |-> Sender, to |-> msg.to, body |-> Normalised(message.body)]
  BY <1>4 DEF Sent, Clean, Sender
<1> QED
  BY <1>2, <1>3, <1>4, <1>5, <1>6, <1>7

LEMMA SameReading ==
  ASSUME IsReading, UNCHANGED <<msg, pc, open, todo, wire, buf, skip>>
  PROVE  IsReading'
<1>1. PICK l, r, u : Reading(l, r, u)
  BY DEF IsReading
<1>2. Reading(l, r, u)'
  BY <1>1 DEF Reading
<1> QED
  BY <1>2 DEF IsReading

LEMMA PartsIn ==
  ASSUME NEW E, NEW F, NEW p \in Seq(F), NEW q \in Seq(F), p \o q \in Seq(E)
  PROVE  p \in Seq(E) /\ q \in Seq(E)
<1> DEFINE s == p \o q
<1>1. /\ s \in Seq(F) /\ Len(s) = Len(p) + Len(q)
      /\ \A i \in 1..Len(p) + Len(q) : s[i] = IF i <= Len(p) THEN p[i] ELSE q[i - Len(p)]
  BY ConcatProperties
<1>2. Len(p) \in Nat /\ Len(q) \in Nat
  BY LenProperties
<1>3. s \in Seq(E)
  OBVIOUS
<1> HIDE DEF s
<1>4. \A i \in 1..Len(s) : s[i] \in E
  BY <1>3, ElementOfSeq
<1>5. ASSUME NEW i \in 1..Len(p) PROVE p[i] \in E
  BY <1>1, <1>2, <1>4
<1>6. ASSUME NEW i \in 1..Len(q) PROVE q[i] \in E
  <2>1. i + Len(p) \in 1..Len(s) /\ ~(i + Len(p) <= Len(p)) /\ (i + Len(p)) - Len(p) = i
    BY <1>1, <1>2
  <2>2. s[i + Len(p)] = q[i]
    BY <1>1, <2>1
  <2> QED
    BY <1>4, <2>1, <2>2
<1> QED
  <2>1. p \in [1..Len(p) -> F] /\ q \in [1..Len(q) -> F]
    BY LenProperties
  <2>2. p \in [1..Len(p) -> E] /\ q \in [1..Len(q) -> E]
    BY <1>5, <1>6, <2>1
  <2> QED
    BY <1>2, <2>2, FunctionIsSeq

-----------------------------------------------------------------------------
(* Nothing is delivered in part.                                           *)

NoData == Symbols \ {"DATA"}
NoDataLine == message.body \in Seq(NoData)

(* What is left of a content that has ended early: it holds no DATA, or no *)
(* more of it will come.                                                   *)
Cut == NoDataLine \/ ~open

Ready == from = Sender /\ to = msg.to /\ message.body # <<>>

(* A command of the client has not been read: what it says and what the    *)
(* session has accepted before it.                                         *)
Asked(verb, arg) == phase = "command" /\ wire = Command(verb, arg)

AskedNext(a) ==
  a \in Seq(Word) /\ Asked("RCPT", Path0(a)) /\ Append(to, a) \o todo = msg.to

Unread ==
  /\ pc = "greeting" => phase = "greet" /\ wire = <<>>
  /\ pc = "EHLO" => Asked("EHLO", <<>>)
  /\ pc = "MAIL" => Asked("MAIL", Path0(Sender))
  /\ pc = "RCPT" => from = Sender /\ \E a : AskedNext(a)
  /\ pc = "DATA" => Asked("DATA", <<>>) /\ Ready

(* What the session has accepted when it has granted the last command.     *)
Accepted ==
  /\ pc = "MAIL" => from = Sender /\ to = <<>>
  /\ pc = "RCPT" => from = Sender /\ to \o todo = msg.to

Content == phase = "content" => handled = <<>> /\ Ready /\ IsReading

(* The session has read the last command, or will never have all of it.    *)
Waiting ==
  /\ NoEnd(wire)
  /\ phase \in {"command", "closed"} \/ (pc = "DATA" /\ phase = "content")
  /\ pc # "DATA" => OneFinal(replies)
  /\ GrantedBy(replies, Wanted[pc]) => wire = <<>> /\ Accepted
  /\ pc = "DATA" /\ phase = "command" => Cut
  /\ Content

Talk == {"greeting", "EHLO", "MAIL", "RCPT", "DATA"}

Dialogue ==
  /\ handled = <<>> /\ message.body # <<>>
  /\ todo \in Seq(Seq(Word))
  /\ pc \in {"greeting", "EHLO", "MAIL"} => todo = msg.to
  /\ (Unread /\ Silent(replies)) \/ Waiting

(* No DATA will be read as a command, but for one that is the last thing   *)
(* the client sent.                                                        *)
LastAsked ==
  /\ ~open /\ OneLine(wire)
  /\ HasLine /\ wire[1] = "DATA" => Ready /\ handled = <<>>

Harmless == wire \in Seq(NoData) \/ LastAsked

After ==
  /\ handled = <<>> \/ handled = <<Sent(message)>>
  /\ pc = "body" /\ NoDataLine => todo \in Seq(Seq(NoData))
  /\ pc = "body" /\ phase \in {"greet", "command"} => Cut
  /\ Content
  /\ phase \in {"greet", "command"} => Harmless

Unsent ==
  phase = "greet" /\ wire = <<>> /\ replies = <<>> /\ handled = <<>> /\ todo = msg.to

Story ==
  /\ Copied
  /\ pc = "file" => Unsent
  /\ pc \in Talk => Dialogue
  /\ pc \in {"body", "sent", "QUIT", "done"} => After
  /\ phase = "closed" \/ pc = "done" => ~open

Spilt == late /\ ~NoDataLine

NeverInv == IF result = "other" THEN pc = "done" ELSE Copied /\ (~Spilt => Story)

LEMMA EmptyIn == ASSUME NEW E PROVE <<>> \in Seq(E)
BY EmptySeq

LEMMA InitNever == Init => NeverInv
<1> SUFFICES ASSUME Init PROVE NeverInv
  OBVIOUS
<1>1. CASE InitOther
  BY <1>1 DEF InitOther, NeverInv
<1>2. CASE InitReplay
  <2>1. /\ message \in Messages /\ pc = "file" /\ todo = msg.to /\ result = "none"
        /\ wire = <<>> /\ phase = "greet" /\ replies = <<>> /\ handled = <<>>
    BY <1>2 DEF InitReplay, Init, InitCommon
  <2>2. PICK eol \in {<<LF>>, CRLF} : msg = Parse(FormatEnvelope(message, eol))
    BY <1>2 DEF InitReplay
  <2>3. message.from \in Seq(Symbols) /\ message.to \in Seq(Seq(Symbols))
        /\ message.body \in Seq(Symbols) /\ eol \in Eols
    BY <2>1, MessagesAssumption DEF Eols
  <2>4. msg = Stored(message)
    BY <2>2, <2>3, ParseInverts
  <2> QED
    BY <2>1, <2>4 DEF NeverInv, Story, Copied, Unsent, Talk
<1> QED
  BY <1>1, <1>2 DEF Init

(* Before the dial.                                                        *)
LEMMA FileNever ==
  ASSUME Typed, Story, pc = "file", Next, Copied'
  PROVE  Story'
<1>1. Unsent /\ ~(phase = "closed") /\ Copied
  BY DEF Story, Unsent
<1>2. Start \/ DialFails
  BY <1>1 DEF Next, Client, Server, Environment, Unsent, ReplyContinues, Refused, SendEhlo,
     SendMail, SendRcpt, SendData, BeginBody, SendLine, SendDot, SendQuit, QuitEnds, Greet,
     ServeEhlo, ServeMail, ServeRcpt, ServeData, ServeQuit, ServeOther, NextCommand, LongLine,
     SkipLine, KeepLine, RejectContent, AcceptContent, TakeLine, ContentCut, CommandCut,
     Interrupt, WriteFails, ContentDeadline, ServerCloses, LinkFails, Wanted
<1>3. /\ UNCHANGED <<message, msg, todo, wire, replies, phase, handled>>
      /\ \/ pc' = "done" /\ ~open'
         \/ pc' = "greeting" /\ msg.body # <<>>
  BY <1>2 DEF Start, DialFails, Return, Goto, sessionVars, historyVars
<1>4. CASE pc' = "done"
  <2>1. /\ phase' = "greet" /\ wire' = <<>> /\ handled' = <<>> /\ wire' \in Seq(NoData)
        /\ ~open'
    BY <1>1, <1>3, <1>4, EmptyIn DEF Unsent
  <2>2. After'
    BY <1>4, <2>1 DEF After, Content, Harmless
  <2> QED
    BY <1>4, <2>1, <2>2 DEF Story, Talk
<1>5. CASE pc' = "greeting"
  <2>1. /\ phase' = "greet" /\ wire' = <<>> /\ replies' = <<>> /\ handled' = <<>>
        /\ todo' = msg'.to
    BY <1>1, <1>3 DEF Unsent
  <2>2. message'.body # <<>> /\ msg'.to \in Seq(Seq(Word))
    BY <1>1, <1>3, <1>5, MessageIs
  <2>3. Unread'
    BY <1>5, <2>1 DEF Unread
  <2>4. Silent(replies')
    BY <2>1, NoReplies
  <2>5. Dialogue'
    BY <2>1, <2>2, <2>3, <2>4 DEF Dialogue
  <2> QED
    BY <1>5, <2>1, <2>5 DEF Story, Talk
<1> QED
  BY <1>3, <1>4, <1>5

LEMMA WordIn ==
  ASSUME NEW a \in Seq(Word)
  PROVE  /\ a \in Seq(Symbols) /\ a \in Seq(Symbols \ {">"}) /\ a \in Seq(Symbols \ {LF})
         /\ Path0(a) \in Seq(Symbols \ {LF})
<1>1. a \in Seq(Symbols) /\ a \in Seq(Symbols \ {">"}) /\ a \in Seq(Symbols \ {LF})
  BY WordTyped, SeqMonotonic
<1> DEFINE o == <<"<">>
           c == <<">">>
<1>2. o \in Seq(Symbols \ {LF}) /\ c \in Seq(Symbols \ {LF})
  <2>1. "<" \in Symbols \ {LF} /\ ">" \in Symbols \ {LF}
    BY DEF Symbols, LF
  <2> QED
    BY <2>1, Single
<1> HIDE DEF o, c
<1>3. o \o a \in Seq(Symbols \ {LF})
  BY <1>1, <1>2, ConcatProperties
<1>4. (o \o a) \o c \in Seq(Symbols \ {LF})
  BY <1>2, <1>3, ConcatProperties
<1> QED
  BY <1>1, <1>4 DEF Path0, o, c

Verbs == {"EHLO", "MAIL", "RCPT", "DATA", "QUIT"}

LEMMA VerbsTyped == Verbs \subseteq Symbols \ {LF, ">"}
BY DEF Verbs, Symbols, LF

LEMMA AskedRead ==
  ASSUME Typed, NEW v \in Verbs, NEW a \in Seq(Symbols \ {LF}), Asked(v, a)
  PROVE  /\ phase = "command" /\ HasLine /\ FirstLine[1] = v /\ wire[1] = v
         /\ AfterLine = <<>> /\ OneLine(wire) /\ Text(FirstLine) = <<v>> \o a
<1>1. v \in Symbols \ {LF} /\ wire \in Seq(Symbols) /\ wire = Command(v, a)
  BY VerbsTyped DEF Typed, StreamTyped, Asked
<1> QED
  BY <1>1, CommandRead DEF Asked

LEMMA AskedPath ==
  ASSUME Typed, NEW v \in Verbs, NEW a \in Seq(Word), Asked(v, Path0(a))
  PROVE  Path = a
<1>1. Path0(a) \in Seq(Symbols \ {LF}) /\ a \in Seq(Symbols \ {">"})
  BY WordIn
<1>2. Text(FirstLine) = <<v>> \o Path0(a)
  BY <1>1, AskedRead
<1>3. v \in Symbols /\ v # ">"
  BY VerbsTyped
<1> QED
  BY <1>1, <1>2, <1>3, PathOf

(* What the session finds of a command that has not been read.             *)
LEMMA UnreadIs ==
  ASSUME Typed, Copied, Unread, pc \in Talk
  PROVE  /\ pc = "greeting" => phase = "greet" /\ wire = <<>>
         /\ pc # "greeting" =>
              /\ phase = "command" /\ HasLine /\ FirstLine[1] = pc /\ wire[1] = pc
              /\ AfterLine = <<>> /\ OneLine(wire)
         /\ pc = "MAIL" => Path = Sender
         /\ pc = "RCPT" => from = Sender /\ Append(to, Path) \o todo = msg.to
         /\ pc = "DATA" => Ready
<1>0. <<>> \in Seq(Symbols \ {LF}) /\ Sender \in Seq(Word)
  BY EmptyIn, MessageIs
<1>1. CASE pc = "greeting"
  BY <1>1 DEF Unread
<1>2. CASE pc = "EHLO"
  BY <1>0, <1>2, AskedRead DEF Unread, Verbs
<1>3. CASE pc = "MAIL"
  <2>1. Asked("MAIL", Path0(Sender)) /\ Path0(Sender) \in Seq(Symbols \ {LF})
    BY <1>0, <1>3, WordIn DEF Unread
  <2>2. "MAIL" \in Verbs
    BY DEF Verbs
  <2> QED
    BY <1>0, <1>3, <2>1, <2>2, AskedRead, AskedPath
<1>4. CASE pc = "RCPT"
  <2>1. PICK a : AskedNext(a)
    BY <1>4 DEF Unread
  <2>2. /\ a \in Seq(Word) /\ Asked("RCPT", Path0(a)) /\ Append(to, a) \o todo = msg.to
        /\ Path0(a) \in Seq(Symbols \ {LF}) /\ from = Sender
    BY <1>4, <2>1, WordIn DEF AskedNext, Unread
  <2>3. "RCPT" \in Verbs
    BY DEF Verbs
  <2>4. Path = a
    BY <2>2, <2>3, AskedPath
  <2> QED
    BY <1>4, <2>2, <2>3, <2>4, AskedRead
<1>5. CASE pc = "DATA"
  BY <1>0, <1>5, AskedRead DEF Unread, Verbs
<1> QED
  BY <1>1, <1>2, <1>3, <1>4, <1>5 DEF Talk

LEMMA TalkWants ==
  ASSUME pc \in Talk
  PROVE  pc \in DOMAIN Wanted /\ Wanted[pc] # 421 /\ Wanted[pc] \in {220, 250, 354}
         /\ (pc = "RCPT" => Wanted[pc] = 250)
         /\ pc \notin {"file", "body", "sent", "QUIT", "done"}
BY DEF Talk, Wanted

(* The client has not got the reply it waits for.                          *)
LEMMA DialogueReplies ==
  ASSUME OkInv, Story, pc \in Talk, ReplyContinues, Copied'
  PROVE  Story'
<1>1. Dialogue /\ Copied /\ (phase = "closed" => ~open)
  BY DEF Story
<1>2. /\ replies # <<>> /\ replies' = Tail(replies) /\ replies \in Seq(ReplyLines)
      /\ UNCHANGED <<message, pc, msg, todo, wire, open, phase, from, to, buf, skip, handled>>
  BY DEF ReplyContinues, OkInv, clientVars, sessionVars, envelopeVars, contentVars, historyVars
<1>3. /\ Silent(replies) => Silent(replies')
      /\ OneFinal(replies) => OneFinal(replies')
      /\ \A code : GrantedBy(replies', code) => GrantedBy(replies, code)
  BY <1>2, TailReplies
<1>4. Unread => Unread'
  BY <1>2 DEF Unread, Asked, AskedNext, Ready, Sender
<1>5. Content => Content'
  <2>1. IsReading => IsReading'
    BY <1>2, SameReading
  <2> QED
    BY <1>2, <2>1 DEF Content, Ready, Sender
<1>6. Waiting => Waiting'
  BY <1>2, <1>3, <1>5 DEF Waiting, Accepted, Sender, Cut, NoDataLine
<1>7. Dialogue'
  BY <1>1, <1>2, <1>3, <1>4, <1>6 DEF Dialogue
<1> QED
  BY <1>1, <1>2, <1>7, TalkWants DEF Story

LEMMA DialogueRefused ==
  ASSUME Typed, Story, pc \in Talk, Refused, Copied'
  PROVE  Story'
<1>1. Dialogue /\ Copied
  BY DEF Story
<1>2. /\ pc' = "done" /\ ~open'
      /\ UNCHANGED <<message, msg, todo, wire, phase, from, to, buf, skip, handled>>
  BY DEF Refused, Return, sessionVars, envelopeVars, contentVars, historyVars
<1>3. wire \in Seq(Symbols)
  BY DEF Typed, StreamTyped
<1>4. ASSUME Unread PROVE After'
  <2>1. CASE pc = "greeting"
    <3>1. wire' \in Seq(NoData) /\ phase' = "greet"
      BY <1>1, <1>2, <1>4, <2>1, EmptyIn, UnreadIs
    <3> QED
      BY <1>1, <1>2, <3>1 DEF After, Content, Harmless, Dialogue
  <2>2. CASE pc # "greeting"
    <3>1. /\ phase = "command" /\ wire[1] = pc /\ OneLine(wire)
          /\ pc = "DATA" => Ready
      BY <1>1, <1>4, <2>2, UnreadIs
    <3>2. LastAsked'
      BY <1>1, <1>2, <3>1 DEF LastAsked, Dialogue, Ready, Sender, HasLine
    <3> QED
      BY <1>1, <1>2, <3>1, <3>2 DEF After, Content, Harmless, Dialogue
  <2> QED
    BY <2>1, <2>2
<1>5. ASSUME Waiting PROVE After'
  <2>1. ~HasLine /\ OneLine(wire)
    BY <1>3, <1>5, NoEndNoLine DEF Waiting
  <2>2. LastAsked'
    BY <1>2, <2>1 DEF LastAsked, HasLine
  <2>3. IsReading => IsReading'
    BY <1>2, EndReading
  <2>4. Content'
    BY <1>2, <1>5, <2>3 DEF Waiting, Content, Ready, Sender
  <2> QED
    BY <1>1, <1>2, <2>2, <2>4 DEF After, Harmless, Dialogue
<1>6. After'
  BY <1>1, <1>4, <1>5 DEF Dialogue
<1> QED
  BY <1>2, <1>6 DEF Story, Talk

(* The client has the reply it waits for.                                  *)
LEMMA Granted ==
  ASSUME OkInv, Story, pc \in Talk, Expected
  PROVE  /\ Waiting /\ wire = <<>> /\ Accepted
         /\ pc # "DATA" => Silent(replies')
<1>1. Dialogue
  BY DEF Story
<1>2. /\ replies # <<>> /\ Head(replies).last /\ Head(replies).code = Wanted[pc]
      /\ replies' = Tail(replies) /\ replies \in Seq(ReplyLines)
  BY DEF Expected, OkInv
<1>3. Wanted[pc] # 421
  BY TalkWants
<1>4. GrantedBy(replies, Wanted[pc]) /\ IsFinal(Head(replies))
  BY <1>2, <1>3, TailReplies DEF IsFinal
<1>5. ~Silent(replies)
  BY <1>3, <1>4, SilentIsOne
<1>6. Waiting
  BY <1>1, <1>5 DEF Dialogue
<1>7. OneFinal(replies) => Silent(replies')
  BY <1>2, <1>4, TailReplies
<1> QED
  BY <1>4, <1>6, <1>7 DEF Waiting

LEMMA Asks ==
  ASSUME Typed, OkInv, Story, pc \in Talk, pc # "DATA", Expected,
         UNCHANGED <<message, msg, open, phase, from, to, handled>>,
         pc' \in Talk, pc' # "greeting", todo' \in Seq(Seq(Word)),
         pc' \in {"EHLO", "MAIL"} => todo' = msg.to,
         NEW s \in Seq(Symbols), Send(s), open /\ wire' = s => Unread'
  PROVE  Story'
<1>1. Dialogue /\ Copied /\ (phase = "closed" => ~open)
  BY DEF Story
<1>2. Waiting /\ wire = <<>> /\ Silent(replies')
  BY Granted
<1>3. phase \in {"command", "closed"}
  BY <1>2 DEF Waiting
<1>4. CASE open
  <2>1. wire' = s
    <3>1. <<>> \o s = s
      BY ConcatEmptySeq
    <3> QED
      BY <1>2, <1>4, <3>1 DEF Send
  <2>2. Unread'
    BY <1>4, <2>1
  <2>3. Dialogue'
    BY <1>1, <1>2, <2>2 DEF Dialogue
  <2> QED
    BY <1>1, <2>3, TalkWants DEF Story, Talk, Copied
<1>5. CASE ~open
  <2>1. wire' = <<>>
    BY <1>2, <1>5 DEF Send
  <2>2. OneFinal(replies') /\ ~GrantedBy(replies', Wanted[pc'])
    <3>1. Wanted[pc'] # 421
      BY DEF Talk, Wanted
    <3> QED
      BY <1>2, <3>1, SilentIsOne
  <2>3. Waiting'
    BY <1>3, <1>5, <2>1, <2>2, EmptyNoEnd DEF Waiting, Content, Wanted, Cut
  <2>4. Dialogue'
    BY <1>1, <2>3 DEF Dialogue
  <2> QED
    BY <1>1, <1>3, <1>5, <2>4 DEF Story, Talk, Copied
<1> QED
  BY <1>4, <1>5 DEF Typed, ClientTyped

LEMMA RcptUnread ==
  ASSUME EnvelopeTyped, Story, pc \in {"MAIL", "RCPT"}, Accepted, todo # <<>>,
         UNCHANGED <<message, msg, phase, from, to>>, phase = "command",
         wire' = Command("RCPT", Path0(Head(todo))), pc' = "RCPT", todo' = Tail(todo)
  PROVE  Unread'
<1>1. Dialogue
  BY DEF Story, Talk
<1>2. /\ todo \in Seq(Seq(Word)) /\ to \in Seq(Seq(Symbols))
      /\ pc = "MAIL" => todo = msg.to /\ to = <<>>
      /\ from = Sender
      /\ pc = "RCPT" => to \o todo = msg.to
  BY <1>1 DEF Dialogue, EnvelopeTyped, Accepted
<1>3. Seq(Word) \subseteq Seq(Symbols)
  BY WordTyped, SeqMonotonic
<1>4. todo \in Seq(Seq(Symbols))
  BY <1>2, <1>3, SeqMonotonic
<1>5. to \o todo = msg.to
  <2>1. <<>> \o todo = todo
    BY <1>4, ConcatEmptySeq
  <2> QED
    BY <1>2, <2>1
<1>6. Append(to, Head(todo)) \o Tail(todo) = to \o todo
  BY <1>2, <1>4, LinesMove
<1>7. Head(todo) \in Seq(Word)
  BY <1>2, HeadTyped
<1> DEFINE b == Head(todo)
<1>8. PICK a : a = b
  OBVIOUS
<1> HIDE DEF b
<1>9. AskedNext(a)'
  BY <1>5, <1>6, <1>7, <1>8 DEF AskedNext, Asked, b
<1>10. (from = Sender)'
  BY <1>2 DEF Sender
<1> QED
  BY <1>9, <1>10 DEF Unread

LEMMA DialogueAsks ==
  ASSUME Typed, EnvelopeTyped, OkInv, Story, pc \in Talk, Copied',
         SendEhlo \/ SendMail \/ SendRcpt \/ SendData
  PROVE  Story'
<1>1. Dialogue /\ Copied /\ todo \in Seq(Seq(Word)) /\ (phase = "closed" => ~open)
  BY DEF Story, Dialogue
<1>2. /\ Expected /\ UNCHANGED <<message, msg, open, phase, from, to, handled>>
      /\ pc # "DATA"
  BY DEF SendEhlo, SendMail, SendRcpt, SendData, sessionVars, envelopeVars, historyVars
<1>3. Waiting /\ Accepted
  BY <1>2, Granted
<1>4. open => phase = "command"
  BY <1>1, <1>2, <1>3 DEF Waiting
<1>5. <<>> \in Seq(Symbols)
  BY EmptyIn
<1>6. "EHLO" \in Symbols /\ "MAIL" \in Symbols /\ "RCPT" \in Symbols /\ "DATA" \in Symbols
  BY DEF Symbols
<1>7. CASE SendEhlo
  <2>1. /\ pc' = "EHLO" /\ todo' = todo /\ pc = "greeting"
        /\ Send(Command("EHLO", <<>>))
    BY <1>7 DEF SendEhlo, Goto
  <2>2. todo' = msg.to
    BY <1>1, <2>1 DEF Dialogue
  <2>3. open /\ wire' = Command("EHLO", <<>>) => Unread'
    BY <1>2, <1>4, <2>1 DEF Unread, Asked
  <2>4. Command("EHLO", <<>>) \in Seq(Symbols)
    BY <1>5, <1>6, CommandTyped
  <2> DEFINE s == Command("EHLO", <<>>)
  <2> HIDE DEF s
  <2> QED
    BY <1>1, <1>2, <2>1, <2>2, <2>3, <2>4, Asks DEF Talk, s
<1>8. CASE SendMail
  <2>1. /\ pc' = "MAIL" /\ todo' = todo /\ pc = "EHLO"
        /\ Send(Command("MAIL", formatSender(msg.from)))
    BY <1>8 DEF SendMail, Goto
  <2>2. todo' = msg.to
    BY <1>1, <2>1 DEF Dialogue
  <2>3. formatSender(msg.from) = Path0(Sender) /\ Sender \in Seq(Word)
    BY <1>1, MessageIs
  <2> DEFINE s == Command("MAIL", Path0(Sender))
  <2>4. open /\ wire' = s => Unread'
    BY <1>2, <1>4, <2>1 DEF Unread, Asked, Sender
  <2>5. s \in Seq(Symbols)
    <3>1. Path0(Sender) \in Seq(Symbols)
      BY <2>3, WordIn, PathTyped DEF Path0
    <3> QED
      BY <1>6, <3>1, CommandTyped
  <2>6. Send(s)
    BY <2>1, <2>3
  <2> HIDE DEF s
  <2> QED
    BY <1>1, <1>2, <2>1, <2>2, <2>4, <2>5, <2>6, Asks DEF Talk
<1>9. CASE SendRcpt
  <2> DEFINE s == Command("RCPT", Path0(Head(todo)))
  <2>1. /\ pc' = "RCPT" /\ todo' = Tail(todo) /\ pc \in {"MAIL", "RCPT"} /\ todo # <<>>
        /\ Send(s)
    BY <1>9 DEF SendRcpt, Goto, Path0
  <2>2. Head(todo) \in Seq(Word) /\ todo' \in Seq(Seq(Word))
    BY <1>1, <2>1, HeadTyped
  <2>3. s \in Seq(Symbols)
    <3>1. Path0(Head(todo)) \in Seq(Symbols)
      BY <2>2, WordIn, PathTyped DEF Path0
    <3> QED
      BY <1>6, <3>1, CommandTyped
  <2>4. open /\ wire' = s => Unread'
    BY <1>2, <1>3, <1>4, <2>1, RcptUnread
  <2> HIDE DEF s
  <2> QED
    BY <1>1, <1>2, <2>1, <2>2, <2>3, <2>4, Asks DEF Talk
<1>10. CASE SendData
  <2>1. /\ pc' = "DATA" /\ todo' = todo /\ pc = "RCPT" /\ todo = <<>>
        /\ Send(Command("DATA", <<>>))
    BY <1>10 DEF SendData, Goto
  <2>2. from = Sender /\ to \o <<>> = msg.to
    BY <1>3, <2>1 DEF Accepted
  <2>3. to \o <<>> = to
    BY ConcatEmptySeq DEF EnvelopeTyped
  <2>4. Ready'
    BY <1>1, <1>2, <2>2, <2>3 DEF Ready, Sender, Dialogue
  <2>5. open /\ wire' = Command("DATA", <<>>) => Unread'
    BY <1>2, <1>4, <2>1, <2>4 DEF Unread, Asked
  <2>6. Command("DATA", <<>>) \in Seq(Symbols)
    BY <1>5, <1>6, CommandTyped
  <2> DEFINE s == Command("DATA", <<>>)
  <2> HIDE DEF s
  <2> QED
    BY <1>1, <1>2, <2>1, <2>5, <2>6, Asks DEF Talk, s
<1> QED
  BY <1>7, <1>8, <1>9, <1>10

LEMMA DialogueBegins ==
  ASSUME Typed, OkInv, Story, pc \in Talk, Copied', BeginBody
  PROVE  Story'
<1>1. Dialogue /\ Copied /\ (phase = "closed" => ~open)
  BY DEF Story
<1>2. /\ Expected /\ pc' = "body" /\ todo' = BodyLines(msg.body)
      /\ UNCHANGED <<message, msg, wire, open, phase, from, to, handled>>
  BY DEF BeginBody, Goto, sessionVars, envelopeVars, historyVars
<1>3. Waiting /\ wire = <<>> /\ handled = <<>>
  BY <1>1, <1>2, Granted DEF Dialogue
<1>4. ASSUME NoDataLine PROVE todo' \in Seq(Seq(NoData))
  <2>1. todo' \in Seq(Seq(NoData \ {LF}))
    BY <1>1, <1>2, <1>4, MessageIs, BodyLinesIn DEF NoDataLine
  <2>2. Seq(NoData \ {LF}) \subseteq Seq(NoData)
    BY SeqMonotonic
  <2> QED
    BY <2>1, <2>2, SeqMonotonic
<1>5. IsReading => IsReading'
  BY BeginReading
<1>6. Content'
  BY <1>2, <1>3, <1>5 DEF Waiting, Content, Ready, Sender
<1>7. wire' \in Seq(NoData)
  BY <1>2, <1>3, EmptyIn
<1>8. phase' \in {"greet", "command"} => Cut'
  <2>1. pc = "DATA"
    BY DEF BeginBody
  <2> QED
    BY <1>2, <1>3, <2>1 DEF Waiting, Cut, NoDataLine
<1>9. NoDataLine' = NoDataLine
  BY <1>2 DEF NoDataLine
<1>10. After'
  BY <1>2, <1>3, <1>4, <1>6, <1>7, <1>8, <1>9 DEF After, Harmless
<1> QED
  BY <1>1, <1>2, <1>10 DEF Story, Talk

LEMMA OneAnswer ==
  ASSUME OkInv, NEW x \in ReplyLines, Answer(<<x>>), Silent(replies)
  PROVE  /\ OneFinal(replies')
         /\ \A code : code # 421 /\ GrantedBy(replies', code) => x.code = code
<1>1. replies \in Seq(ReplyLines)
  BY DEF OkInv
<1>2. replies' = IF open THEN Append(replies, x) ELSE replies
  BY <1>1, AppendReply DEF Answer
<1>3. \A code : code # 421 => ~GrantedBy(replies, code)
  BY SilentIsOne
<1>4. CASE open
  <2>1. replies' = Append(replies, x)
    BY <1>2, <1>4
  <2>2. OneFinal(replies')
    BY <1>1, <2>1, AppendReply
  <2>3. ASSUME NEW code, code # 421, GrantedBy(replies', code) PROVE x.code = code
    <3>1. GrantedBy(Append(replies, x), code)
      BY <2>1, <2>3
    <3>2. GrantedBy(replies, code) \/ x.code = code
      BY <1>1, <3>1, AppendReply
    <3> QED
      BY <1>3, <2>3, <3>2
  <2> QED
    BY <2>2, <2>3
<1>5. CASE ~open
  <2>1. replies' = replies
    BY <1>2, <1>5
  <2> QED
    BY <1>3, <2>1, SilentIsOne
<1> QED
  BY <1>4, <1>5

LEMMA TwoAnswers ==
  ASSUME OkInv, Silent(replies),
         NEW x \in ReplyLines, NEW y \in ReplyLines, ~x.last, Answer(<<x, y>>)
  PROVE  OneFinal(replies')
<1>1. replies \in Seq(ReplyLines)
  BY DEF OkInv
<1> DEFINE o == <<x>>
           p == <<y>>
           w == <<x, y>>
<1>2. o \in Seq(ReplyLines) /\ p \in Seq(ReplyLines) /\ Len(o) = 1 /\ Len(p) = 1
      /\ o[1] = x /\ p[1] = y
  BY Single
<1>3. w \in Seq(ReplyLines) /\ Len(w) = 2 /\ w[1] = x /\ w[2] = y
  OBVIOUS
<1>4. replies' = IF open THEN replies \o w ELSE replies
  BY DEF Answer
<1>5. replies \o o = Append(replies, x)
  BY <1>1, AppendReply
<1> HIDE DEF o, p, w
<1>6. w = o \o p
  BY <1>2, <1>3, TwoJoined
<1>7. Regroups(replies, o, p)
  BY <1>1, <1>2, Associative
<1>8. replies \o w = Append(replies, x) \o p
  BY <1>5, <1>6, <1>7 DEF Regroups
<1> DEFINE t == Append(replies, x)
<1>9. t \in Seq(ReplyLines) /\ Silent(t)
  BY <1>1, AppendReply DEF IsFinal
<1> HIDE DEF t
<1>10. t \o p = Append(t, y) /\ OneFinal(Append(t, y))
  BY <1>9, AppendReply DEF p
<1> QED
  BY <1>4, <1>8, <1>10, SilentIsOne DEF t

LEMMA Served ==
  ASSUME Story, Copied', pc \in Talk, UNCHANGED <<message, msg, pc, todo, open, handled>>,
         wire' = <<>>, phase' \in {"command", "content"},
         pc # "DATA" => OneFinal(replies') /\ phase' = "command",
         GrantedBy(replies', Wanted[pc]) => Accepted',
         phase' = "content" => Ready' /\ IsReading',
         pc = "DATA" /\ phase' = "command" => Cut
  PROVE  Story'
<1>1. Dialogue
  BY DEF Story
<1>2. Content'
  BY <1>1 DEF Content, Dialogue
<1>3. Waiting'
  BY <1>2, EmptyNoEnd DEF Waiting, Cut, NoDataLine
<1>4. Dialogue'
  BY <1>1, <1>3 DEF Dialogue
<1> QED
  BY <1>4, TalkWants DEF Story

LEMMA NothingSaid ==
  ASSUME Typed, Waiting
  PROVE  ~HasLine
BY NoEndNoLine DEF Typed, StreamTyped, Waiting

LEMMA DialogueServed ==
  ASSUME Typed, ReadInv, OkInv, Story, pc \in Talk, Copied',
         \/ Greet \/ ServeEhlo \/ ServeMail \/ ServeRcpt
         \/ ServeData \/ ServeQuit \/ ServeOther
  PROVE  Story'
<1>1. Dialogue /\ Copied
  BY DEF Story
<1>2. ~Waiting
  <2>1. phase = "greet" \/ HasLine
    BY DEF Greet, ServeEhlo, ServeMail, ServeRcpt, ServeData, ServeQuit, ServeOther, NextCommand
  <2> QED
    BY <2>1, NothingSaid DEF Waiting
<1>3. Unread /\ Silent(replies)
  BY <1>1, <1>2 DEF Dialogue
<1>4. /\ pc = "greeting" => phase = "greet" /\ wire = <<>>
      /\ pc # "greeting" => phase = "command" /\ FirstLine[1] = pc /\ AfterLine = <<>>
      /\ pc = "MAIL" => Path = Sender
      /\ pc = "RCPT" => from = Sender /\ Append(to, Path) \o todo = msg.to
      /\ pc = "DATA" => Ready
  BY <1>1, <1>3, UnreadIs
<1>5. Wanted[pc] # 421
  BY TalkWants
<1>6. \A code \in {220, 250, 550, 354} : Reply(code) \in ReplyLines /\ Reply(code).code = code
  BY ReplyTyped
<1>7. CASE Greet
  <2>1. /\ pc = "greeting" /\ wire' = <<>> /\ phase' = "command"
        /\ UNCHANGED <<message, msg, pc, todo, open, handled>> /\ Answer(<<Reply(220)>>)
    BY <1>4, <1>7 DEF Greet, clientVars, historyVars
  <2> DEFINE x == Reply(220)
  <2>2. x \in ReplyLines /\ Answer(<<x>>)
    BY <1>6, <2>1
  <2> HIDE DEF x
  <2>3. OneFinal(replies')
    BY <1>3, <2>2, OneAnswer
  <2> QED
    BY <2>1, <2>3, Served DEF Accepted
<1>8. CASE ServeEhlo
  <2>1. /\ pc = "EHLO" /\ wire' = <<>> /\ phase' = "command"
        /\ UNCHANGED <<message, msg, pc, todo, open, handled>>
        /\ \/ Answer(<<[code |-> 250, last |-> FALSE], Reply(250)>>)
           \/ Answer(<<Reply(550)>>)
    BY <1>4, <1>8 DEF ServeEhlo, NextCommand, clientVars, Talk
  <2>2. OneFinal(replies')
    <3>1. CASE Answer(<<Reply(550)>>)
      <4> DEFINE x == Reply(550)
      <4>1. x \in ReplyLines /\ Answer(<<x>>)
        BY <1>6, <3>1
      <4> HIDE DEF x
      <4> QED
        BY <1>3, <4>1, OneAnswer
    <3>2. CASE Answer(<<[code |-> 250, last |-> FALSE], Reply(250)>>)
      <4> DEFINE x == [code |-> 250, last |-> FALSE]
                 y == Reply(250)
      <4>1. x \in ReplyLines /\ ~x.last /\ y \in ReplyLines /\ Answer(<<x, y>>)
        BY <1>6, <3>2, ReplyTyped
      <4> HIDE DEF x, y
      <4> QED
        BY <1>3, <4>1, TwoAnswers
    <3> QED
      BY <2>1, <3>1, <3>2
  <2> QED
    BY <2>1, <2>2, Served DEF Accepted
<1>9. CASE ServeMail
  <2>1. PICK code \in {250, 550} : /\ NextCommand("MAIL") /\ from' = Path /\ to' = <<>>
                                   /\ Answer(<<Reply(code)>>)
                                   /\ UNCHANGED <<clientVars, open, phase, handled>>
    BY <1>9 DEF ServeMail
  <2>2. /\ pc = "MAIL" /\ wire' = <<>> /\ phase' = "command"
        /\ UNCHANGED <<message, msg, pc, todo, open, handled>>
        /\ from' = Sender /\ to' = <<>>
    BY <1>4, <2>1 DEF NextCommand, clientVars, Talk
  <2> DEFINE x == Reply(code)
  <2>3. x \in ReplyLines /\ Answer(<<x>>)
    BY <1>6, <2>1
  <2> HIDE DEF x
  <2>4. OneFinal(replies')
    BY <1>3, <2>3, OneAnswer
  <2>5. Accepted'
    BY <2>2 DEF Accepted, Sender
  <2> QED
    BY <2>2, <2>4, <2>5, Served
<1>10. CASE ServeRcpt
  <2>1. PICK code \in {250, 550} : /\ NextCommand("RCPT")
                                   /\ to' = IF code = 250 THEN Append(to, Path) ELSE to
                                   /\ Answer(<<Reply(code)>>)
                                   /\ UNCHANGED <<clientVars, open, phase, from, handled>>
    BY <1>10 DEF ServeRcpt
  <2>2. /\ pc = "RCPT" /\ wire' = <<>> /\ phase' = "command"
        /\ UNCHANGED <<message, msg, pc, todo, open, handled>>
        /\ from' = Sender
    BY <1>4, <2>1 DEF NextCommand, clientVars, Talk
  <2> DEFINE x == Reply(code)
  <2>3. x \in ReplyLines /\ Answer(<<x>>) /\ x.code = code
    BY <1>6, <2>1
  <2> HIDE DEF x
  <2>4. OneFinal(replies') /\ (GrantedBy(replies', Wanted[pc]) => code = Wanted[pc])
    BY <1>3, <1>5, <2>3, OneAnswer
  <2>5. code = 250 => Accepted'
    <3> SUFFICES ASSUME code = 250 PROVE Accepted'
      OBVIOUS
    <3>1. to' \o todo' = msg'.to
      <4>1. to' = Append(to, Path) /\ todo' = todo /\ msg' = msg
        BY <2>1, <2>2
      <4> QED
        BY <1>4, <2>2, <4>1
    <3> QED
      BY <2>2, <3>1 DEF Accepted, Sender
  <2>6. Wanted[pc] = 250
    BY <2>2, TalkWants
  <2> QED
    BY <2>2, <2>4, <2>5, <2>6, Served
<1>11. CASE ServeData
  <2>1. /\ pc = "DATA" /\ wire' = <<>> /\ phase' = "content"
        /\ UNCHANGED <<message, msg, pc, todo, open, from, to, buf, handled>>
    BY <1>4, <1>11 DEF ServeData, NextCommand, clientVars, envelopeVars, contentVars, Talk
  <2>2. Ready'
    BY <1>4, <2>1 DEF Ready, Sender
  <2>3. buf' = <<>>
    BY <1>11, <2>1 DEF ReadInv, ServeData, NextCommand
  <2>4. msg \in Message
    BY <1>1, MessageIs
  <2>5. IsReading'
    BY <2>1, <2>3, <2>4, StartsReading
  <2> QED
    BY <2>1, <2>2, <2>5, Served DEF Accepted
<1>12. CASE ServeQuit \/ ServeOther
  BY <1>4, <1>12 DEF ServeQuit, ServeOther, NextCommand, Talk
<1> QED
  BY <1>7, <1>8, <1>9, <1>10, <1>11, <1>12

LEMMA InterruptCode ==
  ASSUME NEW lost, Interrupt(lost)
  PROVE  /\ phase = "content" /\ phase' = "command"
         /\ wire' = SubSeq(wire, lost + 1, Len(wire))
         /\ UNCHANGED <<message, msg, pc, todo, result, open, handled>>
BY DEF Interrupt, EndTransaction, clientVars

LEMMA DialogueContent ==
  ASSUME Typed, Story, pc \in Talk, Copied', ContentDeadline => NoDataLine,
         \/ LongLine \/ SkipLine \/ KeepLine \/ RejectContent \/ AcceptContent
         \/ ContentDeadline \/ ContentCut
  PROVE  Story'
<1>1. Dialogue /\ Copied
  BY DEF Story
<1>2. phase = "content"
  BY InterruptCode DEF LongLine, SkipLine, KeepLine, RejectContent, AcceptContent, TakeLine,
     ContentDeadline, ContentCut
<1>3. ~Unread
  BY <1>1, <1>2, UnreadIs
<1>4. Waiting /\ pc = "DATA" /\ IsReading
  BY <1>1, <1>2, <1>3 DEF Dialogue, Waiting, Content
<1>5. ~HasLine
  BY <1>4, NothingSaid
<1>6. wire = <<>>
  <2>1. PICK l, r, u : Reading(l, r, u)
    BY <1>4 DEF IsReading
  <2> QED
    BY <1>4, <2>1 DEF Reading
<1>7. Cut /\ \E lost \in Int : lost >= 0 /\ Interrupt(lost)
  <2>1. CASE ContentDeadline
    BY <1>5, <1>6, <2>1, EmptySeq DEF ContentDeadline, Cut
  <2>2. CASE ContentCut
    BY <1>6, <2>2, EmptySeq DEF ContentCut, Cut
  <2>3. ContentDeadline \/ ContentCut
    BY <1>5 DEF LongLine, SkipLine, KeepLine, RejectContent, AcceptContent, TakeLine
  <2> QED
    BY <2>1, <2>2, <2>3
<1> PICK lost \in Int : lost >= 0 /\ Interrupt(lost)
  BY <1>7
<1>8. /\ phase' = "command" /\ wire' = SubSeq(wire, lost + 1, Len(wire))
      /\ UNCHANGED <<message, msg, pc, todo, open, handled>>
  BY InterruptCode
<1>9. wire' = <<>>
  <2>1. Len(wire) = 0
    BY <1>6, EmptySeq
  <2>2. wire' \in Seq({}) /\ Len(wire') = 0
    <3>1. wire \in Seq({}) /\ lost + 1 \in Int /\ 0 \in Int /\ ~(lost + 1 <= 0)
      BY <1>6, EmptyIn
    <3>2. wire' = SubSeq(wire, lost + 1, 0)
      BY <1>8, <2>1
    <3> DEFINE j == lost + 1
    <3>3. j \in Int /\ ~(j <= 0) /\ wire' = SubSeq(wire, j, 0)
      BY <3>1, <3>2
    <3> HIDE DEF j
    <3>4. \A i \in j..0 : wire[i] \in {}
      BY <3>3
    <3> QED
      BY <3>1, <3>3, <3>4, SubSeqProperties
  <2> QED
    BY <2>2, EmptySeq
<1> QED
  BY <1>4, <1>7, <1>8, <1>9, Served DEF Accepted

(* The connection ends while they talk.                                    *)
LEMMA DialogueEnds ==
  ASSUME Typed, OkInv, Story, pc \in Talk, Copied',
         CommandCut \/ ServerCloses \/ LinkFails
  PROVE  Story'
<1>1. Dialogue /\ Copied
  BY DEF Story
<1>2. Wanted[pc] # 421 /\ replies \in Seq(ReplyLines)
  BY TalkWants DEF OkInv
<1>3. wire \in Seq(Symbols)
  BY DEF Typed, StreamTyped
<1>4. CASE CommandCut
  <2>1. /\ ~open /\ ~HasLine /\ phase = "command" /\ phase' = "closed" /\ wire' = <<>>
        /\ UNCHANGED <<message, msg, pc, todo, replies, open, from, to, handled>>
    BY <1>4 DEF CommandCut, clientVars, envelopeVars, historyVars
  <2>2. Waiting
    <3>1. ~Unread
      BY <1>1, <2>1, UnreadIs
    <3> QED
      BY <1>1, <3>1 DEF Dialogue
  <2>3. Waiting'
    BY <2>1, <2>2, EmptyNoEnd DEF Waiting, Accepted, Content, Sender
  <2>4. Dialogue'
    BY <1>1, <2>1, <2>3 DEF Dialogue
  <2> QED
    BY <2>1, <2>4, TalkWants DEF Story
<1>5. CASE ServerCloses
  <2> DEFINE x == Reply(421)
             s == Append(replies, x)
  <2>1. /\ ~open' /\ phase' = "closed" /\ wire' = <<>> /\ replies' \in Prefixes(s)
        /\ UNCHANGED <<message, msg, pc, todo, from, to, handled>>
    BY <1>5 DEF ServerCloses, clientVars, envelopeVars
  <2>2. x \in ReplyLines /\ x.code = 421
    BY ReplyTyped
  <2> HIDE DEF x
  <2>3. /\ s \in Seq(ReplyLines)
        /\ Silent(replies) => Silent(s)
        /\ OneFinal(replies) => OneFinal(s)
        /\ GrantedBy(s, Wanted[pc]) => GrantedBy(replies, Wanted[pc])
    BY <1>2, <2>2, AppendReply DEF IsFinal
  <2> HIDE DEF s
  <2>4. /\ Silent(replies) => Silent(replies')
        /\ OneFinal(replies) => OneFinal(replies')
        /\ GrantedBy(replies', Wanted[pc]) => GrantedBy(replies, Wanted[pc])
    BY <2>1, <2>3, PrefixReplies
  <2>5. CASE Unread /\ Silent(replies)
    <3>1. OneFinal(replies') /\ ~GrantedBy(replies', Wanted[pc])
      BY <1>2, <2>4, <2>5, SilentIsOne
    <3>2. Waiting'
      BY <2>1, <3>1, EmptyNoEnd DEF Waiting, Content
    <3>3. Dialogue'
      BY <1>1, <2>1, <3>2 DEF Dialogue
    <3> QED
      BY <2>1, <3>3, TalkWants DEF Story
  <2>6. CASE Waiting
    <3>1. Waiting'
      BY <2>1, <2>4, <2>6, EmptyNoEnd DEF Waiting, Accepted, Content, Sender
    <3>2. Dialogue'
      BY <1>1, <2>1, <3>1 DEF Dialogue
    <3> QED
      BY <2>1, <3>2, TalkWants DEF Story
  <2> QED
    BY <1>1, <2>5, <2>6 DEF Dialogue
<1>6. CASE LinkFails
  <2>1. /\ ~open' /\ wire' \in Prefixes(wire) /\ replies' \in Prefixes(replies)
        /\ UNCHANGED <<message, msg, pc, todo, phase, from, to, buf, skip, handled>>
    BY <1>6 DEF LinkFails, clientVars, sessionVars, envelopeVars, contentVars
  <2>2. /\ Silent(replies) => Silent(replies')
        /\ OneFinal(replies) => OneFinal(replies')
        /\ GrantedBy(replies', Wanted[pc]) => GrantedBy(replies, Wanted[pc])
    BY <1>2, <2>1, PrefixReplies
  <2>3. /\ NoEnd(wire) => NoEnd(wire')
        /\ OneLine(wire) => wire' = wire \/ NoEnd(wire')
        /\ wire = <<>> => wire' = <<>>
    BY <1>3, <2>1, PrefixNoEnd
  <2>4. CASE Unread /\ Silent(replies)
    <3>1. CASE wire' = wire
      <4>1. Unread'
        BY <2>1, <2>4, <3>1 DEF Unread, Asked, AskedNext, Ready, Sender
      <4>2. Dialogue'
        BY <1>1, <2>1, <2>2, <2>4, <4>1 DEF Dialogue
      <4> QED
        BY <2>1, <4>2, TalkWants DEF Story
    <3>2. CASE wire' # wire
      <4>1. NoEnd(wire') /\ phase = "command"
        BY <1>1, <2>3, <2>4, <3>2, UnreadIs
      <4>2. OneFinal(replies') /\ ~GrantedBy(replies', Wanted[pc])
        BY <1>2, <2>2, <2>4, SilentIsOne
      <4>3. Waiting'
        BY <2>1, <4>1, <4>2 DEF Waiting, Content, Cut
      <4>4. Dialogue'
        BY <1>1, <2>1, <4>3 DEF Dialogue
      <4> QED
        BY <2>1, <4>4, TalkWants DEF Story
    <3> QED
      BY <3>1, <3>2
  <2>5. CASE Waiting
    <3>1. IsReading => IsReading'
      BY <2>1, CutReading
    <3>2. Waiting'
      BY <2>1, <2>2, <2>3, <2>5, <3>1 DEF Waiting, Accepted, Content, Ready, Sender, Cut
    <3>3. Dialogue'
      BY <1>1, <2>1, <3>2 DEF Dialogue
    <3> QED
      BY <2>1, <3>3, TalkWants DEF Story
  <2> QED
    BY <1>1, <2>4, <2>5 DEF Dialogue
<1> QED
  BY <1>4, <1>5, <1>6

LEMMA DialogueNever ==
  ASSUME ContentDeadline => NoDataLine,
         Typed, EnvelopeTyped, ReadInv, OkInv, Story, pc \in Talk, Next, Copied'
  PROVE  Story'
<1>1. ~(Start \/ SendLine \/ SendDot \/ SendQuit \/ QuitEnds \/ DialFails \/ WriteFails)
  BY TalkWants DEF Start, SendLine, SendDot, SendQuit, QuitEnds, DialFails, WriteFails
<1> QED
  BY <1>1, DialogueReplies, DialogueRefused, DialogueAsks, DialogueBegins, DialogueServed,
     DialogueContent, DialogueEnds DEF Next, Client, Server, Environment

-----------------------------------------------------------------------------
(* After the dialogue.                                                     *)

Later == {"body", "sent", "QUIT", "done"}

LEMMA NotTalk == \A x : x \in Later => x \notin Talk /\ x # "file"
BY DEF Later, Talk

LEMMA Goes ==
  ASSUME pc' \in Later, Copied', After', phase' = "closed" \/ pc' = "done" => ~open'
  PROVE  Story'
BY NotTalk DEF Story, Later

(* What is sent after the DATA holds no other.                             *)
LEMMA SendHarmless ==
  ASSUME Harmless, NEW s \in Seq(NoData), Send(s),
         UNCHANGED <<message, msg, open, from, to, handled>>
  PROVE  Harmless'
<1>1. CASE open
  <2>1. wire \in Seq(NoData)
    BY <1>1 DEF Harmless, LastAsked
  <2>2. wire' \in Seq(NoData)
    BY <1>1, <2>1, ConcatProperties DEF Send
  <2> QED
    BY <2>2 DEF Harmless
<1>2. CASE ~open
  <2>1. wire' = wire
    BY <1>2 DEF Send
  <2> QED
    BY <2>1 DEF Harmless, LastAsked, Ready, Sender, HasLine
<1> QED
  BY <1>1, <1>2

LEMMA NoDataTyped ==
  /\ NoData \subseteq Symbols /\ CR \in NoData /\ LF \in NoData /\ "." \in NoData
  /\ "QUIT" \in NoData
BY DEF NoData, Symbols, CR, LF

LEMMA LineHarmless ==
  ASSUME NEW x \in Seq(NoData)
  PROVE  Stuffed(x) \o CRLF \in Seq(NoData)
<1>1. Stuffed(x) \in Seq(NoData) /\ CRLF \in Seq(NoData)
  BY NoDataTyped, StuffedIn, LineEndTyped
<1> QED
  BY <1>1, ConcatProperties

LEMMA EndHarmless ==
  ASSUME NEW v \in {".", "QUIT"}
  PROVE  <<v>> \o CRLF \in Seq(NoData)
<1>1. v \in NoData /\ CRLF \in Seq(NoData)
  BY NoDataTyped, LineEndTyped
<1>2. <<v>> \in Seq(NoData)
  BY <1>1, Single
<1> DEFINE o == <<v>>
<1> HIDE DEF o
<1>3. o \o CRLF \in Seq(NoData)
  BY <1>1, <1>2, ConcatProperties DEF o
<1> QED
  BY <1>3 DEF o

LEMMA QuitHarmless == Command("QUIT", <<>>) \in Seq(NoData)
<1> DEFINE o == <<"QUIT">>
<1>1. o \in Seq(NoData) /\ CRLF \in Seq(NoData)
  BY NoDataTyped, LineEndTyped, Single
<1> HIDE DEF o
<1>2. o \o <<>> \in Seq(NoData)
  BY <1>1, ConcatEmptySeq
<1>3. (o \o <<>>) \o CRLF \in Seq(NoData)
  BY <1>1, <1>2, ConcatProperties
<1> QED
  BY <1>3 DEF Command, o

LEMMA SendsBody ==
  ASSUME Typed, Story, Copied', SendLine \/ SendDot
  PROVE  Story'
<1>1. /\ pc = "body" /\ pc' \in {"body", "sent"}
      /\ UNCHANGED <<message, msg, open, phase, from, to, handled>>
  BY DEF SendLine, SendDot, Goto, sessionVars, envelopeVars, historyVars
<1>2. After /\ (phase = "closed" => ~open)
  BY <1>1 DEF Story
<1>3. NoDataLine => todo \in Seq(Seq(NoData))
  BY <1>1, <1>2 DEF After
<1>4. pc' = "body" /\ NoDataLine => todo' \in Seq(Seq(NoData))
  BY <1>3, HeadTyped DEF SendLine, SendDot, Goto
<1>5. ASSUME NoDataLine, Harmless PROVE Harmless'
  <2>1. PICK s \in Seq(NoData) : Send(s)
    <3>1. CASE SendLine
      <4> DEFINE s == Stuffed(Head(todo)) \o CRLF
      <4>1. Head(todo) \in Seq(NoData) /\ Send(s)
        BY <1>3, <1>5, <3>1, HeadTyped DEF SendLine
      <4>2. s \in Seq(NoData)
        BY <4>1, LineHarmless
      <4> HIDE DEF s
      <4> QED
        BY <4>1, <4>2
    <3>2. CASE SendDot
      <4> DEFINE s == <<".">> \o CRLF
      <4>1. s \in Seq(NoData) /\ Send(s)
        BY <3>2, EndHarmless DEF SendDot
      <4> HIDE DEF s
      <4> QED
        BY <4>1
    <3> QED
      BY <3>1, <3>2
  <2> QED
    BY <1>1, <1>5, <2>1, SendHarmless
<1>6. ASSUME ~open, Harmless PROVE Harmless'
  <2>1. wire' = wire
    BY <1>6 DEF SendLine, SendDot, Send
  <2> QED
    BY <1>1, <1>6, <2>1 DEF Harmless, LastAsked, Ready, Sender, HasLine
<1>7. IsReading => IsReading'
  BY SendLineReading, SendDotReading
<1>8. Cut' = Cut /\ NoDataLine' = NoDataLine
  BY <1>1 DEF Cut, NoDataLine
<1>9. After'
  <2>1. Content'
    BY <1>1, <1>2, <1>7 DEF After, Content, Ready, Sender
  <2>2. phase' \in {"greet", "command"} => Cut /\ Harmless'
    BY <1>1, <1>2, <1>5, <1>6 DEF After, Cut
  <2>3. handled' = <<>> \/ handled' = <<Sent(message')>>
    BY <1>1, <1>2 DEF After
  <2> QED
    BY <1>4, <1>8, <2>1, <2>2, <2>3 DEF After
<1> QED
  BY <1>1, <1>2, <1>9, Goes DEF Later

(* Replies, and the end of the replay.                                     *)
LEMMA EndsClient ==
  ASSUME OkInv, Story, Copied', pc \in Later,
         ReplyContinues \/ Refused \/ WriteFails \/ QuitEnds \/ SendQuit
  PROVE  Story'
<1>1. After /\ (phase = "closed" \/ pc = "done" => ~open)
  BY DEF Story, Later
<1>2. UNCHANGED <<message, msg, phase, from, to, buf, skip, handled, todo>>
  BY DEF ReplyContinues, Refused, WriteFails, QuitEnds, SendQuit, clientVars, sessionVars,
     envelopeVars, contentVars, historyVars
<1>3. CASE ReplyContinues
  <2>1. UNCHANGED <<pc, wire, open>>
    BY <1>3 DEF ReplyContinues, clientVars
  <2>2. IsReading => IsReading'
    BY <1>2, <2>1, SameReading
  <2>3. Harmless => Harmless'
    BY <1>2, <2>1 DEF Harmless, LastAsked, HasLine, Ready, Sender
  <2>4. After'
    BY <1>1, <1>2, <2>1, <2>2, <2>3 DEF After, Content, Ready, Sender, Cut, NoDataLine
  <2> QED
    BY <1>1, <1>2, <2>1, <2>4, Goes
<1>4. CASE Refused \/ WriteFails \/ QuitEnds
  <2>1. pc' = "done" /\ ~open' /\ wire' = wire
    BY <1>4 DEF Refused, WriteFails, QuitEnds, Return
  <2>2. IsReading => IsReading'
    BY <1>2, <2>1, EndReading
  <2>3. Harmless => Harmless'
    BY <1>2, <2>1 DEF Harmless, LastAsked, HasLine, Ready, Sender
  <2>4. After'
    BY <1>1, <1>2, <2>1, <2>2, <2>3 DEF After, Content, Ready, Sender
  <2> QED
    BY <1>1, <1>2, <2>1, <2>4, Goes DEF Later
<1>5. CASE SendQuit
  <2>1. /\ pc = "sent" /\ Expected /\ pc' = "QUIT" /\ open' = open
        /\ Send(Command("QUIT", <<>>))
    BY <1>5 DEF SendQuit, Goto
  <2>2. handled # <<>>
    <3>1. replies # <<>> /\ Head(replies).code = 250 /\ replies \in Seq(ReplyLines)
      BY <2>1, WantedCodes DEF Expected, OkInv
    <3>2. 1 <= Len(replies) /\ Head(replies) = replies[1]
      BY <3>1, EmptySeq, LenProperties, HeadTailProperties
    <3> QED
      BY <2>1, <3>1, <3>2 DEF OkInv, Settled
  <2>3. phase # "content"
    BY <1>1, <2>2 DEF After, Content
  <2> DEFINE s == Command("QUIT", <<>>)
  <2>4. s \in Seq(NoData) /\ Send(s)
    BY <2>1, QuitHarmless
  <2> HIDE DEF s
  <2>5. Harmless => Harmless'
    BY <1>2, <2>1, <2>4, SendHarmless
  <2>6. After'
    BY <1>1, <1>2, <2>1, <2>3, <2>5 DEF After, Content
  <2> QED
    BY <1>1, <1>2, <2>1, <2>6, Goes DEF Later
<1> QED
  BY <1>3, <1>4, <1>5

LEMMA RestHarmless ==
  ASSUME Typed, HasLine, Harmless, NextCommand(FirstLine[1])
  PROVE  /\ wire' \in Seq(NoData)
         /\ FirstLine[1] = "DATA" => /\ ~open /\ Ready /\ handled = <<>> /\ wire' = <<>>
<1>1. wire \in Seq(Symbols) /\ wire' = AfterLine
  BY DEF Typed, StreamTyped, NextCommand
<1>2. NextLine(FirstLine, AfterLine)
  BY <1>1, NextLineFound
<1>3. FirstLine[1] = wire[1] /\ 1 \in 1..Len(wire)
  <2>1. 1 \in 1..Len(FirstLine) /\ Len(wire) \in Nat
    BY <1>1, <1>2, LenProperties DEF NextLine
  <2> QED
    BY <1>2, <2>1 DEF NextLine
<1>4. CASE wire \in Seq(NoData)
  <2>1. wire[1] # "DATA"
    BY <1>3, <1>4, ElementOfSeq DEF NoData
  <2>2. AfterLine \in Seq(NoData)
    <3>1. wire = FirstLine \o AfterLine
      BY <1>1, WireSplit
    <3>2. FirstLine \in Seq(Symbols) /\ AfterLine \in Seq(Symbols)
      BY <1>2 DEF NextLine
    <3> DEFINE p == FirstLine
               q == AfterLine
    <3>3. p \in Seq(Symbols) /\ q \in Seq(Symbols) /\ p \o q \in Seq(NoData)
      BY <1>4, <3>1, <3>2
    <3> HIDE DEF p, q
    <3>4. q \in Seq(NoData)
      BY <3>3, PartsIn
    <3> QED
      BY <3>4 DEF q
  <2> QED
    BY <1>1, <1>3, <2>1, <2>2
<1>5. CASE LastAsked
  <2>1. AfterLine = <<>>
    BY <1>1, <1>5, LastLine DEF LastAsked
  <2>2. wire' = <<>> /\ wire' \in Seq(NoData)
    BY <1>1, <2>1, EmptyIn
  <2> QED
    BY <1>3, <1>5, <2>2 DEF LastAsked
<1> QED
  BY <1>4, <1>5 DEF Harmless

LEMMA LaterCommand ==
  ASSUME Typed, ReadInv, Story, Copied', pc \in Later,
         \/ Greet \/ ServeEhlo \/ ServeMail \/ ServeRcpt
         \/ ServeData \/ ServeQuit \/ ServeOther
  PROVE  Story'
<1>1. After /\ Copied /\ (phase = "closed" \/ pc = "done" => ~open)
  BY DEF Story, Later
<1>2. UNCHANGED <<message, msg, pc, todo, handled>>
  BY DEF Greet, ServeEhlo, ServeMail, ServeRcpt, ServeData, ServeQuit, ServeOther, clientVars,
     historyVars
<1>3. CASE Greet
  <2>1. phase = "greet" /\ phase' = "command" /\ UNCHANGED <<wire, open, from, to>>
    BY <1>3 DEF Greet, envelopeVars
  <2>2. Harmless => Harmless'
    BY <1>2, <2>1 DEF Harmless, LastAsked, HasLine, Ready, Sender
  <2>3. After'
    BY <1>1, <1>2, <2>1, <2>2 DEF After, Content, Cut, NoDataLine
  <2> QED
    BY <1>1, <1>2, <2>1, <2>3, Goes
<1>4. CASE ServeEhlo \/ ServeMail \/ ServeRcpt \/ ServeQuit \/ ServeOther
  <2>1. /\ phase = "command" /\ HasLine /\ NextCommand(FirstLine[1])
        /\ phase' \in {"command", "closed"} /\ (phase' = "closed" => ~open')
        /\ open' => open
    BY <1>4 DEF ServeEhlo, ServeMail, ServeRcpt, ServeQuit, ServeOther, NextCommand, sessionVars
  <2>2. wire' \in Seq(NoData)
    BY <1>1, <2>1, RestHarmless DEF After
  <2>3. After'
    BY <1>1, <1>2, <2>1, <2>2 DEF After, Content, Harmless, Cut, NoDataLine
  <2> QED
    BY <1>1, <1>2, <2>1, <2>3, Goes
<1>5. CASE ServeData
  <2>1. /\ phase = "command" /\ HasLine /\ NextCommand(FirstLine[1]) /\ FirstLine[1] = "DATA"
        /\ phase' = "content" /\ UNCHANGED <<open, from, to, buf>>
    BY <1>5 DEF ServeData, NextCommand, envelopeVars, contentVars
  <2>2. ~open /\ Ready /\ handled = <<>> /\ wire' = <<>>
    BY <1>1, <2>1, RestHarmless DEF After
  <2>3. buf' = <<>> /\ msg \in Message
    BY <1>1, <2>1, MessageIs DEF ReadInv
  <2>4. IsReading'
    BY <1>2, <2>1, <2>2, <2>3, StartsReading
  <2>5. Content'
    BY <1>2, <2>1, <2>2, <2>4 DEF Content, Ready, Sender
  <2>6. After'
    BY <1>1, <1>2, <2>1, <2>5 DEF After, NoDataLine
  <2> QED
    BY <1>1, <1>2, <2>1, <2>6, Goes
<1> QED
  BY <1>3, <1>4, <1>5

(* What is left of the content, if it is read as commands.                 *)
LEMMA ContentHarmless ==
  ASSUME NoDataLine, Typed, Copied, IsReading
  PROVE  wire \in Seq(NoData)
<1>1. PICK l, r, u : Reading(l, r, u)
  BY DEF IsReading
<1>2. /\ l \in Seq(Seq(Symbols \ {LF})) /\ r \in Seq(Seq(Symbols \ {LF}))
      /\ u \in Seq(Symbols) /\ wire \in Seq(Symbols)
      /\ l \o r = BodyLines(msg.body) /\ wire \o u = Stream(r)
  BY <1>1 DEF Reading, Typed, StreamTyped
<1>3. l \o r \in Seq(Seq(NoData \ {LF}))
  BY <1>2, MessageIs, BodyLinesIn DEF NoDataLine
<1>4. r \in Seq(Seq(NoData \ {LF}))
  BY <1>2, <1>3, PartsIn
<1>5. r \in Seq(Seq(NoData))
  <2>1. Seq(NoData \ {LF}) \subseteq Seq(NoData)
    BY SeqMonotonic
  <2> QED
    BY <1>4, <2>1, SeqMonotonic
<1>6. Stream(r) \in Seq(NoData)
  BY <1>5, NoDataTyped, StreamIn
<1>7. wire \o u \in Seq(NoData)
  BY <1>2, <1>6
<1> QED
  BY <1>2, <1>7, PartsIn

LEMMA Delivers ==
  ASSUME Typed, Story, Copied, Content, handled = <<>>, AcceptContent
  PROVE  /\ wire' = <<>> /\ (pc = "body" => ~open)
         /\ handled' = <<>> \/ handled' = <<Sent(message)>>
<1>1. PICK code \in {250, 451} : /\ TakeLine /\ IsDot(FirstLine) /\ ~Rejected
                  /\ handled' = IF code = 250
                       THEN Append(handled, [from |-> from, to |-> to, body |-> buf])
                       ELSE handled
  BY DEF AcceptContent
<1>2. Ready /\ IsReading
  BY <1>1 DEF TakeLine, Content
<1>3. wire' = <<>> /\ buf = Whole(BodyLines(msg.body)) /\ (pc = "body" => ~open)
  BY <1>1, <1>2, EndOfReading DEF Rejected
<1>4. buf = Normalised(message.body)
  BY <1>2, <1>3, MessageIs, WholeIsNormalised DEF Ready
<1>5. [from |-> from, to |-> to, body |-> buf] = Sent(message)
  BY <1>2, <1>4, MessageIs DEF Ready
<1> DEFINE x == Sent(message)
<1>6. Append(<<>>, x) = <<x>>
  OBVIOUS
<1> QED
  BY <1>1, <1>3, <1>5, <1>6

(* The end of the stream leaves nothing of it.                             *)
LEMMA CutTakesAll ==
  ASSUME Typed, ContentCut PROVE wire' = <<>>
<1>1. wire \in Seq(Symbols) /\ Len(wire) \in Nat
  BY LenProperties DEF Typed, StreamTyped
<1>2. wire' = SubSeq(wire, Len(wire) + 1, Len(wire))
  BY DEF ContentCut, Interrupt
<1> DEFINE n == Len(wire)
           j == n + 1
<1>3. wire' = SubSeq(wire, j, n) /\ j \in Int /\ n \in Int /\ ~(j <= n)
  BY <1>1, <1>2
<1> HIDE DEF n, j
<1>4. \A i \in j..n : wire[i] \in Symbols
  BY <1>3
<1>5. wire' \in Seq(Symbols) /\ Len(wire') = 0
  BY <1>1, <1>3, <1>4, SubSeqProperties
<1> QED
  BY <1>5, EmptySeq

LEMMA LaterContent ==
  ASSUME ContentDeadline => NoDataLine,
         Typed, Story, Copied', pc \in Later,
         \/ LongLine \/ SkipLine \/ KeepLine \/ RejectContent \/ AcceptContent
         \/ ContentDeadline \/ ContentCut
  PROVE  Story'
<1>1. After /\ Copied /\ (phase = "closed" \/ pc = "done" => ~open)
  BY DEF Story, Later
<1>2. phase = "content"
  BY InterruptCode DEF LongLine, SkipLine, KeepLine, RejectContent, AcceptContent, TakeLine,
     ContentDeadline, ContentCut
<1>3. Content /\ Ready /\ IsReading /\ handled = <<>>
  BY <1>1, <1>2 DEF After, Content
<1>4. CASE LongLine \/ SkipLine \/ KeepLine
  <2>1. UNCHANGED <<message, msg, pc, todo, open, phase, from, to, handled>>
    BY <1>4 DEF LongLine, SkipLine, KeepLine, clientVars, sessionVars, envelopeVars
  <2>2. IsReading'
    BY <1>3, <1>4, LineStaysReading
  <2>3. After'
    BY <1>1, <1>2, <1>3, <2>1, <2>2 DEF After, Content, Ready, Sender, NoDataLine
  <2> QED
    BY <1>1, <2>1, <2>3, Goes
<1>5. ASSUME UNCHANGED <<message, msg, pc, todo, open>>, phase' = "command",
             wire' \in Seq(NoData), handled' = <<>> \/ handled' = <<Sent(message)>>,
             pc = "body" => Cut
      PROVE  Story'
  <2>1. After'
    BY <1>1, <1>5 DEF After, Content, Harmless, Cut, NoDataLine
  <2> QED
    BY <1>1, <1>5, <2>1, Goes
<1>6. CASE RejectContent
  <2>1. /\ TakeLine /\ IsDot(FirstLine) /\ phase' = "command" /\ handled' = handled
        /\ UNCHANGED <<message, msg, pc, todo, open>>
    BY <1>6 DEF RejectContent, EndTransaction, clientVars
  <2>2. wire' \in Seq(NoData) /\ (pc = "body" => Cut)
    BY <1>3, <2>1, EndOfReading, EmptyIn DEF Cut
  <2> QED
    BY <1>3, <1>5, <2>1, <2>2
<1>7. CASE AcceptContent
  <2>1. phase' = "command" /\ UNCHANGED <<message, msg, pc, todo, open>>
    BY <1>7 DEF AcceptContent, EndTransaction, clientVars
  <2>2. /\ wire' \in Seq(NoData) /\ (pc = "body" => Cut)
        /\ handled' = <<>> \/ handled' = <<Sent(message)>>
    BY <1>1, <1>3, <1>7, Delivers, EmptyIn DEF Cut
  <2> QED
    BY <1>5, <2>1, <2>2
<1>8. CASE ContentDeadline \/ ContentCut
  <2>1. PICK lost \in Nat : Interrupt(lost)
    <3>1. Len(wire) \in Nat
      BY LenProperties DEF Typed, StreamTyped
    <3> QED
      BY <1>8, <3>1 DEF ContentDeadline, ContentCut
  <2>2. /\ phase' = "command" /\ wire' = SubSeq(wire, lost + 1, Len(wire))
        /\ UNCHANGED <<message, msg, pc, todo, open, handled>>
    BY <2>1, InterruptCode
  <2>3. CASE NoDataLine
    <3>1. wire \in Seq(NoData)
      BY <1>1, <1>3, <2>3, ContentHarmless
    <3>2. wire' \in Seq(NoData)
      <4>1. lost + 1 \in Nat \ {0} /\ Len(wire) \in Int
        BY <3>1, LenProperties
      <4> DEFINE j == lost + 1
      <4>2. /\ j \in Nat \ {0} /\ Len(wire) \in Int /\ Len(wire) <= Len(wire)
            /\ wire' = SubSeq(wire, j, Len(wire))
        BY <2>2, <4>1
      <4> HIDE DEF j
      <4> QED
        BY <3>1, <4>2, PartTyped
    <3> QED
      BY <1>3, <1>5, <2>2, <2>3, <3>2 DEF Cut
  <2>4. CASE ~NoDataLine
    <3>1. ContentCut
      BY <1>8, <2>4
    <3>2. ~open /\ wire' = <<>>
      BY <3>1, CutTakesAll DEF ContentCut
    <3> QED
      BY <1>3, <1>5, <2>2, <3>2, EmptyIn DEF Cut
  <2> QED
    BY <2>3, <2>4
<1> QED
  BY <1>4, <1>6, <1>7, <1>8

LEMMA LaterEnds ==
  ASSUME Typed, Story, Copied', pc \in Later, CommandCut \/ ServerCloses \/ LinkFails
  PROVE  Story'
<1>1. After
  BY DEF Story, Later
<1>2. UNCHANGED <<message, msg, pc, todo, from, to, buf, skip, handled>>
  BY DEF CommandCut, ServerCloses, LinkFails, clientVars, sessionVars, envelopeVars, contentVars,
     historyVars
<1>3. CASE CommandCut \/ ServerCloses
  <2>1. phase' = "closed" /\ ~open'
    BY <1>3 DEF CommandCut, ServerCloses
  <2>2. After'
    BY <1>1, <1>2, <2>1 DEF After, Content, NoDataLine
  <2> QED
    BY <1>2, <2>1, <2>2, Goes
<1>4. CASE LinkFails
  <2>1. open /\ ~open' /\ wire' \in Prefixes(wire) /\ phase' = phase
    BY <1>4 DEF LinkFails, sessionVars
  <2>2. IsReading => IsReading'
    BY <1>2, <2>1, CutReading
  <2>3. Harmless => wire' \in Seq(NoData)
    <3>1. Harmless => wire \in Seq(NoData)
      BY <2>1 DEF Harmless, LastAsked
    <3> QED
      BY <2>1, <3>1, PrefixTyped
  <2>4. Content'
    BY <1>1, <1>2, <2>1, <2>2 DEF After, Content, Ready, Sender
  <2>5. After'
    BY <1>1, <1>2, <2>1, <2>3, <2>4 DEF After, Harmless, Cut, NoDataLine
  <2> QED
    BY <1>2, <2>1, <2>5, Goes
<1> QED
  BY <1>3, <1>4

LEMMA LaterNever ==
  ASSUME ContentDeadline => NoDataLine,
         Typed, ReadInv, OkInv, Story, pc \in Later, Next, Copied'
  PROVE  Story'
<1>1. ~(Start \/ SendEhlo \/ SendMail \/ SendRcpt \/ SendData \/ BeginBody \/ DialFails)
  BY DEF Later, Start, SendEhlo, SendMail, SendRcpt, SendData, BeginBody, DialFails
<1> QED
  BY <1>1, SendsBody, EndsClient, LaterCommand, LaterContent, LaterEnds DEF Next, Client,
     Server, Environment

-----------------------------------------------------------------------------

LEMMA OtherStays ==
  ASSUME result = "other" => pc = "done", Next
  PROVE  /\ result = "other" => result' = "other" /\ pc' = "done"
         /\ result # "other" => result' # "other"
<1> QED
  BY DEF Next, Client, Server, Environment, Start, ReplyContinues, Refused, SendEhlo,
     SendMail, SendRcpt, SendData, BeginBody, SendLine, SendDot, SendQuit, QuitEnds, Greet,
     ServeEhlo, ServeMail, ServeRcpt, ServeData, ServeQuit, ServeOther, NextCommand, LongLine,
     SkipLine, KeepLine, RejectContent, AcceptContent, TakeLine, ContentCut, CommandCut,
     Interrupt, WriteFails, DialFails, ContentDeadline, ServerCloses, LinkFails, Wanted,
     Expected, Goto, Return, clientVars

(* What the proofs of module ReplayProofs keep.                            *)
Kept == Typed /\ EnvelopeTyped /\ ReadInv /\ OkInv

LEMMA InitKept == Init => Kept
<1> SUFFICES ASSUME Init PROVE EnvelopeTyped /\ ReadInv /\ OkInv
  BY InitTyped DEF Kept
<1>1. taken = <<>> /\ buf = <<>> /\ handled = <<>> /\ replies = <<>>
  BY DEF Init, InitCommon
<1>2. ReadInv
  BY <1>1, NothingIsRead DEF ReadInv
<1>3. from \in Seq(Symbols) /\ to \in Seq(Seq(Symbols))
  <2>1. CASE InitReplay
    BY <2>1, EmptySeq DEF InitReplay
  <2>2. CASE InitOther
    <3>1. <<"x">> \in Seq(Symbols)
      <4>1. "x" \in Symbols
        BY DEF Symbols
      <4> QED
        BY <4>1, Single
    <3>2. <<<<"x">>>> \in Seq(Seq(Symbols))
      BY <3>1, Single
    <3> QED
      BY <2>2, <3>1, <3>2 DEF InitOther
  <2> QED
    BY <2>1, <2>2 DEF Init
<1>4. EnvelopeTyped
  BY <1>1, <1>3, EmptySeq DEF EnvelopeTyped
<1>5. OkInv
  BY EmptySeq DEF Init, InitCommon, InitReplay, InitOther, OkInv
<1> QED
  BY <1>2, <1>4, <1>5

LEMMA StaysKept == Kept /\ [Next]_vars => Kept'
<1> SUFFICES ASSUME Kept, [Next]_vars PROVE OkInv'
  BY StaysTyped, EnvelopeStaysTyped, ReadStays DEF Kept
<1>1. CASE UNCHANGED vars
  BY <1>1, KeepsReplies DEF vars, clientVars, sessionVars, historyVars, OkInv, Kept
<1> QED
  BY <1>1, ClientOk, ServerOk, EnvironmentOk DEF Next, Kept

LEMMA StutterNever == NeverInv /\ UNCHANGED vars => NeverInv'
<1> SUFFICES ASSUME NeverInv, UNCHANGED vars PROVE NeverInv'
  OBVIOUS
<1>1. /\ UNCHANGED <<message, limit, pc, msg, todo, result>>
      /\ UNCHANGED <<wire, replies, open, phase, from, to, buf, skip, handled, late>>
  BY DEF vars, clientVars, sessionVars, envelopeVars, contentVars, historyVars
<1>2. IsReading => IsReading'
  BY <1>1, SameReading
<1>3. Content => Content'
  BY <1>1, <1>2 DEF Content, Ready, Sender
<1>4. Unread => Unread'
  BY <1>1 DEF Unread, Asked, AskedNext, Ready, Sender
<1>5. Waiting => Waiting'
  BY <1>1, <1>3 DEF Waiting, Accepted, Sender, Cut, NoDataLine
<1>6. Dialogue => Dialogue'
  BY <1>1, <1>4, <1>5 DEF Dialogue
<1>7. Harmless => Harmless'
  BY <1>1 DEF Harmless, LastAsked, HasLine, Ready, Sender
<1>8. After => After'
  BY <1>1, <1>3, <1>7 DEF After, Cut, NoDataLine
<1>9. Story => Story'
  BY <1>1, <1>6, <1>8 DEF Story, Copied, Unsent
<1>10. (Copied => Copied') /\ Spilt' = Spilt
  BY <1>1 DEF Copied, Spilt, NoDataLine
<1> QED
  BY <1>1, <1>9, <1>10 DEF NeverInv

LEMMA StaysNever == Kept /\ NeverInv /\ [Next]_vars => NeverInv'
<1> SUFFICES ASSUME Kept, NeverInv, Next PROVE NeverInv'
  BY StutterNever
<1>1. CASE result = "other"
  BY <1>1, OtherStays DEF NeverInv
<1>2. CASE result # "other"
  <2>1. result' # "other" /\ Copied
    BY <1>2, OtherStays DEF NeverInv
  <2>2. Copied' /\ NoDataLine' = NoDataLine
    <3>1. UNCHANGED <<message, msg>>
      BY StaysFile
    <3> QED
      BY <2>1, <3>1 DEF Copied, NoDataLine
  <2>3. pc = "file" \/ pc \in Talk \/ pc \in Later
    BY DEF Kept, Typed, ClientTyped, Wanted, Talk, Later
  <2>4. ASSUME ~Spilt' PROVE Story'
    <3>1. ~Spilt /\ (ContentDeadline => NoDataLine)
      <4>1. late' = late \/ (ContentDeadline /\ late' = TRUE)
        BY LateChanges
      <4>2. ContentDeadline => late' = TRUE
        BY DEF ContentDeadline
      <4> QED
        BY <2>2, <2>4, <4>1, <4>2 DEF Spilt
    <3>2. Story
      BY <1>2, <3>1 DEF NeverInv
    <3> QED
      BY <2>2, <2>3, <3>1, <3>2, FileNever, DialogueNever, LaterNever DEF Kept
  <2> QED
    BY <2>1, <2>2, <2>4 DEF NeverInv
<1> QED
  BY <1>1, <1>2

(* A message arrives whole or not at all: for every set of messages, every *)
(* limit and every line length, whatever the connection, the deadlines and *)
(* the server do, the handler sees the envelope and every line of the      *)
(* file's message, once.  The one exception is a body that holds a DATA    *)
(* and a deadline amid its content: the session reads the rest of it as    *)
(* commands, and lines of such a body can make a message of their own.     *)
THEOREM NeverPartialCorrect == Spec => []NeverPartial
<1>1. Kept /\ NeverInv => NeverPartial
  <2> SUFFICES ASSUME Kept, NeverInv, handled # <<>>, result # "other", ~Spilled
               PROVE  handled = <<Sent(message)>>
    BY DEF NeverPartial
  <2>1. Copied /\ (~Spilt => Story)
    BY DEF NeverInv
  <2>2. ~Spilt
    <3>1. message.body \in Seq(Symbols)
      BY <2>1, MessagesAssumption DEF Copied
    <3>2. ASSUME "DATA" \notin Range(message.body) PROVE NoDataLine
      <4> DEFINE b == message.body
      <4>1. b \in Seq(Symbols) /\ Len(b) \in Nat /\ b \in [1..Len(b) -> Symbols]
        BY <3>1, LenProperties
      <4>2. \A i \in 1..Len(b) : b[i] \in NoData
        BY <3>2, <4>1 DEF Range, NoData
      <4> HIDE DEF b
      <4>3. b \in [1..Len(b) -> NoData]
        BY <4>1, <4>2
      <4>4. b \in Seq(NoData)
        BY <4>1, <4>3, FunctionIsSeq
      <4> QED
        BY <4>4 DEF b, NoDataLine
    <3> QED
      BY <3>2 DEF Spilt, Spilled
  <2>3. pc = "file" \/ pc \in Talk \/ pc \in Later
    BY DEF Kept, Typed, ClientTyped, Wanted, Talk, Later
  <2> QED
    BY <2>1, <2>2, <2>3 DEF Story, Unsent, Dialogue, After, Later
<1> QED
  BY <1>1, InitKept, StaysKept, InitNever, StaysNever, PTL DEF Spec

-----------------------------------------------------------------------------
(* A replay that nothing disturbs.                                         *)

More == [code |-> 250, last |-> FALSE]

Asking ==
  /\ open /\ phase = "command" /\ replies = <<>>
  /\ \E a : a \in Seq(Symbols \ {LF}) /\ wire = Command(pc, a)

Answered(r) == open /\ phase = "command" /\ wire = <<>> /\ replies = r

Loading == open /\ phase = "content" /\ IsReading

NotGreeted == open /\ phase = "greet" /\ wire = <<>> /\ replies = <<>>

(* Each reply is the one the client waits for.                             *)
Smooth ==
  /\ pc = "file" => NotGreeted
  /\ pc = "greeting" => NotGreeted \/ Answered(<<Reply(220)>>)
  /\ pc \in {"EHLO", "MAIL", "RCPT"} =>
       Asking \/ Answered(<<Reply(250)>>) \/ Answered(<<More, Reply(250)>>)
  /\ pc = "DATA" =>
       Asking \/ (wire = <<>> /\ replies = <<Reply(354)>> /\ Loading)
  /\ pc = "body" => replies = <<>> /\ Loading
  /\ pc = "sent" => (replies = <<>> /\ Loading) \/ Answered(<<Reply(250)>>)
  /\ pc = "QUIT" =>
       Asking \/ (phase = "closed" /\ wire = <<>> /\ replies = <<Reply(221)>>)
  /\ pc \in Talk \cup {"file"} => todo \in Seq(Seq(Word))
  /\ pc # "done" => skip = "no"
  /\ result = IF pc = "done" THEN "OK" ELSE "none"

CalmInv ==
  IF result = "other" THEN pc = "done"
  ELSE Copied /\ (~disturbed /\ Transferable => Smooth)

LEMMA RepliesTaken ==
  /\ \A code \in {220, 221, 250, 354} :
       /\ Reply(code).last /\ Reply(code).code = code
       /\ <<Reply(code)>> # <<>>
       /\ Head(<<Reply(code)>>) = Reply(code) /\ Tail(<<Reply(code)>>) = <<>>
       /\ <<>> \o <<Reply(code)>> = <<Reply(code)>>
  /\ ~More.last /\ More.code = 250
  /\ <<More, Reply(250)>> # <<>>
  /\ Head(<<More, Reply(250)>>) = More /\ Tail(<<More, Reply(250)>>) = <<Reply(250)>>
  /\ <<>> \o <<More, Reply(250)>> = <<More, Reply(250)>>
<1>1. ASSUME NEW code \in {220, 221, 250, 354}
      PROVE  /\ Reply(code).last /\ Reply(code).code = code
             /\ <<Reply(code)>> # <<>>
             /\ Head(<<Reply(code)>>) = Reply(code) /\ Tail(<<Reply(code)>>) = <<>>
             /\ <<>> \o <<Reply(code)>> = <<Reply(code)>>
  <2> DEFINE x == Reply(code)
  <2>1. x.last /\ x.code = code /\ x \in ReplyLines
    <3>1. x \in ReplyLines
      BY ReplyTyped
    <3> QED
      BY <3>1 DEF Reply
  <2> HIDE DEF x
  <2>2. /\ <<x>> # <<>> /\ Head(<<x>>) = x /\ Tail(<<x>>) = <<>> /\ <<x>> \in Seq(ReplyLines)
    BY <2>1
  <2>3. <<>> \o <<x>> = <<x>>
    BY <2>2, ConcatEmptySeq
  <2> QED
    BY <2>1, <2>2, <2>3 DEF x
<1>2. /\ ~More.last /\ More.code = 250
      /\ <<More, Reply(250)>> # <<>>
      /\ Head(<<More, Reply(250)>>) = More /\ Tail(<<More, Reply(250)>>) = <<Reply(250)>>
      /\ <<>> \o <<More, Reply(250)>> = <<More, Reply(250)>>
  <2> DEFINE x == More
             y == Reply(250)
  <2>1. ~x.last /\ x.code = 250 /\ x \in ReplyLines /\ y \in ReplyLines
    BY ReplyTyped DEF More
  <2> HIDE DEF x, y
  <2>2. /\ <<x, y>> # <<>> /\ Head(<<x, y>>) = x /\ Tail(<<x, y>>) = <<y>>
        /\ <<x, y>> \in Seq(ReplyLines)
    BY <2>1
  <2>3. <<>> \o <<x, y>> = <<x, y>>
    BY <2>2, ConcatEmptySeq
  <2> QED
    BY <2>1, <2>2, <2>3 DEF x, y
<1> QED
  BY <1>1, <1>2

LEMMA StartSmooth ==
  ASSUME Copied, Transferable, Smooth, Start
  PROVE  Smooth'
<1>1. pc = "file" /\ NotGreeted /\ todo \in Seq(Seq(Word)) /\ result = "none"
  BY DEF Smooth, Start
<1>2. msg.to # <<>> /\ msg.body # <<>>
  <2>1. msg.body = message.body
    BY MessageIs
  <2>2. message.to \in Seq(Seq(Symbols)) /\ message.to # <<>> /\ message.body # <<>>
    BY MessagesAssumption DEF Copied, Transferable
  <2>3. DOMAIN msg.to = 1..Len(message.to)
    BY <2>2, LenProperties DEF Copied, Stored
  <2>4. 1 \in DOMAIN msg.to
    BY <2>2, <2>3, EmptySeq, LenProperties
  <2>5. DOMAIN <<>> = 1..0
    BY EmptySeq, LenProperties
  <2> QED
    BY <2>1, <2>2, <2>4, <2>5
<1>3. /\ pc' = "greeting" /\ UNCHANGED <<open, result, todo, wire, replies, phase, skip>>
  BY <1>2 DEF Start, Goto, sessionVars, contentVars
<1> QED
  BY <1>1, <1>3 DEF Smooth, NotGreeted

LEMMA NotRefused ==
  ASSUME Smooth, pc # "done"
  PROVE  ~(Refused \/ WriteFails)
<1>1. ASSUME pc \in DOMAIN Wanted, replies # <<>> PROVE Head(replies).code = Wanted[pc]
  BY <1>1, RepliesTaken DEF Smooth, Wanted, Asking, Answered, NotGreeted
<1>2. pc \in DOMAIN Wanted \cup {"body"} => open
  BY DEF Smooth, Wanted, Asking, Answered, NotGreeted, Loading
<1> QED
  BY <1>1, <1>2, WantedCodes DEF Refused, WriteFails

LEMMA ContinuesSmooth ==
  ASSUME Smooth, ReplyContinues
  PROVE  Smooth'
<1>1. /\ pc \in DOMAIN Wanted /\ replies # <<>> /\ ~Head(replies).last
      /\ replies' = Tail(replies)
      /\ UNCHANGED <<pc, todo, result, wire, open, phase, skip>>
  BY DEF ReplyContinues, clientVars, sessionVars, contentVars
<1>2. /\ pc \in {"EHLO", "MAIL", "RCPT"} /\ Answered(<<More, Reply(250)>>)
  BY <1>1, RepliesTaken DEF Smooth, Wanted, Asking, Answered, NotGreeted
<1>3. Answered(<<Reply(250)>>)'
  BY <1>1, <1>2, RepliesTaken DEF Answered
<1> QED
  BY <1>1, <1>2, <1>3 DEF Smooth, Talk

(* The client has the reply it waits for and sends its next command.       *)
LEMMA SmoothGranted ==
  ASSUME Smooth, Expected
  PROVE  /\ replies' = <<>> /\ wire = <<>> /\ open
         /\ pc = "DATA" => replies = <<Reply(354)>> /\ Loading
         /\ pc # "DATA" => phase = "command"
<1>1. /\ pc \in DOMAIN Wanted /\ replies # <<>> /\ Head(replies).last
      /\ Head(replies).code = Wanted[pc] /\ replies' = Tail(replies)
  BY DEF Expected
<1>2. CASE pc = "DATA"
  <2>1. Asking \/ (wire = <<>> /\ replies = <<Reply(354)>> /\ Loading)
    BY <1>2 DEF Smooth
  <2>2. wire = <<>> /\ replies = <<Reply(354)>> /\ Loading
    BY <1>1, <2>1, Zenon DEF Asking
  <2> QED
    BY <1>1, <1>2, <2>2, RepliesTaken, SMTT(30) DEF Loading
<1>3. CASE pc = "greeting"
  <2>1. Answered(<<Reply(220)>>)
    BY <1>1, <1>3 DEF Smooth, NotGreeted
  <2> QED
    BY <1>1, <1>3, <2>1, RepliesTaken DEF Answered
<1>4. CASE pc = "sent"
  <2>1. Answered(<<Reply(250)>>)
    BY <1>1, <1>4 DEF Smooth
  <2> QED
    BY <1>1, <1>4, <2>1, RepliesTaken DEF Answered
<1>5. CASE pc \in {"EHLO", "MAIL", "RCPT"}
  <2>1. Answered(<<Reply(250)>>) \/ Answered(<<More, Reply(250)>>)
    BY <1>1, <1>5 DEF Smooth, Asking
  <2>2. Answered(<<Reply(250)>>)
    BY <1>1, <2>1, RepliesTaken DEF Answered
  <2> QED
    BY <1>1, <1>5, <2>2, RepliesTaken DEF Answered
<1> QED
  BY <1>1, <1>2, <1>3, <1>4, <1>5, WantedCodes

LEMMA AsksSmooth ==
  ASSUME Smooth, Expected, pc # "DATA", pc' \in {"EHLO", "MAIL", "RCPT", "DATA", "QUIT"},
         UNCHANGED <<open, phase, skip, result>>,
         pc' # "QUIT" => todo' \in Seq(Seq(Word)),
         NEW a \in Seq(Symbols \ {LF}), Send(Command(pc', a))
  PROVE  Smooth'
<1>1. replies' = <<>> /\ wire = <<>> /\ open /\ phase = "command" /\ result = "none"
  BY SmoothGranted, WantedCodes DEF Smooth, Expected
<1>2. Command(pc', a) \in Seq(Symbols)
  <2>1. pc' \in Symbols /\ a \in Seq(Symbols)
    BY SeqMonotonic DEF Symbols
  <2> QED
    BY <2>1, CommandTyped
<1>3. wire' = Command(pc', a)
  <2> DEFINE s == Command(pc', a)
  <2>1. wire' = <<>> \o s
    BY <1>1 DEF Send
  <2> HIDE DEF s
  <2>2. <<>> \o s = s
    BY <1>2, ConcatEmptySeq DEF s
  <2> QED
    BY <2>1, <2>2 DEF s
<1>4. Asking'
  BY <1>1, <1>3 DEF Asking
<1> QED
  BY <1>1, <1>4 DEF Smooth, Talk

LEMMA SendsSmooth ==
  ASSUME Copied, Smooth, SendEhlo \/ SendMail \/ SendRcpt \/ SendData \/ SendQuit
  PROVE  Smooth'
<1>1. Expected /\ UNCHANGED <<open, phase, skip, result>>
  BY DEF SendEhlo, SendMail, SendRcpt, SendData, SendQuit, Goto, sessionVars, contentVars
<1>2. <<>> \in Seq(Symbols \ {LF})
  BY EmptyIn
<1>3. CASE SendEhlo \/ SendData \/ SendQuit
  <2>1. /\ pc' \in {"EHLO", "DATA", "QUIT"} /\ Send(Command(pc', <<>>)) /\ todo' = todo
        /\ pc # "DATA" /\ (pc' # "QUIT" => pc \in Talk)
    BY <1>3 DEF SendEhlo, SendData, SendQuit, Goto, Talk
  <2>2. pc' # "QUIT" => todo' \in Seq(Seq(Word))
    BY <2>1 DEF Smooth
  <2> DEFINE a == <<>>
  <2>3. Send(Command(pc', a)) /\ a \in Seq(Symbols \ {LF})
    BY <1>2, <2>1
  <2> HIDE DEF a
  <2> QED
    BY <1>1, <2>1, <2>2, <2>3, AsksSmooth
<1>4. CASE SendMail
  <2> DEFINE a == Path0(Sender)
  <2>1. pc = "EHLO" /\ pc' = "MAIL" /\ todo' = todo /\ Send(Command(pc', a))
    BY <1>4, MessageIs DEF SendMail, Goto
  <2>2. a \in Seq(Symbols \ {LF})
    BY MessageIs, WordIn
  <2>3. todo' \in Seq(Seq(Word))
    BY <2>1 DEF Smooth, Talk
  <2> HIDE DEF a
  <2> QED
    BY <1>1, <2>1, <2>2, <2>3, AsksSmooth
<1>5. CASE SendRcpt
  <2> DEFINE a == Path0(Head(todo))
  <2>1. /\ pc \in {"MAIL", "RCPT"} /\ pc' = "RCPT" /\ todo' = Tail(todo) /\ todo # <<>>
        /\ Send(Command(pc', a))
    BY <1>5 DEF SendRcpt, Goto, Path0
  <2>2. todo \in Seq(Seq(Word))
    BY <2>1 DEF Smooth, Talk
  <2>3. Head(todo) \in Seq(Word) /\ todo' \in Seq(Seq(Word))
    BY <2>1, <2>2, HeadTyped
  <2>4. a \in Seq(Symbols \ {LF})
    BY <2>3, WordIn
  <2> HIDE DEF a
  <2> QED
    BY <1>1, <2>1, <2>3, <2>4, AsksSmooth
<1> QED
  BY <1>3, <1>4, <1>5

LEMMA BodySmooth ==
  ASSUME Typed, Smooth, BeginBody \/ SendLine \/ SendDot
  PROVE  Smooth'
<1>1. UNCHANGED <<open, phase, skip, result>>
  BY DEF BeginBody, SendLine, SendDot, Goto, sessionVars, contentVars
<1>2. CASE BeginBody
  <2>1. pc = "DATA" /\ pc' = "body" /\ Expected
    BY <1>2 DEF BeginBody, Goto
  <2>2. replies' = <<>> /\ Loading
    BY <2>1, SmoothGranted
  <2>3. Loading'
    BY <1>1, <1>2, <2>2, BeginReading DEF Loading
  <2> QED
    BY <1>1, <2>1, <2>2, <2>3 DEF Smooth, Talk
<1>3. CASE SendLine
  <2>1. pc = "body" /\ pc' = "body" /\ replies' = replies
    BY <1>3 DEF SendLine
  <2>2. replies' = <<>> /\ Loading
    BY <2>1 DEF Smooth
  <2>3. Loading'
    BY <1>1, <1>3, <2>2, SendLineReading DEF Loading
  <2> QED
    BY <1>1, <2>1, <2>2, <2>3 DEF Smooth, Talk
<1>4. CASE SendDot
  <2>1. pc = "body" /\ pc' = "sent" /\ replies' = replies
    BY <1>4 DEF SendDot, Goto
  <2>2. replies' = <<>> /\ Loading
    BY <2>1 DEF Smooth
  <2>3. Loading'
    BY <1>1, <1>4, <2>2, SendDotReading DEF Loading
  <2> QED
    BY <1>1, <2>1, <2>2, <2>3 DEF Smooth, Talk
<1> QED
  BY <1>2, <1>3, <1>4

LEMMA AskingRead ==
  ASSUME Typed, Asking, pc \in Verbs
  PROVE  FirstLine[1] = pc /\ AfterLine = <<>> /\ HasLine
<1>1. PICK a : a \in Seq(Symbols \ {LF}) /\ wire = Command(pc, a)
  BY DEF Asking
<1>2. wire \in Seq(Symbols) /\ pc \in Symbols \ {LF}
  BY VerbsTyped DEF Typed, StreamTyped
<1> QED
  BY <1>1, <1>2, CommandRead

LEMMA EmptyNoLine == wire = <<>> => ~HasLine
BY DEF HasLine, Range

LEMMA CommandsSmooth ==
  ASSUME Typed, ReadInv, Copied, Smooth, ~disturbed', pc # "done",
         \/ Greet \/ ServeEhlo \/ ServeMail \/ ServeRcpt
         \/ ServeData \/ ServeQuit \/ ServeOther
  PROVE  Smooth'
<1>1. UNCHANGED <<pc, todo, skip, result>>
  BY DEF Greet, ServeEhlo, ServeMail, ServeRcpt, ServeData, ServeQuit, ServeOther, clientVars,
     sessionVars, contentVars
<1>2. CASE Greet
  <2>1. /\ phase = "greet" /\ phase' = "command" /\ UNCHANGED <<wire, open>> /\ pc # "file"
        /\ Answer(<<Reply(220)>>)
    BY <1>2 DEF Greet
  <2>2. pc = "greeting" /\ NotGreeted
    BY <2>1 DEF Smooth, Asking, Answered, Loading, Typed, ClientTyped, Wanted
  <2>3. replies' = <<Reply(220)>>
    BY <2>1, <2>2, RepliesTaken DEF NotGreeted, Answer
  <2>4. Answered(<<Reply(220)>>)'
    BY <2>1, <2>2, <2>3 DEF NotGreeted, Answered
  <2> QED
    BY <1>1, <2>2, <2>4 DEF Smooth, Talk
<1>3. CASE ServeEhlo \/ ServeMail \/ ServeRcpt \/ ServeData \/ ServeQuit \/ ServeOther
  <2>1. phase = "command" /\ HasLine /\ wire' = AfterLine
    BY <1>3 DEF ServeEhlo, ServeMail, ServeRcpt, ServeData, ServeQuit, ServeOther, NextCommand
  <2>2. Asking /\ pc \in Verbs
    BY <2>1, EmptyNoLine DEF Smooth, Asking, Answered, Loading, NotGreeted, Typed, ClientTyped,
       Wanted, Verbs
  <2>3. FirstLine[1] = pc /\ wire' = <<>> /\ open /\ replies = <<>>
    BY <2>1, <2>2, AskingRead DEF Asking
  <2>4. CASE ServeEhlo
    <3>1. pc = "EHLO" /\ phase' = "command" /\ open' = open
      BY <2>1, <2>3, <2>4 DEF ServeEhlo, NextCommand
    <3>2. Answer(<<More, Reply(250)>>)
      <4>1. ~Handler(550)
        <5> SUFFICES ASSUME Handler(550) PROVE disturbed'
          OBVIOUS
        <5>1. 550 # 250
          OBVIOUS
        <5>2. disturbed' = (disturbed \/ 550 # 250)
          BY DEF Handler
        <5> QED
          BY <5>1, <5>2, Zenon
      <4> QED
        BY <2>4, <4>1 DEF ServeEhlo, More
    <3>3. Answered(<<More, Reply(250)>>)'
      BY <2>3, <3>1, <3>2, RepliesTaken DEF Answered, Answer
    <3> QED
      BY <1>1, <3>1, <3>3 DEF Smooth, Talk
  <2>5. CASE ServeMail \/ ServeRcpt
    <3>1. pc \in {"MAIL", "RCPT"} /\ phase' = "command" /\ open' = open
      BY <2>1, <2>3, <2>5, ZenonT(30) DEF ServeMail, ServeRcpt, NextCommand
    <3>2. Answer(<<Reply(250)>>)
      BY <2>5, ZenonT(30) DEF ServeMail, ServeRcpt, Handler
    <3>3. Answered(<<Reply(250)>>)'
      BY <2>3, <3>1, <3>2, RepliesTaken DEF Answered, Answer
    <3> QED
      BY <1>1, <3>1, <3>3 DEF Smooth, Talk
  <2>6. CASE ServeData
    <3>1. /\ pc = "DATA" /\ phase' = "content" /\ UNCHANGED <<open, buf, skip, msg>>
          /\ Answer(<<Reply(354)>>)
      BY <2>3, <2>6 DEF ServeData, NextCommand, contentVars, clientVars
    <3>2. replies' = <<Reply(354)>>
      BY <2>3, <3>1, RepliesTaken DEF Answer
    <3>3. buf = <<>> /\ msg \in Message
      BY <2>1, MessageIs DEF ReadInv
    <3>4. Loading'
      BY <1>1, <2>3, <3>1, <3>3, StartsReading DEF Loading
    <3> QED
      BY <1>1, <2>3, <3>1, <3>2, <3>4 DEF Smooth, Talk
  <2>7. CASE ServeQuit
    <3>1. pc = "QUIT" /\ phase' = "closed" /\ Answer(<<Reply(221)>>)
      BY <2>3, <2>7 DEF ServeQuit, NextCommand
    <3>2. replies' = <<Reply(221)>>
      BY <2>3, <3>1, RepliesTaken DEF Answer
    <3> QED
      BY <1>1, <2>3, <3>1, <3>2 DEF Smooth, Talk
  <2>8. CASE ServeOther
    BY <2>2, <2>3, <2>8 DEF ServeOther, Verbs
  <2> QED
    BY <1>3, <2>4, <2>5, <2>6, <2>7, <2>8
<1> QED
  BY <1>2, <1>3

(* A line the session has not read is no longer than it takes, nor is what *)
(* it will have kept with it.                                              *)
LEMMA LineFits ==
  ASSUME Copied, Transferable, Typed, NEW l, NEW r, NEW u, Reading(l, r, u), skip = "no",
         r # <<>>
  PROVE  /\ Len(Stuffed(Head(r))) <= MaxLine
         /\ limit > 0 => Len(buf) + Len(Head(r)) + 2 <= limit
<1> DEFINE F == Symbols \ {LF}
           x == Head(r)
           t == Tail(r)
           m == Append(l, x)
           b == BodyLines(message.body)
<1>1. /\ l \in Seq(Seq(F)) /\ r \in Seq(Seq(F)) /\ l \o r = b /\ buf = Whole(l)
  BY MessageIs DEF Reading
<1>2. /\ message.body # <<>> /\ message.body \in Seq(Symbols) /\ message.body = msg.body
      /\ \A i \in DOMAIN b : Len(Stuffed(b[i])) <= MaxLine
      /\ limit > 0 => Len(Sent(message).body) <= limit
      /\ Sent(message).body = Normalised(message.body)
      /\ limit \in Nat
  <2>1. limit \in Nat
    BY LimitsAssumption DEF Typed, ClientTyped
  <2> QED
    BY <2>1, MessageIs DEF Transferable
<1>3. x \in Seq(F) /\ t \in Seq(Seq(F))
  BY <1>1, HeadTyped
<1>4. Len(Stuffed(x)) <= MaxLine
  <2> DEFINE c == l \o r
             n == Len(l) + 1
  <2>1. /\ Len(c) = Len(l) + Len(r) /\ c \in Seq(Seq(F))
        /\ \A i \in 1..Len(l) + Len(r) : c[i] = IF i <= Len(l) THEN l[i] ELSE r[i - Len(l)]
    BY <1>1, ConcatProperties
  <2>2. Len(l) \in Nat /\ Len(r) \in Nat \ {0} /\ r[1] = x
    BY <1>1, HeadTailProperties, LenProperties, EmptySeq
  <2>3. DOMAIN c = 1..Len(c)
    BY <2>1, LenProperties
  <2>4. c = b
    BY <1>1
  <2> HIDE DEF c, x, b
  <2>5. n \in 1..Len(c) /\ ~(n <= Len(l)) /\ n - Len(l) = 1
    BY <2>1, <2>2
  <2>6. c[n] = x
    BY <2>1, <2>2, <2>5
  <2> QED
    BY <1>2, <2>3, <2>4, <2>5, <2>6
<1>5. l \in Seq(Seq(Symbols)) /\ x \in Seq(Symbols) /\ t \in Seq(Seq(Symbols))
  BY <1>1, <1>3, LinesTyped, SeqMonotonic
<1>6. m \in Seq(Seq(Symbols))
  BY <1>5, AppendProperties
<1>7. m \o t = b
  <2>1. Append(l, Head(r)) \o Tail(r) = l \o r
    <3> HIDE DEF F
    <3> QED
      BY <1>1, LinesMove
  <2> QED
    BY <1>1, <2>1
<1>8. Whole(b) = Normalised(message.body)
  BY <1>2, WholeIsNormalised
<1> HIDE DEF x, t, m, b
<1>9. Whole(b) = Whole(m) \o Whole(t)
  BY <1>5, <1>6, <1>7, SymbolsTyped, WholeConcat
<1>10. Whole(m) = Whole(l) \o (x \o CRLF)
  BY <1>5, SymbolsTyped, WholeAppend DEF m
<1>11. Whole(l) \in Seq(Symbols) /\ Whole(m) \in Seq(Symbols) /\ Whole(t) \in Seq(Symbols)
       /\ CRLF \in Seq(Symbols) /\ Len(CRLF) = 2
  BY <1>5, <1>6, SymbolsTyped, WholeAppend, TwoSeparators
<1> DEFINE p == Whole(l)
           q == Whole(m)
           v == Whole(t)
           y == x \o CRLF
<1> HIDE DEF CRLF
<1>12. y \in Seq(Symbols) /\ Len(y) = Len(x) + 2
  <2>1. y \in Seq(Symbols) /\ Len(y) = Len(x) + Len(CRLF)
    BY <1>5, <1>11, ConcatProperties
  <2> QED
    BY <1>11, <2>1
<1>13. p \in Seq(Symbols) /\ q \in Seq(Symbols) /\ v \in Seq(Symbols) /\ q = p \o y
  BY <1>10, <1>11
<1> HIDE DEF p, q, v, y
<1>14. Len(q) = Len(p) + Len(y)
  BY <1>12, <1>13, ConcatProperties
<1>15. Len(q \o v) = Len(q) + Len(v) /\ Len(v) \in Nat
  BY <1>13, ConcatProperties, LenProperties
<1>16. Len(Sent(message).body) = Len(q) + Len(v)
  <2>1. Sent(message).body = q \o v
    BY <1>2, <1>8, <1>9 DEF q, v
  <2> QED
    BY <1>15, <2>1
<1>17. Len(buf) = Len(p) /\ Len(p) \in Nat /\ Len(x) \in Nat
  BY <1>1, <1>5, <1>13, LenProperties DEF p
<1> QED
  BY <1>2, <1>4, <1>12, <1>14, <1>15, <1>16, <1>17 DEF x

LEMMA ContentSmooth ==
  ASSUME Typed, Copied, Transferable, Smooth, ~disturbed', pc # "done",
         LongLine \/ SkipLine \/ KeepLine \/ RejectContent \/ AcceptContent
  PROVE  Smooth'
<1>1. TakeLine /\ HasLine /\ phase = "content" /\ UNCHANGED <<pc, todo, result, open, msg>>
  BY DEF LongLine, SkipLine, KeepLine, RejectContent, AcceptContent, TakeLine, clientVars
<1>2. /\ pc \in {"body", "sent"} /\ replies = <<>> /\ Loading /\ skip = "no" /\ open
  BY <1>1, EmptyNoLine DEF Smooth, Asking, Answered, NotGreeted, Loading, Typed, ClientTyped,
     Wanted
<1>3. PICK l, r, u : Reading(l, r, u)
  BY <1>2 DEF Loading, IsReading
<1>4. /\ r = <<>> => IsDot(FirstLine) /\ AfterLine = <<>> /\ u = <<>>
      /\ r # <<>> => /\ Text(FirstLine) = Stuffed(Head(r)) /\ ~IsDot(FirstLine)
                     /\ Head(r) \in Seq(Symbols \ {LF})
  BY <1>1, <1>3, NextOfContent
<1>5. CASE r # <<>>
  <2>1. ~TooLong(FirstLine)
    <3>1. Len(Text(FirstLine)) <= MaxLine
      BY <1>2, <1>3, <1>4, <1>5, LineFits
    <3>2. Stuffed(Head(r)) \in Seq(Symbols)
      BY <1>4, <1>5, StuffedTyped, SeqMonotonic
    <3>3. Len(Text(FirstLine)) \in Nat
      BY <1>4, <1>5, <3>2, LenProperties
    <3> QED
      BY <3>1, <3>3, MaxLineAssumption DEF TooLong
  <2>2. KeepLine
    BY <1>2, <1>4, <1>5, <2>1 DEF LongLine, SkipLine, RejectContent, AcceptContent
  <2>3. ~Overflows(Unstuffed(Text(FirstLine)))
    <3>1. Head(r) \in Seq(Symbols)
      BY <1>4, <1>5, SeqMonotonic
    <3>2. Unstuffed(Text(FirstLine)) = Head(r)
      BY <1>4, <1>5, <3>1, StuffedReads
    <3>3. limit > 0 => Len(buf) + Len(Head(r)) + 2 <= limit
      BY <1>2, <1>3, <1>5, LineFits
    <3>4. limit \in Nat /\ Len(buf) \in Nat /\ Len(Head(r)) \in Nat
      BY <3>1, LimitsAssumption, LenProperties DEF Typed, ClientTyped, SessionTyped
    <3> DEFINE k == Len(buf)
               n == Len(Head(r))
    <3>5. (limit > 0 => k + n + 2 <= limit) /\ limit \in Nat /\ k \in Nat /\ n \in Nat
      BY <3>3, <3>4
    <3> HIDE DEF k, n
    <3>6. ~(limit > 0 /\ k + n + 2 > limit)
      BY <3>5
    <3> QED
      BY <3>2, <3>6 DEF Overflows, k, n
  <2>4. skip' = "no" /\ phase' = "content" /\ replies' = replies
    BY <1>1, <1>2, <2>2, <2>3 DEF KeepLine
  <2>5. IsReading'
    BY <1>2, <2>2, LineStaysReading DEF Loading
  <2> QED
    BY <1>1, <1>2, <2>4, <2>5 DEF Smooth, Loading, Talk
<1>6. CASE r = <<>>
  <2>1. IsDot(FirstLine) /\ u = <<>>
    BY <1>4, <1>6
  <2>2. pc = "sent"
    <3>1. pc = "body" => u = Stream(todo)
      BY <1>2, <1>3 DEF Reading
    <3>2. todo \in Seq(Seq(Symbols))
      BY DEF Typed, ClientTyped
    <3> QED
      BY <1>2, <2>1, <3>1, <3>2, StreamSome
  <2>3. wire' = <<>> /\ buf = Whole(BodyLines(msg.body))
    BY <1>1, <1>2, <2>1, EndOfReading DEF Loading
  <2>4. "8bit" \notin Range(buf)
    <3> DEFINE G == Symbols \ {"8bit"}
    <3>1. message.body \in Seq(G)
      <4>1. message.body \in Seq(Symbols) /\ "8bit" \notin Range(message.body)
        BY MessageIs DEF Transferable
      <4>2. /\ Len(message.body) \in Nat /\ DOMAIN message.body = 1..Len(message.body)
            /\ message.body \in [1..Len(message.body) -> Symbols]
        BY <4>1, LenProperties
      <4>3. message.body \in [1..Len(message.body) -> G]
        BY <4>1, <4>2 DEF Range
      <4> HIDE DEF G
      <4> QED
        BY <4>2, <4>3, FunctionIsSeq
    <3>2. BodyLines(message.body) \in Seq(Seq(G \ {LF}))
      BY <3>1, BodyLinesIn
    <3>3. BodyLines(message.body) \in Seq(Seq(G))
      <4>1. Seq(G \ {LF}) \subseteq Seq(G)
        BY SeqMonotonic
      <4> QED
        BY <3>2, <4>1, SeqMonotonic
    <3>4. CR \in G /\ LF \in G
      BY DEF Symbols, CR, LF
    <3>5. buf \in Seq(G)
      <4>1. buf = Whole(BodyLines(message.body))
        BY <2>3, MessageIs
      <4>2. <<>> \in Seq(G)
        BY EmptyIn
      <4> HIDE DEF G
      <4> QED
        BY <3>3, <3>4, <4>1, <4>2, WholeAppend
    <3>6. DOMAIN buf = 1..Len(buf) /\ \A i \in 1..Len(buf) : buf[i] \in G
      <4> HIDE DEF G
      <4> QED
        BY <3>5, LenProperties, ElementOfSeq
    <3> QED
      BY <3>6 DEF Range
  <2>5. ~Rejected
    BY <1>2, <2>4 DEF Rejected
  <2>6. AcceptContent
    BY <1>2, <2>1, <2>5, LongIsNoDot DEF LongLine, SkipLine, KeepLine, RejectContent
  <2>7. PICK code \in {250, 451} : Handler(code) /\ Answer(<<Reply(code)>>)
    BY <2>6 DEF AcceptContent
  <2>8. code = 250
    <3> SUFFICES ASSUME code # 250 PROVE disturbed'
      OBVIOUS
    <3>1. disturbed' = (disturbed \/ code # 250)
      BY <2>7 DEF Handler
    <3> QED
      BY <3>1, Zenon
  <2>9. replies' = <<Reply(250)>>
    BY <1>2, <2>7, <2>8, RepliesTaken DEF Answer
  <2>10. phase' = "command" /\ skip' = "no"
    BY <2>6 DEF AcceptContent, EndTransaction
  <2> QED
    BY <1>1, <1>2, <2>2, <2>3, <2>9, <2>10 DEF Smooth, Answered, Talk
<1> QED
  BY <1>5, <1>6

LEMMA StaysSmooth ==
  ASSUME Kept, Copied, Transferable, Smooth, ~disturbed', Next
  PROVE  Smooth'
<1>1. Typed /\ ReadInv
  BY DEF Kept
<1>2. ~(DialFails \/ ContentDeadline \/ ServerCloses \/ LinkFails)
  BY DEF DialFails, ContentDeadline, ServerCloses, LinkFails
<1>3. CASE pc = "done"
  <2>1. ~(Client \/ WriteFails)
    BY <1>3 DEF Client, Start, ReplyContinues, Refused, SendEhlo, SendMail, SendRcpt, SendData,
       BeginBody, SendLine, SendDot, SendQuit, QuitEnds, WriteFails, Wanted
  <2>2. UNCHANGED <<pc, result>>
    BY <1>2, <2>1 DEF Next, Environment, Server, Greet, ServeEhlo, ServeMail, ServeRcpt,
       ServeData, ServeQuit, ServeOther, LongLine, SkipLine, KeepLine, RejectContent,
       AcceptContent, ContentCut, CommandCut, Interrupt, clientVars
  <2> QED
    BY <1>3, <2>2 DEF Smooth, Talk
<1>4. CASE pc # "done"
  <2>1. ~(ContentCut \/ CommandCut)
    BY <1>1, <1>4 DEF Smooth, Asking, Answered, NotGreeted, Loading, ContentCut, CommandCut,
       Interrupt, Typed, ClientTyped, Wanted
  <2>2. ~(Refused \/ WriteFails)
    BY <1>4, NotRefused
  <2>3. QuitEnds => Smooth'
    BY DEF Smooth, QuitEnds, Return, sessionVars, contentVars, Talk
  <2> QED
    BY <1>1, <1>2, <1>4, <2>1, <2>2, <2>3, StartSmooth, ContinuesSmooth, SendsSmooth, BodySmooth,
       CommandsSmooth, ContentSmooth DEF Next, Client, Server, Environment
<1> QED
  BY <1>3, <1>4

LEMMA InitCalm == Init => CalmInv
<1> SUFFICES ASSUME Init PROVE CalmInv
  OBVIOUS
<1>1. CASE InitOther
  BY <1>1 DEF InitOther, CalmInv
<1>2. CASE InitReplay
  <2>1. /\ pc = "file" /\ todo = msg.to /\ result = "none" /\ skip = "no" /\ NotGreeted
    BY <1>2 DEF InitReplay, Init, InitCommon, NotGreeted
  <2>2. Copied
    BY <2>1, InitNever DEF NeverInv, Story
  <2>3. todo \in Seq(Seq(Word))
    BY <2>1, <2>2, MessageIs
  <2> QED
    BY <2>1, <2>2, <2>3 DEF CalmInv, Smooth
<1> QED
  BY <1>1, <1>2 DEF Init

LEMMA DisturbedStays ==
  ASSUME Typed, Next, ~disturbed' PROVE ~disturbed
<1>1. disturbed \in BOOLEAN
  BY DEF Typed, SessionTyped
<1>2. CASE Client \/ WriteFails \/ DialFails
  <2>1. disturbed' \in {disturbed, TRUE}
    BY <1>2, ClientLeaves
  <2> QED
    BY <2>1
<1>3. ASSUME NEW code, Handler(code) PROVE ~disturbed
  BY <1>1, <1>3 DEF Handler
<1>4. CASE ServeEhlo \/ ServeMail \/ ServeRcpt \/ AcceptContent
  BY <1>3, <1>4 DEF ServeEhlo, ServeMail, ServeRcpt, AcceptContent
<1>5. CASE \/ Greet \/ ServeData \/ ServeQuit \/ ServeOther \/ LongLine \/ SkipLine \/ KeepLine
           \/ RejectContent \/ ContentCut \/ CommandCut
  <2>1. disturbed' = disturbed
    BY <1>5 DEF Greet, ServeData, ServeQuit, ServeOther, LongLine, SkipLine, KeepLine,
       RejectContent, ContentCut, CommandCut, historyVars
  <2> QED
    BY <2>1
<1>6. CASE ContentDeadline \/ ServerCloses \/ LinkFails
  BY <1>6 DEF ContentDeadline, ServerCloses, LinkFails
<1> QED
  BY <1>2, <1>4, <1>5, <1>6 DEF Next, Server, Environment

LEMMA LimitStays ==
  ASSUME Next PROVE limit' = limit
BY ClientLeaves, ZenonT(30)
   DEF Next, Server, Environment, Greet, ServeEhlo, ServeMail, ServeRcpt, ServeData, ServeQuit,
   ServeOther, LongLine, SkipLine, KeepLine, RejectContent, AcceptContent, ContentCut,
   CommandCut, ContentDeadline, Interrupt, ServerCloses, LinkFails, clientVars

LEMMA StutterCalm == CalmInv /\ UNCHANGED vars => CalmInv'
<1> SUFFICES ASSUME CalmInv, UNCHANGED vars PROVE CalmInv'
  OBVIOUS
<1>1. /\ UNCHANGED <<message, limit, pc, msg, todo, result, disturbed>>
      /\ UNCHANGED <<wire, replies, open, phase, from, to, buf, skip, handled>>
  BY DEF vars, clientVars, sessionVars, envelopeVars, contentVars, historyVars
<1>2. Loading => Loading'
  BY <1>1, SameReading DEF Loading
<1>3. /\ Asking => Asking'
      /\ NotGreeted => NotGreeted'
      /\ \A r : Answered(r) => Answered(r)'
  BY <1>1 DEF Asking, NotGreeted, Answered
<1>4. Smooth => Smooth'
  BY <1>1, <1>2, <1>3 DEF Smooth
<1>5. Copied => Copied'
  BY <1>1 DEF Copied
<1>6. Transferable' => Transferable
  BY <1>1 DEF Transferable
<1> QED
  BY <1>1, <1>4, <1>5, <1>6 DEF CalmInv

LEMMA StaysCalm == Kept /\ CalmInv /\ [Next]_vars => CalmInv'
<1> SUFFICES ASSUME Kept, CalmInv, Next PROVE CalmInv'
  BY StutterCalm
<1>1. result = "other" => pc = "done"
  BY DEF CalmInv
<1>2. CASE result = "other"
  BY <1>1, <1>2, OtherStays DEF CalmInv
<1>3. CASE result # "other"
  <2>1. result' # "other" /\ Copied /\ (~disturbed /\ Transferable => Smooth)
    BY <1>1, <1>3, OtherStays DEF CalmInv
  <2>2. Copied'
    BY <2>1, StaysFile DEF Copied
  <2>3. ASSUME ~disturbed', Transferable' PROVE Smooth'
    <3>1. ~disturbed
      BY <2>3, DisturbedStays DEF Kept
    <3>2. Transferable
      <4>1. UNCHANGED <<message, limit>>
        BY StaysFile, LimitStays
      <4> QED
        BY <2>3, <4>1 DEF Transferable
    <3> QED
      BY <2>1, <2>3, <3>1, <3>2, StaysSmooth
  <2> QED
    BY <2>1, <2>2, <2>3 DEF CalmInv
<1> QED
  BY <1>2, <1>3

(* The client and the server agree: for every message, every limit and     *)
(* every line length, and however the two interleave, a replay fails only  *)
(* for a message it cannot carry, or when a refusal, a deadline or a       *)
(* failure has disturbed it.                                               *)
THEOREM FailsForCauseCorrect == Spec => []FailsForCause
<1>1. CalmInv => FailsForCause
  BY DEF CalmInv, FailsForCause, Smooth
<1> QED
  BY <1>1, InitKept, StaysKept, InitCalm, StaysCalm, PTL DEF Spec

==============================================================================
