----------------------- MODULE ConnectionStreamProofs -----------------------
(***************************************************************************)
(* Proofs about Connection that follow the stream of the client through    *)
(* the socket, the buffer, the reader and the channel: message content and *)
(* TLS records are never parsed as commands, and the commands run in the   *)
(* order they were sent.  The invariant StreamInv holds until a takeover   *)
(* leaves its content in the stream, which `strayed' records.              *)
(***************************************************************************)
EXTENDS ConnectionProofs

-----------------------------------------------------------------------------
(* The stream between the client and the worker, oldest line first: what   *)
(* is queued, then what the reader holds, then what is buffered, then what *)
(* is in flight.  A reader that is done, or a closed socket, cuts it.      *)

Held == IF reader = "send" THEN <<rline>> ELSE <<>>
Arriving == IF sock = "open" THEN net ELSE <<>>
Ahead == IF reader = "done" THEN <<>> ELSE Held \o (rbuf \o Arriving)
Pipe == events \o Ahead

LEMMA LinesAssociative ==
  \A s, t, u \in Seq(Lines) : (s \o t) \o u = s \o (t \o u)
OBVIOUS

LEMMA LineOfSeq ==
  ASSUME NEW s \in Seq(Lines)
  PROVE  /\ Len(s) \in Nat
         /\ \A i \in 1..Len(s) : s[i] \in Lines /\ s[i].n \in Nat
<1>1. Len(s) \in Nat /\ \A i \in 1..Len(s) : s[i] \in Lines
  BY LenProperties, ElementOfSeq
<1>2. \A l \in Lines : l.n \in Nat
  BY DEF Lines
<1> QED
  BY <1>1, <1>2

LEMMA OneLine ==
  ASSUME NEW l \in Lines
  PROVE  <<l>> \in Seq(Lines) /\ Len(<<l>>) = 1 /\ <<l>>[1] = l
OBVIOUS

LEMMA HeadFirst ==
  ASSUME NEW s \in Seq(Lines), s # <<>>
  PROVE  /\ s = <<Head(s)>> \o Tail(s)
         /\ Len(s) \in Nat /\ 1 \in 1..Len(s) /\ Head(s) = s[1]
<1>1. Len(s) \in Nat /\ 1 \in 1..Len(s) /\ Head(s) = s[1]
  BY LenProperties, EmptySeq, HeadTailProperties
<1>2. SubSeq(s, 1, Len(s)) = s /\ Tail(s) = SubSeq(s, 2, Len(s))
  BY SubSeqFull, TailIsSubSeq
<1>3. Len(s) \in 1..Len(s) /\ 1 + 1 = 2
  BY <1>1
<1>4. SubSeq(s, 1, Len(s)) = <<s[1]>> \o SubSeq(s, 1 + 1, Len(s))
  BY <1>1, <1>3, SubSeqRecursiveFirst
<1> QED
  BY <1>1, <1>2, <1>3, <1>4

PipeTyped ==
  /\ Held \in Seq(Lines) /\ Arriving \in Seq(Lines)
  /\ rbuf \in Seq(Lines) /\ rbuf \o Arriving \in Seq(Lines)
  /\ Ahead \in Seq(Lines) /\ Pipe \in Seq(Lines)
  /\ events \in Seq(Lines) /\ net \in Seq(Lines)
  /\ rline \in Lines /\ wline \in Lines /\ sent \in Nat

LEMMA PipeTypes == TypeOK => PipeTyped
<1> SUFFICES ASSUME TypeOK PROVE PipeTyped
  OBVIOUS
<1>1. Held \in Seq(Lines)
  BY OneLine, EmptySeq DEF TypeOK, Held
<1>2. Arriving \in Seq(Lines)
  BY EmptySeq DEF TypeOK, Arriving
<1>3. /\ rbuf \in Seq(Lines) /\ events \in Seq(Lines) /\ net \in Seq(Lines)
      /\ rline \in Lines /\ wline \in Lines /\ sent \in Nat
  BY DEF TypeOK
<1>4. rbuf \o Arriving \in Seq(Lines)
  BY <1>2, <1>3, ConcatProperties
<1>5. Ahead \in Seq(Lines)
  BY <1>1, <1>4, ConcatProperties, EmptySeq DEF Ahead
<1>6. Pipe \in Seq(Lines)
  BY <1>3, <1>5, ConcatProperties DEF Pipe
<1> QED
  BY <1>1, <1>2, <1>3, <1>4, <1>5, <1>6 DEF PipeTyped

LEMMA PipeTypesNext == TypeOK' => PipeTyped'
BY PipeTypes, PTL

-----------------------------------------------------------------------------
(* Lemmas on sequences of lines.                                           *)

(* q is the part of p that starts after k lines.                           *)
Part(q, p, k) ==
  \A i \in 1..Len(q) : i + k \in 1..Len(p) /\ q[i] = p[i + k]

LEMMA PartOfConcat ==
  ASSUME NEW s \in Seq(Lines), NEW t \in Seq(Lines)
  PROVE  /\ Part(s, s \o t, 0) /\ Part(t, s \o t, Len(s))
         /\ Part(<<>>, s, 0) /\ Part(s, s, 0)
         /\ Len(s) \in Nat /\ Len(t) \in Nat /\ Len(s \o t) = Len(s) + Len(t)
<1>1. /\ Len(s) \in Nat /\ Len(t) \in Nat /\ Len(s \o t) = Len(s) + Len(t)
      /\ \A i \in 1..Len(s) + Len(t) :
           (s \o t)[i] = IF i <= Len(s) THEN s[i] ELSE t[i - Len(s)]
  BY LenProperties, ConcatProperties
<1>2. Part(s, s \o t, 0)
  BY <1>1 DEF Part
<1>3. Part(t, s \o t, Len(s))
  BY <1>1 DEF Part
<1>4. Part(<<>>, s, 0) /\ Part(s, s, 0)
  BY <1>1, EmptySeq DEF Part
<1> QED
  BY <1>1, <1>2, <1>3, <1>4

(* A common first part does not disturb.                                   *)
LEMMA PartBehind ==
  ASSUME NEW s \in Seq(Lines), NEW t \in Seq(Lines), NEW u \in Seq(Lines),
         Part(t, u, 0), Len(t) <= Len(u)
  PROVE  Part(s \o t, s \o u, 0)
<1>1. Len(s) \in Nat /\ Len(t) \in Nat /\ Len(u) \in Nat
  BY LenProperties
<1>2. /\ Len(s \o t) = Len(s) + Len(t)
      /\ \A i \in 1..Len(s) + Len(t) :
           (s \o t)[i] = IF i <= Len(s) THEN s[i] ELSE t[i - Len(s)]
  BY ConcatProperties
<1>3. /\ Len(s \o u) = Len(s) + Len(u)
      /\ \A i \in 1..Len(s) + Len(u) :
           (s \o u)[i] = IF i <= Len(s) THEN s[i] ELSE u[i - Len(s)]
  BY ConcatProperties
<1>4. ASSUME NEW i \in 1..Len(s \o t)
      PROVE  i + 0 \in 1..Len(s \o u) /\ (s \o t)[i] = (s \o u)[i + 0]
  <2>1. i + 0 = i /\ i \in 1..Len(s) + Len(t) /\ i \in 1..Len(s) + Len(u)
    BY <1>1, <1>2, <1>4
  <2>2. CASE i <= Len(s)
    BY <1>2, <1>3, <2>1, <2>2
  <2>3. CASE ~(i <= Len(s))
    <3>1. i - Len(s) \in 1..Len(t) /\ i - Len(s) + 0 = i - Len(s)
      BY <1>1, <2>1, <2>3
    <3>2. t[i - Len(s)] = u[i - Len(s)]
      BY <3>1 DEF Part
    <3> QED
      BY <1>2, <1>3, <2>1, <2>3, <3>2
  <2> QED
    BY <2>2, <2>3
<1> QED
  BY <1>4 DEF Part
-----------------------------------------------------------------------------
(* What each step does to the stream.                                      *)

(* The reader reads, the socket is open and the client is there.           *)
Active == sock = "open" /\ reader # "done" /\ ~Gone

(* The stream keeps its first lines, and all of them unless the reader or  *)
(* the socket ends.                                                        *)
Cut == Part(Pipe', Pipe, 0) /\ (Active' => Active /\ Pipe' = Pipe)

(* A step that only closes the socket or concerns other variables.         *)
Aside ==
  /\ UNCHANGED <<events, reader, rline, rbuf, net>>
  /\ sock' \in {sock, "closed"}
  /\ Gone => Gone'

LEMMA AsideCuts == TypeOK /\ TypeOK' /\ Aside => Cut
<1> SUFFICES ASSUME TypeOK, TypeOK', Aside PROVE Cut
  OBVIOUS
<1>0. PipeTyped /\ PipeTyped'
  BY PipeTypes, PipeTypesNext
<1>1. Held' = Held /\ UNCHANGED <<events, reader, rline, rbuf, net>>
  BY DEF Aside, Held
<1>2. CASE sock' = sock
  <2>1. Pipe' = Pipe
    BY <1>1, <1>2 DEF Pipe, Ahead, Arriving
  <2> QED
    BY <1>0, <1>1, <1>2, <2>1, PartOfConcat DEF Cut, Active, Aside, PipeTyped
<1>3. CASE sock' # sock
  <2>1. sock' = "closed" /\ Arriving' = <<>>
    BY <1>3 DEF Aside, Arriving
  <2>2. rbuf' \o Arriving' = rbuf
    BY <1>0, <1>1, <2>1, ConcatEmptySeq DEF PipeTyped
  <2>3. Part(rbuf, rbuf \o Arriving, 0) /\ Len(rbuf) <= Len(rbuf \o Arriving)
    BY <1>0, PartOfConcat DEF PipeTyped
  <2>4. Part(Held \o rbuf, Held \o (rbuf \o Arriving), 0)
    BY <1>0, <2>3, PartBehind DEF PipeTyped
  <2>5. Part(Ahead', Ahead, 0) /\ Len(Ahead') <= Len(Ahead)
    <3>1. CASE reader = "done"
      BY <1>1, <3>1, EmptySeq DEF Ahead, Part
    <3>2. CASE reader # "done"
      <4>1. Ahead' = Held \o rbuf /\ Ahead = Held \o (rbuf \o Arriving)
        BY <1>1, <2>2, <3>2 DEF Ahead
      <4>2. Len(Held \o rbuf) = Len(Held) + Len(rbuf) /\ Len(Held) \in Nat
        BY <1>0, PartOfConcat DEF PipeTyped
      <4>3. Len(Ahead) = Len(Held) + Len(rbuf \o Arriving)
        BY <1>0, <4>1, PartOfConcat DEF PipeTyped
      <4>4. Len(rbuf) \in Nat /\ Len(rbuf \o Arriving) \in Nat
        BY <1>0, LenProperties DEF PipeTyped
      <4> QED
        BY <2>3, <2>4, <4>1, <4>2, <4>3, <4>4
    <3> QED
      BY <3>1, <3>2
  <2>6. Part(events \o Ahead', events \o Ahead, 0)
    BY <1>0, <2>5, PartBehind DEF PipeTyped
  <2> QED
    BY <1>1, <2>1, <2>6 DEF Cut, Active, Pipe
<1> QED
  BY <1>2, <1>3

(* Bytes move from the socket to the buffer.                               *)
LEMMA FillCuts == TypeOK /\ TypeOK' /\ Fill => Cut
<1> SUFFICES ASSUME TypeOK, TypeOK', Fill PROVE Cut
  OBVIOUS
<1>0. PipeTyped /\ PipeTyped'
  BY PipeTypes, PipeTypesNext
<1>1. PICK k \in 1..Len(net) :
        rbuf' = SubSeq(net, 1, k) /\ net' = SubSeq(net, k + 1, Len(net))
  BY DEF Fill
<1>2. Len(net) \in Nat
  BY <1>0, LenProperties DEF PipeTyped
<1>3. SubSeq(net, 1, k) \o SubSeq(net, k + 1, Len(net)) = SubSeq(net, 1, Len(net))
  <2>1. /\ 1 \in 1..Len(net) + 1 /\ k \in 1 - 1..Len(net)
        /\ Len(net) \in k..Len(net)
    BY <1>2
  <2> QED
    BY <1>0, <2>1, ConcatAdjacentSubSeq DEF PipeTyped
<1>4. rbuf' \o Arriving' = net
  BY <1>0, <1>1, <1>3, SubSeqFull DEF Fill, Arriving, PipeTyped
<1>5. rbuf \o Arriving = net
  BY <1>0, ConcatEmptySeq DEF Fill, Arriving, PipeTyped
<1>6. Pipe' = Pipe
  BY <1>4, <1>5 DEF Fill, Pipe, Ahead, Held, readerVars
<1> QED
  BY <1>0, <1>6, PartOfConcat DEF Cut, Active, Gone, Fill, readerVars, PipeTyped

(* The reader takes a line out of its buffer and puts it in the channel.   *)
LEMMA ReadsLine == ~ParsesContent /\ ReadCommand => rline' = Head(rbuf)
BY DEF ParsesContent, ReadCommand, Parsed

LEMMA ReadCuts ==
  TypeOK /\ TypeOK' /\ ~ParsesContent /\ ReadCommand => Cut
<1> SUFFICES ASSUME TypeOK, TypeOK', ~ParsesContent, ReadCommand PROVE Cut
  OBVIOUS
<1>0. PipeTyped /\ PipeTyped'
  BY PipeTypes, PipeTypesNext
<1>1. /\ reader = "read" /\ reader' = "send" /\ rbuf # <<>>
      /\ rline' = Head(rbuf) /\ rbuf' = Tail(rbuf)
      /\ UNCHANGED <<events, net, sock, client>>
  BY ReadsLine DEF ReadCommand, streamVars
<1>2. Held = <<>> /\ Held' = <<Head(rbuf)>> /\ Arriving' = Arriving
  BY <1>1 DEF Held, Arriving
<1>3. rbuf = Held' \o rbuf'
  BY <1>0, <1>1, <1>2, HeadFirst DEF PipeTyped
<1>4. rbuf \o Arriving = Held' \o (rbuf' \o Arriving)
  <2>1. Held' \in Seq(Lines) /\ rbuf' \in Seq(Lines) /\ Arriving \in Seq(Lines)
    BY <1>0 DEF PipeTyped
  <2>2. (Held' \o rbuf') \o Arriving = Held' \o (rbuf' \o Arriving)
    BY <2>1
  <2> QED
    BY <1>3, <2>2
<1>5. Held \o (rbuf \o Arriving) = rbuf \o Arriving
  BY <1>0, <1>2, ConcatEmptySeq DEF PipeTyped
<1>6. Pipe' = Pipe
  BY <1>1, <1>2, <1>4, <1>5 DEF Pipe, Ahead
<1> QED
  BY <1>0, <1>1, <1>6, PartOfConcat DEF Cut, Active, Gone, PipeTyped

LEMMA EnqueueCuts == TypeOK /\ TypeOK' /\ Enqueue => Cut
<1> SUFFICES ASSUME TypeOK, TypeOK', Enqueue PROVE Cut
  OBVIOUS
<1>0. PipeTyped /\ PipeTyped'
  BY PipeTypes, PipeTypesNext
<1>1. /\ reader = "send" /\ reader' \in {"paused", "done", "read"}
      /\ events' = Append(events, rline)
      /\ UNCHANGED <<rbuf, net, sock, client>>
  BY DEF Enqueue, streamVars
<1>2. Held = <<rline>> /\ Held' = <<>> /\ Arriving' = Arriving
  BY <1>1 DEF Held, Arriving
<1>3. events' = events \o Held
  BY <1>0, <1>1, <1>2, AppendIsConcat DEF PipeTyped
<1> DEFINE rest == rbuf \o Arriving
<1>4. rest \in Seq(Lines) /\ rest' = rest
  BY <1>0, <1>1, <1>2 DEF PipeTyped
<1> HIDE DEF rest
<1>5. Pipe = events \o (Held \o rest)
  BY <1>1 DEF Pipe, Ahead, rest
<1>6. Pipe = events' \o rest
  <2>1. events \in Seq(Lines) /\ Held \in Seq(Lines)
    BY <1>0 DEF PipeTyped
  <2>2. (events \o Held) \o rest = events \o (Held \o rest)
    BY <1>4, <2>1
  <2> QED
    BY <1>3, <1>5, <2>2
<1>7. CASE reader' = "done"
  <2>1. Pipe' = events'
    BY <1>0, <1>7, ConcatEmptySeq DEF Pipe, Ahead, PipeTyped
  <2> QED
    BY <1>0, <1>4, <1>6, <1>7, <2>1, PartOfConcat DEF Cut, Active, PipeTyped
<1>8. CASE reader' # "done"
  <2>1. Ahead' = Held' \o rest'
    BY <1>8 DEF Ahead, rest
  <2>2. Ahead' = rest
    BY <1>2, <1>4, <2>1, ConcatEmptySeq
  <2>3. Pipe' = Pipe
    BY <1>6, <2>2 DEF Pipe
  <2> QED
    BY <1>0, <1>1, <2>3, PartOfConcat DEF Cut, Active, Gone, PipeTyped
<1> QED
  BY <1>7, <1>8

(* The reader ends, or leaves its pause.                                   *)
LEMMA EndCuts ==
  ASSUME TypeOK, TypeOK', reader' = "done", events' = events
  PROVE  Cut
<1>1. PipeTyped /\ Pipe' = events'
  BY PipeTypes, PipeTypesNext, ConcatEmptySeq DEF Pipe, Ahead, PipeTyped
<1> QED
  BY <1>1, PartOfConcat DEF Cut, Active, PipeTyped, Pipe

LEMMA ResumeCuts == TypeOK /\ TypeOK' /\ Resume => Cut
<1> SUFFICES ASSUME TypeOK, TypeOK', Resume PROVE Cut
  OBVIOUS
<1>1. Pipe' = Pipe
  BY DEF Resume, Pipe, Ahead, Held, Arriving, streamVars
<1>2. PipeTyped
  BY PipeTypes
<1> QED
  BY <1>1, <1>2, PartOfConcat DEF Cut, Active, Gone, Resume, streamVars, PipeTyped

LEMMA AppendBehind ==
  ASSUME NEW s \in Seq(Lines), NEW t \in Seq(Lines), NEW l \in Lines
  PROVE  s \o Append(t, l) = Append(s \o t, l)
<1>1. <<l>> \in Seq(Lines) /\ s \o t \in Seq(Lines)
  BY OneLine, ConcatProperties
<1>2. Append(t, l) = t \o <<l>>
  BY AppendIsConcat
<1>3. Append(s \o t, l) = (s \o t) \o <<l>>
  BY <1>1, AppendIsConcat
<1>4. (s \o t) \o <<l>> = s \o (t \o <<l>>)
  BY <1>1, LinesAssociative
<1> QED
  BY <1>2, <1>3, <1>4

LEMMA TailBehind ==
  ASSUME NEW s \in Seq(Lines), NEW t \in Seq(Lines), s # <<>>
  PROVE  s \o t # <<>> /\ Tail(s \o t) = Tail(s) \o t /\ (s \o t)[1] = s[1]
<1>1. /\ Len(s) \in Nat /\ 1 \in 1..Len(s) /\ Len(t) \in Nat
      /\ Len(Tail(s)) = Len(s) - 1 /\ Tail(s) \in Seq(Lines)
      /\ \A i \in 1..Len(Tail(s)) : Tail(s)[i] = s[i + 1]
  BY HeadFirst, HeadTailProperties, LenProperties
<1>2. /\ s \o t \in Seq(Lines) /\ Len(s \o t) = Len(s) + Len(t)
      /\ \A i \in 1..Len(s) + Len(t) :
           (s \o t)[i] = IF i <= Len(s) THEN s[i] ELSE t[i - Len(s)]
  BY ConcatProperties
<1>3. s \o t # <<>>
  BY <1>1, <1>2, EmptySeq
<1> DEFINE u == s \o t
           r == Tail(s)
<1>4. /\ u \in Seq(Lines) /\ u # <<>> /\ Len(u) = Len(s) + Len(t)
      /\ \A i \in 1..Len(s) + Len(t) :
           u[i] = IF i <= Len(s) THEN s[i] ELSE t[i - Len(s)]
  BY <1>2, <1>3
<1>5. /\ r \in Seq(Lines) /\ Len(r) = Len(s) - 1
      /\ \A i \in 1..Len(r) : r[i] = s[i + 1]
  BY <1>1
<1> HIDE DEF u, r
<1>6. /\ r \o t \in Seq(Lines) /\ Len(r \o t) = Len(r) + Len(t)
      /\ \A i \in 1..Len(r) + Len(t) :
           (r \o t)[i] = IF i <= Len(r) THEN r[i] ELSE t[i - Len(r)]
  BY <1>5, ConcatProperties
<1>7. /\ Tail(u) \in Seq(Lines) /\ Len(Tail(u)) = Len(u) - 1
      /\ \A i \in 1..Len(Tail(u)) : Tail(u)[i] = u[i + 1]
  BY <1>4, HeadTailProperties
<1>8. Len(Tail(u)) = Len(r \o t)
  BY <1>1, <1>4, <1>5, <1>6, <1>7
<1>9. ASSUME NEW i \in 1..Len(Tail(u)) PROVE Tail(u)[i] = (r \o t)[i]
  <2>1. /\ Tail(u)[i] = u[i + 1] /\ i \in 1..Len(r) + Len(t)
        /\ i + 1 \in 1..Len(s) + Len(t)
    BY <1>1, <1>4, <1>5, <1>6, <1>7, <1>8
  <2>2. CASE i <= Len(r)
    BY <1>1, <1>4, <1>5, <1>6, <2>1, <2>2
  <2>3. CASE ~(i <= Len(r))
    <3>1. ~(i + 1 <= Len(s)) /\ i + 1 - Len(s) = i - Len(r)
      BY <1>1, <1>5, <2>1, <2>3
    <3>2. u[i + 1] = t[i + 1 - Len(s)]
      BY <1>4, <2>1, <3>1
    <3>3. (r \o t)[i] = t[i - Len(r)]
      BY <1>6, <2>1, <2>3
    <3> QED
      BY <2>1, <3>1, <3>2, <3>3
  <2> QED
    BY <2>2, <2>3
<1>10. Tail(u) = r \o t
  BY <1>6, <1>7, <1>8, <1>9, SeqEqual
<1>11. (s \o t)[1] = s[1]
  BY <1>1, <1>2
<1> QED
  BY <1>3, <1>10, <1>11 DEF u, r

(* The stream loses its first lines.                                       *)
Dropped(k) ==
  k \in 0..Len(Pipe) /\ Len(Pipe') = Len(Pipe) - k /\ Part(Pipe', Pipe, k)

LEMMA TailDrops ==
  ASSUME PipeTyped, Pipe # <<>>, Pipe' = Tail(Pipe)
  PROVE  Dropped(1)
BY HeadFirst, HeadTailProperties DEF PipeTyped, Dropped, Part

(* The client sends a line.                                                *)
LEMMA PutGrows ==
  ASSUME TypeOK, TypeOK', NEW l \in Lines, net' = Append(net, l),
         sock = "open",
         UNCHANGED <<sock, events, reader, rline, rbuf>>
  PROVE  Pipe' = IF reader = "done" THEN Pipe ELSE Append(Pipe, l)
<1>0. PipeTyped
  BY PipeTypes
<1>1. Arriving' = Append(Arriving, l) /\ Held' = Held
  BY DEF Arriving, Held
<1>2. CASE reader = "done"
  BY <1>2 DEF Pipe, Ahead
<1>3. CASE reader # "done"
  <2>1. rbuf' \o Arriving' = Append(rbuf \o Arriving, l)
    BY <1>0, <1>1, AppendBehind DEF PipeTyped
  <2>2. Ahead' = Held \o Append(rbuf \o Arriving, l)
    BY <1>1, <1>3, <2>1 DEF Ahead
  <2>3. Held \o Append(rbuf \o Arriving, l) = Append(Held \o (rbuf \o Arriving), l)
    BY <1>0, AppendBehind, ZenonT(30) DEF PipeTyped
  <2>4. Ahead' = Append(Ahead, l)
    BY <1>3, <2>2, <2>3 DEF Ahead
  <2>5. events \o Append(Ahead, l) = Append(events \o Ahead, l)
    BY <1>0, AppendBehind DEF PipeTyped
  <2> QED
    BY <1>3, <2>4, <2>5 DEF Pipe
<1> QED
  BY <1>2, <1>3

(* The worker takes the first line.                                        *)
LEMMA TakeDrops ==
  TypeOK /\ TypeOK' /\ Take => Pipe # <<>> /\ wline' = Pipe[1] /\ Dropped(1)
<1> SUFFICES ASSUME TypeOK, TypeOK', Take
             PROVE  Pipe # <<>> /\ wline' = Pipe[1] /\ Dropped(1)
  OBVIOUS
<1>0. PipeTyped
  BY PipeTypes
<1>1. /\ events # <<>> /\ wline' = Head(events) /\ events' = Tail(events)
      /\ UNCHANGED <<reader, rline, rbuf, net, sock>>
  BY DEF Take, streamVars, readerVars
<1>2. Ahead' = Ahead
  BY <1>1 DEF Ahead, Held, Arriving
<1>3. Pipe # <<>> /\ Pipe' = Tail(Pipe) /\ Pipe[1] = events[1]
  BY <1>0, <1>1, <1>2, TailBehind DEF Pipe, PipeTyped
<1>4. wline' = events[1]
  BY <1>0, <1>1, HeadFirst DEF PipeTyped
<1> QED
  BY <1>0, <1>3, <1>4, TailDrops

(* The worker reads content where the commands behind it wait.             *)
LEMMA ContentDrops ==
  ASSUME TypeOK, TypeOK', HandoffInv, ReadContent
  PROVE  /\ reader = "done" => Pipe = <<>> /\ Pipe' = <<>>
         /\ reader # "done" => Pipe # <<>> /\ Pipe[1] = Head(rbuf) /\ Dropped(1)
<1>0. PipeTyped /\ PipeTyped'
  BY PipeTypes, PipeTypesNext
<1>1. /\ events = <<>> /\ reader \in {"paused", "done"}
      /\ rbuf # <<>> /\ rbuf' = Tail(rbuf)
      /\ UNCHANGED <<reader, rline, net, sock, events>>
  BY DEF ReadContent, HandoffInv, Busy, Quiet, streamVars, readerVars
<1>2. Ahead = Pipe /\ Ahead' = Pipe'
  BY <1>0, <1>1, ConcatEmptySeq DEF Pipe, PipeTyped
<1>3. CASE reader = "done"
  BY <1>1, <1>2, <1>3 DEF Ahead
<1>4. CASE reader # "done"
  <2>1. Held = <<>> /\ Held' = <<>> /\ Arriving' = Arriving
    BY <1>1 DEF Held, Arriving
  <2>2. Ahead = rbuf \o Arriving /\ Ahead' = Tail(rbuf) \o Arriving
    BY <1>0, <1>1, <1>4, <2>1, ConcatEmptySeq DEF Ahead, PipeTyped
  <2>3. Pipe # <<>> /\ Pipe' = Tail(Pipe) /\ Pipe[1] = rbuf[1]
    <3>1. /\ rbuf \o Arriving # <<>>
          /\ Tail(rbuf \o Arriving) = Tail(rbuf) \o Arriving
          /\ (rbuf \o Arriving)[1] = rbuf[1]
      BY <1>0, <1>1, TailBehind DEF PipeTyped
    <3> QED
      BY <1>2, <2>2, <3>1
  <2>4. Head(rbuf) = rbuf[1]
    BY <1>0, <1>1, HeadFirst DEF PipeTyped
  <2> QED
    BY <1>0, <1>4, <2>3, <2>4, TailDrops
<1> QED
  BY <1>3, <1>4

(* The banner of an implicit TLS listener reads the first line.            *)
LEMMA BannerDrops ==
  ASSUME TypeOK, TypeOK', HandoffInv, ClearInv, Banner
  PROVE  /\ Pipe = net /\ sock = "open" /\ reader # "done"
         /\ listener = "plain" => Pipe' = Pipe
         /\ listener = "tls" => Pipe # <<>> /\ Dropped(1)
<1>0. PipeTyped /\ PipeTyped'
  BY PipeTypes, PipeTypesNext
<1>1. /\ events = <<>> /\ reader = "unborn" /\ reader' = "read" /\ rbuf = <<>>
      /\ sock = "open" /\ UNCHANGED <<rline, sock, events, rbuf>>
  BY DEF Banner, WriteOK, HandoffInv, ClearInv, BannerInv
<1>2. Held = <<>> /\ Held' = <<>> /\ Arriving = net /\ Arriving' = net'
  BY <1>1 DEF Held, Arriving
<1>3. Pipe = net /\ Pipe' = net'
  BY <1>0, <1>1, <1>2, ConcatEmptySeq DEF Pipe, Ahead, PipeTyped
<1>4. listener = "plain" => net' = net
  BY DEF Banner
<1>5. listener = "tls" => net # <<>> /\ net' = Tail(net)
  BY DEF Banner
<1> QED
  BY <1>0, <1>1, <1>3, <1>4, <1>5, TailDrops

(* The handshake reads its ClientHello and drops what was buffered.        *)
LEMMA HandshakeDrops ==
  ASSUME TypeOK, TypeOK', HandoffInv, Handshake
  PROVE  /\ reader = "done" => Pipe = <<>> /\ Pipe' = <<>>
         /\ reader # "done" =>
              /\ Dropped(Len(rbuf) + 1)
              /\ Len(rbuf) \in Nat /\ Pipe[Len(rbuf) + 1].verb = "HELLO"
<1>0. PipeTyped /\ PipeTyped'
  BY PipeTypes, PipeTypesNext
<1>1. /\ events = <<>> /\ reader \in {"paused", "done"} /\ sock = "open"
      /\ net # <<>> /\ Head(net).verb = "HELLO" /\ net' = Tail(net)
      /\ rbuf' = <<>>
      /\ UNCHANGED <<reader, rline, sock, events>>
  BY DEF Handshake, HelloArrived, HandoffInv, Busy, Quiet, readerVars
<1>2. Ahead = Pipe /\ Ahead' = Pipe'
  BY <1>0, <1>1, ConcatEmptySeq DEF Pipe, PipeTyped
<1>3. CASE reader = "done"
  BY <1>1, <1>2, <1>3 DEF Ahead
<1>4. CASE reader # "done"
  <2>1. Held = <<>> /\ Held' = <<>> /\ Arriving = net /\ Arriving' = Tail(net)
    BY <1>1 DEF Held, Arriving
  <2>2. Pipe = rbuf \o net
    BY <1>0, <1>2, <1>4, <2>1, ConcatEmptySeq DEF Ahead, PipeTyped
  <2>3. Ahead' = Held' \o (rbuf' \o Arriving')
    BY <1>1, <1>4 DEF Ahead
  <2>4. Pipe' = Tail(net)
    BY <1>0, <1>1, <1>2, <2>1, <2>3, ConcatEmptySeq DEF PipeTyped
  <2>5. /\ Len(net) \in Nat /\ 1 \in 1..Len(net) /\ Head(net) = net[1]
        /\ Len(rbuf) \in Nat
    BY <1>0, <1>1, HeadFirst, LenProperties DEF PipeTyped
  <2>6. /\ Len(Pipe) = Len(rbuf) + Len(net)
        /\ \A i \in 1..Len(rbuf) + Len(net) :
             Pipe[i] = IF i <= Len(rbuf) THEN rbuf[i] ELSE net[i - Len(rbuf)]
    BY <1>0, <2>2, ConcatProperties DEF PipeTyped
  <2>7. /\ Len(Pipe') = Len(net) - 1
        /\ \A i \in 1..Len(Pipe') : Pipe'[i] = net[i + 1]
    BY <1>0, <1>1, <2>4, HeadTailProperties DEF PipeTyped
  <2>8. Pipe[Len(rbuf) + 1] = net[1]
    <3>1. /\ Len(rbuf) + 1 \in 1..Len(rbuf) + Len(net)
          /\ ~(Len(rbuf) + 1 <= Len(rbuf)) /\ Len(rbuf) + 1 - Len(rbuf) = 1
      BY <2>5
    <3> QED
      BY <2>6, <3>1
  <2>9. ASSUME NEW i \in 1..Len(Pipe')
        PROVE  /\ i + (Len(rbuf) + 1) \in 1..Len(Pipe)
               /\ Pipe'[i] = Pipe[i + (Len(rbuf) + 1)]
    <3>1. /\ i + (Len(rbuf) + 1) \in 1..Len(rbuf) + Len(net)
          /\ ~(i + (Len(rbuf) + 1) <= Len(rbuf))
          /\ i + (Len(rbuf) + 1) - Len(rbuf) = i + 1
      BY <2>5, <2>7
    <3> QED
      <4>1. Pipe[i + (Len(rbuf) + 1)] = net[i + (Len(rbuf) + 1) - Len(rbuf)]
        BY <2>6, <3>1
      <4>2. Pipe'[i] = net[i + 1]
        BY <2>7
      <4> QED
        BY <2>6, <3>1, <4>1, <4>2
  <2>10. Dropped(Len(rbuf) + 1)
    BY <2>5, <2>6, <2>7, <2>9 DEF Dropped, Part
  <2> QED
    BY <1>1, <1>4, <2>5, <2>8, <2>10
<1> QED
  BY <1>3, <1>4

(* After a cancel the reader loses the notice of an over-long line.        *)
Lost(m) ==
  /\ m \in 1..Len(Pipe)
  /\ Len(Pipe') = Len(Pipe) - 1
  /\ \A i \in 1..Len(Pipe') :
       Pipe'[i] = IF i < m THEN Pipe[i] ELSE Pipe[i + 1]

LEMMA LongLost ==
  ASSUME TypeOK, TypeOK', SendCancelled, rline.verb = "LONG"
  PROVE  \E m \in 1..Len(Pipe) : Lost(m) /\ Pipe[m].verb = "LONG"
<1>0. PipeTyped /\ PipeTyped'
  BY PipeTypes, PipeTypesNext
<1>1. /\ reader = "send" /\ reader' = "read"
      /\ UNCHANGED <<rline, rbuf, net, sock, events>>
  BY DEF SendCancelled, streamVars
<1> DEFINE rest == rbuf \o Arriving
<1>2. Held = <<rline>> /\ Held' = <<>> /\ rest \in Seq(Lines) /\ rest' = rest
  BY <1>0, <1>1 DEF Held, Arriving, PipeTyped
<1> HIDE DEF rest
<1>3. Ahead = Held \o rest /\ Ahead' = Held' \o rest'
  BY <1>1 DEF Ahead, rest
<1>4. Ahead' = rest
  BY <1>2, <1>3, ConcatEmptySeq
<1>5. /\ Len(events) \in Nat /\ Len(rest) \in Nat /\ Len(Held) = 1
      /\ Held[1] = rline
  BY <1>0, <1>2, LenProperties, OneLine DEF PipeTyped
<1>6. /\ Len(Ahead) = 1 + Len(rest)
      /\ \A i \in 1..1 + Len(rest) :
           Ahead[i] = IF i <= 1 THEN Held[i] ELSE rest[i - 1]
  BY <1>0, <1>2, <1>3, <1>5, ConcatProperties DEF PipeTyped
<1>7. /\ Len(Pipe) = Len(events) + (1 + Len(rest))
      /\ \A i \in 1..Len(events) + (1 + Len(rest)) :
           Pipe[i] = IF i <= Len(events) THEN events[i] ELSE Ahead[i - Len(events)]
  <2>1. /\ Len(events \o Ahead) = Len(events) + Len(Ahead)
        /\ \A i \in 1..Len(events) + Len(Ahead) :
             (events \o Ahead)[i] = IF i <= Len(events) THEN events[i]
                                    ELSE Ahead[i - Len(events)]
    BY <1>0, ConcatProperties DEF PipeTyped
  <2>2. /\ Len(Pipe) = Len(events) + Len(Ahead)
        /\ \A i \in 1..Len(events) + Len(Ahead) :
             Pipe[i] = IF i <= Len(events) THEN events[i]
                       ELSE Ahead[i - Len(events)]
    BY <2>1 DEF Pipe
  <2> QED
    BY <1>6, <2>2
<1>8. /\ Len(Pipe') = Len(events) + Len(rest)
      /\ \A i \in 1..Len(events) + Len(rest) :
           Pipe'[i] = IF i <= Len(events) THEN events[i] ELSE rest[i - Len(events)]
  BY <1>0, <1>1, <1>2, <1>4, ConcatProperties DEF Pipe, PipeTyped
<1> DEFINE m == Len(events) + 1
<1>9. m \in 1..Len(Pipe) /\ Pipe[m] = rline
  <2>1. /\ m \in 1..Len(events) + (1 + Len(rest)) /\ ~(m <= Len(events))
        /\ m - Len(events) = 1 /\ 1 \in 1..1 + Len(rest)
    BY <1>5
  <2> QED
    BY <1>5, <1>6, <1>7, <2>1
<1>10. ASSUME NEW i \in 1..Len(Pipe')
       PROVE  Pipe'[i] = IF i < m THEN Pipe[i] ELSE Pipe[i + 1]
  <2>1. CASE i < m
    BY <1>5, <1>7, <1>8, <2>1
  <2>2. CASE ~(i < m)
    <3>1. /\ i \in 1..Len(events) + Len(rest) /\ ~(i <= Len(events))
          /\ i + 1 \in 1..Len(events) + (1 + Len(rest))
          /\ ~(i + 1 <= Len(events))
          /\ i + 1 - Len(events) \in 1..1 + Len(rest)
          /\ ~(i + 1 - Len(events) <= 1)
          /\ i + 1 - Len(events) - 1 = i - Len(events)
      BY <1>5, <1>8, <2>2
    <3>2. Pipe'[i] = rest[i - Len(events)]
      BY <1>8, <3>1
    <3>3. Pipe[i + 1] = Ahead[i + 1 - Len(events)]
      BY <1>7, <3>1
    <3>4. Ahead[i + 1 - Len(events)] = rest[i + 1 - Len(events) - 1]
      BY <1>6, <3>1
    <3> QED
      BY <2>2, <3>1, <3>2, <3>3, <3>4
  <2> QED
    BY <2>1, <2>2
<1>11. Lost(m) /\ Pipe[m].verb = "LONG"
  BY <1>5, <1>7, <1>8, <1>9, <1>10 DEF Lost
<1> QED
  BY <1>9, <1>11

-----------------------------------------------------------------------------
(* The order of the lines in the stream.                                   *)

IsCommand(line) == line.verb \in Commands

(* The commands that the client sends its chunk with.                      *)
Bdats == {"BDAT", "BADBDAT"}

(* A line that is sent after number n is numbered n, and above n when it   *)
(* is a command.                                                           *)
After(line, n) == n <= line.n /\ (IsCommand(line) => n < line.n)

(* Content follows its BDAT and nothing else, and nothing follows a DATA   *)
(* that has not been taken.                                                *)
Chained(p) ==
  \A i \in 1..Len(p) :
    /\ i > 1 => (p[i].verb = "BODY" <=> p[i - 1].verb \in Bdats)
    /\ p[i].verb = "DATA" => i = Len(p)

Ascending(p) == \A i, j \in 1..Len(p) : i < j => After(p[j], p[i].n)

LEMMA PartKeeps ==
  ASSUME NEW p \in Seq(Lines), NEW q \in Seq(Lines), NEW k \in Nat, Part(q, p, k)
  PROVE  /\ Chained(p) => Chained(q)
         /\ Ascending(p) => Ascending(q)
<1>0. Len(p) \in Nat /\ Len(q) \in Nat
  BY LenProperties
<1>1. ASSUME Chained(p), NEW i \in 1..Len(q)
      PROVE  /\ i > 1 => (q[i].verb = "BODY" <=> q[i - 1].verb \in Bdats)
             /\ q[i].verb = "DATA" => i = Len(q)
  <2>1. i + k \in 1..Len(p) /\ q[i] = p[i + k]
    BY DEF Part
  <2>2. ASSUME i > 1 PROVE q[i].verb = "BODY" <=> q[i - 1].verb \in Bdats
    <3>1. i - 1 \in 1..Len(q) /\ i - 1 + k = i + k - 1 /\ i + k > 1
      BY <1>0, <2>2
    <3>2. q[i - 1] = p[i + k - 1]
      BY <3>1 DEF Part
    <3>3. p[i + k].verb = "BODY" <=> p[i + k - 1].verb \in Bdats
      BY <1>1, <2>1, <3>1, SMTT(30) DEF Chained
    <3> QED
      BY <2>1, <3>2, <3>3
  <2>3. ASSUME q[i].verb = "DATA" PROVE i = Len(q)
    <3>1. i + k = Len(p)
      BY <1>1, <2>1, <2>3 DEF Chained
    <3>2. Len(q) + k \in 1..Len(p)
      BY <1>0 DEF Part
    <3> QED
      BY <1>0, <3>1, <3>2
  <2> QED
    BY <2>2, <2>3
<1>2. ASSUME Ascending(p), NEW i \in 1..Len(q), NEW j \in 1..Len(q), i < j
      PROVE  After(q[j], q[i].n)
  <2>1. /\ i + k \in 1..Len(p) /\ q[i] = p[i + k]
        /\ j + k \in 1..Len(p) /\ q[j] = p[j + k] /\ i + k < j + k
    BY <1>0, <1>2 DEF Part
  <2>2. After(p[j + k], p[i + k].n)
    BY <1>2, <2>1 DEF Ascending
  <2> QED
    BY <2>1, <2>2
<1> QED
  BY <1>1, <1>2 DEF Chained, Ascending

LEMMA AppendKeeps ==
  ASSUME NEW p \in Seq(Lines), NEW l \in Lines
  PROVE  /\ /\ Chained(p)
            /\ p # <<>> => /\ p[Len(p)].verb # "DATA"
                           /\ l.verb = "BODY" <=> p[Len(p)].verb \in Bdats
            => Chained(Append(p, l))
         /\ Ascending(p) /\ (\A i \in 1..Len(p) : After(l, p[i].n))
            => Ascending(Append(p, l))
<1> DEFINE q == Append(p, l)
<1>0. /\ Len(p) \in Nat /\ Len(q) = Len(p) + 1 /\ q[Len(p) + 1] = l
      /\ \A i \in 1..Len(p) : q[i] = p[i]
      /\ p # <<>> => Len(p) > 0
  BY LenProperties, AppendProperties, EmptySeq
<1> HIDE DEF q
<1>1. ASSUME Chained(p),
             p # <<>> => /\ p[Len(p)].verb # "DATA"
                         /\ l.verb = "BODY" <=> p[Len(p)].verb \in Bdats,
             NEW i \in 1..Len(q)
      PROVE  /\ i > 1 => (q[i].verb = "BODY" <=> q[i - 1].verb \in Bdats)
             /\ q[i].verb = "DATA" => i = Len(q)
  <2>1. CASE i \in 1..Len(p)
    <3>1. q[i] = p[i]
      BY <1>0, <2>1
    <3>2. q[i].verb = "DATA" => FALSE
      <4>1. p # <<>> /\ (p[i].verb = "DATA" => i = Len(p))
        BY <1>0, <1>1, <2>1, EmptySeq DEF Chained
      <4> QED
        BY <1>1, <3>1, <4>1
    <3>3. ASSUME i > 1 PROVE q[i].verb = "BODY" <=> q[i - 1].verb \in Bdats
      <4>1. i - 1 \in 1..Len(p)
        BY <1>0, <2>1, <3>3
      <4>2. q[i - 1] = p[i - 1]
        BY <1>0, <4>1
      <4> QED
        BY <1>1, <2>1, <3>1, <3>3, <4>2 DEF Chained
    <3> QED
      BY <3>2, <3>3
  <2>2. CASE i = Len(p) + 1
    <3>1. ASSUME i > 1 PROVE q[i].verb = "BODY" <=> q[i - 1].verb \in Bdats
      <4>1. Len(p) \in 1..Len(p) /\ i - 1 = Len(p) /\ p # <<>>
        BY <1>0, <2>2, <3>1, EmptySeq
      <4> QED
        BY <1>0, <1>1, <2>2, <4>1
    <3> QED
      BY <1>0, <2>2, <3>1
  <2> QED
    BY <1>0, <2>1, <2>2
<1>2. ASSUME Ascending(p), \A i \in 1..Len(p) : After(l, p[i].n),
             NEW i \in 1..Len(q), NEW j \in 1..Len(q), i < j
      PROVE  After(q[j], q[i].n)
  <2>1. i \in 1..Len(p)
    BY <1>0, <1>2
  <2>2. CASE j \in 1..Len(p)
    BY <1>0, <1>2, <2>1, <2>2 DEF Ascending
  <2>3. CASE j = Len(p) + 1
    BY <1>0, <1>2, <2>1, <2>3
  <2> QED
    BY <1>0, <2>2, <2>3
<1>3. /\ Chained(p)
      /\ p # <<>> => /\ p[Len(p)].verb # "DATA"
                     /\ l.verb = "BODY" <=> p[Len(p)].verb \in Bdats
      => Chained(q)
  BY <1>1 DEF Chained
<1>4. Ascending(p) /\ (\A i \in 1..Len(p) : After(l, p[i].n)) => Ascending(q)
  BY <1>2 DEF Ascending
<1> QED
  BY <1>3, <1>4 DEF q

(* What is queued or held by the reader: commands in order, and content    *)
(* first in the stream exactly when the worker reads content.              *)
PipeInv ==
  /\ Chained(Pipe)
  /\ Pipe # <<>> => (Pipe[1].verb = "BODY" <=> worker = "content")
  /\ worker = "interim" /\ wline.verb = "DATA" => Pipe = <<>>

(* The numbers of the commands, from the one the worker runs to the last   *)
(* one sent.                                                               *)
NumbersInv ==
  /\ Ascending(Pipe)
  /\ wline.n <= sent
  /\ \A i \in 1..Len(Pipe) : After(Pipe[i], wline.n) /\ Pipe[i].n <= sent

(* A reply answers a command that was taken; the command that the worker   *)
(* runs has no final reply yet.                                            *)
OutInv ==
  \A i \in 1..Len(out) :
    /\ out[i].n <= wline.n
    /\ out[i].n = wline.n /\ worker \in {"interim", "content"} => out[i].go

RoleInv ==
  /\ worker = "content" => wline.verb \in Bdats \cup {"DATA"}
  /\ worker = "interim" => wline.verb \in {"DATA", "STARTTLS"}
  /\ worker = "handshake" => wline.verb = "STARTTLS"
  /\ worker = "callback" => wline.verb # "STARTTLS"

NoHello(s) == \A i \in 1..Len(s) : s[i].verb # "HELLO"
OneHello(s) ==
  \A i, j \in 1..Len(s) : s[i].verb = "HELLO" /\ s[j].verb = "HELLO" => i = j
Live == sock = "open" /\ reader # "done"

(* A ClientHello waits in the socket for the handshake that reads it.      *)
HelloWaits ==
  /\ OneHello(net)
  /\ worker \notin {"banner", "handshake"} => NoHello(net)
  /\ worker = "banner" /\ listener = "tls" =>
       IF net = <<>> THEN client = "hello" \/ Gone
       ELSE net[1].verb = "HELLO" /\ client # "hello"
  /\ worker = "banner" /\ listener = "plain" => NoHello(net) /\ client # "hello"
  /\ client = "hello" =>
       worker = "banner" \/ (worker = "handshake" /\ NoHello(net))

HelloInv ==
  /\ NoHello(events)
  /\ reader = "send" => rline.verb # "HELLO"
  /\ reader # "done" => NoHello(rbuf)
  /\ Live => HelloWaits

(* A STARTTLS is unanswered, at one place only, for as long as the client  *)
(* waits for its reply; its 220 is out until the handshake begins.         *)
NoStart(s) == \A i \in 1..Len(s) : s[i].verb # "STARTTLS"
OneStart(s) ==
  \A i, j \in 1..Len(s) :
    s[i].verb = "STARTTLS" /\ s[j].verb = "STARTTLS" => i = j
NoAnswer(s) == \A i \in 1..Len(s) : s[i].to # "STARTTLS"
Starting ==
  /\ wline.verb = "STARTTLS"
  /\ worker \in {"interim", "reply"} \/ (worker = "signal" /\ answer)

StartInv ==
  Active =>
    /\ client # "await220" => NoStart(Pipe) /\ ~Starting /\ NoAnswer(out)
    /\ Starting => NoStart(Pipe) /\ NoAnswer(out)
    /\ NoStart(Pipe) \/ NoAnswer(out)
    /\ OneStart(Pipe)
    /\ \A i, j \in 1..Len(out) :
         out[i].to = "STARTTLS" /\ out[j].to = "STARTTLS" => i = j
    /\ \A i \in 1..Len(out) :
         out[i].to = "STARTTLS" /\ out[i].go =>
           worker = "handshake" /\ NoHello(net)

(* The client is about to send content exactly where the stream expects    *)
(* it: behind a BDAT, or once the worker reads the content of a DATA.      *)
TalkInv ==
  Active =>
    /\ client = "content" =>
         IF Pipe = <<>> THEN worker = "content"
         ELSE Pipe[Len(Pipe)].verb \in Bdats
    /\ Pipe # <<>> =>
         /\ Pipe[Len(Pipe)].verb \in Bdats => client = "content"
         /\ Pipe[Len(Pipe)].verb = "DATA" =>
              client = "await354" /\ Pipe[Len(Pipe)].n = sent
    /\ worker = "content" /\ Pipe = <<>> =>
         \/ client = "content"
         \/ client = "await354" /\ wline.verb = "DATA" /\ wline.n = sent
    /\ worker = "interim" /\ wline.verb = "DATA" =>
         client = "await354" /\ wline.n = sent
    /\ \A i \in 1..Len(out) :
         /\ client = "await354" /\ out[i].to = "DATA" /\ out[i].n = sent
         /\ out[i].go
         => worker = "content" /\ Pipe = <<>>

StreamInv ==
  PipeInv /\ NumbersInv /\ OutInv /\ RoleInv /\ HelloInv /\ StartInv /\ TalkInv

-----------------------------------------------------------------------------
(* The steps: those that put a line into the stream, those that take lines *)
(* out of it, and the others, through which it only flows.                 *)

Moves == \/ ReadCommand \/ ReadCommandFails \/ ReaderFills \/ Enqueue
         \/ (SendCancelled /\ rline.verb # "LONG") \/ Resume \/ PauseEnds
         \/ WorkerFills

Works == \/ BannerFails \/ EventsClosed \/ SeesCancel \/ Farewell \/ Interim
         \/ InterimFails \/ ReadContentFails \/ CallbackReturns
         \/ CallbackPanics \/ HandshakeFails \/ Signal \/ WriteReply
         \/ WriteReplyFails \/ GreetingFails

Flows == \/ ClientReads \/ ClientGone \/ Moves \/ Works
         \/ WatchdogCloses \/ Shutdown \/ UNCHANGED vars

Puts == \/ \E verb \in Commands : ClientCommand(verb)
        \/ ClientContent
        \/ ClientHello

LEMMA NextSteps ==
  [Next]_vars => \/ Flows \/ Puts \/ Take \/ ReadContent \/ Banner \/ Handshake
                 \/ (SendCancelled /\ rline.verb = "LONG")
BY DEF Next, Client, Reader, Worker, Flows, Moves, Works, Puts

(* A step that works or watches leaves the lines where they are.           *)
LEMMA WorksAside ==
  ClientReads \/ ClientGone \/ Works \/ WatchdogCloses \/ Shutdown
    \/ UNCHANGED vars => Aside
<1>1. ClientReads \/ ClientGone => Aside
  BY DEF ClientReads, ClientGone, Aside, readerVars, Gone
<1>2. Works => Aside
  <2> USE DEF Aside, streamVars, readerVars, Gone, Return
  <2>1. BannerFails \/ EventsClosed \/ SeesCancel \/ Farewell => Aside
    BY DEF BannerFails, EventsClosed, SeesCancel, Farewell
  <2>2. Interim \/ InterimFails \/ ReadContentFails => Aside
    BY DEF Interim, InterimFails, ReadContentFails
  <2>3. CallbackReturns \/ CallbackPanics \/ HandshakeFails => Aside
    BY DEF CallbackReturns, CallbackPanics, HandshakeFails
  <2>4. Signal \/ WriteReply \/ WriteReplyFails \/ GreetingFails => Aside
    BY DEF Signal, WriteReply, WriteReplyFails, GreetingFails
  <2> QED
    BY <2>1, <2>2, <2>3, <2>4 DEF Works
<1>3. WatchdogCloses \/ Shutdown \/ UNCHANGED vars => Aside
  BY DEF WatchdogCloses, Shutdown, vars, Aside, streamVars, readerVars, Gone
<1> QED
  BY <1>1, <1>2, <1>3

LEMMA FlowsCut == TypeOK /\ TypeOK' /\ ~ParsesContent /\ Flows => Cut
<1> SUFFICES ASSUME TypeOK, TypeOK', ~ParsesContent, Flows PROVE Cut
  OBVIOUS
<1>1. CASE Moves
  <2>1. CASE ReaderFills \/ WorkerFills
    BY <2>1, FillCuts DEF ReaderFills, WorkerFills
  <2>2. CASE ReadCommandFails \/ PauseEnds
            \/ (SendCancelled /\ rline.verb # "LONG")
    BY <2>2, EndCuts DEF ReadCommandFails, PauseEnds, SendCancelled
  <2> QED
    BY <1>1, <2>1, <2>2, ReadCuts, EnqueueCuts, ResumeCuts DEF Moves
<1> QED
  BY <1>1, AsideCuts, WorksAside DEF Flows

(* What the steps through which the stream flows do to the worker.         *)
WorkerTurns ==
  /\ UNCHANGED <<wline, sent>>
  /\ worker' = "content" =>
       worker = "content" \/ (worker = "interim" /\ wline.verb = "DATA")
  /\ worker = "content" /\ worker' # "content" =>
       ReadFails /\ (strayed' = "no" /\ sock = "open" => Gone)
  /\ worker' = "interim" => worker = "interim"
  /\ worker' = "handshake" =>
       \/ worker = "handshake"
       \/ worker = "interim" /\ wline.verb # "DATA"
  /\ worker' = "callback" => worker = "callback"

LEMMA FlowsTurns == Flows => WorkerTurns
<1> USE DEF WorkerTurns
<1>1. ClientReads \/ ClientGone => WorkerTurns
  BY DEF ClientReads, ClientGone, workerVars
<1>2. Moves => WorkerTurns
  <2> USE DEF workerVars, streamVars
  <2>1. ReadCommand \/ ReadCommandFails \/ Enqueue \/ SendCancelled => WorkerTurns
    BY DEF ReadCommand, ReadCommandFails, Enqueue, SendCancelled
  <2>2. Resume \/ PauseEnds \/ ReaderFills \/ WorkerFills => WorkerTurns
    BY DEF Resume, PauseEnds, ReaderFills, WorkerFills, Fill
  <2> QED
    BY <2>1, <2>2 DEF Moves
<1>3. Works => WorkerTurns
  <2> USE DEF streamVars, Return
  <2>1. BannerFails \/ EventsClosed \/ SeesCancel \/ Farewell => WorkerTurns
    BY DEF BannerFails, EventsClosed, SeesCancel, Farewell
  <2>2. Interim \/ InterimFails \/ ReadContentFails => WorkerTurns
    BY DEF Interim, InterimFails, ReadContentFails, Stray
  <2>3. CallbackReturns \/ CallbackPanics \/ HandshakeFails => WorkerTurns
    BY DEF CallbackReturns, CallbackPanics, HandshakeFails
  <2>4. Signal \/ WriteReply \/ WriteReplyFails \/ GreetingFails => WorkerTurns
    BY DEF Signal, WriteReply, WriteReplyFails, GreetingFails
  <2> QED
    BY <2>1, <2>2, <2>3, <2>4 DEF Works
<1>4. WatchdogCloses \/ Shutdown \/ UNCHANGED vars => WorkerTurns
  BY DEF WatchdogCloses, Shutdown, vars, streamVars, workerVars
<1> QED
  BY <1>1, <1>2, <1>3, <1>4 DEF Flows

(* Content is given up only when nothing of it has come.                   *)
LEMMA GivenUp ==
  ASSUME TypeOK, HandoffInv, RoleInv, worker = "content", ReadFails
  PROVE  Pipe = <<>>
<1>1. events = <<>> /\ reader \in {"paused", "done"} /\ rbuf = <<>>
  BY DEF HandoffInv, RoleInv, Busy, Quiet, Takeover, ReadFails
<1>2. Arriving = <<>> /\ Held = <<>>
  BY <1>1 DEF ReadFails, Arriving, Held
<1>3. <<>> \o <<>> = <<>>
  BY EmptySeq, ConcatEmptySeq
<1> QED
  BY <1>1, <1>2, <1>3 DEF Pipe, Ahead

LEMMA RoleKept == TypeOK /\ RoleInv /\ [Next]_vars => RoleInv'
<1> SUFFICES ASSUME TypeOK, RoleInv, [Next]_vars PROVE RoleInv'
  OBVIOUS
<1>1. CASE Flows
  BY <1>1, FlowsTurns DEF WorkerTurns, RoleInv
<1>2. CASE Puts
  BY <1>2 DEF Puts, ClientCommand, ClientContent, ClientHello, RoleInv, workerVars
<1>3. CASE Take
  BY <1>3 DEF Take, Dispatch, RoleInv, Bdats
<1>4. CASE ReadContent
  BY <1>4 DEF ReadContent, RoleInv, Bdats
<1>5. CASE Banner \/ Handshake
  BY <1>5 DEF Banner, Handshake, RoleInv
<1>6. CASE SendCancelled
  BY <1>6 DEF SendCancelled, RoleInv, workerVars
<1> QED
  BY <1>1, <1>2, <1>3, <1>4, <1>5, <1>6, NextSteps

-----------------------------------------------------------------------------
(* The order of the stream is kept.                                        *)

LEMMA AfterOrder ==
  ASSUME NEW l \in Lines, NEW m \in Nat, NEW n \in Nat, After(l, n), m <= n
  PROVE  After(l, m)
BY DEF After, Lines

LEMMA FlowsPipe ==
  ASSUME TypeOK, TypeOK', ~ParsesContent, HandoffInv, RoleInv, PipeInv, NumbersInv,
         Flows
  PROVE  PipeInv' /\ NumbersInv'
<1>0. PipeTyped /\ PipeTyped'
  BY PipeTypes, PipeTypesNext
<1>1. Part(Pipe', Pipe, 0) /\ WorkerTurns
  BY FlowsCut, FlowsTurns DEF Cut
<1>2. Chained(Pipe') /\ Ascending(Pipe')
  <2>1. 0 \in Nat
    OBVIOUS
  <2> QED
    BY <1>0, <1>1, <2>1, PartKeeps DEF PipeInv, NumbersInv, PipeTyped
<1>3. \A i \in 1..Len(Pipe') : i \in 1..Len(Pipe) /\ Pipe'[i] = Pipe[i]
  <2>1. ASSUME NEW i \in 1..Len(Pipe')
        PROVE  i \in 1..Len(Pipe) /\ Pipe'[i] = Pipe[i]
    <3>1. i + 0 = i
      OBVIOUS
    <3> QED
      BY <1>1, <3>1 DEF Part
  <2> QED
    BY <2>1
<1>4. Pipe' # <<>> => Pipe # <<>> /\ Pipe'[1] = Pipe[1]
  <2> SUFFICES ASSUME Pipe' # <<>> PROVE Pipe # <<>> /\ Pipe'[1] = Pipe[1]
    OBVIOUS
  <2>1. 1 \in 1..Len(Pipe')
    BY <1>0, HeadFirst DEF PipeTyped
  <2> QED
    BY <1>3, <2>1, EmptySeq
<1>5. Pipe = <<>> => Pipe' = <<>>
  BY <1>4
<1>6. Pipe' # <<>> => (Pipe'[1].verb = "BODY" <=> worker' = "content")
  <2> SUFFICES ASSUME Pipe' # <<>>
               PROVE  Pipe'[1].verb = "BODY" <=> worker' = "content"
    OBVIOUS
  <2>1. Pipe[1].verb = "BODY" <=> worker = "content"
    BY <1>4 DEF PipeInv
  <2>2. worker' = "content" => worker = "content"
    BY <1>1, <1>4 DEF WorkerTurns, PipeInv
  <2>3. worker = "content" => worker' = "content"
    <3> SUFFICES ASSUME worker = "content", worker' # "content" PROVE FALSE
      OBVIOUS
    <3>1. ReadFails
      BY <1>1 DEF WorkerTurns
    <3> QED
      BY <1>4, <3>1, GivenUp
  <2> QED
    BY <1>4, <2>1, <2>2, <2>3
<1>7. PipeInv'
  BY <1>1, <1>2, <1>5, <1>6 DEF PipeInv, WorkerTurns
<1>8. NumbersInv'
  BY <1>1, <1>2, <1>3 DEF NumbersInv, WorkerTurns, After, IsCommand
<1> QED
  BY <1>7, <1>8

(* A line that the client may send now.                                    *)
Fits(l) ==
  /\ Pipe # <<>> => /\ Pipe[Len(Pipe)].verb # "DATA"
                    /\ l.verb = "BODY" <=> Pipe[Len(Pipe)].verb \in Bdats
  /\ Pipe = <<>> => (l.verb = "BODY" <=> worker = "content")
  /\ ~(worker = "interim" /\ wline.verb = "DATA")

LEMMA PutPipe ==
  ASSUME TypeOK, PipeInv, NumbersInv, NEW l \in Lines,
         Pipe' = IF reader = "done" THEN Pipe ELSE Append(Pipe, l),
         reader # "done" => Fits(l),
         sent' \in Nat, sent <= sent', l.n = sent', IsCommand(l) => sent < sent',
         UNCHANGED <<worker, wline>>
  PROVE  PipeInv' /\ NumbersInv'
<1>0. PipeTyped /\ wline.n \in Nat /\ l.n \in Nat
  BY PipeTypes DEF PipeTyped, Lines
<1>1. /\ Pipe \in Seq(Lines) /\ Len(Pipe) \in Nat
      /\ \A i \in 1..Len(Pipe) : Pipe[i] \in Lines /\ Pipe[i].n \in Nat
  BY <1>0, LineOfSeq DEF PipeTyped
<1>2. sent \in Nat
  BY <1>0 DEF PipeTyped
<1>3. CASE reader = "done"
  <2>1. Pipe' = Pipe
    BY <1>3
  <2>2. PipeInv'
    BY <2>1 DEF PipeInv
  <2>3. NumbersInv'
    BY <1>0, <1>1, <1>2, <2>1 DEF NumbersInv
  <2> QED
    BY <2>2, <2>3
<1>4. CASE reader # "done"
  <2>1. /\ Pipe' = Append(Pipe, l) /\ Len(Pipe') = Len(Pipe) + 1
        /\ \A i \in 1..Len(Pipe) : Pipe'[i] = Pipe[i]
        /\ Pipe'[Len(Pipe) + 1] = l
    BY <1>1, <1>4, AppendProperties
  <2>2. \A i \in 1..Len(Pipe) : After(l, Pipe[i].n)
    BY <1>0, <1>1, <1>2 DEF NumbersInv, After
  <2>3. Chained(Pipe') /\ Ascending(Pipe')
    BY <1>1, <1>4, <2>1, <2>2, AppendKeeps DEF Fits, PipeInv, NumbersInv
  <2>4. Pipe'[1].verb = "BODY" <=> worker' = "content"
    <3>1. CASE Pipe = <<>>
      <4>1. Len(Pipe) + 1 = 1
        BY <3>1, EmptySeq
      <4> QED
        BY <1>4, <2>1, <3>1, <4>1 DEF Fits
    <3>2. CASE Pipe # <<>>
      BY <1>1, <2>1, <3>2, HeadFirst DEF PipeInv
    <3> QED
      BY <3>1, <3>2
  <2>5. PipeInv'
    BY <1>4, <2>3, <2>4 DEF PipeInv, Fits
  <2>6. After(l, wline.n)
    BY <1>0, <1>2 DEF NumbersInv, After
  <2>7. ASSUME NEW i \in 1..Len(Pipe')
        PROVE  After(Pipe'[i], wline'.n) /\ Pipe'[i].n <= sent'
    <3>1. CASE i \in 1..Len(Pipe)
      BY <1>1, <1>2, <2>1, <3>1 DEF NumbersInv, After, IsCommand
    <3>2. CASE i = Len(Pipe) + 1
      BY <1>0, <2>1, <2>6, <3>2 DEF After, IsCommand
    <3> QED
      BY <1>1, <2>1, <3>1, <3>2
  <2>8. NumbersInv'
    BY <1>0, <1>2, <2>3, <2>7 DEF NumbersInv
  <2> QED
    BY <2>5, <2>8
<1> QED
  BY <1>3, <1>4

(* Dropping the first lines keeps the order of the rest.                   *)
LEMMA DroppedOrder ==
  ASSUME TypeOK, TypeOK', PipeInv, NumbersInv, NEW k \in Nat, Dropped(k)
  PROVE  /\ Chained(Pipe') /\ Ascending(Pipe')
         /\ \A i \in 1..Len(Pipe') : /\ i + k \in 1..Len(Pipe)
                                     /\ Pipe'[i] = Pipe[i + k]
         /\ Pipe' # <<>> => /\ k + 1 \in 1..Len(Pipe) /\ Pipe'[1] = Pipe[k + 1]
                            /\ Pipe # <<>>
                            /\ Pipe'[Len(Pipe')] = Pipe[Len(Pipe)]
                            /\ k > 0 => (Pipe'[1].verb = "BODY" <=>
                                           Pipe[k].verb \in Bdats)
         /\ Pipe' = <<>> => k = Len(Pipe)
<1>0. /\ Pipe \in Seq(Lines) /\ Pipe' \in Seq(Lines)
      /\ Len(Pipe) \in Nat /\ Len(Pipe') \in Nat
  BY PipeTypes, PipeTypesNext, LenProperties DEF PipeTyped
<1>1. Chained(Pipe') /\ Ascending(Pipe')
  BY <1>0, PartKeeps DEF Dropped, PipeInv, NumbersInv
<1>2. \A i \in 1..Len(Pipe') : i + k \in 1..Len(Pipe) /\ Pipe'[i] = Pipe[i + k]
  BY DEF Dropped, Part
<1>3. ASSUME Pipe' # <<>>
      PROVE  /\ k + 1 \in 1..Len(Pipe) /\ Pipe'[1] = Pipe[k + 1] /\ Pipe # <<>>
             /\ Pipe'[Len(Pipe')] = Pipe[Len(Pipe)]
             /\ k > 0 => (Pipe'[1].verb = "BODY" <=> Pipe[k].verb \in Bdats)
  <2>1. 1 \in 1..Len(Pipe') /\ Len(Pipe') \in 1..Len(Pipe')
    BY <1>0, <1>3, HeadFirst
  <2>2. k + 1 \in 1..Len(Pipe) /\ Pipe'[1] = Pipe[k + 1]
    <3>1. 1 + k = k + 1
      OBVIOUS
    <3> QED
      BY <1>2, <2>1, <3>1
  <2>3. Len(Pipe') + k = Len(Pipe)
    BY <1>0 DEF Dropped
  <2>4. Pipe'[Len(Pipe')] = Pipe[Len(Pipe)]
    BY <1>2, <2>1, <2>3
  <2>5. Pipe # <<>>
    BY <2>2, EmptySeq
  <2>6. ASSUME k > 0 PROVE Pipe'[1].verb = "BODY" <=> Pipe[k].verb \in Bdats
    <3>1. k + 1 > 1 /\ k + 1 - 1 = k
      BY <2>6
    <3>2. Pipe[k + 1].verb = "BODY" <=> Pipe[k + 1 - 1].verb \in Bdats
      BY <2>2, <3>1 DEF PipeInv, Chained
    <3> QED
      BY <2>2, <3>1, <3>2
  <2> QED
    BY <2>2, <2>4, <2>5, <2>6
<1>4. Pipe' = <<>> => k = Len(Pipe)
  BY <1>0, EmptySeq DEF Dropped
<1> QED
  BY <1>1, <1>2, <1>3, <1>4

(* A step of the worker that reads the first lines of the stream.          *)
LEMMA DroppedPipe ==
  ASSUME TypeOK, TypeOK', PipeInv, NumbersInv, NEW k \in Nat \ {0}, Dropped(k),
         sent' = sent, wline' = wline,
         worker' # "content", worker' # "interim", Pipe[k].verb \notin Bdats
  PROVE  PipeInv' /\ NumbersInv'
<1>1. PipeInv'
  BY DroppedOrder DEF PipeInv
<1>2. NumbersInv'
  BY DroppedOrder DEF NumbersInv, After, IsCommand
<1> QED
  BY <1>1, <1>2

(* The worker reads content after a BDAT, unless it leaves the chunk.      *)
LEMMA TakeReads ==
  ASSUME Take, strayed' = "no"
  PROVE  worker' = "content" <=> wline'.verb \in {"BDAT", "BADBDAT"}
<1>1. worker' \in Dispatch(wline'.verb) /\ ~LeavesUnread(wline', worker')
  BY DEF Take, Stray
<1> QED
  BY <1>1 DEF Dispatch, LeavesUnread

LEMMA TakePipe ==
  ASSUME TypeOK, TypeOK', strayed' = "no", PipeInv, NumbersInv, Take
  PROVE  PipeInv' /\ NumbersInv'
<1>0. Pipe # <<>> /\ wline' = Pipe[1] /\ Dropped(1)
  BY TakeDrops
<1>1. 1 \in Nat /\ PipeTyped
  BY PipeTypes
<1>2. Len(Pipe) \in Nat /\ 1 \in 1..Len(Pipe)
  BY <1>0, <1>1, HeadFirst DEF PipeTyped
<1>3. worker = "select" /\ worker' \in Dispatch(wline'.verb) /\ sent' = sent
  BY DEF Take, streamVars
<1>4. Pipe[1].verb # "BODY"
  BY <1>0, <1>3 DEF PipeInv
<1>5. worker' = "content" <=> wline'.verb \in Bdats
  BY TakeReads DEF Bdats
<1>6. Pipe' # <<>> => (Pipe'[1].verb = "BODY" <=> worker' = "content")
  BY <1>0, <1>1, <1>5, DroppedOrder
<1>7. wline'.verb = "DATA" => Pipe' = <<>>
  <2> SUFFICES ASSUME wline'.verb = "DATA" PROVE Pipe' = <<>>
    OBVIOUS
  <2>1. Len(Pipe) = 1
    BY <1>0, <1>2 DEF PipeInv, Chained
  <2> QED
    BY <1>0, <1>1, <1>2, <2>1, DroppedOrder
<1>8. PipeInv'
  BY <1>0, <1>1, <1>6, <1>7, DroppedOrder DEF PipeInv
<1>9. ASSUME NEW i \in 1..Len(Pipe')
      PROVE  After(Pipe'[i], wline'.n) /\ Pipe'[i].n <= sent'
  <2>1. i + 1 \in 1..Len(Pipe) /\ Pipe'[i] = Pipe[i + 1] /\ 1 < i + 1
    BY <1>0, <1>1, DroppedOrder
  <2>2. After(Pipe[i + 1], Pipe[1].n)
    BY <1>2, <2>1 DEF NumbersInv, Ascending
  <2> QED
    BY <1>0, <1>3, <2>1, <2>2 DEF NumbersInv
<1>10. Ascending(Pipe')
  BY <1>0, <1>1, DroppedOrder
<1>11. wline'.n <= sent'
  BY <1>0, <1>2, <1>3 DEF NumbersInv
<1>12. NumbersInv'
  BY <1>9, <1>10, <1>11 DEF NumbersInv
<1> QED
  BY <1>8, <1>12

(* Nothing is left of the stream, before and after.                        *)
LEMMA EmptyPipe ==
  ASSUME NumbersInv, Pipe' = <<>>, wline' = wline, sent' = sent
  PROVE  PipeInv' /\ NumbersInv'
<1>1. Len(Pipe') = 0 /\ 1..Len(Pipe') = {}
  BY EmptySeq
<1> QED
  BY <1>1 DEF PipeInv, NumbersInv, Chained, Ascending

LEMMA ContentPipe ==
  ASSUME TypeOK, TypeOK', HandoffInv, PipeInv, NumbersInv, ReadContent
  PROVE  PipeInv' /\ NumbersInv'
<1>1. UNCHANGED <<wline, sent>> /\ worker = "content"
  BY DEF ReadContent, streamVars
<1>2. CASE reader = "done"
  BY <1>1, <1>2, ContentDrops, EmptyPipe
<1>3. CASE reader # "done"
  <2>1. Pipe # <<>> /\ Pipe[1] = Head(rbuf) /\ Dropped(1)
    BY <1>3, ContentDrops
  <2>2. Pipe[1].verb = "BODY"
    BY <1>1, <2>1 DEF PipeInv
  <2>3. worker' \in {"callback", "signal"}
    BY <2>1, <2>2 DEF ReadContent
  <2>4. 1 \in Nat \ {0}
    OBVIOUS
  <2> QED
    BY <1>1, <2>1, <2>2, <2>3, <2>4, DroppedPipe DEF Bdats
<1> QED
  BY <1>2, <1>3

LEMMA BannerPipe ==
  ASSUME TypeOK, TypeOK', HandoffInv, ClearInv, PipeInv, NumbersInv, HelloInv, Banner
  PROVE  PipeInv' /\ NumbersInv'
<1>1. UNCHANGED <<wline, sent>> /\ worker = "banner" /\ worker' = "select"
  BY DEF Banner
<1>2. Pipe = net /\ sock = "open" /\ reader # "done"
  BY BannerDrops
<1>3. CASE listener = "plain"
  <2>1. Pipe' = Pipe
    BY <1>3, BannerDrops
  <2> QED
    BY <1>1, <2>1 DEF PipeInv, NumbersInv
<1>4. CASE listener = "tls"
  <2>1. Pipe # <<>> /\ Dropped(1)
    BY <1>4, BannerDrops
  <2>2. Pipe[1].verb = "HELLO"
    BY <1>1, <1>2, <1>4, <2>1 DEF HelloInv, HelloWaits, Live
  <2>3. 1 \in Nat \ {0}
    OBVIOUS
  <2> QED
    BY <1>1, <2>1, <2>2, <2>3, DroppedPipe DEF Bdats
<1> QED
  BY <1>3, <1>4 DEF TypeOK

LEMMA HandshakePipe ==
  ASSUME TypeOK, TypeOK', HandoffInv, PipeInv, NumbersInv, Handshake
  PROVE  PipeInv' /\ NumbersInv'
<1>1. UNCHANGED <<wline, sent>> /\ worker' = "signal"
  BY DEF Handshake
<1>2. CASE reader = "done"
  BY <1>1, <1>2, HandshakeDrops, EmptyPipe
<1>3. CASE reader # "done"
  <2>1. /\ Dropped(Len(rbuf) + 1) /\ Len(rbuf) + 1 \in Nat \ {0}
        /\ Pipe[Len(rbuf) + 1].verb = "HELLO"
    BY <1>3, HandshakeDrops
  <2> QED
    BY <1>1, <2>1, DroppedPipe DEF Bdats
<1> QED
  BY <1>2, <1>3

(* Losing the notice of an over-long line keeps the order of the others.   *)
LEMMA LostOrder ==
  ASSUME TypeOK, TypeOK', PipeInv, NumbersInv, NEW m \in 1..Len(Pipe), Lost(m),
         Pipe[m].verb = "LONG"
  PROVE  /\ Chained(Pipe') /\ Ascending(Pipe')
         /\ \A i \in 1..Len(Pipe') : \E j \in 1..Len(Pipe) : Pipe'[i] = Pipe[j]
         /\ Pipe' # <<>> /\ Pipe[1].verb # "BODY" => Pipe'[1].verb # "BODY"
<1>0. Len(Pipe) \in Nat /\ Len(Pipe') \in Nat /\ Len(Pipe') = Len(Pipe) - 1
      /\ m \in Nat
  BY PipeTypes, PipeTypesNext, LenProperties DEF PipeTyped, Lost
<1> DEFINE f(i) == IF i < m THEN i ELSE i + 1
<1>1. \A i \in 1..Len(Pipe') : /\ f(i) \in 1..Len(Pipe) /\ Pipe'[i] = Pipe[f(i)]
                               /\ f(i) # m /\ f(i) \in Nat
  BY <1>0 DEF Lost
<1>2. \A i, j \in 1..Len(Pipe') : i < j => f(i) < f(j)
  BY <1>0
<1>3. Ascending(Pipe')
  BY <1>1, <1>2 DEF NumbersInv, Ascending
<1>4. \A i \in 1..Len(Pipe) : i > 1 =>
        (Pipe[i].verb = "BODY" <=> Pipe[i - 1].verb \in Bdats)
  BY DEF PipeInv, Chained
<1>5. ASSUME NEW i \in 1..Len(Pipe'), i > 1
      PROVE  Pipe'[i].verb = "BODY" <=> Pipe'[i - 1].verb \in Bdats
  <2>1. i - 1 \in 1..Len(Pipe') /\ i - 1 < i
    BY <1>0, <1>5
  <2>2. CASE i # m
    <3>1. f(i) - 1 = f(i - 1) /\ f(i) > 1
      BY <1>0, <1>5, <2>2
    <3>2. Pipe[f(i)].verb = "BODY" <=> Pipe[f(i) - 1].verb \in Bdats
      BY <1>1, <1>4, <3>1
    <3> QED
      BY <1>1, <2>1, <3>1, <3>2
  <2>3. CASE i = m
    <3>1. f(i) = m + 1 /\ f(i - 1) = m - 1 /\ m > 1 /\ m + 1 > 1 /\ m + 1 - 1 = m
      BY <1>0, <1>5, <2>3
    <3>2. m + 1 \in 1..Len(Pipe) /\ Pipe'[i] = Pipe[m + 1]
          /\ Pipe'[i - 1] = Pipe[m - 1]
      BY <1>1, <2>1, <3>1
    <3>3. Pipe[m].verb = "BODY" <=> Pipe[m - 1].verb \in Bdats
      BY <1>4, <3>1
    <3>4. Pipe[m + 1].verb = "BODY" <=> Pipe[m].verb \in Bdats
      BY <1>4, <3>1, <3>2
    <3> QED
      BY <3>2, <3>3, <3>4 DEF Bdats
  <2> QED
    BY <2>2, <2>3
<1>6. ASSUME NEW i \in 1..Len(Pipe'), Pipe'[i].verb = "DATA"
      PROVE  i = Len(Pipe')
  <2>1. f(i) = Len(Pipe)
    BY <1>1, <1>6 DEF PipeInv, Chained
  <2> QED
    BY <1>0, <1>1, <2>1
<1>7. Chained(Pipe')
  BY <1>5, <1>6 DEF Chained
<1>8. ASSUME Pipe' # <<>>, Pipe[1].verb # "BODY" PROVE Pipe'[1].verb # "BODY"
  <2>1. 1 \in 1..Len(Pipe')
    BY <1>8, PipeTypesNext, HeadFirst DEF PipeTyped
  <2>2. CASE 1 < m
    BY <1>1, <1>8, <2>1, <2>2
  <2>3. CASE m = 1
    <3>1. Pipe'[1] = Pipe[2] /\ 2 \in 1..Len(Pipe) /\ 2 > 1 /\ 2 - 1 = 1
      BY <1>1, <2>1, <2>3
    <3>2. Pipe[2].verb = "BODY" <=> Pipe[2 - 1].verb \in Bdats
      BY <1>4, <3>1
    <3> QED
      BY <2>3, <3>1, <3>2 DEF Bdats
  <2> QED
    BY <1>0, <2>2, <2>3
<1>9. \A i \in 1..Len(Pipe') : \E j \in 1..Len(Pipe) : Pipe'[i] = Pipe[j]
  BY <1>1
<1> QED
  BY <1>3, <1>7, <1>8, <1>9

LEMMA LostPipe ==
  ASSUME TypeOK, TypeOK', HandoffInv, RoleInv, PipeInv, NumbersInv, SendCancelled,
         rline.verb = "LONG"
  PROVE  PipeInv' /\ NumbersInv'
<1>0. PICK m \in 1..Len(Pipe) : Lost(m) /\ Pipe[m].verb = "LONG"
  BY LongLost
<1>1. UNCHANGED <<wline, worker, sent>> /\ reader = "send"
  BY DEF SendCancelled, workerVars, streamVars
<1>2. worker \notin {"content", "interim"}
  BY <1>1 DEF HandoffInv, RoleInv, Busy, Quiet, Takeover
<1>3. Pipe # <<>>
  BY EmptySeq
<1>4. PipeInv'
  BY <1>0, <1>1, <1>2, <1>3, LostOrder DEF PipeInv
<1>5. NumbersInv'
  BY <1>0, <1>1, LostOrder DEF NumbersInv
<1> QED
  BY <1>4, <1>5

(* What the client sends, by what it was about to do.                      *)
PutStep(l) ==
  /\ net' = Append(net, l) /\ sock = "open"
  /\ l.n = sent' /\ sent' = IF IsCommand(l) THEN sent + 1 ELSE sent
  /\ \/ client = "ready" /\ IsCommand(l) /\ client' = AfterCommand(l.verb)
     \/ client = "await220" /\ l.verb = "CMD" /\ client' = client
     \/ client = "content" /\ l.verb = "BODY" /\ client' = "ready"
     \/ client = "hello" /\ l.verb = "HELLO" /\ client' = "ready"
  /\ UNCHANGED <<out, rbuf, sock, listener, secure, events, token,
                 readerVars, workerVars, cancelled, watchdog, writeTimeout,
                 strayed>>

LEMMA PutsStep == TypeOK /\ Puts => \E l \in Lines : PutStep(l)
<1> SUFFICES ASSUME TypeOK, Puts PROVE \E l \in Lines : PutStep(l)
  OBVIOUS
<1>0. sent \in Nat /\ clear \in BOOLEAN
  BY DEF TypeOK
<1>1. ASSUME NEW verb \in Commands, ClientCommand(verb)
      PROVE  \E l \in Lines : PutStep(l)
  <2> DEFINE l == [verb |-> verb, n |-> sent', clear |-> clear']
  <2>1. /\ sent' = sent + 1 /\ clear' \in BOOLEAN /\ verb \in Verbs
        /\ net' = Append(net, l)
    BY <1>0, <1>1 DEF ClientCommand, Put, Verbs
  <2>2. l \in Lines /\ l.verb = verb /\ l.n = sent' /\ IsCommand(l)
    BY <1>0, <2>1, LineTypes DEF IsCommand
  <2> HIDE DEF l
  <2>3. PutStep(l)
    BY <1>1, <2>1, <2>2 DEF PutStep, ClientCommand
  <2> QED
    BY <2>2, <2>3
<1>2. CASE ClientContent
  <2> DEFINE l == [verb |-> "BODY", n |-> sent', clear |-> clear']
  <2>1. /\ sent' = sent /\ clear' \in BOOLEAN /\ "BODY" \in Verbs
        /\ net' = Append(net, l)
    BY <1>0, <1>2 DEF ClientContent, Put, Verbs
  <2>2. l \in Lines /\ l.verb = "BODY" /\ l.n = sent' /\ ~IsCommand(l)
    BY <1>0, <2>1, LineTypes DEF IsCommand, Commands
  <2> HIDE DEF l
  <2>3. PutStep(l)
    BY <1>2, <2>1, <2>2 DEF PutStep, ClientContent
  <2> QED
    BY <2>2, <2>3
<1>3. CASE ClientHello
  <2> DEFINE l == [verb |-> "HELLO", n |-> sent', clear |-> clear']
  <2>1. /\ sent' = sent /\ clear' \in BOOLEAN /\ "HELLO" \in Verbs
        /\ net' = Append(net, l)
    BY <1>0, <1>3 DEF ClientHello, Put, Verbs
  <2>2. l \in Lines /\ l.verb = "HELLO" /\ l.n = sent' /\ ~IsCommand(l)
    BY <1>0, <2>1, LineTypes DEF IsCommand, Commands
  <2> HIDE DEF l
  <2>3. PutStep(l)
    BY <1>3, <2>1, <2>2 DEF PutStep, ClientHello
  <2> QED
    BY <2>2, <2>3
<1> QED
  BY <1>1, <1>2, <1>3 DEF Puts

LEMMA PutStepGrows ==
  ASSUME TypeOK, TypeOK', NEW l \in Lines, PutStep(l)
  PROVE  Pipe' = IF reader = "done" THEN Pipe ELSE Append(Pipe, l)
BY PutGrows DEF PutStep, readerVars

LEMMA PutFits ==
  ASSUME TypeOK, TalkInv, NEW l \in Lines, PutStep(l), reader # "done"
  PROVE  Active /\ Fits(l)
<1>1. Active /\ client # "await354" /\ (client = "content" <=> l.verb = "BODY")
  BY DEF PutStep, Active, Gone, IsCommand, Commands
<1> QED
  BY <1>1 DEF TalkInv, Fits

LEMMA PutStepPipe ==
  ASSUME TypeOK, TypeOK', PipeInv, NumbersInv, TalkInv, NEW l \in Lines, PutStep(l)
  PROVE  PipeInv' /\ NumbersInv'
<1>1. sent \in Nat /\ sent' \in Nat
  BY DEF TypeOK
<1>2. UNCHANGED <<worker, wline>> /\ l.n = sent' /\ sent <= sent'
      /\ (IsCommand(l) => sent < sent')
  BY <1>1 DEF PutStep, workerVars
<1> QED
  BY <1>1, <1>2, PutStepGrows, PutFits, PutPipe

LEMMA PipeKept ==
  TypeOK /\ TypeOK' /\ ~ParsesContent /\ strayed' = "no" /\ HandoffInv /\ ClearInv
    /\ StreamInv /\ [Next]_vars => PipeInv' /\ NumbersInv'
BY NextSteps, FlowsPipe, PutsStep, PutStepPipe, TakePipe, ContentPipe, BannerPipe,
   HandshakePipe, LostPipe DEF StreamInv

-----------------------------------------------------------------------------
(* Replies.                                                                *)

LEMMA AppendReply ==
  ASSUME TypeOK, NEW r \in Replies, out' = Append(out, r)
  PROVE  /\ Len(out) \in Nat /\ Len(out') = Len(out) + 1
         /\ out'[Len(out) + 1] = r
         /\ \A i \in 1..Len(out) : out'[i] = out[i]
         /\ \A i \in 1..Len(out') : i \in 1..Len(out) \/ i = Len(out) + 1
<1>1. out \in Seq(Replies) /\ Len(out) \in Nat
  BY LenProperties DEF TypeOK
<1>2. /\ Len(out') = Len(out) + 1 /\ out'[Len(out) + 1] = r
      /\ \A i \in 1..Len(out) : out'[i] = out[i]
  BY <1>1, AppendProperties
<1> QED
  BY <1>1, <1>2

LEMMA TailReply ==
  ASSUME TypeOK, out # <<>>, out' = Tail(out)
  PROVE  /\ Len(out) \in Nat /\ 1 \in 1..Len(out) /\ Head(out) = out[1]
         /\ \A i \in 1..Len(out') : i + 1 \in 1..Len(out) /\ out'[i] = out[i + 1]
         /\ out[1] \in Replies
<1>1. out \in Seq(Replies) /\ Len(out) \in Nat /\ 1 \in 1..Len(out)
  BY LenProperties, EmptySeq DEF TypeOK
<1>2. /\ Head(out) = out[1] /\ Len(out') = Len(out) - 1
      /\ \A i \in 1..Len(out') : out'[i] = out[i + 1]
  BY <1>1, HeadTailProperties
<1>3. out[1] \in Replies
  BY <1>1, ElementOfSeq
<1> QED
  BY <1>1, <1>2, <1>3

(* The replies that the worker writes.                                     *)
Speaks ==
  \/ out' = out
  \/ \E r \in Replies :
       /\ out' = Append(out, r) /\ r.n = wline.n
       /\ \/ /\ worker = "banner" /\ r.to = "CONNECT" /\ ~r.go
             /\ worker' = "select"
          \/ /\ worker = "farewell" /\ r.to = "SHUTDOWN" /\ ~r.go
             /\ worker' = "done" /\ sock' = "closed"
          \/ /\ worker = "interim" /\ r.to = wline.verb /\ r.go
             /\ worker' = IF wline.verb = "DATA" THEN "content" ELSE "handshake"
          \/ /\ worker = "reply" /\ r.to = wline.verb /\ ~r.go
             /\ worker' = "select"

LEMMA WorkersSpeak ==
  TypeOK /\ (Works \/ Banner) => Speaks /\ UNCHANGED <<client, sent, wline>>
<1> SUFFICES ASSUME TypeOK, Works \/ Banner
             PROVE  Speaks /\ UNCHANGED <<client, sent, wline>>
  OBVIOUS
<1>0. wline.verb \in Verbs
  BY DEF TypeOK, Lines
<1>1. ASSUME NEW verb \in Verbs \cup {"CONNECT", "SHUTDOWN"}
      PROVE  /\ Reply(verb) \in Replies /\ GoAhead(verb) \in Replies
             /\ Reply(verb).to = verb /\ Reply(verb).n = wline.n /\ ~Reply(verb).go
             /\ GoAhead(verb).to = verb /\ GoAhead(verb).n = wline.n
             /\ GoAhead(verb).go
  BY ReplyTypes DEF Reply, GoAhead
<1>2. CASE Banner
  <2>1. out' = Append(out, Reply("CONNECT"))
    BY <1>2 DEF Banner, WriteOK
  <2> QED
    BY <1>1, <1>2, <2>1 DEF Banner, Speaks
<1>3. CASE Farewell
  <2>1. CASE WriteOK(Reply("SHUTDOWN"))
    BY <1>1, <1>3, <2>1 DEF Farewell, WriteOK, Return, Speaks
  <2> QED
    BY <1>3, <2>1 DEF Farewell, WriteFails, Speaks
<1>4. CASE Interim
  BY <1>0, <1>1, <1>4 DEF Interim, WriteOK, Speaks
<1>5. CASE WriteReply
  BY <1>0, <1>1, <1>5 DEF WriteReply, WriteOK, Speaks
<1>6. CASE BannerFails \/ EventsClosed \/ SeesCancel \/ InterimFails
           \/ ReadContentFails
  BY <1>6 DEF BannerFails, EventsClosed, SeesCancel, InterimFails,
     ReadContentFails, WriteFails, Speaks, streamVars
<1>7. CASE CallbackReturns \/ CallbackPanics \/ HandshakeFails \/ Signal
           \/ WriteReplyFails \/ GreetingFails
  BY <1>7 DEF CallbackReturns, CallbackPanics, HandshakeFails, Signal,
     WriteReplyFails, GreetingFails, WriteFails, Speaks, streamVars
<1> QED
  BY <1>2, <1>3, <1>4, <1>5, <1>6, <1>7 DEF Works

(* The line the worker takes is a command, with a number of its own.       *)
LEMMA TakesCommand ==
  ASSUME TypeOK, TypeOK', StreamInv, Take
  PROVE  /\ IsCommand(wline') /\ wline.n < wline'.n /\ wline' = Pipe[1]
         /\ Pipe # <<>> /\ Dropped(1)
<1>0. Pipe # <<>> /\ wline' = Pipe[1] /\ Dropped(1)
  BY TakeDrops
<1>1. worker = "select" /\ events # <<>> /\ wline' = Head(events)
  BY DEF Take
<1>2. 1 \in 1..Len(Pipe) /\ 1 \in 1..Len(events) /\ Head(events) = events[1]
  BY <1>0, <1>1, PipeTypes, HeadFirst DEF PipeTyped
<1>3. wline'.verb # "BODY" /\ wline'.verb # "HELLO"
  BY <1>0, <1>1, <1>2 DEF StreamInv, PipeInv, HelloInv, NoHello
<1>4. wline'.verb \in Verbs
  BY DEF TypeOK, Lines
<1>5. IsCommand(wline')
  BY <1>3, <1>4 DEF IsCommand, Verbs
<1>6. wline.n < wline'.n
  BY <1>0, <1>2, <1>5 DEF StreamInv, NumbersInv, After, IsCommand
<1> QED
  BY <1>0, <1>5, <1>6

LEMMA OutKept ==
  TypeOK /\ TypeOK' /\ StreamInv /\ [Next]_vars => OutInv'
<1> SUFFICES ASSUME TypeOK, TypeOK', StreamInv, [Next]_vars PROVE OutInv'
  OBVIOUS
<1>0. OutInv /\ wline.n \in Nat
  BY DEF StreamInv, TypeOK, Lines
<1>1. ASSUME out' = out, wline' = wline,
             worker' \in {"interim", "content"} => worker \in {"interim", "content"}
      PROVE  OutInv'
  BY <1>0, <1>1 DEF OutInv
<1>2. CASE Works \/ Banner
  <2>1. wline' = wline /\ Speaks
    BY <1>2, WorkersSpeak
  <2>2. worker' \in {"interim", "content"} => worker \in {"interim", "content"}
    <3>1. CASE Works
      BY <3>1, FlowsTurns DEF Flows, WorkerTurns
    <3>2. CASE Banner
      BY <3>2 DEF Banner
    <3> QED
      BY <1>2, <3>1, <3>2
  <2>3. CASE out' = out
    BY <1>1, <2>1, <2>2, <2>3
  <2>4. ASSUME NEW r \in Replies, out' = Append(out, r), r.n = wline.n,
               worker' \in {"interim", "content"} => r.go
        PROVE  OutInv'
    <3>1. ASSUME NEW i \in 1..Len(out')
          PROVE  /\ out'[i].n <= wline'.n
                 /\ out'[i].n = wline'.n /\ worker' \in {"interim", "content"}
                      => out'[i].go
      <4>1. CASE i \in 1..Len(out)
        <5>1. out'[i] = out[i]
          BY <2>4, <4>1, AppendReply
        <5> QED
          BY <1>0, <2>1, <2>2, <4>1, <5>1 DEF OutInv
      <4>2. CASE i = Len(out) + 1
        <5>1. out'[i] = r
          BY <2>4, <4>2, AppendReply
        <5> QED
          BY <1>0, <2>1, <2>4, <5>1
      <4> QED
        BY <2>4, <4>1, <4>2, AppendReply
    <3> QED
      BY <3>1 DEF OutInv
  <2> QED
    BY <2>1, <2>3, <2>4 DEF Speaks
<1>3. CASE ClientReads
  <2>1. UNCHANGED <<wline, worker>> /\ out # <<>> /\ out' = Tail(out)
    BY <1>3 DEF ClientReads, workerVars
  <2>2. \A i \in 1..Len(out') : i + 1 \in 1..Len(out) /\ out'[i] = out[i + 1]
    BY <2>1, TailReply
  <2> QED
    BY <1>0, <2>1, <2>2 DEF OutInv
<1>4. CASE ClientGone \/ WatchdogCloses \/ Shutdown \/ UNCHANGED vars
  BY <1>1, <1>4 DEF ClientGone, WatchdogCloses, Shutdown, vars, streamVars, workerVars
<1>5. CASE Moves \/ SendCancelled
  BY <1>1, <1>5 DEF Moves, ReadCommand, ReadCommandFails, ReaderFills, WorkerFills,
     Fill, Enqueue, SendCancelled, Resume, PauseEnds, streamVars, workerVars
<1>6. CASE Puts
  <2>1. UNCHANGED <<out, wline, worker>>
    BY <1>6, PutsStep DEF PutStep, workerVars
  <2> QED
    BY <1>1, <2>1
<1>7. CASE Take
  <2>1. out' = out /\ wline.n < wline'.n /\ wline'.n \in Nat
    BY <1>7, TakesCommand DEF Take, streamVars, TypeOK, Lines
  <2>2. \A i \in 1..Len(out) : out[i].n \in Nat
    <3>1. \A i \in 1..Len(out) : out[i] \in Replies
      BY LenProperties, ElementOfSeq DEF TypeOK
    <3> QED
      BY <3>1 DEF Replies
  <2> QED
    BY <1>0, <2>1, <2>2 DEF OutInv
<1>8. CASE ReadContent \/ Handshake
  BY <1>1, <1>8 DEF ReadContent, Handshake, streamVars
<1> QED
  BY <1>2, <1>3, <1>4, <1>5, <1>6, <1>7, <1>8, NextSteps DEF Flows

-----------------------------------------------------------------------------
(* The ClientHello.                                                        *)

(* A part of a sequence without a ClientHello, or with one at most.        *)
LEMMA HelloParts ==
  ASSUME NEW s \in Seq(Lines)
  PROVE  /\ NoHello(s) => OneHello(s)
         /\ \A l \in Lines :
              /\ NoHello(s) /\ l.verb # "HELLO" => NoHello(Append(s, l))
              /\ OneHello(s) /\ (l.verb = "HELLO" => NoHello(s))
                   => OneHello(Append(s, l))
         /\ s # <<>> => /\ NoHello(s) => NoHello(Tail(s)) /\ Head(s).verb # "HELLO"
                        /\ OneHello(s) /\ s[1].verb = "HELLO" => NoHello(Tail(s))
         /\ \A k \in 1..Len(s) :
              NoHello(s) => NoHello(SubSeq(s, 1, k)) /\ NoHello(SubSeq(s, k + 1, Len(s)))
<1>0. Len(s) \in Nat
  BY LenProperties
<1>1. NoHello(s) => OneHello(s)
  BY DEF NoHello, OneHello
<1>2. ASSUME NEW l \in Lines
      PROVE  /\ NoHello(s) /\ l.verb # "HELLO" => NoHello(Append(s, l))
             /\ OneHello(s) /\ (l.verb = "HELLO" => NoHello(s))
                  => OneHello(Append(s, l))
  <2> DEFINE q == Append(s, l)
  <2>1. /\ Len(q) = Len(s) + 1 /\ q[Len(s) + 1] = l
        /\ \A i \in 1..Len(s) : q[i] = s[i]
    BY AppendProperties
  <2> HIDE DEF q
  <2>2. \A i \in 1..Len(q) : i \in 1..Len(s) \/ i = Len(s) + 1
    BY <1>0, <2>1
  <2>3. NoHello(s) /\ l.verb # "HELLO" => NoHello(q)
    BY <2>1, <2>2 DEF NoHello
  <2>4. ASSUME OneHello(s), l.verb = "HELLO" => NoHello(s),
               NEW i \in 1..Len(q), NEW j \in 1..Len(q),
               q[i].verb = "HELLO", q[j].verb = "HELLO"
        PROVE  i = j
    <3>1. CASE i \in 1..Len(s) /\ j \in 1..Len(s)
      BY <2>1, <2>4, <3>1 DEF OneHello
    <3>2. CASE i = Len(s) + 1
      <4>1. ~(j \in 1..Len(s))
        BY <2>1, <2>4, <3>2 DEF NoHello
      <4> QED
        BY <2>2, <3>2, <4>1
    <3>3. CASE j = Len(s) + 1
      <4>1. ~(i \in 1..Len(s))
        BY <2>1, <2>4, <3>3 DEF NoHello
      <4> QED
        BY <2>2, <3>3, <4>1
    <3> QED
      BY <2>2, <3>1, <3>2, <3>3
  <2>5. OneHello(s) /\ (l.verb = "HELLO" => NoHello(s)) => OneHello(q)
    BY <2>4 DEF OneHello
  <2> QED
    BY <2>3, <2>5 DEF q
<1>3. ASSUME s # <<>>
      PROVE  /\ NoHello(s) => NoHello(Tail(s)) /\ Head(s).verb # "HELLO"
             /\ OneHello(s) /\ s[1].verb = "HELLO" => NoHello(Tail(s))
  <2>1. 1 \in 1..Len(s) /\ Head(s) = s[1]
    BY <1>3, HeadFirst
  <2>2. Len(Tail(s)) = Len(s) - 1 /\ \A i \in 1..Len(Tail(s)) : Tail(s)[i] = s[i + 1]
    BY <1>3, HeadTailProperties
  <2>3. \A i \in 1..Len(Tail(s)) : i + 1 \in 1..Len(s) /\ i + 1 # 1
    BY <1>0, <2>2
  <2>4. NoHello(s) => NoHello(Tail(s)) /\ Head(s).verb # "HELLO"
    BY <2>1, <2>2, <2>3 DEF NoHello
  <2>5. ASSUME OneHello(s), s[1].verb = "HELLO", NEW i \in 1..Len(Tail(s))
        PROVE  Tail(s)[i].verb # "HELLO"
    BY <2>1, <2>2, <2>3, <2>5 DEF OneHello
  <2> QED
    BY <2>4, <2>5 DEF NoHello
<1>4. ASSUME NEW k \in 1..Len(s), NoHello(s)
      PROVE  NoHello(SubSeq(s, 1, k)) /\ NoHello(SubSeq(s, k + 1, Len(s)))
  BY <1>0, <1>4 DEF NoHello
<1> QED
  BY <1>1, <1>2, <1>3, <1>4

(* Steps that leave the lines where they are.                              *)
LEMMA AsideHello ==
  ASSUME HelloInv, UNCHANGED <<events, reader, rline, rbuf>>, Live' => HelloWaits'
  PROVE  HelloInv'
BY DEF HelloInv, NoHello

(* A client with no content astray takes a reply for what it answers.      *)
LEMMA ClientHears ==
  ASSUME ClientReads, strayed = "no"
  PROVE  \/ client' = client
         \/ /\ client = "await354" /\ Head(out).to = "DATA" /\ Head(out).n = sent
            /\ client' = IF Head(out).go THEN "content" ELSE "ready"
         \/ /\ client = "await220" /\ Head(out).to = "STARTTLS"
            /\ client' = IF Head(out).go THEN "hello" ELSE "ready"
BY DEF ClientReads, Awaited, AfterReply, Mistaken

LEMMA ReadsHello ==
  TypeOK /\ strayed = "no" /\ StreamInv /\ ClientReads => HelloInv'
<1> SUFFICES ASSUME TypeOK, strayed = "no", StreamInv, ClientReads PROVE HelloInv'
  OBVIOUS
<1>1. /\ HelloInv /\ StartInv /\ ~Gone /\ out # <<>>
      /\ UNCHANGED <<events, reader, rline, rbuf, net, sock, listener, worker>>
  BY DEF StreamInv, ClientReads, readerVars, workerVars
<1>2. Live' => Live /\ HelloWaits
  BY <1>1 DEF Live, HelloInv
<1>3. client' = "hello" /\ client # "hello" /\ Live =>
        worker = "handshake" /\ NoHello(net)
  <2> SUFFICES ASSUME client' = "hello", client # "hello", Live
               PROVE  worker = "handshake" /\ NoHello(net)
    OBVIOUS
  <2>1. Head(out).to = "STARTTLS" /\ Head(out).go
    BY ClientHears
  <2>2. 1 \in 1..Len(out) /\ Head(out) = out[1]
    BY <1>1, TailReply DEF ClientReads
  <2> QED
    BY <1>1, <2>1, <2>2 DEF StartInv, Active, Live
<1>4. client = "hello" => client' = "hello"
  BY ClientHears
<1>5. Live' => HelloWaits'
  BY <1>1, <1>2, <1>3, <1>4 DEF HelloWaits, OneHello, NoHello, Gone
<1> QED
  BY <1>1, <1>5, AsideHello

LEMMA WorksHello ==
  TypeOK /\ StreamInv /\ Works => HelloInv'
<1> SUFFICES ASSUME TypeOK, StreamInv, Works PROVE HelloInv'
  OBVIOUS
<1>1. /\ HelloInv /\ Aside /\ UNCHANGED <<client, listener>>
  <2>1. UNCHANGED <<client>>
    BY WorkersSpeak
  <2>2. UNCHANGED listener
    BY DEF Works, BannerFails, EventsClosed, SeesCancel, Farewell, Interim,
         InterimFails, ReadContentFails, CallbackReturns, CallbackPanics,
         HandshakeFails, Signal, WriteReply, WriteReplyFails, GreetingFails
  <2> QED
    BY <2>1, <2>2, WorksAside DEF StreamInv
<1>2. sock' = "open" =>
        /\ sock = "open"
        /\ worker' = worker \/ worker \notin {"banner", "handshake"}
        /\ worker' # "banner" \/ worker = "banner"
  <2>1. BannerFails \/ EventsClosed \/ SeesCancel \/ Farewell => sock' = "closed" \/
          (worker = "select" /\ worker' = "farewell")
    BY DEF BannerFails, EventsClosed, SeesCancel, Farewell, Return
  <2>2. Interim \/ InterimFails \/ ReadContentFails =>
          worker \in {"interim", "content"} /\ worker' # "banner"
    BY DEF Interim, InterimFails, ReadContentFails
  <2>3. CallbackReturns \/ CallbackPanics \/ HandshakeFails =>
          sock' = "closed" \/ (worker = "callback" /\ worker' # "banner")
    BY DEF CallbackReturns, CallbackPanics, HandshakeFails, Return
  <2>4. Signal \/ WriteReply \/ WriteReplyFails \/ GreetingFails =>
          worker \in {"signal", "reply"} /\ worker' # "banner"
    BY DEF Signal, WriteReply, WriteReplyFails, GreetingFails, Return
  <2> QED
    BY <1>1, <2>1, <2>2, <2>3, <2>4 DEF Works, Aside
<1>3. Live' => HelloWaits'
  <2> SUFFICES ASSUME Live' PROVE HelloWaits'
    OBVIOUS
  <2>1. HelloWaits /\ UNCHANGED <<net, client, listener>>
    BY <1>1, <1>2 DEF Live, HelloInv, Aside
  <2> QED
    BY <1>2, <2>1 DEF HelloWaits, OneHello, NoHello, Gone, Live
<1> QED
  BY <1>1, <1>3, AsideHello DEF Aside

(* The reader and the worker read where no handshake is due.               *)
LEMMA FillHello ==
  ASSUME TypeOK, HelloInv, Fill, worker \notin {"banner", "handshake"}
  PROVE  HelloInv'
<1>1. PICK k \in 1..Len(net) :
        rbuf' = SubSeq(net, 1, k) /\ net' = SubSeq(net, k + 1, Len(net))
  BY DEF Fill
<1>2. UNCHANGED <<events, reader, rline, worker, client, listener, sock>>
  BY DEF Fill, readerVars, workerVars
<1>3. sock = "open" /\ net \in Seq(Lines) /\ net' \in Seq(Lines)
  BY <1>1, SubSeqProperties, LenProperties DEF Fill, TypeOK
<1>4. reader # "done" => HelloWaits /\ NoHello(net)
  BY <1>3 DEF HelloInv, HelloWaits, Live
<1>5. reader # "done" => NoHello(rbuf') /\ NoHello(net') /\ OneHello(net')
  BY <1>1, <1>3, <1>4, HelloParts
<1>6. reader # "done" => HelloWaits'
  BY <1>2, <1>4, <1>5 DEF HelloWaits
<1> QED
  BY <1>2, <1>5, <1>6 DEF HelloInv, Live, NoHello

LEMMA MovesHello ==
  ASSUME TypeOK, ~ParsesContent, HandoffInv, HelloInv, Moves \/ SendCancelled
  PROVE  HelloInv'
<1>0. rbuf \in Seq(Lines) /\ events \in Seq(Lines) /\ rline \in Lines
  BY DEF TypeOK
<1>1. CASE ReaderFills
  <2>1. worker \notin {"banner", "handshake"}
    BY <1>1 DEF ReaderFills, HandoffInv, Busy, Quiet
  <2> QED
    BY <1>1, <2>1, FillHello DEF ReaderFills
<1>2. CASE WorkerFills
  BY <1>2, FillHello DEF WorkerFills
<1>3. ASSUME UNCHANGED <<net, sock, listener, client, worker>>,
             NoHello(events'), reader' = "send" => rline'.verb # "HELLO",
             reader # "done", reader' # "done" => NoHello(rbuf')
      PROVE  HelloInv'
  <2>1. Live' => HelloWaits
    BY <1>3 DEF Live, HelloInv
  <2>2. Live' => HelloWaits'
    BY <1>3, <2>1 DEF HelloWaits, OneHello, NoHello, Gone
  <2> QED
    BY <1>3, <2>2 DEF HelloInv
<1>4. CASE ReadCommand
  <2>1. UNCHANGED <<net, sock, listener, client, worker, events>> /\ reader = "read"
        /\ rbuf # <<>> /\ rline' = Head(rbuf) /\ rbuf' = Tail(rbuf)
    BY <1>4, ReadsLine DEF ReadCommand, streamVars, workerVars
  <2>2. NoHello(rbuf)
    BY <2>1 DEF HelloInv
  <2>3. NoHello(rbuf') /\ rline'.verb # "HELLO"
    BY <1>0, <2>1, <2>2, HelloParts
  <2>4. NoHello(events')
    BY <2>1 DEF HelloInv, NoHello
  <2> QED
    BY <1>3, <2>1, <2>3, <2>4
<1>5. CASE Enqueue
  <2>1. UNCHANGED <<net, sock, listener, client, worker, rbuf, rline>>
        /\ reader = "send" /\ events' = Append(events, rline) /\ reader' # "send"
    BY <1>5 DEF Enqueue, streamVars, workerVars
  <2>2. NoHello(events')
    BY <1>0, <2>1, HelloParts DEF HelloInv
  <2>3. NoHello(rbuf')
    BY <2>1 DEF HelloInv, NoHello
  <2> QED
    BY <1>3, <2>1, <2>2, <2>3
<1>6. CASE ReadCommandFails \/ SendCancelled \/ Resume \/ PauseEnds
  <2>1. UNCHANGED <<net, sock, listener, client, worker, rbuf, rline, events>>
        /\ reader \in {"read", "send", "paused"} /\ reader' # "send"
    BY <1>6 DEF ReadCommandFails, SendCancelled, Resume, PauseEnds, streamVars,
       workerVars
  <2>2. NoHello(events') /\ NoHello(rbuf')
    BY <2>1 DEF HelloInv, NoHello
  <2> QED
    BY <1>3, <2>1, <2>2
<1> QED
  BY <1>1, <1>2, <1>4, <1>5, <1>6 DEF Moves

LEMMA PutHello ==
  ASSUME TypeOK, HelloInv, NEW l \in Lines, PutStep(l)
  PROVE  HelloInv'
<1>1. /\ UNCHANGED <<events, reader, rline, rbuf, sock, worker, listener>>
      /\ net' = Append(net, l) /\ sock = "open" /\ net \in Seq(Lines)
      /\ listener \in {"plain", "tls"}
  BY DEF PutStep, readerVars, workerVars, TypeOK
<1>2. Live' => HelloWaits'
  <2> SUFFICES ASSUME Live' PROVE HelloWaits'
    OBVIOUS
  <2>1. HelloWaits
    BY <1>1 DEF Live, HelloInv
  <2>2. /\ net' # <<>> /\ (net # <<>> => net'[1] = net[1])
        /\ (net = <<>> => net'[1] = l)
    <3>1. /\ net' # <<>> /\ net'[Len(net) + 1] = l
          /\ \A i \in 1..Len(net) : net'[i] = net[i]
      BY <1>1, AppendProperties
    <3>2. net # <<>> => 1 \in 1..Len(net)
      BY <1>1, HeadFirst
    <3>3. net = <<>> => Len(net) + 1 = 1
      BY EmptySeq
    <3> QED
      BY <3>1, <3>2, <3>3
  <2>3. net = <<>> => NoHello(net)
    BY EmptySeq DEF NoHello
  <2>4. /\ client = "hello" <=> l.verb = "HELLO"
        /\ client' # "hello" /\ ~Gone
    BY DEF PutStep, IsCommand, Commands, AfterCommand, Gone
  <2>5. client = "hello" => NoHello(net)
    BY <1>1, <2>1, <2>3 DEF HelloWaits
  <2>6. OneHello(net')
    BY <1>1, <2>1, <2>4, <2>5, HelloParts DEF HelloWaits
  <2>7. client # "hello" /\ NoHello(net) => NoHello(net')
    BY <1>1, <2>4, HelloParts
  <2>8. worker \notin {"banner", "handshake"} => client # "hello"
    BY <2>1 DEF HelloWaits
  <2> QED
    BY <1>1, <2>1, <2>2, <2>4, <2>6, <2>7, <2>8 DEF HelloWaits
<1> QED
  BY <1>1, <1>2, AsideHello

LEMMA HandlesHello ==
  ASSUME TypeOK, HandoffInv, ClearInv, HelloInv,
         Take \/ ReadContent \/ Banner \/ Handshake
  PROVE  HelloInv'
<1>0. /\ rbuf \in Seq(Lines) /\ events \in Seq(Lines) /\ net \in Seq(Lines)
      /\ listener \in {"plain", "tls"}
  BY DEF TypeOK
<1>1. CASE Take
  <2>1. /\ UNCHANGED <<reader, rline, rbuf, net, sock, client>>
        /\ worker = "select" /\ worker' \notin {"banner", "handshake"}
        /\ events # <<>> /\ events' = Tail(events)
    BY <1>1 DEF Take, Dispatch, streamVars, readerVars
  <2>2. NoHello(events')
    BY <1>0, <2>1, HelloParts DEF HelloInv
  <2>3. Live' => HelloWaits'
    BY <2>1 DEF HelloInv, HelloWaits, Live, OneHello, NoHello
  <2> QED
    BY <2>1, <2>2, <2>3 DEF HelloInv, NoHello
<1>2. CASE ReadContent
  <2>1. /\ UNCHANGED <<reader, rline, events, net, sock, client>>
        /\ worker = "content" /\ worker' \notin {"banner", "handshake"}
        /\ rbuf # <<>> /\ rbuf' = Tail(rbuf)
    BY <1>2 DEF ReadContent, streamVars, readerVars
  <2>2. reader # "done" => NoHello(rbuf')
    BY <1>0, <2>1, HelloParts DEF HelloInv
  <2>3. Live' => HelloWaits'
    BY <2>1 DEF HelloInv, HelloWaits, Live, OneHello, NoHello
  <2> QED
    BY <2>1, <2>2, <2>3 DEF HelloInv, NoHello
<1>3. CASE Banner
  <2>1. /\ UNCHANGED <<rline, events, rbuf, sock, client>>
        /\ worker = "banner" /\ worker' = "select" /\ sock = "open"
        /\ reader = "unborn" /\ reader' = "read"
    BY <1>3 DEF Banner, WriteOK, HandoffInv
  <2>2. HelloWaits /\ NoHello(events) /\ NoHello(rbuf)
    BY <2>1 DEF HelloInv, Live
  <2>3. NoHello(net') /\ client # "hello"
    <3>1. CASE listener = "plain"
      <4>1. net' = net
        BY <1>3, <3>1 DEF Banner
      <4> QED
        BY <2>1, <2>2, <3>1, <4>1 DEF HelloWaits, NoHello
    <3>2. CASE listener = "tls"
      <4>1. net # <<>> /\ net' = Tail(net)
        BY <1>3, <3>2 DEF Banner
      <4>2. net[1].verb = "HELLO" /\ client # "hello" /\ OneHello(net)
        BY <2>1, <2>2, <3>2, <4>1 DEF HelloWaits
      <4> QED
        BY <1>0, <4>1, <4>2, HelloParts
    <3> QED
      BY <1>0, <3>1, <3>2
  <2>4. OneHello(net')
    BY <2>3 DEF NoHello, OneHello
  <2>5. HelloWaits'
    BY <2>1, <2>3, <2>4 DEF HelloWaits
  <2> QED
    BY <2>1, <2>2, <2>5 DEF HelloInv, NoHello
<1>4. CASE Handshake
  <2>1. /\ UNCHANGED <<reader, rline, events, sock, client>>
        /\ worker = "handshake" /\ worker' = "signal" /\ sock = "open"
        /\ net # <<>> /\ Head(net).verb = "HELLO" /\ net' = Tail(net)
        /\ rbuf' = <<>>
    BY <1>4 DEF Handshake, HelloArrived, readerVars
  <2>2. reader # "done" => HelloWaits
    BY <2>1 DEF HelloInv, Live
  <2>3. 1 \in 1..Len(net) /\ net[1].verb = "HELLO"
    BY <1>0, <2>1, HeadFirst
  <2>4. HelloWaits => client # "hello" /\ NoHello(net')
    BY <1>0, <2>1, <2>3, HelloParts DEF HelloWaits, NoHello
  <2>5. NoHello(net') => OneHello(net')
    BY DEF NoHello, OneHello
  <2>6. reader # "done" => HelloWaits'
    BY <2>1, <2>2, <2>4, <2>5 DEF HelloWaits
  <2>7. NoHello(rbuf')
    BY <2>1, EmptySeq DEF NoHello
  <2>8. NoHello(events')
    BY <2>1 DEF HelloInv, NoHello
  <2> QED
    BY <2>1, <2>6, <2>7, <2>8 DEF HelloInv, Live
<1> QED
  BY <1>1, <1>2, <1>3, <1>4

LEMMA HelloKept ==
  TypeOK /\ ~ParsesContent /\ strayed = "no" /\ HandoffInv /\ ClearInv /\ StreamInv
    /\ [Next]_vars => HelloInv'
<1> SUFFICES ASSUME TypeOK, ~ParsesContent, strayed = "no", HandoffInv, ClearInv,
                    StreamInv, [Next]_vars
             PROVE  HelloInv'
  OBVIOUS
<1>0. HelloInv
  BY DEF StreamInv
<1>1. CASE ClientGone
  <2>1. /\ UNCHANGED <<events, reader, rline, rbuf, net, sock, worker, listener>>
        /\ Gone'
    BY <1>1 DEF ClientGone, readerVars, workerVars, Gone
  <2>2. Live' => HelloWaits'
    BY <1>0, <2>1 DEF HelloInv, HelloWaits, Live, OneHello, NoHello, Gone
  <2> QED
    BY <1>0, <2>1, <2>2, AsideHello
<1>2. CASE WatchdogCloses \/ Shutdown \/ UNCHANGED vars
  <2>1. /\ UNCHANGED <<events, reader, rline, rbuf, net, worker, listener, client>>
        /\ sock' = "open" => sock = "open"
    BY <1>2 DEF WatchdogCloses, Shutdown, vars, streamVars, readerVars, workerVars
  <2>2. Live' => HelloWaits'
    BY <1>0, <2>1 DEF HelloInv, HelloWaits, Live, OneHello, NoHello, Gone
  <2> QED
    BY <1>0, <2>1, <2>2, AsideHello
<1>3. CASE Puts
  BY <1>0, <1>3, PutsStep, PutHello
<1> QED
  BY <1>0, <1>1, <1>2, <1>3, ReadsHello, WorksHello, MovesHello, HandlesHello,
     NextSteps DEF Flows

-----------------------------------------------------------------------------
(* STARTTLS.                                                               *)

LEMMA DroppedStart ==
  ASSUME TypeOK, TypeOK', PipeInv, NumbersInv, NEW k \in Nat, Dropped(k)
  PROVE  /\ NoStart(Pipe) => NoStart(Pipe')
         /\ OneStart(Pipe) => OneStart(Pipe')
         /\ OneStart(Pipe) /\ k = 1 /\ Pipe # <<>> /\ Pipe[1].verb = "STARTTLS"
              => NoStart(Pipe')
<1>1. \A i \in 1..Len(Pipe') : i + k \in 1..Len(Pipe) /\ Pipe'[i] = Pipe[i + k]
  BY DroppedOrder
<1>2. NoStart(Pipe) => NoStart(Pipe')
  BY <1>1 DEF NoStart
<1>3. ASSUME OneStart(Pipe), NEW i \in 1..Len(Pipe'), NEW j \in 1..Len(Pipe'),
             Pipe'[i].verb = "STARTTLS", Pipe'[j].verb = "STARTTLS"
      PROVE  i = j
  <2>1. i + k = j + k
    BY <1>1, <1>3 DEF OneStart
  <2> QED
    BY <2>1
<1>4. ASSUME OneStart(Pipe), k = 1, Pipe # <<>>, Pipe[1].verb = "STARTTLS",
             NEW i \in 1..Len(Pipe')
      PROVE  Pipe'[i].verb # "STARTTLS"
  <2>1. 1 \in 1..Len(Pipe)
    BY <1>4, PipeTypes, HeadFirst DEF PipeTyped
  <2>2. i + 1 # 1 /\ i + 1 \in 1..Len(Pipe) /\ Pipe'[i] = Pipe[i + 1]
    BY <1>1, <1>4
  <2> QED
    BY <1>4, <2>1, <2>2 DEF OneStart
<1> QED
  BY <1>2, <1>3, <1>4 DEF NoStart, OneStart

LEMMA AppendStart ==
  ASSUME NEW p \in Seq(Lines), NEW l \in Lines
  PROVE  /\ l.verb # "STARTTLS" /\ NoStart(p) => NoStart(Append(p, l))
         /\ OneStart(p) /\ (l.verb = "STARTTLS" => NoStart(p))
              => OneStart(Append(p, l))
<1> DEFINE q == Append(p, l)
<1>0. /\ Len(p) \in Nat /\ Len(q) = Len(p) + 1 /\ q[Len(p) + 1] = l
      /\ \A i \in 1..Len(p) : q[i] = p[i]
  BY LenProperties, AppendProperties
<1> HIDE DEF q
<1>1. \A i \in 1..Len(q) : i \in 1..Len(p) \/ i = Len(p) + 1
  BY <1>0
<1>2. l.verb # "STARTTLS" /\ NoStart(p) => NoStart(q)
  BY <1>0, <1>1 DEF NoStart
<1>3. ASSUME OneStart(p), l.verb = "STARTTLS" => NoStart(p),
             NEW i \in 1..Len(q), NEW j \in 1..Len(q),
             q[i].verb = "STARTTLS", q[j].verb = "STARTTLS"
      PROVE  i = j
  <2>1. CASE i \in 1..Len(p) /\ j \in 1..Len(p)
    BY <1>0, <1>3, <2>1 DEF OneStart
  <2>2. CASE i = Len(p) + 1
    <3>1. ~(j \in 1..Len(p))
      BY <1>0, <1>3, <2>2 DEF NoStart
    <3> QED
      BY <1>1, <2>2, <3>1
  <2>3. CASE j = Len(p) + 1
    <3>1. ~(i \in 1..Len(p))
      BY <1>0, <1>3, <2>3 DEF NoStart
    <3> QED
      BY <1>1, <2>3, <3>1
  <2> QED
    BY <1>1, <2>1, <2>2, <2>3
<1>4. OneStart(p) /\ (l.verb = "STARTTLS" => NoStart(p)) => OneStart(q)
  BY <1>3 DEF OneStart
<1> QED
  BY <1>2, <1>4 DEF q

LEMMA LostStart ==
  ASSUME TypeOK, TypeOK', NEW m \in 1..Len(Pipe), Lost(m)
  PROVE  /\ NoStart(Pipe) => NoStart(Pipe')
         /\ OneStart(Pipe) => OneStart(Pipe')
<1>0. Len(Pipe) \in Nat /\ Len(Pipe') \in Nat /\ Len(Pipe') = Len(Pipe) - 1
      /\ m \in Nat
  BY PipeTypes, PipeTypesNext, LenProperties DEF PipeTyped, Lost
<1> DEFINE f(i) == IF i < m THEN i ELSE i + 1
<1>1. \A i \in 1..Len(Pipe') : f(i) \in 1..Len(Pipe) /\ Pipe'[i] = Pipe[f(i)]
  BY <1>0 DEF Lost
<1>2. \A i, j \in 1..Len(Pipe') : f(i) = f(j) => i = j
  BY <1>0
<1> HIDE DEF f
<1>3. NoStart(Pipe) => NoStart(Pipe')
  BY <1>1 DEF NoStart
<1>4. ASSUME OneStart(Pipe), NEW i \in 1..Len(Pipe'), NEW j \in 1..Len(Pipe'),
             Pipe'[i].verb = "STARTTLS", Pipe'[j].verb = "STARTTLS"
      PROVE  i = j
  BY <1>1, <1>2, <1>4 DEF OneStart
<1> QED
  BY <1>3, <1>4 DEF OneStart

(* Only the taking of a STARTTLS starts one.                               *)
LEMMA WorksStart ==
  ASSUME RoleInv, Works
  PROVE  /\ Starting' => Starting
         /\ sock' = "open" => worker # "handshake"
         /\ (sock' = "open" => sock = "open")
<1>1. CASE BannerFails \/ EventsClosed \/ SeesCancel \/ Farewell
  BY <1>1 DEF BannerFails, EventsClosed, SeesCancel, Farewell, Return, Starting
<1>2. CASE Interim \/ InterimFails
  BY <1>2 DEF Interim, InterimFails, Starting
<1>3. CASE ReadContentFails \/ HandshakeFails
  BY <1>3 DEF ReadContentFails, HandshakeFails, Starting, RoleInv, streamVars, Bdats
<1>4. CASE CallbackReturns \/ CallbackPanics
  BY <1>4 DEF CallbackReturns, CallbackPanics, Return, Starting, RoleInv
<1>5. CASE Signal \/ WriteReply \/ WriteReplyFails \/ GreetingFails
  BY <1>5 DEF Signal, WriteReply, WriteReplyFails, GreetingFails, Return, Starting
<1> QED
  BY <1>1, <1>2, <1>3, <1>4, <1>5 DEF Works

(* The replies of StartInv.                                                *)
OneAnswer(s) ==
  \A i, j \in 1..Len(s) : s[i].to = "STARTTLS" /\ s[j].to = "STARTTLS" => i = j

LEMMA StartUnfold ==
  ASSUME StartInv, Active
  PROVE  /\ client # "await220" => NoStart(Pipe) /\ ~Starting /\ NoAnswer(out)
         /\ Starting => NoStart(Pipe) /\ NoAnswer(out)
         /\ NoStart(Pipe) \/ NoAnswer(out)
         /\ OneStart(Pipe) /\ OneAnswer(out)
         /\ worker # "handshake" \/ ~NoHello(net) =>
              \A i \in 1..Len(out) : out[i].to = "STARTTLS" => ~out[i].go
BY DEF StartInv, OneAnswer

LEMMA ReadsStart ==
  ASSUME TypeOK, TypeOK', ~ParsesContent, strayed = "no", StreamInv, ClientReads
  PROVE  StartInv'
<1> SUFFICES ASSUME Active' PROVE StartInv'
  BY DEF StartInv
<1>1. Active /\ Pipe' = Pipe
  BY FlowsCut DEF Flows, Cut
<1>2. /\ out # <<>> /\ out' = Tail(out)
      /\ UNCHANGED <<worker, wline, answer, net>>
  BY DEF ClientReads, workerVars
<1>3. /\ 1 \in 1..Len(out) /\ Head(out) = out[1] /\ Len(out) \in Nat
      /\ \A i \in 1..Len(out') : i + 1 \in 1..Len(out) /\ out'[i] = out[i + 1]
  BY <1>2, TailReply
<1>4. StartInv
  BY DEF StreamInv
<1>5. NoAnswer(out) => NoAnswer(out')
  BY <1>3 DEF NoAnswer
<1>6. ASSUME out[1].to = "STARTTLS"
      PROVE  NoAnswer(out') /\ ~NoAnswer(out)
  <2>1. OneAnswer(out)
    BY <1>1, <1>4, StartUnfold
  <2>2. ASSUME NEW i \in 1..Len(out') PROVE out'[i].to # "STARTTLS"
    <3>1. i + 1 \in 1..Len(out) /\ out'[i] = out[i + 1] /\ i + 1 # 1
      BY <1>3
    <3> QED
      BY <1>3, <1>6, <2>1, <3>1 DEF OneAnswer
  <2> QED
    BY <1>3, <1>6, <2>2 DEF NoAnswer
<1>7. client' = client \/ (client = "await354" /\ client' # "await220")
        \/ (client = "await220" /\ out[1].to = "STARTTLS")
  BY <1>3, ClientHears
<1>8. Starting' = Starting
  BY <1>2 DEF Starting
<1>9. client' # "await220" => NoStart(Pipe') /\ ~Starting' /\ NoAnswer(out')
  BY <1>1, <1>4, <1>5, <1>6, <1>7, <1>8, StartUnfold
<1>10. Starting' => NoStart(Pipe') /\ NoAnswer(out')
  BY <1>1, <1>4, <1>5, <1>8, StartUnfold
<1>11. /\ NoStart(Pipe') \/ NoAnswer(out')
       /\ OneStart(Pipe')
  BY <1>1, <1>4, <1>5, StartUnfold
<1>12. ASSUME NEW i \in 1..Len(out'), NEW j \in 1..Len(out'),
              out'[i].to = "STARTTLS", out'[j].to = "STARTTLS"
       PROVE  i = j
  <2>1. i + 1 = j + 1
    BY <1>1, <1>3, <1>4, <1>12, StartUnfold DEF OneAnswer
  <2> QED
    BY <2>1
<1>13. ASSUME NEW i \in 1..Len(out'), out'[i].to = "STARTTLS", out'[i].go
       PROVE  worker' = "handshake" /\ NoHello(net')
  BY <1>1, <1>2, <1>3, <1>4, <1>13 DEF StartInv, NoHello
<1> QED
  BY <1>9, <1>10, <1>11, <1>12, <1>13 DEF StartInv

(* Steps that write no reply: it is enough to look at what is left of the  *)
(* stream, at the worker, and at the ClientHello.                          *)
LEMMA SilentStart ==
  ASSUME StartInv, Active, out' = out, client' = client,
         NoStart(Pipe) => NoStart(Pipe'), OneStart(Pipe'),
         Starting' => Starting,
         worker = "handshake" /\ NoHello(net) =>
           worker' = "handshake" /\ NoHello(net')
  PROVE  StartInv'
<1>1. NoAnswer(out') = NoAnswer(out)
  BY DEF NoAnswer
<1>2. /\ client # "await220" => NoStart(Pipe') /\ ~Starting' /\ NoAnswer(out')
      /\ Starting' => NoStart(Pipe') /\ NoAnswer(out')
      /\ NoStart(Pipe') \/ NoAnswer(out')
  BY <1>1, StartUnfold
<1> QED
  BY <1>2 DEF StartInv

(* Steps that write a reply.                                               *)
LEMMA SpokenStart ==
  ASSUME TypeOK, StartInv, Active, NEW r \in Replies, out' = Append(out, r),
         client' = client, NoStart(Pipe) => NoStart(Pipe'), OneStart(Pipe'),
         ~Starting', worker # "handshake",
         r.to = "STARTTLS" => Starting /\ (r.go => worker' = "handshake" /\ NoHello(net'))
  PROVE  StartInv'
<1>1. /\ Len(out) \in Nat /\ out'[Len(out) + 1] = r
      /\ \A i \in 1..Len(out) : out'[i] = out[i]
      /\ \A i \in 1..Len(out') : i \in 1..Len(out) \/ i = Len(out) + 1
  BY AppendReply
<1>2. r.to # "STARTTLS" /\ NoAnswer(out) => NoAnswer(out')
  BY <1>1 DEF NoAnswer
<1>3. r.to = "STARTTLS" => NoStart(Pipe) /\ NoAnswer(out) /\ client = "await220"
  BY StartUnfold
<1>4. client' # "await220" => NoStart(Pipe') /\ ~Starting' /\ NoAnswer(out')
  BY <1>2, <1>3, StartUnfold
<1>5. /\ NoStart(Pipe') \/ NoAnswer(out')
  BY <1>2, <1>3, StartUnfold
<1>6. ASSUME NEW i \in 1..Len(out'), NEW j \in 1..Len(out'),
             out'[i].to = "STARTTLS", out'[j].to = "STARTTLS"
      PROVE  i = j
  <2>1. CASE r.to = "STARTTLS"
    <3>1. \A k \in 1..Len(out) : out[k].to # "STARTTLS"
      BY <1>3, <2>1 DEF NoAnswer
    <3> QED
      BY <1>1, <1>6, <3>1
  <2>2. CASE r.to # "STARTTLS"
    <3>1. i \in 1..Len(out) /\ j \in 1..Len(out)
      BY <1>1, <1>6, <2>2
    <3> QED
      BY <1>1, <1>6, <3>1, StartUnfold DEF OneAnswer
  <2> QED
    BY <2>1, <2>2
<1>7. ASSUME NEW i \in 1..Len(out'), out'[i].to = "STARTTLS", out'[i].go
      PROVE  worker' = "handshake" /\ NoHello(net')
  <2>1. ~(i \in 1..Len(out))
    BY <1>1, <1>7, StartUnfold
  <2> QED
    BY <1>1, <1>7, <2>1
<1> QED
  BY <1>4, <1>5, <1>6, <1>7 DEF StartInv

LEMMA WorksStartKept ==
  ASSUME TypeOK, TypeOK', ~ParsesContent, StreamInv, Works PROVE StartInv'
<1> SUFFICES ASSUME Active' PROVE StartInv'
  BY DEF StartInv
<1>0. StartInv /\ RoleInv /\ HelloInv
  BY DEF StreamInv
<1>1. Active /\ Pipe' = Pipe
  BY FlowsCut DEF Flows, Cut
<1>2. /\ Starting' => Starting
      /\ worker # "handshake" /\ sock' = "open"
  BY <1>0, WorksStart DEF Active
<1>3. Speaks /\ client' = client /\ net' = net
  BY WorkersSpeak, WorksAside DEF Aside
<1>4. CASE out' = out
  BY <1>0, <1>1, <1>2, <1>3, <1>4, SilentStart, StartUnfold
<1>5. ASSUME NEW r \in Replies, out' = Append(out, r),
             \/ worker' = "select" /\ r.to \in {"CONNECT", wline.verb}
                  /\ (r.to = wline.verb /\ worker # "banner" => worker = "reply")
                  /\ (worker = "banner" => r.to = "CONNECT") /\ ~r.go
             \/ /\ worker = "interim" /\ r.to = wline.verb /\ r.go
                /\ worker' = IF wline.verb = "DATA" THEN "content" ELSE "handshake"
      PROVE  StartInv'
  <2>1. ~Starting'
    BY <1>5 DEF Starting
  <2>2. r.to = "STARTTLS" => Starting
    BY <1>5 DEF Starting
  <2>3. worker = "interim" => NoHello(net)
    BY <1>0, <1>1 DEF HelloInv, HelloWaits, Live, Active
  <2>4. r.to = "STARTTLS" /\ r.go => worker' = "handshake" /\ NoHello(net')
    BY <1>3, <1>5, <2>3 DEF NoHello
  <2> QED
    BY <1>0, <1>1, <1>2, <1>3, <1>5, <2>1, <2>2, <2>4, SpokenStart, StartUnfold
<1> QED
  BY <1>2, <1>3, <1>4, <1>5 DEF Speaks

LEMMA FillNoHello ==
  ASSUME TypeOK, Fill, NoHello(net) PROVE NoHello(net')
<1>1. PICK k \in 1..Len(net) : net' = SubSeq(net, k + 1, Len(net))
  BY DEF Fill
<1> QED
  BY <1>1, HelloParts DEF TypeOK

LEMMA MovesStart ==
  ASSUME TypeOK, TypeOK', ~ParsesContent, StreamInv,
         Moves \/ Shutdown \/ UNCHANGED vars
  PROVE  StartInv'
<1> SUFFICES ASSUME Active' PROVE StartInv'
  BY DEF StartInv
<1>0. StartInv
  BY DEF StreamInv
<1>1. Active /\ Pipe' = Pipe
  BY FlowsCut DEF Flows, Cut
<1>2. /\ UNCHANGED <<out, client, worker, wline, answer>>
      /\ net' = net \/ Fill
  BY DEF Moves, ReadCommand, ReadCommandFails, ReaderFills, WorkerFills, Fill,
     Enqueue, SendCancelled, Resume, PauseEnds, Shutdown, vars, streamVars, workerVars
<1>3. NoHello(net) => NoHello(net')
  BY <1>2, FillNoHello DEF NoHello
<1>4. Starting' = Starting
  BY <1>2 DEF Starting
<1> QED
  BY <1>0, <1>1, <1>2, <1>3, <1>4, SilentStart, StartUnfold

LEMMA PutStart ==
  ASSUME TypeOK, TypeOK', StreamInv, NEW l \in Lines, PutStep(l)
  PROVE  StartInv'
<1> SUFFICES ASSUME Active' PROVE StartInv'
  BY DEF StartInv
<1>0. StartInv /\ PipeTyped /\ net \in Seq(Lines)
  BY PipeTypes DEF StreamInv, TypeOK
<1>1. /\ UNCHANGED <<out, worker, wline, answer, reader>>
      /\ net' = Append(net, l)
  BY DEF PutStep, workerVars, readerVars
<1>2. Active /\ Pipe' = Append(Pipe, l)
  BY <1>1, PutStepGrows, PutFits DEF Active, StreamInv
<1>3. Starting' = Starting /\ NoAnswer(out') = NoAnswer(out)
  BY <1>1 DEF Starting, NoAnswer
<1>4. CASE l.verb = "STARTTLS"
  <2>1. client = "ready" /\ client' = "await220"
    BY <1>4 DEF PutStep, AfterCommand
  <2>2. NoStart(Pipe) /\ ~Starting /\ NoAnswer(out)
    BY <1>0, <1>2, <2>1, StartUnfold
  <2>3. OneStart(Pipe')
    BY <1>0, <1>2, <2>2, AppendStart, StartUnfold DEF PipeTyped
  <2>4. \A i \in 1..Len(out') : out'[i].to # "STARTTLS"
    BY <1>1, <2>2 DEF NoAnswer
  <2> QED
    BY <1>3, <2>1, <2>2, <2>3, <2>4 DEF StartInv
<1>5. CASE l.verb # "STARTTLS"
  <2>1. client' # "await220" => client # "await220"
    BY DEF PutStep
  <2>2. NoStart(Pipe) => NoStart(Pipe')
    BY <1>0, <1>2, <1>5, AppendStart DEF PipeTyped
  <2>3. OneStart(Pipe')
    BY <1>0, <1>2, <1>5, AppendStart, StartUnfold DEF PipeTyped
  <2>4. /\ client' # "await220" => NoStart(Pipe') /\ ~Starting' /\ NoAnswer(out')
        /\ Starting' => NoStart(Pipe') /\ NoAnswer(out')
        /\ NoStart(Pipe') \/ NoAnswer(out')
    BY <1>0, <1>2, <1>3, <2>1, <2>2, StartUnfold
  <2>5. ASSUME NEW i \in 1..Len(out'), NEW j \in 1..Len(out'),
               out'[i].to = "STARTTLS", out'[j].to = "STARTTLS"
        PROVE  i = j
    BY <1>0, <1>1, <1>2, <2>5, StartUnfold DEF OneAnswer
  <2>6. ASSUME NEW i \in 1..Len(out'), out'[i].to = "STARTTLS", out'[i].go
        PROVE  worker' = "handshake" /\ NoHello(net')
    <3>1. worker = "handshake" /\ NoHello(net)
      BY <1>0, <1>1, <1>2, <2>6 DEF StartInv
    <3>2. client = "await220"
      BY <1>0, <1>1, <1>2, <2>6, StartUnfold DEF NoAnswer
    <3>3. l.verb = "CMD"
      BY <3>2 DEF PutStep
    <3> QED
      BY <1>0, <1>1, <3>1, <3>3, HelloParts
  <2> QED
    BY <2>3, <2>4, <2>5, <2>6 DEF StartInv
<1> QED
  BY <1>4, <1>5

LEMMA TakeStart ==
  ASSUME TypeOK, TypeOK', StreamInv, Take PROVE StartInv'
<1> SUFFICES ASSUME Active' PROVE StartInv'
  BY DEF StartInv
<1>0. StartInv /\ PipeInv /\ NumbersInv /\ 1 \in Nat
  BY DEF StreamInv
<1>1. /\ UNCHANGED <<out, client, net, sock, reader>> /\ worker = "select"
  BY DEF Take, streamVars, readerVars
<1>2. Active
  BY <1>1 DEF Active, Gone
<1>3. wline' = Pipe[1] /\ Pipe # <<>> /\ Dropped(1) /\ 1 \in 1..Len(Pipe)
  BY TakesCommand, PipeTypes, HeadFirst DEF PipeTyped
<1>4. NoAnswer(out') = NoAnswer(out)
  BY <1>1 DEF NoAnswer
<1>5. (NoStart(Pipe) => NoStart(Pipe')) /\ OneStart(Pipe')
  BY <1>0, <1>2, <1>3, DroppedStart, StartUnfold
<1>6. Starting' => ~NoStart(Pipe) /\ NoStart(Pipe')
  <2> SUFFICES ASSUME Starting' PROVE ~NoStart(Pipe) /\ NoStart(Pipe')
    OBVIOUS
  <2>1. Pipe[1].verb = "STARTTLS"
    BY <1>3 DEF Starting
  <2> QED
    BY <1>0, <1>2, <1>3, <2>1, DroppedStart, StartUnfold DEF NoStart
<1>7. /\ client' # "await220" => NoStart(Pipe') /\ ~Starting' /\ NoAnswer(out')
      /\ Starting' => NoStart(Pipe') /\ NoAnswer(out')
      /\ NoStart(Pipe') \/ NoAnswer(out')
  BY <1>0, <1>1, <1>2, <1>4, <1>5, <1>6, StartUnfold
<1>8. ASSUME NEW i \in 1..Len(out'), NEW j \in 1..Len(out'),
             out'[i].to = "STARTTLS", out'[j].to = "STARTTLS"
      PROVE  i = j
  BY <1>0, <1>1, <1>2, <1>8, StartUnfold DEF OneAnswer
<1>9. ASSUME NEW i \in 1..Len(out'), out'[i].to = "STARTTLS" PROVE ~out'[i].go
  BY <1>0, <1>1, <1>2, <1>9, StartUnfold
<1> QED
  BY <1>5, <1>7, <1>8, <1>9 DEF StartInv

LEMMA DropsStart ==
  ASSUME TypeOK, TypeOK', HandoffInv, ClearInv, StreamInv,
         ReadContent \/ Banner \/ Handshake \/ (SendCancelled /\ rline.verb = "LONG")
  PROVE  StartInv'
<1> SUFFICES ASSUME Active' PROVE StartInv'
  BY DEF StartInv
<1>0. StartInv /\ PipeInv /\ NumbersInv /\ RoleInv /\ 1 \in Nat
  BY DEF StreamInv
<1>1. CASE ReadContent
  <2>1. /\ UNCHANGED <<out, client, net, sock, reader, wline>> /\ worker = "content"
    BY <1>1 DEF ReadContent, streamVars, readerVars
  <2>2. Active /\ reader # "done"
    BY <2>1 DEF Active, Gone
  <2>3. Dropped(1)
    BY <1>1, <2>2, ContentDrops
  <2>4. ~Starting'
    BY <1>0, <2>1 DEF Starting, RoleInv, Bdats
  <2> QED
    BY <1>0, <2>1, <2>2, <2>3, <2>4, DroppedStart, SilentStart, StartUnfold
<1>2. CASE Banner
  <2>1. /\ UNCHANGED <<client, wline>> /\ worker = "banner" /\ worker' = "select"
        /\ sock = "open" /\ reader # "done" /\ Speaks
    BY <1>2, BannerDrops, WorkersSpeak DEF Banner
  <2>2. Active
    BY <2>1 DEF Active, Gone
  <2>3. (NoStart(Pipe) => NoStart(Pipe')) /\ OneStart(Pipe')
    <3>1. Pipe' = Pipe \/ Dropped(1)
      BY <1>2, BannerDrops DEF TypeOK
    <3> QED
      BY <1>0, <2>2, <3>1, DroppedStart, StartUnfold
  <2>4. ~Starting'
    BY <2>1 DEF Starting
  <2>5. CASE out' = out
    BY <1>0, <2>1, <2>2, <2>3, <2>4, <2>5, SilentStart
  <2>6. ASSUME NEW r \in Replies, out' = Append(out, r), r.to = "CONNECT"
        PROVE  StartInv'
    BY <1>0, <2>1, <2>2, <2>3, <2>4, <2>6, SpokenStart
  <2> QED
    BY <2>1, <2>5, <2>6 DEF Speaks
<1>3. CASE Handshake
  <2>1. /\ UNCHANGED <<out, client, sock, reader, wline>> /\ worker = "handshake"
        /\ worker' = "signal" /\ ~answer'
        /\ net # <<>> /\ Head(net).verb = "HELLO" /\ net \in Seq(Lines)
    BY <1>3 DEF Handshake, HelloArrived, readerVars, TypeOK
  <2>2. Active /\ reader # "done"
    BY <2>1 DEF Active, Gone
  <2>3. Dropped(Len(rbuf) + 1) /\ Len(rbuf) + 1 \in Nat
    BY <1>3, <2>2, HandshakeDrops
  <2>4. ~Starting'
    BY <2>1 DEF Starting
  <2>5. ~NoHello(net)
    BY <2>1, HeadFirst DEF NoHello
  <2> QED
    BY <1>0, <2>1, <2>2, <2>3, <2>4, <2>5, DroppedStart, SilentStart, StartUnfold
<1>4. CASE SendCancelled /\ rline.verb = "LONG"
  <2>1. /\ UNCHANGED <<out, client, sock, wline, worker, answer, net>>
        /\ reader = "send"
    BY <1>4 DEF SendCancelled, streamVars, workerVars
  <2>2. Active
    BY <2>1 DEF Active, Gone
  <2>3. \E m \in 1..Len(Pipe) : Lost(m)
    BY <1>4, LongLost
  <2>4. Starting' = Starting /\ NoHello(net') = NoHello(net)
    BY <2>1 DEF Starting, NoHello
  <2> QED
    BY <1>0, <2>1, <2>2, <2>3, <2>4, LostStart, SilentStart, StartUnfold
<1> QED
  BY <1>1, <1>2, <1>3, <1>4

LEMMA StartKept ==
  TypeOK /\ TypeOK' /\ ~ParsesContent /\ strayed = "no" /\ HandoffInv /\ ClearInv
    /\ StreamInv /\ [Next]_vars => StartInv'
<1> SUFFICES ASSUME TypeOK, TypeOK', ~ParsesContent, strayed = "no", HandoffInv,
                    ClearInv, StreamInv, [Next]_vars
             PROVE  StartInv'
  OBVIOUS
<1>1. CASE ClientGone
  BY <1>1 DEF ClientGone, StartInv, Active, Gone
<1>2. CASE WatchdogCloses
  BY <1>2 DEF WatchdogCloses, StartInv, Active
<1>3. CASE Puts
  BY <1>3, PutsStep, PutStart
<1> QED
  BY <1>1, <1>2, <1>3, NextSteps, ReadsStart, WorksStartKept, MovesStart, TakeStart,
     DropsStart DEF Flows

-----------------------------------------------------------------------------
(* What the client is about to send.                                       *)

(* The last line sent tells what the client does next.                     *)
LastTalk ==
  /\ client = "content" =>
       IF Pipe = <<>> THEN worker = "content" ELSE Pipe[Len(Pipe)].verb \in Bdats
  /\ Pipe # <<>> =>
       /\ Pipe[Len(Pipe)].verb \in Bdats => client = "content"
       /\ Pipe[Len(Pipe)].verb = "DATA" =>
            client = "await354" /\ Pipe[Len(Pipe)].n = sent
  /\ worker = "content" /\ Pipe = <<>> =>
       \/ client = "content"
       \/ client = "await354" /\ wline.verb = "DATA" /\ wline.n = sent
  /\ worker = "interim" /\ wline.verb = "DATA" =>
       client = "await354" /\ wline.n = sent

(* A 354 that the client still waits for finds the worker reading.         *)
ReplyTalk ==
  \A i \in 1..Len(out) :
    /\ client = "await354" /\ out[i].to = "DATA" /\ out[i].n = sent
    /\ out[i].go
    => worker = "content" /\ Pipe = <<>>

LEMMA TalkUnfold ==
  /\ TalkInv /\ Active => LastTalk /\ ReplyTalk
  /\ LastTalk' /\ ReplyTalk' => TalkInv'
BY DEF TalkInv, LastTalk, ReplyTalk

(* Steps that leave the client and the end of the stream as they were.     *)
LEMMA TurnsTalk ==
  ASSUME TypeOK, strayed' = "no", PipeInv, TalkInv, Active, Pipe' = Pipe,
         client' = client, sock = "open", WorkerTurns,
         \/ out' = out
         \/ \E r \in Replies :
              /\ out' = Append(out, r)
              /\ r.go => /\ worker = "interim" /\ r.to = wline.verb
                         /\ wline.verb = "DATA" => worker' = "content"
  PROVE  TalkInv'
<1>1. LastTalk
  BY TalkUnfold
<1>2. worker = "content" => worker' = "content"
  BY DEF WorkerTurns, Active
<1>3. LastTalk'
  BY <1>1, <1>2 DEF LastTalk, WorkerTurns
<1>4. ASSUME NEW i \in 1..Len(out'), client' = "await354", out'[i].to = "DATA",
             out'[i].n = sent', out'[i].go
      PROVE  worker' = "content" /\ Pipe' = <<>>
  <2>1. ASSUME i \in 1..Len(out), out'[i] = out[i]
        PROVE  worker' = "content" /\ Pipe' = <<>>
    <3>1. worker = "content" /\ Pipe = <<>>
      BY <1>4, <2>1, TalkUnfold DEF ReplyTalk, WorkerTurns
    <3> QED
      BY <1>2, <3>1
  <2>2. CASE out' = out
    BY <2>1, <2>2
  <2>3. ASSUME NEW r \in Replies, out' = Append(out, r),
               r.go => /\ worker = "interim" /\ r.to = wline.verb
                       /\ wline.verb = "DATA" => worker' = "content"
        PROVE  worker' = "content" /\ Pipe' = <<>>
    <3>1. CASE i \in 1..Len(out)
      BY <2>1, <2>3, <3>1, AppendReply
    <3>2. CASE i = Len(out) + 1
      <4>1. out'[i] = r
        BY <2>3, <3>2, AppendReply
      <4>2. r.go /\ r.to = "DATA"
        BY <1>4, <4>1
      <4> QED
        BY <2>3, <4>2 DEF PipeInv
    <3> QED
      BY <2>3, <3>1, <3>2, AppendReply
  <2> QED
    BY <2>2, <2>3
<1>5. ReplyTalk'
  BY <1>4 DEF ReplyTalk
<1> QED
  BY <1>3, <1>5, TalkUnfold

LEMMA FlowsTalk ==
  ASSUME TypeOK, TypeOK', ~ParsesContent, strayed' = "no", StreamInv,
         Works \/ Moves \/ Shutdown \/ UNCHANGED vars
  PROVE  TalkInv'
<1> SUFFICES ASSUME Active' PROVE TalkInv'
  BY DEF TalkInv
<1>0. PipeInv /\ TalkInv
  BY DEF StreamInv
<1>1. Active /\ Pipe' = Pipe /\ WorkerTurns /\ sock = "open"
  BY FlowsCut, FlowsTurns DEF Flows, Cut, Active
<1>2. CASE Works
  <2>1. Speaks /\ client' = client /\ sock' = "open"
    BY <1>2, WorkersSpeak DEF Active
  <2>2. ASSUME NEW r \in Replies, out' = Append(out, r),
               \/ ~r.go
               \/ /\ worker = "interim" /\ r.to = wline.verb /\ r.go
                  /\ worker' = IF wline.verb = "DATA" THEN "content" ELSE "handshake"
        PROVE  TalkInv'
    <3>1. r.go => /\ worker = "interim" /\ r.to = wline.verb
                  /\ wline.verb = "DATA" => worker' = "content"
      BY <2>2
    <3> QED
      BY <1>0, <1>1, <2>1, <2>2, <3>1, TurnsTalk
  <2>3. CASE out' = out
    BY <1>0, <1>1, <2>1, <2>3, TurnsTalk
  <2> QED
    BY <2>1, <2>2, <2>3 DEF Speaks
<1>3. CASE Moves \/ Shutdown \/ UNCHANGED vars
  <2>1. UNCHANGED <<out, client>>
    BY <1>3 DEF Moves, ReadCommand, ReadCommandFails, ReaderFills, WorkerFills, Fill,
       Enqueue, SendCancelled, Resume, PauseEnds, Shutdown, vars, streamVars
  <2> QED
    BY <1>0, <1>1, <2>1, TurnsTalk
<1> QED
  BY <1>2, <1>3

LEMMA ReadsTalk ==
  ASSUME TypeOK, TypeOK', ~ParsesContent, strayed = "no", StreamInv, ClientReads
  PROVE  TalkInv'
<1> SUFFICES ASSUME Active' PROVE TalkInv'
  BY DEF TalkInv
<1>0. PipeInv /\ TalkInv /\ NumbersInv /\ OutInv /\ PipeTyped
  BY PipeTypes DEF StreamInv
<1>1. Active /\ Pipe' = Pipe
  BY FlowsCut DEF Flows, Cut
<1>2. /\ out # <<>> /\ out' = Tail(out)
      /\ UNCHANGED <<worker, wline, sent>>
  BY DEF ClientReads, workerVars
<1>3. /\ 1 \in 1..Len(out) /\ Head(out) = out[1] /\ out[1] \in Replies
      /\ \A i \in 1..Len(out') : i + 1 \in 1..Len(out) /\ out'[i] = out[i + 1]
  BY <1>2, TailReply
<1>4. LastTalk
  BY <1>0, <1>1, TalkUnfold
<1>5. CASE client' = client
  <2>1. LastTalk'
    BY <1>1, <1>2, <1>4, <1>5 DEF LastTalk
  <2>2. ASSUME NEW i \in 1..Len(out'), client' = "await354", out'[i].to = "DATA",
               out'[i].n = sent', out'[i].go
        PROVE  worker' = "content" /\ Pipe' = <<>>
    <3>1. ReplyTalk /\ i + 1 \in 1..Len(out) /\ out'[i] = out[i + 1]
      BY <1>0, <1>1, <1>3, TalkUnfold
    <3> QED
      BY <1>1, <1>2, <1>5, <2>2, <3>1 DEF ReplyTalk
  <2>3. ReplyTalk'
    BY <2>2 DEF ReplyTalk
  <2> QED
    BY <2>1, <2>3, TalkUnfold
<1>6. ASSUME client = "await354", out[1].to = "DATA", out[1].n = sent,
             client' = IF out[1].go THEN "content" ELSE "ready"
      PROVE  TalkInv'
  <2>1. wline.n = sent
    <3>1. out[1].n <= wline.n /\ wline.n <= sent
      BY <1>0, <1>3 DEF OutInv, NumbersInv
    <3>2. wline.n \in Nat /\ sent \in Nat
      BY <1>0 DEF PipeTyped, Lines
    <3> QED
      BY <1>6, <3>1, <3>2
  <2>2. worker \in {"interim", "content"} => out[1].go
    BY <1>0, <1>3, <1>6, <2>1 DEF OutInv
  <2>3. out[1].go => worker = "content" /\ Pipe = <<>>
    BY <1>0, <1>1, <1>3, <1>6, TalkUnfold DEF ReplyTalk
  <2>4. Pipe # <<>> => Pipe[Len(Pipe)].verb \notin Bdats \cup {"DATA"}
    <3> SUFFICES ASSUME Pipe # <<>>, Pipe[Len(Pipe)].verb \in Bdats \cup {"DATA"}
                 PROVE  FALSE
      OBVIOUS
    <3>1. Pipe[Len(Pipe)].verb = "DATA" /\ Pipe[Len(Pipe)].n = sent
      BY <1>4, <1>6 DEF LastTalk
    <3>2. Len(Pipe) \in 1..Len(Pipe)
      BY <1>0, HeadFirst DEF PipeTyped
    <3>3. After(Pipe[Len(Pipe)], wline.n)
      BY <1>0, <3>2 DEF NumbersInv
    <3>4. wline.n < Pipe[Len(Pipe)].n
      BY <3>1, <3>3 DEF After, IsCommand, Commands
    <3> QED
      BY <1>0, <2>1, <3>1, <3>4 DEF PipeTyped
  <2>5. client' # "await354" /\ (client' = "content" <=> out[1].go)
    BY <1>6
  <2>6. LastTalk'
    BY <1>1, <1>2, <2>2, <2>3, <2>4, <2>5 DEF LastTalk
  <2> QED
    BY <2>5, <2>6, TalkUnfold DEF ReplyTalk
<1>7. ASSUME client = "await220", client' \in {"hello", "ready"}
      PROVE  TalkInv'
  <2>1. LastTalk'
    BY <1>1, <1>2, <1>4, <1>7 DEF LastTalk
  <2> QED
    BY <1>7, <2>1, TalkUnfold DEF ReplyTalk
<1>8. \/ client' = client
      \/ /\ client = "await354" /\ out[1].to = "DATA" /\ out[1].n = sent
         /\ client' = IF out[1].go THEN "content" ELSE "ready"
      \/ client = "await220" /\ client' \in {"hello", "ready"}
  BY <1>3, ClientHears
<1> QED
  BY <1>5, <1>6, <1>7, <1>8

LEMMA LastAppended ==
  ASSUME NEW p \in Seq(Lines), NEW l \in Lines
  PROVE  Append(p, l) # <<>> /\ Append(p, l)[Len(Append(p, l))] = l
<1>1. /\ Append(p, l) # <<>> /\ Len(Append(p, l)) = Len(p) + 1
      /\ Append(p, l)[Len(p) + 1] = l
  BY AppendProperties
<1> QED
  BY <1>1

LEMMA PutTalk ==
  ASSUME TypeOK, TypeOK', StreamInv, NEW l \in Lines, PutStep(l)
  PROVE  TalkInv'
<1> SUFFICES ASSUME Active' PROVE TalkInv'
  BY DEF TalkInv
<1>0. TalkInv /\ NumbersInv /\ OutInv /\ PipeTyped
  BY PipeTypes DEF StreamInv
<1>1. UNCHANGED <<out, worker, wline, reader>> /\ l.n = sent'
  BY DEF PutStep, workerVars, readerVars
<1>2. Active /\ Fits(l) /\ Pipe' = Append(Pipe, l)
  BY <1>1, PutStepGrows, PutFits DEF Active, StreamInv
<1>3. Pipe' # <<>> /\ Pipe'[Len(Pipe')] = l
  BY <1>0, <1>2, LastAppended DEF PipeTyped
<1>4. /\ client' = "content" <=> l.verb \in Bdats
      /\ client' = "await354" <=> l.verb = "DATA"
  BY DEF PutStep, AfterCommand, IsCommand, Commands, Bdats
<1>5. ~(worker' = "interim" /\ wline'.verb = "DATA")
  BY <1>1, <1>2 DEF Fits
<1>6. LastTalk'
  BY <1>1, <1>3, <1>4, <1>5 DEF LastTalk
<1>7. ASSUME NEW i \in 1..Len(out'), client' = "await354" PROVE out'[i].n # sent'
  <2>1. l.verb = "DATA" /\ sent' = sent + 1
    BY <1>4, <1>7 DEF PutStep, IsCommand, Commands
  <2>2. out[i].n <= wline.n /\ wline.n <= sent
    BY <1>0, <1>1 DEF OutInv, NumbersInv
  <2>3. wline.n \in Nat /\ sent \in Nat
    BY <1>0 DEF PipeTyped, Lines
  <2>4. out[i].n \in Nat
    <3>1. out[i] \in Replies
      BY <1>1, LenProperties, ElementOfSeq DEF TypeOK
    <3> QED
      BY <3>1 DEF Replies
  <2> QED
    BY <1>1, <2>1, <2>2, <2>3, <2>4
<1> QED
  BY <1>6, <1>7, TalkUnfold DEF ReplyTalk

(* Steps that take the first lines of the stream away.                     *)
LEMMA DropsTalk ==
  ASSUME TypeOK, TypeOK', StreamInv, Active, worker # "interim",
         NEW k \in Nat \ {0}, Dropped(k),
         UNCHANGED <<client, sent>>, Pipe # <<>>,
         out' = out \/ \E r \in Replies : out' = Append(out, r) /\ ~r.go,
         worker' = "content" /\ Pipe' = <<>> => Pipe[k].verb \in Bdats,
         worker' # "content" => Pipe[k].verb \notin Bdats,
         worker' = "interim" => wline' = Pipe[k]
  PROVE  TalkInv'
<1>0. TalkInv /\ PipeTyped /\ PipeInv /\ NumbersInv /\ k \in Nat
  BY PipeTypes DEF StreamInv
<1>1. LastTalk
  BY <1>0, TalkUnfold
<1>2. /\ Pipe' # <<>> => Pipe'[Len(Pipe')] = Pipe[Len(Pipe)]
      /\ Pipe' = <<>> => k = Len(Pipe)
  BY <1>0, DroppedOrder
<1>3. k \in 1..Len(Pipe)
  BY <1>0 DEF Dropped
<1>4. client = "content" =>
        IF Pipe' = <<>> THEN worker' = "content" ELSE Pipe'[Len(Pipe')].verb \in Bdats
  BY <1>1, <1>2 DEF LastTalk
<1>5. Pipe' # <<>> =>
        /\ Pipe'[Len(Pipe')].verb \in Bdats => client = "content"
        /\ Pipe'[Len(Pipe')].verb = "DATA" =>
             client = "await354" /\ Pipe'[Len(Pipe')].n = sent
  BY <1>1, <1>2 DEF LastTalk
<1>6. worker' = "content" /\ Pipe' = <<>> => client = "content"
  BY <1>1, <1>2 DEF LastTalk
<1>7. worker' = "interim" /\ wline'.verb = "DATA" =>
        client = "await354" /\ wline'.n = sent
  <2> SUFFICES ASSUME worker' = "interim", wline'.verb = "DATA"
               PROVE  client = "await354" /\ wline'.n = sent
    OBVIOUS
  <2>1. k = Len(Pipe)
    BY <1>0, <1>3 DEF PipeInv, Chained
  <2> QED
    BY <1>1, <2>1 DEF LastTalk
<1>8. LastTalk'
  BY <1>4, <1>5, <1>6, <1>7 DEF LastTalk
<1>9. ASSUME NEW i \in 1..Len(out'), client' = "await354", out'[i].to = "DATA",
             out'[i].n = sent', out'[i].go
      PROVE  FALSE
  <2>1. i \in 1..Len(out) /\ out'[i] = out[i]
    <3>1. ASSUME NEW r \in Replies, out' = Append(out, r), ~r.go
          PROVE  i \in 1..Len(out) /\ out'[i] = out[i]
      BY <1>9, <3>1, AppendReply
    <3> QED
      BY <3>1
  <2>2. ReplyTalk
    BY <1>0, TalkUnfold
  <2> QED
    BY <1>9, <2>1, <2>2 DEF ReplyTalk
<1>10. ReplyTalk'
  BY <1>9 DEF ReplyTalk
<1> QED
  BY <1>8, <1>10, TalkUnfold

LEMMA HandlesTalk ==
  ASSUME TypeOK, TypeOK', strayed' = "no", HandoffInv, ClearInv, StreamInv,
         Take \/ ReadContent \/ Banner \/ Handshake
  PROVE  TalkInv'
<1> SUFFICES ASSUME Active' PROVE TalkInv'
  BY DEF TalkInv
<1>0. /\ TalkInv /\ PipeInv /\ HelloInv /\ PipeTyped
      /\ 1 \in Nat \ {0}
  BY PipeTypes DEF StreamInv
<1>1. CASE Take
  <2>1. /\ UNCHANGED <<client, sent, out, sock, reader>> /\ worker = "select"
        /\ worker' \in Dispatch(wline'.verb)
    BY <1>1 DEF Take, streamVars, readerVars
  <2>2. Active
    BY <2>1 DEF Active, Gone
  <2>3. wline' = Pipe[1] /\ Pipe # <<>> /\ Dropped(1)
    BY <1>1, TakesCommand
  <2>4. /\ worker' = "content" => Pipe[1].verb \in Bdats
        /\ worker' # "content" => Pipe[1].verb \notin Bdats
    BY <1>1, <2>3, TakeReads DEF Bdats
  <2> QED
    BY <1>0, <2>1, <2>2, <2>3, <2>4, DropsTalk
<1>2. CASE ReadContent
  <2>1. /\ UNCHANGED <<client, sent, out, sock, reader>> /\ worker = "content"
        /\ worker' \in {"callback", "signal"} \/ Head(rbuf).verb # "BODY"
    BY <1>2 DEF ReadContent, streamVars, readerVars
  <2>2. Active /\ reader # "done"
    BY <2>1 DEF Active, Gone
  <2>3. Pipe[1] = Head(rbuf) /\ Pipe # <<>> /\ Dropped(1)
    BY <1>2, <2>2, ContentDrops
  <2>4. Pipe[1].verb = "BODY" /\ worker' \in {"callback", "signal"}
    BY <1>0, <2>1, <2>3 DEF PipeInv
  <2>5. Pipe[1].verb \notin Bdats /\ worker' # "content" /\ worker' # "interim"
    BY <2>4 DEF Bdats
  <2> QED
    BY <1>0, <2>1, <2>2, <2>3, <2>5, DropsTalk
<1>3. CASE Banner
  <2>1. /\ UNCHANGED <<client, wline, sent>> /\ worker = "banner"
        /\ worker' = "select" /\ sock = "open" /\ reader # "done" /\ Speaks
        /\ Pipe = net
    BY <1>3, BannerDrops, WorkersSpeak DEF Banner
  <2>2. Active
    BY <2>1 DEF Active, Gone
  <2>3. out' = out \/ \E r \in Replies : out' = Append(out, r) /\ ~r.go
    BY <2>1 DEF Speaks
  <2>4. CASE listener = "plain"
    <3>1. WorkerTurns
      BY <2>1 DEF WorkerTurns
    <3>2. Pipe' = Pipe
      BY <1>3, <2>4, BannerDrops
    <3> QED
      BY <1>0, <2>1, <2>2, <2>3, <3>1, <3>2, TurnsTalk
  <2>5. CASE listener = "tls"
    <3>1. Pipe # <<>> /\ Dropped(1)
      BY <1>3, <2>5, BannerDrops
    <3>2. Pipe[1].verb = "HELLO"
      BY <1>0, <2>1, <2>5, <3>1 DEF HelloInv, HelloWaits, Live
    <3> QED
      BY <1>0, <2>1, <2>2, <2>3, <3>1, <3>2, DropsTalk DEF Bdats
  <2> QED
    BY <2>4, <2>5 DEF TypeOK
<1>4. CASE Handshake
  <2>1. /\ UNCHANGED <<client, sent, out, sock, reader>> /\ worker = "handshake"
        /\ worker' = "signal"
    BY <1>4 DEF Handshake, readerVars
  <2>2. Active /\ reader # "done"
    BY <2>1 DEF Active, Gone
  <2> DEFINE k == Len(rbuf) + 1
  <2>3. /\ Dropped(k) /\ Len(rbuf) \in Nat /\ Pipe[k].verb = "HELLO"
    BY <1>4, <2>2, HandshakeDrops
  <2>4. k \in Nat \ {0} /\ Pipe # <<>>
    <3>1. k \in 0..Len(Pipe)
      BY <2>3 DEF Dropped
    <3> QED
      BY <2>3, <3>1, EmptySeq
  <2> HIDE DEF k
  <2> QED
    BY <1>0, <2>1, <2>2, <2>3, <2>4, DropsTalk DEF Bdats
<1> QED
  BY <1>1, <1>2, <1>3, <1>4

LEMMA LostTalk ==
  ASSUME TypeOK, TypeOK', HandoffInv, StreamInv, SendCancelled, rline.verb = "LONG"
  PROVE  TalkInv'
<1> SUFFICES ASSUME Active' PROVE TalkInv'
  BY DEF TalkInv
<1>0. TalkInv /\ PipeInv /\ PipeTyped /\ PipeTyped'
  BY PipeTypes, PipeTypesNext DEF StreamInv
<1>1. /\ UNCHANGED <<client, sent, out, sock, worker, wline>> /\ reader = "send"
  BY DEF SendCancelled, streamVars, workerVars
<1>2. Active
  BY <1>1 DEF Active, Gone
<1>3. worker \notin {"content", "interim"}
  BY <1>1 DEF HandoffInv, Busy, Quiet
<1>4. PICK m \in 1..Len(Pipe) : Lost(m) /\ Pipe[m].verb = "LONG"
  BY LongLost
<1>5. /\ Len(Pipe) \in Nat /\ Len(Pipe') = Len(Pipe) - 1 /\ Pipe # <<>>
      /\ Pipe' # <<>> => Len(Pipe') # 0
  <2>1. Len(Pipe) \in Nat /\ Len(Pipe') = Len(Pipe) - 1
    BY <1>0, <1>4, LenProperties DEF Lost, PipeTyped
  <2>2. Pipe # <<>>
    BY <1>4, EmptySeq
  <2>3. Pipe' # <<>> => Len(Pipe') # 0
    BY <1>0, EmptySeq DEF PipeTyped
  <2> QED
    BY <2>1, <2>2, <2>3
<1>6. LastTalk /\ ReplyTalk
  BY <1>0, <1>2, TalkUnfold
<1>7. m < Len(Pipe) => Pipe' # <<>> /\ Pipe'[Len(Pipe')] = Pipe[Len(Pipe)]
  <2> SUFFICES ASSUME m < Len(Pipe)
               PROVE  Pipe' # <<>> /\ Pipe'[Len(Pipe')] = Pipe[Len(Pipe)]
    OBVIOUS
  <2>1. Len(Pipe') \in 1..Len(Pipe') /\ ~(Len(Pipe') < m) /\ Len(Pipe') + 1 = Len(Pipe)
    BY <1>5
  <2>2. Pipe'[Len(Pipe')] = Pipe[Len(Pipe)]
    BY <1>4, <2>1 DEF Lost
  <2> QED
    BY <2>1, <2>2, EmptySeq
<1>8. m = Len(Pipe) =>
        /\ Pipe[Len(Pipe)].verb = "LONG"
        /\ Pipe' # <<>> => Pipe'[Len(Pipe')].verb \notin Bdats \cup {"DATA"}
  <2> SUFFICES ASSUME m = Len(Pipe), Pipe' # <<>>
               PROVE  Pipe'[Len(Pipe')].verb \notin Bdats \cup {"DATA"}
    BY <1>4
  <2>1. /\ Len(Pipe') \in 1..Len(Pipe') /\ Len(Pipe') < m
        /\ Len(Pipe') = m - 1 /\ m > 1 /\ Len(Pipe') \in 1..Len(Pipe)
        /\ Len(Pipe') # Len(Pipe)
    BY <1>5
  <2>2. Pipe'[Len(Pipe')] = Pipe[m - 1]
    BY <1>4, <2>1 DEF Lost
  <2>3. Pipe[m - 1].verb \notin Bdats
    BY <1>0, <1>4, <2>1 DEF PipeInv, Chained
  <2>4. Pipe[m - 1].verb # "DATA"
    BY <1>0, <2>1 DEF PipeInv, Chained
  <2> QED
    BY <2>2, <2>3, <2>4
<1>9. m < Len(Pipe) \/ m = Len(Pipe)
  BY <1>5
<1>10. LastTalk'
  BY <1>1, <1>3, <1>5, <1>6, <1>7, <1>8, <1>9 DEF LastTalk, Bdats
<1>11. ReplyTalk'
  BY <1>1, <1>5, <1>6 DEF ReplyTalk
<1> QED
  BY <1>10, <1>11, TalkUnfold

LEMMA TalkKept ==
  TypeOK /\ TypeOK' /\ ~ParsesContent /\ strayed = "no" /\ strayed' = "no"
    /\ HandoffInv /\ ClearInv /\ StreamInv /\ [Next]_vars => TalkInv'
<1> SUFFICES ASSUME TypeOK, TypeOK', ~ParsesContent, strayed = "no", strayed' = "no",
                    HandoffInv, ClearInv, StreamInv, [Next]_vars
             PROVE  TalkInv'
  OBVIOUS
<1>1. CASE ClientGone
  BY <1>1 DEF ClientGone, TalkInv, Active, Gone
<1>2. CASE WatchdogCloses
  BY <1>2 DEF WatchdogCloses, TalkInv, Active
<1>3. CASE Puts
  BY <1>3, PutsStep, PutTalk
<1> QED
  BY <1>1, <1>2, <1>3, NextSteps, FlowsTalk, ReadsTalk, HandlesTalk, LostTalk DEF Flows

-----------------------------------------------------------------------------
(* The invariant as a whole.                                               *)

(* The line that the reader is about to parse is a command.                *)
LEMMA ReadsCommands ==
  ASSUME TypeOK, HandoffInv, StreamInv
  PROVE  ~ParsesContent
<1> SUFFICES ASSUME reader = "read", rbuf # <<>>
             PROVE  Head(rbuf).verb \in Commands
  BY DEF ParsesContent
<1>0. PipeTyped /\ PipeInv /\ HelloInv /\ ~Quiet
  BY PipeTypes DEF StreamInv, Quiet
<1> DEFINE line == rbuf[1]
           k == Len(events)
<1>1. 1 \in 1..Len(rbuf) /\ Head(rbuf) = line /\ line \in Lines
  BY <1>0, HeadFirst, LineOfSeq DEF PipeTyped
<1>2. line.verb # "HELLO" /\ line.verb \in Verbs
  <2>1. NoHello(rbuf)
    BY <1>0 DEF HelloInv
  <2> QED
    BY <1>1, <2>1 DEF NoHello, Lines
<1>3. Len(Ahead) \in Nat /\ Len(Ahead) > 0 /\ Ahead[1] = line
  <2>1. Held = <<>>
    BY DEF Held
  <2>2. Ahead = rbuf \o Arriving
    BY <1>0, <2>1, ConcatEmptySeq DEF Ahead, PipeTyped
  <2>3. Ahead # <<>> /\ Ahead[1] = line
    BY <1>0, <2>2, TailBehind DEF PipeTyped
  <2>4. Len(Ahead) \in Nat /\ 1 \in 1..Len(Ahead)
    BY <1>0, <2>3, HeadFirst DEF PipeTyped
  <2> QED
    BY <2>3, <2>4
<1>4. /\ k \in Nat /\ Len(Pipe) = k + Len(Ahead)
      /\ \A i \in 1..k : Pipe[i] = events[i]
      /\ Pipe[k + 1] = line
  <2>1. /\ k \in Nat /\ Len(Pipe) = k + Len(Ahead)
        /\ \A i \in 1..k + Len(Ahead) :
             Pipe[i] = IF i <= k THEN events[i] ELSE Ahead[i - k]
    BY <1>0, LenProperties, ConcatProperties DEF PipeTyped, Pipe
  <2> HIDE DEF k, line
  <2> QED
    BY <1>3, <2>1
<1> HIDE DEF k, line
<1>5. k + 1 \in 1..Len(Pipe)
  BY <1>3, <1>4
<1>6. CASE k = 0
  <2>1. Pipe # <<>> /\ Pipe[1] = line
    BY <1>4, <1>5, <1>6, EmptySeq
  <2>2. worker # "content"
    BY <1>0 DEF HandoffInv, Busy
  <2> QED
    BY <1>0, <1>1, <1>2, <2>1, <2>2 DEF PipeInv, Verbs
<1>7. CASE k > 0
  <2>1. k \in 1..k /\ k + 1 > 1 /\ k + 1 - 1 = k
    BY <1>4, <1>7
  <2>2. events[k].verb \notin Bdats
    BY <1>0, <2>1 DEF HandoffInv, Takeover, Bdats, k
  <2>3. Pipe[k].verb \notin Bdats
    BY <1>4, <2>1, <2>2
  <2>4. line.verb # "BODY"
    BY <1>0, <1>4, <1>5, <2>1, <2>3 DEF PipeInv, Chained
  <2> QED
    BY <1>1, <1>2, <2>4 DEF Verbs
<1> QED
  BY <1>4, <1>6, <1>7

LEMMA StreamKept ==
  TypeOK /\ TypeOK' /\ strayed = "no" /\ strayed' = "no" /\ HandoffInv /\ ClearInv
    /\ StreamInv /\ [Next]_vars => StreamInv'
BY ReadsCommands, PipeKept, OutKept, RoleKept, HelloKept, StartKept, TalkKept
   DEF StreamInv

(* What has strayed stays astray.                                          *)
LEMMA StrayedStays == [Next]_vars /\ strayed' = "no" => strayed = "no"
BY DEF Next, Client, ClientCommand, ClientContent, ClientHello, ClientReads, ClientGone,
   Reader, ReadCommand, ReadCommandFails, ReaderFills, Fill, Enqueue, SendCancelled,
   Resume, PauseEnds, Worker, Banner, BannerFails, Take, EventsClosed, SeesCancel,
   Farewell, Interim, InterimFails, WorkerFills, ReadContent, ReadContentFails, Stray,
   CallbackReturns, CallbackPanics, Handshake, HandshakeFails, Signal, WriteReply,
   WriteReplyFails, GreetingFails, Return, WatchdogCloses, Shutdown, vars

LEMMA InitStream == Init => StreamInv
<1> SUFFICES ASSUME Init PROVE StreamInv
  OBVIOUS
<1>1. /\ events = <<>> /\ rbuf = <<>> /\ net = <<>> /\ out = <<>>
      /\ sent = 0 /\ wline = NoLine /\ worker = "banner" /\ reader = "unborn"
      /\ client = IF listener = "tls" THEN "hello" ELSE "ready"
  BY DEF Init
<1>2. Held = <<>> /\ Arriving = <<>>
  BY <1>1 DEF Held, Arriving
<1>3. <<>> \in Seq(Lines) /\ Len(<<>>) = 0
  BY EmptySeq
<1>4. Pipe = <<>>
  BY <1>1, <1>2, <1>3, ConcatEmptySeq DEF Pipe, Ahead
<1>5. \A i \in 1..Len(<<>>) : FALSE
  BY <1>3
<1>6. PipeInv
  BY <1>1, <1>4, <1>5 DEF PipeInv, Chained
<1>7. NumbersInv
  BY <1>1, <1>4, <1>5 DEF NumbersInv, Ascending, NoLine
<1>8. OutInv /\ RoleInv
  BY <1>1, <1>5 DEF OutInv, RoleInv
<1>9. HelloInv
  BY <1>1, <1>5 DEF HelloInv, HelloWaits, NoHello, OneHello
<1>10. StartInv
  BY <1>1, <1>4, <1>5 DEF StartInv, NoStart, OneStart, NoAnswer, Starting
<1>11. TalkInv
  BY <1>1, <1>4, <1>5 DEF TalkInv
<1> QED
  BY <1>6, <1>7, <1>8, <1>9, <1>10, <1>11 DEF StreamInv

(* The stream is followed until something strays.                          *)
Followed == strayed = "no" => StreamInv

LEMMA StreamAlways == Spec => [](ClearInv /\ Followed)
<1>1. Init => ClearInv /\ Followed
  BY InitStream, EmptySeq
     DEF Init, ClearInv, TurnInv, BannerInv, SecureInv, Secret, Followed
<1>2. TypeOK /\ TypeOK' /\ HandoffInv /\ ClearInv /\ Followed /\ [Next]_vars
        => ClearInv' /\ Followed'
  BY NextClear, StreamKept, StrayedStays DEF Followed
<1> QED
  BY <1>1, <1>2, TypeCorrect, HandoffCorrect, PTL DEF Spec

(* Message content and TLS records never reach the command parser: for     *)
(* every depth of the channel, every window and any number of commands,    *)
(* the line that readCommands is about to parse is a command, unless a     *)
(* read of content failed before the content came or a BDAT was refused    *)
(* with its chunk unread.  No order of the steps of the two goroutines,    *)
(* the watchdog and the client makes a third way.                          *)
THEOREM ContentNeverCommandCorrect == Spec => []ContentNeverCommand
<1>1. TypeOK /\ HandoffInv /\ Followed => ContentNeverCommand
  BY ReadsCommands DEF ContentNeverCommand, Followed
<1> QED
  BY <1>1, StreamAlways, TypeCorrect, HandoffCorrect, PTL

-----------------------------------------------------------------------------
(* The count of the commands.                                              *)

(* How far the number of a line is from the number of the line before it.  *)
Up(line) == IF IsCommand(line) THEN 1 ELSE 0

Counted(p) == \A i \in 1..Len(p) : i > 1 => p[i].n = p[i - 1].n + Up(p[i])

(* The worker is, or was last, in a STARTTLS that found or made a TLS      *)
(* session: lines may have been discarded.                                 *)
Gap == wline.verb = "STARTTLS" /\ secure

(* No command is missing: neither in the stream, nor between the stream    *)
(* and the worker, nor between the stream and the client.                  *)
CountInv ==
  ~cancelled =>
    /\ Counted(Pipe)
    /\ Pipe # <<>> /\ ~Gap => Pipe[1].n = wline.n + Up(Pipe[1])
    /\ Active => IF Pipe = <<>> THEN wline.n = sent \/ Gap
                 ELSE Pipe[Len(Pipe)].n = sent

LEMMA CountedParts ==
  ASSUME NEW p \in Seq(Lines), NEW q \in Seq(Lines), NEW k \in Nat,
         Part(q, p, k), Counted(p)
  PROVE  /\ Counted(q)
         /\ q # <<>> => /\ k + 1 \in 1..Len(p) /\ q[1] = p[k + 1]
                        /\ p # <<>>
                        /\ k > 0 => q[1].n = p[k].n + Up(q[1])
<1>0. Len(p) \in Nat /\ Len(q) \in Nat
  BY LenProperties
<1>1. ASSUME NEW i \in 1..Len(q), i > 1
      PROVE  q[i].n = q[i - 1].n + Up(q[i])
  <2>1. /\ i - 1 \in 1..Len(q) /\ i + k > 1
        /\ (i - 1) + k = (i + k) - 1
    BY <1>0, <1>1
  <2>2. /\ i + k \in 1..Len(p) /\ q[i] = p[i + k]
        /\ q[i - 1] = p[(i - 1) + k]
    BY <2>1 DEF Part
  <2>3. p[i + k].n = p[(i + k) - 1].n + Up(p[i + k])
    BY <2>1, <2>2 DEF Counted
  <2> QED
    BY <2>1, <2>2, <2>3
<1>2. Counted(q)
  BY <1>1 DEF Counted
<1>3. ASSUME q # <<>>
      PROVE  /\ k + 1 \in 1..Len(p) /\ q[1] = p[k + 1] /\ p # <<>>
             /\ k > 0 => q[1].n = p[k].n + Up(q[1])
  <2>1. 1 \in 1..Len(q) /\ 1 + k = k + 1
    BY <1>3, HeadFirst
  <2>2. k + 1 \in 1..Len(p) /\ q[1] = p[k + 1]
    BY <2>1 DEF Part
  <2>3. p # <<>>
    BY <2>2, EmptySeq
  <2>4. k > 0 => k + 1 > 1 /\ (k + 1) - 1 = k
    OBVIOUS
  <2>5. k > 0 => p[k + 1].n = p[k].n + Up(p[k + 1])
    BY <2>2, <2>4 DEF Counted
  <2> QED
    BY <2>2, <2>3, <2>5
<1> QED
  BY <1>2, <1>3

(* A cancelled context stays cancelled.                                    *)
LEMMA CancelStays == [Next]_vars /\ ~cancelled' => ~cancelled
BY DEF Next, Client, ClientCommand, ClientContent, ClientHello, ClientReads, ClientGone,
   Reader, ReadCommand, ReadCommandFails, ReaderFills, Fill, Enqueue, SendCancelled,
   Resume, PauseEnds, Worker, Banner, BannerFails, Take, EventsClosed, SeesCancel,
   Farewell, Interim, InterimFails, WorkerFills, ReadContent, ReadContentFails,
   CallbackReturns, CallbackPanics, Handshake, HandshakeFails, Signal, WriteReply,
   WriteReplyFails, GreetingFails, Return, WatchdogCloses, Shutdown, vars

LEMMA FlowsCount ==
  ASSUME TypeOK, TypeOK', ~ParsesContent, CountInv, Flows, ~cancelled PROVE CountInv'
<1>0. PipeTyped /\ PipeTyped' /\ 0 \in Nat
  BY PipeTypes, PipeTypesNext
<1>1. Part(Pipe', Pipe, 0) /\ (Active' => Active /\ Pipe' = Pipe)
  BY FlowsCut DEF Cut
<1>2. UNCHANGED <<wline, sent>>
  BY FlowsTurns DEF WorkerTurns
<1>3. secure' = secure
  BY DEF Flows, ClientReads, ClientGone, Moves, ReadCommand, ReadCommandFails,
     ReaderFills, WorkerFills, Fill, Enqueue, SendCancelled, Resume, PauseEnds, Works,
     BannerFails, EventsClosed, SeesCancel, Farewell, Interim, InterimFails,
     ReadContentFails, CallbackReturns, CallbackPanics, HandshakeFails, Signal,
     WriteReply, WriteReplyFails, GreetingFails, WatchdogCloses, Shutdown, vars
<1>4. Gap' = Gap
  BY <1>2, <1>3 DEF Gap
<1>5. Counted(Pipe') /\ (Pipe' # <<>> => Pipe # <<>> /\ Pipe'[1] = Pipe[1])
  BY <1>0, <1>1, CountedParts DEF CountInv, PipeTyped
<1>6. Pipe' # <<>> /\ ~Gap' => Pipe'[1].n = wline'.n + Up(Pipe'[1])
  BY <1>2, <1>4, <1>5 DEF CountInv
<1>7. Active' => IF Pipe' = <<>> THEN wline'.n = sent' \/ Gap'
                 ELSE Pipe'[Len(Pipe')].n = sent'
  BY <1>1, <1>2, <1>4 DEF CountInv
<1> QED
  BY <1>5, <1>6, <1>7 DEF CountInv

LEMMA PutCount ==
  ASSUME TypeOK, TypeOK', StreamInv, CountInv, NEW l \in Lines, PutStep(l), ~cancelled
  PROVE  CountInv'
<1>0. PipeTyped /\ TalkInv
  BY PipeTypes DEF StreamInv
<1>1. /\ UNCHANGED <<wline, secure, reader>> /\ l.n = sent'
      /\ sent' = sent + Up(l)
  BY <1>0 DEF PutStep, workerVars, readerVars, Up, PipeTyped
<1>2. Gap' = Gap
  BY <1>1 DEF Gap
<1>3. CASE reader = "done"
  <2>1. Pipe' = Pipe /\ ~Active'
    BY <1>1, <1>3, PutStepGrows DEF Active
  <2> QED
    BY <1>1, <1>2, <2>1 DEF CountInv
<1>4. CASE reader # "done"
  <2>1. Active /\ Pipe' = Append(Pipe, l)
    BY <1>0, <1>4, PutStepGrows, PutFits
  <2>2. /\ Pipe' # <<>> /\ Pipe'[Len(Pipe')] = l
        /\ Len(Pipe) \in Nat /\ Len(Pipe') = Len(Pipe) + 1
        /\ \A i \in 1..Len(Pipe) : Pipe'[i] = Pipe[i]
    <3>1. Pipe \in Seq(Lines) /\ Len(Pipe) \in Nat
      BY <1>0, LenProperties DEF PipeTyped
    <3>2. /\ Append(Pipe, l) # <<>> /\ Append(Pipe, l)[Len(Append(Pipe, l))] = l
      BY <3>1, LastAppended
    <3>3. /\ Len(Append(Pipe, l)) = Len(Pipe) + 1
          /\ \A i \in 1..Len(Pipe) : Append(Pipe, l)[i] = Pipe[i]
      BY <3>1, AppendProperties
    <3> QED
      BY <2>1, <3>1, <3>2, <3>3
  <2>3. ASSUME NEW i \in 1..Len(Pipe'), i > 1
        PROVE  Pipe'[i].n = Pipe'[i - 1].n + Up(Pipe'[i])
    <3>1. i - 1 \in 1..Len(Pipe)
      BY <2>2, <2>3
    <3>2. CASE i \in 1..Len(Pipe)
      BY <2>2, <2>3, <3>1, <3>2 DEF CountInv, Counted
    <3>3. CASE i = Len(Pipe')
      <4>1. Pipe'[i] = l /\ i - 1 = Len(Pipe) /\ Pipe # <<>>
        BY <2>2, <3>1, <3>3, EmptySeq
      <4>2. Pipe[i - 1].n = sent
        BY <2>1, <4>1 DEF CountInv
      <4> QED
        BY <1>1, <2>2, <3>1, <4>1, <4>2
    <3> QED
      BY <2>2, <3>2, <3>3
  <2>4. ASSUME ~Gap' PROVE Pipe'[1].n = wline'.n + Up(Pipe'[1])
    <3>1. CASE Pipe = <<>>
      <4>1. Pipe'[1] = l
        BY <2>2, <3>1, EmptySeq
      <4>2. wline.n = sent
        BY <1>2, <2>1, <2>4, <3>1 DEF CountInv
      <4> QED
        BY <1>1, <4>1, <4>2
    <3>2. CASE Pipe # <<>>
      <4>1. Pipe'[1] = Pipe[1]
        BY <1>0, <2>2, <3>2, HeadFirst DEF PipeTyped
      <4> QED
        BY <1>1, <1>2, <2>4, <3>2, <4>1 DEF CountInv
    <3> QED
      BY <3>1, <3>2
  <2> QED
    BY <1>1, <2>2, <2>3, <2>4 DEF CountInv, Counted
<1> QED
  BY <1>3, <1>4

(* The worker takes a command, or reads a line that is none.               *)
LEMMA DropsCount ==
  ASSUME TypeOK, TypeOK', PipeInv, NumbersInv, CountInv, ~cancelled,
         NEW k \in Nat \ {0}, Dropped(k), Pipe # <<>>, Active' => Active, sent' = sent,
         \/ k = 1 /\ wline' = Pipe[1]
         \/ k = 1 /\ wline' = wline /\ ~Gap /\ Up(Pipe[1]) = 0
         \/ Gap'
  PROVE  CountInv'
<1>0. PipeTyped /\ PipeTyped' /\ k \in Nat /\ k > 0
  BY PipeTypes, PipeTypesNext
<1>1. /\ Counted(Pipe')
      /\ Pipe' # <<>> => Pipe'[1].n = Pipe[k].n + Up(Pipe'[1])
  <2>1. Part(Pipe', Pipe, k) /\ Counted(Pipe)
    BY DEF CountInv, Dropped
  <2>2. Pipe \in Seq(Lines) /\ Pipe' \in Seq(Lines)
    BY <1>0 DEF PipeTyped
  <2> QED
    BY <1>0, <2>1, <2>2, CountedParts
<1>2. /\ Pipe' # <<>> => Pipe'[Len(Pipe')] = Pipe[Len(Pipe)]
      /\ Pipe' = <<>> => k = Len(Pipe)
  BY <1>0, DroppedOrder
<1>3. Gap' \/ (k = 1 /\ Pipe[1].n = wline'.n)
  <2>1. CASE k = 1 /\ wline' = wline /\ ~Gap /\ Up(Pipe[1]) = 0
    <3>1. Pipe[1].n = wline.n + 0 /\ wline.n \in Nat
      BY <1>0, <2>1 DEF CountInv, PipeTyped, Lines
    <3> QED
      BY <2>1, <3>1
  <2> QED
    BY <2>1
<1>4. Pipe' # <<>> /\ ~Gap' => Pipe'[1].n = wline'.n + Up(Pipe'[1])
  BY <1>1, <1>3
<1>5. Active' => IF Pipe' = <<>> THEN wline'.n = sent' \/ Gap'
                 ELSE Pipe'[Len(Pipe')].n = sent'
  BY <1>2, <1>3 DEF CountInv
<1> QED
  BY <1>1, <1>4, <1>5 DEF CountInv

LEMMA HandlesCount ==
  ASSUME TypeOK, TypeOK', HandoffInv, ClearInv, StreamInv, CountInv, ~cancelled,
         Take \/ ReadContent \/ Banner \/ Handshake
  PROVE  CountInv'
<1>0. /\ PipeInv /\ NumbersInv /\ HelloInv /\ RoleInv /\ PipeTyped
      /\ 1 \in Nat \ {0}
  BY PipeTypes DEF StreamInv
<1>1. CASE Take
  <2>1. UNCHANGED <<client, sent, sock, reader>>
    BY <1>1 DEF Take, streamVars, readerVars
  <2>2. Active' => Active
    BY <2>1 DEF Active, Gone
  <2>3. wline' = Pipe[1] /\ Pipe # <<>> /\ Dropped(1)
    BY <1>1, TakesCommand
  <2> QED
    BY <1>0, <2>1, <2>2, <2>3, DropsCount
<1>2. CASE ReadContent
  <2>1. UNCHANGED <<client, sent, sock, reader, wline, secure>> /\ worker = "content"
    BY <1>2 DEF ReadContent, streamVars, readerVars
  <2>2. (Active' => Active) /\ ~Gap /\ ~Gap'
    BY <1>0, <2>1 DEF Active, Gone, Gap, RoleInv, Bdats
  <2>3. CASE reader = "done"
    <3>1. Pipe' = <<>> /\ Len(Pipe') = 0 /\ ~Active'
      BY <1>2, <2>1, <2>3, ContentDrops, EmptySeq DEF Active
    <3> QED
      BY <3>1 DEF CountInv, Counted
  <2>4. CASE reader # "done"
    <3>1. Pipe # <<>> /\ Dropped(1)
      BY <1>2, <2>4, ContentDrops
    <3>2. Up(Pipe[1]) = 0
      BY <1>0, <2>1, <3>1 DEF PipeInv, Up, IsCommand, Commands
    <3> QED
      BY <1>0, <2>1, <2>2, <3>1, <3>2, DropsCount
  <2> QED
    BY <2>3, <2>4
<1>3. CASE Banner
  <2>1. /\ UNCHANGED <<client, wline, sent, sock>> /\ worker = "banner"
        /\ sock = "open" /\ reader # "done" /\ Pipe = net
    BY <1>3, BannerDrops DEF Banner
  <2>2. Active' => Active
    BY <2>1 DEF Active, Gone
  <2>3. CASE listener = "plain"
    <3>1. Pipe' = Pipe /\ secure' = secure
      BY <1>3, <2>3, BannerDrops DEF Banner
    <3>2. Gap' = Gap
      BY <2>1, <3>1 DEF Gap
    <3> QED
      BY <2>1, <2>2, <3>1, <3>2 DEF CountInv
  <2>4. CASE listener = "tls"
    <3>1. Pipe # <<>> /\ Dropped(1) /\ secure'
      BY <1>3, <2>4, BannerDrops DEF Banner
    <3>2. Pipe[1].verb = "HELLO"
      BY <1>0, <2>1, <2>4, <3>1 DEF HelloInv, HelloWaits, Live
    <3>3. Up(Pipe[1]) = 0 /\ (~Gap \/ Gap')
      BY <2>1, <3>1, <3>2 DEF Up, IsCommand, Commands, Gap
    <3> QED
      BY <1>0, <2>1, <2>2, <3>1, <3>3, DropsCount
  <2> QED
    BY <2>3, <2>4 DEF TypeOK
<1>4. CASE Handshake
  <2>1. /\ UNCHANGED <<client, sent, sock, reader, wline>> /\ worker = "handshake"
        /\ secure'
    BY <1>4 DEF Handshake, readerVars
  <2>2. (Active' => Active) /\ Gap'
    BY <1>0, <2>1 DEF Active, Gone, Gap, RoleInv
  <2>3. CASE reader = "done"
    <3>1. Pipe' = <<>> /\ Len(Pipe') = 0 /\ ~Active'
      BY <1>4, <2>1, <2>3, HandshakeDrops, EmptySeq DEF Active
    <3> QED
      BY <3>1 DEF CountInv, Counted
  <2>4. CASE reader # "done"
    <3> DEFINE k == Len(rbuf) + 1
    <3>1. Dropped(k) /\ Len(rbuf) \in Nat
      BY <1>4, <2>4, HandshakeDrops
    <3>2. k \in Nat \ {0} /\ Pipe # <<>>
      <4>1. k \in 0..Len(Pipe)
        BY <3>1 DEF Dropped
      <4> QED
        BY <3>1, <4>1, EmptySeq
    <3> HIDE DEF k
    <3> QED
      BY <1>0, <2>1, <2>2, <3>1, <3>2, DropsCount
  <2> QED
    BY <2>3, <2>4
<1> QED
  BY <1>1, <1>2, <1>3, <1>4

LEMMA CountKept ==
  TypeOK /\ TypeOK' /\ HandoffInv /\ ClearInv /\ StreamInv /\ CountInv
    /\ [Next]_vars => CountInv'
<1> SUFFICES ASSUME TypeOK, TypeOK', HandoffInv, ClearInv, StreamInv, CountInv,
                    [Next]_vars, ~cancelled'
             PROVE  CountInv'
  BY DEF CountInv
<1>1. ~cancelled
  BY CancelStays
<1>2. CASE Puts
  BY <1>1, <1>2, PutsStep, PutCount
<1>3. CASE SendCancelled
  BY <1>1, <1>3 DEF SendCancelled
<1> QED
  BY <1>1, <1>2, <1>3, ReadsCommands, NextSteps, FlowsCount, HandlesCount

(* Only the taking of a command takes one from the channel.                *)
LEMMA OnlyTakes == TypeOK /\ [Next]_vars /\ Takes => Take
<1> SUFFICES ASSUME TypeOK, [Next]_vars, ~Take PROVE ~Takes
  OBVIOUS
<1>0. Len(events) \in Nat /\ ~(Len(events) < Len(events))
  BY LenProperties DEF TypeOK
<1>1. events' = events => ~Takes
  BY <1>0 DEF Takes
<1>2. CASE Enqueue
  <2>1. events' = Append(events, rline)
    BY <1>2 DEF Enqueue
  <2>2. Len(events') = Len(events) + 1
    BY <2>1, AppendProperties DEF TypeOK
  <2> QED
    BY <1>0, <2>2 DEF Takes
<1>3. Works \/ ClientReads \/ ClientGone \/ WatchdogCloses \/ Shutdown
        \/ UNCHANGED vars => events' = events
  BY WorksAside DEF Aside
<1>4. (Moves /\ ~Enqueue) \/ SendCancelled => events' = events
  BY DEF Moves, ReadCommand, ReadCommandFails, ReaderFills, WorkerFills, Fill,
     SendCancelled, Resume, PauseEnds
<1>5. Puts => events' = events
  BY DEF Puts, ClientCommand, ClientContent, ClientHello
<1>6. ReadContent \/ Banner \/ Handshake => events' = events
  BY DEF ReadContent, Banner, Handshake
<1> QED
  BY <1>1, <1>2, <1>3, <1>4, <1>5, <1>6, NextSteps DEF Flows

(* As long as no content has strayed, the worker takes the commands in the *)
(* order they were sent and none of them twice: the next one it takes is   *)
(* the next one sent.  Only after a TLS handshake, which discards what was *)
(* pipelined behind STARTTLS, and after a cancel, which can drop the       *)
(* notice of an over-long line, may it be a later one.                     *)
THEOREM InOrderCorrect == Spec => InOrder
<1> DEFINE Ordered ==
      Takes /\ strayed = "no" =>
        \/ wline'.n = wline.n + 1
        \/ /\ wline'.n > wline.n
           /\ (wline.verb = "STARTTLS" /\ secure) \/ cancelled
<1> DEFINE Counts == strayed = "no" => CountInv
<1>1. Init => Counts
  <2> SUFFICES ASSUME Init PROVE CountInv
    OBVIOUS
  <2>1. /\ events = <<>> /\ rbuf = <<>> /\ net = <<>> /\ reader = "unborn"
        /\ sent = 0 /\ wline = NoLine
    BY DEF Init
  <2>2. <<>> \in Seq(Lines) /\ Len(<<>>) = 0
    BY EmptySeq
  <2>3. Pipe = <<>>
    BY <2>1, <2>2, ConcatEmptySeq DEF Pipe, Ahead, Held, Arriving
  <2> QED
    BY <2>1, <2>2, <2>3 DEF CountInv, Counted, NoLine
<1>2. TypeOK /\ TypeOK' /\ Followed /\ Counts /\ [Next]_vars => Ordered
  <2> SUFFICES ASSUME TypeOK, TypeOK', StreamInv, CountInv, [Next]_vars, Takes
               PROVE  \/ wline'.n = wline.n + 1
                      \/ /\ wline'.n > wline.n
                         /\ (wline.verb = "STARTTLS" /\ secure) \/ cancelled
    BY DEF Followed
  <2>1. /\ IsCommand(wline') /\ wline.n < wline'.n /\ wline' = Pipe[1]
        /\ Pipe # <<>>
    BY OnlyTakes, TakesCommand
  <2>2. wline.n \in Nat /\ wline'.n \in Nat
    BY PipeTypes, PipeTypesNext DEF PipeTyped, Lines
  <2>3. ~cancelled /\ ~Gap => wline'.n = wline.n + 1
    BY <2>1 DEF CountInv, Up
  <2> QED
    BY <2>1, <2>2, <2>3 DEF Gap
<1>3. TypeOK /\ TypeOK' /\ HandoffInv /\ ClearInv /\ Followed /\ Counts /\ [Next]_vars
        => Counts'
  BY CountKept, StrayedStays DEF Followed
<1> HIDE DEF Ordered, Counts
<1>4. Spec => [][Ordered]_vars
  BY <1>1, <1>2, <1>3, StreamAlways, TypeCorrect, HandoffCorrect, PTL DEF Spec
<1> QED
  BY <1>4 DEF InOrder, Ordered

=============================================================================
