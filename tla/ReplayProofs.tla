---------------------------- MODULE ReplayProofs -----------------------------
(***************************************************************************)
(* Proofs about Replay and the message file it reads.                      *)
(***************************************************************************)
EXTENDS Replay, SequenceTheorems, FiniteSetTheorems, TLAPS

-----------------------------------------------------------------------------
(* The verdict of a replay.                                                *)

ReplyLines == [code : Nat, last : BOOLEAN]

(* The reply line at place i, or the next one that the session will send   *)
(* when there is none, is not the 250 of a refused or unfinished content.  *)
Settled(i) ==
  handled = <<>> =>
    IF i <= Len(replies) THEN replies[i].code # 250 ELSE phase = "content" \/ ~open

(* What follows a 354 answers the content; the client that sends content   *)
(* waits for that answer; and once it has it, the message is delivered.    *)
OkInv ==
  /\ replies \in Seq(ReplyLines) /\ open \in BOOLEAN
  /\ \A i \in 1..Len(replies) : replies[i].code = 354 => Settled(i + 1)
  /\ pc \in {"body", "sent"} => Settled(1)
  /\ pc = "QUIT" \/ result = "OK" => handled # <<>>

LEMMA ReplyTyped ==
  /\ \A code \in {220, 221, 250, 354, 421, 451, 500, 550, 552} :
       Reply(code) \in ReplyLines /\ Reply(code).code = code
  /\ [code |-> 250, last |-> FALSE] \in ReplyLines
BY DEF Reply, ReplyLines

(* The session answers, in all but the case of a DATA: the first line of   *)
(* its answer to a content is a 250 only for a message that was handled.   *)
LEMMA Answers ==
  ASSUME OkInv, NEW r \in Seq(ReplyLines), Answer(r), r # <<>>,
         open' \in BOOLEAN, open' => open, UNCHANGED <<pc, result>>,
         handled' = handled \/ handled' # <<>>,
         phase = "content" => r[1].code # 250 \/ handled' # <<>>,
         \A i \in 1..Len(r) : r[i].code # 354
  PROVE  OkInv'
<1>1. /\ replies \in Seq(ReplyLines) /\ open \in BOOLEAN /\ Len(replies) \in Nat
      /\ Len(r) \in Nat /\ 1 \in 1..Len(r)
  BY LenProperties, EmptySeq DEF OkInv
<1>2. replies' \in Seq(ReplyLines) /\ open' \in BOOLEAN
  BY <1>1, ConcatProperties DEF Answer
<1>3. CASE ~open
  <2>1. replies' = replies /\ ~open'
    BY <1>3 DEF Answer
  <2>2. ASSUME NEW i \in Nat, Settled(i) PROVE Settled(i)'
    BY <2>1, <2>2 DEF Settled
  <2> QED
    BY <1>1, <1>2, <2>1, <2>2 DEF OkInv
<1>4. CASE open
  <2>1. /\ Len(replies') = Len(replies) + Len(r)
        /\ \A i \in 1..Len(replies') :
             replies'[i] = IF i <= Len(replies) THEN replies[i]
                           ELSE r[i - Len(replies)]
    BY <1>1, <1>4, ConcatProperties DEF Answer
  <2>2. ASSUME NEW i \in Nat, i > 0, i <= Len(replies) + 1, Settled(i)
        PROVE  Settled(i)'
    <3> SUFFICES ASSUME handled' = <<>>
                 PROVE  i <= Len(replies') /\ replies'[i].code # 250
      BY DEF Settled
    <3>1. i \in 1..Len(replies')
      BY <1>1, <2>1, <2>2
    <3>2. CASE i <= Len(replies)
      BY <2>1, <2>2, <3>1, <3>2 DEF Settled
    <3>3. CASE i = Len(replies) + 1
      <4>1. phase = "content"
        BY <1>1, <1>4, <2>2, <3>3 DEF Settled
      <4>2. replies'[i] = r[1]
        BY <1>1, <2>1, <3>1, <3>3
      <4> QED
        BY <3>1, <4>1, <4>2
    <3> QED
      BY <1>1, <2>2, <3>2, <3>3
  <2>3. ASSUME NEW i \in 1..Len(replies'), replies'[i].code = 354
        PROVE  Settled(i + 1)'
    <3>1. CASE i <= Len(replies)
      <4>1. i \in 1..Len(replies) /\ i + 1 \in Nat /\ i + 1 > 0 /\ i + 1 <= Len(replies) + 1
        BY <1>1, <3>1
      <4>2. Settled(i + 1)
        BY <2>1, <2>3, <3>1, <4>1 DEF OkInv
      <4> QED
        BY <2>2, <4>1, <4>2
    <3>2. CASE ~(i <= Len(replies))
      <4>1. i - Len(replies) \in 1..Len(r)
        BY <1>1, <2>1, <3>2
      <4> QED
        BY <2>1, <2>3, <3>2, <4>1
    <3> QED
      BY <3>1, <3>2
  <2>4. pc' \in {"body", "sent"} => Settled(1)'
    <3>1. 1 \in Nat /\ 1 > 0 /\ 1 <= Len(replies) + 1
      BY <1>1
    <3> QED
      BY <2>2, <3>1 DEF OkInv
  <2> QED
    BY <1>2, <2>3, <2>4 DEF OkInv
<1> QED
  BY <1>1, <1>3, <1>4

(* The client takes a reply line, or none.                                 *)
LEMMA TakesReply ==
  ASSUME OkInv, replies # <<>>, replies' = Tail(replies),
         UNCHANGED <<open, phase, handled>>,
         pc' \in {"body", "sent"} => pc' = pc \/ Head(replies).code = 354,
         pc' = "QUIT" \/ result' = "OK" =>
           \/ pc = "QUIT" \/ result = "OK"
           \/ pc = "sent" /\ Head(replies).code = 250,
         pc' \in {"body", "sent"} /\ pc' = pc => Head(replies).code = 250
  PROVE  OkInv'
<1>1. /\ Len(replies) \in Nat /\ 1 \in 1..Len(replies) /\ Head(replies) = replies[1]
      /\ replies' \in Seq(ReplyLines) /\ Len(replies') = Len(replies) - 1
      /\ \A i \in 1..Len(replies') : replies'[i] = replies[i + 1]
  BY LenProperties, EmptySeq, HeadTailProperties DEF OkInv
<1>2. ASSUME NEW i \in Nat, i > 0, Settled(i + 1) PROVE Settled(i)'
  <2>1. i <= Len(replies') => i \in 1..Len(replies') /\ i + 1 <= Len(replies)
    BY <1>1, <1>2
  <2>2. ~(i <= Len(replies')) => ~(i + 1 <= Len(replies))
    BY <1>1, <1>2
  <2> QED
    BY <1>1, <1>2, <2>1, <2>2 DEF Settled
<1>3. ASSUME NEW i \in 1..Len(replies'), replies'[i].code = 354
      PROVE  Settled(i + 1)'
  <2>1. /\ i + 1 \in 1..Len(replies) /\ i + 1 \in Nat /\ i + 1 > 0
        /\ replies[i + 1].code = 354
    BY <1>1, <1>3
  <2>2. Settled((i + 1) + 1)
    BY <2>1 DEF OkInv
  <2> QED
    BY <1>2, <2>1, <2>2
<1>4. pc' \in {"body", "sent"} => Settled(1)'
  <2>1. Head(replies).code = 354 => Settled(1 + 1)
    BY <1>1 DEF OkInv
  <2>2. 1 \in Nat /\ 1 > 0 /\ 1 <= Len(replies)
    BY <1>1
  <2>3. Head(replies).code = 354 => Settled(1)'
    BY <1>2, <2>1, <2>2
  <2>4. pc' = pc /\ pc \in {"body", "sent"} /\ Head(replies).code = 250
          => handled' # <<>>
    BY <1>1, <2>2 DEF OkInv, Settled
  <2> QED
    BY <2>3, <2>4 DEF Settled
<1>5. pc' = "QUIT" \/ result' = "OK" => handled' # <<>>
  <2>1. 1 <= Len(replies)
    BY <1>1
  <2> QED
    BY <1>1, <2>1 DEF OkInv, Settled
<1> QED
  BY <1>1, <1>3, <1>4, <1>5 DEF OkInv

(* Steps that leave the replies and the content alone.                     *)
LEMMA KeepsReplies ==
  ASSUME OkInv, UNCHANGED <<replies, handled>>, open' \in BOOLEAN, open' => open,
         open' /\ phase = "content" => phase' = "content",
         pc' \in {"body", "sent"} => pc \in {"body", "sent"},
         pc' = "QUIT" \/ result' = "OK" => pc = "QUIT" \/ result = "OK"
  PROVE  OkInv'
<1>1. ASSUME NEW i, Settled(i) PROVE Settled(i)'
  BY <1>1 DEF Settled
<1> QED
  BY <1>1 DEF OkInv

(* The connection ends, with the replies cut anywhere.                     *)
LEMMA CutReplies ==
  ASSUME OkInv, ~open', open' \in BOOLEAN, handled' = handled,
         NEW l \in {<<>>, <<Reply(421)>>}, replies' \in Prefixes(replies \o l),
         UNCHANGED <<pc, result>>
  PROVE  OkInv'
<1> DEFINE s == replies \o l
<1>1. /\ replies \in Seq(ReplyLines) /\ l \in Seq(ReplyLines)
      /\ Len(replies) \in Nat /\ Len(l) \in Nat
      /\ \A i \in 1..Len(l) : l[i].code = 421
  <2>1. Reply(421) \in ReplyLines /\ Reply(421).code = 421
    BY ReplyTyped
  <2>2. CASE l = <<>>
    BY <2>2, LenProperties, EmptySeq DEF OkInv
  <2>3. CASE l = <<Reply(421)>>
    <3> DEFINE x == Reply(421)
    <3>1. x \in ReplyLines /\ x.code = 421 /\ l = <<x>>
      BY <2>1, <2>3
    <3> HIDE DEF x
    <3>2. l \in Seq(ReplyLines) /\ Len(l) = 1 /\ l[1] = x
      BY <3>1
    <3> QED
      BY <3>1, <3>2, LenProperties DEF OkInv
  <2> QED
    BY <2>2, <2>3
<1>2. /\ s \in Seq(ReplyLines) /\ Len(s) = Len(replies) + Len(l)
      /\ \A i \in 1..Len(s) :
           s[i] = IF i <= Len(replies) THEN replies[i] ELSE l[i - Len(replies)]
  BY <1>1, ConcatProperties
<1> HIDE DEF s
<1>3. PICK n \in 0..Len(s) : replies' = SubSeq(s, 1, n)
  BY DEF Prefixes, s
<1>4. /\ replies' \in Seq(ReplyLines) /\ Len(replies') = n /\ n \in Nat
      /\ \A i \in 1..n : replies'[i] = s[i]
  BY <1>1, <1>2, <1>3, SubSeqProperties
<1>5. ASSUME NEW i \in Nat, i > 0, Settled(i) PROVE Settled(i)'
  <2> SUFFICES ASSUME handled = <<>>, i <= n PROVE replies'[i].code # 250
    BY <1>4 DEF Settled
  <2>1. i \in 1..n /\ i \in 1..Len(s)
    BY <1>1, <1>2, <1>3, <1>4, <1>5
  <2>2. CASE i <= Len(replies)
    BY <1>2, <1>4, <1>5, <2>1, <2>2 DEF Settled
  <2>3. CASE ~(i <= Len(replies))
    <3>1. i - Len(replies) \in 1..Len(l)
      BY <1>1, <1>2, <2>1, <2>3
    <3> QED
      <4>1. replies'[i] = l[i - Len(replies)]
        BY <1>2, <1>4, <2>1, <2>3
      <4>2. replies'[i].code = 421
        BY <1>1, <3>1, <4>1
      <4> QED
        BY <4>2
  <2> QED
    BY <2>2, <2>3
<1>6. ASSUME NEW i \in 1..Len(replies'), replies'[i].code = 354
      PROVE  Settled(i + 1)'
  <2>1. i \in 1..n /\ i \in 1..Len(s) /\ i + 1 \in Nat /\ i + 1 > 0
    BY <1>1, <1>2, <1>3, <1>4, <1>6
  <2>2. i \in 1..Len(replies) /\ replies[i].code = 354
    <3>1. ~(i <= Len(replies)) => i - Len(replies) \in 1..Len(l)
      BY <1>1, <1>2, <2>1
    <3>2. ~(i <= Len(replies)) => replies'[i] = l[i - Len(replies)]
      BY <1>2, <1>4, <2>1
    <3>3. ASSUME ~(i <= Len(replies)) PROVE FALSE
      <4>1. l[i - Len(replies)].code = 421
        BY <1>1, <3>1, <3>3
      <4> QED
        BY <1>6, <3>2, <3>3, <4>1
    <3> QED
      BY <1>1, <1>2, <1>4, <1>6, <2>1, <3>3
  <2> QED
    BY <1>5, <2>1, <2>2 DEF OkInv
<1> QED
  BY <1>4, <1>5, <1>6 DEF OkInv

(* The client is done with the connection.                                 *)
LEMMA EndsReplay ==
  ASSUME OkInv, replies' = <<>>, open' \in BOOLEAN, handled' = handled,
         pc' = "done", result' = "OK" => pc = "QUIT"
  PROVE  OkInv'
BY EmptySeq DEF OkInv

(* The session answers a DATA with its 354 and reads the content.          *)
LEMMA DataAnswered == OkInv /\ ServeData => OkInv'
<1> SUFFICES ASSUME OkInv, ServeData PROVE OkInv'
  OBVIOUS
<1> DEFINE x == Reply(354)
<1>0. x \in ReplyLines /\ x.code = 354
  BY ReplyTyped
<1>1. /\ phase = "command" /\ phase' = "content"
      /\ UNCHANGED <<pc, result, open, handled>>
      /\ replies' = IF open THEN replies \o <<x>> ELSE replies
  BY DEF ServeData, NextCommand, Answer, clientVars
<1> HIDE DEF x
<1>2. /\ replies \in Seq(ReplyLines) /\ Len(replies) \in Nat
      /\ <<x>> \in Seq(ReplyLines) /\ Len(<<x>>) = 1 /\ <<x>>[1] = x
  BY <1>0, LenProperties DEF OkInv
<1>3. CASE ~open
  <2>1. ASSUME NEW i, Settled(i) PROVE Settled(i)'
    BY <1>1, <1>3, <2>1 DEF Settled
  <2> QED
    BY <1>1, <1>3, <2>1 DEF OkInv
<1>4. CASE open
  <2>1. replies' = Append(replies, x)
    BY <1>0, <1>1, <1>2, <1>4, AppendIsConcat
  <2>2. /\ replies' \in Seq(ReplyLines) /\ Len(replies') = Len(replies) + 1
        /\ \A i \in 1..Len(replies) : replies'[i] = replies[i]
        /\ replies'[Len(replies) + 1] = x
    BY <1>0, <1>2, <2>1, AppendProperties
  <2>3. ASSUME NEW i \in Nat, i > 0, i <= Len(replies) + 1, Settled(i)
        PROVE  Settled(i)'
    <3>1. CASE i <= Len(replies)
      <4>1. i \in 1..Len(replies)
        BY <1>2, <2>3, <3>1
      <4> QED
        BY <1>1, <2>2, <2>3, <3>1, <4>1 DEF Settled
    <3>2. CASE i = Len(replies) + 1
      BY <1>0, <1>2, <2>2, <3>2 DEF Settled
    <3> QED
      BY <1>2, <2>3, <3>1, <3>2
  <2>4. ASSUME NEW i \in 1..Len(replies'), replies'[i].code = 354
        PROVE  Settled(i + 1)'
    <3>1. CASE i \in 1..Len(replies)
      <4>1. i + 1 \in Nat /\ i + 1 > 0 /\ i + 1 <= Len(replies) + 1
        BY <1>2, <3>1
      <4>2. Settled(i + 1)
        BY <2>2, <2>4, <3>1 DEF OkInv
      <4> QED
        BY <2>3, <4>1, <4>2
    <3>2. CASE i = Len(replies) + 1
      <4>1. ~(i + 1 <= Len(replies'))
        BY <1>2, <2>2, <3>2
      <4> QED
        BY <1>1, <4>1 DEF Settled
    <3> QED
      BY <1>2, <2>2, <3>1, <3>2
  <2>5. pc' \in {"body", "sent"} => Settled(1)'
    <3>1. 1 \in Nat /\ 1 > 0 /\ 1 <= Len(replies) + 1
      BY <1>2
    <3> QED
      BY <1>1, <2>3, <3>1 DEF OkInv
  <2> QED
    BY <1>1, <2>2, <2>4, <2>5 DEF OkInv
<1> QED
  BY <1>3, <1>4 DEF OkInv

LEMMA WantedCodes ==
  /\ DOMAIN Wanted = {"greeting", "EHLO", "MAIL", "RCPT", "DATA", "sent"}
  /\ Wanted["sent"] = 250 /\ Wanted["DATA"] = 354
BY DEF Wanted

LEMMA ClientOk == OkInv /\ (Client \/ WriteFails) => OkInv'
<1> SUFFICES ASSUME OkInv, Client \/ WriteFails PROVE OkInv'
  OBVIOUS
<1>0. open \in BOOLEAN
  BY DEF OkInv
<1>1. CASE Start
  BY <1>0, <1>1, KeepsReplies DEF Start, Return, Goto, sessionVars, historyVars
<1>2. CASE ReplyContinues
  <2>1. /\ replies # <<>> /\ replies' = Tail(replies)
        /\ UNCHANGED <<open, phase, handled, pc, result>>
        /\ pc \in DOMAIN Wanted /\ Head(replies).code = Wanted[pc]
    BY <1>2 DEF ReplyContinues, clientVars, sessionVars, historyVars
  <2>2. pc \in {"body", "sent"} => Head(replies).code = 250
    BY <2>1, WantedCodes
  <2> QED
    BY <2>1, <2>2, TakesReply
<1>3. CASE Refused
  BY <1>3, EndsReplay DEF Refused, Return, historyVars
<1>4. CASE \/ SendEhlo \/ SendMail \/ SendRcpt \/ SendData \/ BeginBody \/ SendQuit
           \/ (WriteFails /\ pc = "sent")
  <2>1. /\ replies # <<>> /\ replies' = Tail(replies)
        /\ UNCHANGED <<open, phase, handled>>
        /\ pc' \in {"EHLO", "MAIL", "RCPT", "DATA", "body", "QUIT", "done"}
        /\ pc' = "body" => pc = "DATA"
        /\ pc' = "QUIT" => pc = "sent"
        /\ result' \in {result, "FAIL"}
        /\ Head(replies).code = Wanted[pc]
    BY <1>4 DEF SendEhlo, SendMail, SendRcpt, SendData, BeginBody, SendQuit, WriteFails,
       Expected, Goto, Return, sessionVars, historyVars
  <2>2. /\ pc' = "body" => Head(replies).code = 354
        /\ pc' = "QUIT" => Head(replies).code = 250
    BY <2>1, WantedCodes
  <2> QED
    BY <2>1, <2>2, TakesReply
<1>5. CASE SendLine \/ SendDot \/ (WriteFails /\ pc = "body")
  BY <1>0, <1>5, KeepsReplies DEF SendLine, SendDot, WriteFails, Return, Goto, sessionVars,
     historyVars
<1>6. CASE QuitEnds
  BY <1>6, EndsReplay DEF QuitEnds, Return, historyVars
<1> QED
  BY <1>1, <1>2, <1>3, <1>4, <1>5, <1>6 DEF Client, WriteFails

LEMMA OneReply ==
  ASSUME NEW code \in {220, 221, 250, 354, 421, 451, 500, 550, 552}
  PROVE  /\ <<Reply(code)>> \in Seq(ReplyLines) /\ <<Reply(code)>> # <<>>
         /\ <<Reply(code)>>[1].code = code
         /\ \A i \in 1..Len(<<Reply(code)>>) : <<Reply(code)>>[i].code = code
<1> DEFINE x == Reply(code)
<1>1. x \in ReplyLines /\ x.code = code
  BY ReplyTyped
<1> HIDE DEF x
<1>2. <<x>> \in Seq(ReplyLines) /\ Len(<<x>>) = 1 /\ <<x>>[1] = x /\ <<x>> # <<>>
  BY <1>1
<1>3. /\ <<x>> \in Seq(ReplyLines) /\ <<x>> # <<>> /\ <<x>>[1].code = code
      /\ \A i \in 1..Len(<<x>>) : <<x>>[i].code = code
  BY <1>1, <1>2
<1> QED
  BY <1>3 DEF x

(* Commands and content, but for the DATA itself.                          *)
LEMMA ServerOk == OkInv /\ (Server \/ ContentDeadline) => OkInv'
<1> SUFFICES ASSUME OkInv, Server \/ ContentDeadline PROVE OkInv'
  OBVIOUS
<1>0. open \in BOOLEAN
  BY DEF OkInv
<1>1. ASSUME NEW code \in {220, 221, 250, 451, 500, 550, 552}, Answer(<<Reply(code)>>),
             open' \in BOOLEAN, open' => open, UNCHANGED <<pc, result>>,
             handled' = handled \/ handled' # <<>>,
             phase = "content" => code # 250 \/ handled' # <<>>
      PROVE  OkInv'
  <2> DEFINE line == <<Reply(code)>>
  <2>1. /\ line \in Seq(ReplyLines) /\ line # <<>> /\ line[1].code = code
        /\ \A i \in 1..Len(line) : line[i].code = code
    BY OneReply
  <2>2. Answer(line)
    BY <1>1
  <2> HIDE DEF line
  <2>3. /\ \A i \in 1..Len(line) : line[i].code # 354
        /\ phase = "content" => line[1].code # 250 \/ handled' # <<>>
    BY <1>1, <2>1
  <2> QED
    BY <1>1, <2>1, <2>2, <2>3, Answers
<1>2. CASE Greet
  BY <1>0, <1>1, <1>2 DEF Greet, clientVars, historyVars
<1>3. CASE ServeEhlo
  <2>1. CASE Answer(<<Reply(550)>>)
    BY <1>0, <1>1, <1>3, <2>1 DEF ServeEhlo, NextCommand, clientVars
  <2>2. CASE Answer(<<[code |-> 250, last |-> FALSE], Reply(250)>>)
    <3> DEFINE x == [code |-> 250, last |-> FALSE]
               y == Reply(250)
    <3>1. x \in ReplyLines /\ y \in ReplyLines /\ x.code = 250 /\ y.code = 250
          /\ Answer(<<x, y>>)
      BY <2>2, ReplyTyped
    <3> HIDE DEF x, y
    <3>2. /\ <<x, y>> \in Seq(ReplyLines) /\ <<x, y>> # <<>> /\ Len(<<x, y>>) = 2
          /\ <<x, y>>[1] = x /\ <<x, y>>[2] = y
      BY <3>1
    <3>3. \A i \in 1..Len(<<x, y>>) : <<x, y>>[i].code # 354
      BY <3>1, <3>2
    <3> QED
      <4> DEFINE line == <<x, y>>
      <4>1. /\ line \in Seq(ReplyLines) /\ line # <<>> /\ Answer(line)
            /\ \A i \in 1..Len(line) : line[i].code # 354
        BY <3>1, <3>2, <3>3
      <4>2. UNCHANGED <<pc, result, open, handled>> /\ phase = "command"
        BY <1>3 DEF ServeEhlo, NextCommand, clientVars
      <4> HIDE DEF line
      <4> QED
        BY <1>0, <4>1, <4>2, Answers
  <2> QED
    BY <1>3, <2>1, <2>2 DEF ServeEhlo
<1>4. CASE ServeMail \/ ServeRcpt
  BY <1>0, <1>1, <1>4 DEF ServeMail, ServeRcpt, NextCommand, clientVars
<1>5. CASE ServeQuit \/ ServeOther
  <2>1. /\ Answer(<<Reply(221)>>) \/ Answer(<<Reply(500)>>)
        /\ UNCHANGED <<pc, result, handled>> /\ phase = "command"
    BY <1>5 DEF ServeQuit, ServeOther, NextCommand, clientVars, historyVars
  <2>2. open' \in BOOLEAN /\ (open' => open)
    <3>1. CASE ServeQuit
      <4>1. open' = FALSE
        BY <3>1, Zenon DEF ServeQuit
      <4> QED
        BY <4>1
    <3>2. CASE ServeOther
      BY <1>0, <3>2 DEF ServeOther
    <3> QED
      BY <1>5, <3>1, <3>2
  <2>3. CASE Answer(<<Reply(221)>>)
    BY <1>1, <2>1, <2>2, <2>3
  <2>4. CASE Answer(<<Reply(500)>>)
    BY <1>1, <2>1, <2>2, <2>4
  <2> QED
    BY <2>1, <2>3, <2>4
<1>6. CASE LongLine \/ SkipLine \/ KeepLine
  BY <1>0, <1>6, KeepsReplies DEF LongLine, SkipLine, KeepLine, clientVars, sessionVars
<1>7. CASE RejectContent
  <2>1. Rejection \in {500, 550, 552}
    BY DEF Rejection
  <2> QED
    BY <1>0, <1>1, <1>7, <2>1 DEF RejectContent, clientVars
<1>8. CASE AcceptContent
  <2>1. PICK code \in {250, 451} :
          /\ Answer(<<Reply(code)>>) /\ UNCHANGED <<pc, result, open>>
          /\ handled' = IF code = 250
                          THEN Append(handled, [from |-> from, to |-> to, body |-> buf])
                          ELSE handled
    BY <1>8 DEF AcceptContent, clientVars
  <2>2. code = 250 => handled' # <<>>
    BY <2>1
  <2> QED
    BY <1>0, <1>1, <2>1, <2>2
<1>9. CASE CommandCut
  BY <1>0, <1>9, KeepsReplies DEF CommandCut, clientVars, historyVars
<1>10. CASE ContentCut \/ ContentDeadline
  <2>1. PICK lost : Interrupt(lost)
    BY <1>10 DEF ContentCut, ContentDeadline
  <2>2. /\ \E code \in {552, 451} : Answer(<<Reply(code)>>)
        /\ UNCHANGED <<pc, result, open, handled>>
    BY <2>1 DEF Interrupt, clientVars
  <2> QED
    BY <1>0, <1>1, <2>2
<1> QED
  BY <1>2, <1>3, <1>4, <1>5, <1>6, <1>7, <1>8, <1>9, <1>10, DataAnswered DEF Server

LEMMA EnvironmentOk == OkInv /\ Environment => OkInv'
<1> SUFFICES ASSUME OkInv, Environment PROVE OkInv'
  OBVIOUS
<1>0. replies \in Seq(ReplyLines)
  BY DEF OkInv
<1>1. CASE DialFails
  BY <1>1, KeepsReplies DEF DialFails, Return, sessionVars
<1>2. CASE ServerCloses
  <2>1. Append(replies, Reply(421)) = replies \o <<Reply(421)>>
    BY <1>0, ReplyTyped, AppendIsConcat
  <2>2. /\ open' = FALSE /\ UNCHANGED <<handled, pc, result>>
        /\ replies' \in Prefixes(replies \o <<Reply(421)>>)
    BY <1>2, <2>1 DEF ServerCloses, clientVars
  <2> QED
    BY <2>2, CutReplies
<1>3. CASE LinkFails
  <2>1. replies \o <<>> = replies
    BY <1>0, ConcatEmptySeq
  <2>2. /\ open' = FALSE /\ UNCHANGED <<handled, pc, result>>
        /\ replies' \in Prefixes(replies \o <<>>)
    BY <1>3, <2>1 DEF LinkFails, clientVars
  <2> QED
    BY <2>2, CutReplies
<1> QED
  BY <1>1, <1>2, <1>3, ClientOk, ServerOk DEF Environment

(* A file is reported OK only when the target has taken the message: for   *)
(* every message, every content of another client, every limit, and        *)
(* wherever the link, the deadlines or the server cut the dialogue short.  *)
THEOREM OkDeliveredCorrect == Spec => []OkDelivered
<1>1. Init => OkInv
  BY EmptySeq DEF Init, InitCommon, InitReplay, InitOther, OkInv
<1>2. OkInv /\ [Next]_vars => OkInv'
  <2> SUFFICES ASSUME OkInv, [Next]_vars PROVE OkInv'
    OBVIOUS
  <2>1. CASE UNCHANGED vars
    BY <2>1, KeepsReplies DEF vars, clientVars, sessionVars, historyVars, OkInv
  <2> QED
    BY <2>1, ClientOk, ServerOk, EnvironmentOk DEF Next
<1>3. OkInv => OkDelivered
  BY DEF OkInv, OkDelivered
<1> QED
  BY <1>1, <1>2, <1>3, PTL DEF Spec

-----------------------------------------------------------------------------
(* A message file read back.                                               *)

(* Induction over the numbers, for a set instead of a predicate: if A      *)
(* misses m, adding one maps its part below m into itself, one to one and  *)
(* missing 0, and no finite set has such a map.                            *)
LEMMA NatInductive ==
  ASSUME NEW A, 0 \in A, \A n \in A \cap Nat : n + 1 \in A
  PROVE  Nat \subseteq A
<1> SUFFICES ASSUME NEW m \in Nat, m \notin A PROVE FALSE
  OBVIOUS
<1> DEFINE B == A \cap 0..m
           f == [n \in B |-> n + 1]
<1>1. \A n \in B : n \in Nat /\ n + 1 \in B
  OBVIOUS
<1>2. IsFiniteSet(B)
  <2>1. IsFiniteSet(0..m)
    BY FS_Interval
  <2> QED
    BY <2>1, FS_Subset
<1>3. f \in Injection(B, B)
  <2>1. f \in [B -> B]
    BY <1>1
  <2>2. \A a, b \in B : f[a] = f[b] => a = b
    BY <1>1
  <2> QED
    BY <2>1, <2>2 DEF Injection, IsInjective
<1>4. f \in Surjection(B, B)
  <2> HIDE DEF f, B
  <2> QED
    BY <1>2, <1>3, FS_Injection
<1>5. 0 \in B /\ \A n \in B : f[n] # 0
  BY <1>1
<1> QED
  BY <1>4, <1>5 DEF Surjection

LEMMA SeqInductive ==
  ASSUME NEW S, NEW A, <<>> \in A,
         \A s \in Seq(S) \cap A : \A x \in S : Append(s, x) \in A
  PROVE  Seq(S) \subseteq A
<1> DEFINE N == {n \in Nat : \A s \in Seq(S) : Len(s) = n => s \in A}
<1>1. 0 \in N
  BY EmptySeq
<1>2. ASSUME NEW n \in N \cap Nat PROVE n + 1 \in N
  <2> SUFFICES ASSUME NEW s \in Seq(S), Len(s) = n + 1 PROVE s \in A
    OBVIOUS
  <2>1. s # <<>>
    BY EmptySeq
  <2>2. PICK t \in Seq(S), x \in S : s = Append(t, x)
    BY <2>1, SequenceEmptyOrAppend
  <2>3. Len(t) = n
    BY <2>2, AppendProperties, LenProperties
  <2> QED
    BY <2>2, <2>3
<1>3. Nat \subseteq N
  <2> HIDE DEF N
  <2> QED
    BY <1>1, <1>2, NatInductive
<1> QED
  BY <1>3, LenProperties

(* A recursion over the numbers up to n has a solution, and only one.      *)
Solves(V, b, G, n, f) ==
  f \in [0..n -> V] /\ f[0] = b /\ \A i \in 1..n : f[i] = G[<<f[i - 1], i>>]

LEMMA SolutionExists ==
  ASSUME NEW V, NEW b \in V, NEW n \in Nat, NEW G,
         \A v \in V : \A i \in 1..n : G[<<v, i>>] \in V
  PROVE  \E f : Solves(V, b, G, n, f)
<1> DEFINE N == {k \in Nat : k <= n => \E f : Solves(V, b, G, k, f)}
<1>1. 0 \in N
  <2> DEFINE g == [i \in 0..0 |-> b]
  <2>1. g \in [0..0 -> V] /\ g[0] = b
    OBVIOUS
  <2>2. \A i \in 1..0 : FALSE
    OBVIOUS
  <2> HIDE DEF g
  <2>3. Solves(V, b, G, 0, g)
    BY <2>1, <2>2 DEF Solves
  <2> QED
    BY <2>3
<1>2. ASSUME NEW k \in N \cap Nat PROVE k + 1 \in N
  <2> SUFFICES ASSUME k + 1 <= n PROVE \E f : Solves(V, b, G, k + 1, f)
    OBVIOUS
  <2>1. \E f : Solves(V, b, G, k, f)
    OBVIOUS
  <2>2. PICK f : Solves(V, b, G, k, f)
    BY <2>1
  <2> DEFINE g == [i \in 0..k + 1 |-> IF i <= k THEN f[i] ELSE G[<<f[k], k + 1>>]]
  <2>3. G[<<f[k], k + 1>>] \in V
    BY <2>2 DEF Solves
  <2>4. g \in [0..k + 1 -> V]
    BY <2>2, <2>3 DEF Solves
  <2>5. g[0] = b
    BY <2>2 DEF Solves
  <2>6. ASSUME NEW i \in 1..k + 1 PROVE g[i] = G[<<g[i - 1], i>>]
    <3>1. CASE i <= k
      BY <2>2, <3>1 DEF Solves
    <3>2. CASE i = k + 1
      <4>1. i - 1 = k /\ k + 1 \in 0..k + 1 /\ k \in 0..k + 1 /\ ~(k + 1 <= k)
        BY <3>2
      <4>2. g[k + 1] = G[<<f[k], k + 1>>] /\ g[k] = f[k]
        BY <4>1
      <4> QED
        BY <3>2, <4>1, <4>2
    <3> QED
      BY <3>1, <3>2
  <2>7. Solves(V, b, G, k + 1, g)
    <3> HIDE DEF g
    <3> QED
      BY <2>4, <2>5, <2>6 DEF Solves
  <2> QED
    BY <2>7
<1>3. Nat \subseteq N
  <2> HIDE DEF N
  <2> QED
    BY <1>1, <1>2, NatInductive
<1> QED
  BY <1>3

LEMMA SolutionUnique ==
  ASSUME NEW n \in Nat, NEW f, NEW g, f[0] = g[0],
         \A i \in 1..n : f[i - 1] = g[i - 1] => f[i] = g[i]
  PROVE  f[n] = g[n]
<1> DEFINE N == {i \in Nat : i <= n => f[i] = g[i]}
<1>1. 0 \in N
  OBVIOUS
<1>2. ASSUME NEW i \in N \cap Nat PROVE i + 1 \in N
  <2> SUFFICES ASSUME i + 1 <= n PROVE f[i + 1] = g[i + 1]
    OBVIOUS
  <2>1. i + 1 \in 1..n /\ (i + 1) - 1 = i /\ f[i] = g[i]
    OBVIOUS
  <2> QED
    BY <2>1
<1>3. Nat \subseteq N
  <2> HIDE DEF N
  <2> QED
    BY <1>1, <1>2, NatInductive
<1> QED
  BY <1>3

-----------------------------------------------------------------------------
(* FlattenSeq and Split read a sequence from left to right.                *)

Flattens(E, s, f) ==
  /\ f \in [0..Len(s) -> Seq(E)]
  /\ f[0] = <<>>
  /\ \A i \in 1..Len(s) : f[i] = f[i - 1] \o s[i]
  /\ FlattenSeq(s) = f[Len(s)]

LEMMA FlattenFold ==
  ASSUME NEW E, NEW s \in Seq(Seq(E)) PROVE \E f : Flattens(E, s, f)
<1> DEFINE n == Len(s)
           G == [p \in Seq(E) \X (1..n) |-> p[1] \o s[p[2]]]
<1>1. n \in Nat /\ \A i \in 1..n : s[i] \in Seq(E)
  BY LenProperties, ElementOfSeq
<1>2. \A v \in Seq(E) : \A i \in 1..n :
        G[<<v, i>>] = v \o s[i] /\ v \o s[i] \in Seq(E)
  <2> SUFFICES ASSUME NEW v \in Seq(E), NEW i \in 1..n
               PROVE  G[<<v, i>>] = v \o s[i] /\ v \o s[i] \in Seq(E)
    OBVIOUS
  <2>1. v \o s[i] \in Seq(E)
    BY <1>1, ConcatProperties
  <2> QED
    BY <2>1
<1>3a. \E f : Solves(Seq(E), <<>>, G, n, f)
  <2>1. \A v \in Seq(E) : \A i \in 1..n : G[<<v, i>>] \in Seq(E)
    BY <1>2
  <2>2. <<>> \in Seq(E)
    BY EmptySeq
  <2> HIDE DEF G, n
  <2> QED
    BY <1>1, <2>1, <2>2, SolutionExists
<1>3. PICK f \in [0..n -> Seq(E)] :
        f[0] = <<>> /\ \A i \in 1..n : f[i] = G[<<f[i - 1], i>>]
  <2> HIDE DEF G
  <2> QED
    BY <1>3a DEF Solves
<1>4. \A i \in 1..n : f[i] = f[i - 1] \o s[i]
  <2> SUFFICES ASSUME NEW i \in 1..n PROVE f[i] = f[i - 1] \o s[i]
    OBVIOUS
  <2>0. i - 1 \in 0..n
    BY <1>1
  <2>1. f[i - 1] \in Seq(E) /\ s[i] \in Seq(E)
    BY <1>1, <1>3, <2>0
  <2> HIDE DEF G
  <2> QED
    BY <1>2, <1>3, <2>1
<1>5. FlattenSeq(s) = f[n]
  <2>1. CASE n = 0
    <3>1. s = <<>>
      BY <2>1, EmptySeq
    <3> QED
      BY <1>3, <2>1, <3>1 DEF FlattenSeq
  <2>2. CASE n # 0
    <3> DEFINE Flat(h) == h = [i \in 1..n |-> IF i = 1 THEN s[i] ELSE h[i - 1] \o s[i]]
               g == [i \in 1..n |-> f[i]]
               c == CHOOSE h : Flat(h)
               d == [i \in 0..n |-> IF i = 0 THEN <<>> ELSE c[i]]
    <3>1. Flat(g)
      <4> SUFFICES ASSUME NEW i \in 1..n
                   PROVE  g[i] = IF i = 1 THEN s[i] ELSE g[i - 1] \o s[i]
        OBVIOUS
      <4>1. CASE i = 1
        <5>1. f[1] = f[1 - 1] \o s[1]
          BY <1>4, <4>1
        <5>1a. 1 - 1 = 0 /\ g[1] = f[1]
          BY <4>1
        <5>2. s[1] \in Seq(E)
          BY <1>1, <4>1
        <5>3. <<>> \o s[1] = s[1]
          BY <5>2, ConcatEmptySeq
        <5>4. f[1] = s[1]
          BY <1>3, <5>1, <5>1a, <5>3
        <5> QED
          BY <4>1, <5>1a, <5>4
      <4>2. CASE i # 1
        <5>1. i - 1 \in 1..n
          BY <1>1, <4>2
        <5> QED
          BY <1>4, <4>2, <5>1
      <4> QED
        BY <4>1, <4>2
    <3>2. Flat(c)
      BY <3>1
    <3>3. \A i \in 1..n : c[i] = IF i = 1 THEN s[i] ELSE c[i - 1] \o s[i]
      <4> HIDE DEF c
      <4> QED
        BY <3>2
    <3>4. \A i \in 1..n : d[i - 1] = f[i - 1] => d[i] = f[i]
      <4> SUFFICES ASSUME NEW i \in 1..n, d[i - 1] = f[i - 1] PROVE d[i] = f[i]
        OBVIOUS
      <4> HIDE DEF c
      <4>1. f[i] = f[i - 1] \o s[i] /\ s[i] \in Seq(E)
        BY <1>1, <1>4
      <4>2. CASE i = 1
        <5>1. i - 1 = 0 /\ d[i] = c[i] /\ c[i] = s[i]
          BY <1>1, <3>3, <4>2
        <5>2. f[i] = <<>> \o s[i]
          BY <1>3, <4>1, <5>1
        <5> QED
          BY <4>1, <5>1, <5>2, ConcatEmptySeq
      <4>3. CASE i # 1
        <5>1. d[i] = c[i] /\ d[i - 1] = c[i - 1]
          BY <1>1, <4>3
        <5>2. c[i] = c[i - 1] \o s[i]
          BY <3>3, <4>3
        <5> QED
          BY <4>1, <5>1, <5>2
      <4> QED
        BY <4>2, <4>3
    <3>5. d[n] = f[n]
      <4>1. d[0] = f[0] /\ n \in 0..n
        BY <1>1, <1>3
      <4> HIDE DEF d
      <4> QED
        BY <1>1, <3>4, <4>1, SolutionUnique
    <3>6. d[n] = c[n]
      <4> HIDE DEF c
      <4> QED
        BY <1>1, <2>2
    <3>7. FlattenSeq(s) = c[n]
      BY <2>2 DEF FlattenSeq
    <3> QED
      BY <3>5, <3>6, <3>7
  <2> QED
    BY <2>1, <2>2
<1> HIDE DEF G
<1> QED
  BY <1>3, <1>4, <1>5 DEF Flattens

LEMMA FlattenProperties ==
  ASSUME NEW E, NEW s \in Seq(Seq(E)), NEW x \in Seq(E)
  PROVE  /\ FlattenSeq(s) \in Seq(E)
         /\ FlattenSeq(Append(s, x)) = FlattenSeq(s) \o x
<1> DEFINE n == Len(s)
           t == Append(s, x)
<1>1. n \in Nat /\ t \in Seq(Seq(E)) /\ Len(t) = n + 1
      /\ (\A i \in 1..n : t[i] = s[i]) /\ t[n + 1] = x
  BY LenProperties, AppendProperties
<1>2. PICK f : Flattens(E, s, f)
  BY FlattenFold
<1>3. PICK g : Flattens(E, t, g)
  BY <1>1, FlattenFold
<1> HIDE DEF t
<1>4. \A i \in 1..n : f[i - 1] = g[i - 1] => f[i] = g[i]
  <2>1. \A i \in 1..n : i \in 1..n + 1
    BY <1>1
  <2> QED
    BY <1>1, <1>2, <1>3, <2>1 DEF Flattens
<1>5. f[n] = g[n]
  <2>1. f[0] = g[0] /\ n \in 0..n
    BY <1>1, <1>2, <1>3 DEF Flattens
  <2> HIDE DEF n
  <2> QED
    BY <1>1, <1>4, <2>1, SolutionUnique
<1>6. g[n + 1] = g[n] \o x
  <2>1. n + 1 \in 1..n + 1 /\ (n + 1) - 1 = n
    BY <1>1
  <2> QED
    BY <1>1, <1>3, <2>1 DEF Flattens
<1> QED
  BY <1>1, <1>2, <1>3, <1>5, <1>6 DEF t, Flattens

Parts(E) == Seq(Seq(E)) \ {<<>>}

LEMMA ExtendProperties ==
  ASSUME NEW E, NEW p \in Parts(E), NEW c \in E
  PROVE  /\ Extend(p, c) \in Parts(E)
         /\ c = LF => Extend(p, c) = Append(p, <<>>)
         /\ c # LF => /\ Len(Extend(p, c)) = Len(p)
                      /\ \A i \in 1..Len(p) : Extend(p, c)[i] =
                           IF i = Len(p) THEN Append(p[i], c) ELSE p[i]
<1>1. p \in Seq(Seq(E)) /\ Len(p) \in Nat \ {0} /\ Len(p) \in 1..Len(p)
  BY EmptySeq DEF Parts
<1>2. CASE c = LF
  <2>1. Extend(p, c) = Append(p, <<>>)
    BY <1>2 DEF Extend
  <2>2. Append(p, <<>>) \in Seq(Seq(E)) /\ Append(p, <<>>) # <<>>
    BY <1>1, EmptySeq, AppendProperties
  <2> QED
    BY <1>2, <2>1, <2>2 DEF Parts
<1>3. CASE c # LF
  <2> DEFINE l == Append(p[Len(p)], c)
             q == [p EXCEPT ![Len(p)] = l]
  <2>1. p[Len(p)] \in Seq(E)
    BY <1>1, ElementOfSeq
  <2>2. l \in Seq(E)
    BY <2>1, AppendProperties
  <2>3. Extend(p, c) = q
    BY <1>3 DEF Extend
  <2> HIDE DEF l
  <2>4. /\ q \in Seq(Seq(E)) /\ Len(q) = Len(p)
        /\ \A i \in 1..Len(p) : q[i] = IF i = Len(p) THEN l ELSE p[i]
    BY <1>1, <2>2, ExceptSeq
  <2>5. q # <<>>
    BY <1>1, <2>4, EmptySeq
  <2> HIDE DEF q
  <2> QED
    BY <1>3, <2>3, <2>4, <2>5 DEF Parts, l
<1> QED
  BY <1>2, <1>3

Splits(E, s, f) ==
  /\ f \in [0..Len(s) -> Parts(E)]
  /\ f[0] = << <<>> >>
  /\ \A i \in 1..Len(s) : f[i] = Extend(f[i - 1], s[i])
  /\ Split(s) = f[Len(s)]

LEMMA OnePart == ASSUME NEW E PROVE << <<>> >> \in Parts(E)
BY EmptySeq DEF Parts

LEMMA SplitFold ==
  ASSUME NEW E, NEW s \in Seq(E) PROVE \E f : Splits(E, s, f)
<1> DEFINE n == Len(s)
           G == [p \in Parts(E) \X (1..n) |-> Extend(p[1], s[p[2]])]
<1>1. n \in Nat /\ \A i \in 1..n : s[i] \in E
  BY LenProperties, ElementOfSeq
<1>2. \A v \in Parts(E) : \A i \in 1..n :
        G[<<v, i>>] = Extend(v, s[i]) /\ Extend(v, s[i]) \in Parts(E)
  <2> SUFFICES ASSUME NEW v \in Parts(E), NEW i \in 1..n
               PROVE  G[<<v, i>>] = Extend(v, s[i]) /\ Extend(v, s[i]) \in Parts(E)
    OBVIOUS
  <2>1. Extend(v, s[i]) \in Parts(E)
    BY <1>1, ExtendProperties
  <2> QED
    BY <2>1
<1>3. \E f : Solves(Parts(E), << <<>> >>, G, n, f)
  <2>1. \A v \in Parts(E) : \A i \in 1..n : G[<<v, i>>] \in Parts(E)
    BY <1>2
  <2> DEFINE b == << <<>> >>
  <2>2. b \in Parts(E)
    BY OnePart
  <2> HIDE DEF G, n, b
  <2>3. \E f : Solves(Parts(E), b, G, n, f)
    BY <1>1, <2>1, <2>2, SolutionExists
  <2> QED
    BY <2>3 DEF b
<1>4. PICK f \in [0..n -> Parts(E)] :
        f[0] = << <<>> >> /\ \A i \in 1..n : f[i] = G[<<f[i - 1], i>>]
  <2> HIDE DEF G
  <2> QED
    BY <1>3 DEF Solves
<1>5. \A i \in 1..n : f[i] = Extend(f[i - 1], s[i])
  <2> SUFFICES ASSUME NEW i \in 1..n PROVE f[i] = Extend(f[i - 1], s[i])
    OBVIOUS
  <2>1. i - 1 \in 0..n
    BY <1>1
  <2>2. f[i - 1] \in Parts(E)
    BY <1>4, <2>1
  <2> HIDE DEF G
  <2> QED
    BY <1>2, <1>4, <2>2
<1> HIDE DEF G
<1>6. Split(s) = f[n]
  <2> DEFINE Cut(h) == h = [i \in 0..n |-> IF i = 0 THEN << <<>> >>
                                           ELSE Extend(h[i - 1], s[i])]
             c == CHOOSE h : Cut(h)
  <2>1. Cut(f)
    <3>1. \A i \in 0..n : f[i] = IF i = 0 THEN << <<>> >> ELSE Extend(f[i - 1], s[i])
      <4> SUFFICES ASSUME NEW i \in 0..n
                   PROVE  f[i] = IF i = 0 THEN << <<>> >> ELSE Extend(f[i - 1], s[i])
        OBVIOUS
      <4>1. i # 0 => i \in 1..n
        BY <1>1
      <4> QED
        BY <1>4, <1>5, <4>1
    <3> QED
      BY <1>4, <3>1
  <2>2. Cut(c)
    BY <2>1
  <2>3. \A i \in 0..n : c[i] = IF i = 0 THEN << <<>> >> ELSE Extend(c[i - 1], s[i])
    <3> HIDE DEF c
    <3> QED
      BY <2>2
  <2>4. Split(s) = c[n]
    BY DEF Split
  <2> HIDE DEF c
  <2>5. \A i \in 1..n : f[i - 1] = c[i - 1] => f[i] = c[i]
    <3> SUFFICES ASSUME NEW i \in 1..n, f[i - 1] = c[i - 1] PROVE f[i] = c[i]
      OBVIOUS
    <3>1. i \in 0..n /\ i # 0
      BY <1>1
    <3> QED
      BY <1>5, <2>3, <3>1
  <2>6. f[0] = c[0]
    <3>1. 0 \in 0..n
      BY <1>1
    <3> QED
      BY <1>4, <2>3, <3>1
  <2>7. f[n] = c[n]
    BY <1>1, <2>5, <2>6, SolutionUnique
  <2> QED
    BY <2>4, <2>7
<1> QED
  BY <1>4, <1>5, <1>6 DEF Splits

LEMMA SplitEmpty == Split(<<>>) = << <<>> >>
<1>1. PICK f : Splits({}, <<>>, f)
  BY EmptySeq, SplitFold
<1> QED
  BY <1>1, EmptySeq DEF Splits

LEMMA SplitProperties ==
  ASSUME NEW E, NEW s \in Seq(E), NEW c \in E
  PROVE  /\ Split(s) \in Parts(E)
         /\ Split(Append(s, c)) = Extend(Split(s), c)
<1> DEFINE n == Len(s)
           t == Append(s, c)
<1>1. n \in Nat /\ t \in Seq(E) /\ Len(t) = n + 1
      /\ (\A i \in 1..n : t[i] = s[i]) /\ t[n + 1] = c
  BY LenProperties, AppendProperties
<1>2. PICK f : Splits(E, s, f)
  BY SplitFold
<1>3. PICK g : Splits(E, t, g)
  BY <1>1, SplitFold
<1> HIDE DEF t
<1>4. \A i \in 1..n : f[i - 1] = g[i - 1] => f[i] = g[i]
  <2>1. \A i \in 1..n : i \in 1..n + 1
    BY <1>1
  <2> QED
    BY <1>1, <1>2, <1>3, <2>1 DEF Splits
<1>5. f[n] = g[n]
  <2>1. f[0] = g[0]
    BY <1>2, <1>3 DEF Splits
  <2> HIDE DEF n
  <2> QED
    BY <1>1, <1>4, <2>1, SolutionUnique
<1>6. g[n + 1] = Extend(g[n], c)
  <2>1. n + 1 \in 1..n + 1 /\ (n + 1) - 1 = n
    BY <1>1
  <2> QED
    BY <1>1, <1>3, <2>1 DEF Splits
<1>7. f[n] \in Parts(E)
  BY <1>1, <1>2 DEF Splits
<1> QED
  BY <1>1, <1>2, <1>3, <1>5, <1>6, <1>7 DEF t, Splits

-----------------------------------------------------------------------------
(* Lines.                                                                  *)

LEMMA AppendConcat ==
  ASSUME NEW E, NEW p \in Seq(E), NEW q \in Seq(E), NEW c \in E
  PROVE  p \o Append(q, c) = Append(p \o q, c)
<1>1. <<c>> \in Seq(E)
  BY EmptySeq, AppendProperties, AppendIsConcat, ConcatEmptySeq
<1>2. Append(q, c) = q \o <<c>> /\ p \o q \in Seq(E)
  BY AppendIsConcat, ConcatProperties
<1>3. Append(p \o q, c) = (p \o q) \o <<c>>
  BY <1>2, AppendIsConcat
<1>4. (p \o q) \o <<c>> = p \o (q \o <<c>>)
  BY <1>1, ConcatAssociative
<1> QED
  BY <1>2, <1>3, <1>4

(* Text without a LF stays in one part.                                    *)
LEMMA SplitText ==
  ASSUME NEW E, NEW q \in Seq(E), NEW p \in Seq(Seq(E)), Split(q) = Append(p, <<>>),
         NEW t \in Seq(E \ {LF})
  PROVE  Split(q \o t) = Append(p, t)
<1> DEFINE T == Seq(E \ {LF})
           A == {u \in T : Split(q \o u) = Append(p, u)}
<1>1. <<>> \in A
  BY EmptySeq, ConcatEmptySeq
<1>2. ASSUME NEW u \in T \cap A, NEW c \in E \ {LF} PROVE Append(u, c) \in A
  <2>1. u \in Seq(E) /\ Append(u, c) \in T /\ Append(u, c) \in Seq(E)
    BY SeqMonotonic, AppendProperties
  <2>2. q \o u \in Seq(E) /\ q \o Append(u, c) = Append(q \o u, c)
    BY <2>1, ConcatProperties, AppendConcat
  <2>3. Split(q \o Append(u, c)) = Extend(Append(p, u), c)
    BY <2>2, SplitProperties
  <2> DEFINE r == Append(p, u)
             v == Append(p, Append(u, c))
             x == Extend(r, c)
             n == Len(p)
  <2>4. /\ n \in Nat /\ r \in Seq(Seq(E)) /\ r # <<>> /\ Len(r) = n + 1
        /\ (\A i \in 1..n : r[i] = p[i]) /\ r[n + 1] = u
    <3>1. n \in Nat
      BY LenProperties
    <3>2. u \in Seq(E)
      BY <2>1
    <3>3. /\ r \in Seq(Seq(E)) /\ Len(r) = n + 1
          /\ (\A i \in 1..n : r[i] = p[i]) /\ r[n + 1] = u
      BY <3>2, AppendProperties
    <3>4. r # <<>>
      BY <3>1, <3>3, EmptySeq
    <3> QED
      BY <3>1, <3>3, <3>4
  <2>5. /\ v \in Seq(Seq(E)) /\ Len(v) = n + 1
        /\ (\A i \in 1..n : v[i] = p[i]) /\ v[n + 1] = Append(u, c)
    BY <2>1, AppendProperties
  <2>6. /\ x \in Seq(Seq(E)) /\ Len(x) = n + 1
        /\ \A i \in 1..n + 1 : x[i] = IF i = n + 1 THEN Append(u, c) ELSE p[i]
    <3>1. r \in Parts(E)
      BY <2>4 DEF Parts
    <3> HIDE DEF r, n
    <3>2. /\ x \in Seq(Seq(E)) /\ Len(x) = Len(r)
          /\ \A i \in 1..Len(r) : x[i] = IF i = Len(r) THEN Append(r[i], c) ELSE r[i]
      BY <3>1, ExtendProperties DEF Parts
    <3> QED
      BY <2>4, <3>2, SMTT(30)
  <2>7. x = v
    <3> HIDE DEF x, v, n
    <3>1. ASSUME NEW i \in 1..Len(x) PROVE x[i] = v[i]
      <4>1. i \in 1..n + 1 /\ (i = n + 1 \/ i \in 1..n)
        BY <2>4, <2>6
      <4>2. CASE i = n + 1
        BY <2>5, <2>6, <4>1, <4>2
      <4>3. CASE i \in 1..n
        BY <2>4, <2>5, <2>6, <4>1, <4>3
      <4> QED
        BY <4>1, <4>2, <4>3
    <3> QED
      BY <2>5, <2>6, <3>1, SeqEqual
  <2> QED
    BY <2>1, <2>3, <2>7
<1>3. T \subseteq A
  <2> HIDE DEF A
  <2> QED
    BY <1>1, <1>2, SeqInductive
<1> QED
  BY <1>3

Clear == Symbols \ {CR, LF}

Eols == {<<LF>>, CRLF}

(* The CR of a line end, if it has one.                                    *)
CROf(eol) == IF eol = CRLF THEN <<CR>> ELSE <<>>

(* p consists of the lines l, none of them empty.                          *)
Lined(p, l) ==
  /\ p \in Seq(Symbols) /\ l \in Seq(Seq(Symbols))
  /\ Split(p) = Append(l, <<>>)
  /\ p # <<>> => p[Len(p)] = LF
  /\ \A i \in 1..Len(p) - 1 : p[i] = LF => p[i + 1] \in Clear

LEMMA SymbolsTyped ==
  /\ LF \in Symbols /\ CR \in Symbols /\ CR # LF
  /\ Clear \subseteq Symbols \ {LF} /\ Clear \subseteq Symbols /\ LF \notin Clear
  /\ CR \notin Clear
  /\ "S" \in Clear /\ "R" \in Clear /\ "T" \in Clear
  /\ "<" \in Clear /\ ">" \in Clear
BY DEF Symbols, Clear, CR, LF

LEMMA Single ==
  ASSUME NEW E, NEW c \in E
  PROVE  <<c>> \in Seq(E) /\ Len(<<c>>) = 1 /\ <<c>>[1] = c
OBVIOUS

LEMMA TwoJoined ==
  ASSUME NEW E, NEW a \in Seq(E), NEW b \in Seq(E), NEW w \in Seq(E),
         Len(a) = 1, Len(b) = 1, Len(w) = 2, w[1] = a[1], w[2] = b[1]
  PROVE  a \o b = w
<1>1. /\ a \o b \in Seq(E) /\ Len(a \o b) = Len(a) + Len(b)
      /\ \A i \in 1..Len(a) + Len(b) :
           (a \o b)[i] = IF i <= Len(a) THEN a[i] ELSE b[i - Len(a)]
  BY ConcatProperties
<1>2. Len(a) + Len(b) = 2 /\ 1 \in 1..2 /\ 2 \in 1..2
  OBVIOUS
<1> DEFINE v == a \o b
<1>3. v \in Seq(E) /\ Len(v) = 2 /\ v[1] = w[1] /\ v[2] = w[2]
  BY <1>1, <1>2
<1> HIDE DEF v
<1>4. \A i \in 1..Len(v) : v[i] = w[i]
  BY <1>3
<1>5. v = w
  BY <1>3, <1>4, SeqEqual
<1> QED
  BY <1>5 DEF v

LEMMA CRLFJoined == <<CR>> \o <<LF>> = CRLF
<1>1. <<CR>> \in Seq(Symbols) /\ Len(<<CR>>) = 1 /\ <<CR>>[1] = CR
  BY SymbolsTyped, Single
<1>2. <<LF>> \in Seq(Symbols) /\ Len(<<LF>>) = 1 /\ <<LF>>[1] = LF
  BY SymbolsTyped, Single
<1>3. CRLF \in Seq(Symbols) /\ Len(CRLF) = 2 /\ CRLF[1] = CR /\ CRLF[2] = LF
  BY SymbolsTyped DEF CRLF
<1> QED
  BY <1>1, <1>2, <1>3, TwoJoined

LEMMA Joined ==
  ASSUME NEW E, NEW p, NEW s \in Seq(E), NEW r \in Seq(E), NEW q \in Seq(E),
         p = s \o r
  PROVE  s \o (r \o q) = p \o q
BY ConcatAssociative

LEMMA RecordLined ==
  ASSUME NEW p, NEW l, Lined(p, l), NEW c \in Clear, NEW a \in Seq(Clear),
         NEW eol \in Eols
  PROVE  Lined(p \o Record(c, a, eol), Append(l, <<c>> \o a \o CROf(eol)))
<1> DEFINE t == <<c>> \o a \o CROf(eol)
           N == Symbols \ {LF}
           q == p \o t
           r == q \o <<LF>>
<1>1. /\ <<c>> \in Seq(Clear) /\ <<c>> \in Seq(N) /\ Len(<<c>>) = 1 /\ <<c>>[1] = c
      /\ a \in Seq(N) /\ Len(a) \in Nat
  BY SymbolsTyped, Single, SeqMonotonic, LenProperties
<1>2. CROf(eol) \in Seq(N) /\ eol = CROf(eol) \o <<LF>>
  <2>1. CR \in N
    BY SymbolsTyped
  <2>2. <<CR>> \in Seq(N) /\ <<>> \in Seq(N)
    BY <2>1, Single, EmptySeq
  <2>3. <<>> \o <<LF>> = <<LF>>
    OBVIOUS
  <2>4. <<CR>> \o <<LF>> = CRLF
    BY CRLFJoined
  <2> QED
    BY <2>2, <2>3, <2>4 DEF CROf, Eols
<1>3. <<c>> \o a \in Seq(Clear) /\ <<c>> \o a \in Seq(N)
      /\ Len(<<c>> \o a) = 1 + Len(a) /\ (<<c>> \o a)[1] = c
  <2>1. <<c>> \o a \in Seq(Clear)
    BY <1>1, ConcatProperties
  <2>2. /\ <<c>> \o a \in Seq(N) /\ Len(<<c>> \o a) = 1 + Len(a)
        /\ \A i \in 1..1 + Len(a) :
             (<<c>> \o a)[i] = IF i <= 1 THEN <<c>>[i] ELSE a[i - 1]
    BY <1>1, ConcatProperties
  <2> QED
    BY <1>1, <2>1, <2>2
<1>4. t \in Seq(N) /\ Len(t) \in Nat \ {0} /\ t[1] = c
  <2>1. /\ t \in Seq(N) /\ Len(t) = Len(<<c>> \o a) + Len(CROf(eol))
        /\ \A i \in 1..Len(<<c>> \o a) + Len(CROf(eol)) :
             t[i] = IF i <= Len(<<c>> \o a) THEN (<<c>> \o a)[i]
                    ELSE CROf(eol)[i - Len(<<c>> \o a)]
    BY <1>2, <1>3, ConcatProperties
  <2>2. Len(CROf(eol)) \in Nat
    BY <1>2, LenProperties
  <2> QED
    BY <1>1, <1>3, <2>1, <2>2
<1>5. t \in Seq(Symbols) /\ <<LF>> \in Seq(Symbols) /\ p \in Seq(Symbols)
      /\ Len(p) \in Nat
  BY <1>4, SymbolsTyped, Single, SeqMonotonic, LenProperties DEF Lined
<1>6. \A i \in 1..Len(t) : t[i] \in N
  BY <1>4, ElementOfSeq
<1>7. p \o Record(c, a, eol) = r
  <2> DEFINE k == <<c>> \o a
             e == CROf(eol)
  <2>1. k \in Seq(Symbols) /\ e \in Seq(Symbols)
    BY <1>2, <1>3, SeqMonotonic
  <2> HIDE DEF k, e
  <2>2. k \o (e \o <<LF>>) = (k \o e) \o <<LF>>
    BY <1>5, <2>1, ConcatAssociative
  <2>3. Record(c, a, eol) = k \o (e \o <<LF>>) /\ t = k \o e
    BY <1>2 DEF Record, k, e
  <2> HIDE DEF t
  <2>4. Record(c, a, eol) = t \o <<LF>>
    BY <2>2, <2>3
  <2> QED
    BY <1>5, <2>4, ConcatAssociative
<1> HIDE DEF t
<1>8. /\ q \in Seq(Symbols) /\ Len(q) = Len(p) + Len(t)
      /\ \A i \in 1..Len(q) : q[i] = IF i <= Len(p) THEN p[i] ELSE t[i - Len(p)]
  BY <1>5, ConcatProperties
<1>9. Split(q) = Append(l, t) /\ l \in Seq(Seq(Symbols))
  BY <1>4, SplitText DEF Lined
<1> HIDE DEF q
<1>10. r = Append(q, LF)
  BY <1>8, SymbolsTyped, AppendIsConcat
<1>11. /\ r \in Seq(Symbols) /\ r # <<>> /\ Len(r) = Len(q) + 1
       /\ (\A i \in 1..Len(q) : r[i] = q[i]) /\ r[Len(q) + 1] = LF
  BY <1>8, <1>10, SymbolsTyped, AppendProperties
<1>12. Split(r) = Append(Append(l, t), <<>>)
  BY <1>8, <1>9, <1>10, SymbolsTyped, SplitProperties DEF Extend
<1>13. Append(l, t) \in Seq(Seq(Symbols))
  BY <1>5, <1>9, AppendProperties
<1> HIDE DEF r
<1>14. ASSUME NEW i \in 1..Len(r) - 1, r[i] = LF PROVE r[i + 1] \in Clear
  <2>1. Len(q) = Len(p) + Len(t) /\ Len(q) \in Nat /\ i \in 1..Len(q) /\ r[i] = q[i]
    BY <1>4, <1>5, <1>8, <1>11, <1>14
  <2>2. i <= Len(p)
    BY <1>6, <1>8, <1>14, <2>1
  <2>3. p[i] = LF
    BY <1>8, <1>14, <2>1, <2>2
  <2>4. i + 1 \in 1..Len(q)
    BY <1>4, <1>5, <2>1, <2>2
  <2>5. r[i + 1] = IF i + 1 <= Len(p) THEN p[i + 1] ELSE t[i + 1 - Len(p)]
    BY <1>8, <1>11, <2>4
  <2>6. CASE i + 1 <= Len(p)
    BY <1>5, <2>1, <2>3, <2>5, <2>6 DEF Lined
  <2>7. CASE ~(i + 1 <= Len(p))
    <3>1. i + 1 - Len(p) = 1
      BY <1>5, <2>1, <2>2, <2>7
    <3> QED
      BY <1>4, <2>5, <2>7, <3>1
  <2> QED
    BY <2>6, <2>7
<1>15. r[Len(r)] = LF
  BY <1>11
<1> QED
  BY <1>7, <1>11, <1>12, <1>13, <1>14, <1>15 DEF Lined, t

-----------------------------------------------------------------------------
(* The records of a file.                                                  *)

LEMMA FunctionIsSeq ==
  ASSUME NEW S, NEW n \in Nat, NEW f \in [1..n -> S]
  PROVE  f \in Seq(S) /\ Len(f) = n
<1>1. f \in Seq(S)
  BY SeqDef
<1> QED
  BY <1>1, LenProperties

LEMMA AppendFunction ==
  ASSUME NEW S, NEW n \in Nat, NEW f \in [1..n -> S], NEW x \in S,
         NEW g \in [1..n + 1 -> S], \A i \in 1..n : g[i] = f[i], g[n + 1] = x
  PROVE  g = Append(f, x)
<1>1. f \in Seq(S) /\ Len(f) = n
  BY FunctionIsSeq
<1>3. g \in Seq(S) /\ Len(g) = n + 1
  <2>1. n + 1 \in Nat
    OBVIOUS
  <2> QED
    BY <2>1, FunctionIsSeq
<1> DEFINE h == Append(f, x)
<1>4. /\ h \in Seq(S) /\ Len(h) = n + 1
      /\ (\A i \in 1..n : h[i] = f[i]) /\ h[n + 1] = x
  BY <1>1, AppendProperties
<1>5. \A i \in 1..Len(g) : g[i] = h[i]
  <2> HIDE DEF h
  <2> SUFFICES ASSUME NEW i \in 1..n + 1 PROVE g[i] = h[i]
    BY <1>3
  <2>1. CASE i <= n
    BY <1>4, <2>1
  <2>2. CASE i = n + 1
    BY <1>4, <2>2
  <2> QED
    BY <2>1, <2>2
<1> HIDE DEF h
<1>6. g = h
  BY <1>3, <1>4, <1>5, SeqEqual
<1> QED
  BY <1>6 DEF h

LEMMA FlattenEmpty == FlattenSeq(<<>>) = <<>>
BY EmptySeq DEF FlattenSeq

LEMMA FlattenTyped ==
  ASSUME NEW E, NEW s \in Seq(Seq(E)) PROVE FlattenSeq(s) \in Seq(E)
<1>1. <<>> \in Seq(E)
  BY EmptySeq
<1> QED
  BY <1>1, FlattenProperties

LEMMA SanitizeTyped ==
  ASSUME NEW a \in Seq(Symbols) PROVE sanitizeAddr(a) \in Seq(Clear)
<1> DEFINE f == [i \in DOMAIN a |-> IF a[i] \in {CR, LF} THEN <<>> ELSE <<a[i]>>]
<1>1. Len(a) \in Nat /\ DOMAIN a = 1..Len(a) /\ \A i \in 1..Len(a) : a[i] \in Symbols
  BY LenProperties, ElementOfSeq
<1>2. f \in [1..Len(a) -> Seq(Clear)]
  <2> SUFFICES ASSUME NEW i \in 1..Len(a)
               PROVE  (IF a[i] \in {CR, LF} THEN <<>> ELSE <<a[i]>>) \in Seq(Clear)
    BY <1>1
  <2>1. CASE a[i] \in {CR, LF}
    BY <2>1, EmptySeq
  <2>2. CASE a[i] \notin {CR, LF}
    <3>1. a[i] \in Clear
      BY <1>1, <2>2 DEF Clear
    <3> QED
      BY <2>2, <3>1, Single
  <2> QED
    BY <2>1, <2>2
<1>3. f \in Seq(Seq(Clear))
  BY <1>1, <1>2, FunctionIsSeq
<1> QED
  BY <1>3, FlattenTyped DEF sanitizeAddr

LEMMA SenderTyped ==
  ASSUME NEW a \in Seq(Symbols) PROVE FormatNullSender(a) \in Seq(Symbols)
<1>1. NullSender \in Seq(Symbols)
  BY SymbolsTyped DEF NullSender
<1> QED
  BY <1>1 DEF FormatNullSender

LEMMA TrimTyped ==
  ASSUME NEW E, NEW s \in Seq(E) PROVE TrimCR(s) \in Seq(E)
<1>1. Len(s) \in Nat /\ \A i \in 1..Len(s) - 1 : s[i] \in E
  BY LenProperties, ElementOfSeq
<1>2. SubSeq(s, 1, Len(s) - 1) \in Seq(E)
  BY <1>1, SubSeqProperties
<1> QED
  BY <1>2 DEF TrimCR, Front

(* A record, without the CR of its line end, gives back letter and text.   *)
LEMMA TrimRecord ==
  ASSUME NEW c \in Clear, NEW a \in Seq(Clear), NEW eol \in Eols
  PROVE  /\ TrimCR(<<c>> \o a \o CROf(eol)) = <<c>> \o a
         /\ <<c>> \o a \in Seq(Clear) /\ <<c>> \o a # <<>>
         /\ Head(<<c>> \o a) = c /\ Tail(<<c>> \o a) = a
<1> DEFINE t == <<c>> \o a
           n == Len(a) + 1
<1>1. /\ t \in Seq(Clear) /\ Len(t) = n /\ n \in Nat \ {0}
      /\ t[1] = c /\ (\A i \in 1..Len(a) : t[i + 1] = a[i])
  <2>1. <<c>> \in Seq(Clear) /\ Len(<<c>>) = 1 /\ <<c>>[1] = c /\ Len(a) \in Nat
    BY Single, LenProperties
  <2>2. /\ t \in Seq(Clear) /\ Len(t) = 1 + Len(a)
        /\ \A i \in 1..1 + Len(a) : t[i] = IF i <= 1 THEN <<c>>[i] ELSE a[i - 1]
    BY <2>1, ConcatProperties
  <2> QED
    BY <2>1, <2>2
<1> HIDE DEF t
<1>2. t # <<>>
  BY <1>1, EmptySeq
<1>3. Head(t) = c
  BY <1>1, <1>2
<1>4. Tail(t) = a
  <2>1. /\ Tail(t) \in Seq(Clear) /\ Len(Tail(t)) = Len(a)
        /\ \A i \in 1..Len(a) : Tail(t)[i] = a[i]
    BY <1>1, <1>2, HeadTailProperties
  <2> QED
    BY <2>1, SeqEqual
<1>5. TrimCR(t \o CROf(eol)) = t
  <2>1. t \in Seq(Symbols)
    BY <1>1, SymbolsTyped, SeqMonotonic
  <2>2. CASE eol # CRLF
    <3>1. t \o CROf(eol) = t
      BY <2>1, <2>2, ConcatEmptySeq DEF CROf
    <3>2. Last(t) # CR
      <4>1. t[n] \in Clear
        BY <1>1, ElementOfSeq
      <4> QED
        BY <1>1, <4>1, SymbolsTyped DEF Last
    <3> QED
      BY <3>1, <3>2 DEF TrimCR
  <2>3. CASE eol = CRLF
    <3> DEFINE u == Append(t, CR)
    <3>1. t \o CROf(eol) = u
      BY <2>1, <2>3, SymbolsTyped, AppendIsConcat DEF CROf
    <3>2. /\ u \in Seq(Symbols) /\ Len(u) = n + 1 /\ u # <<>>
          /\ (\A i \in 1..n : u[i] = t[i]) /\ u[n + 1] = CR
      BY <1>1, <2>1, SymbolsTyped, AppendProperties
    <3> HIDE DEF u
    <3>3. TrimCR(u) = SubSeq(u, 1, n)
      BY <1>1, <3>2 DEF TrimCR, Last, Front
    <3>4. /\ SubSeq(u, 1, n) \in Seq(Symbols) /\ Len(SubSeq(u, 1, n)) = n
          /\ \A i \in 1..n : SubSeq(u, 1, n)[i] = u[i]
      <4>1. \A i \in 1..n : u[i] \in Symbols
        BY <1>1, <3>2, ElementOfSeq
      <4>2. /\ SubSeq(u, 1, n) \in Seq(Symbols)
            /\ Len(SubSeq(u, 1, n)) = IF 1 <= n THEN n - 1 + 1 ELSE 0
            /\ \A i \in 1..n - 1 + 1 : SubSeq(u, 1, n)[i] = u[1 + i - 1]
        BY <1>1, <4>1, SubSeqProperties
      <4> QED
        BY <1>1, <4>2
    <3>5. SubSeq(u, 1, n) = t
      BY <1>1, <2>1, <3>2, <3>4, SeqEqual
    <3> QED
      BY <3>1, <3>3, <3>5
  <2> QED
    BY <2>2, <2>3
<1> QED
  BY <1>1, <1>2, <1>3, <1>4, <1>5 DEF t

Trimmed(l) == [i \in DOMAIN l |-> TrimCR(l[i])]

LEMMA TrimmedAppend ==
  ASSUME NEW E, NEW l \in Seq(Seq(E)), NEW x \in Seq(E)
  PROVE  /\ Trimmed(l) \in Seq(Seq(E))
         /\ Trimmed(Append(l, x)) = Append(Trimmed(l), TrimCR(x))
<1> DEFINE n == Len(l)
           u == Append(l, x)
           f == Trimmed(l)
           g == Trimmed(u)
<1>1. n \in Nat /\ DOMAIN l = 1..n /\ \A i \in 1..n : l[i] \in Seq(E)
  BY LenProperties, ElementOfSeq
<1>2. f \in [1..n -> Seq(E)]
  BY <1>1, TrimTyped DEF Trimmed
<1>3. u \in Seq(Seq(E)) /\ Len(u) = n + 1
      /\ (\A i \in 1..n : u[i] = l[i]) /\ u[n + 1] = x
  BY AppendProperties
<1> HIDE DEF u
<1>4. DOMAIN u = 1..n + 1
  BY <1>3, LenProperties
<1>5. g = [i \in 1..n + 1 |-> IF i <= n THEN f[i] ELSE TrimCR(x)]
  <2> SUFFICES ASSUME NEW i \in 1..n + 1
               PROVE  TrimCR(u[i]) = IF i <= n THEN f[i] ELSE TrimCR(x)
    BY <1>4 DEF Trimmed
  <2>1. CASE i <= n
    BY <1>1, <1>3, <2>1 DEF Trimmed
  <2>2. CASE i = n + 1
    BY <1>1, <1>3, <2>2
  <2> QED
    BY <1>1, <2>1, <2>2
<1>6. TrimCR(x) \in Seq(E)
  BY TrimTyped
<1> HIDE DEF f, g, n
<1>7. /\ g \in [1..n + 1 -> Seq(E)]
      /\ (\A i \in 1..n : g[i] = f[i]) /\ g[n + 1] = TrimCR(x)
  BY <1>1, <1>2, <1>5, <1>6
<1>8. g = Append(f, TrimCR(x))
  BY <1>1, <1>2, <1>6, <1>7, AppendFunction
<1>9. f \in Seq(Seq(E))
  BY <1>1, <1>2, FunctionIsSeq
<1> QED
  BY <1>8, <1>9 DEF f, g, u

(* What Records makes of one line.                                         *)
Pick(line, letter) ==
  IF line # <<>> /\ Head(line) = letter THEN <<Tail(line)>> ELSE <<>>

LEMMA RecordsAppend ==
  ASSUME NEW E, NEW l \in Seq(Seq(E)), NEW x \in Seq(E), NEW c
  PROVE  /\ Records(l, c) \in Seq(Seq(E))
         /\ Records(Append(l, x), c) = Records(l, c) \o Pick(x, c)
<1> DEFINE n == Len(l)
           u == Append(l, x)
           F(k) == [i \in DOMAIN k |-> Pick(k[i], c)]
           f == F(l)
           g == F(u)
<1>1. n \in Nat /\ DOMAIN l = 1..n /\ \A i \in 1..n : l[i] \in Seq(E)
  BY LenProperties, ElementOfSeq
<1>2. ASSUME NEW line \in Seq(E) PROVE Pick(line, c) \in Seq(Seq(E))
  <2>1. <<>> \in Seq(Seq(E))
    BY EmptySeq
  <2>2. line # <<>> => Tail(line) \in Seq(E)
    BY HeadTailProperties
  <2> QED
    BY <2>1, <2>2, Single DEF Pick
<1>3. f \in [1..n -> Seq(Seq(E))]
  <2> SUFFICES ASSUME NEW i \in 1..n PROVE Pick(l[i], c) \in Seq(Seq(E))
    BY <1>1
  <2> QED
    BY <1>1, <1>2
<1>4. u \in Seq(Seq(E)) /\ Len(u) = n + 1
      /\ (\A i \in 1..n : u[i] = l[i]) /\ u[n + 1] = x
  BY AppendProperties
<1> HIDE DEF u
<1>5. DOMAIN u = 1..n + 1
  BY <1>4, LenProperties
<1>6. g = [i \in 1..n + 1 |-> IF i <= n THEN f[i] ELSE Pick(x, c)]
  <2> SUFFICES ASSUME NEW i \in 1..n + 1
               PROVE  Pick(u[i], c) = IF i <= n THEN f[i] ELSE Pick(x, c)
    BY <1>5
  <2>1. CASE i <= n
    BY <1>1, <1>4, <2>1
  <2>2. CASE i = n + 1
    BY <1>1, <1>4, <2>2
  <2> QED
    BY <1>1, <2>1, <2>2
<1>7. Pick(x, c) \in Seq(Seq(E))
  BY <1>2
<1>8. Records(l, c) = FlattenSeq(f) /\ Records(u, c) = FlattenSeq(g)
  BY DEF Records, Pick
<1> HIDE DEF f, g, n
<1>9. g = Append(f, Pick(x, c)) /\ f \in Seq(Seq(Seq(E)))
  <2>1. /\ g \in [1..n + 1 -> Seq(Seq(E))]
        /\ (\A i \in 1..n : g[i] = f[i]) /\ g[n + 1] = Pick(x, c)
    BY <1>1, <1>3, <1>6, <1>7
  <2>2. g = Append(f, Pick(x, c))
    BY <1>1, <1>3, <1>7, <2>1, AppendFunction
  <2> QED
    BY <1>1, <1>3, <2>2, FunctionIsSeq
<1>10. FlattenSeq(g) = FlattenSeq(f) \o Pick(x, c) /\ FlattenSeq(f) \in Seq(Seq(E))
  BY <1>7, <1>9, FlattenProperties
<1> QED
  BY <1>8, <1>10 DEF u

LEMMA EmptyFunction ==
  ASSUME NEW f \in [1..0 -> {}] PROVE f = <<>>
<1>1. f \in Seq({}) /\ Len(f) = 0
  BY FunctionIsSeq
<1> QED
  BY <1>1, EmptySeq

LEMMA NothingRead ==
  Trimmed(<<>>) = <<>> /\ \A c : Records(<<>>, c) = <<>>
<1>1. DOMAIN <<>> = 1..0 /\ \A i : i \notin 1..0
  BY EmptySeq, LenProperties
<1>2. Trimmed(<<>>) = <<>>
  <2>1. Trimmed(<<>>) \in [1..0 -> {}]
    BY <1>1 DEF Trimmed
  <2> QED
    BY <2>1, EmptyFunction
<1>3. ASSUME NEW c PROVE Records(<<>>, c) = <<>>
  <2> DEFINE f == [i \in DOMAIN <<>> |-> Pick(<<>>[i], c)]
  <2>1. f \in [1..0 -> {}]
    BY <1>1
  <2>2. Records(<<>>, c) = FlattenSeq(f)
    BY DEF Records, Pick
  <2> HIDE DEF f
  <2>3. f = <<>>
    BY <2>1, EmptyFunction
  <2> QED
    BY <2>2, <2>3, FlattenEmpty
<1> QED
  BY <1>2, <1>3

(* What a file with the records of from and to is read as.                 *)
Clean(rcpts) == [i \in DOMAIN rcpts |-> sanitizeAddr(rcpts[i])]
ToRecords(rcpts, eol) ==
  FlattenSeq([i \in DOMAIN rcpts |-> Record("R", sanitizeAddr(rcpts[i]), eol)])

LEMMA RecordTyped ==
  ASSUME NEW c \in Clear, NEW a \in Seq(Clear), NEW eol \in Eols
  PROVE  Record(c, a, eol) \in Seq(Symbols)
<1>1. <<c>> \in Seq(Symbols) /\ a \in Seq(Symbols)
  BY SymbolsTyped, Single, SeqMonotonic
<1>2. eol \in Seq(Symbols)
  <2>1. <<LF>> \in Seq(Symbols)
    BY SymbolsTyped, Single
  <2>2. CRLF \in Seq(Symbols)
    BY SymbolsTyped DEF CRLF
  <2> QED
    BY <2>1, <2>2 DEF Eols
<1> QED
  BY <1>1, <1>2, ConcatProperties DEF Record

LineReads(p, l, c, a, eol, k) ==
  /\ Lined(p \o Record(c, a, eol), k)
  /\ \A d : Records(Trimmed(k), d) =
       Records(Trimmed(l), d) \o (IF d = c THEN <<a>> ELSE <<>>)

LEMMA LineRead ==
  ASSUME NEW p, NEW l, Lined(p, l), NEW c \in Clear, NEW a \in Seq(Clear),
         NEW eol \in Eols
  PROVE  \E k : LineReads(p, l, c, a, eol, k)
<1> DEFINE line == <<c>> \o a \o CROf(eol)
           r == <<c>> \o a
           k == Append(l, line)
<1>1. Lined(p \o Record(c, a, eol), k)
  BY RecordLined
<1>2. /\ TrimCR(line) = r /\ r \in Seq(Clear) /\ r # <<>>
      /\ Head(r) = c /\ Tail(r) = a
  BY TrimRecord
<1>3. r \in Seq(Symbols) /\ l \in Seq(Seq(Symbols))
  BY <1>2, SymbolsTyped, SeqMonotonic DEF Lined
<1>4. line \in Seq(Symbols)
  <2>1. CROf(eol) \in Seq(Symbols)
    BY SymbolsTyped, EmptySeq, Single DEF CROf
  <2> QED
    BY <1>3, <2>1, ConcatProperties
<1> HIDE DEF line, r
<1>5. Trimmed(l) \in Seq(Seq(Symbols)) /\ Trimmed(k) = Append(Trimmed(l), r)
  BY <1>2, <1>3, <1>4, TrimmedAppend
<1> HIDE DEF k
<1>6. ASSUME NEW d
      PROVE  Records(Trimmed(k), d) =
               Records(Trimmed(l), d) \o (IF d = c THEN <<a>> ELSE <<>>)
  <2>1. Records(Trimmed(k), d) = Records(Trimmed(l), d) \o Pick(r, d)
    BY <1>3, <1>5, RecordsAppend
  <2>2. Pick(r, d) = IF d = c THEN <<a>> ELSE <<>>
    BY <1>2 DEF Pick
  <2> QED
    BY <2>1, <2>2
<1> QED
  BY <1>1, <1>6 DEF LineReads

Reads(p, f, rcpts) ==
  \E l : /\ Lined(p, l)
         /\ Records(Trimmed(l), "S") = <<f>>
         /\ Records(Trimmed(l), "R") = rcpts

LEMMA SenderRead ==
  ASSUME NEW f \in Seq(Clear), NEW eol \in Eols
  PROVE  Reads(Record("S", f, eol), f, <<>>)
<1>1. Lined(<<>>, <<>>)
  <2>1. <<>> \in Seq(Symbols) /\ <<>> \in Seq(Seq(Symbols)) /\ Len(<<>>) = 0
    BY EmptySeq
  <2>2. Append(<<>>, <<>>) = << <<>> >>
    OBVIOUS
  <2>3. \A i \in 1..Len(<<>>) - 1 : FALSE
    BY <2>1
  <2> QED
    BY <2>1, <2>2, <2>3, SplitEmpty DEF Lined
<1>2. PICK k : LineReads(<<>>, <<>>, "S", f, eol, k)
  BY <1>1, SymbolsTyped, LineRead
<1>3. <<>> \o Record("S", f, eol) = Record("S", f, eol)
  BY SymbolsTyped, RecordTyped, ConcatEmptySeq
<1>4. Records(Trimmed(k), "S") = <<f>> /\ Records(Trimmed(k), "R") = <<>>
  <2>1. <<f>> \in Seq(Seq(Clear)) /\ <<>> \in Seq(Seq(Clear))
    BY Single, EmptySeq
  <2>2. <<>> \o <<f>> = <<f>> /\ <<>> \o <<>> = <<>>
    BY <2>1, ConcatEmptySeq
  <2>3. /\ Records(Trimmed(k), "S") = Records(Trimmed(<<>>), "S") \o <<f>>
        /\ Records(Trimmed(k), "R") = Records(Trimmed(<<>>), "R") \o <<>>
    BY <1>2 DEF LineReads
  <2> QED
    BY <2>2, <2>3, NothingRead
<1> QED
  BY <1>2, <1>3, <1>4 DEF Reads, LineReads

LEMMA CleanAppend ==
  ASSUME NEW rcpts \in Seq(Seq(Symbols)), NEW x \in Seq(Symbols)
  PROVE  /\ Clean(rcpts) \in Seq(Seq(Clear))
         /\ Clean(Append(rcpts, x)) = Append(Clean(rcpts), sanitizeAddr(x))
<1> DEFINE n == Len(rcpts)
           u == Append(rcpts, x)
           f == Clean(rcpts)
           g == Clean(u)
<1>1. n \in Nat /\ DOMAIN rcpts = 1..n /\ \A i \in 1..n : rcpts[i] \in Seq(Symbols)
  BY LenProperties, ElementOfSeq
<1>2. f \in [1..n -> Seq(Clear)]
  BY <1>1, SanitizeTyped DEF Clean
<1>3. u \in Seq(Seq(Symbols)) /\ Len(u) = n + 1
      /\ (\A i \in 1..n : u[i] = rcpts[i]) /\ u[n + 1] = x
  BY AppendProperties
<1> HIDE DEF u
<1>4. DOMAIN u = 1..n + 1
  BY <1>3, LenProperties
<1>5. sanitizeAddr(x) \in Seq(Clear)
  BY SanitizeTyped
<1>6. /\ g \in [1..n + 1 -> Seq(Clear)]
      /\ (\A i \in 1..n : g[i] = f[i]) /\ g[n + 1] = sanitizeAddr(x)
  <2>1. \A i \in 1..n + 1 : u[i] \in Seq(Symbols)
    BY <1>3, ElementOfSeq
  <2> QED
    BY <1>1, <1>3, <1>4, <2>1, SanitizeTyped DEF Clean
<1> HIDE DEF f, g, n
<1>7. g = Append(f, sanitizeAddr(x))
  BY <1>1, <1>2, <1>5, <1>6, AppendFunction
<1>8. f \in Seq(Seq(Clear))
  BY <1>1, <1>2, FunctionIsSeq
<1> QED
  BY <1>7, <1>8 DEF f, g, u

LEMMA ToRecordsAppend ==
  ASSUME NEW rcpts \in Seq(Seq(Symbols)), NEW x \in Seq(Symbols),
         NEW eol \in Eols
  PROVE  /\ ToRecords(rcpts, eol) \in Seq(Symbols)
         /\ ToRecords(Append(rcpts, x), eol) =
              ToRecords(rcpts, eol) \o Record("R", sanitizeAddr(x), eol)
<1> DEFINE n == Len(rcpts)
           u == Append(rcpts, x)
           R(y) == Record("R", sanitizeAddr(y), eol)
           f == [i \in DOMAIN rcpts |-> R(rcpts[i])]
           g == [i \in DOMAIN u |-> R(u[i])]
<1>1. n \in Nat /\ DOMAIN rcpts = 1..n /\ \A i \in 1..n : rcpts[i] \in Seq(Symbols)
  BY LenProperties, ElementOfSeq
<1>2. ASSUME NEW y \in Seq(Symbols) PROVE R(y) \in Seq(Symbols)
  BY SymbolsTyped, SanitizeTyped, RecordTyped
<1>3. u \in Seq(Seq(Symbols)) /\ Len(u) = n + 1
      /\ (\A i \in 1..n : u[i] = rcpts[i]) /\ u[n + 1] = x
  BY AppendProperties
<1> HIDE DEF u, R
<1>4. DOMAIN u = 1..n + 1
  BY <1>3, LenProperties
<1>5. f \in [1..n -> Seq(Symbols)]
  BY <1>1, <1>2
<1>6. /\ g \in [1..n + 1 -> Seq(Symbols)]
      /\ (\A i \in 1..n : g[i] = f[i]) /\ g[n + 1] = R(x)
  <2>1. \A i \in 1..n + 1 : u[i] \in Seq(Symbols)
    BY <1>3, ElementOfSeq
  <2> QED
    BY <1>1, <1>2, <1>3, <1>4, <2>1
<1>7. ToRecords(rcpts, eol) = FlattenSeq(f) /\ ToRecords(u, eol) = FlattenSeq(g)
  BY DEF ToRecords, R
<1> HIDE DEF f, g, n
<1>8. R(x) \in Seq(Symbols)
  BY <1>2
<1>9. g = Append(f, R(x))
  BY <1>1, <1>5, <1>6, <1>8, AppendFunction
<1>10. f \in Seq(Seq(Symbols))
  BY <1>1, <1>5, FunctionIsSeq
<1>11. FlattenSeq(g) = FlattenSeq(f) \o R(x) /\ FlattenSeq(f) \in Seq(Symbols)
  BY <1>8, <1>9, <1>10, FlattenProperties
<1> QED
  BY <1>7, <1>11 DEF R, u

(* The envelope up to its last record is read as its sender and recipients *)
(* without their line ends, however many there are.                        *)
LEMMA RecipientsRead ==
  ASSUME NEW f \in Seq(Clear), NEW eol \in Eols,
         NEW all \in Seq(Seq(Symbols))
  PROVE  Reads(Record("S", f, eol) \o ToRecords(all, eol), f, Clean(all))
<1> DEFINE T == Seq(Seq(Symbols))
           S == Record("S", f, eol)
           A == {rcpts \in T : Reads(S \o ToRecords(rcpts, eol), f, Clean(rcpts))}
<1>1. S \in Seq(Symbols)
  BY SymbolsTyped, RecordTyped
<1>2. <<>> \in A
  <2>1. DOMAIN <<>> = 1..0 /\ \A i : i \notin 1..0
    BY EmptySeq, LenProperties
  <2>2. Clean(<<>>) \in [1..0 -> {}]
    BY <2>1 DEF Clean
  <2>3. ToRecords(<<>>, eol) = <<>>
    <3> DEFINE g == [i \in DOMAIN <<>> |-> Record("R", sanitizeAddr(<<>>[i]), eol)]
    <3>1. g \in [1..0 -> {}]
      BY <2>1
    <3>2. ToRecords(<<>>, eol) = FlattenSeq(g)
      BY DEF ToRecords
    <3> HIDE DEF g
    <3> QED
      BY <3>1, <3>2, EmptyFunction, FlattenEmpty
  <2>4. S \o <<>> = S
    BY <1>1, ConcatEmptySeq
  <2> QED
    BY <2>2, <2>3, <2>4, EmptyFunction, EmptySeq, SenderRead
<1>3. ASSUME NEW rcpts \in T \cap A, NEW x \in Seq(Symbols)
      PROVE  Append(rcpts, x) \in A
  <2> DEFINE p == S \o ToRecords(rcpts, eol)
             c == sanitizeAddr(x)
             q == Record("R", c, eol)
  <2>1. PICK l : /\ Lined(p, l)
                 /\ Records(Trimmed(l), "S") = <<f>>
                 /\ Records(Trimmed(l), "R") = Clean(rcpts)
    BY DEF Reads
  <2>2. c \in Seq(Clear)
    BY SanitizeTyped
  <2>3. q \in Seq(Symbols)
    BY <2>2, SymbolsTyped, RecordTyped
  <2>4. S \o ToRecords(Append(rcpts, x), eol) = p \o q
    <3>1. /\ ToRecords(rcpts, eol) \in Seq(Symbols)
          /\ ToRecords(Append(rcpts, x), eol) = ToRecords(rcpts, eol) \o q
      BY ToRecordsAppend
    <3> DEFINE r == ToRecords(rcpts, eol)
    <3>2. S \in Seq(Symbols) /\ r \in Seq(Symbols) /\ q \in Seq(Symbols)
      BY <1>1, <2>3, <3>1
    <3>3. p = S \o r
      OBVIOUS
    <3> HIDE DEF S, q, r, p
    <3>4. S \o (r \o q) = p \o q
      BY <3>2, <3>3, Joined, SMTT(30)
    <3>5. ToRecords(Append(rcpts, x), eol) = r \o q
      BY <3>1 DEF r
    <3> QED
      BY <3>4, <3>5
  <2> HIDE DEF p, c
  <2>5. PICK k : LineReads(p, l, "R", c, eol, k)
    BY <2>1, <2>2, SymbolsTyped, LineRead
  <2>6. Records(Trimmed(k), "S") = <<f>>
    <3>1. <<f>> \in Seq(Seq(Clear))
      BY Single
    <3>2. <<f>> \o <<>> = <<f>>
      BY <3>1, ConcatEmptySeq
    <3>3. Records(Trimmed(k), "S") = Records(Trimmed(l), "S") \o <<>>
      BY <2>5 DEF LineReads
    <3> QED
      BY <2>1, <3>2, <3>3
  <2>7. Records(Trimmed(k), "R") = Clean(Append(rcpts, x))
    <3>1. Clean(rcpts) \in Seq(Seq(Clear)) /\ Clean(Append(rcpts, x)) = Append(Clean(rcpts), c)
      BY CleanAppend DEF c
    <3>2. Append(Clean(rcpts), c) = Clean(rcpts) \o <<c>>
      BY <2>2, <3>1, AppendIsConcat
    <3>3. Records(Trimmed(k), "R") = Records(Trimmed(l), "R") \o <<c>>
      BY <2>5 DEF LineReads
    <3> QED
      BY <2>1, <3>1, <3>2, <3>3
  <2>8. Append(rcpts, x) \in T
    BY AppendProperties
  <2> QED
    BY <2>4, <2>5, <2>6, <2>7, <2>8 DEF Reads, LineReads
<1>4. T \subseteq A
  <2> HIDE DEF A
  <2> QED
    BY <1>2, <1>3, SeqInductive
<1> QED
  BY <1>4

-----------------------------------------------------------------------------
(* The blank line that ends the envelope.                                  *)

LEMMA OccursAt ==
  ASSUME NEW b \in Seq(Symbols), NEW sep \in Seq(Symbols), sep # <<>>
  PROVE  \A i : i \in Occurrences(b, sep) <=>
           /\ i \in 1..Len(b) - Len(sep) + 1
           /\ \A k \in 1..Len(sep) : b[i + k - 1] = sep[k]
<1> SUFFICES ASSUME NEW i \in 1..Len(b) - Len(sep) + 1
             PROVE  SubSeq(b, i, i + Len(sep) - 1) = sep <=>
                      \A k \in 1..Len(sep) : b[i + k - 1] = sep[k]
  BY DEF Occurrences
<1> DEFINE m == Len(sep)
           u == SubSeq(b, i, i + m - 1)
<1>1. Len(b) \in Nat /\ m \in Nat \ {0} /\ \A j \in 1..Len(b) : b[j] \in Symbols
  BY LenProperties, EmptySeq, ElementOfSeq
<1>2. i \in Int /\ i + m - 1 \in Int /\ \A j \in i..i + m - 1 : b[j] \in Symbols
  BY <1>1
<1>3. /\ u \in Seq(Symbols)
      /\ Len(u) = IF i <= i + m - 1 THEN i + m - 1 - i + 1 ELSE 0
      /\ \A k \in 1..i + m - 1 - i + 1 : u[k] = b[i + k - 1]
  <2> DEFINE e == i + m - 1
  <2>1. i \in Int /\ e \in Int /\ \A j \in i..e : b[j] \in Symbols
    BY <1>2
  <2> HIDE DEF e
  <2>2. /\ SubSeq(b, i, e) \in Seq(Symbols)
        /\ Len(SubSeq(b, i, e)) = IF i <= e THEN e - i + 1 ELSE 0
        /\ \A k \in 1..e - i + 1 : SubSeq(b, i, e)[k] = b[i + k - 1]
    BY <2>1, SubSeqProperties
  <2> QED
    BY <2>2 DEF e
<1>4. Len(u) = m /\ \A k \in 1..m : u[k] = b[i + k - 1]
  BY <1>1, <1>3, SMTT(30)
<1> HIDE DEF u
<1>5. u = sep <=> \A k \in 1..m : u[k] = sep[k]
  BY <1>3, <1>4, SeqEqual
<1> QED
  BY <1>4, <1>5 DEF u

LEMMA TwoSeparators ==
  /\ <<LF, LF>> \in Seq(Symbols) /\ Len(<<LF, LF>>) = 2 /\ <<LF, LF>> # <<>>
  /\ <<LF, LF>>[1] = LF /\ <<LF, LF>>[2] = LF
  /\ CRLF \in Seq(Symbols) /\ Len(CRLF) = 2 /\ CRLF[1] = CR /\ CRLF[2] = LF
  /\ CRLF \o CRLF \in Seq(Symbols) /\ Len(CRLF \o CRLF) = 4 /\ CRLF \o CRLF # <<>>
  /\ (CRLF \o CRLF)[1] = CR /\ (CRLF \o CRLF)[2] = LF
  /\ (CRLF \o CRLF)[3] = CR /\ (CRLF \o CRLF)[4] = LF
<1>1. /\ <<LF, LF>> \in Seq(Symbols) /\ Len(<<LF, LF>>) = 2 /\ <<LF, LF>> # <<>>
      /\ <<LF, LF>>[1] = LF /\ <<LF, LF>>[2] = LF
  BY SymbolsTyped
<1>2. CRLF \in Seq(Symbols) /\ Len(CRLF) = 2 /\ CRLF[1] = CR /\ CRLF[2] = LF
  BY SymbolsTyped DEF CRLF
<1>3. /\ CRLF \o CRLF \in Seq(Symbols) /\ Len(CRLF \o CRLF) = Len(CRLF) + Len(CRLF)
      /\ \A i \in 1..Len(CRLF) + Len(CRLF) :
           (CRLF \o CRLF)[i] = IF i <= Len(CRLF) THEN CRLF[i] ELSE CRLF[i - Len(CRLF)]
  BY <1>2, ConcatProperties
<1>4. /\ Len(CRLF \o CRLF) = 4
      /\ (CRLF \o CRLF)[1] = CR /\ (CRLF \o CRLF)[2] = LF
      /\ (CRLF \o CRLF)[3] = CR /\ (CRLF \o CRLF)[4] = LF
  BY <1>2, <1>3
<1>5. CRLF \o CRLF # <<>>
  BY <1>3, <1>4, EmptySeq
<1> QED
  BY <1>1, <1>2, <1>3, <1>4, <1>5

LEMMA SeparatorsOf ==
  ASSUME NEW b \in Seq(Symbols)
  PROVE  \A s : s \in Separators(b) <=>
           \/ /\ s = [at |-> s.at, len |-> 2] /\ s.at \in 1..Len(b) - 1
              /\ b[s.at] = LF /\ b[s.at + 1] = LF
           \/ /\ s = [at |-> s.at, len |-> 4] /\ s.at \in 1..Len(b) - 3
              /\ b[s.at] = CR /\ b[s.at + 1] = LF
              /\ b[s.at + 2] = CR /\ b[s.at + 3] = LF
<1>0. Len(b) \in Nat
  BY LenProperties
<1>1. \A i : i \in Occurrences(b, <<LF, LF>>) <=>
        i \in 1..Len(b) - 1 /\ b[i] = LF /\ b[i + 1] = LF
  <2> DEFINE sep == <<LF, LF>>
  <2>1. sep \in Seq(Symbols) /\ Len(sep) = 2 /\ sep # <<>> /\ sep[1] = LF /\ sep[2] = LF
    BY TwoSeparators
  <2> HIDE DEF sep
  <2>2. \A i : i \in Occurrences(b, sep) <=>
          /\ i \in 1..Len(b) - Len(sep) + 1
          /\ \A k \in 1..Len(sep) : b[i + k - 1] = sep[k]
    BY <2>1, OccursAt
  <2>3. ASSUME NEW i \in 1..Len(b) - 1
        PROVE  (\A k \in 1..Len(sep) : b[i + k - 1] = sep[k]) <=>
                 b[i] = LF /\ b[i + 1] = LF
    <3>1. \A k \in 1..Len(sep) : k = 1 \/ k = 2
      BY <2>1
    <3>2. i + 1 - 1 = i /\ i + 2 - 1 = i + 1 /\ 1 \in 1..Len(sep) /\ 2 \in 1..Len(sep)
      BY <2>1
    <3> QED
      BY <2>1, <3>1, <3>2
  <2>4. 1..Len(b) - Len(sep) + 1 = 1..Len(b) - 1
    BY <1>0, <2>1
  <2>5. \A i : i \in Occurrences(b, sep) <=>
          i \in 1..Len(b) - 1 /\ b[i] = LF /\ b[i + 1] = LF
    BY <2>2, <2>3, <2>4
  <2> QED
    BY <2>5 DEF sep
<1>2. \A i : i \in Occurrences(b, CRLF \o CRLF) <=>
        /\ i \in 1..Len(b) - 3
        /\ b[i] = CR /\ b[i + 1] = LF /\ b[i + 2] = CR /\ b[i + 3] = LF
  <2> DEFINE sep == CRLF \o CRLF
  <2>1. /\ sep \in Seq(Symbols) /\ Len(sep) = 4 /\ sep # <<>>
        /\ sep[1] = CR /\ sep[2] = LF /\ sep[3] = CR /\ sep[4] = LF
    BY TwoSeparators
  <2> HIDE DEF sep
  <2>2. \A i : i \in Occurrences(b, sep) <=>
          /\ i \in 1..Len(b) - Len(sep) + 1
          /\ \A k \in 1..Len(sep) : b[i + k - 1] = sep[k]
    BY <2>1, OccursAt
  <2>3. ASSUME NEW i \in 1..Len(b) - 3
        PROVE  (\A k \in 1..Len(sep) : b[i + k - 1] = sep[k]) <=>
                 b[i] = CR /\ b[i + 1] = LF /\ b[i + 2] = CR /\ b[i + 3] = LF
    <3>1. \A k \in 1..Len(sep) : k = 1 \/ k = 2 \/ k = 3 \/ k = 4
      BY <2>1
    <3>2. /\ i + 1 - 1 = i /\ i + 2 - 1 = i + 1
          /\ i + 3 - 1 = i + 2 /\ i + 4 - 1 = i + 3
          /\ 1 \in 1..Len(sep) /\ 2 \in 1..Len(sep)
          /\ 3 \in 1..Len(sep) /\ 4 \in 1..Len(sep)
      BY <2>1
    <3> QED
      BY <2>1, <3>1, <3>2
  <2>4. 1..Len(b) - Len(sep) + 1 = 1..Len(b) - 3
    BY <1>0, <2>1
  <2>5. \A i : i \in Occurrences(b, sep) <=>
          /\ i \in 1..Len(b) - 3
          /\ b[i] = CR /\ b[i + 1] = LF /\ b[i + 2] = CR /\ b[i + 3] = LF
    BY <2>2, <2>3, <2>4
  <2> QED
    BY <2>5 DEF sep
<1>3. \A s : s \in Separators(b) <=>
        \/ s = [at |-> s.at, len |-> 2] /\ s.at \in Occurrences(b, <<LF, LF>>)
        \/ s = [at |-> s.at, len |-> 4] /\ s.at \in Occurrences(b, CRLF \o CRLF)
  BY DEF Separators
<1> QED
  BY <1>1, <1>2, <1>3

LEMMA ConcatParts ==
  ASSUME NEW E, NEW p \in Seq(E), NEW q \in Seq(E)
  PROVE  /\ SubSeq(p \o q, 1, Len(p)) = p
         /\ SubSeq(p \o q, Len(p) + 1, Len(p \o q)) = q
<1> DEFINE b == p \o q
           n == Len(p)
           m == Len(q)
           u == SubSeq(b, 1, n)
           v == SubSeq(b, n + 1, n + m)
<1>1. n \in Nat /\ m \in Nat
  BY LenProperties
<1>2. /\ b \in Seq(E) /\ Len(b) = n + m
      /\ \A i \in 1..n + m : b[i] = IF i <= n THEN p[i] ELSE q[i - n]
  BY ConcatProperties
<1> HIDE DEF b
<1>3. \A i \in 1..n + m : b[i] \in E
  BY <1>2, ElementOfSeq
<1> HIDE DEF n, m
<1>4. u = p
  <2>1. 1 \in Int /\ n \in Int /\ \A i \in 1..n : b[i] \in E
    BY <1>1, <1>3
  <2>2. /\ u \in Seq(E) /\ Len(u) = IF 1 <= n THEN n - 1 + 1 ELSE 0
        /\ \A i \in 1..n - 1 + 1 : u[i] = b[1 + i - 1]
    BY <2>1, SubSeqProperties
  <2> HIDE DEF u
  <2>3. Len(u) = n /\ \A i \in 1..n : u[i] = p[i]
    BY <1>1, <1>2, <2>2
  <2> QED
    BY <2>2, <2>3, SeqEqual DEF n
<1>5. v = q
  <2> DEFINE j == n + 1
             k == n + m
  <2>1. j \in Int /\ k \in Int /\ k - j + 1 = m /\ \A i \in j..k : b[i] \in E
    BY <1>1, <1>3
  <2>2. \A i \in 1..m : b[j + i - 1] = q[i]
    <3> SUFFICES ASSUME NEW i \in 1..m PROVE b[j + i - 1] = q[i]
      OBVIOUS
    <3>1. /\ j + i - 1 = n + i /\ n + i \in 1..n + m /\ ~(n + i <= n)
          /\ (n + i) - n = i
      BY <1>1
    <3> QED
      BY <1>2, <3>1
  <2>3. j <= k <=> 1 <= m
    BY <1>1
  <2> HIDE DEF j, k
  <2>4. /\ v \in Seq(E) /\ Len(v) = IF j <= k THEN k - j + 1 ELSE 0
        /\ \A i \in 1..k - j + 1 : v[i] = b[j + i - 1]
    BY <2>1, SubSeqProperties DEF j, k
  <2> HIDE DEF v
  <2>5. Len(v) = m /\ \A i \in 1..m : v[i] = q[i]
    BY <1>1, <2>1, <2>2, <2>3, <2>4
  <2> QED
    BY <2>4, <2>5, SeqEqual DEF m
<1> QED
  BY <1>2, <1>4, <1>5 DEF b, n, m, u, v

(* An envelope whose lines are not empty ends at the blank line that was   *)
(* written, whatever follows it.                                           *)
Tight(x) ==
  /\ x \in Seq(Symbols) /\ x # <<>> /\ x[Len(x)] \in Clear
  /\ \A i \in 1..Len(x) - 1 : x[i] = LF => x[i + 1] \in Clear

CutsAt(b, x, k, body) ==
  /\ Separators(b) # {}
  /\ findBlankLine(b) = [at |-> Len(x) + 1, len |-> k]
  /\ SubSeq(b, 1, Len(x)) = x
  /\ SubSeq(b, Len(x) + 1 + k, Len(b)) = body

LEMMA BlankLineFound ==
  ASSUME NEW x, Tight(x), NEW eol \in Eols, NEW body \in Seq(Symbols)
  PROVE  CutsAt(x \o eol \o eol \o body, x, 2 * Len(eol), body)
<1> DEFINE n == Len(x)
           m == Len(eol)
           l == Len(body)
           b == x \o eol \o eol \o body
<1>0. /\ x \in Seq(Symbols) /\ x # <<>> /\ x[Len(x)] \in Clear
      /\ \A i \in 1..Len(x) - 1 : x[i] = LF => x[i + 1] \in Clear
  BY DEF Tight
<1>1. /\ eol \in Seq(Symbols)
      /\ \/ m = 1 /\ eol[1] = LF
         \/ m = 2 /\ eol[1] = CR /\ eol[2] = LF
  <2> DEFINE o == <<LF>>
  <2>1. o \in Seq(Symbols) /\ Len(o) = 1 /\ o[1] = LF
    BY SymbolsTyped, Single
  <2> HIDE DEF o
  <2>2. CASE eol = o
    BY <2>1, <2>2
  <2>3. CASE eol = CRLF
    BY <2>3, TwoSeparators
  <2> QED
    BY <2>2, <2>3 DEF o, Eols
<1>2. n \in Nat \ {0} /\ m \in Nat /\ l \in Nat
  BY <1>0, <1>1, LenProperties, EmptySeq
<1>3. /\ x \o eol \in Seq(Symbols) /\ Len(x \o eol) = n + m
      /\ \A i \in 1..n + m : (x \o eol)[i] = IF i <= n THEN x[i] ELSE eol[i - n]
  BY <1>0, <1>1, ConcatProperties
<1> DEFINE y == x \o eol
           z == y \o eol
<1> HIDE DEF y
<1>4. /\ z \in Seq(Symbols) /\ Len(z) = n + m + m
      /\ \A i \in 1..n + m + m : z[i] = IF i <= n + m THEN y[i] ELSE eol[i - (n + m)]
  BY <1>1, <1>3, ConcatProperties DEF y
<1>5. b = z \o body
  BY DEF y
<1> HIDE DEF z, b
<1>6. /\ b \in Seq(Symbols) /\ Len(b) = n + m + m + l
      /\ \A i \in 1..n + m + m + l :
           b[i] = IF i <= n + m + m THEN z[i] ELSE body[i - (n + m + m)]
  <2>1. /\ z \o body \in Seq(Symbols) /\ Len(z \o body) = Len(z) + Len(body)
        /\ \A i \in 1..Len(z) + Len(body) :
             (z \o body)[i] = IF i <= Len(z) THEN z[i] ELSE body[i - Len(z)]
    <3>1. z \in Seq(Symbols) /\ body \in Seq(Symbols)
      BY <1>4
    <3> QED
      BY <3>1, ConcatProperties
  <2> QED
    BY <1>4, <1>5, <2>1
<1>6a. Len(b) \in Nat
  BY <1>2, <1>6
<1> HIDE DEF n, m, l
<1>7. /\ \A i \in 1..n : b[i] = x[i]
      /\ \A i \in 1..m : b[n + i] = eol[i] /\ b[n + m + i] = eol[i]
      /\ \A i \in 1..l : b[n + m + m + i] = body[i]
  <2>1. ASSUME NEW i \in 1..n PROVE b[i] = x[i]
    <3>1. i \in 1..n + m + m + l /\ i \in 1..n + m + m /\ i \in 1..n + m
      BY <1>2
    <3>2. i <= n + m + m /\ i <= n + m
      BY <1>2, <3>1
    <3>2a. b[i] = z[i]
      BY <1>6, <3>1, <3>2
    <3>2b. z[i] = y[i]
      BY <1>4, <3>1, <3>2
    <3>3. y[i] = x[i]
      BY <1>2, <1>3, <3>1 DEF y
    <3> QED
      BY <3>2a, <3>2b, <3>3
  <2>2. ASSUME NEW i \in 1..m PROVE b[n + i] = eol[i] /\ b[n + m + i] = eol[i]
    <3>1. /\ n + i \in 1..n + m + m + l /\ n + i \in 1..n + m + m /\ n + i \in 1..n + m
          /\ n + m + i \in 1..n + m + m + l /\ n + m + i \in 1..n + m + m
          /\ ~(n + i <= n) /\ ~(n + m + i <= n + m)
          /\ (n + i) - n = i /\ (n + m + i) - (n + m) = i
      BY <1>2
    <3>2. b[n + i] = eol[i]
      <4>1. b[n + i] = z[n + i] /\ z[n + i] = y[n + i]
        <5> DEFINE j == n + i
        <5>1. /\ j \in 1..n + m + m + l /\ j \in 1..n + m + m
              /\ j <= n + m /\ j <= n + m + m
          BY <1>2, <3>1
        <5> HIDE DEF j
        <5>2. b[j] = z[j]
          BY <1>6, <5>1
        <5>3. z[j] = y[j]
          BY <1>4, <5>1
        <5> QED
          BY <5>2, <5>3 DEF j
      <4>2. y[n + i] = eol[i]
        BY <1>2, <1>3, <3>1 DEF y
      <4> QED
        BY <4>1, <4>2
    <3>3. b[n + m + i] = eol[i]
      <4> DEFINE j == n + m + i
      <4>1. j \in 1..n + m + m + l /\ j \in 1..n + m + m /\ ~(j <= n + m)
            /\ j - (n + m) = i /\ j <= n + m + m
        BY <1>2, <3>1
      <4> HIDE DEF j
      <4>2. b[j] = z[j]
        BY <1>6, <4>1
      <4>3. z[j] = eol[i]
        BY <1>4, <4>1
      <4> QED
        BY <4>2, <4>3 DEF j
    <3> QED
      BY <3>2, <3>3
  <2>3. ASSUME NEW i \in 1..l PROVE b[n + m + m + i] = body[i]
    <3>1. /\ n + m + m + i \in 1..n + m + m + l /\ ~(n + m + m + i <= n + m + m)
          /\ (n + m + m + i) - (n + m + m) = i
      BY <1>2
    <3> QED
      BY <1>6, <3>1
  <2> QED
    BY <2>1, <2>2, <2>3
<1> DEFINE w == [at |-> n + 1, len |-> 2 * m]
<1>8. w \in Separators(b)
  <2>1. CASE m = 1
    <3>1. n + 1 \in 1..Len(b) - 1 /\ 1 \in 1..m /\ n + 1 + 1 = n + m + 1
      BY <1>2, <1>6, <2>1
    <3>2. b[n + 1] = LF /\ b[n + 1 + 1] = LF
      BY <1>1, <1>7, <2>1, <3>1
    <3>3. w = [at |-> w.at, len |-> 2] /\ w.at = n + 1
      BY <2>1
    <3> HIDE DEF w
    <3> QED
      BY <1>6, <3>1, <3>2, <3>3, SeparatorsOf
  <2>2. CASE m = 2
    <3>1. /\ n + 1 \in 1..Len(b) - 3 /\ 1 \in 1..m /\ 2 \in 1..m
          /\ n + 1 + 1 = n + 2 /\ n + 1 + 2 = n + m + 1 /\ n + 1 + 3 = n + m + 2
      BY <1>2, <1>6, <2>2
    <3>2. /\ b[n + 1] = CR /\ b[n + 1 + 1] = LF
          /\ b[n + 1 + 2] = CR /\ b[n + 1 + 3] = LF
      <4>1. eol[1] = CR /\ eol[2] = LF
        BY <1>1, <2>2 DEF m
      <4>2. /\ b[n + 1] = eol[1] /\ b[n + 2] = eol[2]
            /\ b[n + m + 1] = eol[1] /\ b[n + m + 2] = eol[2]
        BY <1>7, <3>1
      <4> QED
        BY <3>1, <4>1, <4>2
    <3>3. w = [at |-> w.at, len |-> 4] /\ w.at = n + 1
      BY <2>2
    <3> HIDE DEF w
    <3> QED
      BY <1>6, <3>1, <3>2, <3>3, SeparatorsOf
  <2> QED
    BY <1>1, <2>1, <2>2 DEF m
<1>9. ASSUME NEW s \in Separators(b) PROVE s.at \in Nat /\ s.at >= n + 1
  <2>1. x[n] \in Clear /\ \A i \in 1..n - 1 : x[i] = LF => x[i + 1] \in Clear
    BY <1>0 DEF n
  <2> DEFINE a == s.at
  <2> HIDE DEF a
  <2>2. CASE a \in 1..Len(b) - 1 /\ b[a] = LF /\ b[a + 1] = LF
    <3>1. ASSUME a <= n PROVE FALSE
      <4>1. a \in 1..n
        BY <1>2, <1>6a, <2>2, <3>1
      <4>2. x[a] = LF
        BY <1>7, <2>2, <4>1
      <4>3. a # n
        BY <2>1, <4>2, SymbolsTyped
      <4>4. a \in 1..n - 1 /\ a + 1 \in 1..n
        BY <1>2, <4>1, <4>3
      <4> QED
        BY <1>7, <2>1, <2>2, <4>2, <4>4, SymbolsTyped
    <3> QED
      BY <1>2, <1>6a, <2>2, <3>1 DEF a
  <2>3. CASE /\ a \in 1..Len(b) - 3 /\ b[a] = CR /\ b[a + 1] = LF
             /\ b[a + 2] = CR
    <3>1. ASSUME a <= n PROVE FALSE
      <4>1. a \in 1..n
        BY <1>2, <1>6a, <2>3, <3>1
      <4>2. x[a] = CR
        BY <1>7, <2>3, <4>1
      <4>3. a # n
        BY <2>1, <4>2, SymbolsTyped
      <4>4. a + 1 \in 1..n
        BY <1>2, <4>1, <4>3
      <4>5. x[a + 1] = LF
        BY <1>7, <2>3, <4>4
      <4>6. a + 1 # n
        BY <2>1, <4>5, SymbolsTyped
      <4>7. a + 1 \in 1..n - 1 /\ a + 2 \in 1..n /\ (a + 1) + 1 = a + 2
        BY <1>2, <4>1, <4>4, <4>6
      <4>8. x[a + 2] \in Clear
        BY <2>1, <4>5, <4>7
      <4> QED
        BY <1>7, <2>3, <4>7, <4>8, SymbolsTyped
    <3> QED
      BY <1>2, <1>6a, <2>3, <3>1 DEF a
  <2> QED
    BY <1>6, <2>2, <2>3, SeparatorsOf DEF a
<1>10. ASSUME NEW s \in Separators(b), s.at = n + 1 PROVE s = w
  <2>1. b[n + 1] = eol[1]
    <3>1. 1 \in 1..m
      BY <1>1 DEF m
    <3> QED
      BY <1>7, <3>1
  <2>2. CASE s = [at |-> s.at, len |-> 2] /\ b[s.at] = LF
    <3>1. m = 1
      BY <1>1, <1>10, <2>1, <2>2, SymbolsTyped DEF m
    <3> QED
      BY <1>10, <2>2, <3>1
  <2>3. CASE s = [at |-> s.at, len |-> 4] /\ b[s.at] = CR
    <3>1. m = 2
      BY <1>1, <1>10, <2>1, <2>3, SymbolsTyped DEF m
    <3> QED
      BY <1>10, <2>3, <3>1
  <2> QED
    BY <1>6, <2>2, <2>3, SeparatorsOf
<1>11. findBlankLine(b) = w
  <2> DEFINE First(s) == s \in Separators(b) /\ \A t \in Separators(b) : s.at <= t.at
  <2>1. w.at = n + 1
    OBVIOUS
  <2> HIDE DEF w
  <2>2. First(w)
    BY <1>8, <1>9, <2>1
  <2>3. ASSUME NEW s, First(s) PROVE s = w
    <3>1. s \in Separators(b) /\ s.at \in Nat /\ s.at >= n + 1 /\ s.at <= w.at
      BY <1>8, <1>9, <2>3
    <3>2. s.at = n + 1
      BY <1>2, <2>1, <3>1
    <3> QED
      BY <1>10, <3>1, <3>2
  <2> QED
    BY <2>2, <2>3 DEF findBlankLine
<1>12. SubSeq(b, 1, Len(x)) = x
  <2> DEFINE e == eol \o eol
             r == e \o body
  <2>1. e \in Seq(Symbols) /\ r \in Seq(Symbols)
    BY <1>1, ConcatProperties
  <2>2. z = x \o e
    BY <1>0, <1>1, ConcatAssociative DEF z, y
  <2> HIDE DEF e
  <2>3. (x \o e) \o body = x \o r
    <3>1. x \in Seq(Symbols) /\ e \in Seq(Symbols) /\ body \in Seq(Symbols)
      BY <1>0, <2>1
    <3> HIDE DEF y, z, b, w
    <3> QED
      BY <3>1, ConcatAssociative
  <2>4. b = x \o r
    BY <1>5, <2>2, <2>3
  <2> HIDE DEF r
  <2>5. SubSeq(x \o r, 1, Len(x)) = x
    BY <1>0, <2>1, ConcatParts
  <2> QED
    BY <2>4, <2>5
<1>13. SubSeq(b, Len(z) + 1, Len(b)) = body
  <2>1. z \in Seq(Symbols) /\ body \in Seq(Symbols)
    BY <1>4
  <2>2. SubSeq(z \o body, Len(z) + 1, Len(z \o body)) = body
    BY <2>1, ConcatParts
  <2> QED
    BY <1>5, <2>2
<1>14. Len(z) + 1 = n + 1 + 2 * m
  BY <1>2, <1>4
<1> QED
  BY <1>8, <1>11, <1>12, <1>13, <1>14 DEF n, m, b, CutsAt

LEMMA ParseRead ==
  ASSUME NEW x \in Seq(Symbols), NEW b, NEW f, NEW rs, NEW k, NEW body,
         CutsAt(b, x, k, body),
         Records(Trimmed(Split(x)), "S") = <<f>>,
         Records(Trimmed(Split(x)), "R") = rs
  PROVE  Parse(b) = [from |-> f, to |-> rs, body |-> body]
<1>1. Len(x) \in Nat /\ (Len(x) + 1) - 1 = Len(x)
  BY LenProperties
<1> DEFINE sep == findBlankLine(b)
<1>2. sep.at = Len(x) + 1 /\ sep.len = k
  BY DEF CutsAt
<1> HIDE DEF sep
<1>3. Split(SubSeq(b, 1, sep.at - 1)) = Split(x)
  BY <1>1, <1>2 DEF CutsAt
<1>4. SubSeq(b, sep.at + sep.len, Len(b)) = body
  BY <1>2 DEF CutsAt
<1>5. <<f>> # <<>> /\ Last(<<f>>) = f
  BY DEF Last
<1>6. Separators(b) # {}
  BY DEF CutsAt
<1> QED
  BY <1>3, <1>4, <1>5, <1>6 DEF Parse, Trimmed, sep

LEMMA Regrouped ==
  ASSUME NEW p \in Seq(Symbols), NEW t \in Seq(Symbols), NEW e \in Seq(Symbols),
         NEW q, q = t \o e
  PROVE  p \o q \o e = (p \o t) \o e \o e
BY ConcatAssociative, SMTT(30)

LEMMA ParseInverts ==
  ASSUME NEW from0 \in Seq(Symbols), NEW rs \in Seq(Seq(Symbols)),
         NEW body0 \in Seq(Symbols), NEW eol \in Eols,
         NEW m, m.from = from0, m.to = rs, m.body = body0
  PROVE  Parse(FormatEnvelope(m, eol)) = Stored(m)
<1> DEFINE f == sanitizeAddr(FormatNullSender(from0))
           S == Record("S", f, eol)
           p == S \o ToRecords(rs, eol)
           t == <<"T">>
           x == p \o t
           b == x \o eol \o eol \o body0
<1>1. f \in Seq(Clear)
  BY SenderTyped, SanitizeTyped
<1>2. S \in Seq(Symbols) /\ ToRecords(rs, eol) \in Seq(Symbols) /\ p \in Seq(Symbols)
  <2>1. S \in Seq(Symbols)
    BY <1>1, SymbolsTyped, RecordTyped
  <2>2. ToRecords(rs, eol) \in Seq(Symbols)
    BY EmptySeq, ToRecordsAppend
  <2> QED
    BY <2>1, <2>2, ConcatProperties
<1>3. t \in Seq(Symbols) /\ t \in Seq(Symbols \ {LF}) /\ Len(t) = 1 /\ t[1] = "T"
      /\ Record("T", <<>>, eol) = t \o eol
  <2>1. t \in Seq(Symbols) /\ t \in Seq(Symbols \ {LF}) /\ Len(t) = 1 /\ t[1] = "T"
    BY SymbolsTyped, Single
  <2>2. t \o <<>> = t
    BY <2>1, ConcatEmptySeq
  <2> QED
    BY <2>1, <2>2 DEF Record
<1>4. eol \in Seq(Symbols)
  <2>1. <<LF>> \in Seq(Symbols) /\ CRLF \in Seq(Symbols)
    BY SymbolsTyped, Single, TwoSeparators
  <2> QED
    BY <2>1 DEF Eols
<1>5. FormatEnvelope(m, eol) = b
  <2>1. Envelope(m, eol) = p \o Record("T", <<>>, eol) \o eol
    BY DEF Envelope, ToRecords
  <2>2. p \in Seq(Symbols) /\ t \in Seq(Symbols) /\ eol \in Seq(Symbols)
    BY <1>2, <1>3, <1>4
  <2> DEFINE q == Record("T", <<>>, eol)
  <2>3. q = t \o eol
    BY <1>3
  <2>4. p \o q \o eol = x \o eol \o eol
    <3> HIDE DEF p, t, f, S, b, q
    <3> QED
      BY <2>2, <2>3, Regrouped
  <2> QED
    BY <2>1, <2>4 DEF FormatEnvelope
<1>6. Reads(p, f, Clean(rs))
  BY <1>1, RecipientsRead
<1> HIDE DEF f, S, t
<1>7. PICK l : /\ Lined(p, l)
               /\ Records(Trimmed(l), "S") = <<f>>
               /\ Records(Trimmed(l), "R") = Clean(rs)
  <2> HIDE DEF p
  <2> QED
    BY <1>6 DEF Reads
<1> HIDE DEF p
<1>8. /\ x \in Seq(Symbols) /\ Len(x) = Len(p) + 1 /\ Len(p) \in Nat
      /\ (\A i \in 1..Len(p) : x[i] = p[i]) /\ x[Len(p) + 1] = "T"
  <2>1. Len(p) \in Nat
    BY <1>2, LenProperties
  <2>2. /\ x \in Seq(Symbols) /\ Len(x) = Len(p) + Len(t)
        /\ \A i \in 1..Len(p) + Len(t) :
             x[i] = IF i <= Len(p) THEN p[i] ELSE t[i - Len(p)]
    BY <1>2, <1>3, ConcatProperties, ZenonT(30)
  <2>3. Len(t) = 1 /\ t[1] = "T"
    BY <1>3
  <2> HIDE DEF x
  <2>4. \A i \in 1..Len(p) : x[i] = p[i]
    BY <2>1, <2>2, <2>3
  <2>5. x[Len(p) + 1] = t[1]
    <3>1. Len(p) + 1 \in 1..Len(p) + Len(t) /\ ~(Len(p) + 1 <= Len(p))
          /\ (Len(p) + 1) - Len(p) = 1
      BY <2>1, <2>3
    <3> QED
      BY <2>2, <3>1
  <2> QED
    BY <2>1, <2>2, <2>3, <2>4, <2>5
<1>9. Split(x) = Append(l, t) /\ l \in Seq(Seq(Symbols))
  BY <1>2, <1>3, <1>7, SplitText, ZenonT(30) DEF Lined
<1> HIDE DEF x
<1>10. x # <<>> /\ x[Len(x)] \in Clear
  BY <1>8, EmptySeq, SymbolsTyped
<1>11. ASSUME NEW i \in 1..Len(x) - 1, x[i] = LF PROVE x[i + 1] \in Clear
  <2>1. i \in 1..Len(p) /\ p[i] = LF
    BY <1>8, <1>11
  <2>2. CASE i = Len(p)
    BY <1>8, <2>2, SymbolsTyped
  <2>3. CASE i # Len(p)
    <3>1. i \in 1..Len(p) - 1 /\ i + 1 \in 1..Len(p)
      BY <1>8, <2>1, <2>3
    <3> QED
      BY <1>7, <1>8, <2>1, <3>1 DEF Lined
  <2> QED
    BY <2>2, <2>3
<1>12. CutsAt(b, x, 2 * Len(eol), body0)
  <2>1. Tight(x)
    BY <1>8, <1>10, <1>11 DEF Tight
  <2> QED
    BY <2>1, BlankLineFound
<1>13. Trimmed(Split(x)) = Append(Trimmed(l), t) /\ Trimmed(l) \in Seq(Seq(Symbols))
  <2>1. TrimCR(t) = t
    BY <1>3, SymbolsTyped DEF TrimCR, Last
  <2> QED
    BY <1>3, <1>9, <2>1, TrimmedAppend
<1>14. ASSUME NEW c, c # "T"
       PROVE  Records(Trimmed(Split(x)), c) = Records(Trimmed(l), c)
  <2>1. /\ Records(Trimmed(l), c) \in Seq(Seq(Symbols))
        /\ Records(Trimmed(Split(x)), c) = Records(Trimmed(l), c) \o Pick(t, c)
    <3> DEFINE u == Trimmed(l)
    <3>1. u \in Seq(Seq(Symbols)) /\ t \in Seq(Symbols)
      BY <1>3, <1>13
    <3> HIDE DEF u
    <3>2. /\ Records(u, c) \in Seq(Seq(Symbols))
          /\ Records(Append(u, t), c) = Records(u, c) \o Pick(t, c)
      BY <3>1, RecordsAppend, ZenonT(30)
    <3> QED
      BY <1>13, <3>2 DEF u
  <2>2. Pick(t, c) = <<>>
    <3>1. t # <<>> => Head(t) = "T"
      BY <1>3
    <3> QED
      BY <1>14, <3>1 DEF Pick
  <2> QED
    BY <2>1, <2>2, ConcatEmptySeq
<1> HIDE DEF b
<1>15. Parse(b) = [from |-> f, to |-> Clean(rs), body |-> body0]
  <2>1. /\ Records(Trimmed(Split(x)), "S") = <<f>>
        /\ Records(Trimmed(Split(x)), "R") = Clean(rs)
    BY <1>7, <1>14
  <2> DEFINE k == 2 * Len(eol)
             rc == Clean(rs)
  <2>2. CutsAt(b, x, k, body0) /\ Records(Trimmed(Split(x)), "R") = rc
    BY <1>12, <2>1
  <2> HIDE DEF k, rc
  <2>3. Parse(b) = [from |-> f, to |-> rc, body |-> body0]
    BY <1>8, <2>1, <2>2, ParseRead
  <2> QED
    BY <2>3 DEF rc
<1> QED
  BY <1>5, <1>15 DEF Stored, Clean, f

(* Only the beginning reads the file.                                      *)
LEMMA StaysFile ==
  ASSUME [Next]_vars PROVE UNCHANGED <<message, msg>> /\ (pc' = "file" => pc' = pc)
<1>1. CASE Client
  BY <1>1 DEF Client, Start, ReplyContinues, Refused, SendEhlo, SendMail, SendRcpt,
       SendData, BeginBody, SendLine, SendDot, SendQuit, QuitEnds, Goto, Return,
       clientVars
<1>2. CASE Server
  BY <1>2 DEF Server, Greet, ServeEhlo, ServeMail, ServeRcpt, ServeData, ServeQuit,
       ServeOther, LongLine, SkipLine, KeepLine, RejectContent, AcceptContent,
       ContentCut, CommandCut, Interrupt, clientVars
<1>3. CASE Environment
  BY <1>3 DEF Environment, DialFails, WriteFails, ContentDeadline, Interrupt,
       ServerCloses, LinkFails, Return, clientVars
<1>4. CASE UNCHANGED vars
  BY <1>4 DEF vars, clientVars
<1> QED
  BY <1>1, <1>2, <1>3, <1>4 DEF Next

(* Parse is the inverse of FormatEnvelope for every message whose fields   *)
(* are of the symbols, of any length.                                      *)
THEOREM RoundTripCorrect == Spec => []RoundTrip
<1>1. Init => RoundTrip
  <2> SUFFICES ASSUME Init, pc = "file" PROVE msg = Stored(message)
    BY DEF RoundTrip
  <2>1. InitReplay
    BY DEF Init, InitOther
  <2>2. /\ message.from \in Seq(Symbols) /\ message.to \in Seq(Seq(Symbols))
        /\ message.body \in Seq(Symbols)
    BY <2>1, MessagesAssumption DEF InitReplay
  <2>3. PICK eol \in Eols : msg = Parse(FormatEnvelope(message, eol))
    BY <2>1 DEF InitReplay, Eols
  <2> QED
    BY <2>2, <2>3, ParseInverts
<1>2. RoundTrip /\ [Next]_vars => RoundTrip'
  <2> SUFFICES ASSUME RoundTrip, [Next]_vars, pc' = "file" PROVE msg' = Stored(message')
    BY DEF RoundTrip
  <2>1. UNCHANGED <<pc, message, msg>>
    BY StaysFile
  <2> QED
    BY <2>1 DEF RoundTrip, Stored
<1> QED
  BY <1>1, <1>2, PTL DEF Spec

-----------------------------------------------------------------------------
(* The lines of a stream.                                                  *)

LEMMA LeastExists ==
  ASSUME NEW I, I \subseteq Nat, NEW n \in I
  PROVE  Min(I) \in I /\ \A y \in I : Min(I) <= y
<1>1. \E x \in I : \A y \in I : x <= y
  <2> SUFFICES ASSUME \A x \in I : \E y \in I : ~(x <= y) PROVE FALSE
    OBVIOUS
  <2> DEFINE A == {k \in Nat : \A j \in 0..k : j \notin I}
  <2>1. 0 \in A
    OBVIOUS
  <2>2. ASSUME NEW k \in A \cap Nat PROVE k + 1 \in A
    <3>1. \A j \in 0..k : j \notin I
      OBVIOUS
    <3>2. k + 1 \notin I
      <4> SUFFICES ASSUME k + 1 \in I PROVE FALSE
        OBVIOUS
      <4>1. PICK y \in I : ~(k + 1 <= y)
        OBVIOUS
      <4>2. y \in 0..k
        BY <4>1
      <4> QED
        BY <3>1, <4>2
    <3>3. \A j \in 0..k + 1 : j \in 0..k \/ j = k + 1
      OBVIOUS
    <3> QED
      BY <3>1, <3>2, <3>3
  <2>3. Nat \subseteq A
    <3> HIDE DEF A
    <3> QED
      BY <2>1, <2>2, NatInductive
  <2>4. n \in A /\ n \in 0..n
    BY <2>3
  <2> QED
    BY <2>4
<1> QED
  BY <1>1 DEF Min

LEMMA PartTyped ==
  ASSUME NEW E, NEW s \in Seq(E), NEW i \in Nat \ {0}, NEW j \in Int, j <= Len(s)
  PROVE  SubSeq(s, i, j) \in Seq(E)
<1>1. \A k \in i..j : s[k] \in E
  BY LenProperties, ElementOfSeq
<1> QED
  BY <1>1, SubSeqProperties

(* What SubSeq takes from the front of a sequence.                         *)
Begins(E, s, k, v) ==
  v \in Seq(E) /\ Len(v) = k /\ \A i \in 1..k : v[i] = s[i]

LEMMA BeginsProperties ==
  ASSUME NEW E, NEW s \in Seq(E), NEW k \in Nat, k <= Len(s)
  PROVE  Begins(E, s, k, SubSeq(s, 1, k))
<1>1. \A i \in 1..k : s[i] \in E
  BY LenProperties, ElementOfSeq
<1>2. /\ k \in Int /\ (IF 1 <= k THEN k - 1 + 1 ELSE 0) = k
      /\ \A i \in 1..k : i \in 1..k - 1 + 1 /\ 1 + i - 1 = i
  OBVIOUS
<1> DEFINE v == SubSeq(s, 1, k)
<1>3. /\ v \in Seq(E) /\ Len(v) = (IF 1 <= k THEN k - 1 + 1 ELSE 0)
      /\ \A i \in 1..k - 1 + 1 : v[i] = s[1 + i - 1]
  BY <1>1, <1>2, SubSeqProperties
<1> HIDE DEF v
<1>4. v \in Seq(E) /\ Len(v) = k /\ \A i \in 1..k : v[i] = s[i]
  BY <1>2, <1>3
<1> QED
  BY <1>4 DEF v, Begins

LEMMA FrontProperties ==
  ASSUME NEW E, NEW s \in Seq(E), Len(s) # 0
  PROVE  Begins(E, s, Len(s) - 1, Front(s))
<1> DEFINE k == Len(s) - 1
<1>1. k \in Nat /\ k <= Len(s)
  BY LenProperties
<1>2. Front(s) = SubSeq(s, 1, k)
  BY DEF Front
<1> HIDE DEF k
<1>3. Begins(E, s, k, Front(s))
  BY <1>1, <1>2, BeginsProperties
<1> QED
  BY <1>3 DEF k

(* The first line of the stream, its text and its LF, and what follows.    *)
NextLine(line, rest) ==
  /\ line \in Seq(Symbols) /\ rest \in Seq(Symbols)
  /\ Front(line) \in Seq(Symbols \ {LF})
  /\ line = Front(line) \o <<LF>>
  /\ Len(line) \in Nat \ {0}
  /\ Len(line) <= Len(wire)
  /\ \A i \in 1..Len(line) : line[i] = wire[i]
  /\ \A i \in 1..Len(line) : line[i] = LF <=> i = Len(line)

LEMMA NextLineFound ==
  ASSUME wire \in Seq(Symbols), HasLine
  PROVE  NextLine(FirstLine, AfterLine)
<1> DEFINE I == {i \in 1..Len(wire) : wire[i] = LF}
           n == Min(I)
           line == SubSeq(wire, 1, n)
<1>1. Len(wire) \in Nat /\ DOMAIN wire = 1..Len(wire)
  BY LenProperties
<1>2. I \subseteq Nat /\ \E i \in I : TRUE
  BY <1>1 DEF HasLine, Range
<1>3. n \in I /\ \A y \in I : n <= y
  <2> HIDE DEF I
  <2> QED
    BY <1>2, LeastExists
<1>4. SelectInSeq(wire, LAMBDA c : c = LF) = n
  BY <1>2 DEF SelectInSeq
<1>5. FirstLine = line
  BY <1>4 DEF FirstLine
<1>6. /\ n \in 1..Len(wire) /\ wire[n] = LF
      /\ \A i \in 1..n - 1 : wire[i] # LF
  <2> HIDE DEF n
  <2>1. n \in 1..Len(wire) /\ wire[n] = LF
    BY <1>3
  <2>2. ASSUME NEW i \in 1..n - 1, wire[i] = LF PROVE FALSE
    <3>1. i \in 1..Len(wire) /\ ~(n <= i)
      BY <1>1, <2>1
    <3>2. i \in I
      BY <2>2, <3>1
    <3> QED
      BY <1>3, <3>1, <3>2
  <2> QED
    BY <2>1, <2>2
<1> HIDE DEF I, n
<1>7. /\ line \in Seq(Symbols) /\ Len(line) = n
      /\ \A i \in 1..n : line[i] = wire[i]
  <2>1. n \in Nat /\ n <= Len(wire)
    BY <1>1, <1>6
  <2> QED
    BY <2>1, BeginsProperties DEF Begins
<1> HIDE DEF line
<1> DEFINE t == Front(line)
<1>8. /\ t \in Seq(Symbols \ {LF}) /\ Len(t) = n - 1
      /\ \A i \in 1..n - 1 : t[i] = line[i]
  <2>1. t \in Seq(Symbols) /\ Len(t) = n - 1 /\ \A i \in 1..n - 1 : t[i] = line[i]
    <3>1. Len(line) # 0
      BY <1>6, <1>7
    <3> QED
      BY <1>7, <3>1, FrontProperties DEF Begins
  <2> HIDE DEF t
  <2>2. \A i \in 1..n - 1 : t[i] \in Symbols \ {LF}
    BY <1>1, <1>6, <1>7, <2>1, ElementOfSeq
  <2>3. t \in [1..n - 1 -> Symbols \ {LF}] /\ n - 1 \in Nat
    BY <1>6, <2>1, <2>2, LenProperties
  <2>4. t \in Seq(Symbols \ {LF})
    <3> DEFINE m == n - 1
    <3>1. m \in Nat /\ t \in [1..m -> Symbols \ {LF}]
      BY <2>3
    <3> HIDE DEF m
    <3> QED
      BY <3>1, FunctionIsSeq
  <2> QED
    BY <2>1, <2>4
<1>9. line = t \o <<LF>>
  <2> DEFINE o == <<LF>>
             u == t \o o
  <2>1. o \in Seq(Symbols) /\ Len(o) = 1 /\ o[1] = LF
    BY SymbolsTyped, Single
  <2>2. t \in Seq(Symbols)
    BY <1>8, SeqMonotonic
  <2> HIDE DEF o, t
  <2>3. /\ u \in Seq(Symbols) /\ Len(u) = Len(t) + Len(o)
        /\ \A i \in 1..Len(t) + Len(o) : u[i] = IF i <= Len(t) THEN t[i] ELSE o[i - Len(t)]
    BY <2>1, <2>2, ConcatProperties
  <2> HIDE DEF u
  <2>4. Len(u) = n /\ \A i \in 1..n : u[i] = line[i]
    <3>1. Len(t) + Len(o) = n
      BY <1>6, <1>8, <2>1
    <3>2. ASSUME NEW i \in 1..n PROVE u[i] = line[i]
      <4>1. CASE i = n
        <5>1. /\ n \in 1..Len(t) + Len(o) /\ n \in 1..n
              /\ ~(n <= Len(t)) /\ n - Len(t) = 1
          BY <1>6, <1>8, <3>1
        <5>2. u[n] = o[1]
          BY <2>3, <5>1
        <5>3. line[n] = LF
          BY <1>6, <1>7, <5>1
        <5> QED
          BY <2>1, <4>1, <5>2, <5>3
      <4>2. CASE i # n
        <5>1. i \in 1..n - 1 /\ i <= Len(t)
          BY <1>6, <1>8, <4>2
        <5> QED
          BY <1>8, <2>3, <3>1, <5>1
      <4> QED
        BY <4>1, <4>2
    <3> QED
      BY <2>3, <3>1, <3>2
  <2>5. line = u
    BY <1>7, <2>3, <2>4, SeqEqual
  <2> QED
    BY <2>5 DEF u, o
<1>10. AfterLine \in Seq(Symbols)
  <2>1. AfterLine = SubSeq(wire, n + 1, Len(wire))
    BY <1>5, <1>7 DEF AfterLine
  <2>2. n + 1 \in Nat \ {0} /\ Len(wire) \in Int /\ Len(wire) <= Len(wire)
    BY <1>1, <1>6
  <2> QED
    BY <2>1, <2>2, PartTyped
<1>11. \A i \in 1..n : line[i] = LF <=> i = n
  BY <1>6, <1>7
<1>12. n \in Nat \ {0} /\ n <= Len(wire)
  BY <1>1, <1>6
<1> QED
  BY <1>5, <1>7, <1>8, <1>9, <1>10, <1>11, <1>12 DEF NextLine

LEMMA HeadTyped ==
  ASSUME NEW E, NEW s \in Seq(E), s # <<>>
  PROVE  Head(s) \in E /\ Tail(s) \in Seq(E)
BY HeadTailProperties

LEMMA UnstuffedTyped ==
  ASSUME NEW t \in Seq(Symbols)
  PROVE  Unstuffed(t) \in Seq(Symbols) /\ Len(Unstuffed(t)) <= Len(t)
<1>1. CASE t # <<>> /\ Head(t) = "."
  <2>1. Tail(t) \in Seq(Symbols) /\ Len(Tail(t)) = Len(t) - 1 /\ Len(t) \in Nat
    BY <1>1, HeadTailProperties, LenProperties
  <2> QED
    BY <1>1, <2>1 DEF Unstuffed
<1>2. CASE ~(t # <<>> /\ Head(t) = ".")
  BY <1>2, LenProperties DEF Unstuffed
<1> QED
  BY <1>1, <1>2

LEMMA DotTyped ==
  /\ <<".">> \in Seq(Symbols) /\ <<"<">> \in Seq(Symbols) /\ <<">">> \in Seq(Symbols)
  /\ CRLF \in Seq(Symbols)
<1>1. "." \in Symbols /\ "<" \in Symbols /\ ">" \in Symbols
  BY DEF Symbols
<1>2. CRLF \in Seq(Symbols)
  BY SymbolsTyped DEF CRLF
<1> QED
  BY <1>1, <1>2, Single

LEMMA StuffedTyped ==
  ASSUME NEW t \in Seq(Symbols)
  PROVE  Stuffed(t) \in Seq(Symbols)
<1>1. <<".">> \o t \in Seq(Symbols)
  BY DotTyped, ConcatProperties
<1> QED
  BY <1>1 DEF Stuffed

LEMMA CommandTyped ==
  ASSUME NEW v \in Symbols, NEW a \in Seq(Symbols)
  PROVE  Command(v, a) \in Seq(Symbols)
<1>1. <<v>> \in Seq(Symbols) /\ CRLF \in Seq(Symbols)
  BY Single, DotTyped
<1>2. <<v>> \o a \in Seq(Symbols)
  BY <1>1, ConcatProperties
<1> HIDE DEF CRLF
<1>3. (<<v>> \o a) \o CRLF \in Seq(Symbols)
  BY <1>1, <1>2, ConcatProperties
<1> QED
  BY <1>3 DEF Command

LEMMA PathTyped ==
  ASSUME NEW a \in Seq(Symbols)
  PROVE  <<"<">> \o a \o <<">">> \in Seq(Symbols)
<1>1. <<"<">> \o a \in Seq(Symbols)
  BY DotTyped, ConcatProperties
<1> QED
  BY <1>1, DotTyped, ConcatProperties

LEMMA FormatTyped ==
  ASSUME NEW a \in Seq(Symbols)
  PROVE  formatSender(a) \in Seq(Symbols)
<1>1. NullSender \in Seq(Symbols)
  BY SymbolsTyped DEF NullSender
<1> QED
  BY <1>1, PathTyped DEF formatSender

LEMMA BodyLinesTyped ==
  ASSUME NEW b \in Seq(Symbols)
  PROVE  BodyLines(b) \in Seq(Seq(Symbols))
<1> DEFINE parts == Split(b)
           n == Len(parts)
           lines == [i \in DOMAIN parts |->
                       IF i < Len(parts) THEN TrimCR(parts[i]) ELSE parts[i]]
<1>1. parts \in Seq(Seq(Symbols)) /\ parts # <<>>
  BY SymbolsTyped, SplitProperties DEF Parts
<1>2. n \in Nat \ {0} /\ DOMAIN parts = 1..n /\ \A i \in 1..n : parts[i] \in Seq(Symbols)
  BY <1>1, EmptySeq, LenProperties, ElementOfSeq
<1> HIDE DEF parts
<1>3. lines \in [1..n -> Seq(Symbols)]
  BY <1>2, TrimTyped
<1> HIDE DEF lines, n
<1>4. lines \in Seq(Seq(Symbols)) /\ Len(lines) = n
  BY <1>2, <1>3, FunctionIsSeq
<1>5. Front(lines) \in Seq(Seq(Symbols))
  <2>1. Len(lines) - 1 \in Int /\ Len(lines) - 1 <= Len(lines)
    BY <1>2, <1>4
  <2> QED
    BY <1>4, <2>1, PartTyped DEF Front
<1> QED
  BY <1>4, <1>5 DEF BodyLines, lines, parts

-----------------------------------------------------------------------------
(* The types.                                                              *)

Message == [from : Seq(Symbols), to : Seq(Seq(Symbols)), body : Seq(Symbols)]

ClientTyped ==
  /\ limit \in Limits
  /\ pc \in {"file", "body", "QUIT", "done"} \cup DOMAIN Wanted
  /\ result \in {"none", "OK", "FAIL", "other"}
  /\ open \in BOOLEAN
  /\ msg \in Message /\ todo \in Seq(Seq(Symbols))

SessionTyped ==
  /\ phase \in {"greet", "command", "content", "closed"}
  /\ skip \in {"no", "long", "large"}
  /\ disturbed \in BOOLEAN
  /\ buf \in Seq(Symbols)
  /\ limit > 0 => Len(buf) <= limit

StreamTyped == wire \in Seq(Symbols) /\ taken \in Seq(Symbols)

(* The types of the sequences, which keep those of TypeOK.                 *)
Typed == ClientTyped /\ SessionTyped /\ StreamTyped

LEMMA StoredTyped ==
  ASSUME NEW m, m.from \in Seq(Symbols), m.to \in Seq(Seq(Symbols)), m.body \in Seq(Symbols)
  PROVE  Stored(m) \in Message
<1>1. FormatNullSender(m.from) \in Seq(Symbols)
  BY SenderTyped
<1>2. sanitizeAddr(FormatNullSender(m.from)) \in Seq(Symbols)
  BY <1>1, SanitizeTyped, SymbolsTyped, SeqMonotonic
<1>3. Clean(m.to) \in Seq(Seq(Symbols))
  <2>1. Clean(m.to) \in Seq(Seq(Clear))
    BY EmptySeq, CleanAppend
  <2>2. Seq(Clear) \subseteq Seq(Symbols)
    BY SymbolsTyped, SeqMonotonic
  <2> QED
    BY <2>1, <2>2, SeqMonotonic
<1> QED
  BY <1>2, <1>3 DEF Stored, Clean, Message

LEMMA InitTyped == Init => Typed
<1> SUFFICES ASSUME Init PROVE Typed
  OBVIOUS
<1>1. /\ limit \in Limits /\ open = TRUE /\ buf = <<>> /\ skip = "no"
      /\ taken = <<>> /\ disturbed = FALSE
  BY DEF Init, InitCommon
<1>4. buf \in Seq(Symbols) /\ taken \in Seq(Symbols) /\ (limit > 0 => Len(buf) <= limit)
  BY <1>1, EmptySeq, LimitsAssumption
<1>2. CASE InitReplay
  <2>1. /\ message.from \in Seq(Symbols) /\ message.to \in Seq(Seq(Symbols))
        /\ message.body \in Seq(Symbols)
    BY <1>2, MessagesAssumption DEF InitReplay
  <2>2. PICK eol \in Eols : msg = Parse(FormatEnvelope(message, eol))
    BY <1>2 DEF InitReplay, Eols
  <2>3. msg \in Message
    BY <2>1, <2>2, ParseInverts, StoredTyped
  <2>4. /\ pc = "file" /\ todo = msg.to /\ result = "none" /\ wire = <<>>
        /\ phase = "greet"
    BY <1>2 DEF InitReplay
  <2>5. todo \in Seq(Seq(Symbols))
    BY <2>3, <2>4 DEF Message
  <2> QED
    <3>1. SessionTyped /\ StreamTyped
      BY <1>1, <1>4, <2>4, EmptySeq DEF SessionTyped, StreamTyped
    <3>2. ClientTyped
      BY <1>1, <2>3, <2>4, <2>5 DEF ClientTyped
    <3> QED
      BY <3>1, <3>2 DEF Typed
<1>3. CASE InitOther
  <2>1. PICK raw \in RawContent :
          wire = raw \o <<".">> \o CRLF \o Command("QUIT", <<>>)
    BY <1>3 DEF InitOther
  <2>2. wire \in Seq(Symbols)
    <3>1. raw \o <<".">> \in Seq(Symbols)
      BY RawContentAssumption, DotTyped, ConcatProperties
    <3>2. Command("QUIT", <<>>) \in Seq(Symbols)
      <4>1. "QUIT" \in Symbols
        BY DEF Symbols
      <4> QED
        BY <4>1, EmptySeq, CommandTyped
    <3>3. (raw \o <<".">>) \o CRLF \in Seq(Symbols)
      <4> HIDE DEF CRLF
      <4> QED
        BY <3>1, DotTyped, ConcatProperties
    <3> QED
      BY <2>1, <3>2, <3>3, ConcatProperties
  <2>3. msg \in Message /\ todo = <<>>
    BY <1>3, EmptySeq DEF InitOther, Nothing, Message
  <2>4. pc = "done" /\ result = "other" /\ phase = "content"
    BY <1>3 DEF InitOther
  <2> QED
    <3>1. SessionTyped /\ StreamTyped
      BY <1>1, <1>4, <2>2, <2>4 DEF SessionTyped, StreamTyped
    <3>2. ClientTyped
      BY <1>1, <2>3, <2>4, EmptySeq DEF ClientTyped
    <3> QED
      BY <3>1, <3>2 DEF Typed
<1> QED
  BY <1>2, <1>3 DEF Init

LEMMA SendTyped ==
  ASSUME wire \in Seq(Symbols), NEW s \in Seq(Symbols), Send(s)
  PROVE  wire' \in Seq(Symbols)
BY ConcatProperties DEF Send

(* A prefix of a sequence of symbols is one too.                           *)
LEMMA PrefixTyped ==
  ASSUME NEW E, NEW s \in Seq(E), NEW p \in Prefixes(s)
  PROVE  p \in Seq(E)
<1>1. PICK l \in 0..Len(s) : p = SubSeq(s, 1, l)
  BY DEF Prefixes
<1>2. 1 \in Nat \ {0} /\ l \in Int /\ l <= Len(s)
  BY LenProperties
<1> QED
  BY <1>1, <1>2, PartTyped

(* The client's steps leave the session alone.                             *)
LEMMA ClientLeaves ==
  Client \/ WriteFails \/ DialFails =>
    /\ UNCHANGED <<limit, message, msg, taken, handled, sessionVars>>
    /\ disturbed' \in {disturbed, TRUE}
BY DEF Client, Start, DialFails, ReplyContinues, Refused, SendEhlo, SendMail,
       SendRcpt, SendData, BeginBody, SendLine, SendDot, WriteFails, SendQuit,
       QuitEnds, clientVars, historyVars, sessionVars, contentVars, envelopeVars

LEMMA ClientStaysTyped ==
  Typed /\ (Client \/ WriteFails \/ DialFails) => Typed'
<1> SUFFICES ASSUME Typed, Client \/ WriteFails \/ DialFails PROVE Typed'
  OBVIOUS
<1>1. /\ UNCHANGED <<limit, message, msg, taken, handled, sessionVars>>
      /\ disturbed' \in {disturbed, TRUE}
  BY ClientLeaves
<1>2. SessionTyped'
  BY <1>1 DEF Typed, SessionTyped, sessionVars, contentVars
<1>3. /\ pc' \in {"file", "body", "QUIT", "done"} \cup DOMAIN Wanted
      /\ result' \in {"none", "OK", "FAIL", "other"}
      /\ open' \in BOOLEAN
  <2>0. /\ pc \in {"file", "body", "QUIT", "done"} \cup DOMAIN Wanted
        /\ result \in {"none", "OK", "FAIL", "other"}
        /\ open \in BOOLEAN
        /\ {"greeting", "EHLO", "MAIL", "RCPT", "DATA", "sent"} \subseteq DOMAIN Wanted
    BY DEF Typed, ClientTyped, Wanted
  <2>1. CASE Start \/ DialFails \/ Refused \/ WriteFails \/ QuitEnds
    BY <2>0, <2>1 DEF Start, DialFails, Refused, WriteFails, QuitEnds, Return, Goto
  <2>2. CASE ReplyContinues \/ SendLine
    BY <2>0, <2>2 DEF ReplyContinues, SendLine, clientVars
  <2>3. CASE SendEhlo \/ SendMail \/ SendRcpt \/ SendData
    BY <2>0, <2>3 DEF SendEhlo, SendMail, SendRcpt, SendData, Goto
  <2>4. CASE BeginBody \/ SendDot \/ SendQuit
    BY <2>0, <2>4 DEF BeginBody, SendDot, SendQuit, Goto
  <2> QED
    BY <2>1, <2>2, <2>3, <2>4 DEF Client
<1>4. todo' \in Seq(Seq(Symbols))
  <2>1. CASE UNCHANGED todo
    BY <2>1 DEF Typed, ClientTyped
  <2>2. CASE SendRcpt \/ SendLine
    BY <2>2, HeadTyped DEF SendRcpt, SendLine, Typed, ClientTyped
  <2>3. CASE BeginBody
    BY <2>3, BodyLinesTyped DEF BeginBody, Typed, ClientTyped, Message
  <2> QED
    BY <2>1, <2>2, <2>3
       DEF Client, Start, DialFails, ReplyContinues, Refused, SendEhlo, SendMail,
           SendData, SendDot, WriteFails, SendQuit, QuitEnds, clientVars
<1>5. wire' \in Seq(Symbols)
  <2>0. /\ wire \in Seq(Symbols) /\ msg.from \in Seq(Symbols)
        /\ todo \in Seq(Seq(Symbols))
        /\ {"EHLO", "MAIL", "RCPT", "DATA", "QUIT"} \subseteq Symbols
    BY DEF Typed, StreamTyped, ClientTyped, Message, Symbols
  <2>1. CASE UNCHANGED wire
    BY <2>0, <2>1
  <2>2. CASE SendEhlo
    BY <2>0, <2>2, EmptySeq, CommandTyped, SendTyped DEF SendEhlo
  <2>3. CASE SendMail
    BY <2>0, <2>3, FormatTyped, CommandTyped, SendTyped DEF SendMail
  <2>4. CASE SendRcpt
    <3>1. <<"<">> \o Head(todo) \o <<">">> \in Seq(Symbols)
      BY <2>0, <2>4, HeadTyped, PathTyped DEF SendRcpt
    <3>2. Send(Command("RCPT", <<"<">> \o Head(todo) \o <<">">>))
      BY <2>4 DEF SendRcpt
    <3> QED
      BY <2>0, <3>1, <3>2, CommandTyped, SendTyped
  <2>5. CASE SendData
    BY <2>0, <2>5, EmptySeq, CommandTyped, SendTyped DEF SendData
  <2>6. CASE SendLine
    <3>1. Stuffed(Head(todo)) \in Seq(Symbols)
      BY <2>0, <2>6, HeadTyped, StuffedTyped DEF SendLine
    <3>2. Stuffed(Head(todo)) \o CRLF \in Seq(Symbols)
      BY <3>1, DotTyped, ConcatProperties
    <3> QED
      BY <2>0, <2>6, <3>2, SendTyped DEF SendLine
  <2>7. CASE SendDot
    <3>1. <<".">> \o CRLF \in Seq(Symbols)
      BY DotTyped, ConcatProperties
    <3> QED
      BY <2>0, <2>7, <3>1, SendTyped DEF SendDot
  <2>8. CASE SendQuit
    BY <2>0, <2>8, EmptySeq, CommandTyped, SendTyped DEF SendQuit
  <2> QED
    BY <2>1, <2>2, <2>3, <2>4, <2>5, <2>6, <2>7, <2>8
       DEF Client, Start, DialFails, ReplyContinues, Refused, BeginBody,
           WriteFails, QuitEnds, clientVars
<1> QED
  BY <1>1, <1>2, <1>3, <1>4, <1>5 DEF Typed, ClientTyped, StreamTyped

(* A line taken from the stream.                                           *)
LEMMA TakenTyped ==
  ASSUME StreamTyped, TakeLine
  PROVE  /\ StreamTyped' /\ NextLine(FirstLine, AfterLine)
         /\ phase = "content"
         /\ wire' = AfterLine /\ taken' = taken \o FirstLine
<1>1. /\ wire \in Seq(Symbols) /\ taken \in Seq(Symbols)
      /\ HasLine /\ phase = "content"
      /\ wire' = AfterLine /\ taken' = taken \o FirstLine
  BY DEF StreamTyped, TakeLine
<1>2. NextLine(FirstLine, AfterLine)
  BY <1>1, NextLineFound
<1>3. FirstLine \in Seq(Symbols) /\ AfterLine \in Seq(Symbols)
  BY <1>2 DEF NextLine
<1>4. taken' \in Seq(Symbols)
  BY <1>1, <1>3, ConcatProperties
<1> QED
  BY <1>1, <1>2, <1>3, <1>4 DEF StreamTyped

(* What KeepLine adds to the content.                                      *)
LEMMA KeptTyped ==
  ASSUME NEW line, NEW rest, NextLine(line, rest), buf \in Seq(Symbols)
  PROVE  LET text == Unstuffed(Text(line))
         IN  /\ text \in Seq(Symbols)
             /\ buf \o text \o CRLF \in Seq(Symbols)
             /\ Len(buf \o text \o CRLF) = Len(buf) + Len(text) + 2
<1> DEFINE text == Unstuffed(Text(line))
<1>1. Front(line) \in Seq(Symbols)
  BY SeqMonotonic DEF NextLine
<1>2. text \in Seq(Symbols)
  BY <1>1, TrimTyped, UnstuffedTyped DEF Text
<1> HIDE DEF text
<1>3. buf \o text \in Seq(Symbols) /\ Len(buf \o text) = Len(buf) + Len(text)
  BY <1>2, ConcatProperties
<1>4. CRLF \in Seq(Symbols) /\ Len(CRLF) = 2
  <2>1. CRLF \in Seq(Symbols)
    BY DotTyped
  <2> QED
    BY <2>1 DEF CRLF
<1> HIDE DEF CRLF
<1>5. /\ (buf \o text) \o CRLF \in Seq(Symbols)
      /\ Len((buf \o text) \o CRLF) = Len(buf \o text) + Len(CRLF)
  BY <1>3, <1>4, ConcatProperties
<1>6. Len(buf \o text \o CRLF) = Len(buf) + Len(text) + 2
  BY <1>3, <1>4, <1>5
<1> QED
  BY <1>2, <1>5, <1>6 DEF text

(* What a step of the session or of the environment does to the types      *)
(* once it is known what it does to the stream and to the content.         *)
LEMMA ServerStaysTyped ==
  Typed /\ (Server \/ ContentDeadline \/ ServerCloses \/ LinkFails) => Typed'
<1> SUFFICES ASSUME Typed, Server \/ ContentDeadline \/ ServerCloses \/ LinkFails
             PROVE  Typed'
  OBVIOUS
<1>0. /\ ClientTyped /\ SessionTyped /\ StreamTyped
      /\ wire \in Seq(Symbols) /\ taken \in Seq(Symbols)
      /\ limit \in Nat /\ open \in BOOLEAN /\ disturbed \in BOOLEAN
  BY LimitsAssumption DEF Typed, ClientTyped, StreamTyped, SessionTyped
<1>1. CASE Greet
  BY <1>0, <1>1 DEF Greet, Typed, ClientTyped, SessionTyped, StreamTyped, clientVars,
                    envelopeVars, contentVars, historyVars
<1>2. CASE ServeEhlo \/ ServeMail \/ ServeRcpt \/ ServeData \/ ServeQuit \/ ServeOther
  <2>1. HasLine /\ wire' = AfterLine
    BY <1>2 DEF ServeEhlo, ServeMail, ServeRcpt, ServeData, ServeQuit, ServeOther,
                NextCommand
  <2>2. /\ taken' \in {taken, <<>>} /\ phase' \in {"command", "content", "closed"}
        /\ UNCHANGED <<clientVars, contentVars>> /\ open' \in BOOLEAN
        /\ disturbed' \in BOOLEAN
    <3>0. phase \in {"greet", "command", "content", "closed"}
      BY <1>0 DEF SessionTyped
    <3>1. CASE ServeEhlo \/ ServeMail \/ ServeRcpt
      <4>1. UNCHANGED <<clientVars, open, phase, contentVars, taken>>
        BY <3>1 DEF ServeEhlo, ServeMail, ServeRcpt
      <4>2. phase = "command"
        BY <3>1 DEF ServeEhlo, ServeMail, ServeRcpt, NextCommand
      <4>3. disturbed' \in BOOLEAN
        BY <1>0, <3>1, ZenonT(30) DEF ServeEhlo, ServeMail, ServeRcpt, Handler
      <4> QED
        BY <1>0, <4>1, <4>2, <4>3
    <3>2. CASE ServeData
      BY <1>0, <3>2 DEF ServeData
    <3>3. CASE ServeQuit
      BY <1>0, <3>3 DEF ServeQuit, historyVars
    <3>4. CASE ServeOther
      BY <1>0, <3>4 DEF ServeOther, historyVars, sessionVars
    <3> QED
      BY <1>2, <3>1, <3>2, <3>3, <3>4
  <2>3. StreamTyped'
    BY <1>0, <2>1, <2>2, NextLineFound, EmptySeq DEF NextLine, StreamTyped
  <2>4. ClientTyped'
    BY <1>0, <2>2 DEF ClientTyped, clientVars
  <2>5. SessionTyped'
    BY <1>0, <2>2 DEF SessionTyped, clientVars, contentVars
  <2> QED
    BY <2>3, <2>4, <2>5 DEF Typed
<1>3. CASE LongLine \/ SkipLine
  <2>1. /\ TakeLine /\ UNCHANGED <<clientVars, phase, open, buf, disturbed>>
        /\ skip' \in {skip, "large", "long"}
    BY <1>3 DEF LongLine, SkipLine, sessionVars, contentVars
  <2>2. StreamTyped'
    BY <1>0, <2>1, TakenTyped
  <2>3. ClientTyped'
    BY <1>0, <2>1 DEF ClientTyped, clientVars
  <2>4. SessionTyped'
    BY <1>0, <2>1 DEF SessionTyped, clientVars
  <2> QED
    BY <2>2, <2>3, <2>4 DEF Typed
<1>4. CASE KeepLine
  <2> DEFINE text == Unstuffed(Text(FirstLine))
  <2>1. /\ TakeLine /\ UNCHANGED <<clientVars, phase, open, disturbed>>
        /\ IF Overflows(text)
             THEN skip' = "large" /\ UNCHANGED buf
             ELSE buf' = buf \o text \o CRLF /\ UNCHANGED skip
    BY <1>4 DEF KeepLine
  <2>2. StreamTyped' /\ NextLine(FirstLine, AfterLine)
    BY <1>0, <2>1, TakenTyped
  <2>3. ClientTyped'
    BY <1>0, <2>1 DEF ClientTyped, clientVars
  <2>4. /\ text \in Seq(Symbols)
        /\ buf \o text \o CRLF \in Seq(Symbols)
        /\ Len(buf \o text \o CRLF) = Len(buf) + Len(text) + 2
    BY <1>0, <2>2, KeptTyped DEF SessionTyped
  <2> HIDE DEF text
  <2>5. buf' \in Seq(Symbols) /\ (limit' > 0 => Len(buf') <= limit')
    <3>1. buf \in Seq(Symbols) /\ (limit > 0 => Len(buf) <= limit) /\ limit' = limit
      BY <1>0, <2>1 DEF SessionTyped, clientVars
    <3>2. Len(buf) \in Nat /\ Len(text) \in Nat
      BY <2>4, <3>1, LenProperties
    <3>3. CASE Overflows(text)
      BY <2>1, <3>1, <3>3
    <3>4. CASE ~Overflows(text)
      <4>1. buf' = buf \o text \o CRLF
        BY <2>1, <3>4
      <4>2. limit > 0 => Len(buf) + Len(text) + 2 <= limit
        BY <1>0, <3>2, <3>4 DEF Overflows
      <4> HIDE DEF CRLF
      <4>3. Len(buf') = Len(buf) + Len(text) + 2
        BY <2>4, <4>1
      <4> QED
        BY <2>4, <3>1, <4>1, <4>2, <4>3
    <3> QED
      BY <3>3, <3>4
  <2>6. SessionTyped'
    BY <1>0, <2>1, <2>5 DEF SessionTyped
  <2> QED
    BY <2>2, <2>3, <2>6 DEF Typed
<1>5. CASE RejectContent \/ AcceptContent
  <2>1. /\ TakeLine /\ EndTransaction /\ UNCHANGED <<clientVars, open>>
        /\ disturbed' \in BOOLEAN
    BY <1>0, <1>5 DEF RejectContent, AcceptContent, Handler
  <2>2. StreamTyped'
    BY <1>0, <2>1, TakenTyped
  <2>3. ClientTyped'
    BY <1>0, <2>1 DEF ClientTyped, clientVars
  <2>4. SessionTyped'
    BY <1>0, <2>1, EmptySeq DEF SessionTyped, EndTransaction, clientVars
  <2> QED
    BY <2>2, <2>3, <2>4 DEF Typed
<1>6. CASE ContentDeadline \/ ContentCut
  <2>1. PICK lost \in 0..Len(wire) : Interrupt(lost)
    <3>1. CASE ContentCut
      BY <1>0, <3>1, LenProperties DEF ContentCut
    <3>2. CASE ContentDeadline
      <4>1. CASE HasLine
        <5>1. Len(FirstLine) \in Nat /\ Len(FirstLine) <= Len(wire) /\ Len(wire) \in Nat
          BY <1>0, <4>1, NextLineFound, LenProperties DEF NextLine
        <5> QED
          BY <3>2, <4>1, <5>1 DEF ContentDeadline
      <4>2. CASE ~HasLine
        BY <3>2, <4>2 DEF ContentDeadline
      <4> QED
        BY <4>1, <4>2
    <3> QED
      BY <1>6, <3>1, <3>2
  <2>2. /\ wire' = SubSeq(wire, lost + 1, Len(wire))
        /\ taken' = taken \o SubSeq(wire, 1, lost)
        /\ EndTransaction /\ UNCHANGED <<clientVars, open>>
    BY <2>1 DEF Interrupt
  <2>3. StreamTyped'
    <3>1. /\ lost \in Nat /\ lost + 1 \in Nat \ {0} /\ 1 \in Nat \ {0}
          /\ Len(wire) \in Int /\ lost <= Len(wire)
      BY <1>0, LenProperties
    <3>2. SubSeq(wire, lost + 1, Len(wire)) \in Seq(Symbols)
      BY <1>0, <3>1, PartTyped
    <3>3. SubSeq(wire, 1, lost) \in Seq(Symbols)
      BY <1>0, <3>1, PartTyped
    <3>4. taken \o SubSeq(wire, 1, lost) \in Seq(Symbols)
      BY <1>0, <3>3, ConcatProperties
    <3> QED
      BY <2>2, <3>2, <3>4 DEF StreamTyped
  <2>4. ClientTyped'
    BY <1>0, <2>2 DEF ClientTyped, clientVars
  <2>5. disturbed' \in BOOLEAN
    BY <1>0, <1>6 DEF ContentDeadline, ContentCut
  <2>6. SessionTyped'
    BY <1>0, <2>2, <2>5, EmptySeq DEF SessionTyped, EndTransaction, clientVars
  <2> QED
    BY <2>3, <2>4, <2>6 DEF Typed
<1>7. CASE CommandCut \/ ServerCloses
  <2>1. /\ phase' = "closed" /\ wire' = <<>> /\ open' \in BOOLEAN
        /\ UNCHANGED <<clientVars, contentVars, taken>> /\ disturbed' \in BOOLEAN
    BY <1>0, <1>7 DEF CommandCut, ServerCloses, historyVars
  <2>2. ClientTyped'
    BY <1>0, <2>1 DEF ClientTyped, clientVars
  <2>3. SessionTyped'
    BY <1>0, <2>1 DEF SessionTyped, clientVars, contentVars
  <2>4. StreamTyped'
    BY <1>0, <2>1, EmptySeq DEF StreamTyped
  <2> QED
    BY <2>2, <2>3, <2>4 DEF Typed
<1>8. CASE LinkFails
  <2>1. /\ wire' \in Prefixes(wire) /\ open' = FALSE /\ disturbed' = TRUE
        /\ UNCHANGED <<clientVars, sessionVars, taken>>
    BY <1>8 DEF LinkFails
  <2>2. ClientTyped'
    BY <1>0, <2>1 DEF ClientTyped, clientVars
  <2>3. SessionTyped'
    BY <1>0, <2>1 DEF SessionTyped, clientVars, sessionVars, contentVars
  <2>4. StreamTyped'
    BY <1>0, <2>1, PrefixTyped DEF StreamTyped
  <2> QED
    BY <2>2, <2>3, <2>4 DEF Typed
<1> QED
  BY <1>1, <1>2, <1>3, <1>4, <1>5, <1>6, <1>7, <1>8 DEF Server

LEMMA StaysTyped == Typed /\ [Next]_vars => Typed'
<1> SUFFICES ASSUME Typed, [Next]_vars PROVE Typed'
  OBVIOUS
<1>1. CASE UNCHANGED vars
  BY <1>1 DEF Typed, ClientTyped, SessionTyped, StreamTyped, vars, clientVars,
              sessionVars, contentVars, historyVars
<1> QED
  BY <1>1, ClientStaysTyped, ServerStaysTyped DEF Next, Environment

(* A deadline amid the content is noted when it passes, and for good.      *)
LEMMA LateChanges ==
  [Next]_vars => late' = late \/ (ContentDeadline /\ late' = TRUE)
<1> SUFFICES ASSUME [Next]_vars
             PROVE  late' = late \/ (ContentDeadline /\ late' = TRUE)
  OBVIOUS
<1>1. CASE Client
  BY <1>1 DEF Client, Start, ReplyContinues, Refused, SendEhlo, SendMail, SendRcpt,
     SendData, BeginBody, SendLine, SendDot, SendQuit, QuitEnds, historyVars
<1>2. CASE Greet \/ ServeEhlo \/ ServeMail \/ ServeRcpt \/ ServeData \/ ServeQuit
           \/ ServeOther
  BY <1>2 DEF Greet, ServeEhlo, ServeMail, ServeRcpt, ServeData, ServeQuit, ServeOther,
     historyVars
<1>3. CASE LongLine \/ SkipLine \/ KeepLine \/ RejectContent \/ AcceptContent
           \/ ContentCut \/ CommandCut
  BY <1>3 DEF LongLine, SkipLine, KeepLine, RejectContent, AcceptContent, ContentCut,
     CommandCut, historyVars
<1>4. CASE Environment
  BY <1>4 DEF Environment, DialFails, WriteFails, ContentDeadline, ServerCloses,
     LinkFails, historyVars
<1>5. CASE UNCHANGED vars
  BY <1>5 DEF vars, historyVars
<1> QED
  BY <1>1, <1>2, <1>3, <1>4, <1>5 DEF Next, Server

LateTyped == late \in BOOLEAN

(* The symbols in flight and read, the phases of both ends and the kept    *)
(* content stay within their types and the size limit (readDotUnstuffed    *)
(* checks it before it keeps a line).                                      *)
THEOREM TypeCorrect == Spec => []TypeOK
<1>1. Init => Typed /\ LateTyped
  BY InitTyped DEF Init, InitCommon, LateTyped
<1>2. Typed /\ LateTyped /\ [Next]_vars => Typed' /\ LateTyped'
  BY StaysTyped, LateChanges DEF LateTyped
<1>3. Typed /\ LateTyped => TypeOK
  <2> SUFFICES ASSUME Typed, LateTyped PROVE TypeOK
    OBVIOUS
  <2>1. Range(wire) \subseteq Symbols /\ Range(taken) \subseteq Symbols
    BY RangeOfSeq DEF Typed, StreamTyped
  <2> QED
    BY <2>1 DEF Typed, ClientTyped, SessionTyped, TypeOK, LateTyped
<1> QED
  BY <1>1, <1>2, <1>3, PTL DEF Spec

-----------------------------------------------------------------------------
(* The end of the content.                                                 *)

LEMMA SuffixElements ==
  ASSUME NEW E, NEW u \in Seq(E), NEW s \in Seq(E)
  PROVE  IsSuffix(u, s) <=> /\ Len(u) <= Len(s)
                            /\ \A i \in 1..Len(u) : u[i] = s[(Len(s) - Len(u)) + i]
<1> DEFINE m == Len(u)
           n == Len(s)
           ru == Reverse(u)
           rs == Reverse(s)
<1>1. m \in Nat /\ n \in Nat
  BY LenProperties
<1>2. /\ ru \in [1..m -> E] /\ \A i \in 1..m : ru[i] = u[(m - i) + 1]
  <2>1. ASSUME NEW i \in 1..m PROVE u[(m - i) + 1] \in E
    BY <1>1, ElementOfSeq
  <2> QED
    BY <2>1 DEF Reverse
<1>3. /\ rs \in [1..n -> E] /\ \A i \in 1..n : rs[i] = s[(n - i) + 1]
  <2>1. ASSUME NEW i \in 1..n PROVE s[(n - i) + 1] \in E
    BY <1>1, ElementOfSeq
  <2> QED
    BY <2>1 DEF Reverse
<1> HIDE DEF ru, rs
<1>4. ru \in Seq(E) /\ Len(ru) = m /\ rs \in Seq(E) /\ Len(rs) = n
  BY <1>1, <1>2, <1>3, FunctionIsSeq
<1>5. IsSuffix(u, s) <=> m <= n /\ SubSeq(ru, 1, m) = SubSeq(rs, 1, m)
  BY <1>4 DEF IsSuffix, IsPrefix, ru, rs
<1> HIDE DEF m, n
<1>6. SubSeq(ru, 1, m) = ru
  BY <1>4, SubSeqFull
<1>7. ASSUME m <= n
      PROVE  SubSeq(rs, 1, m) = ru <=> \A i \in 1..m : u[i] = s[(n - m) + i]
  <2> DEFINE v == SubSeq(rs, 1, m)
  <2>1. v \in Seq(E) /\ Len(v) = m /\ \A i \in 1..m : v[i] = rs[i]
    BY <1>1, <1>4, <1>7, BeginsProperties DEF Begins
  <2> HIDE DEF v
  <2>2. v = ru <=> \A i \in 1..m : v[i] = ru[i]
    BY <1>4, <2>1, SeqEqual
  <2>3. ASSUME NEW i \in 1..m PROVE v[i] = s[(n - i) + 1] /\ ru[i] = u[(m - i) + 1]
    <3>1. i \in 1..n
      BY <1>1, <1>7
    <3> QED
      BY <1>2, <1>3, <2>1, <3>1
  <2>4. ASSUME \A i \in 1..m : v[i] = ru[i], NEW i \in 1..m PROVE u[i] = s[(n - m) + i]
    <3> DEFINE j == (m - i) + 1
    <3>1. j \in 1..m /\ (m - j) + 1 = i /\ (n - j) + 1 = (n - m) + i
      BY <1>1
    <3> HIDE DEF j
    <3> QED
      BY <2>3, <2>4, <3>1
  <2>5. ASSUME \A i \in 1..m : u[i] = s[(n - m) + i], NEW i \in 1..m PROVE v[i] = ru[i]
    <3> DEFINE j == (m - i) + 1
    <3>1. j \in 1..m /\ (n - m) + j = (n - i) + 1
      BY <1>1
    <3>2. u[j] = s[(n - m) + j]
      BY <2>5, <3>1
    <3>3. v[i] = s[(n - i) + 1] /\ ru[i] = u[j]
      BY <2>3
    <3> HIDE DEF j
    <3> QED
      BY <3>1, <3>2, <3>3
  <2> QED
    BY <2>2, <2>4, <2>5 DEF v
<1> QED
  BY <1>5, <1>6, <1>7 DEF m, n

Prepended(E, c, s, u) ==
  /\ u \in Seq(E) /\ Len(u) = 1 + Len(s) /\ u[1] = c
  /\ \A i \in 1..Len(s) : u[1 + i] = s[i]

LEMMA PrependProperties ==
  ASSUME NEW E, NEW c \in E, NEW s \in Seq(E)
  PROVE  Prepended(E, c, s, <<c>> \o s)
<1> DEFINE o == <<c>>
           u == o \o s
<1>1. o \in Seq(E) /\ Len(o) = 1 /\ o[1] = c /\ Len(s) \in Nat
  BY Single, LenProperties
<1> HIDE DEF o
<1>2. /\ u \in Seq(E) /\ Len(u) = 1 + Len(s)
      /\ \A i \in 1..1 + Len(s) : u[i] = IF i <= 1 THEN o[i] ELSE s[i - 1]
  <2>1. /\ u \in Seq(E) /\ Len(u) = Len(o) + Len(s)
        /\ \A i \in 1..Len(o) + Len(s) : u[i] = IF i <= Len(o) THEN o[i] ELSE s[i - Len(o)]
    BY <1>1, ConcatProperties
  <2> HIDE DEF u
  <2> QED
    BY <1>1, <2>1
<1> HIDE DEF u
<1>3. u[1] = c
  <2>1. 1 \in 1..1 + Len(s)
    BY <1>1
  <2> QED
    BY <1>1, <1>2, <2>1
<1>4. ASSUME NEW i \in 1..Len(s) PROVE u[1 + i] = s[i]
  <2> DEFINE j == 1 + i
  <2>1. j \in 1..1 + Len(s) /\ ~(j <= 1) /\ j - 1 = i
    BY <1>1
  <2> HIDE DEF j
  <2>2. u[j] = s[i]
    BY <1>2, <2>1
  <2> QED
    BY <2>2 DEF j
<1> QED
  BY <1>2, <1>3, <1>4 DEF u, o, Prepended

(* EndsWithDot, symbol by symbol, with the length of the sequence.         *)
DotLF(s, n) ==
  n >= 2 /\ s[n] = LF /\ s[n - 1] = "." /\ (n = 2 \/ s[n - 2] = LF)
DotCRLF(s, n) ==
  /\ n >= 3 /\ s[n] = LF /\ s[n - 1] = CR /\ s[n - 2] = "."
  /\ n = 3 \/ s[n - 3] = LF

LEMMA EndsWithElements ==
  ASSUME NEW s \in Seq(Symbols)
  PROVE  EndsWithDot(s) <=> DotLF(s, Len(s)) \/ DotCRLF(s, Len(s))
<1> DEFINE n == Len(s)
           a == <<".", LF>>
           b == <<".">> \o CRLF
           c == <<LF>> \o a
           d == <<LF>> \o b
<1>0. LF \in Symbols /\ CR \in Symbols /\ "." \in Symbols
  BY SymbolsTyped DEF Symbols
<1>1. a \in Seq(Symbols) /\ Len(a) = 2 /\ a[1] = "." /\ a[2] = LF
  BY <1>0
<1>2. b \in Seq(Symbols) /\ Len(b) = 3 /\ b[1] = "." /\ b[2] = CR /\ b[3] = LF
  <2>1. CRLF \in Seq(Symbols) /\ Len(CRLF) = 2 /\ CRLF[1] = CR /\ CRLF[2] = LF
    BY <1>0 DEF CRLF
  <2> HIDE DEF CRLF
  <2>2. Prepended(Symbols, ".", CRLF, b)
    BY <1>0, <2>1, PrependProperties
  <2> HIDE DEF b
  <2>3. b[1 + 1] = CR /\ b[1 + 2] = LF
    BY <2>1, <2>2 DEF Prepended
  <2> QED
    BY <2>1, <2>2, <2>3 DEF Prepended
<1> HIDE DEF a, b
<1>3. c \in Seq(Symbols) /\ Len(c) = 3 /\ c[1] = LF /\ c[2] = "." /\ c[3] = LF
  <2>1. Prepended(Symbols, LF, a, c)
    BY <1>0, <1>1, PrependProperties
  <2> HIDE DEF c
  <2>2. c[1 + 1] = a[1] /\ c[1 + 2] = a[2]
    BY <1>1, <2>1 DEF Prepended
  <2> QED
    BY <1>1, <2>1, <2>2 DEF Prepended
<1>4. d \in Seq(Symbols) /\ Len(d) = 4 /\ d[1] = LF /\ d[2] = "." /\ d[3] = CR
      /\ d[4] = LF
  <2>1. Prepended(Symbols, LF, b, d)
    BY <1>0, <1>2, PrependProperties
  <2> HIDE DEF d
  <2>2. d[1 + 1] = b[1] /\ d[1 + 2] = b[2] /\ d[1 + 3] = b[3]
    BY <1>2, <2>1 DEF Prepended
  <2> QED
    BY <1>2, <2>1, <2>2 DEF Prepended
<1>5. EndsWithDot(s) <=> s = a \/ s = b \/ IsSuffix(c, s) \/ IsSuffix(d, s)
  BY DEF EndsWithDot, a, b
<1>6. n \in Nat
  BY LenProperties
<1> HIDE DEF a, b, c, d
<1>7. s = a <=> n = 2 /\ s[1] = "." /\ s[2] = LF
  <2>1. ASSUME n = 2, s[1] = ".", s[2] = LF PROVE s = a
    <3>1. Len(s) = Len(a) /\ \A i \in 1..Len(s) : s[i] = a[i]
      BY <1>1, <2>1
    <3> QED
      BY <1>1, <3>1, SeqEqual
  <2> QED
    BY <1>1, <2>1
<1>8. s = b <=> n = 3 /\ s[1] = "." /\ s[2] = CR /\ s[3] = LF
  <2>1. ASSUME n = 3, s[1] = ".", s[2] = CR, s[3] = LF PROVE s = b
    <3>1. Len(s) = Len(b) /\ \A i \in 1..Len(s) : s[i] = b[i]
      BY <1>2, <2>1
    <3> QED
      BY <1>2, <3>1, SeqEqual
  <2> QED
    BY <1>2, <2>1
<1>9. IsSuffix(c, s) <=> n >= 3 /\ s[n - 2] = LF /\ s[n - 1] = "." /\ s[n] = LF
  <2>1. IsSuffix(c, s) <=> 3 <= n /\ \A i \in 1..3 : c[i] = s[(n - 3) + i]
    <3>1. c \in Seq(Symbols) /\ Len(c) = 3
      BY <1>3
    <3>2. IsSuffix(c, s) <=> /\ Len(c) <= Len(s)
                             /\ \A i \in 1..Len(c) : c[i] = s[(Len(s) - Len(c)) + i]
      BY <3>1, SuffixElements
    <3> QED
      BY <3>1, <3>2
  <2>2. (n - 3) + 1 = n - 2 /\ (n - 3) + 2 = n - 1 /\ (n - 3) + 3 = n
    BY <1>6
  <2>3. (\A i \in 1..3 : c[i] = s[(n - 3) + i]) <=>
          c[1] = s[(n - 3) + 1] /\ c[2] = s[(n - 3) + 2] /\ c[3] = s[(n - 3) + 3]
    <3>1. \A i \in 1..3 : i = 1 \/ i = 2 \/ i = 3
      OBVIOUS
    <3> HIDE DEF n
    <3> QED
      BY <3>1
  <2> HIDE DEF n
  <2> QED
    BY <1>3, <1>6, <2>1, <2>2, <2>3
<1>10. IsSuffix(d, s) <=> /\ n >= 4 /\ s[n - 3] = LF /\ s[n - 2] = "."
                          /\ s[n - 1] = CR /\ s[n] = LF
  <2>1. IsSuffix(d, s) <=> 4 <= n /\ \A i \in 1..4 : d[i] = s[(n - 4) + i]
    <3>1. d \in Seq(Symbols) /\ Len(d) = 4
      BY <1>4
    <3>2. IsSuffix(d, s) <=> /\ Len(d) <= Len(s)
                             /\ \A i \in 1..Len(d) : d[i] = s[(Len(s) - Len(d)) + i]
      BY <3>1, SuffixElements
    <3> QED
      BY <3>1, <3>2
  <2>2. /\ (n - 4) + 1 = n - 3 /\ (n - 4) + 2 = n - 2 /\ (n - 4) + 3 = n - 1
        /\ (n - 4) + 4 = n
    BY <1>6
  <2>3. (\A i \in 1..4 : d[i] = s[(n - 4) + i]) <=>
          /\ d[1] = s[(n - 4) + 1] /\ d[2] = s[(n - 4) + 2]
          /\ d[3] = s[(n - 4) + 3] /\ d[4] = s[(n - 4) + 4]
    <3>1. \A i \in 1..4 : i = 1 \/ i = 2 \/ i = 3 \/ i = 4
      OBVIOUS
    <3> HIDE DEF n
    <3> QED
      BY <3>1
  <2> HIDE DEF n
  <2> QED
    BY <1>4, <1>6, <2>1, <2>2, <2>3
<1> HIDE DEF n
<1>11. s = a \/ IsSuffix(c, s) <=> DotLF(s, n)
  <2>1. CASE n = 2
    BY <1>7, <1>9, <2>1 DEF DotLF
  <2>2. CASE n # 2
    BY <1>6, <1>7, <1>9, <2>2 DEF DotLF
  <2> QED
    BY <2>1, <2>2
<1>12. s = b \/ IsSuffix(d, s) <=> DotCRLF(s, n)
  <2>1. CASE n = 3
    BY <1>8, <1>10, <2>1 DEF DotCRLF
  <2>2. CASE n # 3
    BY <1>6, <1>8, <1>10, <2>2 DEF DotCRLF
  <2> QED
    BY <2>1, <2>2
<1> QED
  BY <1>5, <1>11, <1>12 DEF n

(* A line that is a dot, symbol by symbol.                                 *)
LEMMA DotLine ==
  ASSUME NEW f \in Seq(Symbols)
  PROVE  TrimCR(f) = <<".">> <=> \/ Len(f) = 1 /\ f[1] = "."
                                 \/ Len(f) = 2 /\ f[1] = "." /\ f[2] = CR
<1> DEFINE n == Len(f)
           d == <<".">>
           g == TrimCR(f)
<1>1. n \in Nat /\ (f = <<>> <=> n = 0)
  BY LenProperties, EmptySeq
<1>2. d \in Seq(Symbols) /\ Len(d) = 1 /\ d[1] = "." /\ "." # CR
  BY DotTyped DEF CR
<1> HIDE DEF d
<1>3. CASE n # 0 /\ f[n] = CR
  <2>1. g = Front(f)
    BY <1>1, <1>3 DEF TrimCR, Last
  <2>2. g \in Seq(Symbols) /\ Len(g) = n - 1 /\ \A i \in 1..n - 1 : g[i] = f[i]
    BY <1>3, <2>1, FrontProperties DEF Begins
  <2> HIDE DEF g
  <2>3. ASSUME Len(f) = 2, f[1] = "." PROVE g = d
    <3>1. Len(g) = Len(d) /\ \A i \in 1..Len(g) : g[i] = d[i]
      BY <1>2, <2>2, <2>3
    <3> QED
      BY <1>2, <2>2, <3>1, SeqEqual
  <2>4. ASSUME g = d PROVE Len(f) = 2 /\ f[1] = "." /\ f[2] = CR
    <3> HIDE DEF n
    <3>1. n - 1 = 1 /\ g[1] = "."
      BY <1>2, <2>2, <2>4
    <3>2. n = 2 /\ 1 \in 1..n - 1
      BY <1>1, <3>1
    <3>3. f[1] = "." /\ f[2] = CR
      BY <1>3, <2>2, <3>1, <3>2
    <3> QED
      BY <3>2, <3>3 DEF n
  <2>5. ~(Len(f) = 1 /\ f[1] = ".")
    BY <1>2, <1>3
  <2> QED
    BY <2>3, <2>4, <2>5 DEF g, d
<1>4. CASE ~(n # 0 /\ f[n] = CR)
  <2>1. g = f
    BY <1>1, <1>4 DEF TrimCR, Last
  <2> HIDE DEF g
  <2>2. ASSUME Len(f) = 1, f[1] = "." PROVE f = d
    <3>1. Len(f) = Len(d) /\ \A i \in 1..Len(f) : f[i] = d[i]
      BY <1>2, <2>2
    <3> QED
      BY <1>2, <3>1, SeqEqual
  <2>3. f = d => Len(f) = 1 /\ f[1] = "."
    BY <1>2
  <2>4. ~(Len(f) = 2 /\ f[2] = CR)
    BY <1>4
  <2> QED
    BY <2>1, <2>2, <2>3, <2>4 DEF g, d
<1> QED
  BY <1>3, <1>4

(* Behind whole lines, a line ends the content exactly if it is a dot.     *)
LEMMA LineEnds ==
  ASSUME NEW t \in Seq(Symbols), t = <<>> \/ t[Len(t)] = LF,
         NEW line, NEW rest, NextLine(line, rest)
  PROVE  /\ t \o line \in Seq(Symbols) /\ t \o line # <<>>
         /\ (t \o line)[Len(t \o line)] = LF
         /\ EndsWithDot(t \o line) <=> IsDot(line)
<1> DEFINE n == Len(t)
           m == Len(line)
           s == t \o line
           f == Front(line)
<1>1. /\ n \in Nat /\ (t = <<>> <=> n = 0)
      /\ line \in Seq(Symbols) /\ m \in Nat \ {0}
      /\ \A i \in 1..m : line[i] = LF <=> i = m
      /\ f \in Seq(Symbols)
  BY LenProperties, EmptySeq, SeqMonotonic DEF NextLine
<1>2. Len(f) = m - 1 /\ \A i \in 1..m - 1 : f[i] = line[i]
  BY <1>1, FrontProperties DEF Begins
<1>3. /\ s \in Seq(Symbols) /\ Len(s) = n + m
      /\ \A i \in 1..n + m : s[i] = IF i <= n THEN t[i] ELSE line[i - n]
  BY <1>1, ConcatProperties
<1>4. IsDot(line) <=> \/ Len(f) = 1 /\ f[1] = "."
                      \/ Len(f) = 2 /\ f[1] = "." /\ f[2] = CR
  BY <1>1, DotLine DEF IsDot, Text
<1>5. EndsWithDot(s) <=> DotLF(s, Len(s)) \/ DotCRLF(s, Len(s))
  BY <1>3, EndsWithElements
<1>6. LF # "." /\ LF # CR
  BY DEF LF, CR
<1> HIDE DEF n, m, s, f
<1>7. \A i \in 1..m : s[n + i] = line[i]
  <2> SUFFICES ASSUME NEW i \in 1..m PROVE s[n + i] = line[i]
    OBVIOUS
  <2> DEFINE j == n + i
  <2>1. j \in 1..n + m /\ ~(j <= n) /\ j - n = i
    BY <1>1
  <2> HIDE DEF j
  <2>2. s[j] = line[i]
    BY <1>3, <2>1
  <2> QED
    BY <2>2 DEF j
<1>8. n > 0 => s[n] = LF
  BY <1>1, <1>3 DEF n
<1>9. s[n + m] = LF
  <2>1. m \in 1..m
    BY <1>1
  <2> QED
    BY <1>1, <1>7, <2>1
<1>10. DotLF(s, n + m) <=> m = 2 /\ line[1] = "."
  <2>1. CASE m = 1
    <3>1. n + m - 1 = n /\ (n + m >= 2 <=> n > 0)
      BY <1>1, <2>1
    <3> QED
      BY <1>1, <1>6, <1>8, <2>1, <3>1 DEF DotLF
  <2>2. CASE m = 2
    <3>1. n + m - 1 = n + 1 /\ n + m - 2 = n /\ 1 \in 1..m /\ n + m >= 2
          /\ (n + m = 2 <=> ~(n > 0))
      BY <1>1, <2>2
    <3>2. s[n + 1] = line[1]
      BY <1>7, <3>1
    <3> QED
      BY <1>1, <1>8, <1>9, <2>2, <3>1, <3>2 DEF DotLF
  <2>3. CASE m > 2
    <3>1. /\ m - 2 \in 1..m /\ n + (m - 2) = n + m - 2 /\ m - 2 # m /\ n + m # 2
      BY <1>1, <2>3
    <3>2. s[n + m - 2] = line[m - 2] /\ line[m - 2] # LF
      BY <1>1, <1>7, <3>1
    <3> QED
      BY <1>1, <2>3, <3>1, <3>2 DEF DotLF
  <2> QED
    BY <1>1, <2>1, <2>2, <2>3
<1>11. DotCRLF(s, n + m) <=> m = 3 /\ line[1] = "." /\ line[2] = CR
  <2>1. CASE m = 1
    <3>1. n + m - 1 = n /\ (n + m >= 3 => n > 0)
      BY <1>1, <2>1
    <3> QED
      BY <1>1, <1>6, <1>8, <2>1, <3>1 DEF DotCRLF
  <2>2. CASE m = 2
    <3>1. n + m - 2 = n /\ (n + m >= 3 => n > 0)
      BY <1>1, <2>2
    <3> QED
      BY <1>1, <1>6, <1>8, <2>2, <3>1 DEF DotCRLF
  <2>3. CASE m = 3
    <3>1. /\ n + m - 1 = n + 2 /\ n + m - 2 = n + 1 /\ n + m - 3 = n
          /\ 1 \in 1..m /\ 2 \in 1..m /\ n + m >= 3 /\ (n + m = 3 <=> ~(n > 0))
      BY <1>1, <2>3
    <3>2. s[n + 1] = line[1] /\ s[n + 2] = line[2]
      BY <1>7, <3>1
    <3> QED
      BY <1>1, <1>8, <1>9, <2>3, <3>1, <3>2 DEF DotCRLF
  <2>4. CASE m > 3
    <3>1. /\ m - 3 \in 1..m /\ n + (m - 3) = n + m - 3 /\ m - 3 # m /\ n + m # 3
      BY <1>1, <2>4
    <3>2. s[n + m - 3] = line[m - 3] /\ line[m - 3] # LF
      BY <1>1, <1>7, <3>1
    <3> QED
      BY <1>1, <2>4, <3>1, <3>2 DEF DotCRLF
  <2> QED
    BY <1>1, <2>1, <2>2, <2>3, <2>4
<1>12. IsDot(line) <=> \/ m = 2 /\ line[1] = "."
                       \/ m = 3 /\ line[1] = "." /\ line[2] = CR
  <2>1. (Len(f) = 1 <=> m = 2) /\ (Len(f) = 2 <=> m = 3)
    BY <1>1, <1>2
  <2>2. m \in {2, 3} => f[1] = line[1]
    BY <1>2
  <2>3. m = 3 => f[2] = line[2]
    BY <1>2
  <2> QED
    BY <1>4, <2>1, <2>2, <2>3
<1>13. s # <<>>
  BY <1>1, <1>3, EmptySeq
<1> QED
  BY <1>3, <1>5, <1>9, <1>10, <1>11, <1>12, <1>13 DEF s

(* No part of s but s itself may end the content.                          *)
NoEarlyEnd(s) == \A k \in 0..Len(s) - 1 : ~EndsWithDot(SubSeq(s, 1, k))

LEMMA GrowsWithoutEnd ==
  ASSUME NEW t \in Seq(Symbols), NoEarlyEnd(t), ~EndsWithDot(t),
         NEW u \in Seq(Symbols), \A i \in 1..Len(u) - 1 : u[i] # LF
  PROVE  NoEarlyEnd(t \o u)
<1> DEFINE n == Len(t)
           m == Len(u)
           s == t \o u
<1>1. n \in Nat /\ m \in Nat
  BY LenProperties
<1>2. /\ s \in Seq(Symbols) /\ Len(s) = n + m
      /\ \A i \in 1..n + m : s[i] = IF i <= n THEN t[i] ELSE u[i - n]
  BY ConcatProperties
<1> HIDE DEF s
<1> SUFFICES ASSUME NEW k \in 0..(n + m) - 1 PROVE ~EndsWithDot(SubSeq(s, 1, k))
  BY <1>2 DEF NoEarlyEnd, s
<1> DEFINE v == SubSeq(s, 1, k)
<1>3. v \in Seq(Symbols) /\ Len(v) = k /\ \A i \in 1..k : v[i] = s[i]
  <2>1. k \in Nat /\ k <= Len(s)
    BY <1>1, <1>2
  <2> QED
    BY <1>2, <2>1, BeginsProperties DEF Begins
<1>4. CASE k <= n
  <2> DEFINE w == SubSeq(t, 1, k)
  <2>1. w \in Seq(Symbols) /\ Len(w) = k /\ \A i \in 1..k : w[i] = t[i]
    <3>1. k \in Nat /\ k <= Len(t)
      BY <1>1, <1>4
    <3> QED
      BY <3>1, BeginsProperties DEF Begins
  <2>2. ~EndsWithDot(w)
    <3>1. CASE k < n
      <4>1. k \in 0..Len(t) - 1
        BY <1>1, <3>1
      <4> QED
        BY <4>1 DEF NoEarlyEnd
    <3>2. CASE k = n
      BY <3>2, SubSeqFull
    <3> QED
      BY <1>1, <1>4, <3>1, <3>2
  <2> HIDE DEF v, w
  <2>3. v = w
    <3>1. \A i \in 1..k : v[i] = w[i]
      BY <1>1, <1>2, <1>3, <1>4, <2>1
    <3> QED
      BY <1>3, <2>1, <3>1, SeqEqual
  <2> QED
    BY <2>2, <2>3 DEF v
<1>5. CASE k > n
  <2>1. /\ k \in 1..k /\ k \in 1..n + m /\ ~(k <= n) /\ k - n \in 1..m - 1
    BY <1>1, <1>5
  <2> HIDE DEF v
  <2>2. v[k] # LF
    BY <1>2, <1>3, <2>1
  <2>3. EndsWithDot(v) => v[k] = LF
    BY <1>3, EndsWithElements DEF DotLF, DotCRLF
  <2> QED
    BY <2>2, <2>3 DEF v
<1> QED
  BY <1>1, <1>4, <1>5

EndInv ==
  /\ NoEarlyEnd(taken)
  /\ phase = "greet" => taken = <<>>
  /\ phase = "content" => /\ taken = <<>> \/ taken[Len(taken)] = LF
                          /\ ~EndsWithDot(taken)
  /\ phase = "command" /\ taken # <<>> /\ open /\ ~disturbed => EndsWithDot(taken)

LEMMA NothingEnds == NoEarlyEnd(<<>>) /\ ~EndsWithDot(<<>>)
<1>1. <<>> \in Seq(Symbols) /\ Len(<<>>) = 0 /\ \A k \in 0..0 - 1 : FALSE
  BY EmptySeq
<1>2. ~EndsWithDot(<<>>)
  <2> DEFINE e == <<>>
  <2>1. e \in Seq(Symbols) /\ Len(e) = 0
    BY <1>1
  <2> HIDE DEF e
  <2>2. EndsWithDot(e) <=> DotLF(e, 0) \/ DotCRLF(e, 0)
    BY <2>1, EndsWithElements
  <2>3. ~DotLF(e, 0) /\ ~DotCRLF(e, 0)
    BY DEF DotLF, DotCRLF
  <2> QED
    BY <2>2, <2>3 DEF e
<1> QED
  BY <1>1, <1>2 DEF NoEarlyEnd

(* A step that reads no content.                                           *)
Quiet ==
  /\ taken' = taken
  /\ open' => open
  /\ disturbed => disturbed'
  /\ \/ phase' = phase
     \/ phase' = "closed"
     \/ phase = "greet" /\ phase' = "command"

LEMMA QuietKeepsEnd == EndInv /\ Quiet => EndInv'
BY DEF EndInv, Quiet

LEMMA LineKeepsEnd ==
  ASSUME Typed, EndInv, TakeLine
  PROVE  /\ NoEarlyEnd(taken') /\ taken' # <<>> /\ taken'[Len(taken')] = LF
         /\ EndsWithDot(taken') <=> IsDot(FirstLine)
<1>1. /\ NextLine(FirstLine, AfterLine) /\ phase = "content"
      /\ taken' = taken \o FirstLine /\ taken \in Seq(Symbols)
  BY TakenTyped DEF Typed, StreamTyped
<1>2. /\ NoEarlyEnd(taken) /\ ~EndsWithDot(taken)
      /\ taken = <<>> \/ taken[Len(taken)] = LF
  BY <1>1 DEF EndInv
<1>3. /\ taken' # <<>> /\ taken'[Len(taken')] = LF
      /\ EndsWithDot(taken') <=> IsDot(FirstLine)
  BY <1>1, <1>2, LineEnds
<1>4. FirstLine \in Seq(Symbols) /\ \A i \in 1..Len(FirstLine) - 1 : FirstLine[i] # LF
  <2> DEFINE line == FirstLine
  <2>1. /\ line \in Seq(Symbols) /\ Len(line) \in Nat \ {0}
        /\ \A i \in 1..Len(line) : line[i] = LF <=> i = Len(line)
    BY <1>1 DEF NextLine
  <2> HIDE DEF line
  <2>2. \A i \in 1..Len(line) - 1 : line[i] # LF
    BY <2>1
  <2> QED
    BY <2>1, <2>2 DEF line
<1>5. NoEarlyEnd(taken')
  BY <1>1, <1>2, <1>4, GrowsWithoutEnd
<1> QED
  BY <1>3, <1>5

LEMMA LongIsNoDot ==
  ASSUME NEW line, TooLong(line) PROVE ~IsDot(line)
<1> DEFINE d == <<".">>
           t == Text(line)
<1>1. Len(d) = 1 /\ MaxLine \in Nat \ {0}
  BY MaxLineAssumption
<1>2. Len(t) > MaxLine
  BY DEF TooLong
<1> HIDE DEF d, t
<1>3. ASSUME t = d PROVE FALSE
  <2>1. Len(t) = 1
    BY <1>1, <1>3
  <2> QED
    BY <1>1, <1>2, <2>1
<1> QED
  BY <1>3 DEF IsDot, d, t

LEMMA ServerKeepsEnd ==
  Typed /\ EndInv /\ (Server \/ ContentDeadline) => EndInv'
<1> SUFFICES ASSUME Typed, EndInv, Server \/ ContentDeadline PROVE EndInv'
  OBVIOUS
<1>1. CASE Greet \/ ServeEhlo \/ ServeMail \/ ServeRcpt \/ ServeQuit \/ ServeOther
           \/ CommandCut
  <2>1. CASE Greet
    BY <2>1, QuietKeepsEnd DEF Greet, historyVars, Quiet
  <2>2. CASE ServeEhlo \/ ServeMail \/ ServeRcpt
    <3>1. UNCHANGED <<taken, open, phase>>
      BY <2>2 DEF ServeEhlo, ServeMail, ServeRcpt
    <3>2. PICK code \in {250, 550} : Handler(code)
      BY <2>2 DEF ServeEhlo, ServeMail, ServeRcpt
    <3>3. disturbed => disturbed'
      BY <3>2 DEF Handler
    <3> QED
      BY <3>1, <3>3, QuietKeepsEnd DEF Quiet
  <2>3. CASE ServeQuit \/ ServeOther \/ CommandCut
    <3>1. Quiet
      BY <2>3 DEF ServeQuit, ServeOther, CommandCut, sessionVars, historyVars, Quiet
    <3> QED
      BY <3>1, QuietKeepsEnd
  <2> QED
    BY <1>1, <2>1, <2>2, <2>3, QuietKeepsEnd
<1>2. CASE ServeData
  BY <1>2, NothingEnds DEF ServeData, EndInv
<1>3. CASE LongLine \/ SkipLine \/ KeepLine
  <2>1. TakeLine /\ ~IsDot(FirstLine) /\ phase' = phase
    BY <1>3, LongIsNoDot DEF LongLine, SkipLine, KeepLine, sessionVars
  <2>2. phase = "content"
    BY <2>1 DEF TakeLine
  <2> QED
    BY <2>1, <2>2, LineKeepsEnd DEF EndInv
<1>4. CASE RejectContent \/ AcceptContent
  <2>1. TakeLine /\ IsDot(FirstLine) /\ phase' = "command"
    BY <1>4 DEF RejectContent, AcceptContent, EndTransaction
  <2> QED
    BY <2>1, LineKeepsEnd DEF EndInv
<1>5. CASE ContentDeadline \/ ContentCut
  <2>0. wire \in Seq(Symbols) /\ taken \in Seq(Symbols) /\ Len(wire) \in Nat
        /\ DOMAIN wire = 1..Len(wire)
    BY LenProperties DEF Typed, StreamTyped
  <2>1. PICK lost \in 0..Len(wire) :
          Interrupt(lost) /\ \A i \in 1..lost : wire[i] # LF
    <3>1. CASE HasLine
      <4>1. PICK lost \in 0..Len(FirstLine) - 1 : Interrupt(lost)
        BY <1>5, <3>1 DEF ContentDeadline, ContentCut
      <4>2. NextLine(FirstLine, AfterLine)
        BY <2>0, <3>1, NextLineFound
      <4>3. lost \in 0..Len(wire) /\ \A i \in 1..lost : wire[i] # LF
        BY <2>0, <4>2 DEF NextLine
      <4> QED
        BY <4>1, <4>3
    <3>2. CASE ~HasLine
      <4>1. PICK lost \in 0..Len(wire) : Interrupt(lost)
        BY <1>5, <2>0, <3>2 DEF ContentDeadline, ContentCut
      <4>2. \A i \in 1..Len(wire) : wire[i] # LF
        BY <2>0, <3>2 DEF HasLine, Range
      <4> QED
        BY <4>1, <4>2
    <3> QED
      BY <3>1, <3>2
  <2> DEFINE u == SubSeq(wire, 1, lost)
  <2>2. u \in Seq(Symbols) /\ Len(u) = lost /\ \A i \in 1..lost : u[i] = wire[i]
    <3>1. lost \in Nat /\ lost <= Len(wire)
      BY <2>0
    <3> QED
      BY <2>0, <3>1, BeginsProperties DEF Begins
  <2>3. phase = "content" /\ phase' = "command" /\ taken' = taken \o u /\ open' = open
    BY <2>1 DEF Interrupt, EndTransaction
  <2>4. disturbed' = TRUE \/ ~open'
    BY <1>5, <2>3 DEF ContentDeadline, ContentCut
  <2> HIDE DEF u
  <2>5. \A i \in 1..Len(u) - 1 : u[i] # LF
    BY <2>1, <2>2
  <2>6. NoEarlyEnd(taken')
    <3>1. NoEarlyEnd(taken) /\ ~EndsWithDot(taken)
      BY <2>3 DEF EndInv
    <3> QED
      BY <2>0, <2>2, <2>3, <2>5, <3>1, GrowsWithoutEnd
  <2> QED
    BY <2>3, <2>4, <2>6 DEF EndInv
<1> QED
  BY <1>1, <1>2, <1>3, <1>4, <1>5 DEF Server

(* Whatever content a client sends, with whatever dots, bare LFs and       *)
(* over-long lines, readDotUnstuffed stops at the first line that is a dot *)
(* and at nothing else, for every limit and length of line.                *)
THEOREM EndOfDataCorrect == Spec => []EndOfData
<1>1. Init => Typed /\ EndInv
  <2> SUFFICES ASSUME Init PROVE EndInv
    BY InitTyped
  <2>1. taken = <<>>
    BY DEF Init, InitCommon
  <2> QED
    BY <2>1, NothingEnds DEF EndInv
<1>2. Typed /\ EndInv /\ [Next]_vars => Typed' /\ EndInv'
  <2> SUFFICES ASSUME Typed, EndInv, [Next]_vars PROVE Typed' /\ EndInv'
    OBVIOUS
  <2>1. Typed'
    BY StaysTyped
  <2>2. CASE Client \/ WriteFails \/ DialFails
    <3>1. taken' = taken /\ phase' = phase /\ disturbed' \in {disturbed, TRUE}
      BY <2>2, ClientLeaves DEF sessionVars
    <3>2. open' => open
      BY <2>2 DEF Client, Start, DialFails, ReplyContinues, Refused, SendEhlo,
                  SendMail, SendRcpt, SendData, BeginBody, SendLine, SendDot,
                  WriteFails, SendQuit, QuitEnds
    <3>3. disturbed => disturbed'
      BY <3>1
    <3>4. Quiet
      BY <3>1, <3>2, <3>3 DEF Quiet
    <3> QED
      BY <2>1, <3>4, QuietKeepsEnd
  <2>3. CASE ServerCloses \/ LinkFails
    <3>1. Quiet
      BY <2>3 DEF ServerCloses, LinkFails, sessionVars, Quiet
    <3> QED
      BY <2>1, <3>1, QuietKeepsEnd
  <2>4. CASE UNCHANGED vars
    <3>1. Quiet
      BY <2>4 DEF vars, sessionVars, historyVars, Quiet
    <3> QED
      BY <2>1, <3>1, QuietKeepsEnd
  <2> QED
    BY <2>1, <2>2, <2>3, <2>4, ServerKeepsEnd DEF Next, Environment
<1>3. Typed /\ EndInv => EndOfData
  BY DEF EndInv, EndOfData, NoEarlyEnd
<1> QED
  BY <1>1, <1>2, <1>3, PTL DEF Spec

-----------------------------------------------------------------------------
(* What is accepted.                                                       *)

(* The content that KeepLine makes of whole lines.                         *)
KeptOf(l) == FlattenSeq([i \in DOMAIN l |-> Unstuffed(TrimCR(l[i])) \o CRLF])

LEMMA KeptTextTyped ==
  ASSUME NEW x \in Seq(Symbols)
  PROVE  Unstuffed(TrimCR(x)) \o CRLF \in Seq(Symbols)
<1>1. Unstuffed(TrimCR(x)) \in Seq(Symbols)
  BY TrimTyped, UnstuffedTyped
<1> QED
  BY <1>1, DotTyped, ConcatProperties

LEMMA KeptEmpty == KeptOf(<<>>) = <<>>
<1> DEFINE e == <<>>
           g == [i \in DOMAIN e |-> Unstuffed(TrimCR(e[i])) \o CRLF]
<1>1. DOMAIN e = 1..0 /\ \A i : i \notin 1..0
  BY EmptySeq, LenProperties
<1>2. g \in [1..0 -> {}]
  BY <1>1
<1>3. KeptOf(e) = FlattenSeq(g)
  BY DEF KeptOf
<1> HIDE DEF g
<1> QED
  BY <1>2, <1>3, EmptyFunction, FlattenEmpty

LEMMA KeptAppend ==
  ASSUME NEW l \in Seq(Seq(Symbols)), NEW x \in Seq(Symbols)
  PROVE  /\ KeptOf(l) \in Seq(Symbols)
         /\ KeptOf(Append(l, x)) = KeptOf(l) \o (Unstuffed(TrimCR(x)) \o CRLF)
<1> DEFINE n == Len(l)
           u == Append(l, x)
           K(y) == Unstuffed(TrimCR(y)) \o CRLF
           f == [i \in DOMAIN l |-> K(l[i])]
           g == [i \in DOMAIN u |-> K(u[i])]
<1>1. n \in Nat /\ DOMAIN l = 1..n /\ \A i \in 1..n : l[i] \in Seq(Symbols)
  BY LenProperties, ElementOfSeq
<1>2. f \in [1..n -> Seq(Symbols)]
  BY <1>1, KeptTextTyped
<1>3. u \in Seq(Seq(Symbols)) /\ Len(u) = n + 1
      /\ (\A i \in 1..n : u[i] = l[i]) /\ u[n + 1] = x
  BY <1>1, AppendProperties
<1>4. DOMAIN u = 1..n + 1 /\ \A i \in 1..n + 1 : u[i] \in Seq(Symbols)
  BY <1>3, LenProperties, ElementOfSeq
<1>5. g \in [1..n + 1 -> Seq(Symbols)]
  BY <1>4, KeptTextTyped
<1>6. \A i \in 1..n : g[i] = f[i]
  <2> SUFFICES ASSUME NEW i \in 1..n PROVE g[i] = f[i]
    OBVIOUS
  <2>1. i \in DOMAIN l /\ i \in DOMAIN u /\ u[i] = l[i]
    <3> HIDE DEF n, u
    <3> QED
      BY <1>1, <1>3, <1>4
  <2> HIDE DEF n, u
  <2> QED
    BY <2>1
<1>7. n + 1 \in DOMAIN u /\ u[n + 1] = x
  <2> HIDE DEF n, u
  <2> QED
    BY <1>1, <1>3, <1>4
<1>8. g[n + 1] = K(x)
  <2> HIDE DEF n, u
  <2> QED
    BY <1>7
<1>9. KeptOf(l) = FlattenSeq(f) /\ KeptOf(u) = FlattenSeq(g)
  BY DEF KeptOf
<1> DEFINE y == K(x)
<1>10. y \in Seq(Symbols) /\ g[n + 1] = y
  BY <1>8, KeptTextTyped
<1> HIDE DEF n, u, f, g, y
<1>11. g = Append(f, y)
  BY <1>1, <1>2, <1>5, <1>6, <1>10, AppendFunction
<1>12. f \in Seq(Seq(Symbols))
  BY <1>1, <1>2, FunctionIsSeq
<1>13. FlattenSeq(f) \in Seq(Symbols) /\ FlattenSeq(Append(f, y)) = FlattenSeq(f) \o y
  BY <1>10, <1>12, FlattenProperties
<1> QED
  BY <1>9, <1>11, <1>13 DEF u, y

(* One more line of the stream is one more part.                           *)
LEMMA SplitLine ==
  ASSUME NEW s \in Seq(Symbols), NEW l \in Seq(Seq(Symbols)), Split(s) = Append(l, <<>>),
         NEW f \in Seq(Symbols \ {LF})
  PROVE  Split(s \o (f \o <<LF>>)) = Append(Append(l, f), <<>>)
<1>1. f \in Seq(Symbols) /\ LF \in Symbols /\ <<LF>> \in Seq(Symbols)
  BY SeqMonotonic, SymbolsTyped, Single
<1> DEFINE t == s \o f
           o == <<LF>>
<1>2. t \in Seq(Symbols) /\ Split(t) = Append(l, f)
  BY <1>1, SplitText, ConcatProperties
<1>3. s \o (f \o o) = t \o o
  BY <1>1, ConcatAssociative
<1>4. t \o o = Append(t, LF)
  <2> HIDE DEF t
  <2> QED
    BY <1>1, <1>2, AppendIsConcat
<1> HIDE DEF t, o
<1>5. Split(t) \in Parts(Symbols) /\ Split(Append(t, LF)) = Extend(Split(t), LF)
  BY <1>1, <1>2, SplitProperties
<1>6. Extend(Split(t), LF) = Append(Split(t), <<>>)
  BY DEF Extend
<1> QED
  BY <1>2, <1>3, <1>4, <1>5, <1>6 DEF o

LEMMA FrontAppend ==
  ASSUME NEW E, NEW s \in Seq(E), NEW x \in E
  PROVE  Front(Append(s, x)) = s /\ Last(Append(s, x)) = x
<1> DEFINE u == Append(s, x)
<1>1. u \in Seq(E) /\ Len(u) = Len(s) + 1 /\ (\A i \in 1..Len(s) : u[i] = s[i])
      /\ u[Len(s) + 1] = x /\ Len(s) \in Nat
  BY AppendProperties, LenProperties
<1> HIDE DEF u
<1>2. Len(u) # 0 /\ Len(u) - 1 = Len(s)
  BY <1>1
<1> DEFINE v == Front(u)
<1>3. v \in Seq(E) /\ Len(v) = Len(s) /\ \A i \in 1..Len(s) : v[i] = u[i]
  <2>1. Begins(E, u, Len(u) - 1, v)
    BY <1>1, <1>2, FrontProperties
  <2> QED
    BY <1>2, <2>1 DEF Begins
<1> HIDE DEF v
<1>4. v = s
  <2>1. \A i \in 1..Len(v) : v[i] = s[i]
    BY <1>1, <1>3
  <2> QED
    BY <1>3, <2>1, SeqEqual
<1>5. Last(u) = x
  BY <1>1 DEF Last
<1> QED
  BY <1>4, <1>5 DEF u, v

(* The lines of the content so far, of which buf holds what is kept.       *)
IsRead(l) ==
  /\ l \in Seq(Seq(Symbols))
  /\ Split(taken) = Append(l, <<>>)
  /\ skip = "no" => buf = KeptOf(l)

EnvelopeTyped ==
  from \in Seq(Symbols) /\ to \in Seq(Seq(Symbols)) /\ handled \in Seq(Message)

ReadInv ==
  /\ phase \in {"greet", "command"} => buf = <<>>
  /\ phase = "content" => \E l : IsRead(l)

LEMMA NothingIsRead == taken = <<>> /\ buf = <<>> => \E l : IsRead(l)
<1> SUFFICES ASSUME taken = <<>>, buf = <<>> PROVE IsRead(<<>>)
  OBVIOUS
<1>1. Append(<<>>, <<>>) = << <<>> >>
  OBVIOUS
<1>2. Split(taken) = Append(<<>>, <<>>)
  BY <1>1, SplitEmpty
<1>3. <<>> \in Seq(Seq(Symbols))
  BY EmptySeq
<1> QED
  BY <1>2, <1>3, KeptEmpty DEF IsRead

(* A line that TakeLine reads.                                             *)
LEMMA LineIsRead ==
  ASSUME Typed, TakeLine, NEW l, IsRead(l)
  PROVE  LET f == Front(FirstLine)
         IN  /\ f \in Seq(Symbols)
             /\ Append(l, f) \in Seq(Seq(Symbols))
             /\ Split(taken') = Append(Append(l, f), <<>>)
             /\ skip = "no" =>
                  KeptOf(Append(l, f)) = buf \o Unstuffed(Text(FirstLine)) \o CRLF
<1> DEFINE f == Front(FirstLine)
<1>1. /\ NextLine(FirstLine, AfterLine)
      /\ taken' = taken \o FirstLine /\ taken \in Seq(Symbols) /\ buf \in Seq(Symbols)
  BY TakenTyped DEF Typed, StreamTyped, SessionTyped
<1>2. f \in Seq(Symbols \ {LF}) /\ FirstLine = f \o <<LF>>
  BY <1>1 DEF NextLine
<1> HIDE DEF f
<1>3. f \in Seq(Symbols)
  BY <1>2, SeqMonotonic
<1>4. l \in Seq(Seq(Symbols)) /\ Split(taken) = Append(l, <<>>)
  BY DEF IsRead
<1>5. Split(taken \o (f \o <<LF>>)) = Append(Append(l, f), <<>>)
  BY <1>1, <1>2, <1>4, SplitLine
<1>6. Append(l, f) \in Seq(Seq(Symbols))
  BY <1>3, <1>4, AppendProperties
<1>7. ASSUME skip = "no"
      PROVE  KeptOf(Append(l, f)) = buf \o Unstuffed(Text(FirstLine)) \o CRLF
  <2> DEFINE x == Unstuffed(TrimCR(f))
  <2>1. buf = KeptOf(l)
    BY <1>7 DEF IsRead
  <2>2. KeptOf(Append(l, f)) = KeptOf(l) \o (x \o CRLF)
    BY <1>3, <1>4, KeptAppend
  <2>3. x \in Seq(Symbols) /\ CRLF \in Seq(Symbols)
    BY <1>3, TrimTyped, UnstuffedTyped, DotTyped
  <2>4. x = Unstuffed(Text(FirstLine))
    BY DEF Text, f
  <2> HIDE DEF x, CRLF
  <2>5. buf \o (x \o CRLF) = (buf \o x) \o CRLF
    BY <1>1, <2>3, ConcatAssociative, SMTT(30)
  <2> QED
    BY <2>1, <2>2, <2>4, <2>5
<1> QED
  BY <1>1, <1>2, <1>3, <1>5, <1>6, <1>7 DEF f

(* The address a session reads from a MAIL or RCPT line.                   *)
LEMMA PathRead ==
  ASSUME wire \in Seq(Symbols), HasLine
  PROVE  Path \in Seq(Symbols)
<1> DEFINE text == Text(FirstLine)
           I == {i \in 1..Len(text) : text[i] = ">"}
           k == SelectInSeq(text, LAMBDA c : c = ">")
<1>1. text \in Seq(Symbols)
  <2>1. Front(FirstLine) \in Seq(Symbols)
    BY NextLineFound, SeqMonotonic DEF NextLine
  <2> QED
    BY <2>1, TrimTyped DEF Text
<1>2. Path = SubSeq(text, 3, k - 1)
  BY DEF Path
<1>3. k = IF I # {} THEN Min(I) ELSE 0
  BY DEF SelectInSeq
<1> HIDE DEF text, k
<1>4. Len(text) \in Nat /\ I \subseteq Nat /\ I \subseteq 1..Len(text)
  BY <1>1, LenProperties
<1> HIDE DEF I
<1>5. k \in 0..Len(text)
  <2>1. CASE I = {}
    BY <1>3, <1>4, <2>1
  <2>2. CASE I # {}
    <3>1. PICK i \in I : TRUE
      BY <2>2
    <3>2. Min(I) \in I
      BY <1>4, <3>1, LeastExists
    <3>3. k = Min(I)
      BY <1>3, <2>2
    <3>4. k \in I
      BY <3>2, <3>3
    <3>5. k \in 1..Len(text)
      BY <1>4, <3>4
    <3> QED
      BY <1>4, <3>5
  <2> QED
    BY <2>1, <2>2
<1>6. k - 1 \in Int /\ k - 1 <= Len(text) /\ 3 \in Nat \ {0}
  BY <1>4, <1>5
<1>7. SubSeq(text, 3, k - 1) \in Seq(Symbols)
  BY <1>1, <1>6, PartTyped
<1> QED
  BY <1>2, <1>7

LEMMA EnvelopeStaysTyped ==
  Typed /\ EnvelopeTyped /\ [Next]_vars => EnvelopeTyped'
<1> SUFFICES ASSUME Typed, EnvelopeTyped, [Next]_vars PROVE EnvelopeTyped'
  OBVIOUS
<1>0. /\ from \in Seq(Symbols) /\ to \in Seq(Seq(Symbols)) /\ handled \in Seq(Message)
      /\ wire \in Seq(Symbols) /\ buf \in Seq(Symbols)
      /\ <<>> \in Seq(Symbols) /\ <<>> \in Seq(Seq(Symbols))
  BY EmptySeq DEF Typed, EnvelopeTyped, StreamTyped, SessionTyped
<1>1. CASE UNCHANGED <<envelopeVars, handled>>
  BY <1>0, <1>1 DEF envelopeVars, EnvelopeTyped
<1>2. CASE ServeEhlo
  BY <1>0, <1>2 DEF ServeEhlo, EnvelopeTyped
<1>3. CASE ServeMail
  <2>1. HasLine /\ from' = Path /\ to' = <<>> /\ handled' = handled
    BY <1>3 DEF ServeMail, NextCommand
  <2>2. Path \in Seq(Symbols)
    BY <1>0, <2>1, PathRead
  <2> QED
    BY <1>0, <2>1, <2>2 DEF EnvelopeTyped
<1>4. CASE ServeRcpt
  <2>1. HasLine /\ from' = from /\ to' \in {to, Append(to, Path)} /\ handled' = handled
    BY <1>4 DEF ServeRcpt, NextCommand
  <2>2. Path \in Seq(Symbols)
    BY <1>0, <2>1, PathRead
  <2>3. Append(to, Path) \in Seq(Seq(Symbols))
    BY <1>0, <2>2, AppendProperties
  <2> QED
    BY <1>0, <2>1, <2>3 DEF EnvelopeTyped
<1>5. CASE RejectContent \/ ContentDeadline \/ ContentCut
  <2>1. EndTransaction /\ handled' = handled
    BY <1>5 DEF RejectContent, ContentDeadline, ContentCut, Interrupt
  <2> QED
    BY <1>0, <2>1 DEF EndTransaction, EnvelopeTyped
<1>6. CASE AcceptContent
  <2> DEFINE r == [from |-> from, to |-> to, body |-> buf]
  <2>1. EndTransaction /\ handled' \in {handled, Append(handled, r)}
    BY <1>6 DEF AcceptContent
  <2>2. r \in Message
    BY <1>0 DEF Message
  <2> HIDE DEF r
  <2>3. Append(handled, r) \in Seq(Message)
    BY <1>0, <2>2, AppendProperties
  <2> QED
    BY <1>0, <2>1, <2>3 DEF EndTransaction, EnvelopeTyped
<1>7. ASSUME Next, ~(ServeEhlo \/ ServeMail \/ ServeRcpt \/ RejectContent
                     \/ ContentDeadline \/ ContentCut \/ AcceptContent)
      PROVE  UNCHANGED <<envelopeVars, handled>>
  <2>1. CASE Client \/ WriteFails \/ DialFails
    BY <2>1, ClientLeaves DEF sessionVars
  <2>2. CASE ServerCloses \/ LinkFails
    BY <2>2 DEF ServerCloses, LinkFails, sessionVars
  <2>3. CASE Greet \/ ServeData \/ ServeQuit \/ ServeOther \/ CommandCut
    BY <2>3 DEF Greet, ServeData, ServeQuit, ServeOther, CommandCut, historyVars,
                sessionVars
  <2>4. CASE LongLine \/ SkipLine \/ KeepLine
    BY <2>4 DEF LongLine, SkipLine, KeepLine, sessionVars
  <2> QED
    BY <1>7, <2>1, <2>2, <2>3, <2>4 DEF Next, Server, Environment
<1>8. CASE UNCHANGED vars
  BY <1>1, <1>8 DEF vars, sessionVars, historyVars
<1> QED
  BY <1>1, <1>2, <1>3, <1>4, <1>5, <1>6, <1>7, <1>8

LEMMA LineKeepsRead ==
  Typed /\ ReadInv /\ (LongLine \/ SkipLine \/ KeepLine) => ReadInv'
<1> SUFFICES ASSUME Typed, ReadInv, LongLine \/ SkipLine \/ KeepLine PROVE ReadInv'
  OBVIOUS
<1>1. /\ TakeLine /\ phase = "content" /\ phase' = phase
      /\ skip \in {"no", "long", "large"}
  BY DEF LongLine, SkipLine, KeepLine, TakeLine, sessionVars, Typed, SessionTyped
<1>2. PICK l : IsRead(l)
  BY <1>1 DEF ReadInv
<1> DEFINE m == Append(l, Front(FirstLine))
           text == Unstuffed(Text(FirstLine))
<1>3. /\ m \in Seq(Seq(Symbols)) /\ Split(taken') = Append(m, <<>>)
      /\ skip = "no" => KeptOf(m) = buf \o text \o CRLF
  BY <1>1, <1>2, LineIsRead
<1>4. skip' = "no" => skip = "no" /\ buf' = buf \o text \o CRLF
  <2>1. CASE LongLine
    BY <2>1 DEF LongLine
  <2>2. CASE SkipLine
    BY <2>2 DEF SkipLine, sessionVars, contentVars
  <2>3. CASE KeepLine
    <3>1. /\ skip = "no"
          /\ IF Overflows(text) THEN skip' = "large" /\ UNCHANGED buf
             ELSE buf' = buf \o text \o CRLF /\ UNCHANGED skip
      BY <2>3 DEF KeepLine
    <3> QED
      BY <3>1
  <2> QED
    BY <2>1, <2>2, <2>3
<1> HIDE DEF m, text
<1>5. PICK q : q = m
  OBVIOUS
<1>6. IsRead(q)'
  BY <1>3, <1>4, <1>5 DEF IsRead, KeptOf
<1> QED
  BY <1>1, <1>6 DEF ReadInv

LEMMA ReadStays == Typed /\ ReadInv /\ [Next]_vars => ReadInv'
<1> SUFFICES ASSUME Typed, ReadInv, [Next]_vars PROVE ReadInv'
  OBVIOUS
<1>1. CASE UNCHANGED <<phase, buf, skip, taken>>
  BY <1>1 DEF ReadInv, IsRead
<1>2. CASE UNCHANGED <<phase, contentVars, taken>>
  BY <1>1, <1>2 DEF contentVars
<1>3. CASE Client \/ WriteFails \/ DialFails
  BY <1>2, <1>3, ClientLeaves DEF sessionVars
<1>4. CASE Greet
  BY <1>4 DEF Greet, contentVars, ReadInv
<1>5. CASE ServeEhlo \/ ServeMail \/ ServeRcpt
  BY <1>2, <1>5 DEF ServeEhlo, ServeMail, ServeRcpt
<1>6. CASE ServeData
  <2>1. taken' = <<>> /\ buf' = <<>> /\ phase' = "content"
    BY <1>6 DEF ServeData, NextCommand, contentVars, ReadInv
  <2>2. \E l : IsRead(l)'
    <3>1. Split(taken') = Split(<<>>)
      BY <2>1
    <3>2. Split(taken') = Append(<<>>, <<>>)
      <4>1. Append(<<>>, <<>>) = << <<>> >>
        OBVIOUS
      <4> QED
        BY <3>1, <4>1, SplitEmpty
    <3>3. <<>> \in Seq(Seq(Symbols)) /\ buf' = KeptOf(<<>>)
      BY <2>1, EmptySeq, KeptEmpty
    <3> QED
      BY <3>2, <3>3 DEF IsRead, KeptOf
  <2> QED
    BY <2>1, <2>2 DEF ReadInv
<1>7. CASE ServeQuit \/ CommandCut \/ ServerCloses
  BY <1>7 DEF ServeQuit, CommandCut, ServerCloses, ReadInv
<1>8. CASE ServeOther
  BY <1>2, <1>8 DEF ServeOther, sessionVars, historyVars
<1>9. CASE LongLine \/ SkipLine \/ KeepLine
  BY <1>9, LineKeepsRead
<1>10. CASE RejectContent \/ AcceptContent \/ ContentDeadline \/ ContentCut
  BY <1>10 DEF RejectContent, AcceptContent, ContentDeadline, ContentCut, Interrupt,
               EndTransaction, ReadInv
<1>11. CASE LinkFails
  BY <1>2, <1>11 DEF LinkFails, sessionVars
<1>12. CASE UNCHANGED vars
  BY <1>2, <1>12 DEF vars, sessionVars, historyVars
<1> QED
  BY <1>3, <1>4, <1>5, <1>6, <1>7, <1>8, <1>9, <1>10, <1>11, <1>12
     DEF Next, Server, Environment

(* The text of the content is decoded as it was kept.                      *)
LEMMA AcceptsDecoded ==
  ASSUME Typed, EnvelopeTyped, ReadInv, AcceptContent, handled' # handled
  PROVE  /\ Last(handled').body = Decoded(taken')
         /\ limit > 0 => Len(Last(handled').body) <= limit
<1> DEFINE r == [from |-> from, to |-> to, body |-> buf]
           f == Front(FirstLine)
<1>1. /\ TakeLine /\ phase = "content" /\ skip = "no"
      /\ handled' = Append(handled, r)
  BY DEF AcceptContent, TakeLine, Rejected
<1>2. /\ r \in Message /\ r.body = buf /\ handled \in Seq(Message)
      /\ limit > 0 => Len(buf) <= limit
  BY DEF Message, Typed, EnvelopeTyped, SessionTyped
<1> HIDE DEF r
<1>3. Last(handled') = r
  BY <1>1, <1>2, FrontAppend
<1>4. PICK l : IsRead(l)
  BY <1>1 DEF ReadInv
<1> DEFINE m == Append(l, f)
<1>5. /\ l \in Seq(Seq(Symbols)) /\ f \in Seq(Symbols) /\ m \in Seq(Seq(Symbols))
      /\ Split(taken') = Append(m, <<>>)
  BY <1>1, <1>4, LineIsRead DEF IsRead
<1>6. buf = KeptOf(l)
  BY <1>1, <1>4 DEF IsRead
<1> HIDE DEF f
<1>7. Front(m) = l
  BY <1>5, FrontAppend
<1> HIDE DEF m
<1>8. Front(Append(m, <<>>)) = m
  BY <1>5, EmptySeq, FrontAppend
<1>9. Front(Front(Split(taken'))) = l
  BY <1>5, <1>7, <1>8
<1>10. Decoded(taken') = KeptOf(l)
  BY <1>9 DEF Decoded, KeptOf
<1> QED
  BY <1>2, <1>3, <1>6, <1>10

(* Whatever a client of any kind has accepted is the text it sent between  *)
(* DATA and the terminator, with the dots and line ends as a whole-text    *)
(* definition decodes them, and fits the limit (readDotUnstuffed); nothing *)
(* else is ever added to what the handler took.                            *)
THEOREM AcceptedAsSentCorrect == Spec => AcceptedAsSent
<1> DEFINE Inv == Typed /\ EnvelopeTyped /\ ReadInv
           A == handled' # handled =>
                  /\ Last(handled').body = Decoded(taken')
                  /\ limit > 0 => Len(Last(handled').body) <= limit
<1>1. Init => Inv
  <2> SUFFICES ASSUME Init PROVE EnvelopeTyped /\ ReadInv
    BY InitTyped
  <2>1. taken = <<>> /\ buf = <<>> /\ handled = <<>>
    BY DEF Init, InitCommon
  <2>2. ReadInv
    BY <2>1, NothingIsRead DEF ReadInv
  <2>3. handled \in Seq(Message)
    BY <2>1, EmptySeq
  <2>4. from \in Seq(Symbols) /\ to \in Seq(Seq(Symbols))
    <3>1. CASE InitReplay
      BY <3>1, EmptySeq DEF InitReplay
    <3>2. CASE InitOther
      <4>1. "x" \in Symbols
        BY DEF Symbols
      <4>2. <<"x">> \in Seq(Symbols)
        BY <4>1, Single
      <4>3. <<<<"x">>>> \in Seq(Seq(Symbols))
        BY <4>2, Single
      <4> QED
        BY <3>2, <4>2, <4>3 DEF InitOther
    <3> QED
      BY <3>1, <3>2 DEF Init
  <2> QED
    BY <2>2, <2>3, <2>4 DEF EnvelopeTyped
<1>2. Inv /\ [Next]_vars => Inv'
  BY StaysTyped, EnvelopeStaysTyped, ReadStays
<1>3. Inv /\ [Next]_vars => [A]_vars
  <2> SUFFICES ASSUME Inv, Next, handled' # handled
               PROVE  /\ Last(handled').body = Decoded(taken')
                      /\ limit > 0 => Len(Last(handled').body) <= limit
    OBVIOUS
  <2>1. AcceptContent
    <3>1. CASE Client \/ WriteFails \/ DialFails
      BY <3>1, ClientLeaves
    <3>2. CASE ServerCloses \/ LinkFails \/ ContentDeadline \/ ContentCut
      BY <3>2 DEF ServerCloses, LinkFails, ContentDeadline, ContentCut, Interrupt
    <3>3. CASE \/ Greet \/ ServeEhlo \/ ServeMail \/ ServeRcpt \/ ServeData \/ ServeQuit
               \/ ServeOther \/ CommandCut
      BY <3>3 DEF Greet, ServeEhlo, ServeMail, ServeRcpt, ServeData, ServeQuit,
                  ServeOther, CommandCut, historyVars
    <3>4. CASE LongLine \/ SkipLine \/ KeepLine \/ RejectContent
      BY <3>4 DEF LongLine, SkipLine, KeepLine, RejectContent
    <3> QED
      BY <3>1, <3>2, <3>3, <3>4 DEF Next, Server, Environment
  <2> QED
    BY <2>1, AcceptsDecoded
<1> QED
  BY <1>1, <1>2, <1>3, PTL DEF Spec, AcceptedAsSent

==============================================================================
