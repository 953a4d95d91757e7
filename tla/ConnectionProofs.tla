-------------------------- MODULE ConnectionProofs --------------------------
(***************************************************************************)
(* Proofs about Connection for every capacity of the channel, every number *)
(* of commands and every kind of listener and client.                      *)
(***************************************************************************)
EXTENDS Connection, SequenceTheorems, TLAPS

(* Lines and replies have the fields their types say.                      *)
LEMMA LineTypes ==
  /\ NoLine \in Lines
  /\ \A verb \in Verbs, n \in Nat, c \in BOOLEAN :
       [verb |-> verb, n |-> n, clear |-> c] \in Lines
BY DEF NoLine, Lines, Verbs, Commands

LEMMA ReplyTypes ==
  TypeOK => \A verb \in Verbs \cup {"CONNECT", "SHUTDOWN"} :
              Reply(verb) \in Replies /\ GoAhead(verb) \in Replies
BY DEF TypeOK, Lines, Replies, Reply, GoAhead

(* The reader makes a command of any line, and keeps its number and        *)
(* whether it came in the clear.                                           *)
LEMMA ParsedLines ==
  ASSUME NEW line \in Lines, NEW made \in Parsed(line)
  PROVE  /\ made \in Lines /\ made.verb \in Commands
         /\ made.n = line.n /\ made.clear = line.clear
         /\ line.verb \in Commands => made = line
<1>1. CASE line.verb \in Commands
  BY <1>1 DEF Parsed
<1>2. CASE line.verb \notin Commands
  <2>1. PICK verb \in Commands : made = [line EXCEPT !.verb = verb]
    BY <1>2 DEF Parsed
  <2>2. verb \in Verbs
    BY DEF Verbs
  <2> QED
    BY <1>2, <2>1, <2>2 DEF Lines
<1> QED
  BY <1>1, <1>2

(* A step of the client keeps the types.                                   *)
LEMMA ClientTypes == TypeOK /\ Client => TypeOK'
<1> SUFFICES ASSUME TypeOK, Client PROVE TypeOK'
  OBVIOUS
<1> USE LineTypes DEF TypeOK, readerVars, workerVars
<1>1. ASSUME NEW verb \in Commands, ClientCommand(verb) PROVE TypeOK'
  <2>1. client' \in {"ready", "await354", "content", "await220", "finished"}
    BY <1>1 DEF ClientCommand, AfterCommand, Commands
  <2>2. sent' \in Nat /\ clear' \in BOOLEAN
    BY <1>1 DEF ClientCommand
  <2>3. net' \in Seq(Lines)
    BY <1>1, <2>2, AppendProperties DEF ClientCommand, Put, Verbs
  <2> QED
    BY <1>1, <2>1, <2>2, <2>3 DEF ClientCommand
<1>2. CASE ClientContent
  <2>1. net' \in Seq(Lines)
    BY <1>2, AppendProperties DEF ClientContent, Put, Verbs
  <2> QED
    BY <1>2, <2>1 DEF ClientContent
<1>3. CASE ClientHello
  <2>1. net' \in Seq(Lines)
    BY <1>3, AppendProperties DEF ClientHello, Put, Verbs
  <2>2. client' = "ready" /\ sent' \in Nat /\ clear' \in BOOLEAN
    BY <1>3 DEF ClientHello
  <2> QED
    BY <1>3, <2>1, <2>2 DEF ClientHello
<1>4. CASE ClientReads
  <2>1. out' \in Seq(Replies)
    BY <1>4, HeadTailProperties DEF ClientReads
  <2>2. client' \in {"ready", "content", "hello", client}
    BY <1>4 DEF ClientReads, AfterReply
  <2> QED
    BY <1>4, <2>1, <2>2 DEF ClientReads
<1>5. CASE ClientGone
  BY <1>5 DEF ClientGone
<1> QED
  BY <1>1, <1>2, <1>3, <1>4, <1>5 DEF Client

(* Filling the buffer of conn.r keeps the types.                           *)
LEMMA FillTypes == TypeOK /\ Fill => TypeOK'
<1> SUFFICES ASSUME TypeOK, Fill PROVE TypeOK'
  OBVIOUS
<1>1. PICK k \in 1..Len(net) :
        /\ rbuf' = SubSeq(net, 1, k)
        /\ net' = SubSeq(net, k + 1, Len(net))
  BY DEF Fill
<1>2. rbuf' \in Seq(Lines) /\ net' \in Seq(Lines)
  BY <1>1, SubSeqProperties, LenProperties DEF TypeOK
<1> QED
  BY <1>2 DEF Fill, TypeOK, readerVars, workerVars

(* A step of the reader keeps the types.                                   *)
LEMMA ReaderTypes == TypeOK /\ Reader => TypeOK'
<1> SUFFICES ASSUME TypeOK, Reader PROVE TypeOK'
  OBVIOUS
<1> USE DEF TypeOK, streamVars, workerVars
<1>1. CASE ReadCommand
  <2>1. Head(rbuf) \in Lines /\ rbuf' \in Seq(Lines)
    BY <1>1, HeadTailProperties DEF ReadCommand
  <2>2. rline' \in Lines
    BY <1>1, <2>1, ParsedLines DEF ReadCommand
  <2> QED
    BY <1>1, <2>1, <2>2 DEF ReadCommand
<1>2. CASE ReadCommandFails
  BY <1>2 DEF ReadCommandFails
<1>3. CASE ReaderFills
  BY <1>3, FillTypes DEF ReaderFills
<1>4. CASE Enqueue
  <2>1. events' \in Seq(Lines)
    BY <1>4, AppendProperties DEF Enqueue
  <2> QED
    BY <1>4, <2>1 DEF Enqueue
<1>5. CASE SendCancelled
  BY <1>5 DEF SendCancelled
<1>6. CASE Resume
  BY <1>6 DEF Resume
<1>7. CASE PauseEnds
  BY <1>7 DEF PauseEnds
<1> QED
  BY <1>1, <1>2, <1>3, <1>4, <1>5, <1>6, <1>7 DEF Reader

(* A write appends a reply or changes nothing.                             *)
LEMMA WriteTypes ==
  ASSUME TypeOK, NEW verb \in Verbs \cup {"CONNECT", "SHUTDOWN"},
         WriteOK(Reply(verb)) \/ WriteOK(GoAhead(verb)) \/ WriteFails
  PROVE  out' \in Seq(Replies)
<1>1. out \in Seq(Replies)
  BY DEF TypeOK
<1>2. Reply(verb) \in Replies /\ GoAhead(verb) \in Replies
  BY ReplyTypes
<1>3. CASE WriteOK(Reply(verb))
  BY <1>1, <1>2, <1>3, AppendProperties DEF WriteOK
<1>4. CASE WriteOK(GoAhead(verb))
  BY <1>1, <1>2, <1>4, AppendProperties DEF WriteOK
<1>5. CASE WriteFails
  BY <1>1, <1>5 DEF WriteFails
<1> QED
  BY <1>3, <1>4, <1>5

(* A step of the worker keeps the types.                                   *)
LEMMA WorkerTypes == TypeOK /\ Worker => TypeOK'
<1> SUFFICES ASSUME TypeOK, Worker PROVE TypeOK'
  OBVIOUS
<1> USE DEF TypeOK, streamVars, readerVars, Return
<1>0. wline.verb \in Verbs
  BY DEF Lines
<1>1. CASE Banner
  <2>1. out' \in Seq(Replies)
    BY <1>1, WriteTypes DEF Banner
  <2>2. net' \in Seq(Lines) /\ secure' \in BOOLEAN
    BY <1>1, HeadTailProperties DEF Banner
  <2> QED
    BY <1>1, <2>1, <2>2 DEF Banner, WriteOK
<1>2. CASE BannerFails
  BY <1>2 DEF BannerFails, WriteFails
<1>3. CASE Take
  <2>1. wline' \in Lines /\ events' \in Seq(Lines)
    BY <1>3, HeadTailProperties DEF Take
  <2>2. worker' \in {"interim", "signal", "content", "reply", "farewell",
                     "callback"}
    BY <1>3 DEF Take, Dispatch
  <2>3. strayed' \in {"no", "late", "unread"}
    BY <1>3 DEF Take, Stray
  <2> QED
    BY <1>3, <2>1, <2>2, <2>3 DEF Take
<1>4. CASE EventsClosed
  BY <1>4 DEF EventsClosed
<1>5. CASE SeesCancel
  BY <1>5 DEF SeesCancel
<1>6. CASE Farewell
  <2>1. out' \in Seq(Replies)
    BY <1>6, WriteTypes DEF Farewell
  <2> QED
    BY <1>6, <2>1 DEF Farewell
<1>7. CASE Interim
  <2>1. out' \in Seq(Replies)
    BY <1>0, <1>7, WriteTypes DEF Interim
  <2> QED
    BY <1>7, <2>1 DEF Interim
<1>8. CASE InterimFails
  BY <1>8 DEF InterimFails, WriteFails
<1>9. CASE WorkerFills
  BY <1>9, FillTypes DEF WorkerFills
<1>10. CASE ReadContent
  <2>1. rbuf' \in Seq(Lines)
    BY <1>10, HeadTailProperties DEF ReadContent
  <2> QED
    BY <1>10, <2>1 DEF ReadContent
<1>11. CASE ReadContentFails
  BY <1>11 DEF ReadContentFails, Stray
<1>12. CASE CallbackReturns
  BY <1>12 DEF CallbackReturns
<1>13. CASE CallbackPanics
  BY <1>13 DEF CallbackPanics
<1>14. CASE Handshake
  <2>1. net' \in Seq(Lines) /\ rbuf' \in Seq(Lines)
    BY <1>14, HeadTailProperties, EmptySeq DEF Handshake, HelloArrived
  <2>2. answer' \in BOOLEAN /\ secure' \in BOOLEAN
    BY <1>14 DEF Handshake
  <2> QED
    BY <1>14, <2>1, <2>2 DEF Handshake
<1>15. CASE HandshakeFails
  <2>1. answer' \in BOOLEAN
    BY <1>15 DEF HandshakeFails
  <2> QED
    BY <1>15, <2>1 DEF HandshakeFails
<1>16. CASE Signal
  BY <1>16 DEF Signal
<1>17. CASE WriteReply
  <2>1. out' \in Seq(Replies)
    BY <1>0, <1>17, WriteTypes DEF WriteReply
  <2> QED
    BY <1>17, <2>1 DEF WriteReply
<1>18. CASE WriteReplyFails
  BY <1>18 DEF WriteReplyFails, WriteFails
<1>19. CASE GreetingFails
  BY <1>19 DEF GreetingFails, WriteFails
<1> QED
  BY <1>1, <1>2, <1>3, <1>4, <1>5, <1>6, <1>7, <1>8, <1>9, <1>10, <1>11,
     <1>12, <1>13, <1>14, <1>15, <1>16, <1>17, <1>18, <1>19 DEF Worker

(* Every step keeps the types.                                             *)
LEMMA NextTypes == TypeOK /\ [Next]_vars => TypeOK'
<1> SUFFICES ASSUME TypeOK, [Next]_vars PROVE TypeOK'
  OBVIOUS
<1>1. CASE WatchdogCloses
  BY <1>1 DEF WatchdogCloses, TypeOK, streamVars, readerVars, workerVars
<1>2. CASE Shutdown
  BY <1>2 DEF Shutdown, TypeOK, streamVars, readerVars, workerVars
<1>3. CASE UNCHANGED vars
  BY <1>3 DEF vars, TypeOK, streamVars, readerVars, workerVars
<1> QED
  BY <1>1, <1>2, <1>3, ClientTypes, ReaderTypes, WorkerTypes DEF Next

(* TypeOK is an invariant: in particular resumeCh, filled by every         *)
(* takeover handler and drained by the reader, never overflows.            *)
THEOREM TypeCorrect == Spec => []TypeOK
<1>1. Init => TypeOK
  <2> SUFFICES ASSUME Init PROVE TypeOK
    OBVIOUS
  <2>1. /\ net \in Seq(Lines) /\ rbuf \in Seq(Lines) /\ events \in Seq(Lines)
        /\ out \in Seq(Replies)
    BY EmptySeq DEF Init
  <2>2. rline \in Lines /\ wline \in Lines
    BY LineTypes DEF Init
  <2>3. listener \in {"plain", "tls"} /\ client \in {"hello", "ready"}
    BY FlagsAssumption DEF Init
  <2>4. writeTimeout \in BOOLEAN /\ strayed \in {"no", "late", "unread"}
    BY FlagsAssumption DEF Init
  <2> QED
    BY <2>1, <2>2, <2>3, <2>4 DEF Init, TypeOK
<1> QED
  BY <1>1, NextTypes, PTL DEF Spec

-----------------------------------------------------------------------------
(* The takeover protocol.                                                  *)

handoffVars == <<events, token, reader, worker, wline>>

(* HandoffInv depends on these five variables only.                        *)
LEMMA HandoffFrame == HandoffInv /\ UNCHANGED handoffVars => HandoffInv'
BY DEF HandoffInv, handoffVars, Quiet, Busy

(* A step of the reader keeps HandoffInv.                                  *)
LEMMA ReaderHandoff == TypeOK /\ HandoffInv /\ Reader => HandoffInv'
<1> SUFFICES ASSUME TypeOK, HandoffInv, Reader PROVE HandoffInv'
  OBVIOUS
<1> USE DEF workerVars, Quiet, Busy
<1>0. events \in Seq(Lines) /\ token \in {0, 1} /\ rline \in Lines
  BY DEF TypeOK
<1>1. CASE ReadCommand
  BY <1>1 DEF ReadCommand, HandoffInv
<1>2. CASE ReadCommandFails
  BY <1>2 DEF ReadCommandFails, HandoffInv
<1>3. CASE ReaderFills
  BY <1>3, HandoffFrame DEF ReaderFills, Fill, handoffVars, readerVars
<1>4. CASE Enqueue
  <2>1. /\ Len(events') = Len(events) + 1
        /\ \A i \in 1..Len(events) : events'[i] = events[i]
        /\ events'[Len(events) + 1] = rline
    BY <1>0, <1>4, AppendProperties DEF Enqueue
  <2>2. /\ reader = "send" /\ UNCHANGED <<token, worker, wline>>
        /\ Takeover(rline) => reader' = "paused"
    BY <1>4 DEF Enqueue
  <2>3. /\ \A i \in 1..Len(events) : ~Takeover(events[i])
        /\ ~Busy /\ token = 0 /\ worker # "banner"
    BY <1>0, <2>2 DEF HandoffInv
  <2>4. ASSUME NEW i \in 1..Len(events'), Takeover(events'[i])
        PROVE  i = Len(events') /\ Quiet' /\ token' = 0 /\ ~Busy'
    <3>1. i = Len(events) + 1
      BY <1>0, <2>1, <2>3, <2>4, LenProperties DEF Takeover
    <3>2. Takeover(rline)
      BY <2>1, <2>4, <3>1 DEF Takeover
    <3> QED
      BY <2>1, <2>2, <2>3, <3>1, <3>2 DEF Takeover
  <2> QED
    BY <2>2, <2>3, <2>4 DEF HandoffInv, Takeover
<1>5. CASE SendCancelled
  BY <1>5 DEF SendCancelled, HandoffInv
<1>6. CASE Resume
  <2>1. token = 1 /\ token' = 0
    BY <1>0, <1>6 DEF Resume
  <2>2. events = <<>> /\ ~Busy
    BY <2>1 DEF HandoffInv
  <2> QED
    BY <1>6, <2>1, <2>2 DEF Resume, HandoffInv, Takeover
<1>7. CASE PauseEnds
  BY <1>7 DEF PauseEnds, HandoffInv, Takeover
<1> QED
  BY <1>1, <1>2, <1>3, <1>4, <1>5, <1>6, <1>7 DEF Reader

(* Taking a command keeps HandoffInv: a takeover command leaves the        *)
(* channel empty, another one leaves the takeover command last.            *)
LEMMA TakeHandoff == TypeOK /\ HandoffInv /\ Take => HandoffInv'
<1> SUFFICES ASSUME TypeOK, HandoffInv, Take PROVE HandoffInv'
  OBVIOUS
<1> USE DEF Quiet, Busy
<1>0. events \in Seq(Lines) /\ events # <<>> /\ Len(events) \in Nat
  BY LenProperties DEF TypeOK, Take
<1>1. /\ Len(events') = Len(events) - 1
      /\ \A i \in 1..Len(events') : events'[i] = events[i + 1]
      /\ events' \in Seq(Lines)
  BY <1>0, HeadTailProperties DEF Take
<1>2. wline' = events[1] /\ 1 \in 1..Len(events)
  BY <1>0, LenProperties, EmptySeq DEF Take
<1>3. /\ worker = "select" /\ token = 0 /\ token' = token /\ reader' = reader
      /\ worker' \in Dispatch(wline'.verb)
  BY <1>0 DEF Take, HandoffInv, TypeOK, readerVars
<1>4. worker' # "banner"
  BY <1>3 DEF Dispatch
<1>5. /\ worker' \in {"interim", "content", "handshake", "signal"}
           => Takeover(wline')
  BY <1>3 DEF Dispatch, Takeover
<1>6. CASE Takeover(wline')
  <2>1. Len(events) = 1 /\ Quiet
    BY <1>2, <1>6 DEF HandoffInv, Takeover
  <2>2. events' = <<>>
    BY <1>1, <2>1, EmptySeq
  <2>3. 1..Len(events') = {}
    BY <1>1, <2>1
  <2> QED
    BY <1>3, <1>4, <1>5, <2>1, <2>2, <2>3 DEF HandoffInv
<1>7. CASE ~Takeover(wline')
  <2>1. ~Busy'
    BY <1>7 DEF Takeover
  <2>2. ASSUME NEW i \in 1..Len(events'), Takeover(events'[i])
        PROVE  i = Len(events') /\ Quiet' /\ token' = 0
    <3>1. i + 1 \in 1..Len(events) /\ Takeover(events[i + 1])
      BY <1>0, <1>1, <2>2 DEF Takeover
    <3>2. i + 1 = Len(events) /\ Quiet /\ token = 0
      BY <3>1 DEF HandoffInv
    <3> QED
      BY <1>0, <1>1, <1>3, <3>2
  <2> QED
    BY <1>3, <1>4, <1>5, <1>7, <2>1, <2>2 DEF HandoffInv
<1> QED
  BY <1>6, <1>7

(* A step of the worker keeps HandoffInv.                                  *)
LEMMA WorkerHandoff == TypeOK /\ HandoffInv /\ Worker => HandoffInv'
<1> SUFFICES ASSUME TypeOK, HandoffInv, Worker PROVE HandoffInv'
  OBVIOUS
<1> USE DEF readerVars, Return, Quiet, Busy
<1>0. token \in {0, 1}
  BY DEF TypeOK
<1>1. CASE Banner
  <2>1. events = <<>> /\ token = 0 /\ Len(events) = 0
    BY <1>1, EmptySeq DEF Banner, HandoffInv
  <2> QED
    BY <1>1, <2>1 DEF Banner, HandoffInv
<1>2. CASE BannerFails
  BY <1>2 DEF BannerFails, HandoffInv, Takeover
<1>3. CASE Take
  BY <1>3, TakeHandoff
<1>4. CASE EventsClosed
  BY <1>4 DEF EventsClosed, HandoffInv, Takeover
<1>5. CASE SeesCancel
  BY <1>5 DEF SeesCancel, HandoffInv, Takeover
<1>6. CASE Farewell
  BY <1>6 DEF Farewell, HandoffInv, Takeover
<1>7. CASE Interim
  BY <1>7 DEF Interim, HandoffInv, Takeover
<1>8. CASE InterimFails
  BY <1>8 DEF InterimFails, HandoffInv, Takeover
<1>9. CASE WorkerFills
  BY <1>9, HandoffFrame DEF WorkerFills, Fill, handoffVars, workerVars
<1>10. CASE ReadContent
  BY <1>10 DEF ReadContent, HandoffInv, Takeover
<1>11. CASE ReadContentFails
  BY <1>11 DEF ReadContentFails, HandoffInv, Takeover
<1>12. CASE CallbackReturns
  BY <1>12 DEF CallbackReturns, HandoffInv, Takeover
<1>13. CASE CallbackPanics
  BY <1>0, <1>13 DEF CallbackPanics, HandoffInv, Takeover
<1>14. CASE Handshake
  BY <1>14 DEF Handshake, HandoffInv, Takeover
<1>15. CASE HandshakeFails
  BY <1>15 DEF HandshakeFails, HandoffInv, Takeover
<1>16. CASE Signal
  <2>1. events = <<>> /\ Quiet /\ Len(events) = 0
    BY <1>16, EmptySeq DEF Signal, HandoffInv
  <2> QED
    BY <1>16, <2>1 DEF Signal, HandoffInv, Takeover
<1>17. CASE WriteReply
  BY <1>17 DEF WriteReply, HandoffInv, Takeover
<1>18. CASE WriteReplyFails
  BY <1>18 DEF WriteReplyFails, HandoffInv, Takeover
<1>19. CASE GreetingFails
  BY <1>19 DEF GreetingFails, HandoffInv, Takeover
<1> QED
  BY <1>1, <1>2, <1>3, <1>4, <1>5, <1>6, <1>7, <1>8, <1>9, <1>10, <1>11,
     <1>12, <1>13, <1>14, <1>15, <1>16, <1>17, <1>18, <1>19 DEF Worker

(* Every step keeps HandoffInv.                                            *)
LEMMA NextHandoff == TypeOK /\ HandoffInv /\ [Next]_vars => HandoffInv'
<1> SUFFICES ASSUME TypeOK, HandoffInv, [Next]_vars PROVE HandoffInv'
  OBVIOUS
<1> USE HandoffFrame DEF handoffVars, streamVars, readerVars, workerVars
<1>1. CASE Client
  BY <1>1 DEF Client, ClientCommand, ClientContent, ClientHello, ClientReads,
              ClientGone
<1>2. CASE WatchdogCloses
  BY <1>2 DEF WatchdogCloses
<1>3. CASE Shutdown
  BY <1>3 DEF Shutdown
<1>4. CASE UNCHANGED vars
  BY <1>4 DEF vars
<1> QED
  BY <1>1, <1>2, <1>3, <1>4, ReaderHandoff, WorkerHandoff DEF Next

(* The takeover protocol holds in every reachable state.                   *)
THEOREM HandoffCorrect == Spec => []HandoffInv
<1>1. Init => HandoffInv
  BY EmptySeq DEF Init, HandoffInv, Takeover, Busy, Quiet, NoLine
<1> QED
  BY <1>1, NextHandoff, TypeCorrect, PTL DEF Spec

(* conn.r has one user: the worker never reads content or runs a handshake *)
(* while readCommands may be reading (spec.md C3).                         *)
THEOREM ExclusiveReadCorrect == Spec => []ExclusiveRead
<1>1. HandoffInv => ExclusiveRead
  BY DEF HandoffInv, ExclusiveRead, Busy, Quiet
<1> QED
  BY <1>1, HandoffCorrect, PTL

(* The deferred send on resumeCh never blocks the worker.                  *)
THEOREM SignalNeverBlocksCorrect == Spec => []SignalNeverBlocks
<1>1. HandoffInv => SignalNeverBlocks
  BY DEF HandoffInv, SignalNeverBlocks, Busy
<1> QED
  BY <1>1, HandoffCorrect, PTL

-----------------------------------------------------------------------------
(* No lost wake-up.                                                        *)

(* A step of the reader that leaves it paused leaves it a wake-up: the     *)
(* command it has just queued, or the one it had.                          *)
LEMMA ReaderWakeup == TypeOK /\ NoLostWakeup /\ Reader => NoLostWakeup'
<1> SUFFICES ASSUME TypeOK, NoLostWakeup, Reader PROVE NoLostWakeup'
  OBVIOUS
<1>1. CASE Enqueue
  <2>1. /\ events \in Seq(Lines) /\ rline \in Lines /\ Len(events) \in Nat
        /\ events' = Append(events, rline)
    BY <1>1, LenProperties DEF Enqueue, TypeOK
  <2>2. /\ events'[Len(events) + 1] = rline
        /\ Len(events') = Len(events) + 1
        /\ events' \in Seq(Lines)
    BY <2>1, AppendProperties
  <2>3. Len(events) + 1 \in DOMAIN events'
    BY <2>1, <2>2, LenProperties
  <2>4. reader' = "paused" => Takeover(events'[Len(events) + 1])
    BY <1>1, <2>2 DEF Enqueue, Takeover
  <2> QED
    BY <2>3, <2>4 DEF NoLostWakeup, Takeover
<1>2. CASE ReaderFills
  BY <1>2 DEF ReaderFills, Fill, NoLostWakeup, readerVars
<1> QED
  BY <1>1, <1>2 DEF Reader, ReadCommand, ReadCommandFails, SendCancelled,
     Resume, PauseEnds, NoLostWakeup

(* Taking a command keeps the wake-up: the takeover command itself, when   *)
(* it is the one taken, makes the worker busy.                             *)
LEMMA TakeWakeup == TypeOK /\ NoLostWakeup /\ Take => NoLostWakeup'
<1> SUFFICES ASSUME TypeOK, NoLostWakeup, Take, reader = "paused"
             PROVE  \/ token' = 1
                    \/ \E i \in DOMAIN events' : Takeover(events'[i])
                    \/ Busy'
                    \/ cancelled'
  BY DEF NoLostWakeup, Take, readerVars, Takeover
<1>1. /\ events \in Seq(Lines) /\ events # <<>> /\ Len(events) \in Nat
      /\ DOMAIN events = 1..Len(events)
  BY LenProperties DEF TypeOK, Take
<1>2. /\ Len(events') = Len(events) - 1
      /\ \A i \in 1..Len(events') : events'[i] = events[i + 1]
      /\ events' \in Seq(Lines)
      /\ wline' = events[1]
  BY <1>1, HeadTailProperties DEF Take
<1>3. token' = token /\ cancelled' = cancelled /\ ~Busy
  BY DEF Take, Busy
<1>4. CASE \E i \in DOMAIN events : Takeover(events[i])
  <2>1. PICK i \in 1..Len(events) : Takeover(events[i])
    BY <1>1, <1>4
  <2>2. CASE i = 1
    <3>1. Takeover(wline') /\ worker' \in Dispatch(wline'.verb)
      BY <1>2, <2>1, <2>2 DEF Take, Takeover
    <3>2. worker' \in {"interim", "signal", "content", "callback"}
      BY <3>1 DEF Dispatch, Takeover
    <3> QED
      BY <3>1, <3>2 DEF Busy, Takeover
  <2>3. CASE i # 1
    <3>1. i - 1 \in 1..Len(events') /\ events'[i - 1] = events[i]
      BY <1>1, <1>2, <2>3
    <3>2. i - 1 \in DOMAIN events'
      BY <1>2, <3>1, LenProperties
    <3> QED
      BY <2>1, <3>1, <3>2 DEF Takeover
  <2> QED
    BY <2>2, <2>3
<1> QED
  BY <1>3, <1>4 DEF NoLostWakeup

(* A busy worker stays busy until it puts the token in the channel or      *)
(* returns.                                                                *)
LEMMA WorkerWakeup == TypeOK /\ NoLostWakeup /\ Worker => NoLostWakeup'
<1> SUFFICES ASSUME TypeOK, NoLostWakeup, Worker PROVE NoLostWakeup'
  OBVIOUS
<1> USE DEF NoLostWakeup, readerVars, Return
<1>1. CASE Take
  BY <1>1, TakeWakeup
<1>2. CASE Banner \/ BannerFails \/ EventsClosed \/ SeesCancel \/ Farewell
  BY <1>2 DEF Banner, BannerFails, EventsClosed, SeesCancel, Farewell, Busy
<1>3. CASE WorkerFills
  BY <1>3 DEF WorkerFills, Fill, workerVars, Busy, Takeover
<1>4. CASE Interim \/ InterimFails \/ ReadContentFails
  BY <1>4 DEF Interim, InterimFails, ReadContentFails, Busy, Takeover
<1>5. CASE ReadContent
  BY <1>5 DEF ReadContent, Busy, Takeover
<1>6. CASE CallbackReturns \/ CallbackPanics
  BY <1>6 DEF CallbackReturns, CallbackPanics, Busy, Takeover
<1>7. CASE Handshake \/ HandshakeFails
  BY <1>7 DEF Handshake, HandshakeFails, Busy, Takeover
<1>8. CASE Signal
  BY <1>8 DEF Signal
<1>9. CASE WriteReply \/ WriteReplyFails \/ GreetingFails
  BY <1>9 DEF WriteReply, WriteReplyFails, GreetingFails, Busy
<1> QED
  BY <1>1, <1>2, <1>3, <1>4, <1>5, <1>6, <1>7, <1>8, <1>9 DEF Worker

(* A paused reader always has a wake-up coming, so no session hangs until  *)
(* the resume timer because a handler forgot its token.                    *)
THEOREM NoLostWakeupCorrect == Spec => []NoLostWakeup
<1>1. Init => NoLostWakeup
  BY DEF Init, NoLostWakeup
<1>2. TypeOK /\ NoLostWakeup /\ [Next]_vars => NoLostWakeup'
  <2> SUFFICES ASSUME TypeOK, NoLostWakeup, [Next]_vars PROVE NoLostWakeup'
    OBVIOUS
  <2> USE DEF NoLostWakeup, streamVars, readerVars, workerVars, Busy, Takeover
  <2>1. CASE Client
    BY <2>1 DEF Client, ClientCommand, ClientContent, ClientHello, ClientReads,
                ClientGone
  <2>2. CASE WatchdogCloses
    BY <2>2 DEF WatchdogCloses
  <2>3. CASE Shutdown
    BY <2>3 DEF Shutdown
  <2>4. CASE UNCHANGED vars
    BY <2>4 DEF vars
  <2> QED
    BY <2>1, <2>2, <2>3, <2>4, ReaderWakeup, WorkerWakeup DEF Next
<1> QED
  BY <1>1, <1>2, TypeCorrect, PTL DEF Spec

-----------------------------------------------------------------------------
(* Nothing received in the clear is trusted under TLS.                     *)

Secret(s) == \A i \in 1..Len(s) : ~s[i].clear

(* The client turns to TLS once, with its ClientHello: what is in flight   *)
(* is first clear, then secret.                                            *)
TurnInv ==
  /\ clear => \A i \in 1..Len(net) : net[i].clear
  /\ \A i \in 1..Len(net) : net[i].verb = "HELLO" => ~net[i].clear
  /\ \A i, j \in 1..Len(net) : i < j /\ ~net[i].clear => ~net[j].clear

(* Before the banner of an implicit TLS listener nothing was read, and     *)
(* nothing but the ClientHello can be the first thing sent.                *)
BannerInv ==
  worker = "banner" =>
    /\ rbuf = <<>>
    /\ listener = "tls" =>
         IF clear THEN net = <<>> /\ client \in {"hello", "closed", "halted"}
                  ELSE Secret(net)

SecureInv ==
  secure =>
    /\ ~clear
    /\ Secret(net) /\ Secret(rbuf) /\ Secret(events)
    /\ reader = "send" => ~rline.clear
    /\ worker \in {"interim", "content", "callback"} => ~wline.clear

ClearInv == TurnInv /\ BannerInv /\ SecureInv

(* A part of a secret sequence is secret.                                  *)
LEMMA SecretParts ==
  ASSUME NEW s \in Seq(Lines), Secret(s)
  PROVE  /\ \A l \in Lines : ~l.clear => Secret(Append(s, l))
         /\ s # <<>> => Secret(Tail(s)) /\ ~Head(s).clear
         /\ \A k \in 1..Len(s) : /\ Secret(SubSeq(s, 1, k))
                                 /\ Secret(SubSeq(s, k + 1, Len(s)))
<1>0. Len(s) \in Nat
  BY LenProperties
<1>1. ASSUME NEW l \in Lines, ~l.clear PROVE Secret(Append(s, l))
  BY <1>0, <1>1, AppendProperties DEF Secret
<1>2. ASSUME s # <<>> PROVE Secret(Tail(s)) /\ ~Head(s).clear
  <2>1. 1 \in 1..Len(s) /\ Head(s) = s[1]
    BY <1>0, <1>2, HeadTailProperties, EmptySeq, LenProperties
  <2>2. Len(Tail(s)) = Len(s) - 1 /\ \A i \in 1..Len(Tail(s)) : Tail(s)[i] = s[i + 1]
    BY <1>2, HeadTailProperties
  <2> QED
    BY <1>0, <2>1, <2>2 DEF Secret
<1>3. ASSUME NEW k \in 1..Len(s)
      PROVE  Secret(SubSeq(s, 1, k)) /\ Secret(SubSeq(s, k + 1, Len(s)))
  BY <1>0 DEF Secret
<1> QED
  BY <1>1, <1>2, <1>3

(* The client sends a line under what it holds for TLS.                    *)
LEMMA PutTurns ==
  ASSUME TypeOK, TurnInv, NEW verb \in Verbs, Put(verb), sent' \in Nat,
         clear' \in BOOLEAN, clear' => clear, verb = "HELLO" => ~clear'
  PROVE  /\ TurnInv'
         /\ Secret(net) /\ ~clear' => Secret(net')
<1> DEFINE line == [verb |-> verb, n |-> sent', clear |-> clear']
<1>1. net' = Append(net, line) /\ net \in Seq(Lines) /\ line \in Lines
      /\ Len(net) \in Nat
  BY LineTypes, LenProperties DEF Put, TypeOK
<1>2. /\ Len(net') = Len(net) + 1
      /\ \A i \in 1..Len(net) : net'[i] = net[i]
      /\ net'[Len(net) + 1] = line
  BY <1>1, AppendProperties
<1>3. line.clear = clear' /\ line.verb = verb
  OBVIOUS
<1> HIDE DEF line
<1>4. \A i \in 1..Len(net') : i = Len(net) + 1 \/ i \in 1..Len(net)
  BY <1>1, <1>2
<1>5. clear' => \A i \in 1..Len(net') : net'[i].clear
  BY <1>2, <1>3, <1>4 DEF TurnInv
<1>6. \A i \in 1..Len(net') : net'[i].verb = "HELLO" => ~net'[i].clear
  BY <1>2, <1>3, <1>4 DEF TurnInv
<1>7. ASSUME NEW i \in 1..Len(net'), NEW j \in 1..Len(net'), i < j, ~net'[i].clear
      PROVE  ~net'[j].clear
  <2>1. i \in 1..Len(net)
    BY <1>1, <1>2, <1>4, <1>7
  <2>2. CASE j \in 1..Len(net)
    BY <1>2, <1>7, <2>1, <2>2 DEF TurnInv
  <2>3. CASE j = Len(net) + 1
    BY <1>2, <1>3, <1>7, <2>1, <2>3 DEF TurnInv
  <2> QED
    BY <1>4, <2>2, <2>3
<1>8. Secret(net) /\ ~clear' => Secret(net')
  BY <1>1, <1>3, SecretParts
<1> QED
  BY <1>5, <1>6, <1>7, <1>8 DEF TurnInv

LEMMA ClientClear == TypeOK /\ HandoffInv /\ ClearInv /\ Client => ClearInv'
<1> SUFFICES ASSUME TypeOK, ClearInv, Client PROVE ClearInv'
  OBVIOUS
<1>0. TurnInv /\ BannerInv /\ SecureInv /\ sent \in Nat /\ clear \in BOOLEAN
  BY DEF ClearInv, TypeOK
<1>1. ASSUME NEW verb \in Verbs, Put(verb), sent' \in Nat,
             clear' \in BOOLEAN, clear' => clear, verb = "HELLO" => ~clear',
             worker = "banner" /\ listener = "tls" /\ clear => ~clear',
             UNCHANGED <<rbuf, listener, secure, events, readerVars, workerVars>>
      PROVE  ClearInv'
  <2>1. TurnInv' /\ (Secret(net) /\ ~clear' => Secret(net'))
    BY <1>0, <1>1, PutTurns
  <2>2. SecureInv'
    BY <1>0, <1>1, <2>1 DEF SecureInv, readerVars, workerVars, Secret
  <2>3. worker = "banner" /\ listener = "tls" => ~clear' /\ Secret(net)
    BY <1>0, <1>1, EmptySeq DEF BannerInv, Secret
  <2>4. BannerInv'
    BY <1>0, <1>1, <2>1, <2>3 DEF BannerInv, workerVars, Secret
  <2> QED
    BY <2>1, <2>2, <2>4 DEF ClearInv
<1>2. ASSUME NEW verb \in Commands, ClientCommand(verb) PROVE ClearInv'
  <2>1. client \in {"ready", "await220"}
    BY <1>2 DEF ClientCommand
  <2>2. worker = "banner" /\ listener = "tls" => ~clear
    BY <1>0, <2>1 DEF BannerInv
  <2>3. verb \in Verbs /\ verb # "HELLO" /\ sent' \in Nat /\ clear' = clear
    BY <1>0, <1>2 DEF ClientCommand, Verbs, Commands
  <2> QED
    BY <1>0, <1>1, <1>2, <2>2, <2>3 DEF ClientCommand
<1>3. CASE ClientContent
  <2>1. worker = "banner" /\ listener = "tls" => ~clear
    BY <1>0, <1>3 DEF BannerInv, ClientContent
  <2>2. "BODY" \in Verbs /\ sent' = sent /\ clear' = clear
    BY <1>3 DEF ClientContent, Verbs
  <2> QED
    BY <1>0, <1>1, <1>3, <2>1, <2>2 DEF ClientContent
<1>4. CASE ClientHello
  <2>1. "HELLO" \in Verbs /\ sent' = sent /\ clear' = FALSE
    BY <1>4 DEF ClientHello, Verbs
  <2> QED
    BY <1>0, <1>1, <1>4, <2>1 DEF ClientHello
<1>5. ASSUME UNCHANGED <<clear, net, rbuf, listener, secure, events, readerVars,
                         workerVars>>,
             client \in {"hello", "closed", "halted"} =>
               client' \in {"hello", "closed", "halted"}
      PROVE  ClearInv'
  <2>1. TurnInv' /\ SecureInv'
    BY <1>0, <1>5 DEF TurnInv, SecureInv, Secret, readerVars, workerVars
  <2>2. BannerInv'
    BY <1>0, <1>5 DEF BannerInv, Secret, workerVars
  <2> QED
    BY <2>1, <2>2 DEF ClearInv
<1>6. CASE ClientReads
  <2>1. client = "hello" => client' = "hello"
    BY <1>6 DEF ClientReads, Awaited, Mistaken
  <2>2. client \notin {"closed", "halted"}
    BY <1>6 DEF ClientReads, Gone
  <2> QED
    BY <1>5, <1>6, <2>1, <2>2 DEF ClientReads
<1>7. CASE ClientGone
  BY <1>5, <1>7 DEF ClientGone
<1> QED
  BY <1>2, <1>3, <1>4, <1>6, <1>7 DEF Client

(* What is read out of the stream leaves the rest in order.                *)
LEMMA RestTurns ==
  ASSUME TypeOK, TurnInv, NEW k \in 0..Len(net),
         Len(net') = Len(net) - k, \A i \in 1..Len(net') : net'[i] = net[i + k],
         clear' = clear
  PROVE  TurnInv'
<1>1. Len(net) \in Nat
  BY LenProperties DEF TypeOK
<1>2. \A i \in 1..Len(net') : i + k \in 1..Len(net)
  BY <1>1
<1>3. ASSUME NEW i \in 1..Len(net'), NEW j \in 1..Len(net'), i < j, ~net'[i].clear
      PROVE  ~net'[j].clear
  <2>1. i \in Nat /\ j \in Nat /\ k \in Nat
    BY <1>1
  <2>2. i + k \in 1..Len(net) /\ j + k \in 1..Len(net) /\ i + k < j + k
    BY <1>2, <1>3, <2>1
  <2>3. ~net[i + k].clear => ~net[j + k].clear
    BY <2>2 DEF TurnInv
  <2> QED
    BY <1>3, <2>3
<1>4. /\ clear' => \A i \in 1..Len(net') : net'[i].clear
      /\ \A i \in 1..Len(net') : net'[i].verb = "HELLO" => ~net'[i].clear
  BY <1>2 DEF TurnInv
<1> QED
  BY <1>3, <1>4 DEF TurnInv

LEMMA FillClear ==
  ASSUME TypeOK, ClearInv, Fill, worker # "banner", worker' = worker
  PROVE  ClearInv'
<1>0. TurnInv /\ SecureInv /\ net \in Seq(Lines) /\ Len(net) \in Nat
  BY LenProperties DEF ClearInv, TypeOK
<1>1. PICK k \in 1..Len(net) :
        rbuf' = SubSeq(net, 1, k) /\ net' = SubSeq(net, k + 1, Len(net))
  BY DEF Fill
<1>2. /\ UNCHANGED <<clear, secure, events, readerVars, workerVars>>
  BY DEF Fill
<1>3. TurnInv'
  <2>1. Len(net') = Len(net) - k /\ \A i \in 1..Len(net') : net'[i] = net[i + k]
    BY <1>0, <1>1
  <2> QED
    BY <1>0, <1>1, <1>2, <2>1, RestTurns
<1>4. Secret(net) => Secret(net') /\ Secret(rbuf')
  BY <1>0, <1>1, SecretParts
<1>5. SecureInv'
  BY <1>0, <1>2, <1>4 DEF SecureInv, Secret, readerVars, workerVars
<1> QED
  BY <1>3, <1>5 DEF ClearInv, BannerInv

(* The stream is as it was, and the banner is not to come.                 *)
LEMMA NetStays ==
  ASSUME ClearInv, UNCHANGED <<clear, net>>, worker' # "banner"
  PROVE  TurnInv' /\ BannerInv'
BY DEF ClearInv, TurnInv, BannerInv

LEMMA ReaderClear == TypeOK /\ HandoffInv /\ ClearInv /\ Reader => ClearInv'
<1> SUFFICES ASSUME TypeOK, HandoffInv, ClearInv, Reader PROVE ClearInv'
  OBVIOUS
<1>0. /\ SecureInv /\ worker # "banner" /\ worker' = worker
      /\ rbuf \in Seq(Lines) /\ events \in Seq(Lines) /\ rline \in Lines
  <2>1. reader # "unborn" /\ worker' = worker
    BY DEF Reader, ReadCommand, ReadCommandFails, ReaderFills, Fill, Enqueue,
           SendCancelled, Resume, PauseEnds, workerVars
  <2> QED
    BY <2>1 DEF ClearInv, TypeOK, HandoffInv
<1>1. CASE ReaderFills
  BY <1>0, <1>1, FillClear DEF ReaderFills
<1>2. CASE ReadCommand
  <2>1. Secret(rbuf) => Secret(rbuf') /\ ~rline'.clear
    <3>1. Head(rbuf) \in Lines
      BY <1>0, <1>2, HeadTailProperties DEF ReadCommand
    <3>2. rline'.clear = Head(rbuf).clear
      BY <1>2, <3>1, ParsedLines DEF ReadCommand
    <3> QED
      BY <1>0, <1>2, <3>2, SecretParts DEF ReadCommand
  <2>2. UNCHANGED <<clear, net, secure, events, worker, wline>>
    BY <1>2 DEF ReadCommand, streamVars, workerVars
  <2>3. SecureInv'
    BY <1>0, <2>1, <2>2 DEF SecureInv, Secret
  <2> QED
    BY <1>0, <2>2, <2>3, NetStays DEF ClearInv
<1>3. CASE Enqueue
  <2>1. Secret(events) /\ ~rline.clear => Secret(events')
    BY <1>0, <1>3, SecretParts DEF Enqueue
  <2>2. /\ UNCHANGED <<clear, net, rbuf, secure, worker, wline>>
        /\ reader = "send" /\ reader' # "send"
    BY <1>3 DEF Enqueue, streamVars, workerVars
  <2>3. SecureInv'
    BY <1>0, <2>1, <2>2 DEF SecureInv, Secret
  <2> QED
    BY <1>0, <2>2, <2>3, NetStays DEF ClearInv
<1>4. CASE ReadCommandFails \/ SendCancelled \/ Resume \/ PauseEnds
  <2>1. /\ UNCHANGED <<clear, net, rbuf, secure, events, worker, wline>>
        /\ reader' # "send"
    BY <1>4 DEF ReadCommandFails, SendCancelled, Resume, PauseEnds, streamVars,
                workerVars
  <2>2. SecureInv'
    BY <1>0, <2>1 DEF SecureInv, Secret
  <2> QED
    BY <1>0, <2>1, <2>2, NetStays DEF ClearInv
<1> QED
  BY <1>1, <1>2, <1>3, <1>4 DEF Reader

(* The handshakes: what follows a ClientHello is secret, and nothing read  *)
(* before it is left.                                                      *)
LEMMA BannerClear == TypeOK /\ HandoffInv /\ ClearInv /\ Banner => ClearInv'
<1> SUFFICES ASSUME TypeOK, HandoffInv, ClearInv, Banner PROVE ClearInv'
  OBVIOUS
<1>0. /\ TurnInv /\ BannerInv /\ SecureInv /\ net \in Seq(Lines)
      /\ worker = "banner" /\ worker' = "select" /\ reader' = "read"
      /\ rbuf = <<>> /\ events = <<>>
      /\ UNCHANGED <<clear, rbuf, events>>
  BY DEF ClearInv, BannerInv, TypeOK, HandoffInv, Banner
<1>1. CASE listener = "plain" /\ UNCHANGED <<net, secure>>
  <2>1. SecureInv'
    BY <1>0, <1>1 DEF SecureInv, Secret
  <2> QED
    BY <1>0, <1>1, <2>1, NetStays DEF ClearInv
<1>2. CASE listener = "tls" /\ net # <<>> /\ net' = Tail(net) /\ secure' = TRUE
  <2>1. ~clear /\ Secret(net)
    BY <1>0, <1>2 DEF BannerInv
  <2>2. Secret(net')
    BY <1>0, <1>2, <2>1, SecretParts
  <2>3. SecureInv'
    BY <1>0, <2>1, <2>2, EmptySeq DEF SecureInv, Secret
  <2>4. TurnInv'
    BY <1>0, <2>1, <2>2 DEF TurnInv, Secret
  <2> QED
    BY <1>0, <2>3, <2>4 DEF ClearInv, BannerInv
<1> QED
  BY <1>1, <1>2 DEF Banner

LEMMA HandshakeClear == TypeOK /\ HandoffInv /\ ClearInv /\ Handshake => ClearInv'
<1> SUFFICES ASSUME TypeOK, HandoffInv, ClearInv, Handshake PROVE ClearInv'
  OBVIOUS
<1>0. /\ TurnInv /\ net \in Seq(Lines) /\ Len(net) \in Nat /\ events = <<>>
      /\ reader # "send" /\ net # <<>> /\ Head(net).verb = "HELLO"
      /\ net' = Tail(net) /\ rbuf' = <<>> /\ worker' = "signal"
      /\ UNCHANGED <<clear, events, reader>>
  BY LenProperties DEF ClearInv, TypeOK, HandoffInv, Handshake, HelloArrived, Busy,
                       Quiet, readerVars
<1>1. 1 \in 1..Len(net) /\ net[1] = Head(net)
  BY <1>0, HeadTailProperties, EmptySeq, LenProperties
<1>2. ~net[1].clear /\ ~clear
  BY <1>0, <1>1 DEF TurnInv
<1>3. Secret(net)
  BY <1>0, <1>1, <1>2 DEF TurnInv, Secret
<1>4. Secret(net')
  BY <1>0, <1>3, SecretParts
<1>5. SecureInv'
  BY <1>0, <1>2, <1>4, EmptySeq DEF SecureInv, Secret
<1>6. TurnInv'
  BY <1>0, <1>2, <1>4 DEF TurnInv, Secret
<1> QED
  BY <1>0, <1>5, <1>6 DEF ClearInv, BannerInv

(* The other steps of the worker run only a line they took from events.    *)
LEMMA WorkerClear == TypeOK /\ HandoffInv /\ ClearInv /\ Worker => ClearInv'
<1> SUFFICES ASSUME TypeOK, HandoffInv, ClearInv, Worker PROVE ClearInv'
  OBVIOUS
<1>0. SecureInv /\ rbuf \in Seq(Lines) /\ events \in Seq(Lines)
  BY DEF ClearInv, TypeOK
<1>1. CASE WorkerFills
  BY <1>1, FillClear DEF WorkerFills, Fill, workerVars
<1>2. CASE Take
  <2>1. Secret(events) => Secret(events') /\ ~wline'.clear
    BY <1>0, <1>2, SecretParts DEF Take
  <2>2. UNCHANGED <<clear, net, rbuf, secure, reader, rline>>
    BY <1>2 DEF Take, streamVars, readerVars
  <2>3. worker' # "banner"
    BY <1>2 DEF Take, Dispatch
  <2>4. SecureInv'
    BY <1>0, <2>1, <2>2 DEF SecureInv, Secret
  <2> QED
    BY <2>2, <2>3, <2>4, NetStays DEF ClearInv
<1>3. CASE ReadContent
  <2>1. Secret(rbuf) => Secret(rbuf')
    BY <1>0, <1>3, SecretParts DEF ReadContent
  <2>2. /\ UNCHANGED <<clear, net, events, secure, reader, rline, wline>>
        /\ worker = "content" /\ worker' # "banner"
    BY <1>3 DEF ReadContent, streamVars, readerVars
  <2>3. SecureInv'
    BY <1>0, <2>1, <2>2 DEF SecureInv, Secret
  <2> QED
    BY <2>2, <2>3, NetStays DEF ClearInv
<1>4. CASE \/ BannerFails \/ EventsClosed \/ SeesCancel \/ Farewell \/ Interim
           \/ InterimFails \/ ReadContentFails \/ CallbackReturns
           \/ CallbackPanics \/ HandshakeFails \/ Signal \/ WriteReply
           \/ WriteReplyFails \/ GreetingFails
  <2>1. UNCHANGED <<clear, net, rbuf, secure, events, reader, rline, wline>>
    BY <1>4 DEF BannerFails, EventsClosed, SeesCancel, Farewell, Interim,
         InterimFails, ReadContentFails, CallbackReturns, CallbackPanics,
         HandshakeFails, Signal, WriteReply, WriteReplyFails, GreetingFails,
         streamVars, readerVars
  <2>2. /\ worker' # "banner"
        /\ worker' \in {"interim", "content", "callback"} =>
             worker \in {"interim", "content", "callback"}
    BY <1>4 DEF BannerFails, EventsClosed, SeesCancel, Farewell, Interim,
         InterimFails, ReadContentFails, CallbackReturns, CallbackPanics,
         HandshakeFails, Signal, WriteReply, WriteReplyFails, GreetingFails, Return
  <2>3. SecureInv'
    BY <1>0, <2>1, <2>2 DEF SecureInv, Secret
  <2> QED
    BY <2>1, <2>2, <2>3, NetStays DEF ClearInv
<1> QED
  BY <1>1, <1>2, <1>3, <1>4, BannerClear, HandshakeClear DEF Worker

LEMMA NextClear == TypeOK /\ HandoffInv /\ ClearInv /\ [Next]_vars => ClearInv'
<1> SUFFICES ASSUME TypeOK, HandoffInv, ClearInv, [Next]_vars PROVE ClearInv'
  OBVIOUS
<1>1. CASE WatchdogCloses \/ Shutdown \/ UNCHANGED vars
  <2>1. UNCHANGED <<streamVars, rbuf, listener, secure, events, readerVars, workerVars>>
    BY <1>1 DEF WatchdogCloses, Shutdown, vars
  <2> QED
    BY <2>1 DEF ClearInv, TurnInv, BannerInv, SecureInv, Secret, streamVars,
                readerVars, workerVars
<1> QED
  BY <1>1, ClientClear, ReaderClear, WorkerClear DEF Next

(* Under TLS no command received in the clear is queued or run: when       *)
(* upgradeToTLS replaces the buffer the reader is paused and the channel   *)
(* empty, and behind a ClientHello the stream is secret.                   *)
THEOREM ClearNeverTrustedCorrect == Spec => []ClearNeverTrusted
<1>1. Init => ClearInv
  BY EmptySeq DEF Init, ClearInv, TurnInv, BannerInv, SecureInv, Secret
<1>2. TypeOK /\ ClearInv => ClearNeverTrusted
  <2> SUFFICES ASSUME TypeOK, ClearInv PROVE ClearNeverTrusted
    OBVIOUS
  <2>1. DOMAIN events = 1..Len(events)
    BY LenProperties DEF TypeOK
  <2> QED
    BY <2>1 DEF ClearInv, SecureInv, Secret, ClearNeverTrusted
<1> QED
  BY <1>1, <1>2, NextClear, TypeCorrect, HandoffCorrect, PTL DEF Spec

=============================================================================
