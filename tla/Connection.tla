---------------------------- MODULE Connection ----------------------------
(***************************************************************************)
(* One SMTP connection of smtpgateway: the goroutines of handleConn        *)
(* (src/smtp.go) and the peer they talk to.                                *)
(*                                                                         *)
(*   reader    readCommands: reads command lines, puts them on `events',   *)
(*             and pauses on `resumeCh' after DATA, BDAT and STARTTLS      *)
(*   worker    the loop of handleConn: runs the commands, writes replies,  *)
(*             and takes the socket over for a body or a TLS handshake     *)
(*   watchdog  closes the socket once the connection context is cancelled  *)
(*   client    the peer and the two directions of the TCP stream           *)
(*                                                                         *)
(* What a command does to the mail transaction is module Session.  Here a  *)
(* command is its verb, because only DATA, BDAT, STARTTLS and QUIT change  *)
(* who may read the socket; every other verb is "CMD", "LONG" is a line    *)
(* over maxLineLength, "BADBDAT" is a BDAT whose size does not parse or    *)
(* exceeds maxBDATChunk, and "BDAT0" one of no bytes.                      *)
(***************************************************************************)
EXTENDS Naturals, Sequences

CONSTANTS
  QueueDepth,   \* capacity of the channel events (32 in the code)
  MaxCommands,  \* bound: commands the client sends
  MaxAstray,    \* bound: commands the client sends once content has strayed
  Window,       \* replies that fit in the socket while the client reads none
  WriteTimeouts,\* values considered for Server.WriteTimeout > 0
  Listeners     \* kinds of net.Listener considered: "plain", "tls"

ASSUME QueueDepthAssumption == QueueDepth \in Nat \ {0}
ASSUME MaxCommandsAssumption == MaxCommands \in Nat /\ MaxAstray \in Nat
ASSUME WindowAssumption == Window \in Nat \ {0}
ASSUME FlagsAssumption ==
  /\ WriteTimeouts \subseteq BOOLEAN
  /\ Listeners \subseteq {"plain", "tls"}

VARIABLES
  client,    \* what the client does next
  sent,      \* commands sent so far
  clear,     \* whether the client writes in the clear (no TLS on its side)
  net,       \* bytes in flight to the server
  out,       \* replies written and not yet read by the client
  rbuf,      \* bytes buffered in conn.r
  sock,      \* conn.netConn
  listener,  \* kind of listener that accepted the connection
  secure,    \* conn.tlsState # nil
  events,    \* the channel events
  token,     \* number of elements in resumeCh (capacity 1)
  reader,    \* program counter of readCommands
  rline,     \* the line the reader read last
  worker,    \* program counter of the worker loop
  wline,     \* the command the worker took last
  answer,    \* whether the handler returned a response to write
  cancelled, \* conn.ctx is done
  watchdog,  \* program counter of the watchdog goroutine
  writeTimeout, \* Server.WriteTimeout > 0
  strayed    \* history: whether a takeover left its content in the stream

streamVars == <<client, sent, clear, net, out>>
readerVars == <<reader, rline>>
workerVars == <<worker, wline, answer>>
vars == <<streamVars, rbuf, sock, listener, secure, events, token,
          readerVars, workerVars, cancelled, watchdog, writeTimeout, strayed>>

-----------------------------------------------------------------------------
(* The lines of the stream.  BODY stands for message content: the lines of *)
(* a DATA body with its terminator, or the bytes of one BDAT chunk.  HELLO *)
(* is a TLS ClientHello.  n numbers the commands; `clear' tells a line     *)
(* sent before TLS from one sent under it.                                 *)

Commands == {"CMD", "LONG", "QUIT", "DATA", "BDAT", "BADBDAT",
             "BDAT0", "STARTTLS"}
Verbs == Commands \cup {"BODY", "HELLO"}
Lines == [verb : Verbs, n : Nat, clear : BOOLEAN]
NoLine == [verb |-> "CMD", n |-> 0, clear |-> TRUE]

(* A reply, by the verb it answers and the number of the command, which    *)
(* the client knows because it counts replies; `go' is an intermediate 354 *)
(* or 220 that tells the client to continue.                               *)
Replies == [to : Verbs \cup {"CONNECT", "SHUTDOWN"}, n : Nat, go : BOOLEAN]
Reply(verb) == [to |-> verb, n |-> wline.n, go |-> FALSE]
GoAhead(verb) == [to |-> verb, n |-> wline.n, go |-> TRUE]

(* Mutant: STARTTLS forgotten among the commands that pause the reader.    *)
TakeoverNoStartTLS(line) ==
  line.verb \in {"DATA", "BDAT", "BADBDAT", "BDAT0"}

(* The commands after which the reader pauses and the worker reads.        *)
Takeover(line) ==
  line.verb \in {"DATA", "BDAT", "BADBDAT", "BDAT0", "STARTTLS"}

Gone == client \in {"closed", "halted"}
Drained == rbuf = <<>> /\ net = <<>>

-----------------------------------------------------------------------------
(* The client.  It pipelines commands (RFC 2920), waits for the 354 before *)
(* it sends message content, sends a BDAT chunk right after its command,   *)
(* may pipeline after STARTTLS although RFC 3207 forbids it, and may close *)
(* or go silent at any moment.                                             *)

Put(verb) ==
  net' = Append(net, [verb |-> verb, n |-> sent', clear |-> clear'])

AfterCommand(verb) ==
  CASE verb = "DATA" -> "await354"
    [] verb \in {"BDAT", "BADBDAT"} -> "content"
    [] verb = "STARTTLS" -> "await220"
    [] verb = "QUIT" -> "finished"
    [] OTHER -> "ready"

ClientCommand(verb) ==
  /\ sock = "open"
  /\ sent < IF strayed = "no" THEN MaxCommands ELSE MaxAstray
  /\ \/ client = "ready" /\ client' = AfterCommand(verb)
     \/ client = "await220" /\ verb = "CMD" /\ UNCHANGED client
  /\ sent' = sent + 1
  /\ UNCHANGED clear
  /\ Put(verb)
  /\ UNCHANGED <<out, rbuf, sock, listener, secure, events, token,
                 readerVars, workerVars, cancelled, watchdog,
                 writeTimeout, strayed>>

ClientContent ==
  /\ sock = "open"
  /\ client = "content"
  /\ client' = "ready"
  /\ UNCHANGED <<sent, clear>>
  /\ Put("BODY")
  /\ UNCHANGED <<out, rbuf, sock, listener, secure, events, token,
                 readerVars, workerVars, cancelled, watchdog,
                 writeTimeout, strayed>>

(* The ClientHello; from here on the client writes under TLS.              *)
ClientHello ==
  /\ sock = "open"
  /\ client = "hello"
  /\ client' = "ready"
  /\ clear' = FALSE
  /\ UNCHANGED sent
  /\ Put("HELLO")
  /\ UNCHANGED <<out, rbuf, sock, listener, secure, events, token,
                 readerVars, workerVars, cancelled, watchdog,
                 writeTimeout, strayed>>

(* Whether the reply answers the command that the client waits for, and    *)
(* what the client does then.                                              *)
Awaited(reply) ==
  \/ client = "await354" /\ reply.to = "DATA" /\ reply.n = sent
  \/ client = "await220" /\ reply.to = "STARTTLS"

AfterReply(reply) ==
  IF ~reply.go THEN "ready"
  ELSE IF client = "await354" THEN "content" ELSE "hello"

(* A client counts replies.  Content that strayed into the command stream  *)
(* is answered too; from then on it may take a reply for another one, of   *)
(* which a go-ahead shows by its code what it is for.                      *)
Mistaken(reply) ==
  /\ strayed # "no"
  /\ \/ client = "await354" /\ (reply.go => reply.to = "DATA")
     \/ client = "await220" /\ (reply.go => reply.to = "STARTTLS")

ClientReads ==
  /\ ~Gone
  /\ out # <<>>
  /\ LET reply == Head(out) IN
     \/ /\ Awaited(reply) \/ Mistaken(reply)
        /\ client' = AfterReply(reply)
     \/ (Awaited(reply) => strayed # "no") /\ UNCHANGED client
  /\ out' = Tail(out)
  /\ UNCHANGED <<sent, clear, net, rbuf, sock, listener, secure, events, token,
                 readerVars, workerVars, cancelled, watchdog,
                 writeTimeout, strayed>>

(* The client closes its end, or stops reading and writing for ever.       *)
ClientGone ==
  /\ ~Gone
  /\ client' \in {"closed", "halted"}
  /\ UNCHANGED <<sent, clear, net, out, rbuf, sock, listener, secure, events,
                 token, readerVars, workerVars, cancelled, watchdog,
                 writeTimeout, strayed>>

-----------------------------------------------------------------------------
(* The socket as the goroutines see it.                                    *)

(* conn.write succeeds: the socket is open and has room.                   *)
WriteOK(reply) ==
  /\ sock = "open"
  /\ Len(out) < Window
  /\ out' = Append(out, reply)

(* conn.write fails: the socket is closed at this end or at the other, or  *)
(* the write deadline passes.  With neither, a full window blocks it.      *)
WriteFails ==
  /\ \/ sock = "closed"
     \/ client = "closed"
     \/ writeTimeout /\ Len(out) = Window
  /\ UNCHANGED out

(* A read of conn.r that finds no complete item in its buffer fills it     *)
(* with what has arrived.                                                  *)
Fill ==
  /\ sock = "open"
  /\ rbuf = <<>>
  /\ \E k \in 1..Len(net) :
       /\ rbuf' = SubSeq(net, 1, k)
       /\ net' = SubSeq(net, k + 1, Len(net))
  /\ UNCHANGED <<client, sent, clear, out, sock, listener, secure, events,
                 token, readerVars, workerVars, cancelled, watchdog,
                 writeTimeout, strayed>>

(* Mutant: no read deadline is set.                                        *)
ReadFailsNoDeadline ==
  /\ rbuf = <<>>
  /\ sock = "closed" \/ (net = <<>> /\ client = "closed")

(* A read of conn.r fails: the socket was closed here, the client closed   *)
(* it and everything it sent is consumed, or the read deadline passes.     *)
ReadFails ==
  /\ rbuf = <<>>
  /\ sock = "closed" \/ net = <<>>

(* The bytes that a handshake reads next are a ClientHello.                *)
HelloArrived ==
  /\ sock = "open"
  /\ net # <<>>
  /\ Head(net).verb = "HELLO"

-----------------------------------------------------------------------------
(* The reader goroutine.  reader = "done" once it has closed events.       *)

(* What the reader makes of the next bytes: a command line is what it is,  *)
(* and a line of stray content may look like any command.                  *)
Parsed(line) ==
  IF line.verb \in Commands THEN {line}
  ELSE {[line EXCEPT !.verb = verb] : verb \in Commands}

ReadCommand ==
  /\ reader = "read"
  /\ rbuf # <<>>
  /\ rline' \in Parsed(Head(rbuf))
  /\ rbuf' = Tail(rbuf)
  /\ reader' = "send"
  /\ UNCHANGED <<streamVars, sock, listener, secure, events, token,
                 workerVars, cancelled, watchdog,
                 writeTimeout, strayed>>

ReadCommandFails ==
  /\ reader = "read"
  /\ ReadFails
  /\ reader' = "done"
  /\ UNCHANGED <<streamVars, rbuf, sock, listener, secure, events, token,
                 rline, workerVars, cancelled, watchdog,
                 writeTimeout, strayed>>

Enqueue ==
  /\ reader = "send"
  /\ Len(events) < QueueDepth
  /\ events' = Append(events, rline)
  /\ reader' = IF Takeover(rline) THEN "paused"
               ELSE IF rline.verb = "QUIT" THEN "done"
               ELSE "read"
  /\ UNCHANGED <<streamVars, rbuf, sock, listener, secure, token, rline,
                 workerVars, cancelled, watchdog,
                 writeTimeout, strayed>>

(* conn.ctx.Done() wins the select of a send.  The notice of an over-long  *)
(* line is dropped and the reader goes on; any other command ends it.      *)
SendCancelled ==
  /\ reader = "send"
  /\ cancelled
  /\ reader' = IF rline.verb = "LONG" THEN "read" ELSE "done"
  /\ UNCHANGED <<streamVars, rbuf, sock, listener, secure, events, token,
                 rline, workerVars, cancelled, watchdog,
                 writeTimeout, strayed>>

(* Mutant: after a takeover the socket is wrapped in a new reader; what    *)
(* the client pipelined behind the content is lost.                        *)
ResumeNewBuffer ==
  /\ reader = "paused"
  /\ token > 0
  /\ token' = token - 1
  /\ rbuf' = <<>>
  /\ reader' = "read"
  /\ UNCHANGED <<streamVars, sock, listener, secure, events, rline,
                 workerVars, cancelled, watchdog,
                 writeTimeout, strayed>>

Resume ==
  /\ reader = "paused"
  /\ token > 0
  /\ token' = token - 1
  /\ reader' = "read"
  /\ UNCHANGED <<streamVars, rbuf, sock, listener, secure, events, rline,
                 workerVars, cancelled, watchdog,
                 writeTimeout, strayed>>

(* Mutant: the resume timer resumes reading instead of ending it.          *)
PauseEndsReading ==
  /\ reader = "paused"
  /\ reader' = "read"
  /\ UNCHANGED <<streamVars, rbuf, sock, listener, secure, events, token,
                 rline, workerVars, cancelled, watchdog,
                 writeTimeout, strayed>>

(* The reader leaves its pause because the context is done, or because the *)
(* resume timer (ReadTimeout plus a minute) fires.                         *)
PauseEnds ==
  /\ reader = "paused"
  /\ reader' = "done"
  /\ UNCHANGED <<streamVars, rbuf, sock, listener, secure, events, token,
                 rline, workerVars, cancelled, watchdog,
                 writeTimeout, strayed>>

ReaderFills == reader = "read" /\ Fill

-----------------------------------------------------------------------------
(* The worker loop.                                                        *)

(* handleConn returns: its deferred calls close the socket and cancel the  *)
(* context.                                                                *)
Return ==
  /\ worker' = "done"
  /\ sock' = "closed"
  /\ cancelled' = TRUE

(* The banner.  On an implicit TLS listener the first write runs the       *)
(* handshake, which reads the ClientHello.                                 *)
Banner ==
  /\ worker = "banner"
  /\ WriteOK(Reply("CONNECT"))
  /\ \/ listener = "plain" /\ UNCHANGED <<net, secure>>
     \/ /\ listener = "tls"
        /\ net # <<>>
        /\ net' = Tail(net)
        /\ secure' = TRUE
  /\ worker' = "select"
  /\ reader' = "read"
  /\ UNCHANGED <<client, sent, clear, rbuf, sock, listener, events, token,
                 rline, wline, answer, cancelled, watchdog,
                 writeTimeout, strayed>>

BannerFails ==
  /\ worker = "banner"
  /\ WriteFails
  /\ Return
  /\ UNCHANGED <<client, sent, clear, net, rbuf, listener, secure, events,
                 token, readerVars, wline, answer, watchdog,
                 writeTimeout, strayed>>

(* Mutant: a refused DATA or STARTTLS returns without its token.           *)
DispatchNoToken(verb) ==
  CASE verb \in {"DATA", "STARTTLS"} -> {"interim", "reply"}
    [] verb = "BDAT" -> {"content"}
    [] verb = "BADBDAT" -> {"content", "signal"}
    [] verb = "BDAT0" -> {"callback", "signal"}
    [] verb = "LONG" -> {"reply"}
    [] verb = "QUIT" -> {"farewell"}
    [] OTHER -> {"callback"}

(* Mutant: a refused BDAT returns without discarding its chunk.            *)
DispatchNoDiscard(verb) ==
  CASE verb \in {"DATA", "STARTTLS"} -> {"interim", "signal"}
    [] verb \in {"BDAT", "BADBDAT"} -> {"content", "signal"}
    [] verb = "BDAT0" -> {"callback", "signal"}
    [] verb = "LONG" -> {"reply"}
    [] verb = "QUIT" -> {"farewell"}
    [] OTHER -> {"callback"}

(* The command starts a handler.  DATA and STARTTLS may be refused before  *)
(* their intermediate reply (bad sequence, no accepted recipient, an open  *)
(* BDAT sequence); then only the token is due.  A BDAT reads its chunk, to *)
(* keep it or to discard it, except that nothing is read of a chunk whose  *)
(* size does not parse or that readNBytes finds over maxBDATChunk; a chunk *)
(* of no bytes is complete at once.                                        *)
Dispatch(verb) ==
  CASE verb \in {"DATA", "STARTTLS"} -> {"interim", "signal"}
    [] verb = "BDAT" -> {"content"}
    [] verb = "BADBDAT" -> {"content", "signal"}
    [] verb = "BDAT0" -> {"callback", "signal"}
    [] verb = "LONG" -> {"reply"}
    [] verb = "QUIT" -> {"farewell"}
    [] OTHER -> {"callback"}

(* The handler of `line' starts with an answer that leaves its chunk       *)
(* unread.                                                                 *)
LeavesUnread(line, start) == line.verb = "BADBDAT" /\ start = "signal"

Stray(cause) == strayed' = IF strayed = "no" THEN cause ELSE strayed

Take ==
  /\ worker = "select"
  /\ events # <<>>
  /\ wline' = Head(events)
  /\ events' = Tail(events)
  /\ worker' \in Dispatch(wline'.verb)
  /\ IF LeavesUnread(wline', worker')
     THEN Stray("unread") ELSE UNCHANGED strayed
  /\ answer' = TRUE
  /\ UNCHANGED <<streamVars, rbuf, sock, listener, secure, token, readerVars,
                 cancelled, watchdog, writeTimeout>>

(* The channel is closed and empty.                                        *)
EventsClosed ==
  /\ worker = "select"
  /\ events = <<>>
  /\ reader = "done"
  /\ Return
  /\ UNCHANGED <<streamVars, rbuf, listener, secure, events, token,
                 readerVars, wline, answer, watchdog,
                 writeTimeout, strayed>>

(* conn.ctx.Done() wins the select of the loop: 421, then return.          *)
SeesCancel ==
  /\ worker = "select"
  /\ cancelled
  /\ worker' = "farewell"
  /\ UNCHANGED <<streamVars, rbuf, sock, listener, secure, events, token,
                 readerVars, wline, answer, cancelled, watchdog,
                 writeTimeout, strayed>>

(* The 221 of QUIT or the 421 of a shutdown; its error is ignored.         *)
Farewell ==
  /\ worker = "farewell"
  /\ WriteOK(Reply("SHUTDOWN")) \/ WriteFails
  /\ Return
  /\ UNCHANGED <<client, sent, clear, net, rbuf, listener, secure, events,
                 token, readerVars, wline, answer, watchdog,
                 writeTimeout, strayed>>

(* The 354 of DATA or the 220 of STARTTLS.                                 *)
Interim ==
  /\ worker = "interim"
  /\ WriteOK(GoAhead(wline.verb))
  /\ worker' = IF wline.verb = "DATA" THEN "content" ELSE "handshake"
  /\ UNCHANGED <<client, sent, clear, net, rbuf, sock, listener, secure,
                 events, token, readerVars, wline, answer, cancelled, watchdog,
                 writeTimeout, strayed>>

InterimFails ==
  /\ worker = "interim"
  /\ WriteFails
  /\ worker' = "signal"
  /\ UNCHANGED <<client, sent, clear, net, rbuf, sock, listener, secure,
                 events, token, readerVars, wline, answer, cancelled, watchdog,
                 writeTimeout, strayed>>

WorkerFills == worker = "content" /\ Fill

(* readDotUnstuffed reads to the terminator, which is part of BODY;        *)
(* readNBytes and Discard take the declared bytes whatever they are.  A    *)
(* complete message goes to Handler.Data unless it is refused first; a     *)
(* chunk that is not the last one is answered at once.                     *)
ReadContent ==
  /\ worker = "content"
  /\ rbuf # <<>>
  /\ rbuf' = Tail(rbuf)
  /\ IF wline.verb = "DATA" /\ Head(rbuf).verb # "BODY"
     THEN UNCHANGED worker
     ELSE worker' \in IF wline.verb = "BADBDAT" THEN {"signal"}
                      ELSE {"callback", "signal"}
  /\ UNCHANGED <<streamVars, sock, listener, secure, events, token,
                 readerVars, wline, answer, cancelled, watchdog,
                 writeTimeout, strayed>>

(* The read of a body or of a chunk, or Discard, fails: 451 or the refusal *)
(* that was due, and the session goes on.  Unless the client is gone or    *)
(* the socket closed, the content may still come, and nobody waits for it. *)
ReadContentFails ==
  /\ worker = "content"
  /\ ReadFails
  /\ IF sock = "open" /\ ~Gone THEN Stray("late") ELSE UNCHANGED strayed
  /\ worker' = "signal"
  /\ UNCHANGED <<streamVars, rbuf, sock, listener, secure, events, token,
                 readerVars, wline, answer, cancelled, watchdog, writeTimeout>>

(* A Handler callback returns.                                             *)
CallbackReturns ==
  /\ worker = "callback"
  /\ worker' = IF Takeover(wline) THEN "signal" ELSE "reply"
  /\ UNCHANGED <<streamVars, rbuf, sock, listener, secure, events, token,
                 readerVars, wline, answer, cancelled, watchdog,
                 writeTimeout, strayed>>

(* A Handler callback panics: the deferred send of handleData or           *)
(* handleBdat runs, then the deferred recovery of handleConn.              *)
CallbackPanics ==
  /\ worker = "callback"
  /\ IF Takeover(wline) THEN token = 0 /\ token' = 1 ELSE UNCHANGED token
  /\ Return
  /\ UNCHANGED <<streamVars, rbuf, listener, secure, events, readerVars,
                 wline, answer, watchdog,
                 writeTimeout, strayed>>

(* Mutant: upgradeToTLS keeps the bytes buffered in the clear.             *)
HandshakeKeepsBuffer ==
  /\ worker = "handshake"
  /\ HelloArrived
  /\ net' = Tail(net)
  /\ secure' = TRUE
  /\ answer' = FALSE
  /\ worker' = "signal"
  /\ UNCHANGED <<client, sent, clear, out, rbuf, sock, listener, events,
                 token, readerVars, wline, cancelled, watchdog,
                 writeTimeout, strayed>>

(* upgradeToTLS: conn.r is replaced, and with it the bytes read before.    *)
Handshake ==
  /\ worker = "handshake"
  /\ HelloArrived
  /\ net' = Tail(net)
  /\ rbuf' = <<>>
  /\ secure' = TRUE
  /\ answer' = FALSE
  /\ worker' = "signal"
  /\ UNCHANGED <<client, sent, clear, out, sock, listener, events, token,
                 readerVars, wline, cancelled, watchdog,
                 writeTimeout, strayed>>

(* Bytes that are no ClientHello, a closed socket, or the 30 s deadline.   *)
(* The socket is closed and the handler returns no response.               *)
HandshakeFails ==
  /\ worker = "handshake"
  /\ ~HelloArrived
  /\ sock' = "closed"
  /\ answer' = FALSE
  /\ worker' = "signal"
  /\ UNCHANGED <<streamVars, rbuf, listener, secure, events, token,
                 readerVars, wline, cancelled, watchdog,
                 writeTimeout, strayed>>

(* Mutant: an explicit send beside the deferred one.                       *)
SignalTwice ==
  /\ worker = "signal"
  /\ token' = token + 2
  /\ worker' = IF answer THEN "reply" ELSE "select"
  /\ UNCHANGED <<streamVars, rbuf, sock, listener, secure, events,
                 readerVars, wline, answer, cancelled, watchdog,
                 writeTimeout, strayed>>

(* resumeCh <- struct{}{}, on every return of a takeover handler and       *)
(* before its reply is written.  A full channel would block the worker.    *)
Signal ==
  /\ worker = "signal"
  /\ token = 0
  /\ token' = 1
  /\ worker' = IF answer THEN "reply" ELSE "select"
  /\ UNCHANGED <<streamVars, rbuf, sock, listener, secure, events,
                 readerVars, wline, answer, cancelled, watchdog,
                 writeTimeout, strayed>>

WriteReply ==
  /\ worker = "reply"
  /\ WriteOK(Reply(wline.verb))
  /\ worker' = "select"
  /\ UNCHANGED <<client, sent, clear, net, rbuf, sock, listener, secure,
                 events, token, readerVars, wline, answer, cancelled, watchdog,
                 writeTimeout, strayed>>

WriteReplyFails ==
  /\ worker = "reply"
  /\ WriteFails
  /\ Return
  /\ UNCHANGED <<client, sent, clear, net, rbuf, listener, secure, events,
                 token, readerVars, wline, answer, watchdog,
                 writeTimeout, strayed>>

(* handleGreeting writes the EHLO reply itself; on an error it returns no  *)
(* response, and the loop goes on.                                         *)
GreetingFails ==
  /\ worker = "reply"
  /\ wline.verb = "CMD"
  /\ WriteFails
  /\ worker' = "select"
  /\ UNCHANGED <<client, sent, clear, net, rbuf, sock, listener, secure,
                 events, token, readerVars, wline, answer, cancelled, watchdog,
                 writeTimeout, strayed>>

-----------------------------------------------------------------------------
(* The watchdog closes the socket after conn.ctx is done, and Shutdown     *)
(* cancels the server context, of which conn.ctx is a child.               *)

(* Mutant: the watchdog ends without closing the socket.                   *)
WatchdogLeavesOpen ==
  /\ watchdog = "wait"
  /\ cancelled
  /\ watchdog' = "done"
  /\ UNCHANGED <<streamVars, rbuf, sock, listener, secure, events, token,
                 readerVars, workerVars, cancelled,
                 writeTimeout, strayed>>

WatchdogCloses ==
  /\ watchdog = "wait"
  /\ cancelled
  /\ sock' = "closed"
  /\ watchdog' = "done"
  /\ UNCHANGED <<streamVars, rbuf, listener, secure, events, token,
                 readerVars, workerVars, cancelled,
                 writeTimeout, strayed>>

Shutdown ==
  /\ ~cancelled
  /\ cancelled' = TRUE
  /\ UNCHANGED <<streamVars, rbuf, sock, listener, secure, events, token,
                 readerVars, workerVars, watchdog,
                 writeTimeout, strayed>>

(* Every goroutine of the connection has returned.                         *)
Terminated ==
  /\ worker = "done"
  /\ reader \in {"unborn", "done"}
  /\ watchdog = "done"

-----------------------------------------------------------------------------
Init ==
  /\ listener \in Listeners
  /\ client = IF listener = "tls" THEN "hello" ELSE "ready"
  /\ sent = 0
  /\ clear = TRUE
  /\ net = <<>>
  /\ out = <<>>
  /\ rbuf = <<>>
  /\ sock = "open"
  /\ secure = FALSE
  /\ events = <<>>
  /\ token = 0
  /\ reader = "unborn"
  /\ rline = NoLine
  /\ worker = "banner"
  /\ wline = NoLine
  /\ answer = TRUE
  /\ cancelled = FALSE
  /\ watchdog = "wait"
  /\ writeTimeout \in WriteTimeouts
  /\ strayed = "no"

Client ==
  \/ \E verb \in Commands : ClientCommand(verb)
  \/ ClientContent
  \/ ClientHello
  \/ ClientReads
  \/ ClientGone

Reader ==
  \/ ReadCommand
  \/ ReadCommandFails
  \/ ReaderFills
  \/ Enqueue
  \/ SendCancelled
  \/ Resume
  \/ PauseEnds

Worker ==
  \/ Banner
  \/ BannerFails
  \/ Take
  \/ EventsClosed
  \/ SeesCancel
  \/ Farewell
  \/ Interim
  \/ InterimFails
  \/ WorkerFills
  \/ ReadContent
  \/ ReadContentFails
  \/ CallbackReturns
  \/ CallbackPanics
  \/ Handshake
  \/ HandshakeFails
  \/ Signal
  \/ WriteReply
  \/ WriteReplyFails
  \/ GreetingFails

Next ==
  \/ Client
  \/ Reader
  \/ Worker
  \/ WatchdogCloses
  \/ Shutdown
  \/ Terminated /\ UNCHANGED vars

(* The Go scheduler runs every goroutine that can run, timers fire, and    *)
(* Handler callbacks return.  Nothing is assumed of the client, nor that   *)
(* anyone calls Shutdown.                                                  *)
Fairness ==
  /\ WF_vars(Reader)
  /\ WF_vars(Worker)
  /\ WF_vars(WatchdogCloses)

Spec == Init /\ [][Next]_vars /\ Fairness

-----------------------------------------------------------------------------
(* Properties.                                                             *)

(* Every variable stays in its type; resumeCh never holds two tokens.      *)
TypeOK ==
  /\ client \in {"ready", "await354", "content", "await220", "hello",
                 "finished", "closed", "halted"}
  /\ sent \in Nat
  /\ clear \in BOOLEAN
  /\ net \in Seq(Lines)
  /\ out \in Seq(Replies)
  /\ rbuf \in Seq(Lines)
  /\ sock \in {"open", "closed"}
  /\ listener \in {"plain", "tls"}
  /\ secure \in BOOLEAN
  /\ events \in Seq(Lines)
  /\ token \in {0, 1}
  /\ reader \in {"unborn", "read", "send", "paused", "done"}
  /\ rline \in Lines
  /\ worker \in {"banner", "select", "interim", "content", "callback",
                 "handshake", "signal", "reply", "farewell", "done"}
  /\ wline \in Lines
  /\ answer \in BOOLEAN
  /\ cancelled \in BOOLEAN
  /\ watchdog \in {"wait", "done"}
  /\ writeTimeout \in BOOLEAN
  /\ strayed \in {"no", "late", "unread"}

(* The protocol of the takeover, as an inductive invariant.  A takeover    *)
(* command is the last one queued, and neither it, nor the handler that    *)
(* runs it, nor the token that ends it overlaps with another: each of them *)
(* finds the channel events empty behind it and the reader paused or gone. *)
Quiet == reader \in {"paused", "done"}

Busy ==
  /\ worker \in {"interim", "content", "callback", "handshake", "signal"}
  /\ Takeover(wline)

HandoffInv ==
  /\ worker = "banner" => reader = "unborn" /\ events = <<>> /\ token = 0
  /\ worker \in {"interim", "content", "handshake", "signal"}
       => Takeover(wline)
  /\ \A i \in 1..Len(events) :
       Takeover(events[i]) => i = Len(events) /\ Quiet /\ token = 0 /\ ~Busy
  /\ Busy => events = <<>> /\ Quiet /\ token = 0
  /\ token = 1 => events = <<>> /\ Quiet

(* conn.r is not safe for concurrent use: while the worker reads content   *)
(* or runs a handshake, readCommands must not be reading (spec.md C3).     *)
ExclusiveRead ==
  worker \in {"content", "handshake"} => reader \in {"paused", "done"}

(* The worker never blocks on resumeCh, whose capacity is 1: whenever a    *)
(* takeover handler is about to send its token, the channel is empty, even *)
(* if the reader left an earlier pause without taking one.                 *)
SignalNeverBlocks ==
  worker = "signal" => token = 0

(* A paused reader has a wake-up coming: a token, or a takeover command    *)
(* that the worker has yet to take or is running, or the end of the        *)
(* context.  Otherwise the session would hang until the resume timer.      *)
NoLostWakeup ==
  reader = "paused" =>
    \/ token = 1
    \/ \E i \in DOMAIN events : Takeover(events[i])
    \/ Busy
    \/ cancelled

(* Message content and TLS records are never parsed as commands, whatever  *)
(* the interleaving of the two goroutines that read the stream, unless a   *)
(* read of content failed before it came or a BDAT was refused without     *)
(* reading its chunk: no other return of the handlers leaves content for   *)
(* the reader.                                                             *)
ParsesContent ==
  reader = "read" /\ rbuf # <<>> /\ Head(rbuf).verb \notin Commands

ContentNeverCommand ==
  strayed = "no" => ~ParsesContent

(* What the documentation says of a body or chunk whose read deadline      *)
(* passes: the connection is closed (architecture.md "Failure modes"), so  *)
(* what comes late is not parsed as commands.                              *)
LateNeverCommand ==
  strayed # "unread" => ~ParsesContent

(* Under TLS no command received in the clear is queued or run (RFC 3207   *)
(* command injection; architecture.md "STARTTLS").                         *)
ClearNeverTrusted ==
  secure =>
    /\ \A i \in DOMAIN events : ~events[i].clear
    /\ reader = "send" => ~rline.clear
    /\ worker \in {"interim", "content", "callback"} => ~wline.clear

(* The worker runs the commands in the order they were sent, takes none    *)
(* twice and skips none, except those a handshake discards (spec.md C2,    *)
(* E3).  After a cancel the notice of an over-long line may be lost, and   *)
(* content that strayed has commands of its own.                           *)
Takes == Len(events') < Len(events)

InOrder ==
  [][Takes /\ strayed = "no" =>
       \/ wline'.n = wline.n + 1
       \/ /\ wline'.n > wline.n
          /\ (wline.verb = "STARTTLS" /\ secure) \/ cancelled]_vars

(* What the documentation says of a STARTTLS that got its 220: the bytes   *)
(* the client pipelined after it are discarded with the old reader         *)
(* (architecture.md "STARTTLS"), so none of them runs as a command,        *)
(* whether the handshake succeeds or fails.                                *)
PipelinedDiscarded ==
  [][(wline.verb = "STARTTLS" /\ ~answer /\ wline' # wline)
       => ~wline'.clear]_vars

(* Once the context is cancelled (Shutdown, or the return of the worker)   *)
(* every goroutine of the connection ends (spec.md S9, C4): none stays     *)
(* blocked on a read, a write, the channels or the handshake.              *)
ShutdownDrains == cancelled ~> Terminated

(* A write that nothing ends: the client reads no more, the window is      *)
(* full, and WriteTimeout is zero, its default, which means no deadline    *)
(* (spec.md L2).                                                           *)
StuckWrite ==
  /\ ~writeTimeout
  /\ sock = "open"
  /\ client = "halted" /\ Len(out) = Window
  /\ worker \in {"interim", "reply", "farewell"}

(* A session whose client is gone ends, by EOF, by the read deadline or by *)
(* the write deadline (spec.md L3); only a write without a deadline to a   *)
(* client that reads no more is waited for, until a shutdown.              *)
IdleCloses == (Gone /\ listener = "plain") ~> (worker = "done" \/ StuckWrite)

(* The same as spec.md L3 has it, for every kind of listener.              *)
IdleClosesAlways == Gone ~> worker = "done"

=============================================================================
