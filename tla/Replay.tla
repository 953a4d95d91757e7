------------------------------- MODULE Replay --------------------------------
(***************************************************************************)
(* The replay client (src/cmd/postcat-replay/main.go, replay) and the way  *)
(* a session reads DATA content (src/smtp.go, readDotUnstuffed), as the    *)
(* two ends of one connection.  The client reads a message file of module  *)
(* PostcatFile and the target is a server of this repository.              *)
(*                                                                         *)
(* The link carries symbols one way and reply lines the other.  It can     *)
(* fail at any moment with what is under way cut anywhere, the server's    *)
(* deadlines can pass and the server can stop.  An address holds no ">",   *)
(* which parseMailFrom and parseRcptTo take for its end, and a command is  *)
(* shorter than maxLineLength (a bound).  The check of the order of        *)
(* commands is in module Session: this client keeps to it, and lines of a  *)
(* body that come to be read as commands are served in any order.          *)
(***************************************************************************)
EXTENDS PostcatFile

CONSTANTS
  Messages,   \* bound: what the file holds, [from, to, body]
  RawContent, \* bound: what another client sends after its DATA
  Limits,     \* bound: values of MaxMessageSize, where 0 is no limit
  MaxLine     \* maxLineLength, in symbols

Symbols == {"S", "R", "T", "EHLO", "MAIL", "RCPT", "DATA", "QUIT",
            "<", ">", ".", "x", "8bit", CR, LF}

ASSUME MaxLineAssumption == MaxLine \in Nat \ {0}

ASSUME LimitsAssumption == Limits \subseteq Nat

ASSUME MessagesAssumption ==
  \A m \in Messages :
    m \in [from : Seq(Symbols), to : Seq(Seq(Symbols)), body : Seq(Symbols)]

ASSUME AddressAssumption ==
  \A m \in Messages :
    m.from \in Seq(Symbols \ {">"}) /\ m.to \in Seq(Seq(Symbols \ {">"}))

ASSUME RawContentAssumption == RawContent \subseteq Seq(Symbols)

VARIABLES
  message,   \* what was stored in the file
  limit,     \* the server's MaxMessageSize
  pc,        \* where the client is in replay
  msg,       \* what Parse makes of the file
  todo,      \* the recipients, then the body lines, it has yet to send
  result,    \* what replay returned
  wire,      \* symbols from the client the server has not read
  replies,   \* reply lines the client has not read
  open,      \* neither end has lost or closed the connection
  phase,     \* what the session is doing
  from, to,  \* the envelope it has accepted
  buf,       \* the content readDotUnstuffed has kept
  skip,      \* what makes it discard the rest: "no", "long" or "large"
  handled,   \* history: what Handler.Data accepted
  taken,     \* history: what the server read since its last 354
  disturbed, \* history: a refusal by the handler, a deadline, a loss, a stop
  late       \* history: a deadline has passed amid the content

clientVars == <<message, limit, pc, msg, todo, result>>
envelopeVars == <<from, to>>
contentVars == <<buf, skip>>
sessionVars == <<phase, envelopeVars, contentVars>>
historyVars == <<handled, taken, disturbed, late>>
vars == <<clientVars, wire, replies, open, sessionVars, historyVars>>

-----------------------------------------------------------------------------
(* Lines of the stream.  A verb is one symbol.                             *)

Command(verb, arg) == <<verb>> \o arg \o CRLF

HasLine == LF \in Range(wire)
FirstLine == SubSeq(wire, 1, SelectInSeq(wire, LAMBDA c : c = LF))
AfterLine == SubSeq(wire, Len(FirstLine) + 1, Len(wire))

(* readLine: the text of a line, which a bare LF ends as well.             *)
Text(line) == TrimCR(Front(line))

TooLong(line) == Len(Text(line)) > MaxLine

Reply(code) == [code |-> code, last |-> TRUE]

-----------------------------------------------------------------------------
(* The client.                                                             *)

(* formatSender.                                                           *)
formatSender(s) == IF FormatNullSender(s) = NullSender THEN NullSender
                   ELSE <<"<">> \o s \o <<">">>

(* sendBody: CRLF becomes LF, then the split on LF; an empty last part is  *)
(* the end of the last line.                                               *)
BodyLines(body) ==
  LET parts == Split(body)
      lines == [i \in DOMAIN parts |->
                  IF i < Len(parts) THEN TrimCR(parts[i]) ELSE parts[i]]
  IN  IF Last(lines) = <<>> THEN Front(lines) ELSE lines

(* Mutant: only a line that is a dot is stuffed. *)
StuffedAlone(line) == IF line = <<".">> THEN <<".", ".">> ELSE line

Stuffed(line) == IF line # <<>> /\ Head(line) = "." THEN <<".">> \o line ELSE line

(* A write on a connection that is gone is lost, if it is not refused.     *)
Send(symbols) == wire' = IF open THEN wire \o symbols ELSE wire

Return(r) == pc' = "done" /\ result' = r
Goto(next) == pc' = next /\ UNCHANGED result

(* replay up to the dial.                                                  *)
Start ==
  /\ pc = "file"
  /\ IF msg.to = <<>> \/ msg.body = <<>>
       THEN Return("FAIL") /\ open' = FALSE
       ELSE Goto("greeting") /\ UNCHANGED open
  /\ UNCHANGED <<message, limit, msg, todo, wire, replies, sessionVars, historyVars>>

DialFails ==
  /\ pc = "file"
  /\ Return("FAIL") /\ open' = FALSE
  /\ disturbed' = TRUE
  /\ UNCHANGED <<message, limit, msg, todo, wire, replies, sessionVars, handled, taken,
                 late>>

(* The code expect waits for in each place where replay calls it.          *)
Wanted == [greeting |-> 220, EHLO |-> 250, MAIL |-> 250, RCPT |-> 250,
           DATA |-> 354, sent |-> 250]

(* Mutant: any reply of the right class ends the wait. *)
AnySuccess ==
  /\ pc \in DOMAIN Wanted
  /\ replies # <<>> /\ Head(replies).last
  /\ Head(replies).code >= 200
  /\ replies' = Tail(replies)

(* Mutant: the first line of a reply ends the wait. *)
FirstLineOnly ==
  /\ pc \in DOMAIN Wanted
  /\ replies # <<>>
  /\ Head(replies).code = Wanted[pc]
  /\ replies' = Tail(replies)

(* expect returns nil: the last line of a reply with the wanted code.      *)
Expected ==
  /\ pc \in DOMAIN Wanted
  /\ replies # <<>> /\ Head(replies).last
  /\ Head(replies).code = Wanted[pc]
  /\ replies' = Tail(replies)

(* expect goes on after a line that is not the last one.                   *)
ReplyContinues ==
  /\ pc \in DOMAIN Wanted
  /\ replies # <<>> /\ ~Head(replies).last
  /\ Head(replies).code = Wanted[pc]
  /\ replies' = Tail(replies)
  /\ UNCHANGED <<clientVars, wire, open, sessionVars, historyVars>>

(* Another code, or the end of the stream: replay returns the error and    *)
(* closes.  The server may still read what is under way.                   *)
Refused ==
  /\ pc \in DOMAIN Wanted
  /\ IF replies = <<>> THEN ~open ELSE Head(replies).code # Wanted[pc]
  /\ Return("FAIL") /\ open' = FALSE
  /\ replies' = <<>>
  /\ UNCHANGED <<message, limit, msg, todo, wire, sessionVars, historyVars>>

(* What replay sends after the reply it waited for.                        *)
SendEhlo ==
  /\ pc = "greeting" /\ Expected
  /\ Send(Command("EHLO", <<>>)) /\ Goto("EHLO")
  /\ UNCHANGED <<message, limit, msg, todo, open, sessionVars, historyVars>>

SendMail ==
  /\ pc = "EHLO" /\ Expected
  /\ Send(Command("MAIL", formatSender(msg.from))) /\ Goto("MAIL")
  /\ UNCHANGED <<message, limit, msg, todo, open, sessionVars, historyVars>>

(* Mutant: the last recipient is left out. *)
SendRcptShort ==
  /\ pc \in {"MAIL", "RCPT"} /\ Expected
  /\ todo # <<>>
  /\ Send(Command("RCPT", <<"<">> \o Head(todo) \o <<">">>))
  /\ Goto("RCPT")
  /\ todo' = IF Len(todo) = 2 THEN <<>> ELSE Tail(todo)
  /\ UNCHANGED <<message, limit, msg, open, sessionVars, historyVars>>

SendRcpt ==
  /\ pc \in {"MAIL", "RCPT"} /\ Expected
  /\ todo # <<>>
  /\ Send(Command("RCPT", <<"<">> \o Head(todo) \o <<">">>))
  /\ Goto("RCPT")
  /\ todo' = Tail(todo)
  /\ UNCHANGED <<message, limit, msg, open, sessionVars, historyVars>>

SendData ==
  /\ pc = "RCPT" /\ todo = <<>> /\ Expected
  /\ Send(Command("DATA", <<>>)) /\ Goto("DATA")
  /\ UNCHANGED <<message, limit, msg, todo, open, sessionVars, historyVars>>

BeginBody ==
  /\ pc = "DATA" /\ Expected
  /\ Goto("body")
  /\ todo' = BodyLines(msg.body)
  /\ UNCHANGED <<message, limit, msg, wire, open, sessionVars, historyVars>>

SendLine ==
  /\ pc = "body" /\ todo # <<>>
  /\ Send(Stuffed(Head(todo)) \o CRLF)
  /\ todo' = Tail(todo)
  /\ UNCHANGED <<message, limit, pc, msg, result, replies, open, sessionVars,
                 historyVars>>

(* Mutant: the terminator without its line end. *)
SendDotBare ==
  /\ pc = "body" /\ todo = <<>>
  /\ Send(<<".">>) /\ Goto("sent")
  /\ UNCHANGED <<message, limit, msg, todo, replies, open, sessionVars,
                 historyVars>>

SendDot ==
  /\ pc = "body" /\ todo = <<>>
  /\ Send(<<".">> \o CRLF) /\ Goto("sent")
  /\ UNCHANGED <<message, limit, msg, todo, replies, open, sessionVars,
                 historyVars>>

(* A write of sendBody, or that of the QUIT, may report that the           *)
(* connection is gone.                                                     *)
WriteFails ==
  /\ ~open
  /\ \/ pc = "body" /\ UNCHANGED replies
     \/ pc = "sent" /\ Expected
  /\ Return("FAIL")
  /\ UNCHANGED <<message, limit, msg, todo, wire, open, sessionVars,
                 historyVars>>

SendQuit ==
  /\ pc = "sent" /\ Expected
  /\ Send(Command("QUIT", <<>>)) /\ Goto("QUIT")
  /\ UNCHANGED <<message, limit, msg, todo, open, sessionVars, historyVars>>

(* Whatever follows the QUIT, replay has succeeded.                        *)
QuitEnds ==
  /\ pc = "QUIT"
  /\ replies # <<>> \/ ~open
  /\ Return("OK") /\ open' = FALSE
  /\ replies' = <<>>
  /\ UNCHANGED <<message, limit, msg, todo, wire, sessionVars, historyVars>>

Client ==
  \/ Start \/ ReplyContinues \/ Refused
  \/ SendEhlo \/ SendMail \/ SendRcpt \/ SendData
  \/ BeginBody \/ SendLine \/ SendDot \/ SendQuit \/ QuitEnds

-----------------------------------------------------------------------------
(* The server.                                                             *)

Answer(reply) == replies' = IF open THEN replies \o reply ELSE replies

Greet ==
  /\ phase = "greet" /\ pc # "file"
  /\ Answer(<<Reply(220)>>)
  /\ phase' = "command"
  /\ UNCHANGED <<clientVars, wire, open, envelopeVars, contentVars, historyVars>>

NextCommand(verb) ==
  /\ phase = "command"
  /\ HasLine /\ FirstLine[1] = verb
  /\ wire' = AfterLine

(* The path of MAIL and RCPT: up to the first ">" (parseMailFrom,          *)
(* parseRcptTo).                                                           *)
Path == LET text == Text(FirstLine)
        IN  SubSeq(text, 3, SelectInSeq(text, LAMBDA c : c = ">") - 1)

(* The handler, or a limit on recipients, accepts a command or refuses it. *)
Handler(code) == disturbed' = (disturbed \/ code # 250)

ServeEhlo ==
  /\ NextCommand("EHLO")
  /\ from' = <<>> /\ to' = <<>>
  /\ \/ Answer(<<[code |-> 250, last |-> FALSE], Reply(250)>>) /\ Handler(250)
     \/ Answer(<<Reply(550)>>) /\ Handler(550)
  /\ UNCHANGED <<clientVars, open, phase, contentVars, handled, taken, late>>

ServeMail == \E code \in {250, 550} :
  /\ NextCommand("MAIL") /\ Handler(code)
  /\ from' = Path /\ to' = <<>>
  /\ Answer(<<Reply(code)>>)
  /\ UNCHANGED <<clientVars, open, phase, contentVars, handled, taken, late>>

ServeRcpt == \E code \in {250, 550} :
  /\ NextCommand("RCPT") /\ Handler(code)
  /\ to' = IF code = 250 THEN Append(to, Path) ELSE to
  /\ Answer(<<Reply(code)>>)
  /\ UNCHANGED <<clientVars, open, phase, from, contentVars, handled, taken, late>>

ServeData ==
  /\ NextCommand("DATA")
  /\ Answer(<<Reply(354)>>)
  /\ phase' = "content" /\ taken' = <<>>
  /\ UNCHANGED <<clientVars, open, envelopeVars, contentVars, handled, disturbed,
                 late>>

ServeQuit ==
  /\ NextCommand("QUIT")
  /\ Answer(<<Reply(221)>>)
  /\ phase' = "closed" /\ open' = FALSE
  /\ UNCHANGED <<clientVars, envelopeVars, contentVars, historyVars>>

(* A line that is no command: 500.                                         *)
ServeOther ==
  /\ phase = "command" /\ HasLine
  /\ FirstLine[1] \notin {"EHLO", "MAIL", "RCPT", "DATA", "QUIT"}
  /\ wire' = AfterLine
  /\ Answer(<<Reply(500)>>)
  /\ UNCHANGED <<clientVars, open, sessionVars, historyVars>>

(* DATA ends, however it does, with an empty transaction.                  *)
EndTransaction ==
  /\ phase' = "command"
  /\ from' = <<>> /\ to' = <<>>
  /\ buf' = <<>> /\ skip' = "no"

TakeLine ==
  /\ phase = "content" /\ HasLine
  /\ wire' = AfterLine
  /\ taken' = taken \o FirstLine

IsDot(line) == Text(line) = <<".">>

(* A leading dot is removed. *)
Unstuffed(text) == IF text # <<>> /\ Head(text) = "." THEN Tail(text) ELSE text

(* Mutant: a long line is dropped alone and the message goes on. *)
LongLineDropped ==
  /\ TakeLine /\ TooLong(FirstLine)
  /\ UNCHANGED <<clientVars, replies, open, sessionVars, handled, disturbed, late>>

(* Mutant: a long line ends the read at once. *)
LongLineEnds ==
  /\ TakeLine /\ TooLong(FirstLine)
  /\ EndTransaction
  /\ Answer(<<Reply(500)>>)
  /\ UNCHANGED <<clientVars, open, handled, disturbed, late>>

(* An over-long line: the rest is discarded.  While an overflow is being   *)
(* drained it changes nothing.                                             *)
LongLine ==
  /\ TakeLine /\ TooLong(FirstLine)
  /\ skip' = IF skip = "large" THEN "large" ELSE "long"
  /\ UNCHANGED <<clientVars, replies, open, phase, envelopeVars, buf, handled,
                 disturbed, late>>

SkipLine ==
  /\ TakeLine /\ ~TooLong(FirstLine) /\ ~IsDot(FirstLine)
  /\ skip # "no"
  /\ UNCHANGED <<clientVars, replies, open, sessionVars, handled, disturbed, late>>

(* Mutant: the line end is not counted. *)
OverflowsText(line) == limit > 0 /\ Len(buf) + Len(line) > limit

Overflows(line) == limit > 0 /\ Len(buf) + Len(line) + 2 > limit

KeepLine ==
  /\ TakeLine /\ ~TooLong(FirstLine) /\ ~IsDot(FirstLine)
  /\ skip = "no"
  /\ LET line == Unstuffed(Text(FirstLine))
     IN  IF Overflows(line)
           THEN skip' = "large" /\ UNCHANGED buf
           ELSE buf' = buf \o line \o CRLF /\ UNCHANGED skip
  /\ UNCHANGED <<clientVars, replies, open, phase, envelopeVars, handled,
                 disturbed, late>>

(* What handleData answers when the content has ended.  The client of this *)
(* model never declares BODY=8BITMIME.                                     *)
Rejected == skip # "no" \/ "8bit" \in Range(buf)

Rejection == CASE skip = "long" -> 500
               [] skip = "large" -> 552
               [] OTHER -> 550

RejectContent ==
  /\ TakeLine /\ IsDot(FirstLine) /\ Rejected
  /\ Answer(<<Reply(Rejection)>>)
  /\ EndTransaction
  /\ UNCHANGED <<clientVars, open, handled, disturbed, late>>

AcceptContent == \E code \in {250, 451} :
  /\ TakeLine /\ IsDot(FirstLine) /\ ~Rejected
  /\ Handler(code)
  /\ handled' = IF code = 250
                  THEN Append(handled, [from |-> from, to |-> to, body |-> buf])
                  ELSE handled
  /\ Answer(<<Reply(code)>>)
  /\ EndTransaction
  /\ UNCHANGED <<clientVars, open, late>>

(* The read deadline, or the end of the stream, amid the content: the part *)
(* of a line that had come is lost, and the rest of the content, when it   *)
(* comes, is read as commands.  An overflow is reported as such.           *)
Interrupt(lost) ==
  /\ phase = "content"
  /\ wire' = SubSeq(wire, lost + 1, Len(wire))
  /\ taken' = taken \o SubSeq(wire, 1, lost)
  /\ Answer(<<Reply(IF skip = "large" THEN 552 ELSE 451)>>)
  /\ EndTransaction
  /\ UNCHANGED <<clientVars, open, handled>>

ContentDeadline ==
  \E lost \in 0 .. (IF HasLine THEN Len(FirstLine) - 1 ELSE Len(wire)) :
    Interrupt(lost) /\ disturbed' = TRUE /\ late' = TRUE

ContentCut ==
  ~open /\ ~HasLine /\ Interrupt(Len(wire)) /\ UNCHANGED <<disturbed, late>>

(* The stream, or the wait for a command, ends.                            *)
CommandCut ==
  /\ ~open /\ ~HasLine /\ phase = "command"
  /\ phase' = "closed" /\ wire' = <<>>
  /\ UNCHANGED <<clientVars, replies, open, envelopeVars, contentVars,
                 historyVars>>

Server ==
  \/ Greet
  \/ ServeEhlo \/ ServeMail \/ ServeRcpt \/ ServeData \/ ServeQuit \/ ServeOther
  \/ LongLine \/ SkipLine \/ KeepLine \/ RejectContent \/ AcceptContent
  \/ ContentCut \/ CommandCut

-----------------------------------------------------------------------------
(* The environment.                                                        *)

(* The server closes: its read deadline passes between commands, or it     *)
(* stops.  It may send a 421, and replies under way may be lost.           *)
ServerCloses ==
  /\ pc # "file" /\ open /\ phase # "closed"
  /\ phase' = "closed" /\ open' = FALSE
  /\ wire' = <<>>
  /\ replies' \in Prefixes(Append(replies, Reply(421)))
  /\ disturbed' = TRUE
  /\ UNCHANGED <<clientVars, envelopeVars, contentVars, handled, taken, late>>

(* The connection fails and both ends come to know.                        *)
LinkFails ==
  /\ pc # "file" /\ open
  /\ open' = FALSE
  /\ wire' \in Prefixes(wire) /\ replies' \in Prefixes(replies)
  /\ disturbed' = TRUE
  /\ UNCHANGED <<clientVars, sessionVars, handled, taken, late>>

Environment ==
  \/ DialFails \/ WriteFails \/ ContentDeadline \/ ServerCloses \/ LinkFails

-----------------------------------------------------------------------------

InitCommon ==
  /\ limit \in Limits
  /\ replies = <<>> /\ open = TRUE
  /\ buf = <<>> /\ skip = "no"
  /\ handled = <<>> /\ taken = <<>> /\ disturbed = FALSE
  /\ late = FALSE

Nothing == [from |-> <<>>, to |-> <<>>, body |-> <<>>]

InitReplay ==
  /\ message \in Messages
  /\ \E eol \in {<<LF>>, CRLF} : msg = Parse(FormatEnvelope(message, eol))
  /\ pc = "file" /\ todo = msg.to /\ result = "none"
  /\ wire = <<>>
  /\ phase = "greet" /\ from = <<>> /\ to = <<>>

(* Another client, that has its 354 and sends content as it likes.         *)
InitOther ==
  /\ \E raw \in RawContent :
       wire = raw \o <<".">> \o CRLF \o Command("QUIT", <<>>)
  /\ message = Nothing
  /\ pc = "done" /\ msg = Nothing /\ todo = <<>> /\ result = "other"
  /\ phase = "content" /\ from = <<"x">> /\ to = <<<<"x">>>>

Init == InitCommon /\ (InitReplay \/ InitOther)

Next == Client \/ Server \/ Environment

(* The client and the session keep working.  Neither the deadlines nor the *)
(* failures of the environment are fair: they may never come.              *)
Spec ==
  /\ Init /\ [][Next]_vars
  /\ WF_vars(Client)
  /\ WF_vars(Server)

-----------------------------------------------------------------------------
(* Properties.                                                             *)

TypeOK ==
  /\ limit \in Limits
  /\ pc \in {"file", "body", "QUIT", "done"} \cup DOMAIN Wanted
  /\ result \in {"none", "OK", "FAIL", "other"}
  /\ open \in BOOLEAN /\ disturbed \in BOOLEAN /\ late \in BOOLEAN
  /\ phase \in {"greet", "command", "content", "closed"}
  /\ Range(wire) \subseteq Symbols /\ Range(taken) \subseteq Symbols
  /\ skip \in {"no", "long", "large"}
  /\ limit > 0 => Len(buf) <= limit

(* Parse is the inverse of FormatEnvelope, whichever line end the records  *)
(* have and whatever the body begins with (docs/spec.md F1, F6): only line *)
(* ends in an address do not come back.                                    *)
Stored(m) ==
  [from |-> sanitizeAddr(FormatNullSender(m.from)),
   to   |-> [i \in DOMAIN m.to |-> sanitizeAddr(m.to[i])],
   body |-> m.body]

RoundTrip == pc = "file" => msg = Stored(message)

(* What a message is once each of its lines ends with CRLF: said symbol by *)
(* symbol, where sendBody splits and joins.                                *)
Normalised(b) ==
  LET BeforeLF(i) == i < Len(b) /\ b[i + 1] = LF
  IN  FlattenSeq([i \in DOMAIN b |-> CASE b[i] = LF -> CRLF
                                      [] b[i] = CR /\ BeforeLF(i) -> <<>>
                                      [] OTHER -> <<b[i]>>])
      \o (IF Last(b) = LF THEN <<>> ELSE CRLF)

Sent(m) ==
  [from |-> sanitizeAddr(m.from),
   to   |-> [i \in DOMAIN m.to |-> sanitizeAddr(m.to[i])],
   body |-> Normalised(m.body)]

(* The rest of a content that a deadline cut is read as commands, and a    *)
(* DATA in it makes a message of what follows.                             *)
Spilled == late /\ "DATA" \in Range(message.body)

(* "Replays each message" (docs/postcat.md) as a whole or not at all: the  *)
(* handler of the target sees the message of the file once, with the whole *)
(* envelope and every line, wherever the connection or the server fails,   *)
(* and whatever the body holds unless it is spilled.                       *)
NeverPartial ==
  handled # <<>> /\ result # "other" => handled = <<Sent(message)>> \/ Spilled

(* A file is reported OK only when the target has taken the message.       *)
OkDelivered == result = "OK" => handled # <<>>

(* The end of the content by its definition, "a line consisting solely of  *)
(* a dot", on the whole stream instead of line by line.                    *)
EndsWithDot(s) ==
  \E dot \in {<<".", LF>>, <<".">> \o CRLF} :
    s = dot \/ IsSuffix(<<LF>> \o dot, s)

(* The session stays aligned with the stream (spec.md P17, P18): whatever  *)
(* the dots, bare LFs, over-long lines and overflows, it reads past no     *)
(* terminator, and unless it was cut off stops at none but that.           *)
EndOfData ==
  /\ \A k \in 0 .. Len(taken) - 1 : ~EndsWithDot(SubSeq(taken, 1, k))
  /\ phase = "command" /\ taken # <<>> /\ open /\ ~disturbed
       => EndsWithDot(taken)

(* What a client of any kind had accepted is the text between the DATA and *)
(* the terminator, decoded as a whole: no line more, none less, no longer  *)
(* than the limit allows.                                                  *)
Decoded(s) ==
  LET lines == Front(Front(Split(s)))
  IN  FlattenSeq([i \in DOMAIN lines |-> Unstuffed(TrimCR(lines[i])) \o CRLF])

AcceptedAsSent ==
  [][handled' # handled =>
       /\ Last(handled').body = Decoded(taken')
       /\ limit > 0 => Len(Last(handled').body) <= limit]_vars

(* The messages a server takes from this client when nothing goes wrong.   *)
Transferable ==
  /\ message.to # <<>> /\ message.body # <<>>
  /\ "8bit" \notin Range(message.body)
  /\ \A i \in DOMAIN BodyLines(message.body) :
       Len(Stuffed(BodyLines(message.body)[i])) <= MaxLine
  /\ limit > 0 => Len(Sent(message).body) <= limit

(* The client and this server agree: a replay fails only for a message     *)
(* outside what the client can carry, or for something that went wrong.    *)
FailsForCause == result = "FAIL" => disturbed \/ ~Transferable

(* The client waits without a timeout of its own, and still every replay   *)
(* returns: each thing it sends is answered or the connection ends.        *)
Finishes == <>(result # "none")

==============================================================================
