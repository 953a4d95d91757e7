------------------------------ MODULE Session ------------------------------
(***************************************************************************)
(* The SMTP session of one connection: the state that the worker loop of   *)
(* handleConn (src/smtp.go) keeps between commands, and one action per     *)
(* command handler.  The goroutines and the bytes of the stream are module *)
(* Connection; here a command arrives whole and its handler runs to the    *)
(* write of its reply.                                                     *)
(***************************************************************************)
EXTENDS Integers, Sequences

CONSTANTS
  Addr,           \* addresses; syntax is not modelled, only its outcome
  NoAddr,         \* tx.MailFrom of a fresh Tx; the null reverse-path of a
                  \* bounce is a member of Addr
  Byte,           \* content bytes
  EightBit,       \* those with the high bit set
  Sizes,          \* chunk sizes the client declares in BDAT
  MaxMessageSize, \* Server.MaxMessageSize, positive once Serve has run
  MaxChunk,       \* maxBDATChunk
  MaxInt,         \* the largest int
  MaxRecipients,  \* Server.MaxRecipients, 0 for no limit
  RcptBound,      \* bound: recipients the client presents in a transaction
  TLSAvailable,   \* Server.TLSConfig # nil
  RequireTLS,     \* Server.RequireTLS
  Responses       \* codes a Handler callback returns, 503 standing for nil too

ASSUME SizeAssumption ==
  /\ MaxMessageSize \in Nat \ {0}
  /\ MaxChunk \in Nat
  /\ MaxInt \in Nat
  /\ MaxMessageSize + MaxChunk <= MaxInt
  /\ Sizes \subseteq 0..MaxInt
ASSUME RecipientAssumption == MaxRecipients \in Nat /\ RcptBound \in Nat
ASSUME TLSAssumption ==
  /\ TLSAvailable \in BOOLEAN
  /\ RequireTLS \in BOOLEAN
  /\ RequireTLS => TLSAvailable
ASSUME ValueAssumption ==
  /\ NoAddr \notin Addr
  /\ EightBit \subseteq Byte
  /\ Responses \subseteq Nat

VARIABLES
  phase,   \* phaseInit .. phaseRcpt
  tx,      \* the Tx that callbacks receive
  inBdat,  \* a BDAT sequence is open
  bodyBuf, \* conn.bodyBuf
  tls,     \* conn.tlsState # nil
  open,    \* writes to the socket succeed
  alive,   \* the worker loop runs
  reply,   \* the last reply that was written
  handled  \* the message the last command gave to Handler.Data

txVars == <<phase, tx, inBdat, bodyBuf>>
vars == <<txVars, tls, open, alive, reply, handled>>

phaseInit == 0
phaseHelo == 1
phaseMail == 2
phaseRcpt == 3

NoMessage == [none |-> TRUE]

-----------------------------------------------------------------------------
(* newTx and resetTx: TLS comes from the connection, the greeting from the *)
(* old Tx.  Rejected only counts, for nothing reads its elements.          *)
NewTx(secure, helo) ==
  [tls |-> secure, helo |-> helo, from |-> NoAddr, eight |-> FALSE,
   rcpts |-> <<>>, accepted |-> <<>>, rejected |-> 0]

ResetTx == tx' = NewTx(tls, tx.helo)

(* Addition of two int of at most MaxInt.                                  *)
Add(a, b) == IF a + b > MaxInt THEN a + b - 2 * (MaxInt + 1) ELSE a + b

(* The loop writes the reply; it ends the session when the write fails.    *)
Answer(verb, code) ==
  IF open THEN reply' = [to |-> verb, code |-> code] /\ UNCHANGED alive
          ELSE alive' = FALSE /\ UNCHANGED reply

Quiet == handled' = NoMessage

(* handleData and handleBdat give the message to the handler.  The copy    *)
(* that writePostcat keeps of an accepted one is no state of the session.  *)
HandOver(verb, body, code) ==
  /\ handled' = [from |-> tx.from, to |-> tx.accepted, content |-> body,
                 secure |-> tx.tls]
  /\ Answer(verb, code)

(* Mutant: the chunks of an abandoned message stay in the buffer.          *)
EndTxKeepsBuffer(next) ==
  /\ phase' = next
  /\ ResetTx
  /\ inBdat' = FALSE
  /\ UNCHANGED bodyBuf

(* The transaction ends, the greeting stays.                               *)
EndTx(next) ==
  /\ phase' = next
  /\ ResetTx
  /\ inBdat' = FALSE
  /\ bodyBuf' = <<>>

-----------------------------------------------------------------------------
(* HELO and EHLO.  code is 501 for a bad argument and otherwise what       *)
(* Handler.Hello returns.  handleGreeting writes the reply to EHLO itself  *)
(* and returns nothing when that fails, so the loop goes on unchanged.     *)
Hello(extended, code) ==
  /\ alive /\ ~inBdat
  /\ IF code # 250 THEN Answer("HELO", code) /\ Quiet /\ UNCHANGED <<txVars, tls, open>>
     ELSE IF extended /\ ~open THEN UNCHANGED vars
     ELSE /\ tx' = NewTx(tls, TRUE)
          /\ phase' = phaseHelo
          /\ inBdat' = FALSE
          /\ bodyBuf' = <<>>
          /\ Answer("HELO", 250)
          /\ Quiet
          /\ UNCHANGED <<tls, open>>

(* STARTTLS refused: already active, no greeting, not configured, or the   *)
(* 220 cannot be written.                                                  *)
StartTLSRefused ==
  /\ alive /\ ~inBdat
  /\ \/ tls /\ Answer("STARTTLS", 503)
     \/ ~tls /\ ~tx.helo /\ Answer("STARTTLS", 503)
     \/ ~tls /\ tx.helo /\ ~TLSAvailable /\ Answer("STARTTLS", 502)
     \/ ~tls /\ tx.helo /\ TLSAvailable /\ ~open /\ Answer("STARTTLS", 454)
  /\ Quiet
  /\ UNCHANGED <<txVars, tls, open>>

StartTLSReady == alive /\ ~inBdat /\ ~tls /\ tx.helo /\ TLSAvailable /\ open

StartTLS ==
  /\ StartTLSReady
  /\ tls' = TRUE
  /\ tx' = NewTx(TRUE, FALSE)
  /\ phase' = phaseInit
  /\ inBdat' = FALSE
  /\ bodyBuf' = <<>>
  /\ Answer("STARTTLS", 220)
  /\ Quiet
  /\ UNCHANGED open

(* The handshake fails: the socket is closed, the loop goes on.            *)
StartTLSFails ==
  /\ StartTLSReady
  /\ open' = FALSE
  /\ Answer("STARTTLS", 220)
  /\ Quiet
  /\ UNCHANGED <<txVars, tls>>

(* MAIL refused before the transaction changes.                            *)
MailRefused ==
  /\ alive /\ ~inBdat
  /\ \/ RequireTLS /\ ~tls /\ Answer("MAIL", 530)
     \/ (RequireTLS => tls) /\ (~tx.helo \/ phase >= phaseMail) /\ Answer("MAIL", 503)
     \/ (RequireTLS => tls) /\ tx.helo /\ phase < phaseMail /\ Answer("MAIL", 501)
  /\ Quiet
  /\ UNCHANGED <<txVars, tls, open>>

(* The envelope is recorded before SIZE is checked (501, 552) and before   *)
(* Handler.MailFrom answers; only a 250 moves the phase.                   *)
Mail(from, eight, code) ==
  /\ alive /\ ~inBdat
  /\ (RequireTLS => tls) /\ tx.helo /\ phase < phaseMail
  /\ tx' = [tx EXCEPT !.from = from, !.eight = eight,
                      !.rcpts = <<>>, !.accepted = <<>>, !.rejected = 0]
  /\ bodyBuf' = <<>>
  /\ phase' = IF code = 250 THEN phaseMail ELSE phase
  /\ Answer("MAIL", code)
  /\ Quiet
  /\ UNCHANGED <<inBdat, tls, open>>

(* RCPT out of sequence (503) or with an address that is not valid (501).  *)
RcptRefused ==
  /\ alive /\ ~inBdat
  /\ \/ (~tx.helo \/ phase < phaseMail) /\ Answer("RCPT", 503)
     \/ tx.helo /\ phase >= phaseMail /\ Answer("RCPT", 501)
  /\ Quiet
  /\ UNCHANGED <<txVars, tls, open>>

RcptReady ==
  /\ alive /\ ~inBdat
  /\ tx.helo /\ phase >= phaseMail
  /\ Len(tx.rcpts) < RcptBound

OverLimit == MaxRecipients > 0 /\ Len(tx.rcpts) + 1 > MaxRecipients

(* A recipient over the limit joins tx.Rcpts but neither Accepted nor      *)
(* Rejected.                                                               *)
RcptOverLimit(to) ==
  /\ RcptReady /\ OverLimit
  /\ tx' = [tx EXCEPT !.rcpts = Append(@, to)]
  /\ Answer("RCPT", 452)
  /\ Quiet
  /\ UNCHANGED <<phase, inBdat, bodyBuf, tls, open>>

(* Mutant: the phase is counted up instead of set.                         *)
RcptCountsPhase(to, code) ==
  /\ RcptReady /\ ~OverLimit
  /\ phase' = phase + 1
  /\ tx' = IF code = 250
           THEN [tx EXCEPT !.rcpts = Append(@, to), !.accepted = Append(@, to)]
           ELSE [tx EXCEPT !.rcpts = Append(@, to), !.rejected = @ + 1]
  /\ Answer("RCPT", code)
  /\ Quiet
  /\ UNCHANGED <<inBdat, bodyBuf, tls, open>>

Rcpt(to, code) ==
  /\ RcptReady /\ ~OverLimit
  /\ phase' = phaseRcpt
  /\ tx' = IF code = 250
           THEN [tx EXCEPT !.rcpts = Append(@, to), !.accepted = Append(@, to)]
           ELSE [tx EXCEPT !.rcpts = Append(@, to), !.rejected = @ + 1]
  /\ Answer("RCPT", code)
  /\ Quiet
  /\ UNCHANGED <<inBdat, bodyBuf, tls, open>>

-----------------------------------------------------------------------------
(* DATA.  Every return path ends the transaction.                          *)

Deliverable == phase >= phaseRcpt /\ tx.accepted # <<>>

(* 503 and 554 before the 354, 451 when the 354 cannot be written or the   *)
(* body cannot be read, 500 for a body line that is too long.              *)
DataRefused ==
  /\ alive /\ ~inBdat
  /\ \/ phase < phaseRcpt /\ Answer("DATA", 503)
     \/ phase >= phaseRcpt /\ tx.accepted = <<>> /\ Answer("DATA", 554)
     \/ Deliverable /\ Answer("DATA", 451)
     \/ Deliverable /\ open /\ Answer("DATA", 500)
  /\ EndTx(phaseHelo)
  /\ Quiet
  /\ UNCHANGED <<tls, open>>

(* readDotUnstuffed has returned body; the handler sees it unless it is    *)
(* too large (552) or has 8-bit content the MAIL did not announce (550).   *)
Data(body, code) ==
  /\ alive /\ ~inBdat
  /\ Deliverable /\ open
  /\ IF Len(body) > MaxMessageSize THEN Answer("DATA", 552) /\ handled' = NoMessage
     ELSE IF ~tx.eight /\ \E i \in DOMAIN body : body[i] \in EightBit
     THEN Answer("DATA", 550) /\ handled' = NoMessage
     ELSE HandOver("DATA", body, code)
  /\ EndTx(phaseHelo)
  /\ UNCHANGED <<tls, open>>

-----------------------------------------------------------------------------
(* BDAT.                                                                   *)

(* Mutant: the limit is checked chunk by chunk.                            *)
TooBigAlone(size) == size > MaxMessageSize

TooBig(size) == Add(Len(bodyBuf), size) > MaxMessageSize

(* 501 for bad arguments, 503, 554 and 552.  Any code but 250 ends the     *)
(* transaction, LAST or not.  discardChunk reads the declared bytes; what  *)
(* it leaves of them in the stream is module Connection's.                 *)
BdatRefused(size) ==
  /\ alive
  /\ \/ Answer("BDAT", 501)
     \/ phase < phaseRcpt /\ Answer("BDAT", 503)
     \/ phase >= phaseRcpt /\ tx.accepted = <<>> /\ Answer("BDAT", 554)
     \/ Deliverable /\ TooBig(size) /\ Answer("BDAT", 552)
  /\ EndTx(phaseHelo)
  /\ Quiet
  /\ UNCHANGED <<tls, open>>

(* readNBytes fails: it refuses a chunk over maxBDATChunk before it reads  *)
(* a byte, or the read deadline or the connection ends a chunk half-way.   *)
BdatUnread(size) ==
  /\ alive
  /\ Deliverable /\ ~TooBig(size)
  /\ size > 0 /\ Answer("BDAT", 451)
  /\ EndTx(phaseHelo)
  /\ Quiet
  /\ UNCHANGED <<tls, open>>

BdatReady(chunk) ==
  /\ alive
  /\ Deliverable /\ ~TooBig(Len(chunk)) /\ Len(chunk) <= MaxChunk

BdatChunk(chunk) ==
  /\ BdatReady(chunk)
  /\ bodyBuf' = bodyBuf \o chunk
  /\ inBdat' = TRUE
  /\ Answer("BDAT", 250)
  /\ Quiet
  /\ UNCHANGED <<phase, tx, tls, open>>

(* Mutant: a message the handler rejects leaves its transaction open.      *)
BdatLastRetried(chunk, code) ==
  /\ BdatReady(chunk)
  /\ HandOver("BDAT", bodyBuf \o chunk, code)
  /\ IF code = 250 THEN EndTx(phaseHelo)
     ELSE inBdat' = FALSE /\ bodyBuf' = <<>> /\ UNCHANGED <<phase, tx>>
  /\ UNCHANGED <<tls, open>>

BdatLast(chunk, code) ==
  /\ BdatReady(chunk)
  /\ HandOver("BDAT", bodyBuf \o chunk, code)
  /\ EndTx(phaseHelo)
  /\ UNCHANGED <<tls, open>>

(* A command that is not allowed between chunks (503), or a line that is   *)
(* too long (500): the partial message is dropped with its transaction.    *)
BdatAbandoned(verb) ==
  /\ alive /\ inBdat
  /\ \/ verb \in {"HELO", "STARTTLS", "MAIL", "RCPT", "DATA", "OTHER"} /\ Answer(verb, 503)
     \/ verb = "OTHER" /\ Answer(verb, 500)
  /\ EndTx(phaseHelo)
  /\ Quiet
  /\ UNCHANGED <<tls, open>>

-----------------------------------------------------------------------------
(* RSET also forgets the phase of the greeting, but not the greeting.      *)
Rset ==
  /\ alive
  /\ EndTx(phaseInit)
  /\ Answer("RSET", 250)
  /\ Quiet
  /\ UNCHANGED <<tls, open>>

(* NOOP at any time; HELP, VRFY, EXPN, an unknown command and a line that  *)
(* is too long outside a BDAT sequence.                                    *)
Other(code) ==
  /\ alive
  /\ code = 250 \/ ~inBdat
  /\ Answer("OTHER", code)
  /\ Quiet
  /\ UNCHANGED <<txVars, tls, open>>

(* QUIT, the end of the stream, a panic of a callback, or a shutdown.      *)
End ==
  /\ alive
  /\ alive' = FALSE
  /\ open' = FALSE
  /\ Quiet
  /\ UNCHANGED <<txVars, tls, reply>>

(* The client closes the connection, which the loop learns from a write.   *)
Hangup ==
  /\ open
  /\ open' = FALSE
  /\ UNCHANGED <<txVars, tls, alive, reply, handled>>

-----------------------------------------------------------------------------
(* A connection may start under implicit TLS.                              *)
Init ==
  /\ tls \in BOOLEAN
  /\ phase = phaseInit
  /\ tx = NewTx(tls, FALSE)
  /\ inBdat = FALSE
  /\ bodyBuf = <<>>
  /\ open = TRUE
  /\ alive = TRUE
  /\ reply = [to |-> "CONNECT", code |-> 220]
  /\ handled = NoMessage

Chunk(size) == [1..size -> Byte]

MailStep ==
  \/ MailRefused
  \/ \E from \in Addr, eight \in BOOLEAN, code \in Responses \cup {501, 552} :
       Mail(from, eight, code)

RcptStep ==
  \/ RcptRefused
  \/ \E to \in Addr : RcptOverLimit(to)
  \/ \E to \in Addr, code \in Responses : Rcpt(to, code)

DataStep ==
  \/ DataRefused
  \/ \E size \in 0..(MaxMessageSize + 1) : \E body \in Chunk(size), code \in Responses :
       Data(body, code)

BdatStep ==
  \/ \E size \in Sizes : BdatRefused(size) \/ BdatUnread(size)
  \/ \E size \in {s \in Sizes : s <= MaxChunk} : \E chunk \in Chunk(size) :
       \/ BdatChunk(chunk)
       \/ \E code \in Responses : BdatLast(chunk, code)
  \/ \E verb \in {"HELO", "STARTTLS", "MAIL", "RCPT", "DATA", "OTHER"} :
       BdatAbandoned(verb)

Next ==
  \/ \E extended \in BOOLEAN, code \in Responses \cup {501} : Hello(extended, code)
  \/ StartTLSRefused
  \/ StartTLS
  \/ StartTLSFails
  \/ MailStep
  \/ RcptStep
  \/ DataStep
  \/ BdatStep
  \/ Rset
  \/ \E code \in {214, 250, 252, 500} : Other(code)
  \/ End
  \/ Hangup
  \/ ~alive /\ UNCHANGED vars

Spec == Init /\ [][Next]_vars

-----------------------------------------------------------------------------
(* Properties.                                                             *)

Verbs == {"CONNECT", "HELO", "STARTTLS", "MAIL", "RCPT", "DATA", "BDAT",
          "RSET", "OTHER"}

Txs == [tls : BOOLEAN, helo : BOOLEAN, from : Addr \cup {NoAddr},
        eight : BOOLEAN, rcpts : Seq(Addr), accepted : Seq(Addr),
        rejected : Nat]

Messages == [from : Addr \cup {NoAddr}, to : Seq(Addr), content : Seq(Byte),
             secure : BOOLEAN]

(* Every variable stays in its type.                                       *)
TypeOK ==
  /\ phase \in phaseInit..phaseRcpt
  /\ tx \in Txs
  /\ inBdat \in BOOLEAN
  /\ bodyBuf \in Seq(Byte)
  /\ tls \in BOOLEAN
  /\ open \in BOOLEAN
  /\ alive \in BOOLEAN
  /\ reply \in [to : Verbs, code : Nat]
  /\ handled \in Messages \cup {NoMessage}

(* The five pieces of state that the loop and its handlers keep apart stay *)
(* in step.  tx.TLS tells the truth about the connection (spec.md C7); an  *)
(* open transaction was greeted and is under TLS when TLS is required;     *)
(* recipients belong to an open transaction; a BDAT sequence has someone   *)
(* to deliver to; and chunk bytes exist only inside a sequence, so none    *)
(* leaks into a later message.                                             *)
TxInv ==
  /\ tx.tls = tls
  /\ phase >= phaseMail => tx.helo /\ (RequireTLS => tls) /\ tx.from # NoAddr
  /\ tx.accepted # <<>> => phase = phaseRcpt
  /\ inBdat => tx.accepted # <<>>
  /\ bodyBuf # <<>> => inBdat
  /\ Len(tx.accepted) <= Len(tx.rcpts)
  /\ MaxRecipients > 0 => Len(tx.accepted) <= MaxRecipients

(* No message over the limit is held or handed over (spec.md E7), although *)
(* the sum of handleBdat can overflow for a declared size near MaxInt.     *)
SizeLimit ==
  /\ Len(bodyBuf) <= MaxMessageSize
  /\ handled # NoMessage => Len(handled.content) <= MaxMessageSize

(* The session implements the promises of module Transaction.              *)
T == INSTANCE Transaction WITH
       open <- alive,
       greeted <- alive /\ tx.helo,
       secure <- tls,
       envelope <- IF alive /\ phase >= phaseMail
                   THEN [open |-> TRUE, from |-> tx.from, to |-> tx.accepted,
                         content |-> bodyBuf, chunked |-> inBdat]
                   ELSE [open |-> FALSE],
       delivered <- handled,
       reply <- [to |-> reply.to, ok |-> reply.code = 250]

Implements == T!Spec

=============================================================================
