--------------------------- MODULE SessionProofs ---------------------------
(***************************************************************************)
(* Proofs about Session for every limit, every set of addresses, contents  *)
(* and handler responses, and every TLS policy.                            *)
(***************************************************************************)
EXTENDS Session, SequenceTheorems, TLAPS

(* A fresh Tx has the type of a Tx.                                        *)
LEMMA NewTxType ==
  ASSUME NEW secure \in BOOLEAN, NEW helo \in BOOLEAN
  PROVE  NewTx(secure, helo) \in Txs
BY EmptySeq DEF NewTx, Txs

(* Writing a reply keeps the types of what it writes.                      *)
LEMMA AnswerType ==
  ASSUME TypeOK, NEW verb \in Verbs, NEW code \in Nat, Answer(verb, code)
  PROVE  reply' \in [to : Verbs, code : Nat] /\ alive' \in BOOLEAN
<1>1. CASE open
  BY <1>1 DEF TypeOK, Answer
<1>2. CASE ~open
  BY <1>2 DEF TypeOK, Answer
<1> QED
  BY <1>1, <1>2 DEF TypeOK

(* Ending a transaction leaves a well-typed, empty one.                    *)
LEMMA EndTxs ==
  ASSUME TypeOK, NEW next \in 0..3, EndTx(next)
  PROVE  phase' \in 0..3 /\ tx' \in Txs /\ inBdat' \in BOOLEAN
         /\ bodyBuf' \in Seq(Byte)
<1>1. tls \in BOOLEAN /\ tx.helo \in BOOLEAN
  BY DEF TypeOK, Txs
<1> QED
  BY <1>1, NewTxType, EmptySeq DEF EndTx, ResetTx

(* A message is made of the transaction and of bytes.                      *)
LEMMA MessageType ==
  ASSUME TypeOK, NEW body \in Seq(Byte), NEW verb, NEW code,
         HandOver(verb, body, code)
  PROVE  handled' \in Messages \cup {NoMessage}
BY DEF HandOver, TypeOK, Txs, Messages

(* A chunk is a sequence of bytes as long as its size.                     *)
LEMMA ChunkType ==
  ASSUME NEW size \in Nat, NEW chunk \in Chunk(size)
  PROVE  chunk \in Seq(Byte) /\ Len(chunk) = size
BY IsASeq, LenProperties DEF Chunk

(* Greetings and STARTTLS keep the types.                                  *)
LEMMA GreetingTypes ==
  ASSUME TypeOK,
         \/ \E extended \in BOOLEAN, code \in Responses \cup {501} : Hello(extended, code)
         \/ StartTLSRefused
         \/ StartTLS
         \/ StartTLSFails
  PROVE  TypeOK'
<1> USE DEF TypeOK, phaseInit, phaseRcpt, txVars, Quiet, phaseHelo
<1>1. ASSUME NEW extended \in BOOLEAN, NEW code \in Responses \cup {501},
             Hello(extended, code)
      PROVE  TypeOK'
  <2>1. code \in Nat /\ "HELO" \in Verbs
    BY ValueAssumption DEF Verbs
  <2>2. CASE code # 250
    BY <1>1, <2>1, <2>2, AnswerType DEF Hello
  <2>3. CASE code = 250 /\ extended /\ ~open
    BY <1>1, <2>3 DEF Hello, vars
  <2>4. CASE code = 250 /\ ~(extended /\ ~open)
    <3>1. tx' \in Txs /\ bodyBuf' \in Seq(Byte) /\ phase' \in 0..3
          /\ inBdat' \in BOOLEAN
      <4>1. NewTx(tls, TRUE) \in Txs /\ <<>> \in Seq(Byte)
        BY NewTxType, EmptySeq
      <4>2. tx' \in Txs /\ bodyBuf' \in Seq(Byte) /\ inBdat' \in BOOLEAN
        BY <1>1, <2>4, <4>1, ZenonT(30) DEF Hello
      <4>3. phase' = 1
        BY <1>1, <2>4, Zenon DEF Hello
      <4> QED
        BY <4>2, <4>3
    <3>2. Answer("HELO", 250) /\ Quiet /\ UNCHANGED <<tls, open>>
      BY <1>1, <2>4, ZenonT(30) DEF Hello
    <3> QED
      BY <2>1, <3>1, <3>2, AnswerType
  <2> QED
    BY <2>2, <2>3, <2>4
<1>2. CASE StartTLSRefused
  BY <1>2, AnswerType DEF StartTLSRefused, Verbs
<1>3. CASE StartTLS
  <2>1. tx' \in Txs /\ bodyBuf' \in Seq(Byte) /\ phase' \in 0..3
    <3>1. NewTx(TRUE, FALSE) \in Txs /\ <<>> \in Seq(Byte)
      BY NewTxType, EmptySeq
    <3>2. tx' \in Txs /\ bodyBuf' \in Seq(Byte) /\ phase' = 0
      BY <1>3, <3>1, Zenon DEF StartTLS
    <3> QED
      BY <3>2
  <2>2. reply' \in [to : Verbs, code : Nat] /\ alive' \in BOOLEAN
    BY <1>3, AnswerType DEF StartTLS, Verbs
  <2> QED
    BY <1>3, <2>1, <2>2 DEF StartTLS
<1>4. CASE StartTLSFails
  <2>1. reply' \in [to : Verbs, code : Nat] /\ alive' \in BOOLEAN
    BY <1>4, AnswerType DEF StartTLSFails, Verbs
  <2> QED
    BY <1>4, <2>1 DEF StartTLSFails
<1> QED
  BY <1>1, <1>2, <1>3, <1>4

(* MAIL and RCPT keep the types.                                           *)
LEMMA EnvelopeTypes ==
  ASSUME TypeOK, MailStep \/ RcptStep
  PROVE  TypeOK'
<1> USE DEF TypeOK, phaseInit, phaseRcpt, txVars, Quiet
<1>0. "MAIL" \in Verbs /\ "RCPT" \in Verbs /\ Responses \subseteq Nat
  BY ValueAssumption DEF Verbs
<1>1. CASE MailRefused
  BY <1>0, <1>1, AnswerType DEF MailRefused
<1>2. ASSUME NEW from \in Addr, NEW eight \in BOOLEAN,
             NEW code \in Responses \cup {501, 552}, Mail(from, eight, code)
      PROVE  TypeOK'
  <2>1. code \in Nat
    BY <1>0
  <2>2. tx' \in Txs /\ bodyBuf' \in Seq(Byte)
    <3>1. /\ bodyBuf' = <<>>
          /\ tx' = [tx EXCEPT !.from = from, !.eight = eight,
                              !.rcpts = <<>>, !.accepted = <<>>, !.rejected = 0]
      BY <1>2, Zenon DEF Mail
    <3>2. <<>> \in Seq(Addr) /\ <<>> \in Seq(Byte) /\ tx \in Txs
      BY EmptySeq
    <3> QED
      BY <3>1, <3>2, ZenonT(30) DEF Txs
  <2>3. phase' \in 0..3
    <3>1. phase' = IF code = 250 THEN phaseMail ELSE phase
      BY <1>2, Zenon DEF Mail
    <3> QED
      BY <3>1 DEF phaseMail
  <2>4. reply' \in [to : Verbs, code : Nat] /\ alive' \in BOOLEAN
    BY <1>0, <1>2, <2>1, AnswerType DEF Mail
  <2> QED
    BY <1>2, <2>2, <2>3, <2>4 DEF Mail
<1>3. CASE RcptRefused
  BY <1>0, <1>3, AnswerType DEF RcptRefused
<1>4. ASSUME NEW to \in Addr, RcptOverLimit(to) PROVE TypeOK'
  <2>1. tx' \in Txs
    BY <1>4, AppendProperties DEF RcptOverLimit, Txs
  <2>2. reply' \in [to : Verbs, code : Nat] /\ alive' \in BOOLEAN
    BY <1>0, <1>4, AnswerType DEF RcptOverLimit
  <2> QED
    BY <1>4, <2>1, <2>2 DEF RcptOverLimit
<1>5. ASSUME NEW to \in Addr, NEW code \in Responses, Rcpt(to, code)
      PROVE  TypeOK'
  <2>1. tx' \in Txs
    <3>0. tx \in Txs /\ tx.rcpts \in Seq(Addr) /\ tx.accepted \in Seq(Addr)
      BY DEF Txs
    <3>1. Append(tx.rcpts, to) \in Seq(Addr) /\ Append(tx.accepted, to) \in Seq(Addr)
      BY <3>0, AppendProperties
    <3>2. CASE code = 250
      <4>1. tx' = [tx EXCEPT !.rcpts = Append(tx.rcpts, to),
                             !.accepted = Append(tx.accepted, to)]
        BY <1>5, <3>2 DEF Rcpt
      <4> QED
        BY <3>0, <3>1, <4>1 DEF Txs
    <3>3. CASE code # 250
      <4>1. tx' = [tx EXCEPT !.rcpts = Append(tx.rcpts, to),
                             !.rejected = tx.rejected + 1]
        BY <1>5, <3>3 DEF Rcpt
      <4>2. tx.rejected + 1 \in Nat
        BY <3>0 DEF Txs
      <4> QED
        BY <3>0, <3>1, <4>1, <4>2 DEF Txs
    <3> QED
      BY <3>2, <3>3
  <2>2. reply' \in [to : Verbs, code : Nat] /\ alive' \in BOOLEAN
    BY <1>0, <1>5, AnswerType DEF Rcpt
  <2> QED
    BY <1>5, <2>1, <2>2 DEF Rcpt, phaseRcpt
<1> QED
  BY <1>1, <1>2, <1>3, <1>4, <1>5 DEF MailStep, RcptStep

(* DATA and BDAT keep the types.                                           *)
LEMMA ContentTypes ==
  ASSUME TypeOK, DataStep \/ BdatStep
  PROVE  TypeOK'
<1> USE DEF TypeOK, phaseInit, phaseRcpt, Quiet, phaseHelo
<1>0. /\ {"HELO", "STARTTLS", "MAIL", "RCPT", "DATA", "OTHER", "BDAT"} \subseteq Verbs
      /\ Responses \subseteq Nat /\ Sizes \subseteq Nat /\ 1 \in 0..3
  BY ValueAssumption, SizeAssumption DEF Verbs
<1>1. CASE DataRefused
  <2>1. reply' \in [to : Verbs, code : Nat] /\ alive' \in BOOLEAN
    BY <1>0, <1>1, AnswerType DEF DataRefused
  <2>2. EndTx(1) /\ Quiet /\ UNCHANGED <<tls, open>>
    BY <1>1 DEF DataRefused
  <2> QED
    BY <1>0, <2>1, <2>2, EndTxs
<1>2. ASSUME NEW size \in 0..(MaxMessageSize + 1), NEW body \in Chunk(size),
             NEW code \in Responses, Data(body, code)
      PROVE  TypeOK'
  <2>1. Answer("DATA", 552) \/ Answer("DATA", 550) \/ Answer("DATA", code)
    BY <1>2 DEF Data, HandOver
  <2>2. reply' \in [to : Verbs, code : Nat] /\ alive' \in BOOLEAN
    BY <1>0, <2>1, AnswerType
  <2>3. EndTx(1) /\ UNCHANGED <<tls, open>>
    BY <1>2 DEF Data
  <2>4. handled' \in Messages \cup {NoMessage}
    <3>1. size \in Nat
      BY SizeAssumption
    <3>2. body \in Seq(Byte)
      BY <3>1, ChunkType
    <3>3. handled' = NoMessage \/ HandOver("DATA", body, code)
      BY <1>2, ZenonT(30) DEF Data
    <3> QED
      BY <3>2, <3>3, MessageType
  <2> QED
    BY <1>0, <2>2, <2>3, <2>4, EndTxs
<1>3. ASSUME NEW size \in Sizes, BdatRefused(size) PROVE TypeOK'
  <2>1. reply' \in [to : Verbs, code : Nat] /\ alive' \in BOOLEAN
    BY <1>0, <1>3, AnswerType DEF BdatRefused
  <2>2. EndTx(1) /\ Quiet /\ UNCHANGED <<tls, open>>
    BY <1>3 DEF BdatRefused
  <2> QED
    BY <1>0, <2>1, <2>2, EndTxs
<1>4. ASSUME NEW size \in Sizes, BdatUnread(size) PROVE TypeOK'
  <2>1. reply' \in [to : Verbs, code : Nat] /\ alive' \in BOOLEAN
    BY <1>0, <1>4, AnswerType DEF BdatUnread
  <2>2. EndTx(1) /\ Quiet /\ UNCHANGED <<tls, open>>
    BY <1>4 DEF BdatUnread
  <2> QED
    BY <1>0, <2>1, <2>2, EndTxs
<1>5. ASSUME NEW size \in Nat, NEW chunk \in Chunk(size), BdatChunk(chunk)
      PROVE  TypeOK'
  <2>1. bodyBuf' \in Seq(Byte)
    BY <1>5, ChunkType, ConcatProperties DEF BdatChunk
  <2>2. reply' \in [to : Verbs, code : Nat] /\ alive' \in BOOLEAN
    BY <1>0, <1>5, AnswerType DEF BdatChunk
  <2> QED
    BY <1>5, <2>1, <2>2 DEF BdatChunk
<1>6. ASSUME NEW size \in Nat, NEW chunk \in Chunk(size), NEW code \in Responses,
             BdatLast(chunk, code)
      PROVE  TypeOK'
  <2>1. reply' \in [to : Verbs, code : Nat] /\ alive' \in BOOLEAN
    BY <1>0, <1>6, AnswerType DEF BdatLast, HandOver
  <2>2. EndTx(1) /\ UNCHANGED <<tls, open>>
    BY <1>6 DEF BdatLast
  <2>3. handled' \in Messages \cup {NoMessage}
    <3>1. bodyBuf \o chunk \in Seq(Byte)
      BY ChunkType, ConcatProperties
    <3>2. HandOver("BDAT", bodyBuf \o chunk, code)
      BY <1>6 DEF BdatLast
    <3> QED
      BY <3>1, <3>2, MessageType
  <2> QED
    BY <1>0, <2>1, <2>2, <2>3, EndTxs
<1>7. ASSUME NEW verb \in {"HELO", "STARTTLS", "MAIL", "RCPT", "DATA", "OTHER"},
             BdatAbandoned(verb)
      PROVE  TypeOK'
  <2>1. reply' \in [to : Verbs, code : Nat] /\ alive' \in BOOLEAN
    BY <1>0, <1>7, AnswerType DEF BdatAbandoned
  <2>2. EndTx(1) /\ Quiet /\ UNCHANGED <<tls, open>>
    BY <1>7 DEF BdatAbandoned
  <2> QED
    BY <1>0, <2>1, <2>2, EndTxs
<1> QED
  BY <1>0, <1>1, <1>2, <1>3, <1>4, <1>5, <1>6, <1>7 DEF DataStep, BdatStep

(* Every step keeps the types.                                             *)
LEMMA NextTypes == TypeOK /\ [Next]_vars => TypeOK'
<1> SUFFICES ASSUME TypeOK, [Next]_vars PROVE TypeOK'
  OBVIOUS
<1> USE DEF TypeOK, phaseInit, phaseRcpt, txVars, Quiet
<1>1. CASE Rset
  <2>1. reply' \in [to : Verbs, code : Nat] /\ alive' \in BOOLEAN
    BY <1>1, AnswerType DEF Rset, Verbs
  <2>2. EndTx(0) /\ Quiet /\ UNCHANGED <<tls, open>>
    BY <1>1 DEF Rset, phaseInit
  <2> QED
    BY <2>1, <2>2, EndTxs
<1>2. ASSUME NEW code \in {214, 250, 252, 500}, Other(code) PROVE TypeOK'
  BY <1>2, AnswerType DEF Other, Verbs
<1>3. CASE End
  BY <1>3 DEF End
<1>4. CASE Hangup
  BY <1>4 DEF Hangup
<1>5. CASE UNCHANGED vars
  BY <1>5 DEF vars
<1> QED
  BY <1>1, <1>2, <1>3, <1>4, <1>5, GreetingTypes, EnvelopeTypes, ContentTypes
     DEF Next

(* The state of a session is well typed in every reachable state.          *)
THEOREM TypeCorrect == Spec => []TypeOK
<1>1. Init => TypeOK
  <2> SUFFICES ASSUME Init PROVE TypeOK
    OBVIOUS
  <2>1. tls \in BOOLEAN /\ tx = NewTx(tls, FALSE)
    BY DEF Init
  <2>2. tx \in Txs /\ bodyBuf \in Seq(Byte)
    BY <2>1, NewTxType, EmptySeq DEF Init
  <2>3. phase \in phaseInit..phaseRcpt /\ reply \in [to : Verbs, code : Nat]
    BY DEF Init, phaseInit, phaseRcpt, Verbs
  <2> QED
    BY <2>1, <2>2, <2>3 DEF Init, TypeOK
<1> QED
  BY <1>1, NextTypes, PTL DEF Spec

-----------------------------------------------------------------------------
(* The pieces of session state stay in step, and the size limit holds.     *)

(* With an empty transaction and a phase before MAIL, TxInv is about TLS.  *)
LEMMA EmptyTxInv ==
  ASSUME TxInv, NEW next \in 0..1, EndTx(next), UNCHANGED tls
  PROVE  TxInv'
<1>1. tx' = NewTx(tls, tx.helo) /\ phase' = next /\ ~inBdat' /\ bodyBuf' = <<>>
  BY DEF EndTx, ResetTx
<1>2. tx'.tls = tls' /\ tx'.accepted = <<>> /\ tx'.rcpts = <<>>
  BY <1>1 DEF NewTx
<1>3. ~(phase' >= phaseMail)
  BY <1>1 DEF phaseMail
<1>4. Len(<<>>) = 0
  BY EmptySeq
<1> QED
  BY <1>1, <1>2, <1>3, <1>4, RecipientAssumption DEF TxInv

(* Greetings and STARTTLS keep TxInv: a new Tx takes its TLS from the      *)
(* connection.                                                             *)
LEMMA GreetingTxInv ==
  ASSUME TypeOK, TxInv,
         \/ \E extended \in BOOLEAN, code \in Responses \cup {501} : Hello(extended, code)
         \/ StartTLSRefused
         \/ StartTLS
         \/ StartTLSFails
  PROVE  TxInv'
<1>0. ASSUME NEW secure, NEW helo, tx' = NewTx(secure, helo), tls' = secure,
             phase' \in 0..1, inBdat' = FALSE, bodyBuf' = <<>>
      PROVE  TxInv'
  <2>1. tx'.tls = tls' /\ tx'.accepted = <<>> /\ tx'.rcpts = <<>>
    BY <1>0 DEF NewTx
  <2>2. ~(phase' >= phaseMail) /\ Len(<<>>) = 0
    BY <1>0, EmptySeq DEF phaseMail
  <2> QED
    BY <1>0, <2>1, <2>2, RecipientAssumption DEF TxInv
<1>1. ASSUME NEW extended \in BOOLEAN, NEW code \in Responses \cup {501},
             Hello(extended, code)
      PROVE  TxInv'
  <2>1. CASE UNCHANGED <<txVars, tls>>
    BY <2>1 DEF TxInv, txVars
  <2>2. CASE ~UNCHANGED <<txVars, tls>>
    <3>1. /\ tx' = NewTx(tls, TRUE) /\ tls' = tls /\ phase' = phaseHelo
          /\ inBdat' = FALSE /\ bodyBuf' = <<>>
      BY <1>1, <2>2, ZenonT(30) DEF Hello, vars
    <3>2. phase' \in 0..1
      BY <3>1 DEF phaseHelo
    <3> QED
      BY <1>0, <3>1, <3>2
  <2> QED
    BY <2>1, <2>2
<1>2. CASE StartTLSRefused
  BY <1>2 DEF StartTLSRefused, TxInv, txVars
<1>3. CASE StartTLS
  <2>1. /\ tx' = NewTx(TRUE, FALSE) /\ tls' = TRUE /\ phase' = phaseInit
        /\ inBdat' = FALSE /\ bodyBuf' = <<>>
    BY <1>3, Zenon DEF StartTLS
  <2>2. phase' \in 0..1
    BY <2>1 DEF phaseInit
  <2> QED
    BY <1>0, <2>1, <2>2
<1>4. CASE StartTLSFails
  BY <1>4 DEF StartTLSFails, TxInv, txVars
<1> QED
  BY <1>1, <1>2, <1>3, <1>4

(* MAIL and RCPT keep TxInv: only a greeted session, under TLS when TLS is *)
(* required, reaches the phase in which recipients are accepted.           *)
LEMMA EnvelopeTxInv ==
  ASSUME TypeOK, TxInv, MailStep \/ RcptStep
  PROVE  TxInv'
<1> USE DEF txVars, phaseInit, phaseMail, phaseRcpt
<1>0. /\ tx \in Txs /\ tx.rcpts \in Seq(Addr) /\ tx.accepted \in Seq(Addr)
      /\ phase \in 0..3
  BY DEF TypeOK, Txs
<1>1. CASE MailRefused
  BY <1>1 DEF MailRefused, TxInv
<1>2. ASSUME NEW from \in Addr, NEW eight \in BOOLEAN,
             NEW code \in Responses \cup {501, 552}, Mail(from, eight, code)
      PROVE  TxInv'
  <2>1. /\ tx'.tls = tx.tls /\ tx'.helo = tx.helo /\ tx'.from = from
        /\ tx'.rcpts = <<>> /\ tx'.accepted = <<>>
    BY <1>0, <1>2, ZenonT(30) DEF Mail, Txs
  <2>2. tx.helo /\ (RequireTLS => tls) /\ ~inBdat /\ from # NoAddr
    BY <1>2, ValueAssumption DEF Mail
  <2>3. bodyBuf' = <<>> /\ UNCHANGED <<inBdat, tls>>
    BY <1>2 DEF Mail
  <2>4. Len(<<>>) = 0
    BY EmptySeq
  <2> QED
    BY <2>1, <2>2, <2>3, <2>4, RecipientAssumption DEF TxInv
<1>3. CASE RcptRefused
  BY <1>3 DEF RcptRefused, TxInv
<1>4. ASSUME NEW to \in Addr, RcptOverLimit(to) PROVE TxInv'
  <2>1. /\ tx'.tls = tx.tls /\ tx'.helo = tx.helo /\ tx'.from = tx.from
        /\ tx'.accepted = tx.accepted /\ tx'.rcpts = Append(tx.rcpts, to)
    BY <1>0, <1>4 DEF RcptOverLimit, Txs
  <2>2. Len(tx'.rcpts) = Len(tx.rcpts) + 1 /\ Len(tx.rcpts) \in Nat
        /\ Len(tx.accepted) \in Nat
    BY <1>0, <2>1, AppendProperties, LenProperties
  <2> QED
    BY <1>4, <2>1, <2>2 DEF RcptOverLimit, TxInv
<1>5. ASSUME NEW to \in Addr, NEW code \in Responses, Rcpt(to, code)
      PROVE  TxInv'
  <2>1. /\ tx'.tls = tx.tls /\ tx'.helo = tx.helo /\ tx'.from = tx.from
        /\ tx'.rcpts = Append(tx.rcpts, to)
        /\ tx'.accepted \in {tx.accepted, Append(tx.accepted, to)}
    BY <1>0, <1>5 DEF Rcpt, Txs
  <2>2. /\ Len(tx'.rcpts) = Len(tx.rcpts) + 1 /\ Len(tx.rcpts) \in Nat
        /\ Len(tx.accepted) \in Nat
        /\ Len(tx'.accepted) \in {Len(tx.accepted), Len(tx.accepted) + 1}
    BY <1>0, <2>1, AppendProperties, LenProperties
  <2>3. /\ phase' = 3 /\ phase >= 2 /\ ~inBdat /\ UNCHANGED <<inBdat, bodyBuf, tls>>
        /\ MaxRecipients > 0 => Len(tx.rcpts) + 1 <= MaxRecipients
    BY <1>5, <2>2, RecipientAssumption DEF Rcpt, RcptReady, OverLimit
  <2> QED
    BY <2>1, <2>2, <2>3, RecipientAssumption DEF TxInv
<1> QED
  BY <1>1, <1>2, <1>3, <1>4, <1>5 DEF MailStep, RcptStep

(* DATA and BDAT keep TxInv.                                               *)
LEMMA ContentTxInv ==
  ASSUME TypeOK, TxInv, DataStep \/ BdatStep
  PROVE  TxInv'
<1>1. ASSUME EndTx(phaseHelo), UNCHANGED tls PROVE TxInv'
  BY <1>1, EmptyTxInv DEF phaseHelo
<1>2. ASSUME NEW chunk, BdatChunk(chunk) PROVE TxInv'
  BY <1>2 DEF BdatChunk, BdatReady, Deliverable, TxInv
<1>3. CASE DataStep
  BY <1>1, <1>3 DEF DataStep, DataRefused, Data
<1>4. CASE BdatStep
  BY <1>1, <1>2, <1>4 DEF BdatStep, BdatRefused, BdatUnread, BdatLast,
     BdatAbandoned
<1> QED
  BY <1>3, <1>4

(* Every step keeps TxInv.                                                 *)
LEMMA NextTxInv == TypeOK /\ TxInv /\ [Next]_vars => TxInv'
<1> SUFFICES ASSUME TypeOK, TxInv, [Next]_vars PROVE TxInv'
  OBVIOUS
<1>1. CASE Rset
  BY <1>1, EmptyTxInv DEF Rset, phaseInit
<1>2. CASE UNCHANGED <<txVars, tls>>
  BY <1>2 DEF TxInv, txVars
<1>3. ASSUME NEW code \in {214, 250, 252, 500}, Other(code) PROVE TxInv'
  BY <1>2, <1>3 DEF Other
<1>4. CASE End \/ Hangup \/ UNCHANGED vars
  BY <1>2, <1>4 DEF End, Hangup, vars
<1> QED
  BY <1>1, <1>3, <1>4, GreetingTxInv, EnvelopeTxInv, ContentTxInv DEF Next

(* What the loop and its handlers keep apart stays in step.                *)
THEOREM TxInvCorrect == Spec => []TxInv
<1>1. Init => TxInv
  BY EmptySeq, RecipientAssumption DEF Init, TxInv, NewTx, phaseInit, phaseMail
<1> QED
  BY <1>1, NextTxInv, TypeCorrect, PTL DEF Spec

(* The addition that checks the limit does not overflow for a chunk that   *)
(* is read: its size is at most MaxChunk.                                  *)
LEMMA AdmittedChunk ==
  ASSUME TypeOK, SizeLimit, NEW size \in Nat, NEW chunk \in Chunk(size),
         BdatReady(chunk)
  PROVE  /\ bodyBuf \o chunk \in Seq(Byte)
         /\ Len(bodyBuf \o chunk) <= MaxMessageSize
<1>1. chunk \in Seq(Byte) /\ bodyBuf \in Seq(Byte)
  BY ChunkType DEF TypeOK
<1>2. Len(chunk) \in Nat /\ Len(bodyBuf) \in Nat
  BY <1>1, LenProperties
<1>3. Len(bodyBuf \o chunk) = Len(bodyBuf) + Len(chunk) /\ bodyBuf \o chunk \in Seq(Byte)
  BY <1>1, ConcatProperties
<1>4. Len(bodyBuf) + Len(chunk) <= MaxInt
  BY <1>2, SizeAssumption DEF BdatReady, SizeLimit
<1>5. Add(Len(bodyBuf), Len(chunk)) = Len(bodyBuf) + Len(chunk)
  BY <1>2, <1>4, SizeAssumption DEF Add
<1> QED
  BY <1>2, <1>3, <1>5, SizeAssumption DEF BdatReady, TooBig

(* Neither the buffer nor a message handed over exceeds the limit.         *)
LEMMA NextSizeLimit == TypeOK /\ SizeLimit /\ [Next]_vars => SizeLimit'
<1> SUFFICES ASSUME TypeOK, SizeLimit, [Next]_vars PROVE SizeLimit'
  OBVIOUS
<1> USE DEF Quiet, EndTx
<1>0. Len(<<>>) <= MaxMessageSize
  BY EmptySeq, SizeAssumption
<1>1. CASE bodyBuf' \in {bodyBuf, <<>>} /\ handled' \in {handled, NoMessage}
  BY <1>0, <1>1 DEF SizeLimit
<1>2. ASSUME NEW size \in 0..(MaxMessageSize + 1), NEW body \in Chunk(size),
             NEW code \in Responses, Data(body, code)
      PROVE  SizeLimit'
  <2>1. bodyBuf' = <<>>
    BY <1>2 DEF Data
  <2>2. \/ handled' = NoMessage
        \/ ~(Len(body) > MaxMessageSize) /\ HandOver("DATA", body, code)
    <3>1. CASE Len(body) > MaxMessageSize
      BY <1>2, <3>1, Zenon DEF Data
    <3>2. CASE ~(Len(body) > MaxMessageSize)
      BY <1>2, <3>2, Zenon DEF Data
    <3> QED
      BY <3>1, <3>2
  <2>3. Len(body) = size
    BY ChunkType, SizeAssumption
  <2> QED
    BY <1>0, <2>1, <2>2, <2>3, SizeAssumption DEF SizeLimit, HandOver
<1>3. ASSUME NEW size \in Nat, NEW chunk \in Chunk(size), BdatChunk(chunk)
      PROVE  SizeLimit'
  <2>1. bodyBuf' = bodyBuf \o chunk /\ handled' = NoMessage
    BY <1>3 DEF BdatChunk
  <2> QED
    BY <1>3, <2>1, AdmittedChunk DEF BdatChunk, SizeLimit
<1>4. ASSUME NEW size \in Nat, NEW chunk \in Chunk(size), NEW code \in Responses,
             BdatLast(chunk, code)
      PROVE  SizeLimit'
  <2>1. bodyBuf' = <<>> /\ handled'.content = bodyBuf \o chunk
    BY <1>4 DEF BdatLast, HandOver
  <2>2. Len(bodyBuf \o chunk) <= MaxMessageSize
    BY <1>4, AdmittedChunk DEF BdatLast
  <2> QED
    BY <1>0, <2>1, <2>2 DEF SizeLimit
<1>5. ASSUME NEW extended \in BOOLEAN, NEW code \in Responses \cup {501},
             Hello(extended, code)
      PROVE  SizeLimit'
  <2>1. bodyBuf' \in {bodyBuf, <<>>} /\ handled' \in {handled, NoMessage}
    BY <1>5, ZenonT(30) DEF Hello, vars, txVars
  <2> QED
    BY <1>1, <2>1
<1>6. CASE StartTLSRefused \/ StartTLS \/ StartTLSFails
  BY <1>1, <1>6 DEF StartTLSRefused, StartTLS, StartTLSFails, txVars
<1>7. CASE MailStep
  BY <1>1, <1>7, ZenonT(30) DEF MailStep, MailRefused, Mail, txVars
<1>8. CASE RcptStep
  BY <1>1, <1>8 DEF RcptStep, RcptRefused, RcptOverLimit, Rcpt, txVars
<1>9. CASE DataStep
  BY <1>1, <1>2, <1>9 DEF DataStep, DataRefused
<1>10. CASE BdatStep
  <2>1. ASSUME NEW size \in Sizes, BdatRefused(size) \/ BdatUnread(size)
        PROVE  SizeLimit'
    BY <1>1, <2>1 DEF BdatRefused, BdatUnread
  <2>2. ASSUME NEW verb, BdatAbandoned(verb) PROVE SizeLimit'
    BY <1>1, <2>2 DEF BdatAbandoned
  <2> QED
    BY <1>3, <1>4, <1>10, <2>1, <2>2, SizeAssumption DEF BdatStep
<1>11. CASE Rset
  BY <1>1, <1>11 DEF Rset
<1>12. ASSUME NEW code \in {214, 250, 252, 500}, Other(code) PROVE SizeLimit'
  BY <1>1, <1>12 DEF Other, txVars
<1>13. CASE End \/ Hangup \/ UNCHANGED vars
  BY <1>1, <1>13 DEF End, Hangup, vars, txVars
<1> QED
  BY <1>5, <1>6, <1>7, <1>8, <1>9, <1>10, <1>11, <1>12, <1>13 DEF Next

(* The size limit of spec.md E7 holds although the sum in handleBdat can   *)
(* overflow, because the limit and one chunk fit in an int together.       *)
THEOREM SizeLimitCorrect == Spec => []SizeLimit
<1>1. Init => SizeLimit
  BY EmptySeq, SizeAssumption DEF Init, SizeLimit
<1> QED
  BY <1>1, NextSizeLimit, TypeCorrect, PTL DEF Spec

-----------------------------------------------------------------------------
(* Session implements Transaction: what the handlers do to the session is, *)
(* seen through the replies, one step of the promise or no step at all.    *)

(* The envelope Session's instance of Transaction sees, named.             *)
Env == IF alive /\ phase >= phaseMail
       THEN [open |-> TRUE, from |-> tx.from, to |-> tx.accepted,
             content |-> bodyBuf, chunked |-> inBdat]
       ELSE [open |-> FALSE]

Inv == TypeOK /\ TxInv /\ SizeLimit

-----------------------------------------------------------------------------
(* How a reply, and the end of the session, look from the outside.         *)

(* The reply is written, or the write fails and the worker ends.           *)
LEMMA Answered ==
  ASSUME Inv, alive, NEW verb, NEW code, Answer(verb, code)
  PROVE  \/ alive' = TRUE /\ reply' = [to |-> verb, code |-> code]
         \/ alive' = FALSE /\ reply' = reply
BY DEF Answer, Inv, TypeOK

(* A reply that was written is one of 250 or a refusal.                    *)
LEMMA Accepts ==
  ASSUME Inv, alive, alive' = TRUE, NEW verb, reply' = [to |-> verb, code |-> 250]
  PROVE  T!Replied(verb, TRUE)
<1>1. reply'.to = verb /\ (reply'.code = 250) = TRUE
  OBVIOUS
<1> QED
  BY <1>1 DEF T!Replied, Inv, TypeOK

LEMMA Declines ==
  ASSUME Inv, alive, alive' = TRUE, NEW verb, NEW code, code # 250,
         reply' = [to |-> verb, code |-> code]
  PROVE  T!Replied(verb, FALSE)
<1>1. reply'.to = verb /\ (reply'.code = 250) = FALSE
  OBVIOUS
<1> QED
  BY <1>1 DEF T!Replied, Inv, TypeOK

(* The worker ends without a message in its hands.                         *)
LEMMA Closes ==
  ASSUME Inv, alive, alive' = FALSE, UNCHANGED <<tls, reply>>, handled' = NoMessage
  PROVE  T!Close
BY DEF T!Close, T!NoEnvelope, T!NoMessage, NoMessage, Inv, TypeOK, TxInv

(* A refusal that leaves the transaction as it is.                         *)
LEMMA Refuses ==
  ASSUME Inv, alive, NEW verb \in Verbs \ {"DATA", "BDAT"}, NEW code, code # 250,
         Answer(verb, code), handled' = NoMessage, UNCHANGED tls,
         ~inBdat, alive' => Env' = Env /\ tx'.helo = tx.helo
  PROVE  T!Refuse(verb) \/ T!Close
<1>1. CASE alive' = TRUE /\ reply' = [to |-> verb, code |-> code]
  BY <1>1, Declines DEF T!Refuse, T!NoMessage, NoMessage, Env
<1>2. CASE alive' = FALSE /\ reply' = reply
  BY <1>2, Closes
<1> QED
  BY <1>1, <1>2, Answered

(* A refusal that ends the transaction: of DATA or BDAT, or of anything    *)
(* else between two chunks.                                                *)
LEMMA RefusesAndEnds ==
  ASSUME Inv, alive, NEW verb \in Verbs, verb \in {"DATA", "BDAT"} \/ inBdat,
         NEW code, code # 250, Answer(verb, code), EndTx(phaseHelo),
         handled' = NoMessage, UNCHANGED tls
  PROVE  T!Refuse(verb) \/ T!Close
<1>1. CASE alive' = TRUE /\ reply' = [to |-> verb, code |-> code]
  <2>1. Env' = [open |-> FALSE] /\ tx'.helo = tx.helo
    BY <1>1 DEF EndTx, ResetTx, NewTx, phaseHelo, phaseMail, Env
  <2>2. inBdat => phase >= phaseMail
    BY DEF Inv, TxInv, phaseMail, phaseRcpt
  <2> QED
    BY <1>1, <2>1, <2>2, Declines DEF T!Refuse, T!NoMessage, T!NoEnvelope,
       NoMessage, Env
<1>2. CASE alive' = FALSE /\ reply' = reply
  BY <1>2, Closes
<1> QED
  BY <1>1, <1>2, Answered

LEMMA RefusalSteps ==
  ASSUME NEW verb \in Verbs, T!Refuse(verb) \/ T!Close
  PROVE  T!Next
<1>1. verb \in {r.to : r \in T!Replies}
  <2>1. [to |-> verb, ok |-> FALSE] \in T!Replies
    BY DEF T!Replies, Verbs
  <2> QED
    BY <2>1
<1> QED
  BY <1>1 DEF T!Next

-----------------------------------------------------------------------------
(* The replies that promise something, or a worker that cannot write them. *)

LEMMA GreetsOrCloses ==
  ASSUME Inv, alive, Answer("HELO", 250), tx' = NewTx(tls, TRUE),
         phase' = phaseHelo, handled' = NoMessage, tls' = tls
  PROVE  T!Greet \/ T!Close
<1>1. tx'.helo = TRUE /\ Env' = [open |-> FALSE]
  BY DEF NewTx, phaseHelo, phaseMail, Env
<1>2. CASE alive' = TRUE /\ reply' = [to |-> "HELO", code |-> 250]
  <2>1. T!Replied("HELO", TRUE)
    BY <1>2, Accepts
  <2> QED
    BY <1>1, <1>2, <2>1 DEF T!Greet, T!NoMessage, T!NoEnvelope, NoMessage, Env
<1>3. CASE alive' = FALSE /\ reply' = reply
  BY <1>3, Closes
<1> QED
  BY <1>2, <1>3, Answered

LEMMA Secures ==
  ASSUME Inv, alive, Answer("STARTTLS", 220), tx.helo, ~tls, tls' = TRUE,
         tx' = NewTx(TRUE, FALSE), phase' = phaseInit, handled' = NoMessage, open
  PROVE  T!Secure
<1>1. tx'.helo = FALSE /\ Env' = [open |-> FALSE]
  BY DEF NewTx, phaseInit, phaseMail, Env
<1>2. alive' = TRUE /\ \E code : code # 250 /\ reply' = [to |-> "STARTTLS", code |-> code]
  BY DEF Answer, Inv, TypeOK
<1>3. T!Replied("STARTTLS", FALSE)
  BY <1>2, Declines
<1> QED
  BY <1>1, <1>2, <1>3 DEF T!Secure, T!NoMessage, T!NoEnvelope, NoMessage, Env

LEMMA BeginsOrCloses ==
  ASSUME Inv, alive, NEW from \in Addr, Answer("MAIL", 250), tx.helo,
         RequireTLS => tls, phase < phaseMail, phase' = phaseMail,
         tx'.helo = tx.helo, tx'.from = from, tx'.accepted = <<>>,
         bodyBuf' = <<>>, ~inBdat, inBdat' = inBdat, handled' = NoMessage,
         tls' = tls
  PROVE  T!Begin(from) \/ T!Close
<1>1. CASE alive' = TRUE /\ reply' = [to |-> "MAIL", code |-> 250]
  <2>1. T!Replied("MAIL", TRUE)
    BY <1>1, Accepts
  <2>2. Env = [open |-> FALSE]
    BY DEF Env, phaseMail, Inv, TypeOK, phaseInit, phaseRcpt
  <2>3. Env' = [open |-> TRUE, from |-> from, to |-> <<>>, content |-> <<>>,
                chunked |-> FALSE]
    <3>1. inBdat' = FALSE /\ alive' /\ phase' >= phaseMail
      BY <1>1 DEF phaseMail, Inv, TypeOK
    <3>2. Env' = [open |-> TRUE, from |-> tx'.from, to |-> tx'.accepted,
                  content |-> bodyBuf', chunked |-> inBdat']
      BY <3>1 DEF Env
    <3> QED
      BY <3>1, <3>2, Zenon
  <2> QED
    BY <1>1, <2>1, <2>2, <2>3 DEF T!Begin, T!Envelope, T!NoMessage, NoMessage, Env
<1>2. CASE alive' = FALSE /\ reply' = reply
  BY <1>2, Closes
<1> QED
  BY <1>1, <1>2, Answered, ZenonT(30)

LEMMA GainsRecipient ==
  ASSUME NEW yes, NEW no, NEW more,
         Env = [open |-> yes, from |-> tx.from, to |-> tx.accepted,
                content |-> bodyBuf, chunked |-> no],
         Env' = [open |-> yes, from |-> tx.from, to |-> more,
                 content |-> bodyBuf, chunked |-> no]
  PROVE  Env' = [Env EXCEPT !.to = more] /\ Env.to = tx.accepted
OBVIOUS

LEMMA AddsOrCloses ==
  ASSUME Inv, alive, NEW to \in Addr, Answer("RCPT", 250), phase >= phaseMail,
         phase' = phaseRcpt, tx'.helo = tx.helo, tx'.from = tx.from,
         tx'.accepted = Append(tx.accepted, to), ~inBdat,
         UNCHANGED <<bodyBuf, inBdat, tls>>, handled' = NoMessage
  PROVE  T!AddRecipient(to) \/ T!Close
<1>1. CASE alive' = TRUE /\ reply' = [to |-> "RCPT", code |-> 250]
  <2>1. T!Replied("RCPT", TRUE)
    BY <1>1, Accepts
  <2>2. inBdat = FALSE /\ inBdat' = FALSE /\ alive' /\ phase' >= phaseMail
    BY <1>1 DEF phaseMail, phaseRcpt, Inv, TypeOK
  <2>3. Env = [open |-> TRUE, from |-> tx.from, to |-> tx.accepted,
               content |-> bodyBuf, chunked |-> inBdat]
    BY DEF Env
  <2>4. Env' = [open |-> TRUE, from |-> tx.from, to |-> Append(tx.accepted, to),
                content |-> bodyBuf, chunked |-> inBdat]
    BY <2>2 DEF Env
  <2>5. Env' = [Env EXCEPT !.to = Append(tx.accepted, to)] /\ Env.to = tx.accepted
    <3>1. PICK yes, no : yes = TRUE /\ no = inBdat
      OBVIOUS
    <3>2. Env = [open |-> yes, from |-> tx.from, to |-> tx.accepted,
                 content |-> bodyBuf, chunked |-> no]
      BY <2>3, <3>1, Zenon
    <3>3. Env' = [open |-> yes, from |-> tx.from, to |-> Append(tx.accepted, to),
                  content |-> bodyBuf, chunked |-> no]
      BY <2>4, <3>1, Zenon
    <3> QED
      BY <3>2, <3>3, GainsRecipient
  <2>6. Env.open /\ ~Env.chunked
    BY <2>2, <2>3
  <2> QED
    BY <1>1, <2>1, <2>5, <2>6 DEF T!AddRecipient, T!NoMessage, NoMessage, Env
<1>2. CASE alive' = FALSE /\ reply' = reply
  BY <1>2, Closes
<1> QED
  BY <1>1, <1>2, Answered, ZenonT(30)

-----------------------------------------------------------------------------
(* One lemma for each group of handlers.                                   *)

LEMMA GreetingSteps ==
  ASSUME Inv,
         \/ \E extended \in BOOLEAN, code \in Responses \cup {501} : Hello(extended, code)
         \/ StartTLSRefused
         \/ StartTLS
         \/ StartTLSFails
  PROVE  T!Next \/ UNCHANGED T!vars
<1>1. ASSUME NEW extended \in BOOLEAN, NEW code \in Responses \cup {501},
             Hello(extended, code)
      PROVE  T!Next \/ UNCHANGED T!vars
  <2>1. alive /\ ~inBdat /\ "HELO" \in Verbs \ {"DATA", "BDAT"}
    BY <1>1 DEF Hello, Verbs
  <2>2. CASE code # 250
    <3>1. Answer("HELO", code) /\ Quiet /\ UNCHANGED <<txVars, tls>>
      BY <1>1, <2>2, Zenon DEF Hello
    <3>2. alive' => Env' = Env /\ tx'.helo = tx.helo
      BY <2>1, <3>1 DEF Env, txVars
    <3> QED
      BY <2>1, <2>2, <3>1, <3>2, Refuses, RefusalSteps DEF Quiet
  <2>3. CASE code = 250 /\ extended /\ ~open
    <3>1. UNCHANGED vars
      BY <1>1, <2>3, Zenon DEF Hello
    <3> QED
      BY <3>1 DEF vars, txVars, T!vars
  <2>4. CASE code = 250 /\ ~(extended /\ ~open)
    <3>1. /\ tx' = NewTx(tls, TRUE) /\ phase' = phaseHelo
          /\ Answer("HELO", 250) /\ handled' = NoMessage /\ tls' = tls
      BY <1>1, <2>4, ZenonT(30) DEF Hello, Quiet
    <3> QED
      BY <2>1, <3>1, GreetsOrCloses DEF T!Next
  <2> QED
    BY <2>2, <2>3, <2>4
<1>2. CASE StartTLSRefused
  <2>1. /\ alive /\ ~inBdat /\ "STARTTLS" \in Verbs \ {"DATA", "BDAT"}
        /\ handled' = NoMessage /\ UNCHANGED <<txVars, tls>>
    BY <1>2 DEF StartTLSRefused, Quiet, Verbs
  <2>2. \E code : code # 250 /\ Answer("STARTTLS", code)
    BY <1>2 DEF StartTLSRefused
  <2>3. alive' => Env' = Env /\ tx'.helo = tx.helo
    BY <2>1 DEF Env, txVars
  <2> QED
    BY <2>1, <2>2, <2>3, Refuses, RefusalSteps
<1>3. CASE StartTLS
  <2>1. /\ alive /\ open /\ ~tls /\ tx.helo
        /\ tls' = TRUE /\ tx' = NewTx(TRUE, FALSE) /\ phase' = phaseInit
        /\ Answer("STARTTLS", 220) /\ handled' = NoMessage
    BY <1>3 DEF StartTLS, StartTLSReady, Quiet
  <2> QED
    BY <2>1, Secures DEF T!Next
<1>4. CASE StartTLSFails
  <2>1. /\ alive /\ ~inBdat /\ "STARTTLS" \in Verbs \ {"DATA", "BDAT"}
        /\ Answer("STARTTLS", 220) /\ handled' = NoMessage
        /\ UNCHANGED <<txVars, tls>>
    BY <1>4 DEF StartTLSFails, StartTLSReady, Quiet, Verbs
  <2>2. alive' => Env' = Env /\ tx'.helo = tx.helo
    BY <2>1 DEF Env, txVars
  <2> QED
    BY <2>1, <2>2, Refuses, RefusalSteps
<1> QED
  BY <1>1, <1>2, <1>3, <1>4

LEMMA MailSteps ==
  ASSUME Inv, MailStep
  PROVE  T!Next \/ UNCHANGED T!vars
<1>0. "MAIL" \in Verbs \ {"DATA", "BDAT"}
  BY DEF Verbs
<1>1. CASE MailRefused
  <2>1. /\ alive /\ ~inBdat /\ handled' = NoMessage /\ UNCHANGED <<txVars, tls>>
        /\ \E code : code # 250 /\ Answer("MAIL", code)
    BY <1>1 DEF MailRefused, Quiet
  <2>2. alive' => Env' = Env /\ tx'.helo = tx.helo
    BY <2>1 DEF Env, txVars
  <2> QED
    BY <1>0, <2>1, <2>2, Refuses, RefusalSteps
<1>2. ASSUME NEW from \in Addr, NEW eight \in BOOLEAN,
             NEW code \in Responses \cup {501, 552}, Mail(from, eight, code)
      PROVE  T!Next \/ UNCHANGED T!vars
  <2>1. /\ alive /\ ~inBdat /\ (RequireTLS => tls) /\ tx.helo /\ phase < phaseMail
        /\ Answer("MAIL", code) /\ handled' = NoMessage /\ UNCHANGED <<inBdat, tls>>
        /\ bodyBuf' = <<>> /\ phase' = IF code = 250 THEN phaseMail ELSE phase
    BY <1>2, Zenon DEF Mail, Quiet
  <2>2. tx'.helo = tx.helo /\ tx'.from = from /\ tx'.accepted = <<>>
    BY <1>2, ZenonT(30) DEF Mail, Inv, TypeOK, Txs
  <2>3. Env = [open |-> FALSE] /\ phase \in 0..3
    BY <2>1 DEF Env, Inv, TypeOK, phaseInit, phaseMail, phaseRcpt
  <2>4. CASE code = 250
    BY <2>1, <2>2, <2>4, BeginsOrCloses DEF T!Next, Inv, TypeOK, phaseInit, phaseMail
  <2>5. CASE code # 250
    <3>1. Env' = Env
      BY <2>1, <2>3, <2>5 DEF Env, phaseMail
    <3> QED
      BY <1>0, <2>1, <2>2, <2>5, <3>1, Refuses, RefusalSteps
  <2> QED
    BY <2>4, <2>5
<1> QED
  BY <1>1, <1>2 DEF MailStep

LEMMA RcptSteps ==
  ASSUME Inv, RcptStep
  PROVE  T!Next \/ UNCHANGED T!vars
<1>0. "RCPT" \in Verbs \ {"DATA", "BDAT"}
  BY DEF Verbs
<1>1. CASE RcptRefused
  <2>1. /\ alive /\ ~inBdat /\ handled' = NoMessage /\ UNCHANGED <<txVars, tls>>
        /\ \E code : code # 250 /\ Answer("RCPT", code)
    BY <1>1 DEF RcptRefused, Quiet
  <2>2. alive' => Env' = Env /\ tx'.helo = tx.helo
    BY <2>1 DEF Env, txVars
  <2> QED
    BY <1>0, <2>1, <2>2, Refuses, RefusalSteps
<1>2. ASSUME NEW to \in Addr, RcptOverLimit(to)
      PROVE  T!Next \/ UNCHANGED T!vars
  <2>1. /\ alive /\ ~inBdat /\ handled' = NoMessage
        /\ UNCHANGED <<phase, inBdat, bodyBuf, tls>> /\ Answer("RCPT", 452)
    BY <1>2 DEF RcptOverLimit, RcptReady, Quiet
  <2>2. tx'.helo = tx.helo /\ tx'.from = tx.from /\ tx'.accepted = tx.accepted
    BY <1>2 DEF RcptOverLimit, Inv, TypeOK, Txs
  <2>3. alive' => Env' = Env
    BY <2>1, <2>2 DEF Env
  <2> QED
    BY <1>0, <2>1, <2>2, <2>3, Refuses, RefusalSteps
<1>3. ASSUME NEW to \in Addr, NEW code \in Responses, Rcpt(to, code)
      PROVE  T!Next \/ UNCHANGED T!vars
  <2>1. /\ alive /\ ~inBdat /\ tx.helo /\ phase >= phaseMail /\ handled' = NoMessage
        /\ UNCHANGED <<inBdat, bodyBuf, tls>> /\ Answer("RCPT", code)
        /\ phase' = phaseRcpt
    BY <1>3 DEF Rcpt, RcptReady, Quiet
  <2>2. /\ tx'.helo = tx.helo /\ tx'.from = tx.from
        /\ tx'.accepted = IF code = 250 THEN Append(tx.accepted, to) ELSE tx.accepted
    <3>1. tx \in Txs
      BY DEF Inv, TypeOK
    <3>2. CASE code = 250
      <4>1. tx' = [tx EXCEPT !.rcpts = Append(@, to), !.accepted = Append(@, to)]
        BY <1>3, <3>2, Zenon DEF Rcpt
      <4> QED
        BY <3>1, <3>2, <4>1 DEF Txs
    <3>3. CASE code # 250
      <4>1. tx' = [tx EXCEPT !.rcpts = Append(@, to), !.rejected = @ + 1]
        BY <1>3, <3>3, Zenon DEF Rcpt
      <4> QED
        BY <3>1, <3>3, <4>1 DEF Txs
    <3> QED
      BY <3>2, <3>3
  <2>3. CASE code = 250
    BY <2>1, <2>2, <2>3, AddsOrCloses DEF T!Next
  <2>4. CASE code # 250
    <3>1. alive' => Env' = Env
      BY <2>1, <2>2, <2>4 DEF Env, phaseMail, phaseRcpt
    <3> QED
      BY <1>0, <2>1, <2>2, <2>4, <3>1, Refuses, RefusalSteps
  <2> QED
    BY <2>3, <2>4
<1> QED
  BY <1>1, <1>2, <1>3 DEF RcptStep

-----------------------------------------------------------------------------
(* DATA and BDAT.                                                          *)

(* There is an envelope to deliver when the handlers say there is.         *)
LEMMA HasEnvelope ==
  ASSUME Inv, alive, Deliverable
  PROVE  /\ Env.open /\ Env.to # <<>>
         /\ Env.from = tx.from /\ Env.to = tx.accepted
         /\ Env.content = bodyBuf
         /\ ~inBdat => ~Env.chunked
<1>1. phase >= phaseMail /\ tx.accepted # <<>>
  BY DEF Deliverable, Inv, TypeOK, phaseInit, phaseMail, phaseRcpt
<1>2. PICK yes, more : yes = TRUE /\ more = inBdat
  OBVIOUS
<1>3. Env = [open |-> TRUE, from |-> tx.from, to |-> tx.accepted,
             content |-> bodyBuf, chunked |-> inBdat]
  BY <1>1 DEF Env
<1>4. Env = [open |-> yes, from |-> tx.from, to |-> tx.accepted,
             content |-> bodyBuf, chunked |-> more]
  BY <1>2, <1>3, Zenon
<1>5. /\ Env.open = yes /\ Env.from = tx.from /\ Env.to = tx.accepted
      /\ Env.content = bodyBuf /\ Env.chunked = more
  BY <1>4
<1>6. Env.open
  BY <1>2, <1>5, Zenon
<1>7. ~inBdat => ~Env.chunked
  <2>1. ~inBdat => Env.chunked = FALSE
    <3>1. inBdat \in BOOLEAN
      BY DEF Inv, TypeOK
    <3> QED
      BY <1>2, <1>5, <3>1
  <2> QED
    BY <2>1
<1> QED
  BY <1>1, <1>5, <1>6, <1>7

(* The message the handler gets is the open envelope with the last piece   *)
(* of content; its reply ends the transaction, whatever the handler says.  *)
LEMMA Delivers ==
  ASSUME Inv, alive, Deliverable, NEW verb \in {"DATA", "BDAT"}, NEW code \in Nat,
         NEW n \in 0..MaxMessageSize, NEW piece \in [1..n -> Byte],
         Len(bodyBuf) + Len(piece) <= MaxMessageSize, verb = "DATA" => ~inBdat,
         HandOver(verb, bodyBuf \o piece, code), EndTx(phaseHelo), tls' = tls
  PROVE  T!Next
<1>1. T!HandOver(piece)
  <2>1. handled' = [from |-> tx.from, to |-> tx.accepted,
                    content |-> bodyBuf \o piece, secure |-> tls]
    BY DEF HandOver, Inv, TxInv
  <2> QED
    BY <2>1, HasEnvelope DEF T!HandOver, T!Message, Env
<1>2. Answer(verb, code)
  BY DEF HandOver
<1>3. Env' = [open |-> FALSE] /\ tx'.helo = tx.helo
  BY DEF EndTx, ResetTx, NewTx, phaseHelo, phaseMail, Env
<1>4. CASE alive' = TRUE /\ reply' = [to |-> verb, code |-> code]
  <2>1. \E ok \in BOOLEAN : T!Replied(verb, ok)
    BY <1>4, Accepts, Declines
  <2>2. \E ok \in BOOLEAN : T!Deliver(verb, ok, piece)
    BY <1>1, <1>3, <1>4, <2>1, HasEnvelope DEF T!Deliver, T!NoEnvelope, Env
  <2> QED
    BY <2>2 DEF T!Next
<1>5. CASE alive' = FALSE /\ reply' = reply
  <2>1. T!Close
    BY <1>1, <1>3, <1>5 DEF T!Close, T!NoEnvelope, Env
  <2> QED
    BY <2>1 DEF T!Next
<1> QED
  BY <1>2, <1>4, <1>5, Answered

LEMMA DataSteps ==
  ASSUME Inv, DataStep
  PROVE  T!Next \/ UNCHANGED T!vars
<1>0. "DATA" \in Verbs
  BY DEF Verbs
<1>1. CASE DataRefused
  BY <1>0, <1>1, RefusesAndEnds, RefusalSteps DEF DataRefused, Quiet
<1>2. ASSUME NEW size \in 0..(MaxMessageSize + 1), NEW body \in Chunk(size),
             NEW code \in Responses, Data(body, code)
      PROVE  T!Next \/ UNCHANGED T!vars
  <2>1. alive /\ ~inBdat /\ Deliverable /\ EndTx(phaseHelo) /\ tls' = tls
    BY <1>2 DEF Data
  <2>2. \/ \E c : c # 250 /\ Answer("DATA", c) /\ handled' = NoMessage
        \/ ~(Len(body) > MaxMessageSize) /\ HandOver("DATA", body, code)
    <3>1. CASE Len(body) > MaxMessageSize
      <4>1. Answer("DATA", 552) /\ handled' = NoMessage
        BY <1>2, <3>1, Zenon DEF Data
      <4> QED
        BY <4>1
    <3>2. CASE ~(Len(body) > MaxMessageSize)
      <4>1. \/ Answer("DATA", 550) /\ handled' = NoMessage
            \/ HandOver("DATA", body, code)
        BY <1>2, <3>2, Zenon DEF Data
      <4> QED
        BY <3>2, <4>1
    <3> QED
      BY <3>1, <3>2
  <2>3. CASE \E c : c # 250 /\ Answer("DATA", c) /\ handled' = NoMessage
    BY <1>0, <2>1, <2>3, RefusesAndEnds, RefusalSteps
  <2>4. CASE ~(Len(body) > MaxMessageSize) /\ HandOver("DATA", body, code)
    <3>1. size \in Nat
      BY SizeAssumption
    <3>2. body \in Seq(Byte) /\ Len(body) = size
      BY <3>1, ChunkType
    <3>3. size \in 0..MaxMessageSize
      BY <2>4, <3>1, <3>2, SizeAssumption
    <3>4. bodyBuf = <<>> /\ Len(bodyBuf) = 0
      BY <2>1, EmptySeq DEF Inv, TxInv
    <3>5. bodyBuf \o body = body
      BY <3>2, <3>4
    <3>6. Len(bodyBuf) + Len(body) <= MaxMessageSize
      BY <3>2, <3>3, <3>4, SizeAssumption
    <3>7. code \in Nat /\ body \in [1..size -> Byte]
      BY <1>2, ValueAssumption DEF Chunk
    <3> QED
      BY <2>1, <2>4, <3>3, <3>5, <3>6, <3>7, Delivers
  <2> QED
    BY <2>2, <2>3, <2>4
<1> QED
  BY <1>1, <1>2 DEF DataStep

LEMMA GainsChunk ==
  ASSUME NEW yes, NEW no, NEW from, NEW to, NEW more,
         Env = [open |-> yes, from |-> from, to |-> to, content |-> bodyBuf,
                chunked |-> no],
         Env' = [open |-> yes, from |-> from, to |-> to, content |-> more,
                 chunked |-> yes]
  PROVE  Env' = [Env EXCEPT !.content = more, !.chunked = yes]
<1>1. PICK mid : mid = [Env EXCEPT !.content = more]
  OBVIOUS
<1>2. mid = [open |-> yes, from |-> from, to |-> to, content |-> more,
             chunked |-> no]
  BY <1>1
<1>3. Env' = [mid EXCEPT !.chunked = yes]
  BY <1>2
<1> QED
  BY <1>1, <1>3, Zenon

LEMMA AddsChunkOrCloses ==
  ASSUME Inv, alive, Deliverable, NEW n \in 0..MaxMessageSize,
         NEW chunk \in [1..n -> Byte], Len(bodyBuf) + Len(chunk) <= MaxMessageSize,
         Answer("BDAT", 250), bodyBuf' = bodyBuf \o chunk, inBdat' = TRUE,
         handled' = NoMessage, UNCHANGED <<phase, tx, tls>>
  PROVE  T!Next
<1>1. CASE alive' = TRUE /\ reply' = [to |-> "BDAT", code |-> 250]
  <2>1. T!Replied("BDAT", TRUE)
    BY <1>1, Accepts
  <2>2. phase >= phaseMail /\ alive'
    BY <1>1 DEF Deliverable, Inv, TypeOK, phaseInit, phaseMail, phaseRcpt
  <2>3. Env = [open |-> TRUE, from |-> tx.from, to |-> tx.accepted,
               content |-> bodyBuf, chunked |-> inBdat]
    BY <2>2 DEF Env
  <2>4. Env' = [open |-> TRUE, from |-> tx.from, to |-> tx.accepted,
                content |-> bodyBuf \o chunk, chunked |-> TRUE]
    <3>1. phase' >= phaseMail
      BY <2>2
    <3>2. Env' = [open |-> TRUE, from |-> tx'.from, to |-> tx'.accepted,
                  content |-> bodyBuf', chunked |-> inBdat']
      BY <2>2, <3>1 DEF Env
    <3>3. tx' = tx
      OBVIOUS
    <3> QED
      BY <3>2, <3>3, Zenon
  <2>5. Env' = [Env EXCEPT !.content = bodyBuf \o chunk, !.chunked = TRUE]
    <3>1. PICK yes, no : yes = TRUE /\ no = inBdat
      OBVIOUS
    <3>2. Env = [open |-> yes, from |-> tx.from, to |-> tx.accepted,
                 content |-> bodyBuf, chunked |-> no]
      BY <2>3, <3>1, Zenon
    <3>3. Env' = [open |-> yes, from |-> tx.from, to |-> tx.accepted,
                  content |-> bodyBuf \o chunk, chunked |-> yes]
      BY <2>4, <3>1, Zenon
    <3>4. Env' = [Env EXCEPT !.content = bodyBuf \o chunk, !.chunked = yes]
      BY <3>2, <3>3, GainsChunk
    <3> QED
      BY <3>1, <3>4, Zenon
  <2>6. T!AddChunk(chunk)
    BY <1>1, <2>1, <2>5, HasEnvelope DEF T!AddChunk, T!NoMessage, NoMessage, Env
  <2> QED
    BY <2>6 DEF T!Next
<1>2. CASE alive' = FALSE /\ reply' = reply
  BY <1>2, Closes DEF T!Next
<1> QED
  BY <1>1, <1>2, Answered

LEMMA BdatSteps ==
  ASSUME Inv, BdatStep
  PROVE  T!Next \/ UNCHANGED T!vars
<1>0. "BDAT" \in Verbs
  BY DEF Verbs
<1>1. ASSUME NEW size \in Sizes, BdatRefused(size)
      PROVE  T!Next \/ UNCHANGED T!vars
  <2>1. alive /\ EndTx(phaseHelo) /\ handled' = NoMessage /\ tls' = tls
    BY <1>1 DEF BdatRefused, Quiet
  <2>2. \E code : code # 250 /\ Answer("BDAT", code)
    BY <1>1 DEF BdatRefused
  <2> QED
    BY <1>0, <2>1, <2>2, RefusesAndEnds, RefusalSteps
<1>2. ASSUME NEW size \in Sizes, BdatUnread(size)
      PROVE  T!Next \/ UNCHANGED T!vars
  <2>1. alive /\ EndTx(phaseHelo) /\ handled' = NoMessage /\ tls' = tls
    BY <1>2 DEF BdatUnread, Quiet
  <2>2. \E code : code # 250 /\ Answer("BDAT", code)
    BY <1>2 DEF BdatUnread
  <2> QED
    BY <1>0, <2>1, <2>2, RefusesAndEnds, RefusalSteps
<1>3. ASSUME NEW size \in Sizes, NEW chunk \in Chunk(size), BdatReady(chunk)
      PROVE  /\ size \in 0..MaxMessageSize /\ chunk \in [1..size -> Byte]
             /\ Len(bodyBuf) + Len(chunk) <= MaxMessageSize
  <2>1. size \in Nat
    BY SizeAssumption
  <2>2. chunk \in Seq(Byte) /\ Len(chunk) = size /\ bodyBuf \in Seq(Byte)
    BY <2>1, ChunkType DEF Inv, TypeOK
  <2>3. Len(bodyBuf \o chunk) <= MaxMessageSize
    BY <1>3, <2>1, AdmittedChunk DEF Inv
  <2>4. Len(bodyBuf) \in Nat /\ Len(bodyBuf \o chunk) = Len(bodyBuf) + Len(chunk)
    BY <2>2, LenProperties, ConcatProperties
  <2> QED
    BY <2>1, <2>2, <2>3, <2>4, SizeAssumption DEF Chunk
<1>4. ASSUME NEW size \in Sizes, NEW chunk \in Chunk(size), BdatChunk(chunk)
      PROVE  T!Next \/ UNCHANGED T!vars
  <2>1. /\ BdatReady(chunk) /\ alive /\ Deliverable /\ Answer("BDAT", 250)
        /\ bodyBuf' = bodyBuf \o chunk /\ inBdat' = TRUE /\ handled' = NoMessage
        /\ UNCHANGED <<phase, tx, tls>>
    BY <1>4 DEF BdatChunk, BdatReady, Quiet
  <2> QED
    BY <1>3, <2>1, AddsChunkOrCloses
<1>5. ASSUME NEW size \in Sizes, NEW chunk \in Chunk(size), NEW code \in Responses,
             BdatLast(chunk, code)
      PROVE  T!Next \/ UNCHANGED T!vars
  <2>1. /\ BdatReady(chunk) /\ alive /\ Deliverable /\ EndTx(phaseHelo)
        /\ HandOver("BDAT", bodyBuf \o chunk, code) /\ tls' = tls
    BY <1>5 DEF BdatLast, BdatReady
  <2>2. code \in Nat
    BY ValueAssumption
  <2> QED
    BY <1>3, <2>1, <2>2, Delivers
<1>6. ASSUME NEW verb \in {"HELO", "STARTTLS", "MAIL", "RCPT", "DATA", "OTHER"},
             BdatAbandoned(verb)
      PROVE  T!Next \/ UNCHANGED T!vars
  <2>1. /\ alive /\ inBdat /\ EndTx(phaseHelo) /\ handled' = NoMessage
        /\ tls' = tls /\ verb \in Verbs
    BY <1>6 DEF BdatAbandoned, Quiet, Verbs
  <2>2. \E code : code # 250 /\ Answer(verb, code)
    BY <1>6 DEF BdatAbandoned
  <2> QED
    BY <2>1, <2>2, RefusesAndEnds, RefusalSteps
<1> QED
  BY <1>1, <1>2, <1>4, <1>5, <1>6 DEF BdatStep

-----------------------------------------------------------------------------
(* The other commands, and the end of the session.                         *)

LEMMA ResetsOrCloses ==
  ASSUME Inv, Rset
  PROVE  T!Next
<1>1. /\ alive /\ EndTx(phaseInit) /\ Answer("RSET", 250) /\ handled' = NoMessage
      /\ tls' = tls
  BY DEF Rset, Quiet
<1>2. Env' = [open |-> FALSE] /\ tx'.helo = tx.helo
  BY <1>1 DEF EndTx, ResetTx, NewTx, phaseInit, phaseMail, Env
<1>3. CASE alive' = TRUE /\ reply' = [to |-> "RSET", code |-> 250]
  <2>1. T!Replied("RSET", TRUE)
    BY <1>1, <1>3, Accepts
  <2>2. T!Reset
    BY <1>1, <1>2, <1>3, <2>1 DEF T!Reset, T!NoMessage, T!NoEnvelope, NoMessage, Env
  <2> QED
    BY <2>2 DEF T!Next
<1>4. CASE alive' = FALSE /\ reply' = reply
  BY <1>1, <1>4, Closes DEF T!Next
<1> QED
  BY <1>1, <1>3, <1>4, Answered

LEMMA NoopsOrCloses ==
  ASSUME Inv, alive, Answer("OTHER", 250), handled' = NoMessage,
         UNCHANGED <<txVars, tls>>
  PROVE  T!Next
<1>1. CASE alive' = TRUE /\ reply' = [to |-> "OTHER", code |-> 250]
  <2>1. T!Replied("OTHER", TRUE)
    BY <1>1, Accepts
  <2>2. Env' = Env /\ tx' = tx
    BY <1>1 DEF Env, txVars
  <2>3. T!Noop
    BY <1>1, <2>1, <2>2 DEF T!Noop, T!NoMessage, NoMessage, Env
  <2> QED
    BY <2>3 DEF T!Next
<1>2. CASE alive' = FALSE /\ reply' = reply
  BY <1>2, Closes DEF T!Next
<1> QED
  BY <1>1, <1>2, Answered

LEMMA OtherSteps ==
  ASSUME Inv, NEW code \in {214, 250, 252, 500}, Other(code)
  PROVE  T!Next
<1>1. /\ alive /\ Answer("OTHER", code) /\ handled' = NoMessage
      /\ UNCHANGED <<txVars, tls>> /\ (code = 250 \/ ~inBdat)
      /\ "OTHER" \in Verbs \ {"DATA", "BDAT"}
  BY DEF Other, Quiet, Verbs
<1>2. CASE code = 250
  BY <1>1, <1>2, NoopsOrCloses
<1>3. CASE code # 250
  <2>1. alive' => Env' = Env /\ tx'.helo = tx.helo
    BY <1>1 DEF Env, txVars
  <2> QED
    BY <1>1, <1>3, <2>1, Refuses, RefusalSteps
<1> QED
  BY <1>2, <1>3

(* Every step of Session is a step of Transaction, or invisible to it.     *)
LEMMA StepImplements == Inv /\ [Next]_vars => [T!Next]_(T!vars)
<1> SUFFICES ASSUME Inv, [Next]_vars PROVE T!Next \/ UNCHANGED T!vars
  OBVIOUS
<1>1. CASE End
  <2>1. /\ alive /\ alive' = FALSE /\ UNCHANGED <<tls, reply>>
        /\ handled' = NoMessage
    BY <1>1 DEF End, Quiet
  <2> QED
    BY <2>1, Closes DEF T!Next
<1>2. CASE Hangup \/ UNCHANGED vars
  <2>1. UNCHANGED <<phase, tx, inBdat, bodyBuf, tls, alive, reply, handled>>
    BY <1>2 DEF Hangup, vars, txVars
  <2> QED
    BY <2>1 DEF T!vars
<1> QED
  BY <1>1, <1>2, GreetingSteps, MailSteps, RcptSteps, DataSteps, BdatSteps,
     ResetsOrCloses, OtherSteps DEF Next

LEMMA InitImplements == Init => T!Init
<1> SUFFICES ASSUME Init PROVE T!Init
  OBVIOUS
<1>1. /\ alive = TRUE /\ tx.helo = FALSE /\ ~(phase >= phaseMail) /\ tls \in BOOLEAN
      /\ handled = NoMessage /\ reply.to = "CONNECT" /\ (reply.code = 250) = FALSE
  BY DEF Init, NewTx, phaseInit, phaseMail
<1> QED
  BY <1>1 DEF T!Init, T!NoEnvelope, T!NoMessage, NoMessage

(* What a client can tell from the replies is what docs/spec.md promises:  *)
(* the handlers of the session, the order in which they change its state   *)
(* and their early returns implement module Transaction.                   *)
THEOREM ImplementsCorrect == Spec => Implements
<1>1. TypeOK /\ TxInv /\ SizeLimit <=> Inv
  BY DEF Inv
<1> QED
  BY <1>1, InitImplements, StepImplements, TypeCorrect, TxInvCorrect,
     SizeLimitCorrect, PTL DEF Spec, Implements, T!Spec

=============================================================================
