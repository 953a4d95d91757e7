---------------------------- MODULE Transaction ----------------------------
(***************************************************************************)
(* What one SMTP session promises its client, told by the replies alone    *)
(* (docs/spec.md, clauses C7, T2-T11, P2, P7-P11 and E7).  An envelope is  *)
(* opened by a 250 to MAIL, gains a recipient by a 250 to RCPT and content *)
(* by a 250 to BDAT, and is consumed by the one message it delivers.       *)
(* Module Session implements this specification.                           *)
(***************************************************************************)
EXTENDS Naturals, Sequences

CONSTANTS
  Addr,           \* sender and recipient addresses
  Byte,           \* message content
  MaxMessageSize, \* the advertised SIZE
  RequireTLS      \* whether MAIL needs TLS

VARIABLES
  open,      \* the session accepts commands
  greeted,   \* HELO or EHLO was accepted
  secure,    \* the session is protected by TLS
  envelope,  \* the open mail transaction, or NoEnvelope
  delivered, \* the message the last command handed over, or NoMessage
  reply      \* the last reply: the command it answers and whether it is 250

vars == <<open, greeted, secure, envelope, delivered, reply>>

Replies == [to : {"CONNECT", "HELO", "STARTTLS", "MAIL", "RCPT", "DATA", "BDAT",
                  "RSET", "OTHER"},
            ok : BOOLEAN]
NoEnvelope == [open |-> FALSE]
NoMessage == [none |-> TRUE]

Envelope(from, to, content, chunked) ==
  [open |-> TRUE, from |-> from, to |-> to, content |-> content,
   chunked |-> chunked]

(* The message made of the open envelope and the last piece of content.    *)
Message(rest) ==
  [from |-> envelope.from, to |-> envelope.to,
   content |-> envelope.content \o rest, secure |-> secure]

-----------------------------------------------------------------------------
Replied(verb, ok) == open /\ UNCHANGED open /\ reply' = [to |-> verb, ok |-> ok]

Greet ==
  /\ Replied("HELO", TRUE)
  /\ greeted' = TRUE
  /\ envelope' = NoEnvelope
  /\ delivered' = NoMessage
  /\ UNCHANGED secure

Secure ==
  /\ Replied("STARTTLS", FALSE)
  /\ greeted /\ ~secure
  /\ secure' = TRUE
  /\ greeted' = FALSE
  /\ envelope' = NoEnvelope
  /\ delivered' = NoMessage

Begin(from) ==
  /\ Replied("MAIL", TRUE)
  /\ greeted /\ ~envelope.open
  /\ RequireTLS => secure
  /\ envelope' = Envelope(from, <<>>, <<>>, FALSE)
  /\ delivered' = NoMessage
  /\ UNCHANGED <<greeted, secure>>

AddRecipient(to) ==
  /\ Replied("RCPT", TRUE)
  /\ envelope.open /\ ~envelope.chunked
  /\ envelope' = [envelope EXCEPT !.to = Append(@, to)]
  /\ delivered' = NoMessage
  /\ UNCHANGED <<greeted, secure>>

AddChunk(chunk) ==
  /\ Replied("BDAT", TRUE)
  /\ envelope.open /\ envelope.to # <<>>
  /\ Len(envelope.content) + Len(chunk) <= MaxMessageSize
  /\ envelope' = [envelope EXCEPT !.content = @ \o chunk, !.chunked = TRUE]
  /\ delivered' = NoMessage
  /\ UNCHANGED <<greeted, secure>>

(* The content is complete and within the limit.  The reply is 250 when    *)
(* the handler accepts the message; either way the envelope is gone.       *)
HandOver(rest) ==
  /\ envelope.open /\ envelope.to # <<>>
  /\ Len(envelope.content) + Len(rest) <= MaxMessageSize
  /\ delivered' = Message(rest)

Deliver(verb, ok, rest) ==
  /\ Replied(verb, ok)
  /\ HandOver(rest)
  /\ verb = "DATA" => ~envelope.chunked
  /\ envelope' = NoEnvelope
  /\ UNCHANGED <<greeted, secure>>

Reset ==
  /\ Replied("RSET", TRUE)
  /\ envelope' = NoEnvelope
  /\ delivered' = NoMessage
  /\ UNCHANGED <<greeted, secure>>

(* A refused DATA or BDAT ends the transaction, and so does any refusal    *)
(* between two chunks; another refused command leaves it as it was.        *)
Refuse(verb) ==
  /\ Replied(verb, FALSE)
  /\ envelope' = IF verb \in {"DATA", "BDAT"} \/ (envelope.open /\ envelope.chunked)
                 THEN NoEnvelope ELSE envelope
  /\ delivered' = NoMessage
  /\ UNCHANGED <<greeted, secure>>

Noop ==
  /\ Replied("OTHER", TRUE)
  /\ delivered' = NoMessage
  /\ UNCHANGED <<greeted, secure, envelope>>

(* The session ends without a reply.  It may end between the hand-over of  *)
(* a message and its reply: the client cannot tell.                        *)
Close ==
  /\ open
  /\ open' = FALSE
  /\ greeted' = FALSE
  /\ envelope' = NoEnvelope
  /\ \/ delivered' = NoMessage
     \/ \E n \in 0..MaxMessageSize : \E rest \in [1..n -> Byte] : HandOver(rest)
  /\ UNCHANGED <<secure, reply>>

Init ==
  /\ open = TRUE
  /\ greeted = FALSE
  /\ secure \in BOOLEAN
  /\ envelope = NoEnvelope
  /\ delivered = NoMessage
  /\ reply = [to |-> "CONNECT", ok |-> FALSE]

Next ==
  \/ Greet
  \/ Secure
  \/ \E a \in Addr : Begin(a) \/ AddRecipient(a)
  \/ \E n \in 0..MaxMessageSize : \E piece \in [1..n -> Byte] :
       \/ AddChunk(piece)
       \/ \E verb \in {"DATA", "BDAT"}, ok \in BOOLEAN : Deliver(verb, ok, piece)
  \/ Reset
  \/ \E verb \in {r.to : r \in Replies} : Refuse(verb)
  \/ Noop
  \/ Close

Spec == Init /\ [][Next]_vars

=============================================================================
