------------------------------ MODULE Delivery -------------------------------
(***************************************************************************)
(* How an accepted message gets to its two places: handleData of           *)
(* src/smtp.go calls Handler.Data, here the S3 handler, and writes the     *)
(* copy on disk (writePostcat, module Postcat) only when that returned     *)
(* 250.  The process and the machine can stop in the midst of either; the  *)
(* bucket outlives both.  A client that was told to try again, or not told *)
(* anything, sends the same message in another call.                       *)
(***************************************************************************)
EXTENDS S3Handler

CONSTANT Mails \* bound: the messages

VARIABLES dirSync, pc, entry, entries, content, contents, kept, lost

P == INSTANCE Postcat WITH Writers <- Calls

copyVars == <<dirSync, pc, entry, entries, content, contents, kept, lost>>
vars == <<handlerVars, copyVars>>

(* Mutant: the copy is written whatever the handler answers. *)
WriteCopyAlways(c) ==
  /\ step[c] = "returned"
  /\ P!Write(c)
  /\ UNCHANGED handlerVars

(* Server.writePostcat, after a 250.                                       *)
WriteCopy(c) ==
  /\ step[c] = "returned" /\ resp[c] = 250
  /\ P!Write(c)
  /\ UNCHANGED handlerVars

HandleData(c) == Data(c) /\ UNCHANGED copyVars

World == (Arrive \/ Tick) /\ UNCHANGED copyVars

(* The server stops with the process or with the machine.                  *)
Stop ==
  /\ HandlerStops
  /\ \/ P!Crash
     \/ P!PowerLoss
     \/ (\A c \in Calls : pc[c] \notin P!Running) /\ UNCHANGED copyVars

Init == HandlerInit /\ mail \in [Calls -> Mails] /\ P!Init

Next ==
  \/ \E c \in Calls : HandleData(c) \/ WriteCopy(c)
  \/ World
  \/ Stop

Spec == Init /\ [][Next]_vars

-----------------------------------------------------------------------------
(* Properties.                                                             *)

Stored == {objects[k] : k \in DOMAIN objects}

InBucket(m) == \E t \in 0 .. LastSecond : <<[mail |-> m, time |-> t]>> \in Stored

TypeOK ==
  /\ P!TypeOK
  /\ clock \in 0 .. LastSecond
  /\ step \in [Calls -> {"idle", "got", "copied", "closed", "ready",
                         "returned", "dead"}]
  /\ resp \in [Calls -> {0, 250, 451}]
  /\ pool \subseteq GzWriters
  /\ pool \cap Held = {}

(* Another message of the same second has the four bytes of c's hash: both *)
(* have one key, and the later upload replaces the object of the earlier.  *)
Clash(c) ==
  \E d \in Calls : /\ mail[d] # mail[c] /\ step[d] # "idle" /\ now[d] = now[c]
                   /\ Digest(<<Raw(d)>>) = Digest(<<Raw(c)>>)

(* "Each accepted message is stored as a single S3 object" (main.go,       *)
(* s3Handler): once a call has answered 250 the bucket holds its message,  *)
(* whole, whatever crashes, retries, uploads that arrive late and other    *)
(* messages of the same second follow, unless one of these clashes.        *)
AckedIsStored == \A c \in Calls : resp[c] = 250 => InBucket(mail[c]) \/ Clash(c)

(* Calls that run at once never mix their messages, though they share the  *)
(* writers: every object is one whole message of one call.                 *)
NeverMixed ==
  \A o \in Stored : \E c \in Calls : o = <<Raw(c)>>

(* "A non-250 response from Data MUST NOT write a postcat file" (spec.md   *)
(* H6), seen from the disk: a file a reader finds there, complete or not,  *)
(* at any time or after a restart, is of a message that was put into the   *)
(* bucket, and is there yet unless another clashed with it.                *)
CopyIsStored ==
  \A c \in Calls : entry[c] # "none" => InBucket(mail[c]) \/ Clash(c)

==============================================================================
