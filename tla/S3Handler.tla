------------------------------ MODULE S3Handler ------------------------------
(***************************************************************************)
(* Handler.Data of src/examples/s3/main.go: a message becomes one object   *)
(* of a bucket before the session answers 250.  The sessions of a server   *)
(* call it at once and share one sync.Pool of gzip writers; the clock the  *)
(* key is made from has a resolution of a second; and the upload can fail  *)
(* before or after the bucket has the object.                              *)
(*                                                                         *)
(* The compressor itself is external: a writer holds what it was given     *)
(* until Close and then adds it to the buffer it was last Reset to.  Its   *)
(* writes to a bytes.Buffer never fail, so the two error returns around    *)
(* them are never taken.  The key has four bytes of a hash of the content, *)
(* any function of it, which two contents may share.  A PUT of an object   *)
(* is atomic.                                                              *)
(***************************************************************************)
EXTENDS Naturals, Sequences, FiniteSets

CONSTANTS
  Digest(_), \* hash[:4]: the first four bytes of a content's SHA-256
  Calls,     \* bound: the calls of Data, by all runs of the server
  GzWriters, \* bound: the gzip writers
  LastSecond \* bound: when the clock stops

ASSUME LastSecondAssumption == LastSecond \in Nat

ASSUME CallsAssumption == Calls # {} /\ GzWriters # {}

VARIABLES
  mail,    \* the message, with its envelope, each call is given
  clock,   \* the unix time, in seconds
  step,    \* how far each call is
  now,     \* the time each call took
  pool,    \* the writers in gzipWriterPool
  gw,      \* the writer each call has
  target,  \* the call whose buffer each writer was last Reset to
  pending, \* what each writer has yet to write out
  gz,      \* the buffer of each call, a sequence of raw contents
  late,    \* uploads that failed here and may still arrive
  objects, \* the bucket: from keys to contents
  resp     \* what each call returned, 0 before

callVars == <<step, now, resp>>
gzipVars == <<pool, gw, target, pending, gz>>
bucketVars == <<late, objects>>
handlerVars == <<mail, clock, callVars, gzipVars, bucketVars>>

-----------------------------------------------------------------------------

(* FormatEnvelope: the time is a record of the content.                    *)
Raw(c) == [mail |-> mail[c], time |-> now[c]]

(* Mutant: the name is the time alone. *)
timeKey(t, content) == <<t>>

(* The date of the key says nothing the time does not say.                 *)
objectKey(t, content) == <<t, Digest(content)>>

To(c, next) == step' = [step EXCEPT ![c] = next]

Held == {gw[c] : c \in {d \in Calls : step[d] \in {"got", "copied", "closed"}}}

(* gzipWriterPool.Get, which may always make a new writer (the pool drops  *)
(* what it holds at a garbage collection), and Reset.                      *)
Get(c) ==
  /\ step[c] = "idle"
  /\ now' = [now EXCEPT ![c] = clock]
  /\ \E w \in GzWriters :
       /\ w \in pool \/ w \notin Held
       /\ pool' = pool \ {w}
       /\ gw' = [gw EXCEPT ![c] = w]
       /\ target' = [target EXCEPT ![w] = c]
       /\ pending' = [pending EXCEPT ![w] = <<>>]
  /\ To(c, "got")
  /\ UNCHANGED <<mail, clock, resp, gz, bucketVars>>

(* Mutant: the writer is put back before it is closed. *)
CopyAndPut(c) ==
  /\ step[c] = "got"
  /\ pending' = [pending EXCEPT ![gw[c]] = Append(@, Raw(c))]
  /\ pool' = pool \cup {gw[c]}
  /\ To(c, "copied")
  /\ UNCHANGED <<mail, clock, now, resp, gw, target, gz, bucketVars>>

(* io.Copy.                                                                *)
Copy(c) ==
  /\ step[c] = "got"
  /\ pending' = [pending EXCEPT ![gw[c]] = Append(@, Raw(c))]
  /\ To(c, "copied")
  /\ UNCHANGED <<mail, clock, now, resp, pool, gw, target, gz, bucketVars>>

(* Close writes the rest out, to wherever the writer points.               *)
Close(c) ==
  /\ step[c] = "copied"
  /\ gz' = [gz EXCEPT ![target[gw[c]]] = @ \o pending[gw[c]]]
  /\ pending' = [pending EXCEPT ![gw[c]] = <<>>]
  /\ To(c, "closed")
  /\ UNCHANGED <<mail, clock, now, resp, pool, gw, target, bucketVars>>

Put(c) ==
  /\ step[c] = "closed"
  /\ pool' = pool \cup {gw[c]}
  /\ To(c, "ready")
  /\ UNCHANGED <<mail, clock, now, resp, gw, target, pending, gz, bucketVars>>

Upload(c) == [key |-> objectKey(now[c], gz[c]), content |-> gz[c]]

Store(up) ==
  objects' = [k \in DOMAIN objects \cup {up.key} |->
                IF k = up.key THEN up.content ELSE objects[k]]

Return(c, code) == To(c, "returned") /\ resp' = [resp EXCEPT ![c] = code]

PutObject(c) ==
  /\ step[c] = "ready"
  /\ Store(Upload(c))
  /\ Return(c, 250)
  /\ UNCHANGED <<mail, clock, now, gzipVars, late>>

(* PutObject returns an error, as after the cancel of its context, and the *)
(* object may have been stored or be stored yet.  The client is told to    *)
(* try again.                                                              *)
PutObjectFails(c) ==
  /\ step[c] = "ready"
  /\ late' = late \cup {Upload(c)}
  /\ Return(c, 451)
  /\ UNCHANGED <<mail, clock, now, gzipVars, objects>>

-----------------------------------------------------------------------------
(* The environment.                                                        *)

Arrive ==
  /\ \E up \in late : Store(up) /\ late' = late \ {up}
  /\ UNCHANGED <<mail, clock, callVars, gzipVars>>

Tick ==
  /\ clock < LastSecond
  /\ clock' = clock + 1
  /\ UNCHANGED <<mail, callVars, gzipVars, bucketVars>>

Running == {c \in Calls : step[c] \notin {"idle", "returned", "dead"}}

(* The process ends: its calls and its pool are gone, and an upload under  *)
(* way may still arrive.                                                   *)
HandlerStops ==
  /\ step' = [c \in Calls |-> IF c \in Running THEN "dead" ELSE step[c]]
  /\ pool' = {}
  /\ late' = late \cup {Upload(c) : c \in {d \in Calls : step[d] = "ready"}}
  /\ UNCHANGED <<mail, clock, now, resp, gw, target, pending, gz, objects>>

-----------------------------------------------------------------------------

HandlerInit ==
  /\ clock = 0
  /\ step = [c \in Calls |-> "idle"]
  /\ now = [c \in Calls |-> 0]
  /\ pool = {}
  /\ gw = [c \in Calls |-> CHOOSE w \in GzWriters : TRUE]
  /\ target = [w \in GzWriters |-> CHOOSE c \in Calls : TRUE]
  /\ pending = [w \in GzWriters |-> <<>>]
  /\ gz = [c \in Calls |-> <<>>]
  /\ late = {}
  /\ objects = [k \in {} |-> <<>>]
  /\ resp = [c \in Calls |-> 0]

Data(c) ==
  \/ Get(c) \/ Copy(c) \/ Close(c) \/ Put(c)
  \/ PutObject(c) \/ PutObjectFails(c)

==============================================================================
