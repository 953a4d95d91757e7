--------------------------- MODULE DeliveryProofs ----------------------------
(***************************************************************************)
(* What an acknowledged message can rely on, for any number of calls,      *)
(* writers and messages: module Delivery's safety properties.              *)
(***************************************************************************)
EXTENDS Delivery, TLAPS

Raws == [mail : Mails, time : 0 .. LastSecond]

Steps == {"idle", "got", "copied", "closed", "ready", "returned", "dead"}

HasWriter(c) == step[c] \in {"got", "copied", "closed"}

HandlerType ==
  /\ mail \in [Calls -> Mails]
  /\ clock \in 0 .. LastSecond
  /\ now \in [Calls -> 0 .. LastSecond]
  /\ step \in [Calls -> Steps]
  /\ resp \in [Calls -> {0, 250, 451}]
  /\ pool \in SUBSET GzWriters
  /\ gw \in [Calls -> GzWriters]
  /\ target \in [GzWriters -> Calls]
  /\ pending \in [GzWriters -> Seq(Raws)]
  /\ gz \in [Calls -> Seq(Raws)]

(* A writer is of one call, is not in the pool meanwhile, and writes into  *)
(* the buffer of that call.                                                *)
WriterInv ==
  /\ \A c \in Calls : HasWriter(c) => target[gw[c]] = c /\ gw[c] \notin pool
  /\ \A c, d \in Calls : HasWriter(c) /\ HasWriter(d) /\ gw[c] = gw[d] => c = d

(* Where the content of a message is: in the writer, then in the buffer.   *)
ContentInv ==
  \A c \in Calls :
    /\ step[c] \in {"idle", "got", "copied"} => gz[c] = <<>>
    /\ step[c] = "got" => pending[gw[c]] = <<>>
    /\ step[c] = "copied" => pending[gw[c]] = <<Raw(c)>>
    /\ step[c] \in {"closed", "ready", "returned"} => gz[c] = <<Raw(c)>>

Key(c) == <<now[c], Digest(<<Raw(c)>>)>>

(* Under a key there is the whole content of a call that has that key.     *)
Genuine(key, value) ==
  \E c \in Calls : step[c] # "idle" /\ key = Key(c) /\ value = <<Raw(c)>>

BucketInv ==
  /\ \A up \in late : Genuine(up.key, up.content)
  /\ \A k \in DOMAIN objects : Genuine(k, objects[k])
  /\ \A c \in Calls :
       resp[c] = 250 => step[c] = "returned" /\ Key(c) \in DOMAIN objects

HandlerInv == HandlerType /\ WriterInv /\ ContentInv /\ BucketInv

(* The copy on disk is not begun before the handler has answered 250.      *)
CopyInv ==
  /\ pc \in [Calls -> {"idle"} \cup P!Running \cup P!Ended]
  /\ entry \in [Calls -> P!Entry]
  /\ entries \in [Calls -> SUBSET P!Entry]
  /\ \A c \in Calls : resp[c] # 250 =>
       pc[c] = "idle" /\ entry[c] = "none" /\ entries[c] = {"none"}

IInv == HandlerInv /\ CopyInv

-----------------------------------------------------------------------------

LEMMA InitHolds == Init => IInv
<1> SUFFICES ASSUME Init PROVE IInv
  OBVIOUS
<1> USE CallsAssumption, LastSecondAssumption DEF Init, HandlerInit
<1>1. HandlerType
  BY DEF HandlerType, Steps, Raws
<1>2. WriterInv /\ ContentInv
  BY DEF WriterInv, ContentInv, HasWriter
<1>3. BucketInv
  BY DEF BucketInv
<1>4. CopyInv
  BY DEF CopyInv, P!Init, P!Running, P!Writing, P!Ended, P!Entry
<1> QED
  BY <1>1, <1>2, <1>3, <1>4 DEF IInv, HandlerInv

-----------------------------------------------------------------------------
(* What the steps of the handler keep: nothing that was true of a call     *)
(* that has begun becomes false.                                           *)

(* What was genuine stays so when the calls that have begun keep their     *)
(* mail and their time.                                                    *)
LEMMA GenuineStays ==
  ASSUME mail' = mail, NEW key, NEW value, Genuine(key, value),
         \A c \in Calls : step[c] # "idle" => step'[c] # "idle" /\ now'[c] = now[c]
  PROVE  Genuine(key, value)'
BY DEF Genuine, Key, Raw

(* Storing an upload that is genuine keeps every object genuine.           *)
LEMMA StoreKeeps ==
  ASSUME NEW up, Store(up), Genuine(up.key, up.content),
         \A k \in DOMAIN objects : Genuine(k, objects[k])
  PROVE  /\ DOMAIN objects' = DOMAIN objects \cup {up.key}
         /\ \A k \in DOMAIN objects' : Genuine(k, objects'[k])
<1>1. /\ DOMAIN objects' = DOMAIN objects \cup {up.key}
      /\ \A k \in DOMAIN objects \cup {up.key} :
           objects'[k] = IF k = up.key THEN up.content ELSE objects[k]
  BY DEF Store
<1> QED
  BY <1>1

(* The three parts of the invariant under a step that stores nothing.      *)
LEMMA BucketStays ==
  ASSUME BucketInv, mail' = mail, objects' = objects,
         \A up \in late' : up \in late \/ Genuine(up.key, up.content)',
         \A c \in Calls : step[c] # "idle" => step'[c] # "idle" /\ now'[c] = now[c],
         \A c \in Calls : resp'[c] = 250 => resp[c] = 250 /\ step'[c] = "returned"
  PROVE  BucketInv'
<1>1. \A up \in late' : Genuine(up.key, up.content)'
  BY GenuineStays DEF BucketInv
<1>2. \A k \in DOMAIN objects' : Genuine(k, objects[k])'
  BY GenuineStays DEF BucketInv
<1>3. ASSUME NEW c \in Calls, resp'[c] = 250
      PROVE  step'[c] = "returned" /\ Key(c)' \in DOMAIN objects'
  BY <1>3, ZenonT(30) DEF BucketInv, Key, Raw
<1> QED
  BY <1>1, <1>2, <1>3 DEF BucketInv, Genuine, Key, Raw

-----------------------------------------------------------------------------
(* The steps of the handler.                                               *)

LEMMA GetKeeps ==
  ASSUME HandlerInv, NEW c \in Calls, Get(c)
  PROVE  HandlerInv'
<1>0. HandlerType /\ WriterInv /\ ContentInv /\ BucketInv
  BY DEF HandlerInv
<1>1. PICK w \in GzWriters :
        /\ w \in pool \/ w \notin Held
        /\ pool' = pool \ {w}
        /\ gw' = [gw EXCEPT ![c] = w]
        /\ target' = [target EXCEPT ![w] = c]
        /\ pending' = [pending EXCEPT ![w] = <<>>]
  BY DEF Get
<1>2. /\ step[c] = "idle"
      /\ now' = [now EXCEPT ![c] = clock]
      /\ step' = [step EXCEPT ![c] = "got"]
      /\ mail' = mail /\ clock' = clock /\ resp' = resp /\ gz' = gz
      /\ late' = late /\ objects' = objects
  BY DEF Get, To, bucketVars
<1>3. \A d \in Calls : HasWriter(d) => gw[d] # w /\ d # c
  <2> SUFFICES ASSUME NEW d \in Calls, HasWriter(d) PROVE gw[d] # w /\ d # c
    OBVIOUS
  <2>1. gw[d] \in Held
    BY DEF Held, HasWriter
  <2>2. gw[d] \notin pool
    BY <1>0 DEF WriterInv
  <2>3. d # c
    BY <1>2 DEF HasWriter
  <2> QED
    BY <1>1, <2>1, <2>2, <2>3
<1>4. HandlerType'
  <2>1. now' \in [Calls -> 0 .. LastSecond] /\ step' \in [Calls -> Steps]
    BY <1>0, <1>2 DEF HandlerType, Steps
  <2>2. /\ pool' \in SUBSET GzWriters /\ gw' \in [Calls -> GzWriters]
        /\ target' \in [GzWriters -> Calls]
    BY <1>0, <1>1 DEF HandlerType
  <2>3. pending' \in [GzWriters -> Seq(Raws)]
    <3> <<>> \in Seq(Raws)
      OBVIOUS
    <3> QED
      BY <1>0, <1>1 DEF HandlerType
  <2> QED
    BY <1>0, <1>2, <2>1, <2>2, <2>3 DEF HandlerType
<1>5. \A d \in Calls \ {c} : /\ step'[d] = step[d] /\ gw'[d] = gw[d]
                            /\ now'[d] = now[d]
  BY <1>0, <1>1, <1>2 DEF HandlerType
<1>6. /\ step'[c] = "got" /\ gw'[c] = w /\ target'[w] = c /\ w \notin pool'
      /\ pending'[w] = <<>>
  BY <1>0, <1>1, <1>2 DEF HandlerType
<1>7. \A d \in Calls : HasWriter(d) =>
        /\ target'[gw[d]] = target[gw[d]] /\ pending'[gw[d]] = pending[gw[d]]
  BY <1>0, <1>1, <1>3 DEF HandlerType
<1>8. \A d \in Calls \ {c} : HasWriter(d)' = HasWriter(d)
  BY <1>5 DEF HasWriter
<1>9. WriterInv'
  <2>1. \A d \in Calls : HasWriter(d)' => target'[gw'[d]] = d /\ gw'[d] \notin pool'
    BY <1>0, <1>1, <1>5, <1>6, <1>7, <1>8 DEF WriterInv
  <2>2. \A d, e \in Calls :
          HasWriter(d)' /\ HasWriter(e)' /\ gw'[d] = gw'[e] => d = e
    BY <1>0, <1>3, <1>5, <1>6, <1>8 DEF WriterInv
  <2> QED
    BY <2>1, <2>2 DEF WriterInv, HasWriter
<1>10. ContentInv'
  <2> SUFFICES ASSUME NEW d \in Calls
               PROVE  /\ step'[d] \in {"idle", "got", "copied"} => gz'[d] = <<>>
                      /\ step'[d] = "got" => pending'[gw'[d]] = <<>>
                      /\ step'[d] = "copied" => pending'[gw'[d]] = <<Raw(d)'>>
                      /\ step'[d] \in {"closed", "ready", "returned"} =>
                           gz'[d] = <<Raw(d)'>>
    BY DEF ContentInv, Raw
  <2>1. CASE d = c
    BY <1>0, <1>2, <1>6, <2>1 DEF ContentInv
  <2>2. CASE d # c
    <3>1. Raw(d)' = Raw(d)
      BY <1>2, <1>5, <2>2 DEF Raw
    <3> QED
      BY <1>0, <1>2, <1>5, <1>7, <2>2, <3>1 DEF ContentInv, HasWriter
  <2> QED
    BY <2>1, <2>2
<1>11. BucketInv'
  <2>1. \A d \in Calls : step[d] # "idle" => step'[d] # "idle" /\ now'[d] = now[d]
    BY <1>2, <1>5
  <2>2. \A d \in Calls : resp'[d] = 250 => resp[d] = 250 /\ step'[d] = "returned"
    BY <1>0, <1>2, <1>5 DEF BucketInv
  <2> QED
    BY <1>0, <1>2, <2>1, <2>2, BucketStays
<1> QED
  BY <1>4, <1>9, <1>10, <1>11 DEF HandlerInv

(* A step that moves no writer keeps who has which.                        *)
LEMMA WritersStay ==
  ASSUME WriterInv, gw' = gw, target' = target, pool' = pool,
         \A d \in Calls : HasWriter(d)' => HasWriter(d)
  PROVE  WriterInv'
BY DEF WriterInv

LEMMA CopyKeeps ==
  ASSUME HandlerInv, NEW c \in Calls, Copy(c)
  PROVE  HandlerInv'
<1>1. Raw(c) \in Raws
  BY DEF HandlerInv, HandlerType, Raw, Raws
<1>2. HandlerType'
  <2>1. step' \in [Calls -> Steps]
    BY DEF HandlerInv, HandlerType, Copy, To, Steps
  <2>2. pending' \in [GzWriters -> Seq(Raws)]
    <3>1. pending \in [GzWriters -> Seq(Raws)] /\ gw[c] \in GzWriters
      BY DEF HandlerInv, HandlerType
    <3>2. Append(pending[gw[c]], Raw(c)) \in Seq(Raws)
      BY <1>1, <3>1
    <3> QED
      BY <3>1, <3>2 DEF Copy
  <2> QED
    BY <2>1, <2>2 DEF HandlerInv, HandlerType, Copy
<1>3. WriterInv'
  <2>1. \A d \in Calls : HasWriter(d)' => HasWriter(d)
    BY DEF HandlerInv, HandlerType, Copy, To, HasWriter
  <2> QED
    BY <2>1, WritersStay DEF HandlerInv, Copy
<1> USE DEF HandlerInv, HandlerType, Copy, To, bucketVars
<1>4. ContentInv'
  <2>1. pending[gw[c]] = <<>> /\ gz[c] = <<>>
    BY DEF ContentInv
  <2>2. pending'[gw[c]] = <<Raw(c)>>
    BY <2>1, <1>1
  <2>3. \A d \in Calls \ {c} : step[d] \in {"got", "copied"} =>
          pending'[gw[d]] = pending[gw[d]]
    BY DEF WriterInv, HasWriter
  <2>4. \A d \in Calls : Raw(d)' = Raw(d)
    BY DEF Raw
  <2>5. step' = [step EXCEPT ![c] = "copied"] /\ gw' = gw /\ gz' = gz
    OBVIOUS
  <2> SUFFICES ASSUME NEW d \in Calls
               PROVE  /\ step'[d] \in {"idle", "got", "copied"} => gz'[d] = <<>>
                      /\ step'[d] = "got" => pending'[gw'[d]] = <<>>
                      /\ step'[d] = "copied" => pending'[gw'[d]] = <<Raw(d)'>>
                      /\ step'[d] \in {"closed", "ready", "returned"} =>
                           gz'[d] = <<Raw(d)'>>
    BY DEF ContentInv, Raw
  <2>6. CASE d = c
    BY <2>1, <2>2, <2>4, <2>5, <2>6
  <2>7. CASE d # c
    <3>1. step'[d] = step[d]
      BY <2>5, <2>7
    <3>2. ContentInv
      OBVIOUS
    <3> HIDE DEF HandlerInv, HandlerType, Copy, To, bucketVars
    <3> QED
      BY <2>3, <2>4, <2>5, <2>7, <3>1, <3>2 DEF ContentInv
  <2> QED
    BY <2>6, <2>7
<1>5. BucketInv'
  <2>1. \A d \in Calls : step[d] # "idle" => step'[d] # "idle" /\ now'[d] = now[d]
    BY DEF Steps
  <2>2. \A d \in Calls : resp'[d] = 250 => resp[d] = 250 /\ step'[d] = "returned"
    BY DEF BucketInv, Steps
  <2> QED
    BY <2>1, <2>2, BucketStays
<1> QED
  BY <1>2, <1>3, <1>4, <1>5

LEMMA CloseKeeps ==
  ASSUME HandlerInv, NEW c \in Calls, Close(c)
  PROVE  HandlerInv'
<1> USE DEF HandlerInv, HandlerType, Close, To, bucketVars
<1>1. target[gw[c]] = c /\ gz[c] = <<>> /\ pending[gw[c]] = <<Raw(c)>>
  BY DEF WriterInv, HasWriter, ContentInv
<1>2. gz' = [gz EXCEPT ![c] = <<Raw(c)>>]
  BY <1>1
<1>3. Raw(c) \in Raws
  BY DEF Raw, Raws
<1>4. HandlerType'
  <2>1. gz' \in [Calls -> Seq(Raws)]
    BY <1>2, <1>3, SMTT(30)
  <2>2. pending' \in [GzWriters -> Seq(Raws)]
    OBVIOUS
  <2>3. step' \in [Calls -> Steps]
    BY DEF Steps
  <2> QED
    BY <2>1, <2>2, <2>3
<1>5. WriterInv'
  <2>1. \A d \in Calls : HasWriter(d)' => HasWriter(d)
    BY DEF HasWriter
  <2> QED
    BY <2>1, WritersStay
<1>6. ContentInv'
  <2>1. \A d \in Calls \ {c} : step[d] \in {"got", "copied"} =>
          pending'[gw[d]] = pending[gw[d]]
    BY DEF WriterInv, HasWriter
  <2> QED
    BY <1>2, <2>1, ZenonT(30) DEF ContentInv, Raw, Steps
<1>7. BucketInv'
  <2>1. \A d \in Calls : step[d] # "idle" => step'[d] # "idle" /\ now'[d] = now[d]
    BY DEF Steps
  <2>2. \A d \in Calls : resp'[d] = 250 => resp[d] = 250 /\ step'[d] = "returned"
    BY DEF BucketInv, Steps
  <2> QED
    BY <2>1, <2>2, BucketStays
<1> QED
  BY <1>4, <1>5, <1>6, <1>7

LEMMA PutKeeps ==
  ASSUME HandlerInv, NEW c \in Calls, Put(c)
  PROVE  HandlerInv'
<1> USE DEF HandlerInv, HandlerType, Put, To, bucketVars
<1>1. HandlerType'
  BY DEF Steps
<1>2. WriterInv' /\ ContentInv'
  BY SMTT(30) DEF WriterInv, HasWriter, ContentInv, Raw, Steps
<1>3. BucketInv'
  <2>1. \A d \in Calls : step[d] # "idle" => step'[d] # "idle" /\ now'[d] = now[d]
    BY DEF Steps
  <2>2. \A d \in Calls : resp'[d] = 250 => resp[d] = 250 /\ step'[d] = "returned"
    BY DEF BucketInv, Steps
  <2> QED
    BY <2>1, <2>2, BucketStays
<1> QED
  BY <1>1, <1>2, <1>3

(* An upload that is ready is that of the whole message, under its key.    *)
LEMMA UploadGenuine ==
  ASSUME HandlerInv, NEW c \in Calls, step[c] = "ready"
  PROVE  /\ Upload(c).key = Key(c) /\ Upload(c).content = <<Raw(c)>>
         /\ Genuine(Upload(c).key, Upload(c).content)
BY DEF HandlerInv, ContentInv, Upload, objectKey, Key, Genuine

(* A call that returns leaves the writers and the buffers as they are.     *)
LEMMA ReturnKeeps ==
  ASSUME HandlerInv, NEW c \in Calls, NEW code, step[c] = "ready",
         Return(c, code), UNCHANGED <<mail, now, gzipVars>>
  PROVE  WriterInv' /\ ContentInv'
<1>1. step' = [step EXCEPT ![c] = "returned"] /\ step \in [Calls -> Steps]
  BY DEF Return, To, HandlerInv, HandlerType
<1>2. \A d \in Calls : /\ Raw(d)' = Raw(d)
                       /\ d # c => step'[d] = step[d]
  BY <1>1 DEF Raw
<1>3. step'[c] = "returned" /\ step[c] = "ready"
  BY <1>1
<1>4. UNCHANGED <<gw, target, pool, pending, gz>>
  BY DEF gzipVars
<1>5. \A d \in Calls : HasWriter(d)' = HasWriter(d)
  BY <1>2, <1>3 DEF HasWriter
<1>6. WriterInv'
  <2>1. WriterInv
    BY DEF HandlerInv
  <2> QED
    BY <1>4, <1>5, <2>1 DEF WriterInv
<1>7. ContentInv'
  <2>1. ContentInv
    BY DEF HandlerInv
  <2> QED
    BY <1>2, <1>3, <1>4, <2>1 DEF ContentInv
<1> QED
  BY <1>6, <1>7

LEMMA PutObjectKeeps ==
  ASSUME HandlerInv, NEW c \in Calls, PutObject(c)
  PROVE  HandlerInv'
<1> USE DEF HandlerInv, HandlerType, PutObject, Return, To, gzipVars
<1>1. HandlerType'
  BY DEF Steps
<1>2. WriterInv' /\ ContentInv'
  BY ReturnKeeps DEF PutObject
<1>3. BucketInv'
  <2>1. \A d \in Calls : step[d] # "idle" => step'[d] # "idle" /\ now'[d] = now[d]
    BY DEF Steps
  <2>2. /\ DOMAIN objects' = DOMAIN objects \cup {Key(c)}
        /\ \A k \in DOMAIN objects' : Genuine(k, objects'[k])
    <3>1. Store(Upload(c)) /\ \A k \in DOMAIN objects : Genuine(k, objects[k])
      BY DEF BucketInv
    <3>2. Upload(c).key = Key(c) /\ Genuine(Upload(c).key, Upload(c).content)
      BY UploadGenuine
    <3> HIDE DEF HandlerInv, HandlerType, PutObject
    <3> QED
      BY <3>1, <3>2, StoreKeeps
  <2>4. \A up \in late' : Genuine(up.key, up.content)'
    BY <2>1, GenuineStays DEF BucketInv
  <2>6. \A k \in DOMAIN objects' : Genuine(k, objects[k])'
    BY <2>1, <2>2 DEF Genuine, Key, Raw
  <2>7. ASSUME NEW d \in Calls, resp'[d] = 250
        PROVE  step'[d] = "returned" /\ Key(d)' \in DOMAIN objects'
    <3>1. Key(d)' = Key(d)
      BY DEF Key, Raw
    <3>2. CASE d = c
      BY <2>2, <3>1, <3>2
    <3>3. CASE d # c
      BY <2>2, <2>7, <3>1, <3>3 DEF BucketInv
    <3> QED
      BY <3>2, <3>3
  <2> QED
    BY <2>4, <2>6, <2>7 DEF BucketInv
<1> QED
  BY <1>1, <1>2, <1>3

LEMMA PutObjectFailsKeeps ==
  ASSUME HandlerInv, NEW c \in Calls, PutObjectFails(c)
  PROVE  HandlerInv'
<1> USE DEF HandlerInv, HandlerType, PutObjectFails, Return, To, gzipVars
<1>1. HandlerType'
  BY DEF Steps
<1>2. WriterInv' /\ ContentInv'
  BY ReturnKeeps, ZenonT(30) DEF PutObjectFails
<1>3. BucketInv'
  <2>1. \A d \in Calls : step[d] # "idle" => step'[d] # "idle" /\ now'[d] = now[d]
    BY DEF Steps
  <2>2. \A d \in Calls : resp'[d] = 250 => resp[d] = 250 /\ step'[d] = "returned"
    BY DEF BucketInv, Steps
  <2>3. Genuine(Key(c), <<Raw(c)>>)'
    BY <2>1 DEF Genuine, Key, Raw
  <2>4. \A up \in late' : up \in late \/ Genuine(up.key, up.content)'
    <3> SUFFICES ASSUME NEW up \in late', up \notin late
                 PROVE  Genuine(up.key, up.content)'
      OBVIOUS
    <3>1. up = Upload(c)
      OBVIOUS
    <3>2. up.key = Key(c) /\ up.content = <<Raw(c)>>
      BY <3>1, UploadGenuine
    <3>3. Key(c)' = Key(c) /\ Raw(c)' = Raw(c)
      BY DEF Key, Raw
    <3> QED
      BY <2>3, <3>2, <3>3 DEF Genuine
  <2> QED
    BY <2>1, <2>2, <2>4, BucketStays
<1> QED
  BY <1>1, <1>2, <1>3

-----------------------------------------------------------------------------
(* The steps of the environment.                                           *)

(* An upload that arrives late is whole, as those are that it may replace. *)
LEMMA ArriveKeeps ==
  ASSUME HandlerInv, Arrive
  PROVE  HandlerInv'
<1>1. UNCHANGED <<mail, clock, step, now, resp, pool, gw, target, pending, gz>>
  BY DEF Arrive, callVars, gzipVars
<1>2. PICK up \in late : Store(up) /\ late' = late \ {up}
  BY DEF Arrive
<1>3. HandlerType /\ WriterInv /\ ContentInv /\ BucketInv
  BY DEF HandlerInv
<1>4. HandlerType'
  BY <1>1, <1>3 DEF HandlerType
<1>5. WriterInv' /\ ContentInv'
  BY <1>1, <1>3 DEF WriterInv, HasWriter, ContentInv, Raw
<1>6. BucketInv'
  <2>1. Genuine(up.key, up.content)
    BY <1>2, <1>3 DEF BucketInv
  <2>2. /\ DOMAIN objects' = DOMAIN objects \cup {up.key}
        /\ \A k \in DOMAIN objects' : Genuine(k, objects'[k])
    BY <1>2, <1>3, <2>1, StoreKeeps DEF BucketInv
  <2>3. \A key, value : Genuine(key, value) => Genuine(key, value)'
    BY <1>1 DEF Genuine, Key, Raw
  <2>4. \A u \in late' : Genuine(u.key, u.content)'
    BY <1>2, <1>3, <2>3 DEF BucketInv
  <2>6. \A k \in DOMAIN objects' : Genuine(k, objects[k])'
    BY <1>1, <2>2 DEF Genuine, Key, Raw
  <2>7. \A c \in Calls :
          resp'[c] = 250 => step'[c] = "returned" /\ Key(c)' \in DOMAIN objects'
    BY <1>1, <1>3, <2>2 DEF BucketInv, Key, Raw
  <2> QED
    BY <2>4, <2>6, <2>7 DEF BucketInv
<1> QED
  BY <1>4, <1>5, <1>6 DEF HandlerInv

LEMMA TickKeeps ==
  ASSUME HandlerInv, Tick
  PROVE  HandlerInv'
<1>1. /\ UNCHANGED <<mail, step, now, resp, pool, gw, target, pending, gz, late,
                     objects>>
      /\ clock < LastSecond /\ clock' = clock + 1
  BY DEF Tick, callVars, gzipVars, bucketVars
<1>2. HandlerType /\ WriterInv /\ ContentInv /\ BucketInv
  BY DEF HandlerInv
<1>3. HandlerType'
  BY <1>1, <1>2, LastSecondAssumption DEF HandlerType
<1>4. WriterInv' /\ ContentInv'
  BY <1>1, <1>2 DEF WriterInv, HasWriter, ContentInv, Raw
<1>5. BucketInv'
  BY <1>1, <1>2 DEF BucketInv, Genuine, Key, Raw
<1> QED
  BY <1>3, <1>4, <1>5 DEF HandlerInv

(* The process stops: what may still arrive is what calls were uploading.  *)
LEMMA StopsKeeps ==
  ASSUME HandlerInv, HandlerStops
  PROVE  HandlerInv'
<1>1. /\ UNCHANGED <<mail, clock, now, resp, gw, target, pending, gz, objects>>
      /\ pool' = {}
      /\ late' = late \cup {Upload(c) : c \in {d \in Calls : step[d] = "ready"}}
      /\ step' = [c \in Calls |-> IF c \in Running THEN "dead" ELSE step[c]]
  BY DEF HandlerStops
<1>2. HandlerType /\ WriterInv /\ ContentInv /\ BucketInv
  BY DEF HandlerInv
<1>3. \A c \in Calls :
        \/ step[c] \in {"idle", "returned", "dead"} /\ step'[c] = step[c]
        \/ step[c] \notin {"idle", "returned", "dead"} /\ step'[c] = "dead"
  BY <1>1 DEF Running
<1>4. HandlerType'
  <2>1. step' \in [Calls -> Steps]
    BY <1>1, <1>2 DEF HandlerType, Steps
  <2> QED
    BY <1>1, <1>2, <2>1 DEF HandlerType
<1>5. WriterInv'
  BY <1>3 DEF WriterInv, HasWriter
<1>6. ContentInv'
  <2>1. \A c \in Calls : Raw(c)' = Raw(c)
    BY <1>1 DEF Raw
  <2> QED
    BY <1>1, <1>2, <1>3, <2>1 DEF ContentInv
<1>7. BucketInv'
  <2>1. \A c \in Calls : step[c] # "idle" => step'[c] # "idle" /\ now'[c] = now[c]
    BY <1>1, <1>3
  <2>2. \A c \in Calls : resp'[c] = 250 => resp[c] = 250 /\ step'[c] = "returned"
    BY <1>1, <1>2, <1>3 DEF BucketInv
  <2>3. \A up \in late' : up \in late \/ Genuine(up.key, up.content)'
    <3> SUFFICES ASSUME NEW up \in late', up \notin late
                 PROVE  Genuine(up.key, up.content)'
      OBVIOUS
    <3>1. PICK c \in Calls : step[c] = "ready" /\ up = Upload(c)
      BY <1>1
    <3>2. Genuine(up.key, up.content)
      BY <3>1, UploadGenuine
    <3> QED
      BY <1>1, <2>1, <3>2, GenuineStays
  <2> QED
    BY <1>1, <1>2, <2>1, <2>2, <2>3, BucketStays
<1> QED
  BY <1>4, <1>5, <1>6, <1>7 DEF HandlerInv

-----------------------------------------------------------------------------
(* The copy on disk.                                                       *)

(* A step of Write of an acknowledged message; the directory sync is the   *)
(* only one that touches what the disk has for other calls.                *)
LEMMA WriteKeeps ==
  ASSUME HandlerInv, CopyInv, NEW c \in Calls, WriteCopy(c)
  PROVE  CopyInv'
<1> USE DEF CopyInv, P!Running, P!Writing, P!Ended, P!Entry, P!Goto, P!SetEntry,
            P!SetContent, P!diskVars
<1>1. resp[c] = 250 /\ resp' = resp
  BY DEF WriteCopy, handlerVars, callVars
<1>2. P!Write(c)
  BY DEF WriteCopy
<1>3. CASE P!CreateTemp(c)
  BY <1>1, <1>3 DEF P!CreateTemp
<1>4. CASE P!CreateTempFails(c)
  BY <1>1, <1>4 DEF P!CreateTempFails
<1>5. CASE P!WriteEnvelope(c)
  BY <1>1, <1>5 DEF P!WriteEnvelope
<1>6. CASE P!WriteBody(c)
  BY <1>1, <1>6 DEF P!WriteBody
<1>7. CASE P!Sync(c)
  BY <1>1, <1>7 DEF P!Sync
<1>8. CASE P!CloseFile(c)
  BY <1>1, <1>8 DEF P!CloseFile
<1>9. CASE P!Rename(c)
  BY <1>1, <1>9 DEF P!Rename
<1>10. CASE P!SyncDir(c)
  BY <1>1, <1>10 DEF P!SyncDir
<1>11. CASE P!Fail(c)
  BY <1>1, <1>11 DEF P!Fail
<1> QED
  BY <1>2, <1>3, <1>4, <1>5, <1>6, <1>7, <1>8, <1>9, <1>10, <1>11 DEF P!Write

(* The calls that have not answered 250 have nothing on disk to lose.      *)
LEMMA StopKeepsCopies ==
  ASSUME CopyInv, Stop
  PROVE  CopyInv'
<1> USE DEF CopyInv, P!Running, P!Writing, P!Ended, P!Entry
<1>1. resp' = resp
  BY DEF Stop, HandlerStops
<1>2. CASE P!Crash
  BY <1>1, <1>2 DEF P!Crash, P!Stopped, P!diskVars
<1>3. CASE P!PowerLoss
  BY <1>1, <1>3 DEF P!PowerLoss, P!Stopped
<1>4. CASE UNCHANGED copyVars
  BY <1>1, <1>4 DEF copyVars
<1> QED
  BY <1>2, <1>3, <1>4 DEF Stop

(* An answer that is not 250 stays so for a call that has returned, and an *)
(* answer of 250 is final: a copy that is there stays of such a call.      *)
LEMMA CopiesStay ==
  ASSUME CopyInv, UNCHANGED copyVars, \A c \in Calls : resp[c] = 250 => resp'[c] = 250
  PROVE  CopyInv'
BY DEF CopyInv, copyVars, P!Running, P!Writing, P!Ended, P!Entry

LEMMA AnswersStay ==
  ASSUME HandlerInv, NEW c \in Calls, Data(c)
  PROVE  \A d \in Calls : resp[d] = 250 => resp'[d] = 250
<1>1. /\ \A d \in Calls : resp[d] = 250 => step[d] = "returned"
      /\ resp \in [Calls -> {0, 250, 451}]
  BY DEF HandlerInv, BucketInv, HandlerType
<1>2. \/ resp' = resp
      \/ step[c] = "ready" /\ \E code : resp' = [resp EXCEPT ![c] = code]
  BY ZenonT(30) DEF Data, Get, Copy, Close, Put, PutObject, PutObjectFails, Return
<1> QED
  BY <1>1, <1>2

-----------------------------------------------------------------------------

LEMMA StutterKeeps ==
  ASSUME HandlerInv, UNCHANGED handlerVars
  PROVE  HandlerInv'
<1>1. UNCHANGED <<mail, clock, step, now, resp, pool, gw, target, pending, gz,
                  late, objects>>
  BY DEF handlerVars, callVars, gzipVars, bucketVars
<1>2. HandlerType' /\ WriterInv'
  BY <1>1 DEF HandlerInv, HandlerType, WriterInv, HasWriter
<1>3. ContentInv' /\ BucketInv'
  BY <1>1 DEF HandlerInv, ContentInv, BucketInv, Genuine, Key, Raw
<1> QED
  BY <1>2, <1>3 DEF HandlerInv

LEMMA DataKeeps ==
  ASSUME HandlerInv, NEW c \in Calls, Data(c)
  PROVE  HandlerInv'
BY GetKeeps, CopyKeeps, CloseKeeps, PutKeeps, PutObjectKeeps, PutObjectFailsKeeps
   DEF Data

LEMMA StepKeeps == IInv /\ [Next]_vars => IInv'
<1> SUFFICES ASSUME IInv, [Next]_vars PROVE IInv'
  OBVIOUS
<1>0. HandlerInv /\ CopyInv
  BY DEF IInv
<1>1. ASSUME NEW c \in Calls, HandleData(c) PROVE IInv'
  <2>1. Data(c) /\ UNCHANGED copyVars
    BY <1>1 DEF HandleData
  <2>2. HandlerInv'
    BY <1>0, <2>1, DataKeeps
  <2>3. CopyInv'
    BY <1>0, <2>1, AnswersStay, CopiesStay
  <2> QED
    BY <2>2, <2>3 DEF IInv
<1>2. ASSUME NEW c \in Calls, WriteCopy(c) PROVE IInv'
  <2>1. HandlerInv'
    BY <1>0, <1>2, StutterKeeps DEF WriteCopy
  <2>2. CopyInv'
    BY <1>0, <1>2, WriteKeeps
  <2> QED
    BY <2>1, <2>2 DEF IInv
<1>3. ASSUME World PROVE IInv'
  <2>1. (Arrive \/ Tick) /\ UNCHANGED copyVars
    BY <1>3 DEF World
  <2>2. HandlerInv'
    BY <1>0, <2>1, ArriveKeeps, TickKeeps
  <2>3. resp' = resp
    BY <2>1 DEF Arrive, Tick, callVars
  <2>4. CopyInv'
    BY <1>0, <2>1, <2>3, CopiesStay
  <2> QED
    BY <2>2, <2>4 DEF IInv
<1>4. ASSUME Stop PROVE IInv'
  <2>1. HandlerInv'
    BY <1>0, <1>4, StopsKeeps DEF Stop
  <2>2. CopyInv'
    BY <1>0, <1>4, StopKeepsCopies
  <2> QED
    BY <2>1, <2>2 DEF IInv
<1>5. CASE UNCHANGED vars
  <2>1. UNCHANGED handlerVars /\ UNCHANGED copyVars /\ resp' = resp
    BY <1>5 DEF vars, handlerVars, callVars
  <2> QED
    BY <1>0, <2>1, StutterKeeps, CopiesStay DEF IInv
<1> QED
  BY <1>1, <1>2, <1>3, <1>4, <1>5 DEF Next

LEMMA InvHolds == Spec => []IInv
<1> QED
  BY InitHolds, StepKeeps, PTL DEF Spec

LEMMA AckedFollows == IInv => AckedIsStored
<1> SUFFICES ASSUME IInv, NEW c \in Calls, resp[c] = 250, ~Clash(c)
             PROVE  InBucket(mail[c])
  BY DEF AckedIsStored
<1>1. /\ Key(c) \in DOMAIN objects /\ Genuine(Key(c), objects[Key(c)])
      /\ now \in [Calls -> 0 .. LastSecond]
  BY DEF IInv, HandlerInv, HandlerType, BucketInv
<1>2. PICK d \in Calls : /\ step[d] # "idle" /\ Key(c) = Key(d)
                         /\ objects[Key(c)] = <<Raw(d)>>
  BY <1>1 DEF Genuine
<1>3. mail[d] = mail[c]
  BY <1>2 DEF Clash, Key
<1>4. <<[mail |-> mail[c], time |-> now[d]]>> \in Stored
  BY <1>1, <1>2, <1>3 DEF Stored, Raw
<1> QED
  BY <1>1, <1>4 DEF InBucket

(* Every call of Handler.Data that has answered 250 has its message in the *)
(* bucket, as long as the server runs and after every stop, unless another *)
(* message of its second shares the four bytes of its hash, whatever the   *)
(* hash is: the S3 handler's "each accepted message is stored as a single  *)
(* S3 object".  Without the exception it does not hold.                    *)
THEOREM AckedIsStoredCorrect == Spec => []AckedIsStored
<1> QED
  BY InvHolds, AckedFollows, PTL

(* Calls that share the pool of gzip writers never mix their messages:     *)
(* every object in the bucket is one whole message.                        *)
THEOREM NeverMixedCorrect == Spec => []NeverMixed
<1>1. IInv => NeverMixed
  BY DEF IInv, HandlerInv, BucketInv, Genuine, NeverMixed, Stored
<1> QED
  BY <1>1, InvHolds, PTL

(* A copy on disk, complete or not, is of a message the bucket has, or had *)
(* before another clashed with it: the session writes no copy unless the   *)
(* handler has answered 250.                                               *)
THEOREM CopyIsStoredCorrect == Spec => []CopyIsStored
<1>1. IInv => CopyIsStored
  BY AckedFollows DEF IInv, CopyInv, CopyIsStored, AckedIsStored
<1> QED
  BY <1>1, InvHolds, PTL

-----------------------------------------------------------------------------
(* The copies on disk are written as module Postcat writes them: what is   *)
(* proved of it holds of the composition.                                  *)

Copies == INSTANCE PostcatProofs WITH Writers <- Calls

LEMMA CopiesBegin == Init => Copies!Init
BY DEF Init, P!Init, Copies!Init

LEMMA CopiesWrite ==
  ASSUME NEW c \in Calls, P!Write(c)
  PROVE  Copies!Write(c)
BY DEF P!Write, P!CreateTemp, P!CreateTempFails, P!WriteEnvelope, P!WriteBody,
       P!Sync, P!CloseFile, P!Rename, P!SyncDir, P!Fail, P!Goto, P!SetEntry,
       P!SetContent, P!diskVars, P!Writing,
       Copies!Write, Copies!CreateTemp, Copies!CreateTempFails,
       Copies!WriteEnvelope, Copies!WriteBody, Copies!Sync, Copies!CloseFile,
       Copies!Rename, Copies!SyncDir, Copies!Fail, Copies!Goto,
       Copies!SetEntry, Copies!SetContent, Copies!diskVars, Copies!Writing

LEMMA CopiesStop ==
  ASSUME Stop
  PROVE  Copies!Crash \/ Copies!PowerLoss \/ UNCHANGED copyVars
BY DEF Stop, P!Crash, P!PowerLoss, P!Stopped, P!diskVars, P!Running, P!Writing,
       P!Entry, P!Content, Copies!Crash, Copies!PowerLoss, Copies!Stopped,
       Copies!diskVars, Copies!Running, Copies!Writing, Copies!Entry,
       Copies!Content

LEMMA CopiesStep == [Next]_vars => [Copies!Next]_(Copies!vars)
<1> SUFFICES ASSUME [Next]_vars PROVE Copies!Next \/ UNCHANGED Copies!vars
  OBVIOUS
<1>1. UNCHANGED copyVars => UNCHANGED Copies!vars
  BY DEF copyVars, Copies!vars, Copies!diskVars
<1>2. ASSUME NEW c \in Calls, WriteCopy(c) PROVE Copies!Next
  BY <1>2, CopiesWrite DEF WriteCopy, Copies!Next
<1>3. CASE Stop
  BY <1>1, <1>3, CopiesStop DEF Copies!Next
<1>4. CASE (\E c \in Calls : HandleData(c)) \/ World \/ UNCHANGED vars
  BY <1>1, <1>4 DEF HandleData, World, vars
<1> QED
  BY <1>2, <1>3, <1>4 DEF Next

(* With the handler in front, the copies are still those of Postcat.       *)
THEOREM CopiesImplementPostcat == Spec => Copies!Spec
BY CopiesBegin, CopiesStep, PTL DEF Spec, Copies!Spec

(* Every variable of the handler and of the copies stays in its type, and  *)
(* no writer is in the pool while a call holds it.                         *)
THEOREM TypeCorrect == Spec => []TypeOK
<1>1. IInv /\ Copies!TypeOK => TypeOK
  <2> SUFFICES ASSUME IInv, Copies!TypeOK PROVE TypeOK
    OBVIOUS
  <2>1. HandlerType /\ WriterInv
    BY DEF IInv, HandlerInv
  <2>2. P!TypeOK
    BY DEF Copies!TypeOK, P!TypeOK, Copies!Entry, P!Entry, Copies!Content,
           P!Content, Copies!Running, P!Running, Copies!Writing, P!Writing,
           Copies!Ended, P!Ended
  <2>3. pool \cap Held = {}
    BY <2>1 DEF WriterInv, HasWriter, Held
  <2> QED
    BY <2>1, <2>2, <2>3 DEF TypeOK, HandlerType, Steps
<1> QED
  BY <1>1, InvHolds, CopiesImplementPostcat, Copies!TypeCorrect, PTL

(* The copies keep the promises of Postcat when the handler's answers      *)
(* decide which are written and both stop together: a reader finds a whole *)
(* message or none, what a directory sync covered stays, and error paths   *)
(* clean up.                                                               *)
THEOREM CopiesKeepPromises ==
  Spec => [](P!WholeOrNothing /\ P!Durable /\ P!NoLitter)
<1>1. Copies!WholeOrNothing /\ Copies!Durable /\ Copies!NoLitter =>
        P!WholeOrNothing /\ P!Durable /\ P!NoLitter
  BY DEF Copies!WholeOrNothing, P!WholeOrNothing, Copies!Durable, P!Durable,
         Copies!NoLitter, P!NoLitter, Copies!Writing, P!Writing
<1> QED
  BY <1>1, CopiesImplementPostcat, Copies!WholeOrNothingCorrect,
     Copies!DurableCorrect, Copies!NoLitterCorrect, PTL

==============================================================================
