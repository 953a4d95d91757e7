---------------------------- MODULE PostcatProofs ----------------------------
(***************************************************************************)
(* Proofs about Postcat, for any set of calls: what a reader finds is      *)
(* whole, what was synced stays, error paths clean up, and the directory   *)
(* implements MailStore.                                                   *)
(***************************************************************************)
EXTENDS Postcat, TLAPS

(* The cache is one of the states the disk may have, and a disk that may   *)
(* have the final name belongs to a file that was renamed.                 *)
DiskInv ==
  \A w \in Writers :
    /\ entry[w] \in entries[w]
    /\ "final" \in entries[w] => entry[w] = "final"

(* From the sync of the file on, and under its final name, the content is  *)
(* whole in the cache and in every state of the disk.                      *)
ContentInv ==
  \A w \in Writers :
    /\ pc[w] = "written" => content[w] = "whole"
    /\ pc[w] \in {"synced", "closed", "renamed"} \/ entry[w] = "final" =>
         content[w] = "whole" /\ contents[w] = {"whole"}

(* Where each call is says what name its file has. *)
PlaceInv ==
  \A w \in Writers :
    /\ pc[w] = "idle" => entry[w] = "none" /\ entries[w] = {"none"}
    /\ pc[w] \in Writing => entry[w] = "temp"
    /\ pc[w] = "renamed" => entry[w] = "final"
    /\ pc[w] = "stored" /\ w \notin lost => entry[w] = "final"
    /\ pc[w] = "failed" => entry[w] # "final"
    /\ pc[w] = "littered" => entry[w] # "final"
    /\ pc[w] = "failed" /\ w \notin lost => entry[w] = "none"

KeptInv == \A w \in kept : pc[w] = "stored" /\ entries[w] = {"final"}

IInv == TypeOK /\ DiskInv /\ ContentInv /\ PlaceInv /\ KeptInv

-----------------------------------------------------------------------------

LEMMA InitInv == Init => IInv
BY DEF Init, IInv, TypeOK, DiskInv, ContentInv, PlaceInv, KeptInv,
       Entry, Content, Writing, Running, Ended

(* Each step of Write and of the environment keeps the invariant. *)
LEMMA StepInv == IInv /\ [Next]_vars => IInv'
<1>. SUFFICES ASSUME IInv, [Next]_vars PROVE IInv'
  OBVIOUS
<1>. USE DEF Entry, Content, Writing, Running, Ended, diskVars
<1>1. ASSUME NEW w \in Writers, Write(w) PROVE IInv'
  <2>1. CASE CreateTemp(w)
    <3>1. TypeOK'
      BY <2>1 DEF IInv, TypeOK, CreateTemp, Goto, SetEntry
    <3>2. DiskInv'
      BY <2>1 DEF IInv, TypeOK, DiskInv, PlaceInv, CreateTemp, Goto, SetEntry
    <3>3. ContentInv'
      BY <2>1 DEF IInv, TypeOK, DiskInv, ContentInv, PlaceInv, CreateTemp,
                  Goto, SetEntry
    <3>4. PlaceInv'
      BY <2>1 DEF IInv, TypeOK, DiskInv, PlaceInv, CreateTemp, Goto, SetEntry
    <3>5. KeptInv'
      BY <2>1 DEF IInv, TypeOK, DiskInv, PlaceInv, KeptInv, CreateTemp, Goto,
                  SetEntry
    <3>. QED
      BY <3>1, <3>2, <3>3, <3>4, <3>5 DEF IInv
  <2>2. CASE CreateTempFails(w)
    <3>1. TypeOK'
      BY <2>2 DEF IInv, TypeOK, CreateTempFails, Goto
    <3>2. DiskInv'
      BY <2>2 DEF IInv, TypeOK, DiskInv, PlaceInv, CreateTempFails, Goto
    <3>3. ContentInv'
      BY <2>2 DEF IInv, TypeOK, DiskInv, ContentInv, PlaceInv,
                  CreateTempFails, Goto
    <3>4. PlaceInv'
      BY <2>2 DEF IInv, TypeOK, DiskInv, PlaceInv, CreateTempFails, Goto
    <3>5. KeptInv'
      BY <2>2 DEF IInv, TypeOK, DiskInv, PlaceInv, KeptInv, CreateTempFails,
                  Goto
    <3>. QED
      BY <3>1, <3>2, <3>3, <3>4, <3>5 DEF IInv
  <2>3. CASE WriteEnvelope(w)
    <3>1. TypeOK'
      BY <2>3 DEF IInv, TypeOK, WriteEnvelope, Goto, SetContent
    <3>2. DiskInv'
      BY <2>3 DEF IInv, TypeOK, DiskInv, PlaceInv, WriteEnvelope, Goto,
                  SetContent
    <3>3. ContentInv'
      BY <2>3 DEF IInv, TypeOK, DiskInv, ContentInv, PlaceInv, WriteEnvelope,
                  Goto, SetContent
    <3>4. PlaceInv'
      BY <2>3 DEF IInv, TypeOK, DiskInv, PlaceInv, WriteEnvelope, Goto,
                  SetContent
    <3>5. KeptInv'
      BY <2>3 DEF IInv, TypeOK, DiskInv, PlaceInv, KeptInv, WriteEnvelope,
                  Goto, SetContent
    <3>. QED
      BY <3>1, <3>2, <3>3, <3>4, <3>5 DEF IInv
  <2>4. CASE WriteBody(w)
    <3>1. TypeOK'
      BY <2>4 DEF IInv, TypeOK, WriteBody, Goto, SetContent
    <3>2. DiskInv'
      BY <2>4 DEF IInv, TypeOK, DiskInv, PlaceInv, WriteBody, Goto, SetContent
    <3>3. ContentInv'
      BY <2>4 DEF IInv, TypeOK, DiskInv, ContentInv, PlaceInv, WriteBody,
                  Goto, SetContent
    <3>4. PlaceInv'
      BY <2>4 DEF IInv, TypeOK, DiskInv, PlaceInv, WriteBody, Goto, SetContent
    <3>5. KeptInv'
      BY <2>4 DEF IInv, TypeOK, DiskInv, PlaceInv, KeptInv, WriteBody, Goto,
                  SetContent
    <3>. QED
      BY <3>1, <3>2, <3>3, <3>4, <3>5 DEF IInv
  <2>5. CASE Sync(w)
    <3>1. TypeOK'
      BY <2>5 DEF IInv, TypeOK, Sync, Goto
    <3>2. DiskInv'
      BY <2>5 DEF IInv, TypeOK, DiskInv, PlaceInv, Sync, Goto
    <3>3. ContentInv'
      BY <2>5 DEF IInv, TypeOK, DiskInv, ContentInv, PlaceInv, Sync, Goto
    <3>4. PlaceInv'
      BY <2>5 DEF IInv, TypeOK, DiskInv, PlaceInv, Sync, Goto
    <3>5. KeptInv'
      BY <2>5 DEF IInv, TypeOK, DiskInv, PlaceInv, KeptInv, Sync, Goto
    <3>. QED
      BY <3>1, <3>2, <3>3, <3>4, <3>5 DEF IInv
  <2>6. CASE CloseFile(w)
    <3>1. TypeOK'
      BY <2>6 DEF IInv, TypeOK, CloseFile, Goto
    <3>2. DiskInv'
      BY <2>6 DEF IInv, TypeOK, DiskInv, PlaceInv, CloseFile, Goto
    <3>3. ContentInv'
      BY <2>6 DEF IInv, TypeOK, DiskInv, ContentInv, PlaceInv, CloseFile, Goto
    <3>4. PlaceInv'
      BY <2>6 DEF IInv, TypeOK, DiskInv, PlaceInv, CloseFile, Goto
    <3>5. KeptInv'
      BY <2>6 DEF IInv, TypeOK, DiskInv, PlaceInv, KeptInv, CloseFile, Goto
    <3>. QED
      BY <3>1, <3>2, <3>3, <3>4, <3>5 DEF IInv
  <2>7. CASE Rename(w)
    <3>1. TypeOK'
      BY <2>7 DEF IInv, TypeOK, Rename, Goto, SetEntry
    <3>2. DiskInv'
      BY <2>7 DEF IInv, TypeOK, DiskInv, PlaceInv, Rename, Goto, SetEntry
    <3>3. ContentInv'
      BY <2>7 DEF IInv, TypeOK, DiskInv, ContentInv, PlaceInv, Rename, Goto,
                  SetEntry
    <3>4. PlaceInv'
      BY <2>7 DEF IInv, TypeOK, DiskInv, PlaceInv, Rename, Goto, SetEntry
    <3>5. KeptInv'
      BY <2>7 DEF IInv, TypeOK, DiskInv, PlaceInv, KeptInv, Rename, Goto,
                  SetEntry
    <3>. QED
      BY <3>1, <3>2, <3>3, <3>4, <3>5 DEF IInv
  <2>8. CASE SyncDir(w)
    <3>1. TypeOK'
      BY <2>8 DEF IInv, TypeOK, SyncDir, Goto
    <3>2. DiskInv'
      BY <2>8 DEF IInv, TypeOK, DiskInv, PlaceInv, SyncDir, Goto
    <3>3. ContentInv'
      BY <2>8 DEF IInv, TypeOK, DiskInv, ContentInv, PlaceInv, SyncDir, Goto
    <3>4. PlaceInv'
      BY <2>8 DEF IInv, TypeOK, DiskInv, PlaceInv, SyncDir, Goto
    <3>5. KeptInv'
      BY <2>8 DEF IInv, TypeOK, DiskInv, PlaceInv, KeptInv, SyncDir, Goto
    <3>. QED
      BY <3>1, <3>2, <3>3, <3>4, <3>5 DEF IInv
  <2>9. CASE Fail(w)
    <3>1. TypeOK'
      BY <2>9 DEF IInv, TypeOK, Fail, Goto, SetEntry
    <3>2. DiskInv'
      BY <2>9 DEF IInv, TypeOK, DiskInv, PlaceInv, Fail, Goto, SetEntry
    <3>3. ContentInv'
      BY <2>9 DEF IInv, TypeOK, DiskInv, ContentInv, PlaceInv, Fail, Goto,
                  SetEntry
    <3>4. PlaceInv'
      BY <2>9 DEF IInv, TypeOK, DiskInv, PlaceInv, Fail, Goto, SetEntry
    <3>5. KeptInv'
      BY <2>9 DEF IInv, TypeOK, DiskInv, PlaceInv, KeptInv, Fail, Goto,
                  SetEntry
    <3>. QED
      BY <3>1, <3>2, <3>3, <3>4, <3>5 DEF IInv
  <2>. QED
    BY <1>1, <2>1, <2>2, <2>3, <2>4, <2>5, <2>6, <2>7, <2>8, <2>9 DEF Write
<1>2. CASE Crash
  <2>1. TypeOK'
    BY <1>2 DEF IInv, TypeOK, Crash, Stopped
  <2>2. DiskInv'
    BY <1>2 DEF IInv, TypeOK, DiskInv, PlaceInv, Crash, Stopped
  <2>3. ContentInv'
    BY <1>2 DEF IInv, TypeOK, DiskInv, ContentInv, PlaceInv, Crash, Stopped
  <2>4. PlaceInv'
    BY <1>2 DEF IInv, TypeOK, DiskInv, PlaceInv, Crash, Stopped
  <2>5. KeptInv'
    BY <1>2 DEF IInv, TypeOK, DiskInv, PlaceInv, KeptInv, Crash, Stopped
  <2>. QED
    BY <2>1, <2>2, <2>3, <2>4, <2>5 DEF IInv
<1>3. CASE PowerLoss
  <2>1. TypeOK'
    BY <1>3 DEF IInv, TypeOK, PowerLoss, Stopped
  <2>2. DiskInv'
    BY <1>3 DEF IInv, TypeOK, DiskInv, PlaceInv, PowerLoss, Stopped
  <2>3. ContentInv'
    BY <1>3 DEF IInv, TypeOK, DiskInv, ContentInv, PlaceInv, PowerLoss, Stopped
  <2>4. PlaceInv'
    BY <1>3 DEF IInv, TypeOK, DiskInv, PlaceInv, PowerLoss, Stopped
  <2>5. KeptInv'
    BY <1>3 DEF IInv, TypeOK, DiskInv, PlaceInv, KeptInv, PowerLoss, Stopped
  <2>. QED
    BY <2>1, <2>2, <2>3, <2>4, <2>5 DEF IInv
<1>4. CASE UNCHANGED vars
  BY <1>4 DEF vars, IInv, TypeOK, DiskInv, ContentInv, PlaceInv, KeptInv
<1>. QED
  BY <1>1, <1>2, <1>3, <1>4 DEF Next

THEOREM InvCorrect == Spec => []IInv
BY InitInv, StepInv, PTL DEF Spec

(* The variables keep their types. *)
THEOREM TypeCorrect == Spec => []TypeOK
<1>1. IInv => TypeOK
  BY DEF IInv
<1>. QED
  BY <1>1, InvCorrect, PTL

(* Under its final name a file is always whole, whatever fails: the sync   *)
(* of the file comes before the rename that publishes it.                  *)
THEOREM WholeOrNothingCorrect == Spec => []WholeOrNothing
<1>1. IInv => WholeOrNothing
  BY DEF IInv, ContentInv, WholeOrNothing
<1>. QED
  BY <1>1, InvCorrect, PTL

(* A message whose call returned after a directory sync is never lost. *)
THEOREM DurableCorrect == Spec => []Durable
<1>1. IInv => Durable
  BY DEF IInv, TypeOK, KeptInv, DiskInv, ContentInv, Durable
<1>. QED
  BY <1>1, InvCorrect, PTL

(* Error paths leave no temporary file, but for the cases NoLitter names. *)
THEOREM NoLitterCorrect == Spec => []NoLitter
<1>1. IInv => NoLitter
  BY DEF IInv, TypeOK, PlaceInv, NoLitter, Running, Ended, Writing
<1>. QED
  BY <1>1, InvCorrect, PTL

-----------------------------------------------------------------------------

(* An empty directory is the abstract initial state. *)
LEMMA InitStore == Init => Store!Init
BY DEF Init, Store!Init, Visible, Safe, Result, Outcome

(* A step that renames nothing, ends no call and syncs no directory is     *)
(* invisible.                                                              *)
LEMMA Invisible ==
  ASSUME Visible' = Visible, Safe' = Safe, Result' = Result
  PROVE  [Store!Next]_(Store!vars)
BY DEF Store!vars

(* Every step of Write and of the environment is a step of the store, or   *)
(* none.                                                                   *)
LEMMA StepStore == IInv /\ [Next]_vars => [Store!Next]_(Store!vars)
<1>. SUFFICES ASSUME IInv, [Next]_vars PROVE [Store!Next]_(Store!vars)
  OBVIOUS
<1>. USE DEF Entry, Content, Writing, Running, Ended, diskVars
<1>1. ASSUME NEW w \in Writers, Write(w)
      PROVE  [Store!Next]_(Store!vars)
  <2>1. CASE CreateTemp(w)
    <3>1. Visible' = Visible /\ Safe' = Safe
      BY <2>1 DEF IInv, TypeOK, DiskInv, PlaceInv, CreateTemp, Goto, SetEntry,
                  Visible, Safe
    <3>2. Result' = Result
      BY <2>1 DEF IInv, TypeOK, DiskInv, PlaceInv, CreateTemp, Goto, SetEntry,
                  Result, Outcome
    <3>. QED
      BY <3>1, <3>2, Invisible
  <2>2. CASE CreateTempFails(w)
    <3>1. Visible' = Visible /\ w \notin Visible
      BY <2>2 DEF IInv, TypeOK, DiskInv, PlaceInv, CreateTempFails, Goto,
                  Visible
    <3>2. Safe' = Safe
      BY <2>2 DEF IInv, TypeOK, DiskInv, PlaceInv, CreateTempFails, Goto, Safe
    <3>3. Result' = [Result EXCEPT ![w] = "error"] /\ Result[w] = "none"
      BY <2>2 DEF IInv, TypeOK, DiskInv, PlaceInv, CreateTempFails, Goto,
                  Result, Outcome
    <3>. QED
      BY <3>1, <3>2, <3>3 DEF Store!Next, Store!Fail
  <2>3. CASE WriteEnvelope(w)
    <3>1. Visible' = Visible /\ Safe' = Safe
      BY <2>3 DEF IInv, TypeOK, DiskInv, PlaceInv, WriteEnvelope, Goto,
                  SetContent, Visible, Safe
    <3>2. Result' = Result
      BY <2>3 DEF IInv, TypeOK, DiskInv, PlaceInv, WriteEnvelope, Goto,
                  SetContent, Result, Outcome
    <3>. QED
      BY <3>1, <3>2, Invisible
  <2>4. CASE WriteBody(w)
    <3>1. Visible' = Visible /\ Safe' = Safe
      BY <2>4 DEF IInv, TypeOK, DiskInv, PlaceInv, WriteBody, Goto,
                  SetContent, Visible, Safe
    <3>2. Result' = Result
      BY <2>4 DEF IInv, TypeOK, DiskInv, PlaceInv, WriteBody, Goto,
                  SetContent, Result, Outcome
    <3>. QED
      BY <3>1, <3>2, Invisible
  <2>5. CASE Sync(w)
    <3>1. Visible' = Visible /\ Safe' = Safe
      BY <2>5 DEF IInv, TypeOK, DiskInv, PlaceInv, Sync, Goto, Visible, Safe
    <3>2. Result' = Result
      BY <2>5 DEF IInv, TypeOK, DiskInv, PlaceInv, Sync, Goto, Result, Outcome
    <3>. QED
      BY <3>1, <3>2, Invisible
  <2>6. CASE CloseFile(w)
    <3>1. Visible' = Visible /\ Safe' = Safe
      BY <2>6 DEF IInv, TypeOK, DiskInv, PlaceInv, CloseFile, Goto, Visible,
                  Safe
    <3>2. Result' = Result
      BY <2>6 DEF IInv, TypeOK, DiskInv, PlaceInv, CloseFile, Goto, Result,
                  Outcome
    <3>. QED
      BY <3>1, <3>2, Invisible
  <2>7. CASE Rename(w)
    <3>1. Visible' = Visible \cup {w}
      BY <2>7 DEF IInv, TypeOK, DiskInv, PlaceInv, Rename, Goto, SetEntry,
                  Visible
    <3>2. Safe' = Safe
      BY <2>7 DEF IInv, TypeOK, DiskInv, PlaceInv, Rename, Goto, SetEntry, Safe
    <3>3. Result' = Result /\ Result[w] = "none"
      BY <2>7 DEF IInv, TypeOK, DiskInv, PlaceInv, Rename, Goto, SetEntry,
                  Result, Outcome
    <3>. QED
      BY <3>1, <3>2, <3>3 DEF Store!Next, Store!Appear
  <2>8. CASE SyncDir(w)
    <3>1. Visible' = Visible /\ w \in Visible
      BY <2>8 DEF IInv, TypeOK, DiskInv, PlaceInv, SyncDir, Goto, Visible
    <3>2. Safe' \in {Safe, Visible}
      BY <2>8 DEF IInv, TypeOK, DiskInv, PlaceInv, SyncDir, Goto, Safe, Visible
    <3>3. Result' = [Result EXCEPT ![w] = "ok"] /\ Result[w] = "none"
      BY <2>8 DEF IInv, TypeOK, DiskInv, PlaceInv, SyncDir, Goto, Result,
                  Outcome
    <3>. QED
      BY <3>1, <3>2, <3>3 DEF Store!Next, Store!Succeed
  <2>9. CASE Fail(w)
    <3>1. Visible' = Visible /\ w \notin Visible
      BY <2>9 DEF IInv, TypeOK, DiskInv, PlaceInv, Fail, Goto, SetEntry,
                  Visible
    <3>2. Safe' = Safe
      BY <2>9 DEF IInv, TypeOK, DiskInv, PlaceInv, Fail, Goto, SetEntry, Safe
    <3>3. /\ pc[w] \in Writing
          /\ \E to \in {"failed", "littered"} : pc' = [pc EXCEPT ![w] = to]
      BY <2>9 DEF Fail, Goto
    <3>4. Result' = [Result EXCEPT ![w] = "error"] /\ Result[w] = "none"
      BY <3>3 DEF IInv, TypeOK, Result, Outcome
    <3>. QED
      BY <3>1, <3>2, <3>4 DEF Store!Next, Store!Fail
  <2>. QED
    BY <1>1, <2>1, <2>2, <2>3, <2>4, <2>5, <2>6, <2>7, <2>8, <2>9 DEF Write
<1>2. CASE Crash
  <2>1. Visible' = Visible /\ Safe' = Safe
    BY <1>2 DEF Crash, Visible, Safe
  <2>2. Result' = Result
    BY <1>2 DEF IInv, TypeOK, DiskInv, PlaceInv, Crash, Stopped, Result,
                Outcome
  <2>. QED
    BY <2>1, <2>2, Invisible
<1>3. CASE PowerLoss
  <2>1. Visible' \in SUBSET Visible /\ Safe \subseteq Visible'
    BY <1>3 DEF IInv, TypeOK, DiskInv, PlaceInv, PowerLoss, Visible, Safe
  <2>2. Safe' = Visible'
    <3>1. \A v \in Writers : entries'[v] = {entry'[v]}
      BY <1>3 DEF PowerLoss
    <3>2. \A v \in Writers : entries'[v] = {"final"} <=> entry'[v] = "final"
      BY <3>1, Zenon
    <3>. QED
      BY <3>2 DEF Visible, Safe
  <2>3. Result' = Result
    BY <1>3 DEF IInv, TypeOK, DiskInv, PlaceInv, PowerLoss, Stopped, Result,
                Outcome
  <2>. QED
    BY <2>1, <2>2, <2>3 DEF Store!Next, Store!PowerLoss
<1>4. CASE UNCHANGED vars
  BY <1>4, Invisible DEF vars, Visible, Safe, Result, Outcome
<1>. QED
  BY <1>1, <1>2, <1>3, <1>4 DEF Next

(* The write protocol is an atomic, durable store. *)
THEOREM ImplementsCorrect == Spec => Implements
BY InvCorrect, InitStore, StepStore, PTL DEF Spec, Implements, Store!Spec

==============================================================================
