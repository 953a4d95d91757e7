------------------------------- MODULE Postcat -------------------------------
(***************************************************************************)
(* postcat.Write of src/internal/postcat/postcat.go: the copy of a message *)
(* a session writes after the handler accepted it (Server.writePostcat).   *)
(* Any number of sessions write at once, each call can fail at each step,  *)
(* the process can die and the machine can lose power between any two      *)
(* steps, and the server starts again on the same directory.               *)
(*                                                                         *)
(* The file system is modelled as POSIX promises it: what processes see is *)
(* the cache (entry, content), and a power loss leaves any of the states   *)
(* the cache went through since the last sync (entries, contents).  A sync *)
(* of a file says nothing of its directory entry, and a rename is atomic   *)
(* in the cache and on disk.  Each call has names of its own: time and     *)
(* random bytes are taken not to collide, and O_EXCL keeps temporary names *)
(* apart.                                                                  *)
(***************************************************************************)
CONSTANT
  Writers \* bound: the calls of Write, by all runs of the server

VARIABLES
  dirSync,  \* the file system can sync a directory
  pc,       \* how far each call of Write is
  entry,    \* the name its file has: "none", "temp" or "final"
  entries,  \* the names the disk may have for it after a power loss
  content,  \* what is in the file
  contents, \* what the disk may have of it after a power loss
  kept,     \* history: calls that returned after the directory was synced
  lost      \* history: calls that began before a power loss

diskVars == <<entries, contents>>
vars == <<dirSync, pc, entry, content, diskVars, kept, lost>>

Entry == {"none", "temp", "final"}

(* A write that stopped half-way counts as the content before it. *)
Content == {"empty", "envelope", "whole"}

Writing == {"created", "headed", "written", "synced", "closed"}
Running == Writing \cup {"renamed"}
Ended == {"stored", "failed", "littered", "dead"}

TypeOK ==
  /\ dirSync \in BOOLEAN
  /\ pc \in [Writers -> {"idle"} \cup Running \cup Ended]
  /\ entry \in [Writers -> Entry]
  /\ entries \in [Writers -> SUBSET Entry]
  /\ content \in [Writers -> Content]
  /\ contents \in [Writers -> SUBSET Content]
  /\ kept \in SUBSET Writers
  /\ lost \in SUBSET Writers

-----------------------------------------------------------------------------
(* The calls on the file system Write is made of.                          *)

Goto(w, to) == pc' = [pc EXCEPT ![w] = to]

SetEntry(w, e) ==
  /\ entry' = [entry EXCEPT ![w] = e]
  /\ entries' = [entries EXCEPT ![w] = @ \cup {e}]

SetContent(w, c) ==
  /\ content' = [content EXCEPT ![w] = c]
  /\ contents' = [contents EXCEPT ![w] = @ \cup {c}]

(* os.CreateTemp makes an empty file under a hidden name.                  *)
CreateTemp(w) ==
  /\ pc[w] = "idle"
  /\ Goto(w, "created")
  /\ SetEntry(w, "temp")
  /\ UNCHANGED <<dirSync, content, contents, kept, lost>>

CreateTempFails(w) ==
  /\ pc[w] = "idle"
  /\ Goto(w, "failed")
  /\ UNCHANGED <<dirSync, entry, content, diskVars, kept, lost>>

(* Mutant: the body is written again over what a first try left. *)
WriteBodyTwice(w) ==
  /\ pc[w] = "headed"
  /\ Goto(w, "written")
  /\ SetContent(w, "doubled")
  /\ UNCHANGED <<dirSync, entry, entries, kept, lost>>

WriteEnvelope(w) ==
  /\ pc[w] = "created"
  /\ Goto(w, "headed")
  /\ SetContent(w, "envelope")
  /\ UNCHANGED <<dirSync, entry, entries, kept, lost>>

WriteBody(w) ==
  /\ pc[w] = "headed"
  /\ Goto(w, "written")
  /\ SetContent(w, "whole")
  /\ UNCHANGED <<dirSync, entry, entries, kept, lost>>

(* Mutant: without the sync of the file. *)
SyncSkipped(w) ==
  /\ pc[w] = "written"
  /\ Goto(w, "synced")
  /\ UNCHANGED <<dirSync, entry, content, diskVars, kept, lost>>

(* f.Sync: the disk has the content and none of its earlier states.        *)
Sync(w) ==
  /\ pc[w] = "written"
  /\ Goto(w, "synced")
  /\ contents' = [contents EXCEPT ![w] = {content[w]}]
  /\ UNCHANGED <<dirSync, entry, entries, content, kept, lost>>

CloseFile(w) ==
  /\ pc[w] = "synced"
  /\ Goto(w, "closed")
  /\ UNCHANGED <<dirSync, entry, content, diskVars, kept, lost>>

Rename(w) ==
  /\ pc[w] = "closed"
  /\ Goto(w, "renamed")
  /\ SetEntry(w, "final")
  /\ UNCHANGED <<dirSync, content, contents, kept, lost>>

(* Mutant: the file is synced again, and not its directory. *)
SyncDirSyncsFile(w) ==
  /\ pc[w] = "renamed"
  /\ Goto(w, "stored")
  /\ kept' = IF dirSync THEN kept \cup {w} ELSE kept
  /\ UNCHANGED <<dirSync, entry, content, diskVars, lost>>

(* Mutant: the error of the directory sync is returned. *)
SyncDirReports(w) ==
  /\ pc[w] = "renamed"
  /\ \/ /\ dirSync
        /\ Goto(w, "stored")
        /\ entries' = [v \in Writers |-> {entry[v]}]
        /\ kept' = kept \cup {w}
     \/ Goto(w, "failed") /\ UNCHANGED <<entries, kept>>
  /\ UNCHANGED <<dirSync, entry, content, contents, lost>>

(* syncDir and the return.  A sync makes every entry of the directory      *)
(* final; where the directory does not open or does not sync, the error is *)
(* ignored and the call returns the same.                                  *)
SyncDir(w) ==
  /\ pc[w] = "renamed"
  /\ Goto(w, "stored")
  /\ \/ /\ dirSync
        /\ entries' = [v \in Writers |-> {entry[v]}]
        /\ kept' = kept \cup {w}
     \/ UNCHANGED <<entries, kept>>
  /\ UNCHANGED <<dirSync, entry, content, contents, lost>>

(* Mutant: an error path without the deferred cleanup. *)
FailKeepsTemp(w) ==
  /\ pc[w] \in Writing
  /\ Goto(w, "failed")
  /\ UNCHANGED <<dirSync, entry, content, diskVars, kept, lost>>

(* A step before the rename, or the rename, returns an error: the deferred *)
(* cleanup closes and removes the file.  The error of the removal is       *)
(* ignored too.                                                            *)
Fail(w) ==
  /\ pc[w] \in Writing
  /\ \/ Goto(w, "failed") /\ SetEntry(w, "none")
     \/ Goto(w, "littered") /\ UNCHANGED <<entry, entries>>
  /\ UNCHANGED <<dirSync, content, contents, kept, lost>>

-----------------------------------------------------------------------------
(* The environment.                                                        *)

(* What is left of the calls when the process or the machine stops.        *)
Stopped == [w \in Writers |-> IF pc[w] \in Running THEN "dead" ELSE pc[w]]

(* The process dies, or exits over its sessions (module Program).  No      *)
(* deferred cleanup runs; what the kernel has stays.                       *)
Crash ==
  /\ \E w \in Writers : pc[w] \in Running
  /\ pc' = Stopped
  /\ UNCHANGED <<dirSync, entry, content, diskVars, kept, lost>>

PowerLoss ==
  /\ entry' \in [Writers -> Entry]
  /\ content' \in [Writers -> Content]
  /\ \A w \in Writers : entry'[w] \in entries[w] /\ content'[w] \in contents[w]
  /\ entries' = [w \in Writers |-> {entry'[w]}]
  /\ contents' = [w \in Writers |-> {content'[w]}]
  /\ pc' = Stopped
  /\ lost' = lost \cup {w \in Writers : pc[w] # "idle"}
  /\ UNCHANGED <<dirSync, kept>>

-----------------------------------------------------------------------------

Init ==
  /\ dirSync \in BOOLEAN
  /\ pc = [w \in Writers |-> "idle"]
  /\ entry = [w \in Writers |-> "none"]
  /\ entries = [w \in Writers |-> {"none"}]
  /\ content = [w \in Writers |-> "empty"]
  /\ contents = [w \in Writers |-> {"empty"}]
  /\ kept = {} /\ lost = {}

Write(w) ==
  \/ CreateTemp(w)
  \/ CreateTempFails(w)
  \/ WriteEnvelope(w)
  \/ WriteBody(w)
  \/ Sync(w)
  \/ CloseFile(w)
  \/ Rename(w)
  \/ SyncDir(w)
  \/ Fail(w)

Next ==
  \/ \E w \in Writers : Write(w)
  \/ Crash
  \/ PowerLoss

Spec == Init /\ [][Next]_vars

-----------------------------------------------------------------------------

(* "A reader sees the completed file or nothing" (docs/postcat.md): under  *)
(* its final name a file holds the whole message, while other calls run    *)
(* and after every crash and power loss.  It needs the sync of the file    *)
(* to come before the rename.                                              *)
WholeOrNothing == \A w \in Writers : entry[w] = "final" => content[w] = "whole"

(* Once Write returned and its directory was synced, the message is in     *)
(* place, whole, whatever fails later: "a power loss can still lose the    *)
(* file" only "on a filesystem without directory sync" (Write).            *)
Durable == \A w \in kept : entry[w] = "final" /\ content[w] = "whole"

(* "Every error path closes the temporary file and removes it" (Write): a  *)
(* temporary file is one of a running call, of a call the process did not  *)
(* live to end, or of one whose removal failed.  A power loss can bring a  *)
(* removed one back.                                                       *)
NoLitter ==
  \A w \in Writers : entry[w] = "temp" =>
    pc[w] \in Writing \cup {"dead", "littered"} \/ w \in lost

(* The directory is a MailStore.  Neither a crash nor any of the steps     *)
(* before the rename shows.                                                *)
Visible == {w \in Writers : entry[w] = "final"}
Safe == {w \in Writers : entries[w] = {"final"}}

Outcome(w) ==
  CASE pc[w] = "stored" -> "ok"
    [] pc[w] \in {"failed", "littered"} -> "error"
    [] OTHER -> "none"

Result == [w \in Writers |-> Outcome(w)]

Store == INSTANCE MailStore WITH
           visible <- Visible, safe <- Safe, result <- Result

(* "The rename is atomic: a reader sees the completed file or nothing"     *)
(* (docs/postcat.md): a message appears at one moment, Write reports       *)
(* success for a message in place and an error for one that never appears, *)
(* and a power loss takes back only what no directory sync covered.        *)
Implements == Store!Spec

==============================================================================
