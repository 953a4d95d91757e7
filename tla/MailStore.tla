------------------------------ MODULE MailStore ------------------------------
(***************************************************************************)
(* What a directory of stored messages promises: a message appears whole   *)
(* and at one moment, a call that fails leaves nothing, a call that        *)
(* succeeds leaves the message, and what is safe survives a power loss.    *)
(* Module Postcat is shown to implement it.                                *)
(***************************************************************************)
CONSTANT Writers

VARIABLES
  visible, \* messages a reader of the directory finds, each complete
  safe,    \* messages no power loss can take away
  result   \* what each call of Write returned: "none" yet, "ok" or "error"

vars == <<visible, safe, result>>

(* A message becomes visible before its call returns. *)
Appear(w) ==
  /\ result[w] = "none"
  /\ visible' = visible \cup {w}
  /\ UNCHANGED <<safe, result>>

(* Success is for a visible message only; it may flush the directory. *)
Succeed(w) ==
  /\ result[w] = "none" /\ w \in visible
  /\ safe' \in {safe, visible}
  /\ result' = [result EXCEPT ![w] = "ok"]
  /\ UNCHANGED visible

Fail(w) ==
  /\ result[w] = "none" /\ w \notin visible
  /\ result' = [result EXCEPT ![w] = "error"]
  /\ UNCHANGED <<visible, safe>>

(* What a power loss leaves is on disk, and so is safe from the next one. *)
PowerLoss ==
  /\ visible' \in SUBSET visible
  /\ safe \subseteq visible'
  /\ safe' = visible'
  /\ UNCHANGED result

Init ==
  /\ visible = {} /\ safe = {}
  /\ result = [w \in Writers |-> "none"]

Next ==
  \/ \E w \in Writers : Appear(w) \/ Succeed(w) \/ Fail(w)
  \/ PowerLoss

Spec == Init /\ [][Next]_vars

==============================================================================
