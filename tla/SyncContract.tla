---------------------------- MODULE SyncContract ----------------------------
(***************************************************************************)
(* What the callers of RunSync are promised (Story 007, Story 008),        *)
(* whatever the catalogue, the mapping and the failures: real runs of the  *)
(* source are serialised, a rejected or dry run has no effect, the facts a *)
(* run asserts are never retracted and appear in one step, at the moment a *)
(* real run ends -- or later, once, when its Update was abandoned.         *)
(***************************************************************************)
CONSTANTS Runs, Facts

VARIABLES
  busy,     \* a real run is in progress
  mode,     \* each run slot: idle, dry or real
  result,   \* the answer its last run gave
  facts,    \* what the source is asserted to declare and to be master for
  orphan    \* an abandoned Update is still being executed

vars == <<busy, mode, result, facts, orphan>>

Init ==
  /\ busy = FALSE
  /\ mode = [r \in Runs |-> "idle"]
  /\ result = [r \in Runs |-> "none"]
  /\ facts = {}
  /\ orphan = FALSE

Grow == facts \subseteq facts' /\ facts' \subseteq Facts

Begin(r) ==
  /\ mode[r] = "idle" /\ ~busy
  /\ busy' = TRUE
  /\ mode' = [mode EXCEPT ![r] = "real"]
  /\ UNCHANGED <<result, facts, orphan>>

Reject(r) ==
  /\ mode[r] = "idle" /\ busy
  /\ result' = [result EXCEPT ![r] = "busy"]
  /\ UNCHANGED <<busy, mode, facts, orphan>>

BeginDry(r) ==
  /\ mode[r] = "idle"
  /\ mode' = [mode EXCEPT ![r] = "dry"]
  /\ UNCHANGED <<busy, result, facts, orphan>>

\* A real run ends: its one Update was executed, was not, or is still to be.
Return(r) ==
  /\ mode[r] = "real"
  /\ busy' = FALSE
  /\ mode' = [mode EXCEPT ![r] = "idle"]
  /\ \/ /\ result' = [result EXCEPT ![r] = "ok"] \/ result' = [result EXCEPT ![r] = "error"]
        /\ Grow /\ UNCHANGED orphan
     \/ /\ result' = [result EXCEPT ![r] = "error"]
        /\ ~orphan /\ orphan' = TRUE /\ UNCHANGED facts

ReturnDry(r) ==
  /\ mode[r] = "dry"
  /\ mode' = [mode EXCEPT ![r] = "idle"]
  /\ result' = [result EXCEPT ![r] = "ok"] \/ result' = [result EXCEPT ![r] = "error"]
  /\ UNCHANGED <<busy, facts, orphan>>

ExecuteOrphan ==
  /\ orphan
  /\ orphan' = FALSE
  /\ Grow
  /\ UNCHANGED <<busy, mode, result>>

Next ==
  \/ \E r \in Runs : Begin(r) \/ Reject(r) \/ BeginDry(r) \/ Return(r) \/ ReturnDry(r)
  \/ ExecuteOrphan

Spec == Init /\ [][Next]_vars
=============================================================================
