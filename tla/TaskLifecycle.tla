--------------------------- MODULE TaskLifecycle ---------------------------
(***************************************************************************)
(* What the task subsystem promises about every task, whatever the store   *)
(* does to hold it: the state machine of TaskStatus::can_transition_to,    *)
(* with two ends added - a task that does not exist yet and one whose      *)
(* record has been purged - and the outcome that a terminal status fixes.  *)
(*                                                                         *)
(* One step may move several tasks at once, because one operation of the   *)
(* store may sweep several expired records while it serves another.        *)
(***************************************************************************)
CONSTANT TaskIds

VARIABLES
    phase,      \* phase[id]: where the task is in its life
    result      \* result[id]: what the task produced, once it is terminal

lifeVars == <<phase, result>>

Terminal == {"completed", "failed", "cancelled"}
Phases   == {"absent", "working", "input_required", "purged"} \cup Terminal
Results  == {"none", "value", "error", "cancelled"}

Init ==
    /\ phase  = [id \in TaskIds |-> "absent"]
    /\ result = [id \in TaskIds |-> "none"]

\* working -> input_required | terminal; input_required -> working | terminal;
\* terminal -> nothing but the end of its retention.
MayFollow(from, to) ==
    \/ from = "absent" /\ to = "working"
    \/ from = "working" /\ to \in {"input_required"} \cup Terminal
    \/ from = "input_required" /\ to \in {"working"} \cup Terminal
    \/ from \in {"working", "input_required"} \cup Terminal /\ to = "purged"

\* The result appears with the terminal status, and a purge keeps nothing.
ResultFits(p, r) == (p \in Terminal) <=> (r # "none")

Move(id) ==
    /\ MayFollow(phase[id], phase'[id])
    /\ ResultFits(phase'[id], result'[id])

Stay(id) ==
    /\ phase'[id] = phase[id]
    /\ result'[id] = result[id]

Next ==
    /\ phase' \in [TaskIds -> Phases]
    /\ result' \in [TaskIds -> Results]
    /\ \A id \in TaskIds : Stay(id) \/ Move(id)

Spec == Init /\ [][Next]_lifeVars
=============================================================================
