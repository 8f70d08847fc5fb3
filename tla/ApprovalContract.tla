-------------------------- MODULE ApprovalContract --------------------------
(***************************************************************************)
(* What the approval flow promises about a code-changing action: the       *)
(* workspace is touched only while the action waits for a decision, it is  *)
(* decided once, completed only after its patch was applied, committed     *)
(* only when completed, and published only when committed.                 *)
(***************************************************************************)
CONSTANT Actions
VARIABLES
  phase,    \* where each action stands
  touched   \* actions whose patch was written, in part or in whole

vars == <<phase, touched>>

Init == phase = [a \in Actions |-> "absent"] /\ touched = {}

Move(a, from, to) ==
  /\ phase[a] = from
  /\ phase' = [phase EXCEPT ![a] = to]
  /\ UNCHANGED touched

Propose(a) == Move(a, "absent", "pending")

Touch(a) ==
  /\ phase[a] = "pending"
  /\ touched' = touched \cup {a}
  /\ UNCHANGED phase

Complete(a) == a \in touched /\ Move(a, "pending", "completed")
TurnDown(a) == \E s \in {"failed", "rejected"} : Move(a, "pending", s)
Commit(a)   == Move(a, "completed", "committed")
Publish(a)  == Move(a, "committed", "published")

Next == \E a \in Actions :
  Propose(a) \/ Touch(a) \/ Complete(a) \/ TurnDown(a) \/ Commit(a) \/ Publish(a)

Spec == Init /\ [][Next]_vars
=============================================================================
