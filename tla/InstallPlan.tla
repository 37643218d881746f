----------------------------- MODULE InstallPlan -----------------------------
(***************************************************************************)
(* What Executor.execute() promises of a list of operations: they begin in *)
(* the order of their priorities, pip before all others, and only when all *)
(* that precede them are completed; operations that must not meet do not;  *)
(* 0 is returned when every operation is completed, 1 when no operation is *)
(* in progress any more; and there is an end.                              *)
(***************************************************************************)
EXTENDS Operations

VARIABLES
  plan,      \* the operations
  progress,  \* of every operation
  verdict    \* "none" until execute() returns 0 or 1 or is interrupted

vars == <<plan, progress, verdict>>

Init ==
  /\ plan \in Plans
  /\ progress = [i \in Positions(plan) |-> "pending"]
  /\ verdict = "none"

MayBegin(i) ==
  /\ progress[i] = "pending"
  /\ \A j \in Positions(plan) :
       /\ Precedes(plan, j, i) => progress[j] = "completed"
       /\ progress[j] = "running" => MayOverlap(plan[i], plan[j])

Begin(i) ==
  /\ MayBegin(i)
  /\ progress' = [progress EXCEPT ![i] = "running"]
  /\ UNCHANGED <<plan, verdict>>

(* There is nothing to do for a skipped operation, or in a dry run. *)
Pass(i) ==
  /\ MayBegin(i)
  /\ progress' = [progress EXCEPT ![i] = "completed"]
  /\ UNCHANGED <<plan, verdict>>

End(i, outcome) ==
  /\ progress[i] = "running"
  /\ progress' = [progress EXCEPT ![i] = outcome]
  /\ UNCHANGED <<plan, verdict>>

ReturnZero ==
  /\ verdict = "none"
  /\ \A i \in Positions(plan) : progress[i] = "completed"
  /\ verdict' = "zero"
  /\ UNCHANGED <<plan, progress>>

ReturnOne ==
  /\ verdict = "none"
  /\ \A i \in Positions(plan) : progress[i] # "running"
  /\ verdict' = "one"
  /\ UNCHANGED <<plan, progress>>

(* A KeyboardInterrupt leaves execute(); its threads finish on their own.  *)
Raise ==
  /\ verdict = "none"
  /\ verdict' = "raised"
  /\ UNCHANGED <<plan, progress>>

Next ==
  \/ \E i \in Positions(plan) : Begin(i)
  \/ \E i \in Positions(plan) : Pass(i)
  \/ \E i \in Positions(plan), outcome \in {"completed", "broken"} : End(i, outcome)
  \/ ReturnZero
  \/ ReturnOne
  \/ Raise

Safety == Init /\ [][Next]_vars

Spec == Safety /\ <>(verdict # "none")
=============================================================================
