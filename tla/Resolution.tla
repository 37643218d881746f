----------------------------- MODULE Resolution -----------------------------
(***************************************************************************)
(* What VersionSolver.solve() promises, whatever the search does in        *)
(* between: it answers once, with a selection that meets every requirement *)
(* of the registry, and it gives up only when there is no such selection.  *)
(***************************************************************************)
EXTENDS Registry

VARIABLES
  registry,  \* the question
  status,    \* whether solve() has returned or raised
  selection  \* what it returned

vars == <<registry, status, selection>>

NothingSelected == [p \in Packages |-> Absent]

Init ==
  /\ registry \in Registries
  /\ status = "pending"
  /\ selection = NothingSelected

Answer ==
  /\ status = "pending"
  /\ status' = "answered"
  /\ selection' \in Solutions(registry)
  /\ UNCHANGED registry

GiveUp ==
  /\ status = "pending"
  /\ Solutions(registry) = {}
  /\ status' = "unsolvable"
  /\ UNCHANGED <<registry, selection>>

Next == Answer \/ GiveUp

(* The part of the promise that says what an answer is, and the whole of it: *)
(* there will be one.                                                      *)
Safety == Init /\ [][Next]_vars
Spec == Safety /\ WF_vars(Next)
=============================================================================
