----------------------------- MODULE MCExecutor -----------------------------
(* Plans with the groups, the jobs and the sources that meet in the pool. *)
EXTENDS Executor

Op(job, name, priority, source) ==
  [job |-> job, name |-> name, priority |-> priority, skipped |-> FALSE,
   develop |-> FALSE, source |-> source, repo |-> "none"]
Editable(name, priority, source) ==
  [Op("install", name, priority, source) EXCEPT !.develop = TRUE]
Skipped(name, priority) == [Op("install", name, priority, "index") EXCEPT !.skipped = TRUE]
Git(name, priority, repo) == [Op("install", name, priority, "git") EXCEPT !.repo = repo]

(* A removal, three updates for two threads, and an editable project on top. *)
SyncPlan ==
  << Op("uninstall", "a", 9, "index"), Op("update", "b", 1, "index"),
     Op("update", "c", 1, "index"), Op("update", "d", 1, "index"),
     Editable("e", 0, "directory") >>
(* Safe and unsafe operations in one group; pip hides in the second one. *)
MixedPlan ==
  << Op("install", "a", 1, "index"), Editable("b", 1, "directory"),
     Op("install", "pip", 0, "index"), Skipped("d", 0) >>
(* Two packages of one repository, one of another, then what needs them. *)
GitPlan ==
  << Git("a", 1, "r1"), Git("b", 1, "r1"), Git("c", 1, "r2"),
     Editable("d", 0, "git") >>
(* Removals run one behind the other, even if the first one fails. *)
RemovalPlan ==
  << Op("uninstall", "a", 9, "index"), Op("uninstall", "b", 9, "index"),
     Op("update", "pip", 0, "index") >>
AllPlans == {<< >>, SyncPlan, MixedPlan, GitPlan, RemovalPlan}
=============================================================================
