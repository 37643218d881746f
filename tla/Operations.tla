----------------------------- MODULE Operations -----------------------------
(***************************************************************************)
(* The operations that Transaction.calculate_operations() hands to         *)
(* Executor.execute(), sorted by falling priority, one for a package, and  *)
(* which of them must not meet.                                            *)
(***************************************************************************)
EXTENDS Naturals, Sequences

CONSTANTS
  Names,  \* package names
  Pip,    \* the name of pip
  Repos,  \* what _package_get_name returns: None, or the name of a repository
  Plans   \* the lists of operations execute() may be called with

(***************************************************************************)
(* priority: how deep a package is in the dependency graph (for Uninstall  *)
(* infinity, here a number above all others); source: source_type, "index" *)
(* for packages that are downloaded.                                       *)
(***************************************************************************)
Operation ==
  [job      : {"install", "update", "uninstall"},
   name     : Names,
   priority : Nat,
   skipped  : BOOLEAN,
   develop  : BOOLEAN,
   source   : {"index", "directory", "git"},
   repo     : Repos]

ASSUME PlanAssumption ==
  \A p \in Plans :
    /\ p \in Seq(Operation)
    /\ \A i, j \in 1 .. Len(p) : i < j =>
         /\ p[i].priority >= p[j].priority
         /\ p[i].name # p[j].name

Positions(p) == 1 .. Len(p)

(* Operation i has to be completed before operation j may begin. *)
Precedes(p, i, j) ==
  /\ p[j].name # Pip
  /\ p[i].name = Pip \/ p[i].priority > p[j].priority

(* Uninstalls and editable installs change what other operations work with. *)
NeedsToBeAlone(op) ==
  /\ ~ op.skipped
  /\ op.job = "uninstall" \/ (op.develop /\ op.source # "index")

(* Operations a and b work in the same clone of a git repository. *)
ShareClone(a, b) == a.source = "git" /\ b.source = "git" /\ a.repo = b.repo

MayOverlap(a, b) == ~ NeedsToBeAlone(a) /\ ~ NeedsToBeAlone(b) /\ ~ ShareClone(a, b)
=============================================================================
