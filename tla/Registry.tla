------------------------------ MODULE Registry ------------------------------
(***************************************************************************)
(* What the version solver is asked: the packages that exist, their        *)
(* versions, what each version requires and what the lock file prefers --  *)
(* and what counts as an answer.                                           *)
(*                                                                         *)
(* A constraint is the set of versions it allows.  A requirement carries   *)
(* one constraint on one package; extras are packages of their own         *)
(* (foo[bar] has its own complete_name in the code too).                   *)
(***************************************************************************)
EXTENDS Naturals, Sequences, FiniteSets

CONSTANTS
  Packages,     \* complete names, the root project included
  Root,         \* the project that is being locked
  Versions,     \* every version a constraint may speak about
  RootVersion,  \* the version of the root project
  Absent,       \* "this package is not selected"
  Registries    \* the registries a solver may be started on

Selection == Versions \cup {Absent}

Dependency == [name : Packages \ {Root}, constraint : (SUBSET Versions) \ {{}}]

(***************************************************************************)
(* available: what Provider.search_for finds; unusable: versions whose     *)
(* python constraint rules them out; requires: Package.requires, in order; *)
(* locked: the version Provider.get_locked offers, if any.                 *)
(***************************************************************************)
Registry ==
  [available : [Packages -> SUBSET Versions],
   unusable  : [Packages -> SUBSET Versions],
   requires  : [Packages -> [Versions -> Seq(Dependency)]],
   locked    : [Packages -> Selection]]

ASSUME RegistryAssumption ==
  /\ IsFiniteSet(Packages)
  /\ Root \in Packages
  /\ Versions \subseteq Nat
  /\ RootVersion \in Versions
  /\ Absent \notin Versions
  /\ Absent \notin Packages
  /\ \A r \in Registries :
       /\ r \in Registry
       /\ r.available[Root] = {RootVersion}
       /\ r.unusable[Root] = {}
       /\ \A p \in Packages : r.locked[p] \in r.available[p] \cup {Absent}
       /\ \A p \in Packages, v \in Versions :
            \A i \in 1 .. Len(r.requires[p][v]) : r.requires[p][v][i].name # p

(***************************************************************************)
(* A selection answers the registry when it holds the root project, takes  *)
(* only versions that can be installed, and meets every requirement of     *)
(* every version it takes.                                                 *)
(***************************************************************************)
Answers(r, s) ==
  /\ s[Root] = RootVersion
  /\ \A p \in Packages : s[p] # Absent =>
       /\ s[p] \in r.available[p] \ r.unusable[p]
       /\ \A i \in 1 .. Len(r.requires[p][s[p]]) :
            LET dep == r.requires[p][s[p]][i] IN s[dep.name] \in dep.constraint

Solutions(r) == {s \in [Packages -> Selection] : Answers(r, s)}
=============================================================================
