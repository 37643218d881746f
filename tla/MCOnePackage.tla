----------------------------- MODULE MCOnePackage -----------------------------
(***************************************************************************)
(* What the solver keeps about one package: the term, and the lists of its   *)
(* versions.  Each behaviour is about one of them, its subject, while the   *)
(* other stays where it starts.                                             *)
(***************************************************************************)
EXTENDS PackageTerm, TLC

CONSTANTS
  Subjects,
  index, git, linux,    \* the package comes from an index and from a git repository
  (* of DependencyCache: the package, alone and with an extra *)
  foo, foox, Names, Releases, Prereleases, Settings, MaxEntries

VARIABLES subject, setting, decisions, terms, stack, added, memo

IndexAndGit == {index, git}
Git == {git}
OneEnvironment == {linux}
-----------------------------------------------------------------------------
D == INSTANCE DependencyCache WITH Versions <- Releases, level <- decisions
dvars == <<setting, decisions, terms, stack, added, memo>>

ASSUME OneDependencyCache == D!DependencyCacheAssumption

WithExtras == {foo, foox}
EitherName == Permutations(WithExtras)

Over(versions, flags) == [allowed : (SUBSET versions) \ {{}}, pre : flags]

(* Under one name, whatever is said of prereleases; under two, nothing is. *)
(* The versions are those of a range, or of a union that is not convex.     *)
Ranges == {{1}, {3}, {4}, {1, 2}, {2, 3}, {3, 4}, {1, 2, 3}, {2, 3, 4}, {1, 3}}
MCSettings ==
  {[oneName |-> TRUE, dependencies |-> [allowed : Ranges, pre : {"yes", "no", "unset"}]],
   [oneName |-> FALSE, dependencies |-> Over({1, 2, 3}, {"unset"}) \cap [allowed : Ranges \ {{1}, {1, 3}}, pre : {"unset"}]]}

(* The name with the extra says nothing of prereleases, the other forbids  *)
(* them.                                                                   *)
Forbidding ==
  {[oneName |-> FALSE, dependencies |-> Over({1, 2, 3}, {"unset", "no"})]}
-----------------------------------------------------------------------------
MCInit ==
  /\ subject \in Subjects
  /\ Init /\ D!Init
  /\ subject # "versions" => setting = CHOOSE s \in Settings : TRUE

MCNext ==
  \/ subject = "term" /\ Next /\ UNCHANGED <<subject, dvars>>
  \/ subject = "versions" /\ D!Next /\ UNCHANGED <<subject, vars>>

MCSpec == MCInit /\ [][MCNext]_<<subject, vars, dvars>>
-----------------------------------------------------------------------------
(* The solver takes the version that it would take without the cache, no    *)
(* version is lost, and none is offered that was not asked for: see         *)
(* DependencyCache.                                                         *)
CacheIsTransparent ==
  subject = "versions" => D!AnswersAreAllowed /\ D!NothingIsLost /\ D!FirstIsSame

(* A prerelease that a dependency forbids is not offered to it: see         *)
(* DependencyCache.                                                         *)
ForbiddenIsNotOffered == subject = "versions" => D!ForbiddenIsNotOffered
===============================================================================
