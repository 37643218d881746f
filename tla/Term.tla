-------------------------------- MODULE Term --------------------------------
(***************************************************************************)
(* poetry.mixology.term: statements about one package, and the relations   *)
(* and intersections that the solver computes on them.                     *)
(*                                                                         *)
(* A constraint is the set of versions it allows, a transitive marker the  *)
(* set of environments in which the package is required.                   *)
(***************************************************************************)

CONSTANTS
  Versions,
  Sources,        \* where a package may come from: an index, a git url, ...
  DirectOrigins,  \* the sources that are git urls, urls, files or directories
  Environments,
  Absent,         \* the package is not selected
  None            \* no term

Term ==
  [positive   : BOOLEAN,
   source     : Sources,
   constraint : (SUBSET Versions) \ {{}},
   marker     : SUBSET Environments]

ASSUME TermAssumption ==
  /\ DirectOrigins \subseteq Sources
  /\ Absent \notin Versions
  /\ None \notin Term

(* The choices for the package under which the term is true; where it comes *)
(* from is left out.                                                       *)
Choices == Versions \cup {Absent}
Meaning(t) == IF t.positive THEN t.constraint ELSE Choices \ t.constraint

(* Bug: the other versions, instead of not these. *)
BugOtherVersions(t) == [t EXCEPT !.constraint = Versions \ @]
InverseOf(t) == [t EXCEPT !.positive = ~ @]

IsDirect(t) == t.source \in DirectOrigins

(* _compatible_dependency, for terms that have the same complete name. *)
Compatible(t, u) == t.source = u.source \/ IsDirect(t) # IsDirect(u)

(* How two terms about sources that have nothing in common are related. *)
RelationApart(t, u) ==
  CASE t.positive /\ u.positive   -> "disjoint"
    [] t.positive /\ ~ u.positive -> "subset"
    [] ~ t.positive               -> "overlapping"

(* Bug: of two negative terms the weaker one is taken for the stronger. *)
BugTurnedRound(t, u) ==
  \/ t.positive /\ u.positive /\ t.constraint \subseteq u.constraint
  \/ t.positive /\ ~ u.positive /\ t.constraint \cap u.constraint = {}
  \/ ~ t.positive /\ ~ u.positive /\ t.constraint \subseteq u.constraint
IsSubset(t, u) ==
  \/ t.positive /\ u.positive /\ t.constraint \subseteq u.constraint
  \/ t.positive /\ ~ u.positive /\ t.constraint \cap u.constraint = {}
  \/ ~ t.positive /\ ~ u.positive /\ u.constraint \subseteq t.constraint

(* A requirement that is already met is looked at again when it adds       *)
(* environments: the markers are merged then.                              *)
IsDisjoint(t, u) ==
  \/ t.positive /\ u.positive /\ t.constraint \cap u.constraint = {}
  \/ /\ t.positive /\ ~ u.positive /\ t.constraint \subseteq u.constraint
     /\ t.marker = u.marker
  \/ ~ t.positive /\ u.positive /\ u.constraint \subseteq t.constraint

Relation(t, u) ==
  IF ~ Compatible(t, u) THEN RelationApart(t, u)
  ELSE IF IsSubset(t, u) THEN "subset"
  ELSE IF IsDisjoint(t, u) THEN "disjoint" ELSE "overlapping"

Satisfies(t, u) == Relation(t, u) = "subset"

(* Bug: the markers of two requirements are not merged. *)
BugFirstMarker(t, u, positive) == t.marker
(* The marker of what t.intersect(u) returns. *)
MergedMarker(t, u, positive) ==
  IF positive /\ u.positive THEN t.marker \cup u.marker
  ELSE IF ~ IsDirect(t) /\ IsDirect(u) THEN u.marker ELSE t.marker

(* A new term prefers the source of a direct origin. *)
NonEmptyTerm(constraint, positive, t, u) ==
  IF constraint = {} THEN None
  ELSE [positive   |-> positive,
        source     |-> IF ~ IsDirect(t) /\ IsDirect(u) THEN u.source ELSE t.source,
        constraint |-> constraint,
        marker     |-> MergedMarker(t, u, positive)]

Intersect(t, u) ==
  IF Compatible(t, u)
  THEN CASE t.positive /\ u.positive ->
              NonEmptyTerm(t.constraint \cap u.constraint, TRUE, t, u)
         [] t.positive /\ ~ u.positive ->
              NonEmptyTerm(t.constraint \ u.constraint, TRUE, t, u)
         [] ~ t.positive /\ u.positive ->
              NonEmptyTerm(u.constraint \ t.constraint, TRUE, t, u)
         [] ~ t.positive /\ ~ u.positive ->
              NonEmptyTerm(t.constraint \cup u.constraint, FALSE, t, u)
  ELSE CASE t.positive /\ ~ u.positive -> t
         [] ~ t.positive /\ u.positive -> u
         [] t.positive = u.positive    -> None

Difference(t, u) == Intersect(t, InverseOf(u))
=============================================================================
