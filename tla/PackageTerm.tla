---------------------------- MODULE PackageTerm ----------------------------
(***************************************************************************)
(* poetry.mixology.PartialSolution, for one package: the assignments that  *)
(* speak about it, and the one term in _positive or _negative that stands  *)
(* for all of them.  The solver assigns a term whenever an incompatibility *)
(* is almost satisfied, that is when the relation to one of its terms is   *)
(* "overlapping"; what incompatibilities there are is left open.           *)
(***************************************************************************)
EXTENDS Term, Naturals, Sequences

CONSTANTS
  MaxAssignments,  \* bound: how many assignments speak about the package
  MaxLevel         \* bound: how many decisions are made

ASSUME PackageTermAssumption == MaxAssignments \in Nat /\ MaxLevel \in Nat

VARIABLES
  assignments,  \* those in _assignments that are about the package
  positive,     \* its term in _positive, or None
  negative,     \* its term in _negative, or None
  level,        \* decision_level
  registered,   \* backtrack(): so many of the assignments are registered
  failed        \* the assertion in _register() has failed

vars == <<assignments, positive, negative, level, registered, failed>>

Assignment == [term : Term, level : Nat, decision : BOOLEAN]

Init ==
  /\ assignments = << >>
  /\ positive = None
  /\ negative = None
  /\ level = 0
  /\ registered = 0
  /\ failed = FALSE

IsRegistered == registered = Len(assignments)
IsDecided == \E k \in 1 .. Len(assignments) : assignments[k].decision

(* PartialSolution.relation *)
RelationTo(u) ==
  IF positive # None THEN Relation(positive, u)
  ELSE IF negative # None THEN Relation(negative, u) ELSE "overlapping"

Combined(a) ==
  IF positive # None THEN Intersect(positive, a)
  ELSE IF negative # None THEN Intersect(a, negative) ELSE a

Register(a) ==
  /\ failed' = (Combined(a) = None)
  /\ positive' = IF Combined(a) # None /\ Combined(a).positive
                 THEN Combined(a) ELSE positive
  /\ negative' = IF Combined(a) = None THEN negative
                 ELSE IF Combined(a).positive THEN None ELSE Combined(a)
  /\ registered' = registered + 1

Assign(t, decision) ==
  /\ assignments' =
       Append(assignments, [term |-> t, level |-> level', decision |-> decision])
  /\ Register(t)

(* The inverse of a term that is the only open one of an incompatibility. *)
Derive(u) ==
  /\ ~ failed
  /\ IsRegistered
  /\ Len(assignments) < MaxAssignments
  /\ RelationTo(u) = "overlapping"
  /\ UNCHANGED level
  /\ Assign(InverseOf(u), FALSE)

(* A version the term allows is selected, for any environment. *)
Decide(v) ==
  /\ ~ failed
  /\ IsRegistered
  /\ Len(assignments) < MaxAssignments /\ level < MaxLevel
  /\ positive # None
  /\ ~ IsDecided
  /\ v \in positive.constraint
  /\ level' = level + 1
  /\ Assign([positive |-> TRUE, source |-> positive.source, constraint |-> {v},
             marker |-> Environments], TRUE)

(* A version of another package is selected. *)
DecideOther ==
  /\ ~ failed
  /\ IsRegistered
  /\ level < MaxLevel
  /\ level' = level + 1
  /\ UNCHANGED <<assignments, positive, negative, registered, failed>>

(* Assignments are popped until the last one is of level l or below. *)
IsLastKept(n, l) ==
  /\ n > 0 => assignments[n].level <= l
  /\ \A k \in n + 1 .. Len(assignments) : assignments[k].level > l

(* Bug: the term stays what it was. *)
BugKeepTerm(term) == term
Cleared(term) == None

(* The term is computed anew when an assignment about the package is gone. *)
Backtrack(l) ==
  /\ ~ failed
  /\ IsRegistered
  /\ l < level
  /\ level' = l
  /\ \E n \in 0 .. Len(assignments) :
       /\ IsLastKept(n, l)
       /\ assignments' = SubSeq(assignments, 1, n)
       /\ IF n < Len(assignments)
          THEN /\ registered' = 0
               /\ positive' = Cleared(positive)
               /\ negative' = Cleared(negative)
          ELSE UNCHANGED <<registered, positive, negative>>
  /\ UNCHANGED failed

(* The loop at the end of backtrack(). *)
RegisterAgain ==
  /\ ~ failed
  /\ registered < Len(assignments)
  /\ Register(assignments[registered + 1].term)
  /\ UNCHANGED <<assignments, level>>

Next ==
  \/ \E u \in Term : Derive(u)
  \/ \E v \in Versions : Decide(v)
  \/ DecideOther
  \/ \E l \in 0 .. level : Backtrack(l)
  \/ RegisterAgain

Spec == Init /\ [][Next]_vars
-----------------------------------------------------------------------------
(* Properties *)

TypeOK ==
  /\ assignments \in Seq(Assignment)
  /\ positive \in {t \in Term : t.positive} \cup {None}
  /\ negative \in {t \in Term : ~ t.positive} \cup {None}
  /\ level \in Nat
  /\ registered \in 0 .. Len(assignments)
  /\ failed \in BOOLEAN

(* The choices that the first n assignments leave. *)
Left(n) == {c \in Choices : \A k \in 1 .. n : c \in Meaning(assignments[k].term)}

Current == IF positive # None THEN positive ELSE negative

(* The one term that is kept means what all assignments mean together, also *)
(* after backtracking, and it is never in both dictionaries.               *)
TermIsKept ==
  ~ failed =>
    /\ positive = None \/ negative = None
    /\ Left(registered) = IF Current = None THEN Choices ELSE Meaning(Current)

(* "assert term is not None": what the solver derives never leaves nothing. *)
AssertionHolds == ~ failed

(* What relation() tells the solver: it takes an incompatibility for        *)
(* contradicted, or a term for satisfied, only if the assignments say so.  *)
RelationIsKnown ==
  ~ failed /\ IsRegistered /\ assignments # << >> =>
    LET left == Left(Len(assignments)) IN
    \A u \in Term :
      CASE RelationTo(u) = "subset"   -> left \subseteq Meaning(u)
        [] RelationTo(u) = "disjoint" -> left \cap Meaning(u) = {}
        [] OTHER -> TRUE

(* The term that PartialSolution.satisfier() has after the n-th assignment. *)
AssignedTerm ==
  LET Term_[n \in 1 .. Len(assignments)] ==
        IF n = 1 THEN assignments[1].term
                 ELSE Intersect(Term_[n - 1], assignments[n].term)
  IN  Term_
SatisfierOf(u, assigned) ==
  {n \in DOMAIN assigned :
     /\ Satisfies(assigned[n], u)
     /\ \A m \in 1 .. n - 1 : ~ Satisfies(assigned[m], u)}

(* Everything said of the package so far is about one source of it. *)
FromOnly(source) ==
  \A k \in 1 .. Len(assignments) : assignments[k].term.source = source

(* A satisfied term has a satisfier, and it is the assignment that first   *)
(* made the term true: conflict resolution backtracks no further than that, *)
(* as long as only one source of the package is spoken of.                 *)
SatisfierIsFirst ==
  ~ failed /\ IsRegistered /\ assignments # << >> =>
    LET assigned == AssignedTerm
        left == [n \in 0 .. Len(assignments) |-> Left(n)]
    IN \A u \in Term : FromOnly(u.source) /\ RelationTo(u) = "subset" =>
         SatisfierOf(u, assigned) =
           {n \in 1 .. Len(assignments) :
              left[n] \subseteq Meaning(u) /\ ~ left[n - 1] \subseteq Meaning(u)}

(* The package is required for every environment an assignment that is      *)
(* left requires it for, and for no other, when all are about one source.  *)
MarkersAreMerged ==
  ~ failed /\ positive # None /\ FromOnly(positive.source) =>
    positive.marker =
      UNION {assignments[k].term.marker :
               k \in {j \in 1 .. registered : assignments[j].term.positive}}

(* What the solver's backtracking and its results rest on, beside the term. *)
AssignmentsAreTraced == SatisfierIsFirst /\ MarkersAreMerged

(* The term that is kept is right, and the assertion has not failed: what  *)
(* all assignments leave is never empty, and backtrack() only widens it.   *)
TermIsSound ==
  /\ TypeOK
  /\ ~ failed
  /\ TermIsKept
  /\ Left(Len(assignments)) # {}
=============================================================================
