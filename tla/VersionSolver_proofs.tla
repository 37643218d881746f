------------------------ MODULE VersionSolver_proofs ------------------------
(***************************************************************************)
(* The search of poetry.mixology is sound for every registry: what it      *)
(* learns holds in every solution, and it gives up only when there is no   *)
(* solution.  What it answers with is a solution, after backjumps that are *)
(* clean and conflicts that can always be resolved, so that it does what   *)
(* Resolution says.                                                        *)
(***************************************************************************)
EXTENDS VersionSolver, FiniteSetTheorems, TLAPS

(* What every step preserves: Soundness, for a registry that may be.       *)
IInv == registry \in Registries /\ Soundness

-----------------------------------------------------------------------------
(* What is assumed of the constants, without the registries. *)
LEMMA Basics ==
  /\ IsFiniteSet(Packages) /\ Root \in Packages
  /\ RootVersion \in Versions /\ Versions \subseteq Nat
  /\ Versions \subseteq Selection
  /\ Absent \notin Versions /\ Absent \in Selection /\ Absent \notin Packages
BY RegistryAssumption DEF RegistryAssumption, Selection

-----------------------------------------------------------------------------
(* Terms and incompatibilities *)

(* A term and its inverse speak about the same constraint. *)
LEMMA ConstraintOfNot ==
  ASSUME NEW t \in SUBSET Selection
  PROVE  Constraint(Not(t)) = Constraint(t)
<1>1. CASE IsPositive(t)
  <2>1. ~ IsPositive(Not(t))
    BY <1>1 DEF IsPositive, Not, Selection
  <2>2. Versions \ Not(t) = t
    BY <1>1 DEF IsPositive, Not, Selection
  <2> QED BY <1>1, <2>1, <2>2 DEF Constraint
<1>2. CASE ~ IsPositive(t)
  <2>1. IsPositive(Not(t))
    BY <1>2 DEF IsPositive, Not
  <2>2. Not(t) = Versions \ t
    BY <1>2 DEF IsPositive, Not, Selection
  <2> QED BY <1>2, <2>1, <2>2 DEF Constraint
<1> QED BY <1>1, <1>2

(* Two terms, one inside the other, with the same constraint are the same. *)
LEMMA SameConstraint ==
  ASSUME NEW a \in SUBSET Selection, NEW d \in SUBSET a, d # {},
         Constraint(a) = Constraint(d)
  PROVE  d = a
<1>1. CASE IsPositive(a)
  BY <1>1 DEF IsPositive, Constraint
<1>2. CASE ~ IsPositive(a) /\ IsPositive(d)
  BY <1>2 DEF IsPositive, Constraint, Selection
<1>3. CASE ~ IsPositive(a) /\ ~ IsPositive(d)
  <2>1. a = Selection \ Constraint(a) /\ d = Selection \ Constraint(d)
    BY <1>3 DEF IsPositive, Constraint, Selection
  <2> QED BY <2>1
<1> QED BY <1>1, <1>2, <1>3

(* The terms a solver starts from. *)
LEMMA TermFacts ==
  /\ NoTerm \in Terms
  /\ \A v \in Versions : {v} \in Terms /\ Not({v}) \in Terms
  /\ \A c \in SUBSET Versions : Not(c) \in Terms
  /\ Nothing \in Incompatibilities
  /\ RootIncompatibility \in Incompatibilities
<1>2. NoTerm \in Terms
  BY Basics DEF NoTerm, Terms
<1>3. \A c \in SUBSET Versions : Not(c) \in Terms
  BY Basics DEF Not, Terms
<1>4. \A v \in Versions : {v} \in Terms /\ Not({v}) \in Terms
  BY Basics, <1>3 DEF Terms
<1>5. Nothing \in Incompatibilities
  BY <1>2 DEF Nothing, Incompatibilities
<1>6. RootIncompatibility \in Incompatibilities
  BY <1>4, <1>5, Basics DEF RootIncompatibility, Incompatibilities
<1> QED BY <1>2, <1>3, <1>4, <1>5, <1>6

LEMMA SeqOfFunction ==
  ASSUME NEW n \in Nat, NEW S, NEW f \in [1 .. n -> S]
  PROVE  f \in Seq(S) /\ Len(f) = n
OBVIOUS

(* What is known of the registry in hand. *)
LEMMA RegistryFacts ==
  ASSUME registry \in Registries
  PROVE  /\ registry \in Registry
         /\ registry.available[Root] = {RootVersion}
         /\ \A p \in Packages : registry.locked[p] \in registry.available[p] \cup {Absent}
         /\ \A p \in Packages, v \in Versions :
              /\ registry.requires[p][v] \in Seq(Dependency)
              /\ \A k \in 1 .. Len(registry.requires[p][v]) :
                   LET dep == registry.requires[p][v][k]
                   IN  /\ dep.name \in Packages \ {Root, p}
                       /\ dep.constraint \in SUBSET Versions
<1>1. /\ registry \in Registry
      /\ registry.available[Root] = {RootVersion}
      /\ \A p \in Packages : registry.locked[p] \in registry.available[p] \cup {Absent}
      /\ \A p \in Packages, v \in Versions :
           \A k \in 1 .. Len(registry.requires[p][v]) : registry.requires[p][v][k].name # p
  BY RegistryAssumption DEF RegistryAssumption
<1>2. ASSUME NEW p \in Packages, NEW v \in Versions
      PROVE  registry.requires[p][v] \in Seq(Dependency)
  BY <1>1 DEF Registry
<1>3. ASSUME NEW q \in Seq(Dependency), NEW k \in 1 .. Len(q)
      PROVE  q[k].name \in Packages \ {Root} /\ q[k].constraint \in SUBSET Versions
  <2>1. q[k] \in Dependency
    OBVIOUS
  <2> QED BY <2>1 DEF Dependency
<1> QED BY <1>1, <1>2, <1>3

(* "p in version v needs the name in a version the constraint allows."      *)
LEMMA RequirementHolds ==
  ASSUME registry \in Registries, NEW p \in Packages, NEW v \in Versions,
         NEW k \in 1 .. Len(registry.requires[p][v])
  PROVE  LET i == Requires(p, v, registry.requires[p][v][k])
         IN  /\ i \in Incompatibilities
             /\ Holds(i)
<1> DEFINE dep == registry.requires[p][v][k]
           i   == Requires(p, v, dep)
<1>1. dep.name \in Packages \ {Root, p} /\ dep.constraint \in SUBSET Versions
  BY RegistryFacts
<1>2. i \in Incompatibilities
  BY <1>1, TermFacts DEF Incompatibilities, Requires
<1>3. i[p] = {v} /\ i[dep.name] = Not(dep.constraint)
  BY <1>1 DEF Nothing, Requires
<1>4. Holds(i)
  <2> SUFFICES ASSUME NEW s \in Solutions(registry)
               PROVE  \E q \in Packages : s[q] \notin i[q]
    BY DEF Holds
  <2>1. CASE s[p] # v
    BY <1>3, <2>1
  <2>2. CASE s[p] = v
    <3>1. s[dep.name] \in dep.constraint
      BY <2>2, Basics DEF Solutions, Answers
    <3> QED BY <1>1, <1>3, <3>1 DEF Not
  <2> QED BY <2>1, <2>2
<1> QED BY <1>2, <1>4

(* All that a version requires, or that it cannot be used, holds in every  *)
(* solution.                                                               *)
LEMMA IncompatibilitiesForHold ==
  ASSUME registry \in Registries, NEW p \in Packages, NEW v \in Versions
  PROVE  /\ IncompatibilitiesFor(p, v) \in Seq(Incompatibilities)
         /\ \A k \in 1 .. Len(IncompatibilitiesFor(p, v)) :
              Holds(IncompatibilitiesFor(p, v)[k])
<1>1. CASE v \in registry.unusable[p]
  <2> DEFINE i == [Nothing EXCEPT ![p] = {v}]
  <2>1. IncompatibilitiesFor(p, v) = << i >>
    BY <1>1 DEF IncompatibilitiesFor
  <2>2. i \in Incompatibilities
    BY TermFacts DEF Incompatibilities
  <2>3. i[p] = {v}
    BY DEF Nothing
  <2>4. Holds(i)
    BY <1>1, <2>3, Basics DEF Holds, Solutions, Answers
  <2> HIDE DEF i
  <2> QED BY <2>1, <2>2, <2>4
<1>2. CASE v \notin registry.unusable[p]
  <2> DEFINE requires == registry.requires[p][v]
             is == IncompatibilitiesFor(p, v)
  <2>1. Len(requires) \in Nat
    BY RegistryFacts
  <2>2. is = [k \in 1 .. Len(requires) |->
                Requires(p, v, requires[k])]
    BY <1>2 DEF IncompatibilitiesFor
  <2>3. \A k \in 1 .. Len(requires) : is[k] \in Incompatibilities /\ Holds(is[k])
    BY <2>2, RequirementHolds
  <2>4. is \in [1 .. Len(requires) -> Incompatibilities]
    BY <2>2, <2>3
  <2>5. is \in Seq(Incompatibilities) /\ Len(is) = Len(requires)
    BY <2>1, <2>4, SeqOfFunction
  <2> HIDE DEF is, requires
  <2>6. /\ is \in Seq(Incompatibilities)
        /\ \A k \in 1 .. Len(is) : Holds(is[k])
    BY <2>3, <2>5
  <2> QED BY <2>6 DEF is
<1> QED BY <1>1, <1>2

-----------------------------------------------------------------------------
(* The partial solution *)

LEMMA AccumulatedAppend ==
  ASSUME NEW seq \in Seq(Assignment), NEW a \in Assignment, NEW p \in Packages
  PROVE  Accumulated(Append(seq, a), Len(Append(seq, a)), p) =
           IF a.name = p THEN Accumulated(seq, Len(seq), p) \cap a.term
                         ELSE Accumulated(seq, Len(seq), p)
BY DEF Accumulated

LEMMA AccumulatedSub ==
  ASSUME NEW seq \in Seq(Assignment), NEW n \in 0 .. Len(seq), NEW p \in Packages
  PROVE  Accumulated(SubSeq(seq, 1, n), Len(SubSeq(seq, 1, n)), p) =
           Accumulated(seq, n, p)
BY DEF Accumulated

LEMMA AccumulatedShrinks ==
  ASSUME NEW seq, NEW n \in Nat, NEW m \in 0 .. n, NEW p
  PROVE  Accumulated(seq, n, p) \subseteq Accumulated(seq, m, p)
BY DEF Accumulated

(* Without an assignment about p after the first n, nothing is lost. *)
LEMMA AccumulatedSame ==
  ASSUME NEW seq \in Seq(Assignment), NEW n \in 0 .. Len(seq), NEW p \in Packages,
         \A k \in n + 1 .. Len(seq) : seq[k].name # p
  PROVE  Accumulated(seq, n, p) = Accumulated(seq, Len(seq), p)
BY DEF Accumulated

LEMMA DecisionLevelType ==
  ASSUME NEW d
  PROVE  Cardinality({p \in Packages : d[p] # Absent}) \in Nat
<1>1. IsFiniteSet({p \in Packages : d[p] # Absent})
  BY FS_Subset, Basics
<1> QED BY <1>1, FS_CardinalityType

-----------------------------------------------------------------------------
(* Conflict resolution *)

(* Resolution is sound: the resolvent of the incompatibility in hand and   *)
(* the cause of its most recent satisfier holds in every solution, even    *)
(* when positive terms about the root project are left out and when the    *)
(* remainder of a partial satisfier is dropped as equal to it.             *)
LEMMA ResolventHolds ==
  ASSUME IInv, pc = "resolve",
         NEW n \in 1 .. Len(assignments), NEW p \in Packages,
         IsMostRecent(n, p), assignments[n].cause # 0
  PROVE  /\ Resolvent(n, p) \in [Packages -> SUBSET Selection]
         /\ Holds(Resolvent(n, p))
         /\ RootVersion \in Resolvent(n, p)[Root]
<1> DEFINE c     == facts[assignments[n].cause]
           a     == assignments[n].term
           d     == Difference(n, p)
           rest  == Not(d)
           extra == IF d = {} \/ Constraint(rest) = Constraint(a) THEN NoTerm ELSE rest
           base  == IF Constraint(c[p]) = Constraint(a) THEN NoTerm ELSE c[p]
           left  == DropRoot(conflict)
           right == DropRoot(c)
           r     == Resolvent(n, p)
<1>1. /\ assignments[n] \in Assignment
      /\ assignments[n].name = p
      /\ assignments[n].cause \in 1 .. Len(facts)
  <2>1. assignments[n] \in Assignment
    BY DEF IInv, Soundness, TypeOK
  <2>2. assignments[n].cause \in Nat /\ assignments[n].cause <= Len(facts)
    BY <2>1 DEF IInv, Soundness, CausesAreFacts, Assignment
  <2>3. Len(facts) \in Nat
    BY DEF IInv, Soundness, TypeOK
  <2> QED BY <2>1, <2>2, <2>3 DEF IsMostRecent
<1>2. /\ a = Not(c[p]) /\ (p # Root => RootVersion \in c[Root])
  BY <1>1 DEF IInv, Soundness, CausesAreFacts
<1>3. c \in Incompatibilities /\ Holds(c)
  BY <1>1, SMTT(30) DEF IInv, Soundness, TypeOK, FactsHold, Holds
<1>4. /\ conflict \in [Packages -> SUBSET Selection]
      /\ c \in [Packages -> SUBSET Selection]
      /\ Holds(conflict) /\ RootVersion \in conflict[Root]
  BY <1>3 DEF IInv, Soundness, TypeOK, ConflictHolds, Incompatibilities, Terms
<1>5. Root \in Packages /\ RootVersion \in Selection
  BY Basics
<1>6. base = NoTerm
  BY <1>2, <1>4, ConstraintOfNot
<1>7. d = a \ conflict[p] /\ d \subseteq Selection /\ a \subseteq Selection
  BY <1>2, <1>4 DEF Difference, Not
<1>8. Accumulated(assignments, n, p) # {}
  <2>1. solution[p] # {} /\ solution[p] = Accumulated(assignments, Len(assignments), p)
    BY DEF IInv, Soundness, TypeOK, SolutionIsDerived, Terms
  <2>2. Len(assignments) \in Nat /\ n \in 0 .. Len(assignments)
    BY DEF IInv, Soundness, TypeOK
  <2> QED BY <2>1, <2>2, AccumulatedShrinks
<1>9. /\ Accumulated(assignments, n, p) \subseteq conflict[p]
      /\ Accumulated(assignments, n, p) \subseteq a
  <2>1. n \in 1 .. n
    BY DEF IInv, Soundness, TypeOK
  <2> QED BY <1>1, <2>1 DEF IsMostRecent, IsSatisfier, Accumulated
<1>10. \A x \in d : x \notin extra
  <2> SUFFICES ASSUME NEW x \in d PROVE x \notin extra
    OBVIOUS
  <2>1. x \notin rest
    BY DEF Not
  <2>2. Constraint(rest) # Constraint(a)
    <3> SUFFICES ASSUME Constraint(rest) = Constraint(a) PROVE FALSE
      OBVIOUS
    <3>1. Constraint(d) = Constraint(a)
      BY <1>7, ConstraintOfNot
    <3>2. d = a
      BY <3>1, <1>7, SameConstraint
    <3> QED BY <3>2, <1>7, <1>8, <1>9
  <2> QED BY <2>1, <2>2
<1>11. p = Root => d = {}
  <2> SUFFICES ASSUME p = Root PROVE d = {}
    OBVIOUS
  <2>1. a = {RootVersion}
    BY <1>1 DEF IInv, Soundness, RootIsChosen
  <2> QED BY <2>1, <1>4, <1>7
<1>12. extra \subseteq Selection /\ NoTerm = Selection
  BY DEF NoTerm, Not
<1> HIDE DEF c, a, d, rest, extra, base
<1>13. r = DropRoot([q \in Packages |-> IF q = p THEN base \cap extra
                                                ELSE left[q] \cap right[q]])
  BY DEF Resolvent, c, a, d, rest, extra, base
<1>14. /\ left \in [Packages -> SUBSET Selection]
       /\ right \in [Packages -> SUBSET Selection]
       /\ RootVersion \in left[Root]
       /\ p # Root => RootVersion \in right[Root]
       /\ \A q \in Packages \ {Root} : left[q] = conflict[q] /\ right[q] = c[q]
  BY <1>2, <1>4, <1>5, <1>12 DEF DropRoot
<1> HIDE DEF left, right
<1>15. r \in [Packages -> SUBSET Selection]
  BY <1>6, <1>12, <1>13, <1>14, ZenonT(30) DEF DropRoot
<1>16. /\ \A q \in Packages \ {Root, p} : r[q] = conflict[q] \cap c[q]
       /\ p # Root => r[p] = extra
  BY <1>6, <1>12, <1>13, <1>14, ZenonT(30) DEF DropRoot
<1>17. RootVersion \in r[Root]
  <2>1. CASE p = Root
    <3>1. base \cap extra = NoTerm
      BY <1>6, <1>11, <2>1 DEF extra
    <3> QED BY <3>1, <1>5, <1>12, <1>13, <2>1 DEF DropRoot
  <2>2. CASE p # Root
    BY <1>5, <1>12, <1>13, <1>14, <2>2 DEF DropRoot
  <2> QED BY <2>1, <2>2
<1>18. Holds(r)
  <2> SUFFICES ASSUME NEW s \in Solutions(registry)
               PROVE  \E q \in Packages : s[q] \notin r[q]
    BY DEF Holds
  <2>1. s \in [Packages -> Selection] /\ s[Root] = RootVersion
    BY DEF Solutions, Answers
  <2>2. PICK q \in Packages : s[q] \notin conflict[q]
    BY <1>4 DEF Holds
  <2>3. PICK t \in Packages : s[t] \notin c[t]
    BY <1>3 DEF Holds
  <2>4. q # Root
    BY <1>4, <2>1, <2>2
  <2>5. CASE q # p
    BY <1>16, <2>2, <2>4, <2>5
  <2>6. CASE q = p /\ t # p
    <3>1. t # Root
      BY <1>2, <2>1, <2>3, <2>4, <2>6
    <3> QED BY <3>1, <1>16, <2>3, <2>6
  <2>7. CASE q = p /\ t = p
    <3>1. s[p] \in a
      BY <1>2, <2>1, <2>3, <2>7 DEF Not
    <3>2. s[p] \in d
      BY <3>1, <1>7, <2>2, <2>7
    <3> QED BY <3>2, <1>10, <1>16, <2>4, <2>7
  <2> QED BY <2>5, <2>6, <2>7
<1> QED BY <1>15, <1>17, <1>18

-----------------------------------------------------------------------------
(* The invariant *)

LEMMA InitSound == Init => IInv
<1> SUFFICES ASSUME Init PROVE IInv
  OBVIOUS
<1> USE DEF Init
<1>1. registry \in Registries /\ registry \in Registry
  BY RegistryFacts
<1>2. /\ facts \in Seq(Incompatibilities) /\ Len(facts) = 1
      /\ facts[1] = RootIncompatibility
  BY TermFacts
<1>3. Holds(RootIncompatibility)
  <2>1. RootIncompatibility[Root] = Not({RootVersion})
    BY Basics DEF RootIncompatibility, Nothing
  <2> QED BY <2>1, Basics DEF Holds, Solutions, Answers, Not
<1>4. solution \in [Packages -> Terms]
  BY TermFacts DEF Incompatibilities
<1>5. TypeOK
  BY <1>1, <1>2, <1>4, Basics
     DEF TypeOK, NoPackage, Nothing, NoTerm
<1>6. FactsHold
  BY <1>2, <1>3 DEF FactsHold, Holds
<1>7. SolutionIsDerived
  BY DEF SolutionIsDerived, Accumulated, Nothing, NoTerm
<1>8. CausesAreFacts
  BY DEF CausesAreFacts
<1>9. RootIsChosen
  BY Basics DEF RootIsChosen, Nothing
<1>10. ConflictHolds
  BY DEF ConflictHolds
<1> QED BY <1>1, <1>5, <1>6, <1>7, <1>8, <1>9, <1>10 DEF IInv, Soundness

(* Steps that learn nothing and assign nothing keep what was known. *)
LEMMA NothingLearned ==
  ASSUME IInv, TypeOK', ConflictHolds',
         UNCHANGED <<registry, facts, assignments, solution>>,
         RootIsChosen'
  PROVE  IInv'
<1>1. FactsHold'
  BY DEF IInv, Soundness, FactsHold, Holds
<1>2. SolutionIsDerived' /\ CausesAreFacts'
  BY DEF IInv, Soundness, SolutionIsDerived, CausesAreFacts
<1> QED BY <1>1, <1>2 DEF IInv, Soundness

(* While the root project is not assigned, its incompatibility is the only *)
(* one, and it leaves the root project open.                               *)
LEMMA RootIsOpen ==
  ASSUME IInv, assignments = << >>, NEW n \in 1 .. Len(facts)
  PROVE  /\ n = 1 /\ Mentions(facts[1], Root)
         /\ ~ Contradicts(solution, facts[1])
         /\ Unsatisfied(solution, facts[1]) = {Root}
<1>1. /\ facts = << RootIncompatibility >> /\ solution[Root] = NoTerm
      /\ solution \in [Packages -> Terms]
  BY DEF IInv, Soundness, RootIsChosen, TypeOK
<1>2. n = 1 /\ facts[1] = RootIncompatibility
  BY <1>1
<1>3. /\ facts[1][Root] = Not({RootVersion})
      /\ \A p \in Packages \ {Root} : facts[1][p] = NoTerm
  BY <1>2, Basics DEF RootIncompatibility, Nothing
<1>4. Mentions(facts[1], Root)
  BY <1>3, Basics DEF Mentions, Not, NoTerm
<1>5. \A p \in Packages \ {Root} : ~ Disjoint(solution, facts[1], p)
                                  /\ ~ Inconclusive(solution, facts[1], p)
  BY <1>1, <1>3 DEF Disjoint, Inconclusive, Terms, NoTerm
<1>6. ~ Disjoint(solution, facts[1], Root) /\ Inconclusive(solution, facts[1], Root)
  BY <1>1, <1>3, Basics DEF Disjoint, Inconclusive, Not, NoTerm
<1> QED BY <1>2, <1>4, <1>5, <1>6, Basics DEF Contradicts, Unsatisfied

LEMMA LenOfNone == Len(<< >>) = 0
OBVIOUS

LEMMA LenOfOne == \A x : Len(<< x >>) = 1
OBVIOUS

LEMMA TakeChangedSound == IInv /\ TakeChanged => IInv'
<1> SUFFICES ASSUME IInv, TakeChanged PROVE IInv'
  OBVIOUS
<1> USE DEF TakeChanged, knowledge, partialSolution
<1>1. TypeOK'
  BY DEF IInv, Soundness, TypeOK
<1>2. ConflictHolds'
  BY DEF ConflictHolds
<1>3. RootIsChosen'
  <2>1. assignments = << >> => facts = << RootIncompatibility >> /\ changed = {Root}
    BY Basics DEF IInv, Soundness, RootIsChosen, NoPackage
  <2>2. assignments = << >> => Len(facts) = 1
    BY <2>1, LenOfOne
  <2> QED BY <2>1, <2>2 DEF IInv, Soundness, RootIsChosen
<1> QED BY <1>1, <1>2, <1>3, NothingLearned

LEMMA ContradictSound ==
  ASSUME IInv, NEW n \in 1 .. Len(facts), Contradict(n)
  PROVE  IInv'
<1> USE DEF Contradict, Examining, partialSolution
<1>1. assignments # << >>
  BY RootIsOpen
<1>2. TypeOK'
  <2>1. DecisionLevel \in Nat
    BY DecisionLevelType DEF DecisionLevel
  <2>2. n - 1 \in 0 .. Len(facts)
    BY DEF IInv, Soundness, TypeOK
  <2> QED BY <2>1, <2>2 DEF IInv, Soundness, TypeOK
<1>3. ConflictHolds'
  BY DEF ConflictHolds
<1>4. RootIsChosen'
  BY <1>1 DEF IInv, Soundness, RootIsChosen
<1> QED BY <1>2, <1>3, <1>4, NothingLearned

LEMMA SkipSound ==
  ASSUME IInv, NEW n \in 1 .. Len(facts), Skip(n)
  PROVE  IInv'
<1> USE DEF Skip, Examining, knowledge, partialSolution
<1>1. assignments # << >>
  BY RootIsOpen
<1>2. TypeOK'
  <2>1. n - 1 \in 0 .. Len(facts)
    BY DEF IInv, Soundness, TypeOK
  <2> QED BY <2>1 DEF IInv, Soundness, TypeOK
<1>3. ConflictHolds'
  BY DEF ConflictHolds
<1>4. RootIsChosen'
  BY <1>1 DEF IInv, Soundness, RootIsChosen
<1> QED BY <1>2, <1>3, <1>4, NothingLearned

LEMMA MeetConflictSound ==
  ASSUME IInv, NEW n \in 1 .. Len(facts), MeetConflict(n)
  PROVE  IInv'
<1> USE DEF MeetConflict, Examining, knowledge, partialSolution, propagation
<1>1. assignments # << >>
  BY RootIsOpen
<1>2. facts[n] \in [Packages -> Terms] /\ facts[n] \in [Packages -> SUBSET Selection]
  <2>1. facts[n] \in Incompatibilities
    BY DEF IInv, Soundness, TypeOK
  <2> QED BY <2>1 DEF Incompatibilities, Terms
<1>3. TypeOK'
  BY <1>2 DEF IInv, Soundness, TypeOK
<1>4. ConflictHolds'
  <2>1. Holds(facts[n])'
    BY DEF IInv, Soundness, FactsHold, Holds
  <2>2. solution[Root] \subseteq facts[n][Root]
    BY Basics DEF Contradicts, Unsatisfied, Inconclusive
  <2>3. RootVersion \in facts[n][Root]
    BY <1>1, <2>2 DEF IInv, Soundness, RootIsChosen
  <2>4. \A p \in Packages : facts[n][p] # {}
    BY <1>2 DEF Terms
  <2> QED BY <2>1, <2>3, <2>4 DEF ConflictHolds
<1>5. RootIsChosen'
  BY <1>1 DEF IInv, Soundness, RootIsChosen
<1> QED BY <1>3, <1>4, <1>5, NothingLearned

LEMMA FinishPackageSound == IInv /\ FinishPackage => IInv'
<1> SUFFICES ASSUME IInv, FinishPackage PROVE IInv'
  OBVIOUS
<1> USE DEF FinishPackage, knowledge, partialSolution
<1>1. assignments # << >>
  <2> SUFFICES ASSUME assignments = << >> PROVE FALSE
    OBVIOUS
  <2>1. package = Root /\ cursor = 1 /\ contradicted = {} /\ 1 \in 1 .. Len(facts)
    BY DEF IInv, Soundness, RootIsChosen
  <2>2. Mentions(facts[1], package)
    BY <2>1, RootIsOpen
  <2> QED BY <2>1, <2>2
<1>2. TypeOK'
  BY DEF IInv, Soundness, TypeOK
<1>3. ConflictHolds'
  BY DEF ConflictHolds
<1>4. RootIsChosen'
  BY <1>1 DEF IInv, Soundness, RootIsChosen
<1> QED BY <1>2, <1>3, <1>4, NothingLearned

LEMMA FinishPropagateSound == IInv /\ FinishPropagate => IInv'
<1> SUFFICES ASSUME IInv, FinishPropagate PROVE IInv'
  OBVIOUS
<1> USE DEF FinishPropagate, knowledge, partialSolution, propagation
<1>1. assignments # << >>
  BY Basics DEF IInv, Soundness, RootIsChosen, NoPackage
<1>2. TypeOK'
  BY DEF IInv, Soundness, TypeOK
<1>3. ConflictHolds'
  BY DEF ConflictHolds
<1>4. RootIsChosen'
  BY <1>1 DEF IInv, Soundness, RootIsChosen
<1> QED BY <1>2, <1>3, <1>4, NothingLearned

LEMMA FailSound == IInv /\ Fail => IInv'
<1> SUFFICES ASSUME IInv, Fail PROVE IInv'
  OBVIOUS
<1> USE DEF Fail, knowledge, partialSolution, propagation
<1>1. TypeOK'
  BY DEF IInv, Soundness, TypeOK
<1>2. ConflictHolds'
  BY DEF IInv, Soundness, ConflictHolds, Holds, IsFailure, Mentions
<1>3. RootIsChosen'
  BY DEF IInv, Soundness, RootIsChosen
<1> QED BY <1>1, <1>2, <1>3, NothingLearned

LEMMA SucceedSound == IInv /\ Succeed => IInv'
<1> SUFFICES ASSUME IInv, Succeed PROVE IInv'
  OBVIOUS
<1> USE DEF Succeed, knowledge, partialSolution, propagation
<1>1. TypeOK'
  BY DEF IInv, Soundness, TypeOK
<1>2. ConflictHolds'
  BY DEF ConflictHolds
<1>3. RootIsChosen'
  BY DEF IInv, Soundness, RootIsChosen
<1> QED BY <1>1, <1>2, <1>3, NothingLearned

LEMMA StutterSound == IInv /\ UNCHANGED vars => IInv'
<1> SUFFICES ASSUME IInv, UNCHANGED vars PROVE IInv'
  OBVIOUS
<1> USE DEF vars
<1>1. TypeOK'
  BY DEF IInv, Soundness, TypeOK
<1>2. ConflictHolds'
  BY DEF IInv, Soundness, ConflictHolds, Holds, IsFailure, Mentions
<1>3. RootIsChosen'
  BY DEF IInv, Soundness, RootIsChosen
<1> QED BY <1>1, <1>2, <1>3, NothingLearned

LEMMA ResolveSound == IInv /\ Resolve => IInv'
<1> SUFFICES ASSUME IInv, Resolve PROVE IInv'
  OBVIOUS
<1> USE DEF knowledge, partialSolution, propagation
<1>1. PICK n \in 1 .. Len(assignments), p \in Packages :
        /\ IsMostRecent(n, p)
        /\ assignments[n].cause # 0
        /\ conflict' = Resolvent(n, p)
  BY DEF Resolve, IsRootCause
<1>2. pc = "resolve"
  BY DEF Resolve
<1>3. /\ Resolvent(n, p) \in [Packages -> SUBSET Selection]
      /\ Holds(Resolvent(n, p))
      /\ RootVersion \in Resolvent(n, p)[Root]
  BY <1>1, <1>2, ResolventHolds
<1> USE DEF Resolve
<1>4. conflictFact' = 0 /\ pc' \in {"crashed", "resolve"}
  OBVIOUS
<1>5. TypeOK'
  BY <1>1, <1>3, <1>4 DEF IInv, Soundness, TypeOK
<1>6. ConflictHolds'
  <2>1. Holds(conflict)'
    BY <1>1, <1>3 DEF Holds
  <2>2. pc' # "crashed" => \A q \in Packages : conflict'[q] # {}
    OBVIOUS
  <2> QED BY <1>1, <1>3, <1>4, <2>1, <2>2 DEF ConflictHolds
<1>7. RootIsChosen'
  <2>1. assignments # << >>
    BY <1>2 DEF IInv, Soundness, RootIsChosen
  <2> QED BY <2>1 DEF IInv, Soundness, RootIsChosen
<1> QED BY <1>5, <1>6, <1>7, NothingLearned

-----------------------------------------------------------------------------
(* Steps that assign or learn *)

(* An assignment a is added to the first n: what it must say of itself.    *)
LEMMA AssignSound ==
  ASSUME IInv, assignments # << >>,
         NEW n \in 1 .. Len(assignments), NEW a \in Assignment,
         assignments' = Append(SubSeq(assignments, 1, n), a),
         solution' = [p \in Packages |->
                        IF p = a.name THEN Accumulated(assignments, n, p) \cap a.term
                                      ELSE Accumulated(assignments, n, p)],
         a.name = Root => a.term = {RootVersion},
         facts' \in Seq(Incompatibilities), Len(facts) <= Len(facts'),
         \A k \in 1 .. Len(facts) : facts'[k] = facts[k],
         a.cause # 0 => /\ a.cause <= Len(facts')
                        /\ a.term = Not(facts'[a.cause][a.name])
                        /\ a.name # Root => RootVersion \in facts'[a.cause][Root]
  PROVE  /\ assignments' \in Seq(Assignment)
         /\ SolutionIsDerived'
         /\ CausesAreFacts'
         /\ RootIsChosen'
<1> DEFINE kept == SubSeq(assignments, 1, n)
<1>1. assignments \in Seq(Assignment) /\ Len(assignments) \in Nat
  BY DEF IInv, Soundness, TypeOK
<1>2. /\ kept \in Seq(Assignment) /\ Len(kept) = n /\ n \in Nat
      /\ \A k \in 1 .. n : kept[k] = assignments[k]
  BY <1>1
<1> HIDE DEF kept
<1>3. assignments' = Append(kept, a)
  BY DEF kept
<1>4. /\ assignments' \in Seq(Assignment) /\ Len(assignments') = n + 1
      /\ \A k \in 1 .. n : assignments'[k] = assignments[k]
      /\ assignments'[n + 1] = a
  BY <1>2, <1>3
<1>8. Len(facts) \in Nat /\ Len(facts') \in Nat
  BY DEF IInv, Soundness, TypeOK
<1>9. /\ assignments[1].name = Root
      /\ \A k \in 1 .. n :
          assignments[k].name = Root => assignments[k].term = {RootVersion}
  BY <1>1, <1>2 DEF IInv, Soundness, RootIsChosen
<1>5. SolutionIsDerived'
  <2> SUFFICES ASSUME NEW p \in Packages
               PROVE  solution'[p] = Accumulated(assignments', Len(assignments'), p)
    BY DEF SolutionIsDerived
  <2>1. Accumulated(kept, Len(kept), p) = Accumulated(assignments, n, p)
    BY <1>1, AccumulatedSub DEF kept
  <2>2. Accumulated(assignments', Len(assignments'), p) =
           IF a.name = p THEN Accumulated(kept, Len(kept), p) \cap a.term
                         ELSE Accumulated(kept, Len(kept), p)
    <3>1. Accumulated(Append(kept, a), Len(Append(kept, a)), p) =
             IF a.name = p THEN Accumulated(kept, Len(kept), p) \cap a.term
                           ELSE Accumulated(kept, Len(kept), p)
      BY <1>2, AccumulatedAppend
    <3> QED BY <3>1, <1>3
  <2> QED BY <2>1, <2>2
<1>6. CausesAreFacts'
  <2> SUFFICES ASSUME NEW k \in 1 .. Len(assignments'), assignments'[k].cause # 0
               PROVE  /\ assignments'[k].cause <= Len(facts')
                      /\ assignments'[k].term =
                           Not(facts'[assignments'[k].cause][assignments'[k].name])
                      /\ assignments'[k].name # Root =>
                           RootVersion \in facts'[assignments'[k].cause][Root]
    BY DEF CausesAreFacts, Not
  <2>1. CASE k = n + 1
    BY <1>4, <2>1
  <2>2. CASE k \in 1 .. n
    <3>1. assignments[k] \in Assignment /\ k \in 1 .. Len(assignments)
      BY <1>1, <2>2
    <3>2. assignments[k].cause \in Nat /\ Len(facts) \in Nat /\ Len(facts') \in Nat
      BY <1>8, <3>1 DEF Assignment
    <3>3. assignments'[k] = assignments[k]
      BY <1>4, <2>2
    <3>4. /\ assignments[k].cause <= Len(facts)
          /\ assignments[k].term = Not(facts[assignments[k].cause][assignments[k].name])
          /\ assignments[k].name # Root => RootVersion \in facts[assignments[k].cause][Root]
      BY <3>1, <3>3 DEF IInv, Soundness, CausesAreFacts
    <3>5. assignments[k].cause \in 1 .. Len(facts)
      BY <3>2, <3>3, <3>4
    <3> QED BY <3>2, <3>3, <3>4, <3>5
  <2> QED BY <1>2, <1>4, <2>1, <2>2
<1>7. RootIsChosen'
  <2>1. 1 \in 1 .. n /\ assignments'[1].name = Root
    BY <1>1, <1>2, <1>4, <1>9
  <2>2. \A k \in 1 .. n + 1 :
          assignments'[k].name = Root => assignments'[k].term = {RootVersion}
    BY <1>2, <1>4, <1>9
  <2>3. assignments' # << >>
    BY <1>2, <1>4
  <2>4. Accumulated(assignments, n, Root) = {RootVersion}
    BY <1>9, <2>1, Basics DEF Accumulated
  <2>5. solution'[Root] = {RootVersion}
    BY <2>4, Basics
  <2> QED BY <1>4, <2>1, <2>2, <2>3, <2>5 DEF RootIsChosen
<1> QED BY <1>4, <1>5, <1>6, <1>7

(* Without backtracking, an assignment is added to all that there are. *)
LEMMA AssignAtEnd ==
  ASSUME IInv, assignments # << >>, NEW a \in Assignment,
         assignments' = Append(assignments, a),
         solution' = [solution EXCEPT ![a.name] = @ \cap a.term]
  PROVE  /\ Len(assignments) \in 1 .. Len(assignments)
         /\ assignments' = Append(SubSeq(assignments, 1, Len(assignments)), a)
         /\ solution' = [p \in Packages |->
              IF p = a.name THEN Accumulated(assignments, Len(assignments), p) \cap a.term
                            ELSE Accumulated(assignments, Len(assignments), p)]
<1>1. assignments \in Seq(Assignment)
  BY DEF IInv, Soundness, TypeOK
<1>2. SubSeq(assignments, 1, Len(assignments)) = assignments
  BY <1>1
<1>3. solution \in [Packages -> Terms]
  BY DEF IInv, Soundness, TypeOK
<1>4. \A p \in Packages : solution[p] = Accumulated(assignments, Len(assignments), p)
  BY DEF IInv, Soundness, SolutionIsDerived
<1>5. Len(assignments) \in 1 .. Len(assignments)
  BY <1>1
<1>6. solution' = [p \in Packages |->
              IF p = a.name THEN Accumulated(assignments, Len(assignments), p) \cap a.term
                            ELSE Accumulated(assignments, Len(assignments), p)]
  BY <1>3, <1>4
<1> QED BY <1>2, <1>5, <1>6

LEMMA DeriveSound ==
  ASSUME IInv, NEW n \in 1 .. Len(facts), Derive(n)
  PROVE  IInv'
<1> USE DEF Derive, Examining
<1>1. PICK p \in Packages :
        /\ Unsatisfied(solution, facts[n]) = {p}
        /\ assignments' = Append(assignments, Derivation(facts[n], p, n, DecisionLevel))
        /\ solution' = [solution EXCEPT ![p] = @ \cap Not(facts[n][p])]
        /\ changed' = changed \cup {p}
  OBVIOUS
<1> DEFINE a == Derivation(facts[n], p, n, DecisionLevel)
<1>2. /\ a.name = p /\ a.term = Not(facts[n][p]) /\ a.cause = n
      /\ a.level = DecisionLevel
  BY DEF Derivation
<1>3. facts[n] \in [Packages -> Terms] /\ solution \in [Packages -> Terms]
  <2>1. facts[n] \in Incompatibilities
    BY DEF IInv, Soundness, TypeOK
  <2> QED BY <2>1 DEF Incompatibilities, IInv, Soundness, TypeOK
<1>4. Inconclusive(solution, facts[n], p)
  BY <1>1 DEF Unsatisfied
<1>5. /\ solution[p] \cap Not(facts[n][p]) \in Terms
      /\ Not(facts[n][p]) \in Terms
  BY <1>3, <1>4 DEF Inconclusive, Terms, Not
<1>6. DecisionLevel \in Nat /\ n \in Nat /\ Len(facts) \in Nat
  BY DecisionLevelType DEF DecisionLevel, IInv, Soundness, TypeOK
<1>7. a \in Assignment
  BY <1>5, <1>6 DEF Assignment, Derivation
<1>10. solution' \in [Packages -> Terms]
  BY <1>1, <1>3, <1>5
<1>11. /\ contradicted' \subseteq 1 .. Len(facts')
       /\ contradictedAt' \subseteq (Nat \X (1 .. Len(facts')))
       /\ cursor' \in 0 .. Len(facts')
       /\ changed' \subseteq Packages
  BY <1>1, <1>6 DEF IInv, Soundness, TypeOK
<1>12. ASSUME assignments' \in Seq(Assignment) PROVE TypeOK'
  BY <1>10, <1>11, <1>12 DEF IInv, Soundness, TypeOK
<1>8. CASE assignments = << >>
  <2>1. p = Root /\ n = 1 /\ facts[1] = RootIncompatibility
    BY <1>1, <1>8, RootIsOpen DEF IInv, Soundness, RootIsChosen
  <2>2. Not(facts[n][p]) = {RootVersion}
    BY <2>1, Basics DEF RootIncompatibility, Nothing, Not
  <2>3. assignments' = << a >>
    BY <1>1, <1>8
  <2>4. Len(assignments') = 1 /\ assignments'[1] = a /\ assignments' # << >>
    BY <2>3
  <2>5. \A q \in Packages : solution[q] = Selection
    <3>1. \A q \in Packages : Accumulated(assignments, Len(assignments), q) = Selection
      BY <1>8, LenOfNone DEF Accumulated
    <3> QED BY <3>1 DEF IInv, Soundness, SolutionIsDerived
  <2>6. solution' = [q \in Packages |-> IF q = Root THEN {RootVersion} ELSE Selection]
    <3>1. solution \in [Packages -> Terms] /\ \A q \in Packages : solution[q] = Selection
      BY <1>3, <2>5
    <3>2. solution' = [solution EXCEPT ![Root] = @ \cap {RootVersion}]
      BY <1>1, <2>1, <2>2
    <3>3. Selection \cap {RootVersion} = {RootVersion}
      BY Basics
    <3> HIDE DEF a, Derive
    <3> QED
      BY <3>1, <3>2, <3>3
  <2>7. SolutionIsDerived'
    BY <1>2, <2>1, <2>2, <2>4, <2>6, Basics DEF SolutionIsDerived, Accumulated
  <2>8. CausesAreFacts'
    BY <1>2, <1>6, <2>1, <2>4 DEF CausesAreFacts
  <2>9. RootIsChosen'
    BY <1>2, <2>1, <2>2, <2>4, <2>6, Basics DEF RootIsChosen
  <2>10. assignments' \in Seq(Assignment)
    BY <1>7, <2>3
  <2>11. TypeOK'
    BY <1>12, <2>10
  <2>12. FactsHold' /\ ConflictHolds'
    BY DEF IInv, Soundness, FactsHold, ConflictHolds, Holds
  <2> QED BY <2>7, <2>8, <2>9, <2>11, <2>12 DEF IInv, Soundness
<1>9. CASE assignments # << >>
  <2>1. solution[Root] = {RootVersion}
    BY <1>9 DEF IInv, Soundness, RootIsChosen
  <2>2. p # Root
    BY <1>4, <2>1 DEF Inconclusive, Disjoint
  <2>3. RootVersion \in facts[n][Root]
    BY <1>1, <2>1, <2>2, Basics DEF Contradicts, Unsatisfied, Inconclusive
  <2> HIDE DEF a
  <2>4. /\ Len(assignments) \in 1 .. Len(assignments)
        /\ assignments' = Append(SubSeq(assignments, 1, Len(assignments)), a)
        /\ solution' = [q \in Packages |->
             IF q = a.name THEN Accumulated(assignments, Len(assignments), q) \cap a.term
                           ELSE Accumulated(assignments, Len(assignments), q)]
    BY <1>1, <1>2, <1>7, <1>9, AssignAtEnd DEF a
  <2>5. /\ facts' \in Seq(Incompatibilities) /\ Len(facts) <= Len(facts')
        /\ \A k \in 1 .. Len(facts) : facts'[k] = facts[k]
    BY <1>6 DEF IInv, Soundness, TypeOK
  <2>6. a.cause # 0 => /\ a.cause <= Len(facts')
                       /\ a.term = Not(facts'[a.cause][a.name])
                       /\ a.name # Root => RootVersion \in facts'[a.cause][Root]
    BY <1>2, <1>6, <2>3
  <2>7. /\ assignments' \in Seq(Assignment)
        /\ SolutionIsDerived'
        /\ CausesAreFacts'
        /\ RootIsChosen'
    BY <1>2, <1>7, <1>9, <2>2, <2>4, <2>5, <2>6, AssignSound
  <2>8. TypeOK'
    BY <1>12, <2>7
  <2>9. FactsHold' /\ ConflictHolds'
    BY DEF IInv, Soundness, FactsHold, ConflictHolds, Holds
  <2> QED BY <2>7, <2>8, <2>9 DEF IInv, Soundness
<1> QED BY <1>8, <1>9

(* The first n assignments stay, none is added. *)
LEMMA KeepSound ==
  ASSUME IInv, assignments # << >>,
         NEW n \in 1 .. Len(assignments),
         assignments' = SubSeq(assignments, 1, n),
         solution' = [p \in Packages |-> Accumulated(assignments, n, p)],
         facts' \in Seq(Incompatibilities), Len(facts) <= Len(facts'),
         \A k \in 1 .. Len(facts) : facts'[k] = facts[k]
  PROVE  /\ assignments' \in Seq(Assignment)
         /\ solution' \in [Packages -> Terms]
         /\ SolutionIsDerived'
         /\ CausesAreFacts'
         /\ RootIsChosen'
<1>1. assignments \in Seq(Assignment) /\ Len(assignments) \in Nat
  BY DEF IInv, Soundness, TypeOK
<1>2. /\ assignments' \in Seq(Assignment) /\ Len(assignments') = n /\ n \in Nat
      /\ \A k \in 1 .. n : assignments'[k] = assignments[k]
  BY <1>1
<1>3. Len(facts) \in Nat /\ Len(facts') \in Nat
  BY DEF IInv, Soundness, TypeOK
<1>4. SolutionIsDerived'
  <2> SUFFICES ASSUME NEW p \in Packages
               PROVE  solution'[p] = Accumulated(assignments', Len(assignments'), p)
    BY DEF SolutionIsDerived
  <2> QED BY <1>1, AccumulatedSub
<1>5. CausesAreFacts'
  <2> SUFFICES ASSUME NEW k \in 1 .. Len(assignments'), assignments'[k].cause # 0
               PROVE  /\ assignments'[k].cause <= Len(facts')
                      /\ assignments'[k].term =
                           Not(facts'[assignments'[k].cause][assignments'[k].name])
                      /\ assignments'[k].name # Root =>
                           RootVersion \in facts'[assignments'[k].cause][Root]
    BY DEF CausesAreFacts, Not
  <2>1. assignments[k] \in Assignment /\ k \in 1 .. Len(assignments)
    BY <1>1, <1>2
  <2>2. assignments[k].cause \in Nat /\ assignments'[k] = assignments[k]
    BY <1>2, <2>1 DEF Assignment
  <2>3. /\ assignments[k].cause <= Len(facts)
        /\ assignments[k].term = Not(facts[assignments[k].cause][assignments[k].name])
        /\ assignments[k].name # Root => RootVersion \in facts[assignments[k].cause][Root]
    BY <2>1, <2>2 DEF IInv, Soundness, CausesAreFacts
  <2>4. assignments[k].cause \in 1 .. Len(facts)
    BY <1>3, <2>2, <2>3
  <2> QED BY <1>3, <2>2, <2>3, <2>4
<1>6. /\ assignments[1].name = Root
      /\ \A k \in 1 .. n :
          assignments[k].name = Root => assignments[k].term = {RootVersion}
  BY <1>1, <1>2 DEF IInv, Soundness, RootIsChosen
<1>7. solution'[Root] = {RootVersion}
  <2>1. 1 \in 1 .. n
    BY <1>2
  <2> QED BY <2>1, <1>6, Basics DEF Accumulated
<1>8. RootIsChosen'
  <2>1. assignments' # << >> /\ 1 \in 1 .. n
    BY <1>2
  <2> QED BY <1>2, <1>6, <1>7, <2>1 DEF RootIsChosen
<1>9. \A p \in Packages : Accumulated(assignments, n, p) \in Terms
  <2> SUFFICES ASSUME NEW p \in Packages PROVE Accumulated(assignments, n, p) \in Terms
    OBVIOUS
  <2>1. solution[p] # {} /\ solution[p] = Accumulated(assignments, Len(assignments), p)
    BY DEF IInv, Soundness, TypeOK, SolutionIsDerived, Terms
  <2>2. solution[p] \subseteq Accumulated(assignments, n, p)
    BY <1>1, <1>2, <2>1, AccumulatedShrinks
  <2>3. Accumulated(assignments, n, p) \subseteq Selection
    BY DEF Accumulated
  <2> QED BY <2>1, <2>2, <2>3 DEF Terms
<1> QED BY <1>2, <1>4, <1>5, <1>8, <1>9

(* Nothing is assigned and nothing taken back. *)
LEMMA LearnSound ==
  ASSUME IInv, assignments # << >>,
         UNCHANGED <<registry, assignments, solution>>,
         facts' \in Seq(Incompatibilities), Len(facts) <= Len(facts'),
         \A k \in 1 .. Len(facts) : facts'[k] = facts[k],
         FactsHold', TypeOK', ConflictHolds'
  PROVE  IInv'
<1>1. assignments \in Seq(Assignment) /\ solution \in [Packages -> Terms]
  BY DEF IInv, Soundness, TypeOK
<1>2. Len(assignments) \in 1 .. Len(assignments)
  BY <1>1
<1>3. assignments' = SubSeq(assignments, 1, Len(assignments))
  BY <1>1
<1>4. solution' = [p \in Packages |-> Accumulated(assignments, Len(assignments), p)]
  BY <1>1 DEF IInv, Soundness, SolutionIsDerived
<1>5. SolutionIsDerived' /\ CausesAreFacts' /\ RootIsChosen'
  BY <1>2, <1>3, <1>4, KeepSound
<1> QED BY <1>5 DEF IInv, Soundness

(* One more incompatibility that holds. *)
LEMMA OneMoreFact ==
  ASSUME IInv, UNCHANGED registry, NEW i \in Incompatibilities, Holds(i),
         facts' = Append(facts, i)
  PROVE  /\ facts' \in Seq(Incompatibilities) /\ Len(facts') = Len(facts) + 1
         /\ Len(facts) \in Nat /\ facts'[Len(facts) + 1] = i
         /\ \A k \in 1 .. Len(facts) : facts'[k] = facts[k]
         /\ FactsHold'
<1>1. facts \in Seq(Incompatibilities) /\ Len(facts) \in Nat
  BY DEF IInv, Soundness, TypeOK
<1>2. /\ facts' \in Seq(Incompatibilities) /\ Len(facts') = Len(facts) + 1
      /\ facts'[Len(facts) + 1] = i
      /\ \A k \in 1 .. Len(facts) : facts'[k] = facts[k]
  BY <1>1
<1>3. ASSUME NEW k \in 1 .. Len(facts') PROVE Holds(facts'[k])
  <2>1. CASE k = Len(facts) + 1
    BY <1>2, <2>1
  <2>2. CASE k \in 1 .. Len(facts)
    BY <1>2, <2>2 DEF IInv, Soundness, FactsHold, Holds
  <2> QED BY <1>1, <1>2, <2>1, <2>2
<1>4. FactsHold'
  BY <1>3 DEF FactsHold, Holds
<1> QED BY <1>1, <1>2, <1>4

(* More incompatibilities that hold. *)
LEMMA MoreFacts ==
  ASSUME IInv, UNCHANGED registry, NEW is \in Seq(Incompatibilities),
         \A k \in 1 .. Len(is) : Holds(is[k]), facts' = facts \o is
  PROVE  /\ facts' \in Seq(Incompatibilities) /\ Len(facts) <= Len(facts')
         /\ Len(facts) \in Nat /\ Len(facts') \in Nat
         /\ \A k \in 1 .. Len(facts) : facts'[k] = facts[k]
         /\ FactsHold'
<1>1. facts \in Seq(Incompatibilities) /\ Len(facts) \in Nat /\ Len(is) \in Nat
  BY DEF IInv, Soundness, TypeOK
<1>2. /\ facts' \in Seq(Incompatibilities) /\ Len(facts') = Len(facts) + Len(is)
      /\ \A k \in 1 .. Len(facts) : facts'[k] = facts[k]
      /\ \A k \in Len(facts) + 1 .. Len(facts') : facts'[k] = is[k - Len(facts)]
  BY <1>1
<1>3. ASSUME NEW k \in 1 .. Len(facts') PROVE Holds(facts'[k])
  <2>1. CASE k \in Len(facts) + 1 .. Len(facts')
    <3>1. k - Len(facts) \in 1 .. Len(is)
      BY <1>1, <1>2, <2>1
    <3> QED BY <1>2, <2>1, <3>1
  <2>2. CASE k \in 1 .. Len(facts)
    BY <1>2, <2>2 DEF IInv, Soundness, FactsHold, Holds
  <2> QED BY <1>1, <1>2, <2>1, <2>2
<1>4. FactsHold'
  BY <1>3 DEF FactsHold, Holds
<1> QED BY <1>1, <1>2, <1>4

LEMMA FindNoVersionSound ==
  ASSUME IInv, NEW p \in Packages, FindNoVersion(p)
  PROVE  IInv'
<1> USE DEF FindNoVersion, partialSolution
<1> DEFINE i == NoVersions(p, solution[p])
<1>1. assignments # << >> /\ solution \in [Packages -> Terms]
  BY DEF IInv, Soundness, RootIsChosen, TypeOK
<1>2. i \in Incompatibilities
  BY <1>1, TermFacts DEF NoVersions, Incompatibilities
<1>3. Holds(i)
  <2> SUFFICES ASSUME NEW s \in Solutions(registry) PROVE s[p] \notin solution[p]
    BY DEF Holds, NoVersions, Nothing
  <2>1. Absent \notin solution[p]
    BY DEF Undecided, Positive, IsPositive
  <2>2. registry.available[p] \cap solution[p] = {}
    BY DEF Candidates
  <2> QED BY <2>1, <2>2 DEF Solutions, Answers
<1>4. facts' = Append(facts, i) /\ UNCHANGED registry
  OBVIOUS
<1> HIDE DEF i
<1>5. /\ facts' \in Seq(Incompatibilities) /\ Len(facts') = Len(facts) + 1
      /\ Len(facts) \in Nat
      /\ \A k \in 1 .. Len(facts) : facts'[k] = facts[k]
      /\ FactsHold'
  BY <1>2, <1>3, <1>4, OneMoreFact
<1>6. /\ 1 .. Len(facts) \subseteq 1 .. Len(facts')
      /\ 0 .. Len(facts) \subseteq 0 .. Len(facts')
  BY <1>5
<1>7. TypeOK'
  BY <1>5, <1>6 DEF IInv, Soundness, TypeOK
<1>8. ConflictHolds'
  BY DEF ConflictHolds
<1>9. Len(facts) <= Len(facts')
  BY <1>5
<1> QED BY <1>1, <1>5, <1>7, <1>8, <1>9, LearnSound

LEMMA ChooseVersionSound ==
  ASSUME IInv, NEW p \in Packages, ChooseVersion(p)
  PROVE  IInv'
<1> USE DEF ChooseVersion
<1>1. PICK v \in Versions :
        /\ IsPreferred(p, v)
        /\ facts' = facts \o IncompatibilitiesFor(p, v)
        /\ IF WouldConflict(p, v)
           THEN UNCHANGED partialSolution
           ELSE /\ decisions' = [decisions EXCEPT ![p] = v]
                /\ solution' = [solution EXCEPT ![p] = @ \cap {v}]
                /\ assignments' =
                     Append(assignments, [name |-> p, term |-> {v},
                                          level |-> DecisionLevel + 1, cause |-> 0])
  OBVIOUS
<1>2. assignments # << >> /\ solution \in [Packages -> Terms]
  BY DEF IInv, Soundness, RootIsChosen, TypeOK
<1>3. v \in solution[p]
  BY <1>1 DEF IsPreferred, Candidates
<1>4. p = Root => v = RootVersion
  BY <1>2, <1>3 DEF IInv, Soundness, RootIsChosen
<1>5. /\ facts' \in Seq(Incompatibilities) /\ Len(facts) <= Len(facts')
      /\ Len(facts) \in Nat /\ Len(facts') \in Nat
      /\ \A k \in 1 .. Len(facts) : facts'[k] = facts[k]
      /\ FactsHold'
  <2>1. /\ IncompatibilitiesFor(p, v) \in Seq(Incompatibilities)
        /\ \A k \in 1 .. Len(IncompatibilitiesFor(p, v)) :
             Holds(IncompatibilitiesFor(p, v)[k])
    BY IncompatibilitiesForHold DEF IInv, Soundness
  <2> QED BY <1>1, <2>1, MoreFacts
<1>6. /\ 1 .. Len(facts) \subseteq 1 .. Len(facts')
      /\ 0 .. Len(facts) \subseteq 0 .. Len(facts')
  BY <1>5
<1>7. ASSUME assignments' \in Seq(Assignment), solution' \in [Packages -> Terms],
             decisions' \in [Packages -> Selection]
      PROVE  TypeOK'
  BY <1>5, <1>6, <1>7 DEF IInv, Soundness, TypeOK
<1>8. ConflictHolds'
  BY DEF ConflictHolds
<1>9. CASE WouldConflict(p, v)
  <2>1. UNCHANGED <<registry, assignments, decisions, solution>>
    BY <1>1, <1>9 DEF partialSolution
  <2>2. TypeOK'
    BY <1>7, <2>1 DEF IInv, Soundness, TypeOK
  <2> HIDE DEF ChooseVersion
  <2> QED BY <1>2, <1>5, <1>8, <2>1, <2>2, LearnSound
<1>10. CASE ~ WouldConflict(p, v)
  <2> DEFINE a == [name |-> p, term |-> {v}, level |-> DecisionLevel + 1, cause |-> 0]
  <2>1. /\ assignments' = Append(assignments, a)
        /\ solution' = [solution EXCEPT ![p] = @ \cap {v}]
        /\ decisions' = [decisions EXCEPT ![p] = v]
        /\ UNCHANGED registry
    BY <1>1, <1>10
  <2>2. DecisionLevel \in Nat /\ {v} \in Terms /\ v \in Selection
    BY DecisionLevelType, TermFacts, Basics DEF DecisionLevel
  <2>3. /\ a \in Assignment
        /\ a.name = p /\ a.term = {v} /\ a.cause = 0
    BY <2>2 DEF Assignment
  <2> HIDE DEF a, ChooseVersion
  <2>4. /\ Len(assignments) \in 1 .. Len(assignments)
        /\ assignments' = Append(SubSeq(assignments, 1, Len(assignments)), a)
        /\ solution' = [q \in Packages |->
             IF q = a.name THEN Accumulated(assignments, Len(assignments), q) \cap a.term
                           ELSE Accumulated(assignments, Len(assignments), q)]
    BY <1>2, <2>1, <2>3, AssignAtEnd
  <2>5. /\ assignments' \in Seq(Assignment)
        /\ SolutionIsDerived'
        /\ CausesAreFacts'
        /\ RootIsChosen'
    BY <1>2, <1>4, <1>5, <2>3, <2>4, AssignSound
  <2>6. solution' \in [Packages -> Terms]
    <3>1. solution[p] \cap {v} = {v}
      BY <1>3
    <3> QED BY <1>2, <2>1, <2>2, <3>1
  <2>7. decisions' \in [Packages -> Selection]
    BY <2>1, <2>2 DEF IInv, Soundness, TypeOK
  <2>8. TypeOK'
    BY <1>7, <2>5, <2>6, <2>7
  <2> QED BY <1>5, <1>8, <2>1, <2>5, <2>8 DEF IInv, Soundness
<1> QED BY <1>9, <1>10

(* What is left after backtracking is what the kept assignments say. *)
LEMMA BacktrackKeeps ==
  ASSUME IInv, NEW n \in 1 .. Len(assignments)
  PROVE  /\ Backtrack(n).kept = SubSeq(assignments, 1, n)
         /\ Backtrack(n).solution = [p \in Packages |-> Accumulated(assignments, n, p)]
         /\ Backtrack(n).decisions \in [Packages -> Selection]
<1>1. assignments \in Seq(Assignment) /\ n \in 0 .. Len(assignments)
  BY DEF IInv, Soundness, TypeOK
<1> DEFINE gone == {assignments[k].name : k \in n + 1 .. Len(assignments)}
<1>2. ASSUME NEW p \in Packages, p \notin gone
      PROVE  Accumulated(assignments, n, p) = solution[p]
  <2>1. \A k \in n + 1 .. Len(assignments) : assignments[k].name # p
    BY <1>2
  <2> QED BY <1>1, <2>1, AccumulatedSame DEF IInv, Soundness, SolutionIsDerived
<1>3. Backtrack(n).solution = [p \in Packages |-> IF p \in gone THEN Accumulated(assignments, n, p)
                                                                 ELSE solution[p]]
  BY DEF Backtrack
<1> HIDE DEF gone
<1>4. Backtrack(n).solution = [p \in Packages |-> Accumulated(assignments, n, p)]
  BY <1>2, <1>3
<1>5. Backtrack(n).decisions \in [Packages -> Selection]
  BY Basics DEF Backtrack, IInv, Soundness, TypeOK
<1>6. Backtrack(n).kept = SubSeq(assignments, 1, n)
  BY DEF Backtrack
<1> QED BY <1>4, <1>5, <1>6

LEMMA BackjumpSound == IInv /\ Backjump => IInv'
<1> SUFFICES ASSUME IInv, Backjump PROVE IInv'
  OBVIOUS
<1>1. PICK n \in 1 .. Len(assignments), level \in Nat :
        LET back   == Backtrack(n)
            here   == Cardinality({q \in Packages : back.decisions[q] # Absent})
            isNew  == conflictFact = 0
            cause  == IF isNew THEN Len(facts) + 1 ELSE conflictFact
        IN  /\ facts' = IF isNew THEN Append(facts, conflict) ELSE facts
            /\ decisions' = back.decisions
            /\ contradicted' = (contradicted \ {x[2] : x \in Forgotten(level)}) \cup {cause}
            /\ contradictedAt' = (contradictedAt \ Forgotten(level)) \cup {<<here, cause>>}
            /\ IF \E q \in Packages : IsOnlyOpen(q, back)
               THEN \E q \in Packages :
                      /\ IsOnlyOpen(q, back)
                      /\ assignments' =
                           Append(back.kept, Derivation(conflict, q, cause, here))
                      /\ solution' =
                           [back.solution EXCEPT ![q] = @ \cap Not(conflict[q])]
                      /\ changed' = {q}
                      /\ pc' = "propagate"
               ELSE /\ assignments' = back.kept
                    /\ solution' = back.solution
                    /\ changed' = {}
                    /\ pc' = "crashed"
  <2>1. \A m \in 1 .. Len(assignments) : 0 .. assignments[m].level + 1 \subseteq Nat
    OBVIOUS
  <2> QED BY <2>1, ZenonT(30) DEF Backjump
<1>2. /\ pc = "resolve" /\ package' = NoPackage /\ cursor' = 0
      /\ UNCHANGED <<registry, conflict, conflictFact>>
  BY DEF Backjump
<1> DEFINE back   == Backtrack(n)
           here   == Cardinality({q \in Packages : back.decisions[q] # Absent})
           cause  == IF conflictFact = 0 THEN Len(facts) + 1 ELSE conflictFact
           Open   == \E q \in Packages : IsOnlyOpen(q, back)
<1> HIDE DEF Forgotten
<1>3. /\ facts' = IF conflictFact = 0 THEN Append(facts, conflict) ELSE facts
      /\ decisions' = back.decisions
      /\ contradicted' = (contradicted \ {x[2] : x \in Forgotten(level)}) \cup {cause}
      /\ contradictedAt' = (contradictedAt \ Forgotten(level)) \cup {<<here, cause>>}
      /\ Open => \E q \in Packages :
                  /\ IsOnlyOpen(q, back)
                  /\ assignments' = Append(back.kept, Derivation(conflict, q, cause, here))
                  /\ solution' = [back.solution EXCEPT ![q] = @ \cap Not(conflict[q])]
                  /\ changed' = {q}
                  /\ pc' = "propagate"
      /\ ~ Open => /\ assignments' = back.kept
                    /\ solution' = back.solution
                    /\ changed' = {}
                    /\ pc' = "crashed"
  BY <1>1
<1>4. /\ assignments # << >>
      /\ Holds(conflict) /\ RootVersion \in conflict[Root]
      /\ conflictFact # 0 => conflict = facts[conflictFact]
      /\ conflict \in Incompatibilities
  BY <1>2 DEF IInv, Soundness, RootIsChosen, ConflictHolds, TypeOK, Incompatibilities, Terms
<1>5. /\ facts \in Seq(Incompatibilities) /\ Len(facts) \in Nat
      /\ conflictFact \in 0 .. Len(facts)
  BY DEF IInv, Soundness, TypeOK
<1>6. /\ facts' \in Seq(Incompatibilities) /\ Len(facts) <= Len(facts')
      /\ Len(facts') \in Nat /\ FactsHold'
      /\ \A k \in 1 .. Len(facts) : facts'[k] = facts[k]
      /\ cause \in 1 .. Len(facts') /\ facts'[cause] = conflict
  <2>1. CASE conflictFact = 0
    <3>1. facts' = Append(facts, conflict) /\ cause = Len(facts) + 1
      BY <1>3, <2>1
    <3>2. /\ facts' \in Seq(Incompatibilities) /\ Len(facts') = Len(facts) + 1
          /\ Len(facts) \in Nat /\ facts'[Len(facts) + 1] = conflict
          /\ \A k \in 1 .. Len(facts) : facts'[k] = facts[k]
          /\ FactsHold'
      BY <1>2, <1>4, <3>1, OneMoreFact
    <3> HIDE DEF cause
    <3> QED BY <3>1, <3>2
  <2>2. CASE conflictFact # 0
    <3>1. facts' = facts /\ cause = conflictFact
      BY <1>3, <2>2
    <3>2. FactsHold'
      BY <1>2, <3>1 DEF IInv, Soundness, FactsHold, Holds
    <3> HIDE DEF cause
    <3> QED BY <1>4, <1>5, <2>2, <3>1, <3>2
  <2> QED BY <2>1, <2>2
<1>7. /\ back.kept = SubSeq(assignments, 1, n)
      /\ back.solution = [p \in Packages |-> Accumulated(assignments, n, p)]
      /\ back.decisions \in [Packages -> Selection]
  BY BacktrackKeeps
<1>8. here \in Nat
  BY DecisionLevelType
<1> HIDE DEF back, here, cause
<1>9. ASSUME assignments' \in Seq(Assignment), solution' \in [Packages -> Terms]
      PROVE  TypeOK'
  <2>1. /\ 1 .. Len(facts) \subseteq 1 .. Len(facts')
        /\ 0 .. Len(facts) \subseteq 0 .. Len(facts')
        /\ 0 \in 0 .. Len(facts')
    BY <1>5, <1>6
  <2>2. contradicted' \subseteq 1 .. Len(facts')
    BY <1>3, <1>6, <2>1 DEF IInv, Soundness, TypeOK
  <2>3. contradictedAt' \subseteq (Nat \X (1 .. Len(facts')))
    BY <1>3, <1>6, <1>8, <2>1 DEF IInv, Soundness, TypeOK
  <2>4. pc' \in {"propagate", "crashed"} /\ changed' \subseteq Packages
    BY <1>3
  <2>5. decisions' \in [Packages -> Selection]
    BY <1>3, <1>7
  <2> QED BY <1>2, <1>6, <1>9, <2>1, <2>2, <2>3, <2>4, <2>5 DEF IInv, Soundness, TypeOK
<1>10. ConflictHolds'
  BY <1>3 DEF ConflictHolds
<1>11. CASE ~ Open
  <2>1. /\ assignments' = SubSeq(assignments, 1, n)
        /\ solution' = [p \in Packages |-> Accumulated(assignments, n, p)]
    BY <1>3, <1>7, <1>11
  <2>2. /\ assignments' \in Seq(Assignment)
        /\ solution' \in [Packages -> Terms]
        /\ SolutionIsDerived'
        /\ CausesAreFacts'
        /\ RootIsChosen'
    BY <1>4, <1>6, <2>1, KeepSound
  <2> QED BY <1>2, <1>6, <1>9, <1>10, <2>2 DEF IInv, Soundness
<1>12. CASE Open
  <2>1. PICK q \in Packages :
          /\ IsOnlyOpen(q, back)
          /\ assignments' = Append(back.kept, Derivation(conflict, q, cause, here))
          /\ solution' = [back.solution EXCEPT ![q] = @ \cap Not(conflict[q])]
    BY <1>3, <1>12
  <2> DEFINE a == Derivation(conflict, q, cause, here)
             left == Accumulated(assignments, n, q)
  <2>2. /\ a.name = q /\ a.term = Not(conflict[q]) /\ a.cause = cause /\ a.level = here
        /\ a = [name |-> q, term |-> Not(conflict[q]), level |-> here, cause |-> cause]
    BY DEF Derivation
  <2>3. back.solution[q] = left
    BY <1>7
  <2>4. left \cap conflict[q] # {} /\ ~ (left \subseteq conflict[q])
    BY <2>1, <2>3 DEF IsOnlyOpen, Unsatisfied, Inconclusive, Disjoint
  <2>5. left \subseteq Selection
    BY DEF Accumulated
  <2>6. left \cap Not(conflict[q]) \in Terms /\ Not(conflict[q]) \in Terms
    BY <2>4, <2>5 DEF Terms, Not
  <2>7. cause \in Nat
    BY <1>6
  <2>8. a \in Assignment
    BY <1>8, <2>2, <2>6, <2>7 DEF Assignment
  <2>9. /\ back.kept = SubSeq(assignments, 1, n)
        /\ \A p \in Packages : Accumulated(assignments, n, p) \in Terms
    <3>1. \A p \in Packages : solution[p] # {}
                 /\ solution[p] = Accumulated(assignments, Len(assignments), p)
      BY DEF IInv, Soundness, TypeOK, SolutionIsDerived, Terms
    <3>2. \A p \in Packages : solution[p] \subseteq Accumulated(assignments, n, p)
      <4>1. Len(assignments) \in Nat /\ n \in 0 .. Len(assignments)
        BY DEF IInv, Soundness, TypeOK
      <4> QED BY <3>1, <4>1, AccumulatedShrinks
    <3>3. \A p \in Packages : Accumulated(assignments, n, p) \subseteq Selection
      BY DEF Accumulated
    <3> QED BY <1>7, <3>1, <3>2, <3>3 DEF Terms
  <2>10. Accumulated(assignments, n, Root) = {RootVersion}
    <3>1. /\ assignments[1].name = Root /\ 1 \in 1 .. n
          /\ \A k \in 1 .. n :
              assignments[k].name = Root => assignments[k].term = {RootVersion}
      BY <1>4 DEF IInv, Soundness, RootIsChosen, TypeOK
    <3> QED BY <3>1, Basics DEF Accumulated
  <2>11. q # Root
    BY <2>4, <2>10
  <2> HIDE DEF a, left
  <2>12. /\ assignments' = Append(SubSeq(assignments, 1, n), a)
         /\ solution' = [p \in Packages |->
              IF p = a.name THEN Accumulated(assignments, n, p) \cap a.term
                            ELSE Accumulated(assignments, n, p)]
    <3>1. assignments' = Append(SubSeq(assignments, 1, n), a)
      BY <1>7, <2>1 DEF a
    <3>2. solution' = [back.solution EXCEPT ![a.name] = @ \cap a.term]
      BY <2>1, <2>2
    <3>3. back.solution = [p \in Packages |-> Accumulated(assignments, n, p)]
      BY <1>7
    <3> QED BY <3>1, <3>2, <3>3
  <2>13. a.cause # 0 => /\ a.cause <= Len(facts')
                        /\ a.term = Not(facts'[a.cause][a.name])
                        /\ a.name # Root => RootVersion \in facts'[a.cause][Root]
    BY <1>4, <1>6, <2>2
  <2>14. /\ assignments' \in Seq(Assignment)
         /\ SolutionIsDerived'
         /\ CausesAreFacts'
         /\ RootIsChosen'
    BY <1>4, <1>6, <2>2, <2>8, <2>11, <2>12, <2>13, AssignSound
  <2>15. solution' \in [Packages -> Terms]
    BY <2>2, <2>6, <2>9, <2>12 DEF left
  <2> QED BY <1>2, <1>6, <1>9, <1>10, <2>14, <2>15 DEF IInv, Soundness
<1> QED BY <1>11, <1>12

-----------------------------------------------------------------------------
(* The theorems *)

(* No step of a search disturbs the inductive invariant.                    *)
LEMMA Invariance == Spec => []IInv
<1>1. Init => IInv
  BY InitSound
<1>2. IInv /\ [Next]_vars => IInv'
  <2> SUFFICES ASSUME IInv, [Next]_vars PROVE IInv'
    OBVIOUS
  <2>1. CASE TakeChanged
    BY <2>1, TakeChangedSound
  <2>2. ASSUME NEW n \in 1 .. Len(facts), Contradict(n) PROVE IInv'
    BY <2>2, ContradictSound
  <2>3. ASSUME NEW n \in 1 .. Len(facts), Skip(n) PROVE IInv'
    BY <2>3, SkipSound
  <2>4. ASSUME NEW n \in 1 .. Len(facts), Derive(n) PROVE IInv'
    BY <2>4, DeriveSound
  <2>5. ASSUME NEW n \in 1 .. Len(facts), MeetConflict(n) PROVE IInv'
    BY <2>5, MeetConflictSound
  <2>6. CASE FinishPackage
    BY <2>6, FinishPackageSound
  <2>7. CASE FinishPropagate
    BY <2>7, FinishPropagateSound
  <2>8. CASE Resolve
    BY <2>8, ResolveSound
  <2>9. CASE Backjump
    BY <2>9, BackjumpSound
  <2>10. CASE Fail
    BY <2>10, FailSound
  <2>11. ASSUME NEW p \in Packages, ChooseVersion(p) PROVE IInv'
    BY <2>11, ChooseVersionSound
  <2>12. ASSUME NEW p \in Packages, FindNoVersion(p) PROVE IInv'
    BY <2>12, FindNoVersionSound
  <2>13. CASE Succeed
    BY <2>13, SucceedSound
  <2>14. CASE Finished
    BY <2>14, StutterSound DEF Finished
  <2>15. CASE UNCHANGED vars
    BY <2>15, StutterSound
  <2> QED BY <2>1, <2>2, <2>3, <2>4, <2>5, <2>6, <2>7, <2>8, <2>9, <2>10,
             <2>11, <2>12, <2>13, <2>14, <2>15 DEF Next
<1> QED BY <1>1, <1>2, PTL DEF Spec

(* Everything the solver knows stays sound, in every state of every search: *)
(* types, incompatibilities, terms, causes, the root and the conflict.     *)
THEOREM SearchIsSound == Spec => []Soundness
<1>1. IInv => Soundness
  BY DEF IInv
<1> QED BY <1>1, Invariance, PTL

(* Every variable of the solver has its type. *)
THEOREM TypesHold == Spec => []TypeOK
<1>1. IInv => TypeOK
  BY DEF IInv, Soundness
<1> QED BY <1>1, Invariance, PTL

(* What the solver knows, learned incompatibilities included, holds in every *)
(* solution of the registry.                                               *)
THEOREM KnowledgeHolds == Spec => []FactsHold
<1>1. IInv => FactsHold
  BY DEF IInv, Soundness
<1> QED BY <1>1, Invariance, PTL

(* The positive and negative terms of the partial solution are always those *)
(* its assignments add up to, backtracking included.                       *)
THEOREM TermsAreDerived == Spec => []SolutionIsDerived
<1>1. IInv => SolutionIsDerived
  BY DEF IInv, Soundness
<1> QED BY <1>1, Invariance, PTL

(* The solver reports failure only for registries without a solution.      *)
THEOREM GivingUpIsJustified == Spec => []FailureIsJustified
<1>1. IInv => FailureIsJustified
  <2> SUFFICES ASSUME IInv, pc = "failed", NEW s \in Solutions(registry)
               PROVE  FALSE
    BY DEF FailureIsJustified
  <2>1. PICK p \in Packages : s[p] \notin conflict[p]
    BY DEF IInv, Soundness, ConflictHolds, Holds
  <2>2. s[p] \in Selection /\ s[Root] = RootVersion
    BY DEF Solutions, Answers
  <2>3. p = Root
    BY <2>1, <2>2 DEF IInv, Soundness, ConflictHolds, IsFailure, Mentions, NoTerm
  <2>4. RootVersion \in conflict[Root]
    BY DEF IInv, Soundness, ConflictHolds
  <2> QED BY <2>1, <2>2, <2>3, <2>4
<1> QED BY <1>1, Invariance, PTL

-----------------------------------------------------------------------------
(* The second invariant: the trail of assignments *)

Decided(seq, n) == {k \in 1 .. n : seq[k].cause = 0}
SolutionAt(seq, n) == [p \in Packages |-> Accumulated(seq, n, p)]

(* Decisions and the assignments without a cause are the same.             *)
Recorded(seq, n, dec) ==
  /\ \A p \in Packages : dec[p] # Absent => \E k \in Decided(seq, n) : seq[k].name = p
  /\ \A k \in Decided(seq, n) : /\ dec[seq[k].name] # Absent
                                /\ seq[k].term = {dec[seq[k].name]}
  /\ \A j, k \in Decided(seq, n) : seq[j].name = seq[k].name => j = k

DecisionsAreRecorded == Recorded(assignments, Len(assignments), decisions)

LevelsCount ==
  \A k \in 1 .. Len(assignments) :
    assignments[k].level = Cardinality(Decided(assignments, k))

(* The root project is derived first and decided next, before anything is  *)
(* learned.                                                                *)
RootIsFirst ==
  /\ assignments # << >> => assignments[1].cause # 0
  /\ Len(assignments) = 1 => /\ facts = << RootIncompatibility >>
                             /\ contradicted = {1}
                             /\ pc \in {"propagate", "choose"}
  /\ Len(assignments) > 1 => assignments[2].cause = 0 /\ assignments[2].name = Root

(* When an assignment was derived the other terms of its cause were true.  *)
CausesAreTrue ==
  \A k \in 1 .. Len(assignments) : LET a == assignments[k] IN
    a.cause # 0 => \A p \in Packages \ {a.name} :
                     Accumulated(assignments, k - 1, p) \subseteq facts[a.cause][p]

ConflictIsTrue == pc = "resolve" => \A p \in Packages : solution[p] \subseteq conflict[p]

(* The assignments up to a level make a term of i false.                   *)
Refuted(seq, i, level) ==
  \E m \in 1 .. Len(seq), p \in Packages :
    seq[m].level <= level /\ Accumulated(seq, m, p) \cap i[p] = {}

(* What contradicts a recorded incompatibility is not above its level.     *)
ContradictionsLast ==
  /\ \A k \in contradicted : \E x \in contradictedAt : x[2] = k
  /\ \A x \in contradictedAt : /\ x[1] <= Cardinality(Decided(assignments, Len(assignments)))
                               /\ Refuted(assignments, facts[x[2]], x[1])

Trail ==
  /\ DecisionsAreRecorded /\ LevelsCount /\ RootIsFirst /\ CausesAreTrue
  /\ ConflictIsTrue /\ ContradictionsLast /\ pc # "crashed"

-----------------------------------------------------------------------------
(* The third invariant: what decided versions require is propagated *)

Own(p) ==
  {IncompatibilitiesFor(p, decisions[p])[k] : k \in 1 .. Len(IncompatibilitiesFor(p, decisions[p]))}

(* _propagate has nothing to derive from i.                                *)
Settled(sol, i) == Contradicts(sol, i) \/ \E p, q \in Unsatisfied(sol, i) : p # q

(* _propagate will come to fact f.                                         *)
Scheduled(f) ==
  pc = "propagate" /\ \E p \in Packages :
    Mentions(facts[f], p) /\ (p \in changed \/ (p = package /\ f <= cursor))

DecisionsAreKnown ==
  \A j \in Decided(assignments, Len(assignments)) : LET p == assignments[j].name IN
    /\ decisions[p] \in registry.available[p] \ registry.unusable[p]
    /\ Absent \notin Accumulated(assignments, j - 1, p)
    /\ \A i \in Own(p) : \E f \in 1 .. Len(facts) : facts[f] = i

(* It was settled when a later decision was made, and it is or will be now. *)
SettledBefore ==
  \A j, m \in Decided(assignments, Len(assignments)) : j < m =>
    \A i \in Own(assignments[j].name) : Settled(SolutionAt(assignments, m - 1), i)

SettledNow ==
  pc \in {"propagate", "choose", "solved"} =>
    \A j \in Decided(assignments, Len(assignments)), f \in 1 .. Len(facts) :
      facts[f] \in Own(assignments[j].name) => Settled(solution, facts[f]) \/ Scheduled(f)

NothingIsOpen == pc = "solved" => Undecided = {}

Requirements == DecisionsAreKnown /\ SettledBefore /\ SettledNow /\ NothingIsOpen

-----------------------------------------------------------------------------
(* Prefixes of the assignments *)

LEMMA CutAppend ==
  ASSUME NEW S, NEW seq \in Seq(S), NEW n \in 0 .. Len(seq), NEW a \in S,
         NEW new, new = Append(SubSeq(seq, 1, n), a)
  PROVE  /\ new \in Seq(S) /\ Len(new) = n + 1
         /\ \A k \in 1 .. n : new[k] = seq[k]
         /\ new[n + 1] = a
<1>1. SubSeq(seq, 1, n) \in Seq(S) /\ Len(SubSeq(seq, 1, n)) = n
      /\ \A k \in 1 .. n : SubSeq(seq, 1, n)[k] = seq[k]
  OBVIOUS
<1>2. QED
  BY <1>1

LEMMA SameDecided ==
  ASSUME NEW new, NEW seq, NEW n \in Nat, \A k \in 1 .. n : new[k] = seq[k],
         NEW m \in 0 .. n
  PROVE  Decided(new, m) = Decided(seq, m)
BY DEF Decided

LEMMA SameAccumulated ==
  ASSUME NEW new, NEW seq, NEW n \in Nat, \A k \in 1 .. n : new[k] = seq[k],
         NEW m \in 0 .. n, NEW p
  PROVE  Accumulated(new, m, p) = Accumulated(seq, m, p)
BY DEF Accumulated

(* What is kept of the assignments says what it said before.               *)
LEMMA CutPrefix ==
  ASSUME NEW seq \in Seq(Assignment), NEW n \in 0 .. Len(seq), NEW a \in Assignment,
         NEW new, new = Append(SubSeq(seq, 1, n), a)
  PROVE  /\ n \in Nat /\ n <= Len(seq)
         /\ \A m \in 0 .. n : Decided(new, m) = Decided(seq, m)
         /\ \A m \in 0 .. n, p \in Packages : Accumulated(new, m, p) = Accumulated(seq, m, p)
         /\ \A m \in 0 .. n : SolutionAt(new, m) = SolutionAt(seq, m)
<1>1. n \in Nat /\ n <= Len(seq) /\ \A k \in 1 .. n : new[k] = seq[k]
  BY CutAppend
<1>2. \A m \in 0 .. n : Decided(new, m) = Decided(seq, m)
  BY <1>1, SameDecided
<1>3. \A m \in 0 .. n, p \in Packages : Accumulated(new, m, p) = Accumulated(seq, m, p)
  <2>1. ASSUME NEW m \in 0 .. n, NEW p \in Packages PROVE Accumulated(new, m, p) = Accumulated(seq, m, p)
    <3>1. \A k \in 1 .. m : new[k] = seq[k]
      BY <1>1
    <3>2. QED
      BY <3>1 DEF Accumulated
  <2>2. QED
    BY <2>1
<1>4. \A m \in 0 .. n : SolutionAt(new, m) = SolutionAt(seq, m)
  BY <1>3 DEF SolutionAt
<1>5. QED
  BY <1>1, <1>2, <1>3, <1>4

LEMMA DecidedCount ==
  ASSUME NEW seq, NEW n \in Nat
  PROVE  /\ IsFiniteSet(Decided(seq, n)) /\ Cardinality(Decided(seq, n)) \in Nat
         /\ \A m \in 0 .. n : /\ Decided(seq, m) \subseteq Decided(seq, n)
                              /\ Cardinality(Decided(seq, m)) <= Cardinality(Decided(seq, n))
<1>1. IsFiniteSet(1 .. n)
  BY FS_Interval
<1>2. Decided(seq, n) \subseteq 1 .. n
  BY DEF Decided
<1>3. IsFiniteSet(Decided(seq, n)) /\ Cardinality(Decided(seq, n)) \in Nat
  BY <1>1, <1>2, FS_Subset, FS_CardinalityType
<1>4. \A m \in 0 .. n : Decided(seq, m) \subseteq Decided(seq, n)
  BY DEF Decided
<1>5. QED
  BY <1>3, <1>4, FS_Subset

LEMMA DecidedMore ==
  ASSUME NEW seq, NEW n \in Nat, seq[n + 1].cause = 0
  PROVE  /\ Decided(seq, n + 1) = Decided(seq, n) \cup {n + 1}
         /\ Cardinality(Decided(seq, n + 1)) = Cardinality(Decided(seq, n)) + 1
<1>1. 1 .. n + 1 = 1 .. n \cup {n + 1} /\ n + 1 \notin 1 .. n
  OBVIOUS
<1>2. IsFiniteSet(Decided(seq, n)) /\ n + 1 \notin Decided(seq, n)
  BY <1>1, DecidedCount DEF Decided
<1>3. Cardinality(Decided(seq, n) \cup {n + 1}) = Cardinality(Decided(seq, n)) + 1
  BY <1>2, FS_AddElement
<1>4. QED
  BY <1>1, <1>3 DEF Decided

LEMMA DecidedAgain ==
  ASSUME NEW seq, NEW n \in Nat, seq[n + 1].cause # 0
  PROVE  Decided(seq, n + 1) = Decided(seq, n)
BY DEF Decided

(* The decision level is the number of assignments without a cause.        *)
LEMMA CountDecisions ==
  ASSUME NEW seq \in Seq(Assignment), NEW n \in 0 .. Len(seq), NEW dec, Recorded(seq, n, dec)
  PROVE  Cardinality({p \in Packages : dec[p] # Absent}) = Cardinality(Decided(seq, n))
<1>. DEFINE P == {p \in Packages : dec[p] # Absent}
            f == [k \in Decided(seq, n) |-> seq[k].name]
<1>1. \A k \in Decided(seq, n) : seq[k] \in Assignment
  BY DEF Decided
<1>2. \A k \in Decided(seq, n) : f[k] \in P
  BY <1>1 DEF Recorded, Assignment
<1>3. \A p \in P : \E k \in Decided(seq, n) : f[k] = p
  BY DEF Recorded
<1>4. \A j, k \in Decided(seq, n) : f[j] = f[k] => j = k
  BY DEF Recorded
<1>5. f \in Bijection(Decided(seq, n), P)
  <2>1. f \in [Decided(seq, n) -> P]
    BY <1>2
  <2>. HIDE DEF f, P
  <2>2. f \in Injection(Decided(seq, n), P) /\ f \in Surjection(Decided(seq, n), P)
    BY <1>3, <1>4, <2>1 DEF Injection, Surjection, IsInjective
  <2>3. QED
    BY <2>2 DEF Bijection
<1>6. ExistsBijection(Decided(seq, n), P)
  BY <1>5 DEF ExistsBijection
<1>7. QED
  BY <1>6, DecidedCount, FS_Bijection

-----------------------------------------------------------------------------
(* What a step does to the trail *)

LEMMA TrailTypes ==
  ASSUME IInv
  PROVE  /\ assignments \in Seq(Assignment) /\ Len(assignments) \in Nat
         /\ facts \in Seq(Incompatibilities) /\ Len(facts) \in Nat
         /\ \A k \in 1 .. Len(assignments) :
              /\ assignments[k] \in Assignment
              /\ assignments[k].name \in Packages /\ assignments[k].level \in Nat
              /\ assignments[k].term \in Terms
              /\ assignments[k].cause # 0 => assignments[k].cause \in 1 .. Len(facts)
         /\ \A k \in 1 .. Len(facts) : facts[k] \in [Packages -> Terms]
         /\ contradicted \subseteq 1 .. Len(facts)
         /\ \A x \in contradictedAt : x[1] \in Nat /\ x[2] \in 1 .. Len(facts)
         /\ decisions \in [Packages -> Selection]
         /\ \A p \in Packages : solution[p] \in Terms
         /\ solution = SolutionAt(assignments, Len(assignments))
<1>1. /\ assignments \in Seq(Assignment) /\ facts \in Seq(Incompatibilities)
      /\ contradicted \subseteq 1 .. Len(facts)
      /\ contradictedAt \subseteq (Nat \X (1 .. Len(facts)))
      /\ decisions \in [Packages -> Selection]
      /\ solution \in [Packages -> Terms]
  BY DEF IInv, Soundness, TypeOK
<1>2. Len(assignments) \in Nat /\ Len(facts) \in Nat
      /\ \A k \in 1 .. Len(assignments) : assignments[k] \in Assignment
  BY <1>1
<1>3. \A k \in 1 .. Len(assignments) :
        assignments[k].cause # 0 => assignments[k].cause <= Len(facts)
  BY DEF IInv, Soundness, CausesAreFacts
<1>4. \A k \in 1 .. Len(facts) : facts[k] \in [Packages -> Terms]
  BY <1>1 DEF Incompatibilities
<1>5. solution = SolutionAt(assignments, Len(assignments))
  BY <1>1 DEF IInv, Soundness, SolutionIsDerived, SolutionAt
<1>6. \A a \in Assignment : /\ a.name \in Packages /\ a.level \in Nat
                            /\ a.term \in Terms /\ a.cause \in Nat
  BY DEF Assignment
<1>7. \A k \in 1 .. Len(assignments) :
        assignments[k].cause # 0 => assignments[k].cause \in 1 .. Len(facts)
  BY <1>2, <1>3, <1>6
<1>8. \A x \in contradictedAt : x[1] \in Nat /\ x[2] \in 1 .. Len(facts)
  BY <1>1
<1>9. QED
  BY <1>1, <1>2, <1>4, <1>5, <1>6, <1>7, <1>8

LEMMA RefutedKept ==
  ASSUME NEW seq, NEW new, NEW n \in Nat, Len(seq) \in Nat, Len(new) \in Nat, n <= Len(new),
         \A k \in 1 .. n : new[k] = seq[k],
         NEW i, NEW level \in Nat, Refuted(seq, i, level),
         \A k \in n + 1 .. Len(seq) : seq[k].level > level /\ seq[k].level \in Nat
  PROVE  Refuted(new, i, level)
<1>1. PICK m \in 1 .. Len(seq), p \in Packages :
        seq[m].level <= level /\ Accumulated(seq, m, p) \cap i[p] = {}
  BY DEF Refuted
<1>2. m \in 1 .. n
  <2>1. m > n => m \in n + 1 .. Len(seq)
    OBVIOUS
  <2>2. QED
    BY <1>1, <2>1
<1>3. m \in 1 .. Len(new) /\ new[m] = seq[m]
  BY <1>2
<1>4. Accumulated(new, m, p) = Accumulated(seq, m, p)
  <2>1. m \in 0 .. n
    BY <1>2
  <2>2. n \in Nat /\ \A k \in 1 .. n : new[k] = seq[k]
    OBVIOUS
  <2>3. QED
    BY ONLY <2>1, <2>2, SameAccumulated
<1>5. QED
  BY <1>1, <1>3, <1>4 DEF Refuted

LEMMA RefutedContradicts ==
  ASSUME NEW seq, Len(seq) \in Nat, NEW i, NEW level, Refuted(seq, i, level)
  PROVE  Contradicts(SolutionAt(seq, Len(seq)), i)
<1>1. PICK m \in 1 .. Len(seq), p \in Packages : Accumulated(seq, m, p) \cap i[p] = {}
  BY DEF Refuted
<1>2. Accumulated(seq, Len(seq), p) \subseteq Accumulated(seq, m, p)
  BY AccumulatedShrinks
<1>3. QED
  BY <1>1, <1>2 DEF Contradicts, Disjoint, SolutionAt

(* A step that leaves the assignments alone.                               *)
LEMMA StayOnTrail ==
  ASSUME IInv, Trail, UNCHANGED <<assignments, decisions>>, Len(facts) <= Len(facts'),
         \A k \in 1 .. Len(facts) : facts'[k] = facts[k]
  PROVE  /\ DecisionsAreRecorded' /\ LevelsCount' /\ CausesAreTrue'
         /\ UNCHANGED <<contradicted, contradictedAt>> => ContradictionsLast'
<1>1. DecisionsAreRecorded' /\ LevelsCount'
  BY DEF Trail, DecisionsAreRecorded, LevelsCount
<1>2. CausesAreTrue'
  BY TrailTypes DEF Trail, CausesAreTrue
<1>3. UNCHANGED <<contradicted, contradictedAt>> => ContradictionsLast'
  <2>1. \A x \in contradictedAt : facts'[x[2]] = facts[x[2]]
    BY TrailTypes
  <2>2. ContradictionsLast
    BY DEF Trail
  <2>3. QED
    BY <2>1, <2>2, SMTT(30) DEF ContradictionsLast, Refuted
<1>4. QED
  BY <1>1, <1>2, <1>3

(* The first n assignments stay and one comes behind them.                 *)
LEMMA ExtendLevels ==
  ASSUME IInv, Trail, NEW n \in 0 .. Len(assignments), NEW a \in Assignment,
         assignments' = Append(SubSeq(assignments, 1, n), a),
         a.level = Cardinality(Decided(assignments, n)) + (IF a.cause = 0 THEN 1 ELSE 0)
  PROVE  LevelsCount'
<1>1. /\ Len(assignments') = n + 1 /\ assignments'[n + 1] = a
      /\ \A k \in 1 .. n : assignments'[k] = assignments[k]
  BY TrailTypes, CutAppend
<1>2. ASSUME NEW m \in 0 .. n PROVE Decided(assignments', m) = Decided(assignments, m)
  BY TrailTypes, CutPrefix
<1>0. n \in Nat
  BY TrailTypes
<1>3. \A k \in 1 .. n : assignments'[k].level = Cardinality(Decided(assignments', k))
  BY <1>0, <1>1, <1>2, TrailTypes DEF Trail, LevelsCount
<1>4. Cardinality(Decided(assignments', n)) = Cardinality(Decided(assignments, n))
      /\ Cardinality(Decided(assignments, n)) \in Nat
  BY <1>0, <1>2, DecidedCount
<1>5. assignments'[n + 1].level = Cardinality(Decided(assignments', n + 1))
  <2>1. CASE a.cause = 0
    <3>1. Cardinality(Decided(assignments', n + 1)) = Cardinality(Decided(assignments', n)) + 1
      BY <1>0, <1>1, <2>1, DecidedMore
    <3>2. QED
      BY <1>1, <1>4, <2>1, <3>1
  <2>2. CASE a.cause # 0
    <3>1. Decided(assignments', n + 1) = Decided(assignments', n)
      BY <1>0, <1>1, <2>2, DecidedAgain
    <3>2. a.level = Cardinality(Decided(assignments, n))
      BY <1>4, <2>2
    <3>3. QED
      BY <1>1, <1>4, <3>1, <3>2
  <2>3. QED
    BY <2>1, <2>2
<1>6. QED
  BY <1>1, <1>3, <1>5 DEF LevelsCount

LEMMA ExtendCauses ==
  ASSUME IInv, Trail, NEW n \in 0 .. Len(assignments), NEW a \in Assignment,
         assignments' = Append(SubSeq(assignments, 1, n), a),
         Len(facts) <= Len(facts'), \A k \in 1 .. Len(facts) : facts'[k] = facts[k],
         a.cause # 0 => \A p \in Packages \ {a.name} :
                          Accumulated(assignments, n, p) \subseteq facts'[a.cause][p]
  PROVE  CausesAreTrue'
<1>1. /\ Len(assignments') = n + 1 /\ assignments'[n + 1] = a
      /\ \A k \in 1 .. n : assignments'[k] = assignments[k]
  BY TrailTypes, CutAppend
<1>0. assignments \in Seq(Assignment)
  BY TrailTypes
<1>2. /\ n \in Nat
      /\ \A m \in 0 .. n, p \in Packages :
           Accumulated(assignments', m, p) = Accumulated(assignments, m, p)
  <2>1. PICK new : new = assignments'
    OBVIOUS
  <2>2. new = Append(SubSeq(assignments, 1, n), a)
    BY <2>1
  <2>3. \A m \in 0 .. n, p \in Packages : Accumulated(new, m, p) = Accumulated(assignments, m, p)
    BY <1>0, <2>2, CutPrefix
  <2>4. QED
    BY <1>0, <2>1, <2>3
<1>3. ASSUME NEW k \in 1 .. n + 1, assignments'[k].cause # 0,
             NEW p \in Packages \ {assignments'[k].name}
      PROVE  Accumulated(assignments', k - 1, p) \subseteq facts'[assignments'[k].cause][p]
  <2>1. CASE k \in 1 .. n
    <3>1. assignments'[k] = assignments[k] /\ k - 1 \in 0 .. n /\ k \in 1 .. Len(assignments)
      BY <1>1, <2>1
    <3>2. assignments[k].cause \in 1 .. Len(facts)
      BY <1>3, <3>1, TrailTypes
    <3>3. Accumulated(assignments, k - 1, p) \subseteq facts[assignments[k].cause][p]
      BY <1>3, <3>1 DEF Trail, CausesAreTrue
    <3>4. QED
      BY <1>2, <3>1, <3>2, <3>3
  <2>2. CASE k = n + 1
    <3>1. assignments'[k] = a /\ k - 1 = n
      BY <1>1, <1>2, <2>2
    <3>2. Accumulated(assignments, n, p) \subseteq facts'[a.cause][p]
      BY <1>3, <3>1
    <3>3. Accumulated(assignments', n, p) = Accumulated(assignments, n, p)
      BY <1>2
    <3>4. QED
      BY <3>1, <3>2, <3>3
  <2>3. QED
    BY <1>2, <2>1, <2>2
<1>4. QED
  BY <1>1, <1>3 DEF CausesAreTrue

LEMMA CutNothing ==
  ASSUME NEW S, NEW seq \in Seq(S)
  PROVE  SubSeq(seq, 1, Len(seq)) = seq
OBVIOUS

(* The record of decisions goes with the assignments.                      *)
LEMMA RecordDecision ==
  ASSUME NEW seq \in Seq(Assignment), NEW a \in Assignment, NEW new, new = Append(seq, a),
         NEW dec \in [Packages -> Selection], Recorded(seq, Len(seq), dec),
         NEW v \in Versions, a.cause = 0, a.term = {v}, dec[a.name] = Absent
  PROVE  Recorded(new, Len(new), [dec EXCEPT ![a.name] = v])
<1>1. /\ Len(seq) \in Nat /\ Len(new) = Len(seq) + 1 /\ new[Len(seq) + 1] = a
      /\ \A k \in 1 .. Len(seq) : new[k] = seq[k]
  OBVIOUS
<1>2. Decided(new, Len(new)) = Decided(seq, Len(seq)) \cup {Len(seq) + 1}
  <2>1. Decided(new, Len(seq) + 1) = Decided(new, Len(seq)) \cup {Len(seq) + 1}
    BY <1>1, DecidedMore
  <2>2. Decided(new, Len(seq)) = Decided(seq, Len(seq))
    BY <1>1 DEF Decided
  <2>3. QED
    BY <1>1, <2>1, <2>2
<1>3. a.name \in Packages /\ v # Absent
  BY Basics DEF Assignment
<1>. DEFINE D == Decided(seq, Len(seq))
<1>4. \A k \in D : /\ new[k] = seq[k] /\ k # Len(seq) + 1
                   /\ seq[k].name # a.name /\ seq[k].name \in Packages
  <2>1. \A k \in D : k \in 1 .. Len(seq) /\ seq[k] \in Assignment
    BY DEF Decided
  <2>2. \A k \in D : seq[k].name # a.name /\ seq[k].name \in Packages
    BY <2>1 DEF Recorded, Assignment
  <2>3. QED
    BY <1>1, <2>1, <2>2
<1>5. PICK d : d = [dec EXCEPT ![a.name] = v]
  OBVIOUS
<1>6. d[a.name] = v /\ \A p \in Packages : p # a.name => d[p] = dec[p]
  BY <1>3, <1>5
<1>. DEFINE E == D \cup {Len(seq) + 1}
<1>10. Recorded(seq, Len(seq), dec)
  OBVIOUS
<1>. HIDE DEF D
<1>7. \A p \in Packages : d[p] # Absent => \E k \in E : new[k].name = p
  <2>1. \A p \in Packages : dec[p] # Absent => \E k \in D : seq[k].name = p
    BY <1>10 DEF Recorded, D
  <2>2. ASSUME NEW p \in Packages, d[p] # Absent PROVE \E k \in E : new[k].name = p
    <3>1. CASE p = a.name
      BY <1>1, <3>1
    <3>2. CASE p # a.name
      <4>1. PICK k \in D : seq[k].name = p
        BY <1>6, <2>1, <2>2, <3>2
      <4>2. QED
        BY <1>4, <4>1
    <3>3. QED
      BY <3>1, <3>2
  <2>3. QED
    BY <2>2
<1>8. \A k \in E : d[new[k].name] # Absent /\ new[k].term = {d[new[k].name]}
  <2>1. \A k \in D : dec[seq[k].name] # Absent /\ seq[k].term = {dec[seq[k].name]}
    BY <1>10 DEF Recorded, D
  <2>2. \A k \in D : d[new[k].name] # Absent /\ new[k].term = {d[new[k].name]}
    <3>1. ASSUME NEW k \in D PROVE d[new[k].name] # Absent /\ new[k].term = {d[new[k].name]}
      <4>1. new[k] = seq[k] /\ d[seq[k].name] = dec[seq[k].name]
        BY <1>4, <1>6
      <4>2. QED
        BY <2>1, <4>1
    <3>2. QED
      BY <3>1
  <2>3. QED
    BY <1>1, <1>3, <1>6, <2>2
<1>9. \A j, k \in E : new[j].name = new[k].name => j = k
  <2>1. \A j, k \in D : seq[j].name = seq[k].name => j = k
    BY <1>10 DEF Recorded, D
  <2>2. ASSUME NEW j \in D, NEW k \in D, new[j].name = new[k].name PROVE j = k
    <3>1. new[j] = seq[j] /\ new[k] = seq[k]
      BY <1>4
    <3>2. QED
      BY <2>1, <2>2, <3>1
  <2>3. \A k \in D : new[k].name # a.name
    <3>1. ASSUME NEW k \in D PROVE new[k].name # a.name
      <4>1. new[k] = seq[k] /\ seq[k].name # a.name
        BY <1>4
      <4>2. QED
        BY <4>1
    <3>2. QED
      BY <3>1
  <2>4. new[Len(seq) + 1].name = a.name
    BY <1>1
  <2>5. ASSUME NEW j \in E, NEW k \in E, new[j].name = new[k].name PROVE j = k
    <3>1. CASE j \in D /\ k \in D
      BY <2>2, <2>5, <3>1
    <3>2. CASE j = Len(seq) + 1 /\ k = Len(seq) + 1
      BY <3>2
    <3>3. CASE j \in D /\ k = Len(seq) + 1
      BY <2>3, <2>4, <2>5, <3>3
    <3>4. CASE j = Len(seq) + 1 /\ k \in D
      BY <2>3, <2>4, <2>5, <3>4
    <3>5. QED
      BY <3>1, <3>2, <3>3, <3>4
  <2>6. QED
    BY <2>5
<1>11. E = Decided(new, Len(new))
  BY <1>2 DEF D
<1>12. Recorded(new, Len(new), d)
  BY <1>7, <1>8, <1>9, <1>11, ZenonT(30) DEF Recorded
<1>13. QED
  BY <1>5, <1>12

LEMMA RecordDerivation ==
  ASSUME NEW seq \in Seq(Assignment), NEW n \in 0 .. Len(seq), NEW a \in Assignment,
         NEW new, new = Append(SubSeq(seq, 1, n), a),
         NEW dec, Recorded(seq, n, dec), a.cause # 0
  PROVE  Recorded(new, Len(new), dec)
<1>1. /\ n \in Nat /\ Len(new) = n + 1 /\ new[n + 1] = a
      /\ \A k \in 1 .. n : new[k] = seq[k]
  BY CutAppend
<1>2. Decided(new, n) = Decided(seq, n)
  BY <1>1 DEF Decided
<1>3. Decided(new, Len(new)) = Decided(seq, n)
  BY <1>1, <1>2, DecidedAgain
<1>4. \A k \in Decided(seq, n) : new[k] = seq[k]
  BY <1>1 DEF Decided
<1>5. ASSUME NEW p \in Packages, dec[p] # Absent
      PROVE  \E k \in Decided(seq, n) : new[k].name = p
  <2>1. PICK k \in Decided(seq, n) : seq[k].name = p
    BY <1>5 DEF Recorded
  <2>2. QED
    BY <1>4, <2>1
<1>8. ASSUME NEW k \in Decided(seq, n)
      PROVE  dec[new[k].name] # Absent /\ new[k].term = {dec[new[k].name]}
  <2>1. dec[seq[k].name] # Absent /\ seq[k].term = {dec[seq[k].name]}
    BY DEF Recorded
  <2>2. QED
    BY <1>4, <2>1
<1>6. ASSUME NEW j \in Decided(seq, n), NEW k \in Decided(seq, n), new[j].name = new[k].name
      PROVE  j = k
  <2>1. seq[j].name = seq[k].name
    <3>1. new[j] = seq[j] /\ new[k] = seq[k]
      BY <1>4
    <3>2. QED
      BY <1>6, <3>1
  <2>2. QED
    BY <2>1 DEF Recorded
<1>7. QED
  BY <1>3, <1>5, <1>6, <1>8 DEF Recorded

(* Taking back the assignments behind the n-th takes back their decisions. *)
LEMMA RecordBacktrack ==
  ASSUME IInv, DecisionsAreRecorded, NEW n \in 0 .. Len(assignments)
  PROVE  Recorded(assignments, n, Backtrack(n).decisions)
<1>1. n \in Nat /\ Len(assignments) \in Nat /\ n <= Len(assignments)
  BY TrailTypes
<1>. DEFINE undone == {assignments[k].name :
                         k \in {j \in n + 1 .. Len(assignments) : assignments[j].cause = 0}}
<1>2. PICK d : d = Backtrack(n).decisions
  OBVIOUS
<1>3. \A p \in Packages : d[p] = IF p \in undone THEN Absent ELSE decisions[p]
  BY <1>2 DEF Backtrack
<1>. DEFINE D == Decided(assignments, Len(assignments))
<1>4. Recorded(assignments, Len(assignments), decisions)
  BY DEF DecisionsAreRecorded
<1>5. \A k \in Decided(assignments, n) : /\ k \in D /\ k <= n /\ k \in Nat
                                         /\ assignments[k].name \in Packages
  BY <1>1, TrailTypes DEF Decided
<1>6. \A k \in D : k <= n => k \in Decided(assignments, n)
  BY <1>1 DEF Decided
<1>7. \A k \in D : k > n => assignments[k].name \in undone
  BY <1>1 DEF Decided
<1>8. \A k \in Decided(assignments, n) : assignments[k].name \notin undone
  <2>1. ASSUME NEW k \in Decided(assignments, n), NEW j \in n + 1 .. Len(assignments),
               assignments[j].cause = 0, assignments[j].name = assignments[k].name
        PROVE  FALSE
    <3>1. j \in D /\ k \in D /\ j # k
      BY <1>1, <1>5, <2>1 DEF Decided
    <3>2. QED
      BY <1>4, <2>1, <3>1 DEF Recorded
  <2>2. QED
    BY <2>1
<1>. HIDE DEF undone
<1>9. \A k \in D : k \in Nat
  BY DEF Decided
<1>10. \A p \in Packages : d[p] # Absent =>
         \E k \in Decided(assignments, n) : assignments[k].name = p
  <2>1. ASSUME NEW p \in Packages, d[p] # Absent
        PROVE  \E k \in Decided(assignments, n) : assignments[k].name = p
    <3>1. p \notin undone /\ decisions[p] # Absent
      BY <1>3, <2>1
    <3>2. PICK k \in D : assignments[k].name = p
      BY <1>4, <3>1 DEF Recorded
    <3>3. k <= n
      BY <1>1, <1>7, <1>9, <3>1, <3>2
    <3>4. QED
      BY <1>6, <3>2, <3>3
  <2>2. QED
    BY <2>1
<1>11. \A k \in Decided(assignments, n) :
         d[assignments[k].name] # Absent /\ assignments[k].term = {d[assignments[k].name]}
  BY <1>3, <1>4, <1>5, <1>8 DEF Recorded
<1>12. \A j, k \in Decided(assignments, n) : assignments[j].name = assignments[k].name => j = k
  BY <1>4, <1>5 DEF Recorded
<1>13. Recorded(assignments, n, d)
  BY <1>10, <1>11, <1>12 DEF Recorded
<1>14. QED
  BY <1>2, <1>13

-----------------------------------------------------------------------------
(* The first steps of a search *)

LEMMA LevelIsCount ==
  ASSUME IInv, Trail
  PROVE  /\ DecisionLevel = Cardinality(Decided(assignments, Len(assignments)))
         /\ DecisionLevel \in Nat
<1>1. assignments \in Seq(Assignment) /\ Len(assignments) \in 0 .. Len(assignments)
  BY TrailTypes
<1>2. DecisionLevel = Cardinality(Decided(assignments, Len(assignments)))
  BY <1>1, CountDecisions DEF DecisionLevel, Trail, DecisionsAreRecorded
<1>3. QED
  BY <1>1, <1>2, DecidedCount

(* Only the root project is known: it is the one thing to decide.          *)
LEMMA OnlyRoot ==
  ASSUME IInv, Trail, Len(assignments) = 1
  PROVE  /\ \A n \in 1 .. Len(facts) : ~ Examining(n)
         /\ pc \in {"propagate", "choose"}
         /\ Undecided = {Root}
         /\ \A p \in Packages \ {Root} : solution[p] = Selection
         /\ solution[Root] = {RootVersion}
<1>1. /\ facts = << RootIncompatibility >> /\ contradicted = {1}
      /\ pc \in {"propagate", "choose"} /\ assignments[1].cause # 0
  BY DEF Trail, RootIsFirst
<1>2. \A n \in 1 .. Len(facts) : ~ Examining(n)
  BY <1>1 DEF Examining, IsNext
<1>3. Decided(assignments, 1) = {}
  BY <1>1 DEF Decided
<1>4. \A p \in Packages : decisions[p] = Absent
  BY <1>3 DEF Trail, DecisionsAreRecorded, Recorded
<1>5. assignments[1].name = Root /\ solution[Root] = {RootVersion}
  BY DEF IInv, Soundness, RootIsChosen
<1>6. \A p \in Packages \ {Root} : solution[p] = Selection
  <2>1. solution = SolutionAt(assignments, 1)
    BY TrailTypes
  <2>2. \A p \in Packages : solution[p] = Accumulated(assignments, 1, p)
    BY <2>1 DEF SolutionAt
  <2>3. \A k \in 1 .. 1 : assignments[k].name = Root
    BY <1>5
  <2>4. QED
    BY <2>2, <2>3 DEF Accumulated
<1>7. Undecided = {Root}
  BY <1>4, <1>5, <1>6, Basics DEF Undecided, Positive, IsPositive, Selection
<1>8. QED
  BY <1>1, <1>2, <1>5, <1>6, <1>7

(* Nothing can keep the solver from deciding the root project.             *)
LEMMA RootCanBeChosen ==
  ASSUME IInv, Trail, Len(assignments) = 1
  PROVE  /\ Candidates(Root) = {RootVersion}
         /\ ~ WouldConflict(Root, RootVersion)
<1>1. /\ solution[Root] = {RootVersion}
      /\ \A p \in Packages \ {Root} : solution[p] = Selection
  BY OnlyRoot
<1>2. /\ registry \in Registries /\ registry.available[Root] = {RootVersion}
      /\ registry.locked[Root] \in {RootVersion, Absent}
      /\ registry.unusable[Root] = {}
  BY RegistryFacts, Basics, RegistryAssumption DEF IInv
<1>3. Candidates(Root) = {RootVersion}
  BY <1>1, <1>2, Basics DEF Candidates
<1>. DEFINE requires == registry.requires[Root][RootVersion]
<1>4. \A k \in 1 .. Len(requires) : /\ requires[k].name \in Packages \ {Root}
                                    /\ requires[k].constraint \in (SUBSET Versions) \ {{}}
  <2>1. requires \in Seq(Dependency)
    BY <1>2, Basics, RegistryFacts
  <2>2. \A k \in 1 .. Len(requires) : requires[k] \in Dependency
    BY <2>1
  <2>3. QED
    BY <2>2 DEF Dependency
<1>5. ASSUME NEW k \in 1 .. Len(requires)
      PROVE  LET i == Requires(Root, RootVersion, requires[k])
             IN  ~ solution[requires[k].name] \subseteq i[requires[k].name]
  <2>. DEFINE dep == requires[k]
              i == Requires(Root, RootVersion, dep)
  <2>1. dep.name \in Packages \ {Root} /\ dep.constraint \in (SUBSET Versions) \ {{}}
    BY <1>4
  <2>2. i[dep.name] = Not(dep.constraint)
    BY <2>1 DEF Requires, Nothing
  <2>3. solution[dep.name] = Selection
    BY <1>1, <2>1
  <2>4. QED
    BY <2>1, <2>2, <2>3 DEF Not, Selection
<1>6. IncompatibilitiesFor(Root, RootVersion) =
        [k \in 1 .. Len(requires) |-> Requires(Root, RootVersion, requires[k])]
  BY <1>2 DEF IncompatibilitiesFor
<1>7. Len(requires) \in Nat
  BY <1>2, Basics, RegistryFacts
<1>. HIDE DEF requires
<1>8. Len(IncompatibilitiesFor(Root, RootVersion)) = Len(requires)
  BY <1>6, <1>7
<1>9. ~ WouldConflict(Root, RootVersion)
  BY <1>4, <1>5, <1>6, <1>8 DEF WouldConflict
<1>10. QED
  BY <1>3, <1>9

-----------------------------------------------------------------------------
(* Every step keeps the trail *)

(* Steps that change what _propagate looks at, and no more.                *)
LEMMA LookingOnTrail ==
  ASSUME IInv, Trail,
         \/ TakeChanged \/ FinishPackage \/ FinishPropagate \/ Fail \/ Succeed \/ UNCHANGED vars
         \/ \E n \in 1 .. Len(facts) : Skip(n)
  PROVE  Trail'
<1>1. /\ UNCHANGED <<facts, contradicted, contradictedAt, assignments, decisions, solution>>
      /\ conflict' = conflict
  BY DEF TakeChanged, FinishPackage, FinishPropagate, Fail, Succeed, Skip, vars, knowledge,
         partialSolution
<1>2. pc' = pc \/ (pc = "propagate" /\ pc' = "choose")
      \/ (pc = "choose" /\ pc' = "solved" /\ Undecided = {}) \/ (pc = "resolve" /\ pc' = "failed")
  BY DEF TakeChanged, FinishPackage, FinishPropagate, Fail, Succeed, Skip, vars
<1>3. DecisionsAreRecorded' /\ LevelsCount' /\ CausesAreTrue' /\ ContradictionsLast'
  BY <1>1, TrailTypes, StayOnTrail
<1>4. RootIsFirst'
  BY <1>1, <1>2, OnlyRoot DEF Trail, RootIsFirst
<1>5. ConflictIsTrue' /\ pc' # "crashed"
  BY <1>1, <1>2 DEF Trail, ConflictIsTrue
<1>6. QED
  BY <1>3, <1>4, <1>5 DEF Trail

LEMMA LastLevel ==
  ASSUME IInv, Trail, Len(assignments) >= 1
  PROVE  assignments[Len(assignments)].level = DecisionLevel
BY TrailTypes, LevelIsCount DEF Trail, LevelsCount

(* What has no false term at the start cannot be contradicted.             *)
LEMMA ContradictionIsLater ==
  ASSUME IInv, NEW i \in [Packages -> Terms], Contradicts(solution, i)
  PROVE  Len(assignments) >= 1
<1>1. SUFFICES ASSUME Len(assignments) = 0 PROVE FALSE
  BY TrailTypes
<1>2. PICK p \in Packages : solution[p] \cap i[p] = {}
  BY DEF Contradicts, Disjoint
<1>3. solution[p] = Selection
  <2>1. solution = SolutionAt(assignments, 0)
    BY <1>1, TrailTypes
  <2>2. solution[p] = Accumulated(assignments, 0, p)
    BY <2>1 DEF SolutionAt
  <2>3. 1 .. 0 = {}
    OBVIOUS
  <2>4. QED
    BY <2>2, <2>3 DEF Accumulated
<1>4. QED
  BY <1>2, <1>3 DEF Terms

LEMMA ContradictOnTrail ==
  ASSUME IInv, Trail, NEW n \in 1 .. Len(facts), Contradict(n)
  PROVE  Trail'
<1>1. /\ UNCHANGED <<facts, assignments, decisions, solution, pc>>
      /\ Examining(n) /\ Contradicts(solution, facts[n]) /\ pc = "propagate"
      /\ contradicted' = contradicted \cup {n}
      /\ contradictedAt' = contradictedAt \cup {<<DecisionLevel, n>>}
  BY DEF Contradict, Examining, partialSolution
<1>2. DecisionsAreRecorded' /\ LevelsCount' /\ CausesAreTrue'
  BY <1>1, TrailTypes, StayOnTrail
<1>3. RootIsFirst'
  BY <1>1, OnlyRoot DEF Trail, RootIsFirst
<1>4. Len(assignments) >= 1 /\ Len(assignments) \in Nat
  BY <1>1, ContradictionIsLater, TrailTypes
<1>5. Refuted(assignments, facts[n], DecisionLevel)
  <2>1. PICK p \in Packages : solution[p] \cap facts[n][p] = {}
    BY <1>1 DEF Contradicts, Disjoint
  <2>2. solution[p] = Accumulated(assignments, Len(assignments), p)
    BY TrailTypes DEF SolutionAt
  <2>3. assignments[Len(assignments)].level <= DecisionLevel
    BY <1>4, LastLevel, LevelIsCount
  <2>4. QED
    BY <1>4, <2>1, <2>2, <2>3 DEF Refuted
<1>6. ContradictionsLast'
  <2>1. \A x \in contradictedAt' :
          /\ x[1] <= Cardinality(Decided(assignments, Len(assignments)))
          /\ Refuted(assignments, facts[x[2]], x[1])
    BY <1>1, <1>5, LevelIsCount DEF Trail, ContradictionsLast
  <2>2. \A k \in contradicted' : \E x \in contradictedAt' : x[2] = k
    <3>1. \A k \in contradicted : \E x \in contradictedAt : x[2] = k
      BY DEF Trail, ContradictionsLast
    <3>2. \A k \in contradicted : \E x \in contradictedAt' : x[2] = k
      BY <1>1, <3>1
    <3>3. \E x \in contradictedAt' : x[2] = n
      <4>1. <<DecisionLevel, n>>[2] = n /\ <<DecisionLevel, n>> \in contradictedAt'
        BY <1>1
      <4>2. QED
        BY <4>1
    <3>4. QED
      BY <1>1, <3>2, <3>3
  <2>3. QED
    BY <1>1, <2>1, <2>2 DEF ContradictionsLast
<1>7. ConflictIsTrue' /\ pc' # "crashed"
  BY <1>1 DEF ConflictIsTrue
<1>8. QED
  BY <1>2, <1>3, <1>6, <1>7 DEF Trail

LEMMA MeetConflictOnTrail ==
  ASSUME IInv, Trail, NEW n \in 1 .. Len(facts), MeetConflict(n)
  PROVE  Trail'
<1>1. /\ UNCHANGED <<facts, contradicted, contradictedAt, assignments, decisions, solution>>
      /\ Examining(n) /\ pc' = "resolve" /\ conflict' = facts[n]
      /\ ~ Contradicts(solution, facts[n]) /\ Unsatisfied(solution, facts[n]) = {}
  BY DEF MeetConflict, partialSolution, knowledge
<1>2. DecisionsAreRecorded' /\ LevelsCount' /\ CausesAreTrue' /\ ContradictionsLast'
  BY <1>1, TrailTypes, StayOnTrail
<1>3. RootIsFirst'
  BY <1>1, OnlyRoot DEF Trail, RootIsFirst
<1>4. ConflictIsTrue' /\ pc' # "crashed"
  BY <1>1 DEF ConflictIsTrue, Unsatisfied, Contradicts, Inconclusive
<1>5. QED
  BY <1>2, <1>3, <1>4 DEF Trail


(* Leaving out positive terms about the root project widens an             *)
(* incompatibility.                                                        *)
LEMMA DropRootWidens ==
  ASSUME NEW i, DOMAIN i = Packages, NEW q \in Packages, NEW t \in SUBSET Selection, t \subseteq i[q]
  PROVE  t \subseteq DropRoot(i)[q]
BY Basics DEF DropRoot, NoTerm

(* What the partial solution says is true of the resolvent too: no term of *)
(* it can be empty.                                                        *)
LEMMA ResolventIsTrue ==
  ASSUME IInv, Trail, pc = "resolve", NEW n \in 1 .. Len(assignments), NEW p \in Packages,
         IsMostRecent(n, p), assignments[n].cause # 0, NEW q \in Packages
  PROVE  solution[q] \subseteq Resolvent(n, p)[q] /\ solution[q] # {}
<1>. DEFINE c     == facts[assignments[n].cause]
            a     == assignments[n].term
            d     == Difference(n, p)
            rest  == Not(d)
            extra == IF d = {} \/ Constraint(rest) = Constraint(a) THEN NoTerm ELSE rest
            base  == IF Constraint(c[p]) = Constraint(a) THEN NoTerm ELSE c[p]
            left  == DropRoot(conflict)
            right == DropRoot(c)
            all   == [r \in Packages |-> IF r = p THEN base \cap extra ELSE left[r] \cap right[r]]
<1>1. /\ assignments[n].name = p /\ assignments[n].cause \in 1 .. Len(facts)
      /\ c \in [Packages -> Terms]
      /\ solution[q] \in Terms /\ solution[q] \in SUBSET Selection
  BY TrailTypes DEF IsMostRecent, Terms
<1>2. a = Not(c[p])
  BY <1>1 DEF IInv, Soundness, CausesAreFacts
<1>3. conflict \in [Packages -> SUBSET Selection] /\ solution[q] \subseteq conflict[q]
  BY DEF IInv, Soundness, TypeOK, Trail, ConflictIsTrue
<1>4. c[p] \in SUBSET Selection
  BY <1>1 DEF Terms
<1>5. base = NoTerm
  BY <1>2, <1>4, ConstraintOfNot
<1>6. q # p => solution[q] \subseteq c[q]
  <2>1. SUFFICES ASSUME q # p PROVE solution[q] \subseteq c[q]
    OBVIOUS
  <2>2. Accumulated(assignments, n - 1, q) \subseteq c[q]
    BY <1>1, <2>1 DEF Trail, CausesAreTrue
  <2>3. solution[q] = Accumulated(assignments, Len(assignments), q)
    BY DEF IInv, Soundness, SolutionIsDerived
  <2>4. Len(assignments) \in Nat /\ n - 1 \in 0 .. Len(assignments)
    BY TrailTypes
  <2>5. QED
    BY <2>2, <2>3, <2>4, AccumulatedShrinks
<1>7. q = p => solution[q] \subseteq extra
  <2>1. q = p => solution[q] \subseteq rest
    BY <1>1, <1>3 DEF Difference, Not
  <2>2. QED
    BY <1>1, <2>1 DEF NoTerm
<1>8. Resolvent(n, p) = DropRoot(all)
  BY DEF Resolvent
<1>. HIDE DEF c, a, d, rest, extra, base
<1>9. q # p => solution[q] \subseteq left[q] \cap right[q]
  BY <1>1, <1>3, <1>6, DropRootWidens
<1>. HIDE DEF left, right
<1>10. solution[q] \subseteq all[q]
  BY <1>1, <1>5, <1>7, <1>9 DEF NoTerm
<1>11. solution[q] \subseteq DropRoot(all)[q]
  <2>1. DOMAIN all = Packages
    OBVIOUS
  <2>. HIDE DEF all
  <2>2. QED
    BY <1>1, <1>10, <2>1, DropRootWidens
<1>12. QED
  BY <1>1, <1>8, <1>11 DEF Terms

LEMMA ResolveOnTrail ==
  ASSUME IInv, Trail, Resolve
  PROVE  Trail'
<1>1. PICK n \in 1 .. Len(assignments), p \in Packages :
        /\ IsMostRecent(n, p)
        /\ assignments[n].cause # 0
        /\ conflict' = Resolvent(n, p)
  BY DEF Resolve, IsRootCause
<1>2. /\ UNCHANGED <<facts, contradicted, contradictedAt, assignments, decisions, solution>>
      /\ pc = "resolve" /\ pc' = IF \E q \in Packages : conflict'[q] = {} THEN "crashed" ELSE pc
  BY DEF Resolve, partialSolution, knowledge
<1>3. DecisionsAreRecorded' /\ LevelsCount' /\ CausesAreTrue' /\ ContradictionsLast'
  BY <1>2, TrailTypes, StayOnTrail
<1>4. RootIsFirst'
  BY <1>2 DEF Trail, RootIsFirst
<1>5. \A q \in Packages : solution[q] \subseteq conflict'[q] /\ solution[q] # {}
  BY <1>1, <1>2, ResolventIsTrue
<1>6. pc' = "resolve"
  BY <1>2, <1>5
<1>7. ConflictIsTrue'
  BY <1>2, <1>5 DEF ConflictIsTrue
<1>8. QED
  BY <1>3, <1>4, <1>6, <1>7 DEF Trail

LEMMA FindNoVersionOnTrail ==
  ASSUME IInv, Trail, NEW p \in Packages, FindNoVersion(p)
  PROVE  Trail'
<1>1. /\ UNCHANGED <<contradicted, contradictedAt, assignments, decisions, solution>>
      /\ pc = "choose" /\ pc' = "propagate" /\ p \in Undecided /\ Candidates(p) = {}
      /\ facts' = Append(facts, NoVersions(p, solution[p]))
  BY DEF FindNoVersion, partialSolution
<1>2. Len(facts') = Len(facts) + 1 /\ \A k \in 1 .. Len(facts) : facts'[k] = facts[k]
  BY <1>1, TrailTypes
<1>3. DecisionsAreRecorded' /\ LevelsCount' /\ CausesAreTrue' /\ ContradictionsLast'
  BY <1>1, <1>2, TrailTypes, StayOnTrail
<1>4. Len(assignments) # 1
  BY <1>1, OnlyRoot, RootCanBeChosen
<1>5. RootIsFirst'
  BY <1>1, <1>4 DEF Trail, RootIsFirst
<1>6. ConflictIsTrue' /\ pc' # "crashed"
  BY <1>1 DEF ConflictIsTrue
<1>7. QED
  BY <1>3, <1>5, <1>6 DEF Trail


(* What was contradicted by the assignments that stay is contradicted.     *)
LEMMA StillRefuted ==
  ASSUME IInv, Trail, NEW n \in 0 .. Len(assignments), NEW a \in Assignment,
         assignments' = Append(SubSeq(assignments, 1, n), a),
         Len(facts) <= Len(facts'), \A k \in 1 .. Len(facts) : facts'[k] = facts[k],
         NEW x \in contradictedAt, \A j \in n + 1 .. Len(assignments) : assignments[j].level > x[1]
  PROVE  Refuted(assignments', facts'[x[2]], x[1])
<1>1. PICK new : new = assignments'
  OBVIOUS
<1>2. /\ n \in Nat /\ Len(new) = n + 1 /\ Len(assignments) \in Nat
      /\ \A k \in 1 .. n : new[k] = assignments[k]
  BY <1>1, TrailTypes, CutAppend
<1>3. x[1] \in Nat /\ x[2] \in 1 .. Len(facts)
  BY TrailTypes
<1>4. Refuted(assignments, facts[x[2]], x[1])
  BY DEF Trail, ContradictionsLast
<1>5. \A j \in n + 1 .. Len(assignments) : assignments[j].level \in Nat
  BY <1>2, TrailTypes
<1>6. Refuted(new, facts[x[2]], x[1])
  <2>1. PICK l \in Nat, i \in {facts[x[2]]} : l = x[1] /\ i = facts[x[2]]
    BY <1>3
  <2>2. \A j \in n + 1 .. Len(assignments) : assignments[j].level > l /\ assignments[j].level \in Nat
    BY <1>5, <2>1
  <2>3. Refuted(assignments, i, l) /\ Len(new) \in Nat /\ n <= Len(new)
    BY <1>2, <1>4, <2>1
  <2>4. Refuted(new, i, l)
    BY <1>2, <2>2, <2>3, RefutedKept
  <2>5. QED
    BY <2>1, <2>4
<1>7. facts'[x[2]] = facts[x[2]]
  BY <1>3
<1>8. QED
  BY <1>1, <1>6, <1>7

(* What a derived assignment says makes its cause false.                   *)
LEMMA DerivationRefutes ==
  ASSUME NEW seq \in Seq(Assignment), NEW n \in 0 .. Len(seq), NEW a \in Assignment,
         NEW new, new = Append(SubSeq(seq, 1, n), a), NEW i, a.term = Not(i[a.name])
  PROVE  Refuted(new, i, a.level)
<1>1. n \in Nat /\ Len(new) = n + 1 /\ new[n + 1] = a
  BY CutAppend
<1>2. a.name \in Packages /\ a.level \in Nat
  BY DEF Assignment
<1>3. Accumulated(new, n + 1, a.name) \cap i[a.name] = {}
  <2>1. n + 1 \in 1 .. n + 1
    BY <1>1
  <2>2. Accumulated(new, n + 1, a.name) \subseteq a.term
    BY <1>1, <2>1 DEF Accumulated
  <2>3. QED
    BY <2>2 DEF Not
<1>4. n + 1 \in 1 .. Len(new) /\ new[n + 1].level <= a.level
  BY <1>1, <1>2
<1>5. QED
  BY <1>2, <1>3, <1>4 DEF Refuted

LEMMA ChooseVersionOnTrail ==
  ASSUME IInv, Trail, NEW p \in Packages, ChooseVersion(p)
  PROVE  Trail'
<1>1. PICK v \in Versions :
        /\ IsPreferred(p, v)
        /\ facts' = facts \o IncompatibilitiesFor(p, v)
        /\ IF WouldConflict(p, v)
           THEN UNCHANGED partialSolution
           ELSE /\ decisions' = [decisions EXCEPT ![p] = v]
                /\ solution' = [solution EXCEPT ![p] = @ \cap {v}]
                /\ assignments' =
                     Append(assignments, [name |-> p, term |-> {v},
                                          level |-> DecisionLevel + 1, cause |-> 0])
  BY DEF ChooseVersion
<1>2. /\ UNCHANGED <<registry, contradicted, contradictedAt>>
      /\ pc = "choose" /\ pc' = "propagate" /\ p \in Undecided
  BY DEF ChooseVersion
<1>3. Len(facts') >= Len(facts) /\ \A k \in 1 .. Len(facts) : facts'[k] = facts[k]
  <2>1. IncompatibilitiesFor(p, v) \in Seq(Incompatibilities)
    BY IncompatibilitiesForHold DEF IInv
  <2>2. PICK is \in Seq(Incompatibilities) : facts' = facts \o is
    BY <1>1, <2>1
  <2>3. QED
    BY <2>2, TrailTypes
<1>4. Len(assignments) >= 1 /\ Len(assignments) \in Nat
  BY <1>2, TrailTypes DEF IInv, Soundness, RootIsChosen
<1>5. ConflictIsTrue' /\ pc' # "crashed"
  BY <1>2 DEF ConflictIsTrue
<1>6. CASE WouldConflict(p, v)
  <2>1. UNCHANGED <<assignments, decisions, solution>>
    BY <1>1, <1>6 DEF partialSolution
  <2>2. DecisionsAreRecorded' /\ LevelsCount' /\ CausesAreTrue' /\ ContradictionsLast'
    BY <1>2, <1>3, <2>1, TrailTypes, StayOnTrail
  <2>3. Len(assignments) # 1
    <3>1. Len(assignments) = 1 => p = Root
      BY <1>2, OnlyRoot
    <3>2. Len(assignments) = 1 => v = RootVersion
      BY <1>1, <3>1, RootCanBeChosen DEF IsPreferred
    <3>3. QED
      BY <1>6, <3>1, <3>2, RootCanBeChosen
  <2>4. RootIsFirst'
    BY <2>1, <2>3 DEF Trail, RootIsFirst
  <2>5. QED
    BY <1>5, <2>2, <2>4 DEF Trail
<1>7. CASE ~ WouldConflict(p, v)
  <2>. DEFINE a == [name |-> p, term |-> {v}, level |-> DecisionLevel + 1, cause |-> 0]
  <2>1. a \in Assignment /\ a.cause = 0 /\ a.name = p /\ a.term = {v} /\ a.level = DecisionLevel + 1
    <3>1. {v} \in Terms /\ DecisionLevel + 1 \in Nat /\ 0 \in Nat
      BY TermFacts, LevelIsCount
    <3>2. QED
      BY <3>1 DEF Assignment
  <2>2. assignments' = Append(assignments, a) /\ decisions' = [decisions EXCEPT ![p] = v]
    BY <1>1, <1>7
  <2>. HIDE DEF a
  <2>3. assignments' = Append(SubSeq(assignments, 1, Len(assignments)), a)
        /\ Len(assignments) \in 0 .. Len(assignments) /\ assignments \in Seq(Assignment)
    <3>1. assignments \in Seq(Assignment) /\ Len(assignments) \in Nat
      BY TrailTypes
    <3>2. SubSeq(assignments, 1, Len(assignments)) = assignments
      BY <3>1, CutNothing
    <3>3. QED
      BY <2>2, <3>1, <3>2
  <2>4. /\ Len(assignments') = Len(assignments) + 1
        /\ assignments'[Len(assignments) + 1] = a
        /\ \A k \in 1 .. Len(assignments) : assignments'[k] = assignments[k]
    BY <2>1, <2>2, <2>3
  <2>5. LevelsCount'
    <3>1. a.level = Cardinality(Decided(assignments, Len(assignments)))
                    + (IF a.cause = 0 THEN 1 ELSE 0)
      BY <2>1, LevelIsCount
    <3>2. QED
      BY <2>1, <2>3, <3>1, ExtendLevels
  <2>6. CausesAreTrue'
    BY <1>3, <2>1, <2>3, ExtendCauses
  <2>7. DecisionsAreRecorded'
    <3>1. PICK new : new = assignments'
      OBVIOUS
    <3>2. decisions[p] = Absent /\ decisions \in [Packages -> Selection]
      BY <1>2, TrailTypes DEF Undecided
    <3>3. Recorded(assignments, Len(assignments), decisions)
      BY DEF Trail, DecisionsAreRecorded
    <3>4. Recorded(new, Len(new), [decisions EXCEPT ![a.name] = v])
      BY <2>1, <2>2, <2>3, <3>1, <3>2, <3>3, RecordDecision
    <3>5. QED
      BY <2>1, <2>2, <3>1, <3>4 DEF DecisionsAreRecorded
  <2>8. RootIsFirst'
    <3>1. assignments'[1] = assignments[1] /\ assignments[1].cause # 0
      BY <1>4, <2>4 DEF Trail, RootIsFirst
    <3>2. assignments'[2].cause = 0 /\ assignments'[2].name = Root
      <4>1. CASE Len(assignments) = 1
        BY <1>2, <2>1, <2>4, <4>1, OnlyRoot
      <4>2. CASE Len(assignments) # 1
        <5>1. \A m \in Nat : m >= 1 /\ m # 1 => m > 1 /\ 2 \in 1 .. m
          OBVIOUS
        <5>2. Len(assignments) > 1 /\ 2 \in 1 .. Len(assignments)
          BY <1>4, <4>2, <5>1
        <5>3. QED
          BY <2>4, <5>2 DEF Trail, RootIsFirst
      <4>3. QED
        BY <4>1, <4>2
    <3>3. QED
      BY <1>4, <2>4, <3>1, <3>2 DEF RootIsFirst
  <2>9. ContradictionsLast'
    <3>1. \A k \in contradicted' : \E x \in contradictedAt' : x[2] = k
      BY <1>2 DEF Trail, ContradictionsLast
    <3>2. \A x \in contradictedAt : Refuted(assignments', facts'[x[2]], x[1])
      <4>1. \A j \in Len(assignments) + 1 .. Len(assignments) : FALSE
        BY <1>4
      <4>2. QED
        BY <1>3, <2>1, <2>3, <4>1, StillRefuted
    <3>3. Cardinality(Decided(assignments', Len(assignments'))) =
            Cardinality(Decided(assignments, Len(assignments))) + 1
      <4>1. PICK new : new = assignments'
        OBVIOUS
      <4>2. Decided(new, Len(assignments)) = Decided(assignments, Len(assignments))
        BY <1>4, <2>4, <4>1, SameDecided
      <4>3. Cardinality(Decided(new, Len(assignments) + 1)) =
              Cardinality(Decided(new, Len(assignments))) + 1
        BY <1>4, <2>1, <2>4, <4>1, DecidedMore
      <4>4. QED
        BY <2>4, <4>1, <4>2, <4>3
    <3>4. \A x \in contradictedAt : x[1] <= Cardinality(Decided(assignments', Len(assignments')))
      <4>1. \A x \in contradictedAt : /\ x[1] \in Nat
                                      /\ x[1] <= Cardinality(Decided(assignments, Len(assignments)))
        BY TrailTypes DEF Trail, ContradictionsLast
      <4>2. Cardinality(Decided(assignments, Len(assignments))) \in Nat
        BY LevelIsCount
      <4>3. QED
        BY <3>3, <4>1, <4>2
    <3>5. QED
      BY <1>2, <3>1, <3>2, <3>4 DEF ContradictionsLast
  <2>10. QED
    BY <1>5, <2>5, <2>6, <2>7, <2>8, <2>9 DEF Trail
<1>8. QED
  BY <1>6, <1>7


LEMMA DeriveOnTrail ==
  ASSUME IInv, Trail, NEW n \in 1 .. Len(facts), Derive(n)
  PROVE  Trail'
<1>1. PICK p \in Packages :
        /\ Unsatisfied(solution, facts[n]) = {p}
        /\ assignments' = Append(assignments, Derivation(facts[n], p, n, DecisionLevel))
  BY DEF Derive
<1>2. /\ UNCHANGED <<registry, facts, decisions, pc>>
      /\ Examining(n) /\ pc = "propagate" /\ ~ Contradicts(solution, facts[n])
      /\ contradicted' = contradicted \cup {n}
      /\ contradictedAt' = contradictedAt \cup {<<DecisionLevel, n>>}
  BY DEF Derive, Examining
<1>3. /\ n \in Nat /\ n # 0 /\ Len(assignments) \in Nat /\ Len(assignments) # 1
      /\ facts[n] \in [Packages -> Terms] /\ DecisionLevel \in Nat
  BY <1>2, OnlyRoot, TrailTypes, LevelIsCount
<1>. DEFINE a == Derivation(facts[n], p, n, DecisionLevel)
<1>4. a.name = p /\ a.term = Not(facts[n][p]) /\ a.cause = n /\ a.level = DecisionLevel
  BY DEF Derivation
<1>5. a \in Assignment
  <2>1. Inconclusive(solution, facts[n], p)
    BY <1>1 DEF Unsatisfied
  <2>2. Not(facts[n][p]) \in Terms
    BY <1>3, <2>1, TrailTypes DEF Inconclusive, Terms, Not
  <2>3. QED
    BY <1>3, <2>2 DEF Assignment, Derivation
<1>6. assignments' = Append(assignments, a)
  BY <1>1
<1>. HIDE DEF a
<1>7. assignments' = Append(SubSeq(assignments, 1, Len(assignments)), a)
      /\ Len(assignments) \in 0 .. Len(assignments) /\ assignments \in Seq(Assignment)
  <2>1. assignments \in Seq(Assignment) /\ Len(assignments) \in Nat
    BY TrailTypes
  <2>2. SubSeq(assignments, 1, Len(assignments)) = assignments
    BY <2>1, CutNothing
  <2>3. QED
    BY <1>6, <2>1, <2>2
<1>8. /\ Len(assignments') = Len(assignments) + 1
      /\ assignments'[Len(assignments) + 1] = a
      /\ \A k \in 1 .. Len(assignments) : assignments'[k] = assignments[k]
  BY <1>5, <1>6, <1>7
<1>9. LevelsCount'
  <2>1. a.level = Cardinality(Decided(assignments, Len(assignments)))
                  + (IF a.cause = 0 THEN 1 ELSE 0)
    BY <1>3, <1>4, LevelIsCount
  <2>2. QED
    BY <1>5, <1>7, <2>1, ExtendLevels
<1>10. CausesAreTrue'
  <2>1. ASSUME NEW q \in Packages \ {p}
        PROVE  Accumulated(assignments, Len(assignments), q) \subseteq facts[n][q]
    <3>1. solution[q] = Accumulated(assignments, Len(assignments), q)
      BY DEF IInv, Soundness, SolutionIsDerived
    <3>2. solution[q] \subseteq facts[n][q]
      BY <1>1, <1>2, <2>1 DEF Contradicts, Unsatisfied, Inconclusive
    <3>3. QED
      BY <3>1, <3>2
  <2>2. \A q \in Packages \ {a.name} :
          Accumulated(assignments, Len(assignments), q) \subseteq facts'[a.cause][q]
    BY <1>2, <1>4, <2>1
  <2>3. Len(facts) <= Len(facts') /\ \A k \in 1 .. Len(facts) : facts'[k] = facts[k]
    BY <1>2, TrailTypes
  <2>4. QED
    BY <1>5, <1>7, <2>2, <2>3, ExtendCauses
<1>11. DecisionsAreRecorded'
  <2>1. PICK new : new = assignments'
    OBVIOUS
  <2>2. Recorded(assignments, Len(assignments), decisions)
    BY DEF Trail, DecisionsAreRecorded
  <2>3. Recorded(new, Len(new), decisions)
    <3>1. new = Append(SubSeq(assignments, 1, Len(assignments)), a) /\ a.cause # 0
      BY <1>3, <1>4, <1>7, <2>1
    <3>2. PICK seq, m, d : seq = assignments /\ m = Len(assignments) /\ d = decisions
      OBVIOUS
    <3>3. /\ seq \in Seq(Assignment) /\ m \in 0 .. Len(seq)
          /\ new = Append(SubSeq(seq, 1, m), a) /\ Recorded(seq, m, d)
      BY <1>7, <2>2, <3>1, <3>2
    <3>4. Recorded(new, Len(new), d)
      BY <1>5, <3>1, <3>3, RecordDerivation
    <3>5. QED
      BY <3>2, <3>4
  <2>4. QED
    BY <1>2, <2>1, <2>3 DEF DecisionsAreRecorded
<1>12. RootIsFirst'
  <2>1. CASE Len(assignments) = 0
    <3>1. assignments = << >>
      BY <1>7, <2>1
    <3>2. facts = << RootIncompatibility >> /\ contradicted = {} /\ n = 1
      BY <3>1, RootIsOpen DEF IInv, Soundness, RootIsChosen
    <3>3. Len(assignments') = 1 /\ assignments'[1].cause = 1
      BY <1>4, <1>8, <2>1, <3>2
    <3>4. QED
      BY <1>2, <3>2, <3>3 DEF RootIsFirst
  <2>2. CASE Len(assignments) # 0
    <3>1. \A m \in Nat : m # 0 /\ m # 1 => m > 1 /\ m + 1 # 1 /\ 1 \in 1 .. m /\ 2 \in 1 .. m
      OBVIOUS
    <3>2. /\ Len(assignments) > 1 /\ Len(assignments') # 1
          /\ 1 \in 1 .. Len(assignments) /\ 2 \in 1 .. Len(assignments)
      BY <1>3, <1>8, <2>2, <3>1
    <3>3. assignments'[1] = assignments[1] /\ assignments'[2] = assignments[2]
      BY <1>8, <3>2
    <3>4. assignments[1].cause # 0 /\ assignments[2].cause = 0 /\ assignments[2].name = Root
      BY <3>2, <1>3 DEF Trail, RootIsFirst
    <3>5. QED
      BY <3>2, <3>3, <3>4 DEF RootIsFirst
  <2>3. QED
    BY <2>1, <2>2
<1>13. ContradictionsLast'
  <2>1. \A k \in contradicted' : \E x \in contradictedAt' : x[2] = k
    <3>1. \A k \in contradicted : \E x \in contradictedAt : x[2] = k
      BY DEF Trail, ContradictionsLast
    <3>2. \A k \in contradicted : \E x \in contradictedAt' : x[2] = k
      BY <1>2, <3>1
    <3>3. <<DecisionLevel, n>>[2] = n /\ <<DecisionLevel, n>> \in contradictedAt'
      BY <1>2
    <3>4. \E x \in contradictedAt' : x[2] = n
      BY <3>3
    <3>5. QED
      BY <1>2, <3>2, <3>4
  <2>2. \A x \in contradictedAt : Refuted(assignments', facts'[x[2]], x[1])
    <3>1. \A j \in Len(assignments) + 1 .. Len(assignments) : FALSE
      BY <1>3
    <3>2. Len(facts) <= Len(facts') /\ \A k \in 1 .. Len(facts) : facts'[k] = facts[k]
      BY <1>2, TrailTypes
    <3>3. QED
      BY <1>5, <1>7, <3>1, <3>2, StillRefuted
  <2>3. Refuted(assignments', facts'[n], DecisionLevel)
    <3>1. PICK new : new = assignments'
      OBVIOUS
    <3>2. Refuted(new, facts[n], a.level)
      BY <1>4, <1>5, <1>7, <3>1, DerivationRefutes
    <3>3. QED
      BY <1>2, <1>4, <3>1, <3>2
  <2>4. Cardinality(Decided(assignments', Len(assignments'))) = DecisionLevel
    <3>1. PICK new : new = assignments'
      OBVIOUS
    <3>2. Decided(new, Len(assignments)) = Decided(assignments, Len(assignments))
      <4>1. \A k \in 1 .. Len(assignments) : new[k] = assignments[k]
        BY <1>8, <3>1
      <4>2. QED
        BY <4>1 DEF Decided
    <3>3. Decided(new, Len(assignments) + 1) = Decided(new, Len(assignments))
      BY <1>3, <1>4, <1>8, <3>1, DecidedAgain
    <3>4. QED
      BY <1>8, <3>1, <3>2, <3>3, LevelIsCount
  <2>5. \A x \in contradictedAt : x[1] <= DecisionLevel
    BY LevelIsCount DEF Trail, ContradictionsLast
  <2>6. \A x \in contradictedAt' :
          /\ x[1] <= Cardinality(Decided(assignments', Len(assignments')))
          /\ Refuted(assignments', facts'[x[2]], x[1])
    <3>1. ASSUME NEW x \in contradictedAt'
          PROVE  x[1] <= DecisionLevel /\ Refuted(assignments', facts'[x[2]], x[1])
      <4>1. CASE x \in contradictedAt
        BY <2>2, <2>5, <4>1
      <4>2. CASE x = <<DecisionLevel, n>>
        <5>1. x[1] = DecisionLevel /\ x[2] = n
          BY <4>2
        <5>2. QED
          BY <1>3, <2>3, <5>1
      <4>3. QED
        BY <1>2, <4>1, <4>2
    <3>2. QED
      BY <2>4, <3>1
  <2>7. QED
    BY <2>1, <2>6 DEF ContradictionsLast
<1>14. ConflictIsTrue' /\ pc' # "crashed"
  BY <1>2 DEF ConflictIsTrue
<1>15. QED
  BY <1>9, <1>10, <1>11, <1>12, <1>13, <1>14 DEF Trail


-----------------------------------------------------------------------------
(* Where a root cause sends the solver back to *)

LEMMA SatisfierOnce ==
  ASSUME NEW p, NEW term, NEW n \in Nat, NEW m \in Nat,
         IsSatisfier(n, p, term), IsSatisfier(m, p, term)
  PROVE  n = m
<1>1. n < m => n \in 0 .. m - 1
  OBVIOUS
<1>2. m < n => m \in 0 .. n - 1
  OBVIOUS
<1>3. ~ (n < m) /\ ~ (m < n)
  BY <1>1, <1>2 DEF IsSatisfier
<1>4. QED
  BY <1>3

LEMMA LevelsGrow ==
  ASSUME IInv, Trail, NEW m \in 1 .. Len(assignments)
  PROVE  /\ assignments[m].level \in Nat /\ m \in Nat
         /\ assignments[m].level = Cardinality(Decided(assignments, m))
         /\ \A k \in 1 .. m : assignments[k].level <= assignments[m].level
         /\ assignments[m].cause = 0 => /\ assignments[m].level >= 1
                                        /\ \A k \in 1 .. m - 1 :
                                             assignments[k].level < assignments[m].level
         /\ \A k \in 1 .. m : k + 1 = m /\ assignments[k].level # assignments[m].level =>
                                /\ assignments[m].cause = 0
                                /\ assignments[m].level = assignments[k].level + 1
<1>1. Len(assignments) \in Nat /\ m \in Nat /\ assignments[m].level \in Nat
  BY TrailTypes
<1>2. \A k \in 1 .. m : k \in 0 .. m /\ k \in 1 .. Len(assignments)
  BY <1>1
<1>3. \A k \in 1 .. m : assignments[k].level = Cardinality(Decided(assignments, k))
  BY <1>1, <1>2 DEF Trail, LevelsCount
<1>4. m \in 1 .. m
  BY <1>1
<1>5. \A k \in 1 .. m : assignments[k].level <= assignments[m].level
  <2>1. \A k \in 0 .. m : Cardinality(Decided(assignments, k)) <= Cardinality(Decided(assignments, m))
    BY <1>1, DecidedCount
  <2>2. QED
    BY <1>2, <1>3, <1>4, <2>1
<1>6. \A k \in 1 .. m : assignments[k].level \in Nat
  BY <1>2, TrailTypes
<1>7. PICK l \in Nat : m = l + 1
  BY <1>1
<1>8. Cardinality(Decided(assignments, l)) \in Nat
  BY <1>7, DecidedCount
<1>9. ASSUME assignments[m].cause = 0
      PROVE  /\ assignments[m].level >= 1
             /\ \A k \in 1 .. m - 1 : assignments[k].level < assignments[m].level
  <2>1. assignments[m].level = Cardinality(Decided(assignments, l)) + 1
    BY <1>3, <1>4, <1>7, <1>9, DecidedMore
  <2>2. \A k \in 1 .. m - 1 : k \in 0 .. l /\ k \in 1 .. m
    BY <1>7
  <2>3. \A k \in 0 .. l : Cardinality(Decided(assignments, k)) <= Cardinality(Decided(assignments, l))
    BY <1>7, DecidedCount
  <2>4. \A k \in 1 .. m - 1 : assignments[k].level <= Cardinality(Decided(assignments, l))
    BY <1>3, <2>2, <2>3
  <2>5. QED
    BY <1>6, <1>8, <2>1, <2>2, <2>4
<1>10. ASSUME NEW k \in 1 .. m, k + 1 = m, assignments[k].level # assignments[m].level
       PROVE  assignments[m].cause = 0 /\ assignments[m].level = assignments[k].level + 1
  <2>1. k = l
    BY <1>7, <1>10
  <2>2. assignments[l].level = Cardinality(Decided(assignments, l))
    BY <1>3, <2>1
  <2>3. CASE assignments[m].cause # 0
    <3>1. Decided(assignments, m) = Decided(assignments, l)
      BY <1>7, <2>3, DecidedAgain
    <3>2. QED
      BY <1>3, <1>4, <1>10, <2>1, <2>2, <3>1
  <2>4. CASE assignments[m].cause = 0
    <3>1. assignments[m].level = Cardinality(Decided(assignments, l)) + 1
      BY <1>3, <1>4, <1>7, <2>4, DecidedMore
    <3>2. QED
      BY <2>1, <2>2, <2>4, <3>1
  <2>5. QED
    BY <2>3, <2>4
<1>11. QED
  BY <1>1, <1>3, <1>4, <1>5, <1>9, <1>10


(* The first decision is the root project, and no incompatibility becomes  *)
(* true with it: the assignment before it said the same.                   *)
LEMMA SatisfierIsLater ==
  ASSUME IInv, Trail, NEW n \in 1 .. Len(assignments), NEW p \in Packages,
         IsMostRecent(n, p), assignments[n].cause = 0
  PROVE  assignments[n].level > 1
<1>1. n \in Nat /\ assignments[n].level \in Nat /\ assignments[n].level >= 1
      /\ Len(assignments) \in Nat
  BY LevelsGrow, TrailTypes
<1>2. assignments[1].cause # 0 /\ assignments[1].name = Root /\ assignments[1].term = {RootVersion}
  <2>1. assignments # << >> /\ 1 \in 1 .. Len(assignments)
    BY <1>1
  <2>2. QED
    BY <2>1 DEF Trail, RootIsFirst, IInv, Soundness, RootIsChosen
<1>3. n > 1 /\ Len(assignments) > 1
  BY <1>1, <1>2
<1>4. assignments[2].cause = 0 /\ assignments[2].name = Root /\ assignments[2].term = {RootVersion}
  <2>1. 2 \in 1 .. Len(assignments)
    BY <1>1, <1>3
  <2>2. QED
    BY <1>3, <2>1 DEF Trail, RootIsFirst, IInv, Soundness, RootIsChosen
<1>5. CASE n = 2
  <2>1. p = Root /\ IsSatisfier(2, Root, conflict[Root])
    BY <1>4, <1>5 DEF IsMostRecent
  <2>2. Accumulated(assignments, 2, Root) = Accumulated(assignments, 1, Root)
    <3>1. \A k \in 1 .. 2 : k = 1 \/ k = 2
      OBVIOUS
    <3>2. 1 \in 1 .. 1 /\ 1 \in 1 .. 2 /\ \A k \in 1 .. 1 : k \in 1 .. 2
      OBVIOUS
    <3>3. QED
      BY <1>2, <1>4, <3>1, <3>2 DEF Accumulated
  <2>3. 1 \in 0 .. 2 - 1
    OBVIOUS
  <2>4. FALSE
    BY <2>1, <2>2, <2>3 DEF IsSatisfier
  <2>5. QED
    BY <2>4
<1>6. CASE n # 2
  <2>1. 2 \in 1 .. n - 1 /\ 2 \in 1 .. Len(assignments)
    BY <1>1, <1>3, <1>6
  <2>2. assignments[2].level < assignments[n].level
    BY <2>1, LevelsGrow
  <2>3. assignments[2].level >= 1 /\ assignments[2].level \in Nat
    BY <1>4, <2>1, LevelsGrow
  <2>4. QED
    BY <1>1, <2>2, <2>3
<1>7. QED
  BY <1>5, <1>6

(* The level the search goes back to is below the satisfier's.             *)
LEMMA RootCauseIsBelow ==
  ASSUME IInv, Trail, NEW n \in 1 .. Len(assignments), NEW p \in Packages, NEW level \in Nat,
         IsMostRecent(n, p), IsPreviousLevel(level, n, p), IsRootCause(level, n)
  PROVE  level < assignments[n].level
<1>1. SUFFICES ASSUME assignments[n].cause = 0 PROVE level < assignments[n].level
  BY DEF IsRootCause
<1>2. n \in Nat /\ assignments[n].level \in Nat /\ assignments[n] \in Assignment
      /\ assignments[n].name = p /\ Len(assignments) \in Nat
  BY LevelsGrow, TrailTypes DEF IsMostRecent
<1>3. Difference(n, p) = {}
  <2>1. PICK v : assignments[n].term = {v}
    <3>1. n \in Decided(assignments, Len(assignments))
      BY <1>1 DEF Decided
    <3>2. QED
      BY <3>1 DEF Trail, DecisionsAreRecorded, Recorded
  <2>2. Accumulated(assignments, n, p) \subseteq {v}
    <3>1. n \in 1 .. n
      BY <1>2
    <3>2. QED
      BY <1>2, <2>1, <3>1 DEF Accumulated
  <2>3. Accumulated(assignments, n, p) # {}
    <3>1. solution[p] # {} /\ solution[p] = Accumulated(assignments, Len(assignments), p)
      BY TrailTypes DEF IInv, Soundness, SolutionIsDerived, Terms
    <3>2. n \in 0 .. Len(assignments)
      BY <1>2
    <3>3. QED
      BY <1>2, <3>1, <3>2, AccumulatedShrinks
  <2>4. Accumulated(assignments, n, p) \subseteq conflict[p]
    BY DEF IsMostRecent, IsSatisfier
  <2>5. QED
    BY <2>1, <2>2, <2>3, <2>4 DEF Difference
<1>4. level = 1 \/ \E q \in Packages \ {p} : Mentions(conflict, q) /\ SatisfiedAt(q, conflict[q], level)
  BY <1>3 DEF IsPreviousLevel
<1>5. CASE level = 1
  BY <1>1, <1>2, <1>5, SatisfierIsLater
<1>6. CASE \E q \in Packages \ {p} : Mentions(conflict, q) /\ SatisfiedAt(q, conflict[q], level)
  <2>1. PICK q \in Packages \ {p} : Mentions(conflict, q) /\ SatisfiedAt(q, conflict[q], level)
    BY <1>6
  <2>2. PICK m \in 1 .. Len(assignments) :
          IsSatisfier(m, q, conflict[q]) /\ assignments[m].level = level
    BY <2>1 DEF SatisfiedAt
  <2>3. PICK l \in 1 .. n - 1 : IsSatisfier(l, q, conflict[q])
    BY <2>1 DEF IsMostRecent
  <2>4. l = m
    BY <1>2, <2>2, <2>3, SatisfierOnce
  <2>5. assignments[l].level < assignments[n].level
    BY <1>1, <2>3, LevelsGrow
  <2>6. QED
    BY <2>2, <2>4, <2>5
<1>7. QED
  BY <1>4, <1>5, <1>6

(* The search goes back to the last assignment of the previous level: a    *)
(* decision comes behind it, and the one term of the root cause that it    *)
(* leaves open is the satisfier's.                                         *)
LEMMA BackjumpPoint ==
  ASSUME IInv, Trail, NEW n \in 1 .. Len(assignments), NEW p \in Packages,
         NEW k \in 1 .. Len(assignments), NEW level \in 0 .. assignments[n].level + 1,
         IsMostRecent(n, p), IsPreviousLevel(level, n, p), IsRootCause(level, n),
         IsBacktrackPoint(k, level)
  PROVE  /\ level \in Nat /\ k \in Nat /\ 2 <= k /\ k < n /\ k + 1 \in 1 .. Len(assignments)
         /\ level = Cardinality(Decided(assignments, k))
         /\ assignments[k + 1].cause = 0
         /\ ~ Accumulated(assignments, k, p) \subseteq conflict[p]
         /\ \A q \in Packages \ {p} : Accumulated(assignments, k, q) \subseteq conflict[q]
<1>1. /\ Len(assignments) \in Nat /\ n \in Nat /\ k \in Nat
      /\ assignments[n].level \in Nat /\ assignments[k].level \in Nat
  BY TrailTypes
<1>2. level \in Nat
  BY <1>1
<1>3. level < assignments[n].level
  BY <1>2, RootCauseIsBelow
<1>4. assignments[k].level <= level /\ \A j \in k + 1 .. Len(assignments) : assignments[j].level > level
  BY DEF IsBacktrackPoint
<1>5. k < n
  <2>1. SUFFICES ASSUME n \in 1 .. k PROVE FALSE
    BY <1>1
  <2>2. assignments[n].level <= assignments[k].level
    BY <2>1, LevelsGrow
  <2>3. QED
    BY <1>1, <1>2, <1>3, <1>4, <2>2
<1>6. k + 1 \in 1 .. Len(assignments) /\ k + 1 \in k + 1 .. Len(assignments)
      /\ k \in 1 .. k + 1
  BY <1>1, <1>5
<1>7. assignments[k].level # assignments[k + 1].level
  BY <1>1, <1>2, <1>4, <1>6
<1>8. assignments[k + 1].cause = 0 /\ assignments[k + 1].level = assignments[k].level + 1
  BY <1>6, <1>7, LevelsGrow
<1>9. level = assignments[k].level
  BY <1>1, <1>2, <1>4, <1>6, <1>8
<1>10. level = Cardinality(Decided(assignments, k))
  BY <1>9, LevelsGrow
<1>11. level >= 1
  BY <1>1, <1>2 DEF IsPreviousLevel
<1>12. 2 <= k
  <2>1. SUFFICES ASSUME k = 1 PROVE FALSE
    BY <1>1
  <2>2. 1 \in 1 .. Len(assignments) /\ Len(assignments) > 1
    BY <1>1, <1>6, <2>1
  <2>3. assignments[1].cause # 0
    BY <2>2 DEF Trail, RootIsFirst
  <2>4. Decided(assignments, 1) = {}
    BY <2>3 DEF Decided
  <2>5. Cardinality(Decided(assignments, 1)) = 0
    BY <2>4, FS_EmptySet
  <2>6. QED
    BY <1>10, <1>11, <2>1, <2>5
<1>13. ~ Accumulated(assignments, k, p) \subseteq conflict[p]
  <2>1. k \in 0 .. n - 1
    BY <1>1, <1>5
  <2>2. QED
    BY <2>1 DEF IsMostRecent, IsSatisfier
<1>14. ASSUME NEW q \in Packages \ {p}
       PROVE  Accumulated(assignments, k, q) \subseteq conflict[q]
  <2>1. CASE ~ Mentions(conflict, q)
    BY <2>1 DEF Mentions, NoTerm, Accumulated
  <2>2. CASE Mentions(conflict, q)
    <3>1. PICK m \in 1 .. n - 1 : IsSatisfier(m, q, conflict[q])
      BY <2>2 DEF IsMostRecent
    <3>2. m \in Nat /\ m \in 1 .. Len(assignments) /\ m \in 1 .. n
      BY <1>1, <3>1
    <3>3. SatisfiedAt(q, conflict[q], assignments[m].level)
      BY <3>1, <3>2 DEF SatisfiedAt
    <3>4. assignments[m].level \in 0 .. assignments[n].level
      BY <1>1, <3>2, LevelsGrow
    <3>5. assignments[m].level <= level
      BY <2>2, <3>3, <3>4 DEF IsPreviousLevel
    <3>6. m <= k
      <4>1. SUFFICES ASSUME m > k PROVE FALSE
        BY <1>1, <3>2
      <4>2. m \in k + 1 .. Len(assignments)
        BY <1>1, <3>2, <4>1
      <4>3. assignments[m].level > level /\ assignments[m].level \in Nat
        BY <1>4, <3>4, <4>2, <1>1
      <4>4. QED
        BY <1>2, <3>5, <4>3
    <3>7. m \in 0 .. k
      BY <1>1, <3>2, <3>6
    <3>8. Accumulated(assignments, k, q) \subseteq Accumulated(assignments, m, q)
      BY <1>1, <3>7, AccumulatedShrinks
    <3>9. QED
      BY <3>1, <3>8 DEF IsSatisfier
  <2>3. QED
    BY <2>1, <2>2
<1>15. QED
  BY <1>1, <1>2, <1>5, <1>6, <1>8, <1>10, <1>12, <1>13, <1>14


(* What a backjump does, with _propagate's assertion met: the first k      *)
(* assignments stay and the negated term of one package comes behind them. *)
Jumps(k, p, level, a, cause) ==
  /\ k \in Nat /\ 2 <= k /\ k + 1 \in 1 .. Len(assignments) /\ level \in Nat
  /\ assignments[k + 1].cause = 0
  /\ \A j \in k + 1 .. Len(assignments) : assignments[j].level > level
  /\ level = Cardinality(Decided(assignments, k))
  /\ a \in Assignment /\ a.name = p /\ a.level = level /\ a.cause = cause
  /\ a.term = Not(conflict[p])
  /\ \A q \in Packages \ {p} : Accumulated(assignments, k, q) \subseteq conflict[q]
  /\ assignments' = Append(SubSeq(assignments, 1, k), a)
  /\ cause \in 1 .. Len(facts') /\ facts'[cause] = conflict
  /\ Len(facts) <= Len(facts') /\ \A j \in 1 .. Len(facts) : facts'[j] = facts[j]
  /\ cause \notin 1 .. Len(facts) => Len(facts') = Len(facts) + 1 /\ cause = Len(facts) + 1
  /\ cause \in 1 .. Len(facts) => facts' = facts
  /\ decisions' = Backtrack(k).decisions
  /\ contradicted' = (contradicted \ {x[2] : x \in Forgotten(level)}) \cup {cause}
  /\ contradictedAt' = (contradictedAt \ Forgotten(level)) \cup {<<level, cause>>}
  /\ changed' = {p} /\ package' = NoPackage /\ cursor' = 0
  /\ pc' = "propagate" /\ registry' = registry

LEMMA BackjumpFacts ==
  ASSUME IInv, pc = "resolve", NEW cause,
         cause = IF conflictFact = 0 THEN Len(facts) + 1 ELSE conflictFact,
         facts' = IF conflictFact = 0 THEN Append(facts, conflict) ELSE facts
  PROVE  /\ cause \in 1 .. Len(facts') /\ facts'[cause] = conflict
         /\ Len(facts) <= Len(facts') /\ \A k \in 1 .. Len(facts) : facts'[k] = facts[k]
         /\ cause \notin 1 .. Len(facts) => Len(facts') = Len(facts) + 1 /\ cause = Len(facts) + 1
         /\ cause \in 1 .. Len(facts) => facts' = facts
<1>1. /\ facts \in Seq(Incompatibilities) /\ Len(facts) \in Nat
      /\ conflictFact \in 0 .. Len(facts)
      /\ conflictFact # 0 => conflict = facts[conflictFact]
  BY DEF IInv, Soundness, TypeOK, ConflictHolds
<1>2. conflict \in Incompatibilities
  BY DEF IInv, Soundness, ConflictHolds, TypeOK, Incompatibilities, Terms
<1>3. CASE conflictFact = 0
  <2>1. cause = Len(facts) + 1 /\ facts' = Append(facts, conflict)
    BY <1>3
  <2>2. /\ Len(facts') = Len(facts) + 1 /\ facts'[Len(facts) + 1] = conflict
        /\ \A k \in 1 .. Len(facts) : facts'[k] = facts[k]
    BY <1>1, <1>2, <2>1
  <2>3. QED
    BY <1>1, <2>1, <2>2
<1>4. CASE conflictFact # 0
  <2>1. cause = conflictFact /\ facts' = facts
    BY <1>4
  <2>2. QED
    BY <1>1, <1>4, <2>1
<1>5. QED
  BY <1>3, <1>4

LEMMA BackjumpEffect ==
  ASSUME IInv, Trail, Backjump
  PROVE  \E k \in Nat, p \in Packages, level \in Nat, a \in Assignment, cause \in Nat :
           Jumps(k, p, level, a, cause)
<1>1. PICK n \in 1 .. Len(assignments), p \in Packages, k \in 1 .. Len(assignments),
           level \in Nat :
        LET back   == Backtrack(k)
            here   == Cardinality({q \in Packages : back.decisions[q] # Absent})
            isNew  == conflictFact = 0
            cause  == IF isNew THEN Len(facts) + 1 ELSE conflictFact
        IN  /\ level \in 0 .. assignments[n].level + 1
            /\ IsMostRecent(n, p)
            /\ IsPreviousLevel(level, n, p)
            /\ IsRootCause(level, n)
            /\ IsBacktrackPoint(k, level)
            /\ facts' = IF isNew THEN Append(facts, conflict) ELSE facts
            /\ decisions' = back.decisions
            /\ contradicted' = (contradicted \ {x[2] : x \in Forgotten(level)}) \cup {cause}
            /\ contradictedAt' = (contradictedAt \ Forgotten(level)) \cup {<<here, cause>>}
            /\ IF \E q \in Packages : IsOnlyOpen(q, back)
               THEN \E q \in Packages :
                      /\ IsOnlyOpen(q, back)
                      /\ assignments' =
                           Append(back.kept, Derivation(conflict, q, cause, here))
                      /\ solution' =
                           [back.solution EXCEPT ![q] = @ \cap Not(conflict[q])]
                      /\ changed' = {q}
                      /\ pc' = "propagate"
               ELSE /\ assignments' = back.kept
                    /\ solution' = back.solution
                    /\ changed' = {}
                    /\ pc' = "crashed"
  <2>1. \A m \in 1 .. Len(assignments) : 0 .. assignments[m].level + 1 \subseteq Nat
    OBVIOUS
  <2>. HIDE DEF Forgotten
  <2>2. QED
    BY <2>1, ZenonT(30) DEF Backjump
<1>2. /\ pc = "resolve" /\ package' = NoPackage /\ cursor' = 0
      /\ UNCHANGED <<registry, conflict, conflictFact>>
  BY DEF Backjump
<1>3. PICK back : back = Backtrack(k)
  OBVIOUS
<1>4. PICK here : here = Cardinality({q \in Packages : back.decisions[q] # Absent})
  OBVIOUS
<1>5. PICK cause : cause = IF conflictFact = 0 THEN Len(facts) + 1 ELSE conflictFact
  OBVIOUS
<1>6. /\ level \in 0 .. assignments[n].level + 1
      /\ IsMostRecent(n, p) /\ IsPreviousLevel(level, n, p)
      /\ IsRootCause(level, n) /\ IsBacktrackPoint(k, level)
      /\ facts' = IF conflictFact = 0 THEN Append(facts, conflict) ELSE facts
      /\ decisions' = back.decisions
      /\ contradicted' = (contradicted \ {x[2] : x \in Forgotten(level)}) \cup {cause}
      /\ contradictedAt' = (contradictedAt \ Forgotten(level)) \cup {<<here, cause>>}
  BY <1>1, <1>3, <1>4, <1>5
<1>7. \A q \in Packages : IsOnlyOpen(q, back) =>
        \E r \in Packages :
          /\ IsOnlyOpen(r, back)
          /\ assignments' = Append(back.kept, Derivation(conflict, r, cause, here))
          /\ changed' = {r}
          /\ pc' = "propagate"
  BY <1>1, <1>3, <1>4, <1>5
<1>8. /\ level \in Nat /\ k \in Nat /\ 2 <= k /\ k < n /\ k + 1 \in 1 .. Len(assignments)
      /\ level = Cardinality(Decided(assignments, k))
      /\ assignments[k + 1].cause = 0
      /\ ~ Accumulated(assignments, k, p) \subseteq conflict[p]
      /\ \A q \in Packages \ {p} : Accumulated(assignments, k, q) \subseteq conflict[q]
  BY <1>6, BackjumpPoint
<1>9. /\ back.kept = SubSeq(assignments, 1, k)
      /\ back.solution = [q \in Packages |-> Accumulated(assignments, k, q)]
  BY <1>3, BacktrackKeeps
<1>10. \A q \in Packages : Accumulated(assignments, k, q) \cap conflict[q] # {}
  <2>1. ASSUME NEW q \in Packages PROVE Accumulated(assignments, k, q) \cap conflict[q] # {}
    <3>1. solution[q] # {} /\ solution[q] \subseteq conflict[q]
      BY <1>2, TrailTypes DEF Trail, ConflictIsTrue, Terms
    <3>2. solution[q] = Accumulated(assignments, Len(assignments), q)
      BY DEF IInv, Soundness, SolutionIsDerived
    <3>3. k \in 0 .. Len(assignments) /\ Len(assignments) \in Nat
      BY <1>8, TrailTypes
    <3>4. solution[q] \subseteq Accumulated(assignments, k, q)
      BY <3>2, <3>3, AccumulatedShrinks
    <3>5. QED
      BY <3>1, <3>4
  <2>2. QED
    BY <2>1
<1>11. ~ Contradicts(back.solution, conflict) /\ Unsatisfied(back.solution, conflict) = {p}
  BY <1>8, <1>9, <1>10 DEF Contradicts, Disjoint, Unsatisfied, Inconclusive
<1>12. \A q \in Packages : IsOnlyOpen(q, back) <=> q = p
  BY <1>11 DEF IsOnlyOpen
<1>13. /\ assignments' = Append(back.kept, Derivation(conflict, p, cause, here))
       /\ changed' = {p} /\ pc' = "propagate"
  BY <1>7, <1>12
<1>14. /\ cause \in 1 .. Len(facts') /\ facts'[cause] = conflict
       /\ Len(facts) <= Len(facts') /\ \A j \in 1 .. Len(facts) : facts'[j] = facts[j]
       /\ cause \notin 1 .. Len(facts) => Len(facts') = Len(facts) + 1 /\ cause = Len(facts) + 1
       /\ cause \in 1 .. Len(facts) => facts' = facts
  BY <1>2, <1>5, <1>6, BackjumpFacts
<1>15. cause \in Nat
  <2>1. conflictFact \in 0 .. Len(facts) /\ Len(facts) \in Nat
    BY DEF IInv, Soundness, TypeOK
  <2>2. QED
    BY <1>5, <2>1
<1>16. here = level
  <2>1. k \in 0 .. Len(assignments) /\ assignments \in Seq(Assignment)
    BY <1>8, TrailTypes
  <2>2. Recorded(assignments, k, back.decisions)
    BY <1>3, <2>1, RecordBacktrack DEF Trail
  <2>3. PICK dec : dec = back.decisions
    OBVIOUS
  <2>4. here = Cardinality(Decided(assignments, k))
    BY <1>4, <2>1, <2>2, <2>3, CountDecisions
  <2>5. QED
    BY <1>8, <2>4
<1>17. PICK a : a = Derivation(conflict, p, cause, level)
  OBVIOUS
<1>18. /\ a.name = p /\ a.level = level /\ a.cause = cause /\ a.term = Not(conflict[p])
       /\ a \in Assignment
  <2>1. Not(conflict[p]) \in Terms
    BY <1>8 DEF Not, Terms, Accumulated
  <2>2. QED
    BY <1>8, <1>15, <1>17, <2>1 DEF Derivation, Assignment
<1>19. assignments' = Append(SubSeq(assignments, 1, k), a)
  BY <1>9, <1>13, <1>16, <1>17
<1>20. \A j \in k + 1 .. Len(assignments) : assignments[j].level > level
  BY <1>6 DEF IsBacktrackPoint
<1>21. Jumps(k, p, level, a, cause)
  BY <1>2, <1>3, <1>6, <1>8, <1>13, <1>14, <1>16, <1>18, <1>19, <1>20 DEF Jumps
<1>22. QED
  BY <1>8, <1>15, <1>18, <1>21


LEMMA JumpOnTrail ==
  ASSUME IInv, Trail, NEW k, NEW p \in Packages, NEW level, NEW a, NEW cause,
         Jumps(k, p, level, a, cause)
  PROVE  Trail'
<1>1. /\ k \in Nat /\ 2 <= k /\ k + 1 \in 1 .. Len(assignments) /\ level \in Nat
      /\ \A j \in k + 1 .. Len(assignments) : assignments[j].level > level
      /\ level = Cardinality(Decided(assignments, k))
      /\ a \in Assignment /\ a.name = p /\ a.level = level /\ a.cause = cause
      /\ a.term = Not(conflict[p])
      /\ \A q \in Packages \ {p} : Accumulated(assignments, k, q) \subseteq conflict[q]
      /\ assignments' = Append(SubSeq(assignments, 1, k), a)
      /\ cause \in 1 .. Len(facts') /\ facts'[cause] = conflict
      /\ Len(facts) <= Len(facts') /\ \A j \in 1 .. Len(facts) : facts'[j] = facts[j]
      /\ decisions' = Backtrack(k).decisions
  BY DEF Jumps
<1>2. /\ contradicted' = (contradicted \ {x[2] : x \in Forgotten(level)}) \cup {cause}
      /\ contradictedAt' = (contradictedAt \ Forgotten(level)) \cup {<<level, cause>>}
      /\ pc' = "propagate"
  BY DEF Jumps
<1>3. k \in 0 .. Len(assignments) /\ assignments \in Seq(Assignment) /\ Len(assignments) \in Nat
  BY <1>1, TrailTypes
<1>4. cause # 0
  BY <1>1
<1>5. LevelsCount'
  BY <1>1, <1>3, <1>4, ExtendLevels
<1>6. CausesAreTrue'
  <2>1. a.cause # 0 => \A q \in Packages \ {a.name} :
                         Accumulated(assignments, k, q) \subseteq facts'[a.cause][q]
    BY <1>1
  <2>2. QED
    BY <1>1, <1>3, <2>1, ExtendCauses
<1>7. DecisionsAreRecorded'
  <2>1. PICK new : new = assignments'
    OBVIOUS
  <2>2. PICK seq, m, dec : seq = assignments /\ m = k /\ dec = Backtrack(k).decisions
    OBVIOUS
  <2>3. a \in Assignment
    BY <1>1
  <2>4. new = Append(SubSeq(assignments, 1, k), a) /\ a.cause # 0
    BY <1>1, <1>4, <2>1
  <2>5. Recorded(new, Len(new), dec)
    <3>1. Recorded(assignments, k, Backtrack(k).decisions)
      BY <1>3, RecordBacktrack DEF Trail
    <3>2. /\ seq \in Seq(Assignment) /\ m \in 0 .. Len(seq)
          /\ new = Append(SubSeq(seq, 1, m), a) /\ Recorded(seq, m, dec)
      BY <1>3, <2>2, <2>4, <3>1
    <3>3. QED
      BY <2>3, <2>4, <3>2, RecordDerivation
  <2>6. QED
    BY <1>1, <2>1, <2>2, <2>5 DEF DecisionsAreRecorded
<1>8. /\ Len(assignments') = k + 1
      /\ \A j \in 1 .. k : assignments'[j] = assignments[j]
  BY <1>1, <1>3, CutAppend
<1>9. RootIsFirst'
  <2>1. \A m \in Nat : 2 <= m => 1 \in 1 .. m /\ 2 \in 1 .. m /\ m + 1 # 1
    OBVIOUS
  <2>2. assignments'[1] = assignments[1] /\ assignments'[2] = assignments[2]
        /\ Len(assignments') # 1 /\ Len(assignments) > 1
    BY <1>1, <1>3, <1>8, <2>1
  <2>3. assignments # << >>
    BY <1>3, <2>2
  <2>4. QED
    BY <2>2, <2>3 DEF Trail, RootIsFirst
<1>10. ContradictionsLast'
  <2>1. ASSUME NEW x \in contradictedAt \ Forgotten(level)
        PROVE  x[1] <= level /\ Refuted(assignments', facts'[x[2]], x[1])
    <3>1. x[1] \in Nat /\ x[1] <= DecisionLevel /\ DecisionLevel \in Nat
      BY TrailTypes, LevelIsCount DEF Trail, ContradictionsLast
    <3>2. x[1] \notin level + 1 .. DecisionLevel
      BY DEF Forgotten
    <3>3. x[1] <= level
      BY <1>1, <3>1, <3>2
    <3>4. \A j \in k + 1 .. Len(assignments) : assignments[j].level > x[1]
      <4>1. ASSUME NEW j \in k + 1 .. Len(assignments) PROVE assignments[j].level > x[1]
        <5>1. assignments[j].level > level /\ assignments[j].level \in Nat
          BY <1>1, TrailTypes
        <5>2. QED
          BY <1>1, <3>1, <3>3, <5>1
      <4>2. QED
        BY <4>1
    <3>5. Refuted(assignments', facts'[x[2]], x[1])
      BY <1>1, <1>3, <3>4, StillRefuted
    <3>6. QED
      BY <3>3, <3>5
  <2>2. Refuted(assignments', facts'[cause], level)
    <3>1. PICK new, i : new = assignments' /\ i = conflict
      OBVIOUS
    <3>2. a.term = Not(i[a.name]) /\ new = Append(SubSeq(assignments, 1, k), a)
      BY <1>1, <3>1
    <3>3. Refuted(new, i, a.level)
      BY <1>1, <1>3, <3>2, DerivationRefutes
    <3>4. QED
      BY <1>1, <3>1, <3>3
  <2>3. Cardinality(Decided(assignments', Len(assignments'))) = level
    <3>1. PICK new : new = assignments'
      OBVIOUS
    <3>2. new[k + 1] = a /\ \A j \in 1 .. k : new[j] = assignments[j]
      BY <1>1, <1>3, <3>1, CutAppend
    <3>3. Decided(new, k) = Decided(assignments, k)
      BY <3>2 DEF Decided
    <3>4. Decided(new, k + 1) = Decided(new, k)
      BY <1>1, <1>4, <3>2, DecidedAgain
    <3>5. QED
      BY <1>1, <1>8, <3>1, <3>3, <3>4
  <2>4. \A x \in contradictedAt' :
          /\ x[1] <= Cardinality(Decided(assignments', Len(assignments')))
          /\ Refuted(assignments', facts'[x[2]], x[1])
    <3>1. ASSUME NEW x \in contradictedAt'
          PROVE  x[1] <= level /\ Refuted(assignments', facts'[x[2]], x[1])
      <4>1. CASE x \in contradictedAt \ Forgotten(level)
        BY <2>1, <4>1
      <4>2. CASE x = <<level, cause>>
        <5>1. x[1] = level /\ x[2] = cause
          BY <4>2
        <5>2. QED
          BY <1>1, <2>2, <5>1
      <4>3. QED
        BY <1>2, <4>1, <4>2
    <3>2. QED
      BY <2>3, <3>1
  <2>5. \A j \in contradicted' : \E x \in contradictedAt' : x[2] = j
    <3>1. ASSUME NEW j \in contradicted' PROVE \E x \in contradictedAt' : x[2] = j
      <4>1. CASE j = cause
        <5>1. <<level, cause>>[2] = j /\ <<level, cause>> \in contradictedAt'
          BY <1>2, <4>1
        <5>2. QED
          BY <5>1
      <4>2. CASE j \in contradicted /\ j \notin {x[2] : x \in Forgotten(level)}
        <5>1. PICK x \in contradictedAt : x[2] = j
          BY <4>2 DEF Trail, ContradictionsLast
        <5>2. x \notin Forgotten(level)
          BY <4>2, <5>1
        <5>3. QED
          BY <1>2, <5>1, <5>2
      <4>3. QED
        BY <1>2, <4>1, <4>2
    <3>2. QED
      BY <3>1
  <2>6. QED
    BY <2>4, <2>5 DEF ContradictionsLast
<1>11. ConflictIsTrue' /\ pc' # "crashed"
  BY <1>2 DEF ConflictIsTrue
<1>12. QED
  BY <1>5, <1>6, <1>7, <1>9, <1>10, <1>11 DEF Trail

LEMMA BackjumpOnTrail ==
  ASSUME IInv, Trail, Backjump
  PROVE  Trail'
BY BackjumpEffect, JumpOnTrail

LEMMA InitOnTrail == Init => Trail
<1>. SUFFICES ASSUME Init PROVE Trail
  OBVIOUS
<1>2. Len(assignments) = 0 /\ contradicted = {} /\ contradictedAt = {} /\ pc = "propagate"
      /\ decisions = [p \in Packages |-> Absent] /\ assignments = << >>
  BY DEF Init
<1>3. Decided(assignments, 0) = {}
  BY DEF Decided
<1>4. DecisionsAreRecorded
  BY <1>2, <1>3 DEF DecisionsAreRecorded, Recorded
<1>5. LevelsCount /\ CausesAreTrue /\ RootIsFirst
  BY <1>2 DEF LevelsCount, CausesAreTrue, RootIsFirst
<1>6. ConflictIsTrue /\ ContradictionsLast
  BY <1>2 DEF ConflictIsTrue, ContradictionsLast
<1>7. QED
  BY <1>2, <1>4, <1>5, <1>6 DEF Trail

(* No step of a search leaves the trail.                                   *)
LEMMA TrailIsKept == IInv /\ Trail /\ [Next]_vars => Trail'
<1>. SUFFICES ASSUME IInv, Trail, [Next]_vars PROVE Trail'
  OBVIOUS
<1>2. CASE TakeChanged \/ FinishPackage \/ FinishPropagate \/ Fail \/ Succeed
  BY <1>2, LookingOnTrail
<1>3. CASE Finished \/ UNCHANGED vars
  BY <1>3, LookingOnTrail DEF Finished
<1>4. ASSUME NEW n \in 1 .. Len(facts), Skip(n) PROVE Trail'
  BY <1>4, LookingOnTrail
<1>5. ASSUME NEW n \in 1 .. Len(facts), Contradict(n) PROVE Trail'
  BY <1>5, ContradictOnTrail
<1>6. ASSUME NEW n \in 1 .. Len(facts), Derive(n) PROVE Trail'
  BY <1>6, DeriveOnTrail
<1>7. ASSUME NEW n \in 1 .. Len(facts), MeetConflict(n) PROVE Trail'
  BY <1>7, MeetConflictOnTrail
<1>8. CASE Resolve
  BY <1>8, ResolveOnTrail
<1>9. CASE Backjump
  BY <1>9, BackjumpOnTrail
<1>10. ASSUME NEW p \in Packages, ChooseVersion(p) PROVE Trail'
  BY <1>10, ChooseVersionOnTrail
<1>11. ASSUME NEW p \in Packages, FindNoVersion(p) PROVE Trail'
  BY <1>11, FindNoVersionOnTrail
<1>12. QED
  BY <1>2, <1>3, <1>4, <1>5, <1>6, <1>7, <1>8, <1>9, <1>10, <1>11 DEF Next

(* Every search keeps its trail.                                           *)
LEMMA TrailInvariance == Spec => [](IInv /\ Trail)
<1>1. Spec => []IInv
  BY Invariance
<1>2. Init => Trail
  BY InitOnTrail
<1>3. IInv /\ Trail /\ [Next]_vars => Trail'
  BY TrailIsKept
<1>4. QED
  BY <1>1, <1>2, <1>3, PTL DEF Spec

(* None of the solver's assertions fails: no derived incompatibility loses *)
(* all its choices for a package, and a root cause always leaves one term  *)
(* open where the search goes back to.                                     *)
THEOREM NoAssertionFails == Spec => [](pc # "crashed")
<1>1. IInv /\ Trail => pc # "crashed"
  BY DEF Trail
<1>2. QED
  BY <1>1, TrailInvariance, PTL

(* What _propagate skips as contradicted has a false term, whatever levels *)
(* were dropped since it was contradicted.                                 *)
THEOREM SkippedIsFalse == Spec => []ContradictedIsFalse
<1>1. IInv /\ Trail => ContradictedIsFalse
  <2>. SUFFICES ASSUME IInv, Trail, NEW k \in contradicted PROVE Contradicts(solution, facts[k])
    BY DEF ContradictedIsFalse
  <2>2. PICK x \in contradictedAt : x[2] = k
    BY DEF Trail, ContradictionsLast
  <2>3. Refuted(assignments, facts[k], x[1])
    BY <2>2 DEF Trail, ContradictionsLast
  <2>4. Contradicts(SolutionAt(assignments, Len(assignments)), facts[k])
    BY <2>3, RefutedContradicts, TrailTypes
  <2>5. QED
    BY <2>4, TrailTypes
<1>2. QED
  BY <1>1, TrailInvariance, PTL

(* Levels never decrease along the assignments, and they count the         *)
(* decisions that are left.                                                *)
THEOREM LevelsCountDecisions == Spec => []LevelsAreOrdered
<1>1. IInv /\ Trail => LevelsAreOrdered
  <2>. SUFFICES ASSUME IInv, Trail PROVE LevelsAreOrdered
    OBVIOUS
  <2>2. Len(assignments) \in Nat
    BY TrailTypes
  <2>3. \A k \in 2 .. Len(assignments) : assignments[k - 1].level <= assignments[k].level
    <3>1. ASSUME NEW k \in 2 .. Len(assignments)
          PROVE  assignments[k - 1].level <= assignments[k].level
      <4>1. k \in 1 .. Len(assignments) /\ k - 1 \in 1 .. k
        BY <2>2
      <4>2. QED
        BY <4>1, LevelsGrow
    <3>2. QED
      BY <3>1
  <2>4. \A k \in 1 .. Len(assignments) :
          assignments[k].level = Cardinality({j \in 1 .. k : assignments[j].cause = 0})
    BY DEF Trail, LevelsCount, Decided
  <2>5. ASSUME NEW p \in Packages, decisions[p] # Absent
        PROVE  \E k \in 1 .. Len(assignments) :
                 assignments[k] = [name |-> p, term |-> {decisions[p]}, cause |-> 0,
                                   level |-> assignments[k].level]
    <3>1. PICK k \in Decided(assignments, Len(assignments)) : assignments[k].name = p
      BY <2>5 DEF Trail, DecisionsAreRecorded, Recorded
    <3>2. k \in 1 .. Len(assignments) /\ assignments[k].cause = 0
      BY DEF Decided
    <3>3. assignments[k].term = {decisions[p]}
      BY <3>1 DEF Trail, DecisionsAreRecorded, Recorded
    <3>4. assignments[k] \in Assignment
      BY <3>2, TrailTypes
    <3>5. QED
      BY <3>1, <3>2, <3>3, <3>4 DEF Assignment
  <2>6. QED
    BY <2>3, <2>4, <2>5 DEF LevelsAreOrdered
<1>2. QED
  BY <1>1, TrailInvariance, PTL


-----------------------------------------------------------------------------
(* Every step keeps what the decided versions require                      *)

(* A decided version is all that is left of its package.                   *)
LEMMA DecidedFacts ==
  ASSUME IInv, Trail, NEW j \in Decided(assignments, Len(assignments))
  PROVE  /\ j \in 1 .. Len(assignments) /\ assignments[j].cause = 0
         /\ assignments[j].name \in Packages
         /\ decisions[assignments[j].name] \in Versions
         /\ assignments[j].term = {decisions[assignments[j].name]}
         /\ solution[assignments[j].name] = {decisions[assignments[j].name]}
<1>1. j \in 1 .. Len(assignments) /\ assignments[j].cause = 0
  BY DEF Decided
<1>2. PICK p \in Packages : p = assignments[j].name
  BY <1>1, TrailTypes
<1>3. decisions[p] # Absent /\ assignments[j].term = {decisions[p]}
  BY <1>2 DEF Trail, DecisionsAreRecorded, Recorded
<1>4. decisions[p] \in Versions
  BY <1>3, TrailTypes DEF Selection
<1>5. solution[p] = {decisions[p]}
  <2>1. solution[p] = Accumulated(assignments, Len(assignments), p) /\ solution[p] # {}
    BY TrailTypes DEF IInv, Soundness, SolutionIsDerived, Terms
  <2>2. Accumulated(assignments, Len(assignments), p) \subseteq {decisions[p]}
    BY <1>1, <1>2, <1>3 DEF Accumulated
  <2>3. QED
    BY <2>1, <2>2
<1>6. QED
  BY <1>1, <1>2, <1>3, <1>4, <1>5

(* One package is narrowed: what was settled is, or it is about that one.  *)
LEMMA SettledOrMentioned ==
  ASSUME NEW p \in Packages, NEW sol, NEW new, NEW i,
         \A q \in Packages \ {p} : new[q] = sol[q],
         new[p] \subseteq sol[p], sol[p] \subseteq Selection, Settled(sol, i)
  PROVE  Settled(new, i) \/ Mentions(i, p)
<1>1. CASE Contradicts(sol, i)
  <2>1. PICK q \in Packages : sol[q] \cap i[q] = {}
    BY <1>1 DEF Contradicts, Disjoint
  <2>2. new[q] \cap i[q] = {}
    BY <2>1
  <2>3. QED
    BY <2>2 DEF Settled, Contradicts, Disjoint
<1>2. CASE \E x, y \in Unsatisfied(sol, i) : x # y
  <2>1. PICK x, y \in Unsatisfied(sol, i) : x # y
    BY <1>2
  <2>2. CASE x = p \/ y = p
    <3>1. Inconclusive(sol, i, p)
      BY <2>1, <2>2 DEF Unsatisfied
    <3>2. QED
      BY <3>1 DEF Inconclusive, Mentions, NoTerm
  <2>3. CASE x # p /\ y # p
    <3>1. x \in Unsatisfied(new, i) /\ y \in Unsatisfied(new, i)
      BY <2>1, <2>3 DEF Unsatisfied, Inconclusive, Disjoint
    <3>2. QED
      BY <2>1, <3>1 DEF Settled
  <2>4. QED
    BY <2>2, <2>3
<1>3. QED
  BY <1>1, <1>2 DEF Settled

(* What _propagate skips is settled.                                       *)
LEMMA ContradictedIsSettled ==
  ASSUME IInv, Trail, NEW f \in contradicted
  PROVE  Contradicts(solution, facts[f])
<1>1. PICK x \in contradictedAt : x[2] = f
  BY DEF Trail, ContradictionsLast
<1>2. Refuted(assignments, facts[f], x[1])
  BY <1>1 DEF Trail, ContradictionsLast
<1>3. Contradicts(SolutionAt(assignments, Len(assignments)), facts[f])
  BY <1>2, RefutedContradicts, TrailTypes
<1>4. QED
  BY <1>3, TrailTypes

(* Steps that assign nothing and learn nothing.                            *)
LEMMA StayRequired ==
  ASSUME IInv, Trail, Requirements,
         UNCHANGED <<registry, facts, assignments, decisions, solution>>,
         NothingIsOpen',
         pc' \in {"propagate", "choose", "solved"} =>
           /\ pc \in {"propagate", "choose", "solved"}
           /\ \A f \in 1 .. Len(facts) :
                Scheduled(f) => Scheduled(f)' \/ Settled(solution, facts[f])
  PROVE  Requirements'
<1>1. \A p : Own(p)' = Own(p)
  BY DEF Own, IncompatibilitiesFor
<1>2. DecisionsAreKnown'
  BY <1>1 DEF Requirements, DecisionsAreKnown
<1>3. SettledBefore'
  BY <1>1 DEF Requirements, SettledBefore
<1>4. SettledNow'
  <2>. SUFFICES ASSUME pc' \in {"propagate", "choose", "solved"},
                       NEW j \in Decided(assignments, Len(assignments)), NEW f \in 1 .. Len(facts),
                       facts[f] \in Own(assignments[j].name)
                PROVE  Settled(solution, facts[f]) \/ Scheduled(f)'
    BY <1>1 DEF SettledNow
  <2>1. Settled(solution, facts[f]) \/ Scheduled(f)
    BY DEF Requirements, SettledNow
  <2>2. QED
    BY <2>1
<1>5. QED
  BY <1>2, <1>3, <1>4 DEF Requirements


(* What _propagate has passed by is settled.                               *)
LEMMA LookingRequired ==
  ASSUME IInv, Trail, Requirements, NEW n \in 0 .. Len(facts),
         UNCHANGED <<registry, facts, assignments, decisions, solution, pc, changed, package>>,
         pc = "propagate", cursor' = n,
         \A f \in n + 1 .. Len(facts) :
           f <= cursor /\ Mentions(facts[f], package) => Settled(solution, facts[f])
  PROVE  Requirements'
<1>1. Len(facts) \in Nat /\ n \in Nat
  BY TrailTypes
<1>2. ASSUME NEW f \in 1 .. Len(facts), Scheduled(f)
      PROVE  Scheduled(f)' \/ Settled(solution, facts[f])
  <2>1. PICK p \in Packages : Mentions(facts[f], p) /\ (p \in changed \/ (p = package /\ f <= cursor))
    BY <1>2 DEF Scheduled
  <2>2. CASE p \in changed
    BY <2>1, <2>2 DEF Scheduled
  <2>3. CASE p = package /\ f <= n
    BY <2>1, <2>3 DEF Scheduled
  <2>4. CASE p = package /\ f <= cursor /\ f > n
    <3>1. f \in n + 1 .. Len(facts)
      BY <1>1, <2>4
    <3>2. QED
      BY <2>1, <2>4, <3>1
  <2>5. QED
    BY <1>1, <2>1, <2>2, <2>3, <2>4
<1>3. NothingIsOpen'
  BY DEF NothingIsOpen
<1>4. QED
  BY <1>2, <1>3, StayRequired

LEMMA PassedIsSettled ==
  ASSUME IInv, Trail, NEW n \in 1 .. Len(facts), Examining(n), NEW f \in n + 1 .. Len(facts),
         f <= cursor, Mentions(facts[f], package)
  PROVE  Contradicts(solution, facts[f])
<1>1. f \in n + 1 .. cursor
  BY TrailTypes DEF IInv, Soundness, TypeOK
<1>2. f \in contradicted
  BY <1>1 DEF Examining, IsNext
<1>3. QED
  BY <1>2, ContradictedIsSettled

LEMMA ContradictRequired ==
  ASSUME IInv, Trail, Requirements, NEW n \in 1 .. Len(facts), Contradict(n)
  PROVE  Requirements'
<1>1. /\ UNCHANGED <<registry, facts, assignments, decisions, solution, pc, changed, package>>
      /\ Examining(n) /\ pc = "propagate" /\ cursor' = n - 1 /\ Contradicts(solution, facts[n])
  BY DEF Contradict, Examining, partialSolution
<1>2. n - 1 \in 0 .. Len(facts) /\ n \in Nat /\ Len(facts) \in Nat
  BY TrailTypes
<1>3. ASSUME NEW f \in n - 1 + 1 .. Len(facts), f <= cursor, Mentions(facts[f], package)
      PROVE  Settled(solution, facts[f])
  <2>1. f = n \/ f \in n + 1 .. Len(facts)
    BY <1>2
  <2>2. Contradicts(solution, facts[f])
    BY <1>1, <1>3, <2>1, PassedIsSettled
  <2>3. QED
    BY <2>2 DEF Settled
<1>4. QED
  BY <1>1, <1>2, <1>3, LookingRequired

LEMMA SkipRequired ==
  ASSUME IInv, Trail, Requirements, NEW n \in 1 .. Len(facts), Skip(n)
  PROVE  Requirements'
<1>1. /\ UNCHANGED <<registry, facts, assignments, decisions, solution, pc, changed, package>>
      /\ Examining(n) /\ pc = "propagate" /\ cursor' = n - 1
      /\ \E p, q \in Unsatisfied(solution, facts[n]) : p # q
  BY DEF Skip, Examining, partialSolution, knowledge
<1>2. n - 1 \in 0 .. Len(facts) /\ n \in Nat /\ Len(facts) \in Nat
  BY TrailTypes
<1>3. ASSUME NEW f \in n - 1 + 1 .. Len(facts), f <= cursor, Mentions(facts[f], package)
      PROVE  Settled(solution, facts[f])
  <2>1. f = n \/ f \in n + 1 .. Len(facts)
    BY <1>2
  <2>2. CASE f = n
    BY <1>1, <2>2 DEF Settled
  <2>3. CASE f \in n + 1 .. Len(facts)
    BY <1>1, <1>3, <2>3, PassedIsSettled DEF Settled
  <2>4. QED
    BY <2>1, <2>2, <2>3
<1>4. QED
  BY <1>1, <1>2, <1>3, LookingRequired

LEMMA TakeChangedRequired ==
  ASSUME IInv, Trail, Requirements, TakeChanged
  PROVE  Requirements'
<1>1. /\ UNCHANGED <<registry, facts, assignments, decisions, solution, pc>>
      /\ pc = "propagate" /\ package = NoPackage /\ cursor' = Len(facts)
  BY DEF TakeChanged, partialSolution, knowledge
<1>2. PICK p \in changed : package' = p /\ changed' = changed \ {p}
  BY DEF TakeChanged
<1>3. ASSUME NEW f \in 1 .. Len(facts), Scheduled(f) PROVE Scheduled(f)'
  <2>1. PICK q \in Packages : Mentions(facts[f], q) /\ q \in changed
    BY <1>1, <1>3, Basics DEF Scheduled, NoPackage
  <2>2. f <= cursor'
    BY <1>1, TrailTypes
  <2>3. CASE q = p
    BY <1>1, <1>2, <2>1, <2>2, <2>3 DEF Scheduled
  <2>4. CASE q # p
    BY <1>1, <1>2, <2>1, <2>4 DEF Scheduled
  <2>5. QED
    BY <2>3, <2>4
<1>4. NothingIsOpen'
  BY <1>1 DEF NothingIsOpen
<1>5. QED
  BY <1>1, <1>3, <1>4, StayRequired

LEMMA FinishPackageRequired ==
  ASSUME IInv, Trail, Requirements, FinishPackage
  PROVE  Requirements'
<1>1. /\ UNCHANGED <<registry, facts, assignments, decisions, solution, pc, changed>>
      /\ pc = "propagate" /\ package' = NoPackage
      /\ \A n \in 1 .. cursor : Mentions(facts[n], package) => n \in contradicted
  BY DEF FinishPackage, partialSolution, knowledge
<1>2. ASSUME NEW f \in 1 .. Len(facts), Scheduled(f)
      PROVE  Scheduled(f)' \/ Settled(solution, facts[f])
  <2>1. PICK p \in Packages : Mentions(facts[f], p) /\ (p \in changed \/ (p = package /\ f <= cursor))
    BY <1>2 DEF Scheduled
  <2>2. CASE p \in changed
    BY <1>1, <2>1, <2>2 DEF Scheduled
  <2>3. CASE p = package /\ f <= cursor
    <3>1. f \in 1 .. cursor
      BY <2>3, TrailTypes DEF IInv, Soundness, TypeOK
    <3>2. f \in contradicted
      BY <1>1, <2>1, <2>3, <3>1
    <3>3. QED
      BY <3>2, ContradictedIsSettled DEF Settled
  <2>4. QED
    BY <2>1, <2>2, <2>3
<1>3. NothingIsOpen'
  BY <1>1 DEF NothingIsOpen
<1>4. QED
  BY <1>1, <1>2, <1>3, StayRequired

LEMMA FinishPropagateRequired ==
  ASSUME IInv, Trail, Requirements, FinishPropagate
  PROVE  Requirements'
<1>1. /\ UNCHANGED <<registry, facts, assignments, decisions, solution>>
      /\ pc = "propagate" /\ pc' = "choose" /\ package = NoPackage /\ changed = {}
  BY DEF FinishPropagate, partialSolution, knowledge
<1>2. \A f \in 1 .. Len(facts) : ~ Scheduled(f)
  BY <1>1, Basics DEF Scheduled, NoPackage
<1>3. NothingIsOpen'
  BY <1>1 DEF NothingIsOpen
<1>4. QED
  BY <1>1, <1>2, <1>3, StayRequired

LEMMA SucceedRequired ==
  ASSUME IInv, Trail, Requirements, Succeed
  PROVE  Requirements'
<1>1. /\ UNCHANGED <<registry, facts, assignments, decisions, solution>>
      /\ pc = "choose" /\ pc' = "solved" /\ Undecided = {}
  BY DEF Succeed, partialSolution, knowledge
<1>2. \A f \in 1 .. Len(facts) : ~ Scheduled(f)
  BY <1>1 DEF Scheduled
<1>3. NothingIsOpen'
  BY <1>1 DEF NothingIsOpen, Undecided
<1>4. QED
  BY <1>1, <1>2, <1>3, StayRequired

(* Steps of conflict resolution.                                           *)
LEMMA ResolvingRequired ==
  ASSUME IInv, Trail, Requirements,
         Resolve \/ Fail \/ \E n \in 1 .. Len(facts) : MeetConflict(n)
  PROVE  Requirements'
<1>1. /\ UNCHANGED <<registry, facts, assignments, decisions, solution>>
      /\ pc' \in {"crashed", "failed", "resolve"}
  BY DEF Resolve, Fail, MeetConflict, partialSolution, knowledge
<1>2. NothingIsOpen'
  BY <1>1 DEF NothingIsOpen
<1>3. QED
  BY <1>1, <1>2, StayRequired

LEMMA StutterRequired ==
  ASSUME IInv, Trail, Requirements, UNCHANGED vars
  PROVE  Requirements'
<1>1. UNCHANGED <<registry, facts, assignments, decisions, solution, pc, changed, package, cursor>>
  BY DEF vars
<1>2. NothingIsOpen'
  BY <1>1 DEF Requirements, NothingIsOpen, Undecided
<1>3. \A f \in 1 .. Len(facts) : Scheduled(f) => Scheduled(f)'
  BY <1>1 DEF Scheduled
<1>4. QED
  BY <1>1, <1>2, <1>3, StayRequired


LEMMA SameOwn ==
  ASSUME registry' = registry, NEW p, decisions'[p] = decisions[p]
  PROVE  Own(p)' = Own(p)
BY DEF Own, IncompatibilitiesFor

(* Of the first n assignments, with one derived behind them, every decision *)
(* is as well known as it was.                                             *)
LEMMA PrefixRequired ==
  ASSUME IInv, Trail, Requirements,
         NEW n \in 0 .. Len(assignments), NEW a \in Assignment, a.cause # 0,
         assignments' = Append(SubSeq(assignments, 1, n), a), registry' = registry,
         Len(facts) <= Len(facts'), \A f \in 1 .. Len(facts) : facts'[f] = facts[f],
         \A j \in Decided(assignments, n) :
           decisions'[assignments[j].name] = decisions[assignments[j].name]
  PROVE  /\ Decided(assignments', Len(assignments')) = Decided(assignments, n)
         /\ Decided(assignments, n) \subseteq Decided(assignments, Len(assignments))
         /\ \A j \in Decided(assignments, n), p \in Packages : p = assignments[j].name =>
              assignments'[j].name = p /\ Own(p)' = Own(p)
         /\ DecisionsAreKnown' /\ SettledBefore'
<1>1. /\ assignments \in Seq(Assignment) /\ Len(assignments) \in Nat /\ n \in Nat
      /\ Len(assignments') = n + 1 /\ assignments'[n + 1] = a
      /\ \A k \in 1 .. n : assignments'[k] = assignments[k]
  BY TrailTypes, CutAppend
<1>2. PICK new : new = assignments'
  OBVIOUS
<1>3. /\ \A m \in 0 .. n : SolutionAt(new, m) = SolutionAt(assignments, m)
      /\ \A m \in 0 .. n, p \in Packages : Accumulated(new, m, p) = Accumulated(assignments, m, p)
  <2>1. new = Append(SubSeq(assignments, 1, n), a)
    BY <1>2
  <2>2. QED
    BY <1>1, <2>1, CutPrefix
<1>4. Decided(new, Len(new)) = Decided(assignments, n)
  <2>1. Decided(new, n) = Decided(assignments, n)
    BY <1>1, <1>2 DEF Decided
  <2>2. Decided(new, n + 1) = Decided(new, n)
    BY <1>1, <1>2, DecidedAgain
  <2>3. QED
    BY <1>1, <1>2, <2>1, <2>2
<1>5. Decided(assignments, n) \subseteq Decided(assignments, Len(assignments))
  BY <1>1 DEF Decided
<1>6. \A j \in Decided(assignments, n) :
        /\ new[j] = assignments[j] /\ j \in 1 .. n /\ j - 1 \in 0 .. n
        /\ assignments[j].name \in Packages
  <2>1. \A j \in Decided(assignments, n) : j \in 1 .. n
    BY DEF Decided
  <2>2. \A j \in 1 .. n : j - 1 \in 0 .. n /\ j \in 1 .. Len(assignments)
    BY <1>1
  <2>3. QED
    BY <1>1, <1>2, <2>1, <2>2, TrailTypes
<1>7. ASSUME NEW j \in Decided(assignments, n), NEW p \in Packages, p = assignments[j].name
      PROVE  Own(p)' = Own(p)
  BY <1>7, SameOwn
<1>8. DecisionsAreKnown'
  <2>1. ASSUME NEW j \in Decided(assignments, n), NEW p \in Packages, p = assignments[j].name
        PROVE  /\ decisions'[p] \in registry.available[p] \ registry.unusable[p]
               /\ Absent \notin Accumulated(new, j - 1, p)
               /\ \A i \in Own(p)' : \E f \in 1 .. Len(facts') : facts'[f] = i
    <3>1. p = assignments[j].name
      BY <2>1
    <3>2. /\ decisions[p] \in registry.available[p] \ registry.unusable[p]
          /\ Absent \notin Accumulated(assignments, j - 1, p)
          /\ \A i \in Own(p) : \E f \in 1 .. Len(facts) : facts[f] = i
      BY <1>5, <3>1 DEF Requirements, DecisionsAreKnown
    <3>3. Accumulated(new, j - 1, p) = Accumulated(assignments, j - 1, p)
      BY <1>3, <1>6
    <3>4. \A f \in 1 .. Len(facts) : f \in 1 .. Len(facts') /\ facts'[f] = facts[f]
      <4>1. Len(facts) \in Nat
        BY TrailTypes
      <4>2. \A f \in 1 .. Len(facts) : f \in 1 .. Len(facts')
        BY <4>1
      <4>3. QED
        BY <4>2
    <3>5. \A i \in Own(p)' : \E f \in 1 .. Len(facts') : facts'[f] = i
      BY <1>7, <3>1, <3>2, <3>4
    <3>6. QED
      BY <3>1, <3>2, <3>3, <3>5
  <2>2. \A j \in Decided(assignments, n) : assignments'[j].name = assignments[j].name
    BY <1>2, <1>6
  <2>3. Decided(assignments', Len(assignments')) = Decided(assignments, n)
    BY <1>2, <1>4
  <2>4. ASSUME NEW j \in Decided(assignments, n), NEW p, p = assignments'[j].name
        PROVE  /\ decisions'[p] \in registry'.available[p] \ registry'.unusable[p]
               /\ Absent \notin Accumulated(assignments', j - 1, p)
               /\ \A i \in Own(p)' : \E f \in 1 .. Len(facts') : facts'[f] = i
    BY <1>2, <1>6, <2>1, <2>2, <2>4, ZenonT(30)
  <2>5. \A j \in Decided(assignments', Len(assignments')) :
          /\ decisions'[assignments'[j].name] \in
               registry'.available[assignments'[j].name] \ registry'.unusable[assignments'[j].name]
          /\ Absent \notin Accumulated(assignments', j - 1, assignments'[j].name)
          /\ \A i \in Own(assignments[j].name)' : \E f \in 1 .. Len(facts') : facts'[f] = i
    <3>1. ASSUME NEW j \in Decided(assignments, n), NEW i \in Own(assignments[j].name)'
          PROVE  \E f \in 1 .. Len(facts') : facts'[f] = i
      <4>1. PICK p : p = assignments'[j].name
        OBVIOUS
      <4>2. Own(assignments[j].name)' = Own(p)'
        BY <4>1 DEF Own
      <4>3. QED
        BY <2>4, <4>1, <4>2, ZenonT(30)
    <3>2. QED
      BY <2>3, <2>4, <3>1
  <2>6. QED
    BY <2>5 DEF DecisionsAreKnown
<1>9. SettledBefore'
  <2>1. ASSUME NEW j \in Decided(assignments, n), NEW m \in Decided(assignments, n), j < m,
               NEW i \in Own(assignments[j].name)
        PROVE  Settled(SolutionAt(new, m - 1), i)
    <3>1. Settled(SolutionAt(assignments, m - 1), i)
      BY <1>5, <2>1 DEF Requirements, SettledBefore
    <3>2. QED
      BY <1>3, <1>6, <3>1
  <2>2. \A j \in Decided(assignments, n) : assignments'[j].name = assignments[j].name
    BY <1>2, <1>6
  <2>3. Decided(assignments', Len(assignments')) = Decided(assignments, n)
    BY <1>2, <1>4
  <2>4. \A j \in Decided(assignments, n) : assignments[j].name \in Packages
    BY <1>6
  <2>. SUFFICES ASSUME NEW j \in Decided(assignments, n), NEW m \in Decided(assignments, n), j < m,
                       NEW p \in Packages, p = assignments[j].name, NEW i \in Own(p)'
                PROVE  Settled(SolutionAt(assignments', m - 1), i)
    BY <2>2, <2>3, <2>4 DEF SettledBefore
  <2>5. QED
    BY <1>2, <1>7, <2>1
<1>10. QED
  BY <1>2, <1>4, <1>5, <1>6, <1>7, <1>8, <1>9

LEMMA DeriveRequired ==
  ASSUME IInv, Trail, Requirements, NEW n \in 1 .. Len(facts), Derive(n)
  PROVE  Requirements'
<1>1. PICK p \in Packages :
        /\ Unsatisfied(solution, facts[n]) = {p}
        /\ assignments' = Append(assignments, Derivation(facts[n], p, n, DecisionLevel))
        /\ solution' = [solution EXCEPT ![p] = @ \cap Not(facts[n][p])]
        /\ changed' = changed \cup {p}
  BY DEF Derive
<1>2. /\ UNCHANGED <<registry, facts, decisions, pc, package>>
      /\ Examining(n) /\ pc = "propagate" /\ cursor' = n - 1
  BY DEF Derive, Examining
<1>3. /\ n \in Nat /\ n # 0 /\ facts[n] \in [Packages -> Terms] /\ DecisionLevel \in Nat
      /\ assignments \in Seq(Assignment) /\ Len(assignments) \in 0 .. Len(assignments)
  BY TrailTypes, LevelIsCount
<1>4. PICK a : a = Derivation(facts[n], p, n, DecisionLevel)
  OBVIOUS
<1>5. a \in Assignment /\ a.cause # 0
  <2>1. Inconclusive(solution, facts[n], p)
    BY <1>1 DEF Unsatisfied
  <2>2. Not(facts[n][p]) \in Terms
    BY <1>3, <2>1, TrailTypes DEF Inconclusive, Terms, Not
  <2>3. QED
    BY <1>3, <1>4, <2>2 DEF Assignment, Derivation
<1>6. assignments' = Append(SubSeq(assignments, 1, Len(assignments)), a)
  <2>1. SubSeq(assignments, 1, Len(assignments)) = assignments
    BY <1>3, CutNothing
  <2>2. QED
    BY <1>1, <1>4, <2>1
<1>7. Len(facts) <= Len(facts') /\ \A f \in 1 .. Len(facts) : facts'[f] = facts[f]
  BY <1>2, TrailTypes
<1>8. /\ Decided(assignments', Len(assignments')) = Decided(assignments, Len(assignments))
      /\ \A j \in Decided(assignments, Len(assignments)), q \in Packages :
           q = assignments[j].name => assignments'[j].name = q /\ Own(q)' = Own(q)
      /\ DecisionsAreKnown' /\ SettledBefore'
  <2>1. \A j \in Decided(assignments, Len(assignments)) :
          decisions'[assignments[j].name] = decisions[assignments[j].name]
    BY <1>2
  <2>2. QED
    BY <1>2, <1>3, <1>5, <1>6, <1>7, <2>1, PrefixRequired
<1>9. /\ \A q \in Packages \ {p} : solution'[q] = solution[q]
      /\ solution'[p] \subseteq solution[p] /\ solution[p] \subseteq Selection
      /\ solution'[p] \cap facts[n][p] = {}
  <2>1. solution \in [Packages -> Terms]
    BY DEF IInv, Soundness, TypeOK
  <2>2. QED
    BY <1>1, <2>1 DEF Not, Terms
<1>10. ASSUME NEW f \in 1 .. Len(facts), Settled(solution, facts[f])
       PROVE  Settled(solution', facts[f]) \/ Scheduled(f)'
  <2>1. PICK new : new = solution'
    OBVIOUS
  <2>2. Settled(new, facts[f]) \/ Mentions(facts[f], p)
    BY <1>9, <1>10, <2>1, SettledOrMentioned
  <2>3. Mentions(facts[f], p) => Scheduled(f)'
    BY <1>1, <1>2 DEF Scheduled
  <2>4. QED
    BY <2>1, <2>2, <2>3
<1>11. ASSUME NEW f \in 1 .. Len(facts), Scheduled(f)
       PROVE  Settled(solution', facts[f]) \/ Scheduled(f)'
  <2>1. PICK q \in Packages : Mentions(facts[f], q) /\ (q \in changed \/ (q = package /\ f <= cursor))
    BY <1>11 DEF Scheduled
  <2>2. CASE q \in changed
    BY <1>1, <1>2, <2>1, <2>2 DEF Scheduled
  <2>3. CASE q = package /\ f <= n - 1
    BY <1>2, <2>1, <2>3 DEF Scheduled
  <2>4. CASE f = n
    BY <1>9, <2>4 DEF Settled, Contradicts, Disjoint
  <2>5. CASE q = package /\ f <= cursor /\ f > n
    <3>1. f \in n + 1 .. Len(facts)
      BY <1>3, <2>5, TrailTypes
    <3>2. Settled(solution, facts[f])
      BY <1>2, <2>1, <2>5, <3>1, PassedIsSettled DEF Settled
    <3>3. QED
      BY <3>2, <1>10
  <2>6. f \in Nat
    BY TrailTypes
  <2>7. QED
    BY <1>3, <2>1, <2>2, <2>3, <2>4, <2>5, <2>6
<1>12. SettledNow'
  <2>. SUFFICES ASSUME NEW j \in Decided(assignments, Len(assignments)),
                       NEW f \in 1 .. Len(facts), facts[f] \in Own(assignments[j].name)
                PROVE  Settled(solution', facts[f]) \/ Scheduled(f)'
    BY <1>2, <1>8, DecidedFacts DEF SettledNow
  <2>1. Settled(solution, facts[f]) \/ Scheduled(f)
    BY <1>2 DEF Requirements, SettledNow
  <2>2. QED
    BY <1>10, <1>11, <2>1
<1>13. NothingIsOpen'
  BY <1>2 DEF NothingIsOpen
<1>14. QED
  BY <1>8, <1>12, <1>13 DEF Requirements


(* What is settled when the solver chooses: nothing is left to propagate.  *)
LEMMA SettledAtChoice ==
  ASSUME IInv, Trail, Requirements, pc = "choose",
         NEW j \in Decided(assignments, Len(assignments)), NEW i \in Own(assignments[j].name)
  PROVE  Settled(solution, i)
<1>1. PICK f \in 1 .. Len(facts) : facts[f] = i
  BY DEF Requirements, DecisionsAreKnown
<1>2. ~ Scheduled(f)
  BY DEF Scheduled
<1>3. QED
  BY <1>1, <1>2 DEF Requirements, SettledNow

(* What is learned about p will be propagated.                             *)
LEMMA LearnRequired ==
  ASSUME IInv, Trail, Requirements, NEW p \in Packages,
         UNCHANGED <<registry, assignments, decisions, solution>>,
         pc = "choose", pc' = "propagate", changed' = {p},
         Len(facts) <= Len(facts'), \A f \in 1 .. Len(facts) : facts'[f] = facts[f],
         \A f \in Len(facts) + 1 .. Len(facts') : Mentions(facts'[f], p),
         Len(facts') \in Nat
  PROVE  Requirements'
<1>1. \A q : Own(q)' = Own(q)
  BY DEF Own, IncompatibilitiesFor
<1>2. Len(facts) \in Nat /\ \A f \in 1 .. Len(facts) : f \in 1 .. Len(facts')
  <2>1. Len(facts) \in Nat
    BY TrailTypes
  <2>2. QED
    BY <2>1
<1>3. DecisionsAreKnown'
  <2>1. \A q, i : (\E f \in 1 .. Len(facts) : facts[f] = i) => \E f \in 1 .. Len(facts') : facts'[f] = i
    BY <1>2
  <2>2. QED
    BY <1>1, <2>1 DEF Requirements, DecisionsAreKnown
<1>4. SettledBefore'
  BY <1>1 DEF Requirements, SettledBefore
<1>5. SettledNow'
  <2>. SUFFICES ASSUME NEW j \in Decided(assignments, Len(assignments)), NEW f \in 1 .. Len(facts'),
                       facts'[f] \in Own(assignments[j].name)
                PROVE  Settled(solution, facts'[f]) \/ Scheduled(f)'
    BY <1>1 DEF SettledNow
  <2>1. CASE f \in 1 .. Len(facts)
    BY <2>1, SettledAtChoice
  <2>2. CASE f \in Len(facts) + 1 .. Len(facts')
    BY <2>2 DEF Scheduled
  <2>3. QED
    BY <1>2, <2>1, <2>2
<1>6. NothingIsOpen'
  BY DEF NothingIsOpen
<1>7. QED
  BY <1>3, <1>4, <1>5, <1>6 DEF Requirements

LEMMA FindNoVersionRequired ==
  ASSUME IInv, Trail, Requirements, NEW p \in Packages, FindNoVersion(p)
  PROVE  Requirements'
<1>1. /\ UNCHANGED <<registry, assignments, decisions, solution>>
      /\ pc = "choose" /\ pc' = "propagate" /\ p \in Undecided /\ changed' = {p}
      /\ facts' = Append(facts, NoVersions(p, solution[p]))
  BY DEF FindNoVersion, partialSolution
<1>2. /\ Len(facts') = Len(facts) + 1 /\ Len(facts) \in Nat
      /\ \A f \in 1 .. Len(facts) : facts'[f] = facts[f]
      /\ facts'[Len(facts) + 1] = NoVersions(p, solution[p])
  BY <1>1, TrailTypes
<1>3. Mentions(NoVersions(p, solution[p]), p)
  BY <1>1, Basics DEF Undecided, Positive, IsPositive, Mentions, NoVersions, Nothing, NoTerm
<1>4. \A f \in Len(facts) + 1 .. Len(facts') : Mentions(facts'[f], p)
  BY <1>2, <1>3
<1>5. QED
  BY <1>1, <1>2, <1>4, LearnRequired

(* What a version requires is about its package.                           *)
LEMMA OwnMentions ==
  ASSUME NEW p \in Packages, NEW v \in Versions,
         NEW k \in 1 .. Len(IncompatibilitiesFor(p, v)), registry \in Registries
  PROVE  /\ Mentions(IncompatibilitiesFor(p, v)[k], p)
         /\ IncompatibilitiesFor(p, v)[k][p] = {v}
<1>1. IncompatibilitiesFor(p, v)[k][p] = {v}
  <2>1. CASE v \in registry.unusable[p]
    <3>1. PICK i : i = [Nothing EXCEPT ![p] = {v}]
      OBVIOUS
    <3>2. i[p] = {v}
      BY <3>1 DEF Nothing
    <3>3. IncompatibilitiesFor(p, v) = << i >>
      BY <2>1, <3>1 DEF IncompatibilitiesFor
    <3>4. QED
      BY <3>2, <3>3
  <2>2. CASE v \notin registry.unusable[p]
    <3>1. PICK n \in Nat : n = Len(registry.requires[p][v])
      BY RegistryFacts
    <3>2. IncompatibilitiesFor(p, v) =
            [j \in 1 .. n |-> Requires(p, v, registry.requires[p][v][j])]
      BY <2>2, <3>1 DEF IncompatibilitiesFor
    <3>3. \A j \in 1 .. n : Requires(p, v, registry.requires[p][v][j])[p] = {v}
      BY <3>1, RegistryFacts DEF Requires, Nothing
    <3>4. Len(IncompatibilitiesFor(p, v)) = n
      BY <3>1, <3>2
    <3>5. QED
      BY <3>2, <3>3, <3>4
  <2>3. QED
    BY <2>1, <2>2
<1>2. QED
  BY <1>1, Basics DEF Mentions, NoTerm, Selection


LEMMA NewOwn ==
  ASSUME registry' = registry, NEW p, NEW v, decisions'[p] = v
  PROVE  Own(p)' = {IncompatibilitiesFor(p, v)[k] : k \in 1 .. Len(IncompatibilitiesFor(p, v))}
BY DEF Own, IncompatibilitiesFor

(* What is learned of a version stands behind the facts known before.      *)
Learns(p, is) ==
  /\ Len(facts') \in Nat /\ Len(facts) \in Nat /\ Len(is) \in Nat /\ Len(facts) <= Len(facts')
  /\ \A f \in 1 .. Len(facts) : facts'[f] = facts[f] /\ f \in 1 .. Len(facts')
  /\ \A k \in 1 .. Len(is) :
       /\ Mentions(is[k], p)
       /\ facts'[Len(facts) + k] = is[k] /\ Len(facts) + k \in 1 .. Len(facts')
  /\ \A f \in Len(facts) + 1 .. Len(facts') : \E k \in 1 .. Len(is) : facts'[f] = is[k]

LEMMA OwnIsLearned ==
  ASSUME IInv, NEW p \in Packages, NEW v \in Versions,
         facts' = facts \o IncompatibilitiesFor(p, v)
  PROVE  Learns(p, IncompatibilitiesFor(p, v))
<1>. PICK is : is = IncompatibilitiesFor(p, v)
  OBVIOUS
<1>1. facts \in Seq(Incompatibilities) /\ is \in Seq(Incompatibilities)
  BY TrailTypes, IncompatibilitiesForHold DEF IInv
<1>2. Len(facts') = Len(facts) + Len(is) /\ Len(facts) \in Nat /\ Len(is) \in Nat
  BY <1>1
<1>3. \A f \in 1 .. Len(facts) : facts'[f] = facts[f] /\ f \in 1 .. Len(facts')
  BY <1>1, <1>2
<1>4. \A k \in 1 .. Len(is) : facts'[Len(facts) + k] = is[k] /\ Len(facts) + k \in 1 .. Len(facts')
  BY <1>1, <1>2
<1>5. \A k \in 1 .. Len(is) : Mentions(is[k], p)
  BY OwnMentions DEF IInv
<1>6. ASSUME NEW f \in Len(facts) + 1 .. Len(facts') PROVE \E k \in 1 .. Len(is) : facts'[f] = is[k]
  <2>1. f - Len(facts) \in 1 .. Len(is) /\ f = Len(facts) + (f - Len(facts))
    BY <1>2
  <2>2. PICK k \in 1 .. Len(is) : f = Len(facts) + k
    BY <2>1
  <2>3. QED
    BY <1>4, <2>2
<1>7. QED
  BY <1>2, <1>3, <1>4, <1>5, <1>6 DEF Learns

(* A decision: what it requires was just learned, and what was required    *)
(* before is settled.                                                      *)
LEMMA DecideRequired ==
  ASSUME IInv, Trail, Requirements, NEW p \in Packages, NEW v \in Versions, NEW a \in Assignment,
         pc = "choose", pc' = "propagate", changed' = {p}, registry' = registry,
         p \in Undecided, IsPreferred(p, v), ~ WouldConflict(p, v),
         facts' = facts \o IncompatibilitiesFor(p, v),
         decisions' = [decisions EXCEPT ![p] = v],
         solution' = [solution EXCEPT ![p] = @ \cap {v}],
         a.name = p, a.cause = 0, assignments' = Append(assignments, a)
  PROVE  Requirements'
<1>. DEFINE D == Decided(assignments, Len(assignments))
            last == Len(assignments) + 1
<1>1. registry \in Registries /\ IncompatibilitiesFor(p, v) \in Seq(Incompatibilities)
  BY IncompatibilitiesForHold DEF IInv
<1>2. PICK is : is = IncompatibilitiesFor(p, v)
  OBVIOUS
<1>3. /\ Len(facts') \in Nat /\ Len(facts) \in Nat /\ Len(is) \in Nat /\ Len(facts) <= Len(facts')
      /\ \A f \in 1 .. Len(facts) : facts'[f] = facts[f] /\ f \in 1 .. Len(facts')
      /\ \A k \in 1 .. Len(is) :
           facts'[Len(facts) + k] = is[k] /\ Len(facts) + k \in 1 .. Len(facts')
      /\ \A f \in Len(facts) + 1 .. Len(facts') : \E k \in 1 .. Len(is) : facts'[f] = is[k]
      /\ \A k \in 1 .. Len(is) : Mentions(is[k], p)
  <2>1. Learns(p, IncompatibilitiesFor(p, v))
    BY OwnIsLearned, Zenon
  <2>2. Learns(p, is)
    BY <1>2, <2>1
  <2>3. QED
    BY <2>2 DEF Learns
<1>4. \A k \in 1 .. Len(is) : Mentions(is[k], p)
  BY <1>3
<1>5. /\ assignments \in Seq(Assignment) /\ Len(assignments) \in Nat
      /\ Len(assignments') = Len(assignments) + 1 /\ assignments'[last] = a
      /\ \A k \in 1 .. Len(assignments) : assignments'[k] = assignments[k]
  BY TrailTypes
<1>6. PICK new : new = assignments'
  OBVIOUS
<1>7. Decided(assignments', Len(assignments')) = D \cup {last}
  <2>1. Decided(new, Len(assignments)) = D
    BY <1>5, <1>6 DEF Decided
  <2>2. Decided(new, last) = Decided(new, Len(assignments)) \cup {last}
    BY <1>5, <1>6, DecidedMore
  <2>3. QED
    BY <1>5, <1>6, <2>1, <2>2
<1>8. \A m \in 0 .. Len(assignments), q \in Packages :
        Accumulated(assignments', m, q) = Accumulated(assignments, m, q)
  <2>1. ASSUME NEW m \in 0 .. Len(assignments), NEW q \in Packages
        PROVE  Accumulated(new, m, q) = Accumulated(assignments, m, q)
    <3>1. \A k \in 1 .. m : new[k] = assignments[k]
      BY <1>5, <1>6
    <3>2. QED
      BY <3>1 DEF Accumulated
  <2>2. QED
    BY <1>6, <2>1
<1>9. \A j \in D : /\ j \in 1 .. Len(assignments) /\ j < last /\ assignments'[j] = assignments[j]
                   /\ j - 1 \in 0 .. Len(assignments)
                   /\ assignments[j].name \in Packages /\ assignments[j].name # p
  <2>1. \A j \in D : /\ j \in 1 .. Len(assignments) /\ assignments[j].name \in Packages
                     /\ decisions[assignments[j].name] \in Versions
    BY DecidedFacts
  <2>2. decisions[p] \notin Versions
    BY Basics DEF Undecided
  <2>3. \A j \in 1 .. Len(assignments) : j < last /\ j - 1 \in 0 .. Len(assignments)
    BY <1>5
  <2>4. QED
    BY <1>5, <2>1, <2>2, <2>3
<1>10. /\ decisions'[p] = v
       /\ \A q \in Packages \ {p} : decisions'[q] = decisions[q] /\ Own(q)' = Own(q)
  <2>1. decisions \in [Packages -> Selection]
    BY TrailTypes
  <2>2. decisions'[p] = v /\ \A q \in Packages \ {p} : decisions'[q] = decisions[q]
    BY <2>1
  <2>3. QED
    BY <2>2, SameOwn
<1>11. Own(p)' = {is[k] : k \in 1 .. Len(is)}
  <2>1. Own(p)' = {IncompatibilitiesFor(p, v)[k] : k \in 1 .. Len(IncompatibilitiesFor(p, v))}
    <3>1. registry' = registry /\ decisions'[p] = v
      BY <1>10
    <3>2. QED
      BY ONLY <3>1, NewOwn
  <2>2. QED
    BY <1>2, <2>1
<1>12. solution[p] = Accumulated(assignments, Len(assignments), p)
  BY DEF IInv, Soundness, SolutionIsDerived
<1>13. v \in registry.available[p] \ registry.unusable[p]
  <2>1. v \in Candidates(p)
    BY DEF IsPreferred
  <2>2. v \in registry.available[p]
    BY <1>1, <2>1, RegistryFacts, Basics DEF Candidates
  <2>3. ASSUME v \in registry.unusable[p] PROVE FALSE
    <3>1. PICK i : i = [Nothing EXCEPT ![p] = {v}]
      OBVIOUS
    <3>2. IncompatibilitiesFor(p, v) = << i >>
      BY <2>3, <3>1 DEF IncompatibilitiesFor
    <3>3. \A q \in Packages \ {p} : i[q] = Selection
      BY <3>1 DEF Nothing, NoTerm
    <3>4. \A q \in Packages : solution[q] \subseteq Selection
      BY TrailTypes DEF Terms
    <3>5. 1 \in 1 .. Len(<< i >>) /\ << i >>[1] = i
      OBVIOUS
    <3>6. QED
      BY <3>2, <3>3, <3>4, <3>5 DEF WouldConflict
  <2>4. QED
    BY <2>2, <2>3
<1>14. \A i \in Own(p)' : \E f \in 1 .. Len(facts') : facts'[f] = i
  <2>1. ASSUME NEW i \in Own(p)' PROVE \E f \in 1 .. Len(facts') : facts'[f] = i
    <3>1. PICK k \in 1 .. Len(is) : i = is[k]
      BY <1>11
    <3>2. QED
      BY <1>3, <3>1
  <2>2. QED
    BY <2>1
<1>. HIDE DEF D, last
<1>15. DecisionsAreKnown'
  <2>1. ASSUME NEW j \in D, NEW q \in Packages, q = assignments'[j].name
        PROVE  /\ decisions'[q] \in registry'.available[q] \ registry'.unusable[q]
               /\ Absent \notin Accumulated(assignments', j - 1, q)
               /\ \A i \in Own(q)' : \E f \in 1 .. Len(facts') : facts'[f] = i
    <3>1. q = assignments[j].name /\ q # p
      BY <1>9, <2>1
    <3>2. /\ decisions[q] \in registry.available[q] \ registry.unusable[q]
          /\ Absent \notin Accumulated(assignments, j - 1, q)
          /\ \A i \in Own(q) : \E f \in 1 .. Len(facts) : facts[f] = i
      BY <3>1 DEF Requirements, DecisionsAreKnown, D
    <3>3. Accumulated(assignments', j - 1, q) = Accumulated(assignments, j - 1, q)
      BY <1>8, <1>9
    <3>4. QED
      BY <1>3, <1>10, <3>1, <3>2, <3>3
  <2>2. assignments'[last].name = p
    BY <1>5
  <2>3. /\ decisions'[p] \in registry'.available[p] \ registry'.unusable[p]
        /\ Absent \notin Accumulated(assignments', last - 1, p)
    <3>1. last - 1 = Len(assignments) /\ Len(assignments) \in 0 .. Len(assignments)
      BY <1>5 DEF last
    <3>2. Absent \notin solution[p]
      BY DEF Undecided, Positive, IsPositive
    <3>3. QED
      BY <1>8, <1>10, <1>12, <1>13, <3>1, <3>2
  <2>4. ASSUME NEW j \in Decided(assignments', Len(assignments')), NEW q \in Packages,
               q = assignments'[j].name
        PROVE  /\ decisions'[q] \in registry'.available[q] \ registry'.unusable[q]
               /\ Absent \notin Accumulated(assignments', j - 1, q)
               /\ \A i \in Own(q)' : \E f \in 1 .. Len(facts') : facts'[f] = i
    <3>1. CASE j \in D
      BY <2>1, <2>4, <3>1
    <3>2. CASE j = last
      <4>1. q = p
        BY <2>2, <2>4, <3>2
      <4>2. QED
        BY <1>14, <2>3, <3>2, <4>1
    <3>3. QED
      BY <1>7, <3>1, <3>2
  <2>5. \A j \in Decided(assignments', Len(assignments')) : assignments'[j].name \in Packages
    BY <1>7, <1>9, <2>2
  <2>6. ASSUME NEW j \in Decided(assignments', Len(assignments')), NEW i \in Own(assignments[j].name)'
        PROVE  \E f \in 1 .. Len(facts') : facts'[f] = i
    <3>1. PICK q \in Packages : q = assignments'[j].name
      BY <2>5
    <3>2. Own(assignments[j].name)' = Own(q)'
      BY <3>1 DEF Own
    <3>3. i \in Own(q)'
      BY <3>2
    <3>4. \A x \in Own(q)' : \E f \in 1 .. Len(facts') : facts'[f] = x
      BY <2>4, <3>1, ZenonT(30)
    <3>5. QED
      BY ONLY <3>3, <3>4
  <2>7. QED
    BY <2>4, <2>5, <2>6 DEF DecisionsAreKnown
<1>16. SettledBefore'
  <2>1. ASSUME NEW j \in Decided(assignments', Len(assignments')),
               NEW m \in Decided(assignments', Len(assignments')), j < m,
               NEW i \in Own(assignments[j].name)'
        PROVE  Settled(SolutionAt(assignments', m - 1), i)
    <3>1. j \in D
      <4>1. last \in Nat /\ m \in Nat
        BY <1>5, <1>7, <1>9 DEF last
      <4>2. m <= last
        BY <1>7, <1>9, <4>1
      <4>3. j # last
        BY <2>1, <4>1, <4>2
      <4>4. QED
        BY <1>7, <4>3
    <3>2. PICK q \in Packages : q = assignments[j].name /\ q = assignments'[j].name /\ q # p
      BY <1>9, <3>1
    <3>3. i \in Own(q)
      <4>1. Own(assignments[j].name)' = Own(q)'
        BY <3>2 DEF Own
      <4>2. QED
        BY <1>10, <3>2, <4>1
    <3>4. CASE m \in D
      <4>1. Settled(SolutionAt(assignments, m - 1), i)
        BY <2>1, <3>1, <3>2, <3>3, <3>4 DEF Requirements, SettledBefore, D
      <4>2. SolutionAt(assignments', m - 1) = SolutionAt(assignments, m - 1)
        BY <1>8, <1>9, <3>4 DEF SolutionAt
      <4>3. QED
        BY <4>1, <4>2
    <3>5. CASE m = last
      <4>1. m - 1 = Len(assignments) /\ Len(assignments) \in 0 .. Len(assignments)
        BY <1>5, <3>5 DEF last
      <4>2. SolutionAt(assignments', m - 1) = SolutionAt(assignments, Len(assignments))
        BY <1>8, <4>1 DEF SolutionAt
      <4>3. SolutionAt(assignments', m - 1) = solution
        BY <4>2, TrailTypes
      <4>4. Settled(solution, i)
        BY <3>1, <3>2, <3>3, SettledAtChoice DEF D
      <4>5. QED
        BY <4>3, <4>4
    <3>6. QED
      BY <1>7, <3>4, <3>5
  <2>2. QED
    BY <2>1 DEF SettledBefore
<1>17. SettledNow'
  <2>1. ASSUME NEW f \in 1 .. Len(facts'), Mentions(facts'[f], p) PROVE Scheduled(f)'
    BY <2>1 DEF Scheduled
  <2>2. ASSUME NEW j \in Decided(assignments', Len(assignments')), NEW f \in 1 .. Len(facts'),
               facts'[f] \in Own(assignments[j].name)'
        PROVE  Settled(solution', facts'[f]) \/ Scheduled(f)'
    <3>1. CASE j = last
      <4>1. Own(assignments[j].name)' = Own(p)'
        BY <1>5, <3>1 DEF Own
      <4>2. QED
        BY <1>4, <1>11, <2>1, <2>2, <4>1
    <3>2. CASE j \in D
      <4>1. PICK q \in Packages : q = assignments[j].name /\ q = assignments'[j].name /\ q # p
        BY <1>9, <3>2
      <4>2. Own(assignments[j].name)' = Own(q)'
        BY <4>1 DEF Own
      <4>3. Settled(solution, facts'[f])
        BY <1>10, <2>2, <3>2, <4>1, <4>2, SettledAtChoice, ZenonT(30) DEF D
      <4>4. PICK sol : sol = solution'
        OBVIOUS
      <4>5. /\ \A r \in Packages \ {p} : sol[r] = solution[r]
            /\ sol[p] \subseteq solution[p] /\ solution[p] \subseteq Selection
        <5>1. solution \in [Packages -> Terms]
          BY DEF IInv, Soundness, TypeOK
        <5>2. QED
          BY <4>4, <5>1 DEF Terms
      <4>6. PICK i : i = facts'[f]
        OBVIOUS
      <4>7. Settled(sol, i) \/ Mentions(i, p)
        BY <4>3, <4>5, <4>6, SettledOrMentioned
      <4>8. QED
        BY <2>1, <4>4, <4>6, <4>7
    <3>3. QED
      BY <1>7, <3>1, <3>2
  <2>3. QED
    BY <2>2 DEF SettledNow
<1>18. NothingIsOpen'
  BY DEF NothingIsOpen
<1>19. QED
  BY <1>15, <1>16, <1>17, <1>18 DEF Requirements


LEMMA ChooseVersionRequired ==
  ASSUME IInv, Trail, Requirements, NEW p \in Packages, ChooseVersion(p)
  PROVE  Requirements'
<1>1. PICK v \in Versions :
        /\ IsPreferred(p, v)
        /\ facts' = facts \o IncompatibilitiesFor(p, v)
        /\ IF WouldConflict(p, v)
           THEN UNCHANGED partialSolution
           ELSE /\ decisions' = [decisions EXCEPT ![p] = v]
                /\ solution' = [solution EXCEPT ![p] = @ \cap {v}]
                /\ assignments' =
                     Append(assignments, [name |-> p, term |-> {v},
                                          level |-> DecisionLevel + 1, cause |-> 0])
  BY DEF ChooseVersion
<1>2. /\ registry' = registry /\ changed' = {p}
      /\ pc = "choose" /\ pc' = "propagate" /\ p \in Undecided
  BY DEF ChooseVersion
<1>3. CASE WouldConflict(p, v)
  <2>1. UNCHANGED <<registry, assignments, decisions, solution>>
    BY <1>1, <1>2, <1>3 DEF partialSolution
  <2>2. PICK is : is = IncompatibilitiesFor(p, v)
    OBVIOUS
  <2>3. Learns(p, is)
    <3>1. Learns(p, IncompatibilitiesFor(p, v))
      BY <1>1, OwnIsLearned, Zenon
    <3>2. QED
      BY <2>2, <3>1
  <2>4. /\ Len(facts') \in Nat /\ Len(facts) <= Len(facts')
        /\ \A f \in 1 .. Len(facts) : facts'[f] = facts[f]
        /\ \A f \in Len(facts) + 1 .. Len(facts') : Mentions(facts'[f], p)
    BY <2>3 DEF Learns
  <2>5. QED
    BY <1>2, <2>1, <2>4, LearnRequired
<1>4. CASE ~ WouldConflict(p, v)
  <2>. DEFINE a == [name |-> p, term |-> {v}, level |-> DecisionLevel + 1, cause |-> 0]
  <2>1. a \in Assignment /\ a.cause = 0 /\ a.name = p
    <3>1. {v} \in Terms /\ DecisionLevel + 1 \in Nat /\ 0 \in Nat
      BY TermFacts, LevelIsCount
    <3>2. QED
      BY <3>1 DEF Assignment
  <2>2. /\ assignments' = Append(assignments, a) /\ decisions' = [decisions EXCEPT ![p] = v]
        /\ solution' = [solution EXCEPT ![p] = @ \cap {v}]
    BY <1>1, <1>4
  <2>. HIDE DEF a
  <2>3. QED
    BY <1>1, <1>2, <1>4, <2>1, <2>2, DecideRequired
<1>5. QED
  BY <1>3, <1>4

(* A backjump goes back to just before a decision: what the decisions      *)
(* before that one require was settled then.                               *)
LEMMA JumpRequired ==
  ASSUME IInv, IInv', Trail, Requirements,
         NEW k, NEW p \in Packages, NEW level, NEW a, NEW cause,
         Jumps(k, p, level, a, cause)
  PROVE  Requirements'
<1>. DEFINE D == Decided(assignments, k)
<1>1. /\ k \in Nat /\ k + 1 \in 1 .. Len(assignments) /\ assignments[k + 1].cause = 0
      /\ a \in Assignment /\ a.name = p /\ a.cause = cause /\ cause \in 1 .. Len(facts')
      /\ assignments' = Append(SubSeq(assignments, 1, k), a)
      /\ Len(facts) <= Len(facts') /\ \A j \in 1 .. Len(facts) : facts'[j] = facts[j]
      /\ decisions' = Backtrack(k).decisions
      /\ changed' = {p} /\ pc' = "propagate" /\ registry' = registry
  BY DEF Jumps
<1>2. k \in 0 .. Len(assignments) /\ assignments \in Seq(Assignment) /\ Len(assignments) \in Nat
  BY <1>1, TrailTypes
<1>3. \A j \in D : decisions'[assignments[j].name] = decisions[assignments[j].name]
  <2>1. Recorded(assignments, k, decisions')
    BY <1>1, <1>2, RecordBacktrack DEF Trail
  <2>2. \A j \in D : j \in Decided(assignments, Len(assignments))
    BY <1>2 DEF Decided
  <2>3. \A j \in D : /\ assignments[j].term = {decisions'[assignments[j].name]}
                     /\ assignments[j].term = {decisions[assignments[j].name]}
    BY <2>1, <2>2, DecidedFacts DEF Recorded
  <2>4. QED
    BY <2>3
<1>4. /\ Decided(assignments', Len(assignments')) = D
      /\ D \subseteq Decided(assignments, Len(assignments))
      /\ \A j \in D, q \in Packages : q = assignments[j].name =>
           assignments'[j].name = q /\ Own(q)' = Own(q)
      /\ DecisionsAreKnown' /\ SettledBefore'
  <2>1. a.cause # 0
    BY <1>1
  <2>2. QED
    BY <1>1, <1>2, <1>3, <2>1, PrefixRequired
<1>5. PICK sol, new : sol = SolutionAt(assignments, k) /\ new = solution'
  OBVIOUS
<1>6. /\ \A q \in Packages \ {p} : new[q] = sol[q]
      /\ new[p] \subseteq sol[p] /\ sol[p] \subseteq Selection
  <2>1. \A q \in Packages : new[q] = Accumulated(assignments', Len(assignments'), q)
    BY <1>5 DEF IInv, Soundness, SolutionIsDerived
  <2>2. PICK seq : seq = SubSeq(assignments, 1, k)
    OBVIOUS
  <2>3. seq \in Seq(Assignment) /\ assignments' = Append(seq, a)
    BY <1>1, <1>2, <2>2
  <2>4. \A q \in Packages : Accumulated(seq, Len(seq), q) = sol[q]
    BY <1>2, <1>5, <2>2, AccumulatedSub DEF SolutionAt
  <2>5. \A q \in Packages : new[q] = IF a.name = q THEN sol[q] \cap a.term ELSE sol[q]
    <3>1. PICK whole : whole = assignments'
      OBVIOUS
    <3>2. a \in Assignment /\ whole = Append(seq, a)
      BY <1>1, <2>3, <3>1
    <3>3. \A q \in Packages :
            Accumulated(whole, Len(whole), q) =
              IF a.name = q THEN Accumulated(seq, Len(seq), q) \cap a.term
                            ELSE Accumulated(seq, Len(seq), q)
      BY ONLY <2>3, <3>2, AccumulatedAppend, Zenon
    <3>4. QED
      BY <2>1, <2>4, <3>1, <3>3
  <2>6. sol[p] \subseteq Selection
    BY <1>5 DEF SolutionAt, Accumulated
  <2>7. QED
    BY <1>1, <2>5, <2>6
<1>7. SettledNow'
  <2>1. ASSUME NEW j \in D, NEW f \in 1 .. Len(facts'), NEW q \in Packages,
               q = assignments[j].name, facts'[f] \in Own(q)
        PROVE  Settled(new, facts'[f]) \/ Scheduled(f)'
    <3>1. k + 1 \in Decided(assignments, Len(assignments)) /\ j < k + 1
      BY <1>1, <1>2 DEF Decided
    <3>2. PICK i : i = facts'[f]
      OBVIOUS
    <3>3. PICK m \in Decided(assignments, Len(assignments)) : m = k + 1 /\ m - 1 = k
      BY <1>1, <3>1
    <3>4. Settled(SolutionAt(assignments, m - 1), i)
      BY <1>4, <2>1, <3>1, <3>2, <3>3 DEF Requirements, SettledBefore
    <3>5. Settled(sol, i)
      BY <1>5, <3>3, <3>4
    <3>6. Settled(new, i) \/ Mentions(i, p)
      BY ONLY <1>6, <3>5, p \in Packages, SettledOrMentioned
    <3>7. Mentions(i, p) => Scheduled(f)'
      BY <1>1, <3>2 DEF Scheduled
    <3>8. QED
      BY <3>2, <3>6, <3>7
  <2>2. ASSUME NEW j \in Decided(assignments', Len(assignments')), NEW f \in 1 .. Len(facts'),
               facts'[f] \in Own(assignments[j].name)'
        PROVE  Settled(solution', facts'[f]) \/ Scheduled(f)'
    <3>1. j \in D
      BY <1>4
    <3>2. PICK q \in Packages : q = assignments[j].name
      BY <1>4, <3>1, DecidedFacts
    <3>3. q = assignments'[j].name /\ Own(q)' = Own(q)
      BY <1>4, <3>1, <3>2
    <3>4. Own(assignments[j].name)' = Own(q)'
      BY <3>3 DEF Own
    <3>5. QED
      BY <1>5, <2>1, <2>2, <3>1, <3>2, <3>3, <3>4
  <2>3. QED
    BY <2>2 DEF SettledNow
<1>8. NothingIsOpen'
  BY <1>1 DEF NothingIsOpen
<1>9. QED
  BY <1>4, <1>7, <1>8 DEF Requirements

LEMMA BackjumpRequired ==
  ASSUME IInv, Trail, Requirements, Backjump
  PROVE  Requirements'
<1>1. IInv'
  BY BackjumpSound
<1>2. QED
  BY <1>1, BackjumpEffect, JumpRequired

LEMMA InitRequired == Init => Requirements
<1>. SUFFICES ASSUME Init PROVE Requirements
  OBVIOUS
<1>1. Len(assignments) = 0 /\ pc = "propagate"
  BY DEF Init
<1>2. Decided(assignments, Len(assignments)) = {}
  BY <1>1 DEF Decided
<1>3. QED
  BY <1>1, <1>2 DEF Requirements, DecisionsAreKnown, SettledBefore, SettledNow, NothingIsOpen

LEMMA RequirementsAreKept == IInv /\ Trail /\ Requirements /\ [Next]_vars => Requirements'
<1>. SUFFICES ASSUME IInv, Trail, Requirements, [Next]_vars PROVE Requirements'
  OBVIOUS
<1>1. CASE TakeChanged
  BY <1>1, TakeChangedRequired
<1>2. CASE FinishPackage
  BY <1>2, FinishPackageRequired
<1>3. CASE FinishPropagate
  BY <1>3, FinishPropagateRequired
<1>4. CASE Succeed
  BY <1>4, SucceedRequired
<1>5. CASE Finished \/ UNCHANGED vars
  BY <1>5, StutterRequired DEF Finished
<1>6. CASE Resolve \/ Fail \/ \E n \in 1 .. Len(facts) : MeetConflict(n)
  BY <1>6, ResolvingRequired
<1>7. ASSUME NEW n \in 1 .. Len(facts), Skip(n) PROVE Requirements'
  BY <1>7, SkipRequired
<1>8. ASSUME NEW n \in 1 .. Len(facts), Contradict(n) PROVE Requirements'
  BY <1>8, ContradictRequired
<1>9. ASSUME NEW n \in 1 .. Len(facts), Derive(n) PROVE Requirements'
  BY <1>9, DeriveRequired
<1>10. CASE Backjump
  BY <1>10, BackjumpRequired
<1>11. ASSUME NEW p \in Packages, ChooseVersion(p) PROVE Requirements'
  BY <1>11, ChooseVersionRequired
<1>12. ASSUME NEW p \in Packages, FindNoVersion(p) PROVE Requirements'
  BY <1>12, FindNoVersionRequired
<1>13. QED
  BY <1>1, <1>2, <1>3, <1>4, <1>5, <1>6, <1>7, <1>8, <1>9, <1>10, <1>11, <1>12 DEF Next

(* Every search propagates what the decided versions require.              *)
LEMMA RequirementsInvariance == Spec => [](IInv /\ Trail /\ Requirements)
<1>1. Spec => [](IInv /\ Trail)
  BY TrailInvariance
<1>2. Init => Requirements
  BY InitRequired
<1>3. IInv /\ Trail /\ Requirements /\ [Next]_vars => Requirements'
  BY RequirementsAreKept
<1>4. QED
  BY <1>1, <1>2, <1>3, PTL DEF Spec



-----------------------------------------------------------------------------
(* What the solver returns                                                 *)

(* At the end every package has what its term allows.                      *)
LEMMA SolvedFacts ==
  ASSUME IInv, Trail, Requirements, pc = "solved"
  PROVE  /\ \A q \in Packages : decisions[q] \in solution[q]
         /\ decisions[Root] = RootVersion
         /\ \A q \in Packages : decisions[q] # Absent =>
              /\ decisions[q] \in Versions /\ solution[q] = {decisions[q]}
              /\ \E j \in Decided(assignments, Len(assignments)) : assignments[j].name = q
<1>1. \A q \in Packages : decisions[q] # Absent =>
        \E j \in Decided(assignments, Len(assignments)) : assignments[j].name = q
  BY DEF Trail, DecisionsAreRecorded, Recorded
<1>2. \A q \in Packages : decisions[q] # Absent =>
        decisions[q] \in Versions /\ solution[q] = {decisions[q]}
  BY <1>1, DecidedFacts
<1>3. \A q \in Packages : decisions[q] = Absent => Absent \in solution[q]
  BY DEF Requirements, NothingIsOpen, Undecided, Positive, IsPositive
<1>4. decisions[Root] = RootVersion
  <2>1. assignments # << >> /\ Len(assignments) # 1
    BY DEF IInv, Soundness, RootIsChosen, Trail, RootIsFirst
  <2>2. \A n \in Nat : n # 0 /\ n # 1 => n > 1 /\ 2 \in 1 .. n
    OBVIOUS
  <2>3. Len(assignments) > 1 /\ 2 \in 1 .. Len(assignments)
    <3>1. assignments \in Seq(Assignment) /\ Len(assignments) \in Nat
      BY TrailTypes
    <3>2. Len(assignments) # 0
      BY <2>1, <3>1
    <3>3. QED
      BY <2>1, <2>2, <3>1, <3>2
  <2>4. assignments[2].cause = 0 /\ assignments[2].name = Root
    BY <2>3 DEF Trail, RootIsFirst
  <2>5. 2 \in Decided(assignments, Len(assignments))
    BY <2>3, <2>4 DEF Decided
  <2>6. assignments[2].term = {decisions[Root]}
    BY <2>4, <2>5, DecidedFacts
  <2>7. assignments[2].term = {RootVersion}
    BY <2>3, <2>4 DEF IInv, Soundness, RootIsChosen
  <2>8. QED
    BY <2>6, <2>7
<1>5. QED
  BY <1>1, <1>2, <1>3, <1>4

(* What a version that can be used requires is its own.                    *)
LEMMA RequiresIsOwn ==
  ASSUME NEW p \in Packages, NEW v, v = decisions[p], v \notin registry.unusable[p],
         NEW k \in 1 .. Len(registry.requires[p][v]), Len(registry.requires[p][v]) \in Nat
  PROVE  Requires(p, v, registry.requires[p][v][k]) \in Own(p)
<1>1. PICK n \in Nat : n = Len(registry.requires[p][v])
  OBVIOUS
<1>2. IncompatibilitiesFor(p, v) = [j \in 1 .. n |-> Requires(p, v, registry.requires[p][v][j])]
  BY <1>1 DEF IncompatibilitiesFor
<1>3. Len(IncompatibilitiesFor(p, v)) = n
  BY <1>2
<1>4. k \in 1 .. n /\ IncompatibilitiesFor(p, v)[k] = Requires(p, v, registry.requires[p][v][k])
  BY <1>1, <1>2
<1>5. QED
  BY <1>3, <1>4 DEF Own

(* A requirement of a decided version, settled, is met.                    *)
LEMMA SettledIsMet ==
  ASSUME NEW p \in Packages, NEW v \in Versions, NEW d \in Packages \ {p},
         NEW c \in SUBSET Versions, NEW i,
         i[p] = {v}, i[d] = Not(c), \A q \in Packages \ {p, d} : i[q] = Selection,
         NEW sol, \A q \in Packages : sol[q] # {} /\ sol[q] \subseteq Selection,
         sol[p] = {v}, Settled(sol, i)
  PROVE  sol[d] \subseteq c
<1>1. \A q \in Packages \ {d} : sol[q] \subseteq i[q] /\ sol[q] \cap i[q] # {}
  OBVIOUS
<1>2. \A x \in Unsatisfied(sol, i) : x = d
  BY <1>1 DEF Unsatisfied, Inconclusive
<1>3. Contradicts(sol, i)
  BY <1>2 DEF Settled
<1>4. sol[d] \cap i[d] = {}
  BY <1>1, <1>3 DEF Contradicts, Disjoint
<1>5. QED
  BY <1>4 DEF Not

(* What solve() returns meets every requirement of the registry.           *)
LEMMA AnswerIsSolution ==
  ASSUME IInv, Trail, Requirements, pc = "solved"
  PROVE  decisions \in Solutions(registry)
<1>1. registry \in Registries /\ decisions \in [Packages -> Selection]
  BY TrailTypes DEF IInv
<1>2. ASSUME NEW p \in Packages, decisions[p] # Absent
      PROVE  decisions[p] \in registry.available[p] \ registry.unusable[p]
  <2>1. PICK j \in Decided(assignments, Len(assignments)) : assignments[j].name = p
    BY <1>2, SolvedFacts
  <2>2. QED
    BY <2>1 DEF Requirements, DecisionsAreKnown
<1>3. ASSUME NEW p \in Packages, decisions[p] # Absent,
             NEW k \in 1 .. Len(registry.requires[p][decisions[p]])
      PROVE  decisions[registry.requires[p][decisions[p]][k].name]
               \in registry.requires[p][decisions[p]][k].constraint
  <2>1. PICK v \in Versions : v = decisions[p] /\ solution[p] = {v}
    BY <1>3, SolvedFacts
  <2>2. PICK dep : dep = registry.requires[p][v][k]
    OBVIOUS
  <2>3. /\ registry.requires[p][v] \in Seq(Dependency)
        /\ dep.name \in Packages \ {Root, p} /\ dep.constraint \in SUBSET Versions
    BY <1>1, <1>3, <2>1, <2>2, RegistryFacts
  <2>4. PICK i : i = Requires(p, v, dep)
    OBVIOUS
  <2>5. i \in Own(p)
    <3>1. k \in 1 .. Len(registry.requires[p][v]) /\ Len(registry.requires[p][v]) \in Nat
          /\ v \notin registry.unusable[p]
      BY <1>2, <1>3, <2>1, <2>3
    <3>2. QED
      BY <2>1, <2>2, <2>4, <3>1, RequiresIsOwn
  <2>6. PICK j \in Decided(assignments, Len(assignments)) : assignments[j].name = p
    BY <1>3, SolvedFacts
  <2>7. PICK f \in 1 .. Len(facts) : facts[f] = i
    BY <2>5, <2>6 DEF Requirements, DecisionsAreKnown
  <2>8. Settled(solution, i)
    <3>1. ~ Scheduled(f)
      BY DEF Scheduled
    <3>2. QED
      BY <2>5, <2>6, <2>7, <3>1 DEF Requirements, SettledNow
  <2>9. i[p] = {v} /\ i[dep.name] = Not(dep.constraint)
        /\ \A q \in Packages \ {p, dep.name} : i[q] = Selection
    BY <2>3, <2>4 DEF Requires, Nothing, NoTerm
  <2>10. \A q \in Packages : solution[q] # {} /\ solution[q] \subseteq Selection
    BY TrailTypes DEF Terms
  <2>11. solution[dep.name] \subseteq dep.constraint
    BY <2>1, <2>3, <2>8, <2>9, <2>10, SettledIsMet
  <2>12. decisions[dep.name] \in solution[dep.name]
    BY <2>3, SolvedFacts
  <2>13. QED
    BY <2>1, <2>2, <2>11, <2>12
<1>4. decisions[Root] = RootVersion
  BY SolvedFacts
<1>5. QED
  BY <1>1, <1>2, <1>3, <1>4 DEF Solutions, Answers

(* No package is selected that no selected version requires.               *)
LEMMA NoStray ==
  ASSUME IInv, Trail, Requirements
  PROVE  NothingStray
<1>. SUFFICES ASSUME pc = "solved", NEW p \in Packages \ {Root}, decisions[p] # Absent,
                     \A q \in Packages : decisions[q] # Absent =>
                       \A k \in 1 .. Len(registry.requires[q][decisions[q]]) :
                         registry.requires[q][decisions[q]][k].name # p
              PROVE  FALSE
  BY DEF NothingStray
<1>1. decisions \in [Packages -> Selection] /\ decisions \in Solutions(registry)
  BY AnswerIsSolution, TrailTypes
<1>2. PICK s : s = [decisions EXCEPT ![p] = Absent]
  OBVIOUS
<1>3. /\ s \in [Packages -> Selection] /\ s[p] = Absent
      /\ \A q \in Packages \ {p} : s[q] = decisions[q]
  BY <1>1, <1>2, Basics
<1>4. s \in Solutions(registry)
  <2>1. s[Root] = RootVersion
    BY <1>1, <1>3, Basics DEF Solutions, Answers
  <2>2. ASSUME NEW q \in Packages, s[q] # Absent
        PROVE  /\ s[q] \in registry.available[q] \ registry.unusable[q]
               /\ \A k \in 1 .. Len(registry.requires[q][s[q]]) :
                    s[registry.requires[q][s[q]][k].name] \in registry.requires[q][s[q]][k].constraint
    <3>1. PICK v \in Versions : v = decisions[q] /\ s[q] = v
      BY <1>3, <2>2, SolvedFacts
    <3>2. v # Absent
      BY Basics
    <3>3. v \in registry.available[q] \ registry.unusable[q]
      BY <1>1, <3>1, <3>2 DEF Solutions, Answers
    <3>4. \A k \in 1 .. Len(registry.requires[q][v]) :
            decisions[registry.requires[q][v][k].name] \in registry.requires[q][v][k].constraint
      BY <1>1, <3>1, <3>2 DEF Solutions, Answers
    <3>5. \A k \in 1 .. Len(registry.requires[q][v]) :
            registry.requires[q][v][k].name \in Packages \ {p}
      <4>1. ASSUME NEW k \in 1 .. Len(registry.requires[q][v])
            PROVE  registry.requires[q][v][k].name \in Packages \ {p}
        <5>1. registry.requires[q][v][k].name \in Packages
          BY RegistryFacts DEF IInv
        <5>2. registry.requires[q][v][k].name # p
          BY <3>1, <3>2
        <5>3. QED
          BY <5>1, <5>2
      <4>2. QED
        BY <4>1
    <3>6. QED
      BY <1>3, <3>1, <3>3, <3>4, <3>5
  <2>3. QED
    BY <1>3, <2>1, <2>2 DEF Solutions, Answers
<1>5. PICK j \in Decided(assignments, Len(assignments)) : assignments[j].name = p
  BY SolvedFacts
<1>6. j \in 1 .. Len(assignments) /\ Len(assignments) \in Nat
  BY <1>5, DecidedFacts, TrailTypes
<1>7. Absent \notin Accumulated(assignments, j - 1, p)
  BY <1>5 DEF Requirements, DecisionsAreKnown
<1>8. PICK m \in 1 .. j - 1 : assignments[m].name = p /\ Absent \notin assignments[m].term
  BY <1>7, Basics DEF Accumulated
<1>9. m \in 1 .. Len(assignments) /\ m # j /\ m - 1 \in 0 .. Len(assignments)
  BY <1>6
<1>10. assignments[m].cause # 0
  <2>1. assignments[m].cause = 0 => m \in Decided(assignments, Len(assignments))
    BY <1>9 DEF Decided
  <2>2. QED
    BY <1>5, <1>8, <1>9, <2>1 DEF Trail, DecisionsAreRecorded, Recorded
<1>11. PICK f \in 1 .. Len(facts) : f = assignments[m].cause
  BY <1>9, <1>10, TrailTypes
<1>12. PICK q \in Packages : s[q] \notin facts[f][q]
  BY <1>4 DEF IInv, Soundness, FactsHold
<1>13. CASE q = p
  <2>1. assignments[m].term = Not(facts[f][p])
    BY <1>8, <1>9, <1>10, <1>11 DEF IInv, Soundness, CausesAreFacts
  <2>2. Absent \in facts[f][p]
    BY <1>8, <2>1, Basics DEF Not
  <2>3. QED
    BY <1>3, <1>12, <1>13, <2>2
<1>14. CASE q # p
  <2>1. Accumulated(assignments, m - 1, q) \subseteq facts[f][q]
    BY <1>8, <1>9, <1>10, <1>11, <1>14 DEF Trail, CausesAreTrue
  <2>2. solution[q] \subseteq Accumulated(assignments, m - 1, q)
    <3>1. solution[q] = Accumulated(assignments, Len(assignments), q)
      BY DEF IInv, Soundness, SolutionIsDerived
    <3>2. QED
      BY <1>6, <1>9, <3>1, AccumulatedShrinks
  <2>3. decisions[q] \in solution[q]
    BY SolvedFacts
  <2>4. QED
    BY <1>3, <1>12, <1>14, <2>1, <2>2, <2>3
<1>15. QED
  BY <1>13, <1>14


(* Whatever is left behind by a backjump is in order: skipped              *)
(* incompatibilities are false, levels count the decisions that stand, and *)
(* in the end nothing is selected that nothing requires.                   *)
THEOREM BackjumpsAreClean == Spec => []BacktrackingIsClean
<1>1. Spec => []NothingStray
  <2>1. IInv /\ Trail /\ Requirements => NothingStray
    BY NoStray
  <2>2. QED
    BY <2>1, RequirementsInvariance, PTL
<1>2. ContradictedIsFalse /\ LevelsAreOrdered /\ NothingStray => BacktrackingIsClean
  BY DEF BacktrackingIsClean
<1>3. QED
  BY <1>1, <1>2, SkippedIsFalse, LevelsCountDecisions, PTL

(* A selection that is returned answers the registry.                      *)
Answered == pc = "solved" => decisions \in Solutions(registry)

(* Every selection solve() returns holds the root project, takes only      *)
(* versions that exist and can be used, and meets every requirement of     *)
(* every version it takes.                                                 *)
THEOREM AnswersAreSolutions == Spec => []Answered
<1>1. IInv /\ Trail /\ Requirements => Answered
  BY AnswerIsSolution DEF Answered
<1>2. QED
  BY <1>1, RequirementsInvariance, PTL

-----------------------------------------------------------------------------
(* The search implements its promise *)

LEMMA PromiseMeans == Promise!Solutions(registry) = Solutions(registry)
BY DEF Promise!Solutions, Solutions, Promise!Answers, Answers, Promise!Selection, Selection

LEMMA InitKeepsPromise == Init => Promise!Init
BY DEF Init, Promise!Init, Promise!NothingSelected

LEMMA StepKeepsPromise ==
  ASSUME [Next]_vars, Answered', FailureIsJustified', registry' = registry
  PROVE  [Promise!Next]_(Promise!vars)
<1>1. CASE UNCHANGED vars
  BY <1>1 DEF vars, Promise!vars
<1>2. CASE Finished
  BY <1>2 DEF Finished, vars, Promise!vars
<1>3. CASE Succeed
  <2>1. pc = "choose" /\ pc' = "solved" /\ decisions' \in Solutions(registry)
    BY <1>3 DEF Succeed, Answered, Solutions, Answers
  <2>2. decisions' \in [Packages -> Selection]
    BY <2>1 DEF Solutions
  <2>3. [q \in Packages |-> decisions'[q]] = decisions'
    BY <2>2
  <2>4. Promise!Answer
    BY <2>1, <2>3, PromiseMeans DEF Promise!Answer
  <2>5. QED
    BY <2>4 DEF Promise!Next
<1>4. CASE Fail
  <2>1. pc = "resolve" /\ pc' = "failed" /\ Solutions(registry) = {}
    BY <1>4 DEF Fail, FailureIsJustified, Solutions, Answers
  <2>2. Promise!GiveUp
    BY <2>1, PromiseMeans DEF Promise!GiveUp
  <2>3. QED
    BY <2>2 DEF Promise!Next
<1>5. ASSUME pc \in {"propagate", "resolve", "choose"},
             pc' \in {"propagate", "resolve", "choose", "crashed"}
      PROVE  UNCHANGED Promise!vars
  BY <1>5 DEF Promise!vars
<1>6. CASE TakeChanged \/ FinishPackage \/ FinishPropagate
  BY <1>5, <1>6 DEF TakeChanged, FinishPackage, FinishPropagate
<1>7. ASSUME NEW n \in 1 .. Len(facts), Contradict(n) \/ Skip(n) \/ Derive(n) \/ MeetConflict(n)
      PROVE  UNCHANGED Promise!vars
  BY <1>5, <1>7 DEF Contradict, Skip, Derive, MeetConflict, Examining, knowledge, partialSolution
<1>8. CASE Resolve
  BY <1>5, <1>8 DEF Resolve
<1>9. CASE Backjump
  BY <1>5, <1>9 DEF Backjump
<1>10. ASSUME NEW p \in Packages, ChooseVersion(p) \/ FindNoVersion(p)
       PROVE  UNCHANGED Promise!vars
  BY <1>5, <1>10 DEF ChooseVersion, FindNoVersion
<1>11. QED
  BY <1>1, <1>2, <1>3, <1>4, <1>6, <1>7, <1>8, <1>9, <1>10 DEF Next

(* The registry is the same throughout.                                    *)
LEMMA SameRegistry == [Next]_vars => registry' = registry
BY DEF Next, vars, TakeChanged, Contradict, Skip, Derive, MeetConflict, FinishPackage,
       FinishPropagate, Resolve, Backjump, Fail, ChooseVersion, FindNoVersion, Succeed, Finished

(* solve() answers at most once, with a selection that meets every         *)
(* requirement, and gives up only when there is none: the safety part of   *)
(* what Resolution promises.                                               *)
THEOREM PromiseIsKept == Spec => Promise!Safety
<1>1. Init => Promise!Init
  BY InitKeepsPromise
<1>2. Answered' /\ FailureIsJustified' /\ [Next]_vars => [Promise!Next]_(Promise!vars)
  BY StepKeepsPromise, SameRegistry
<1>3. QED
  BY <1>1, <1>2, AnswersAreSolutions, GivingUpIsJustified, PTL DEF Spec, Promise!Safety
=============================================================================
