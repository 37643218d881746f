---------------------------- MODULE VersionSolver ----------------------------
(***************************************************************************)
(* poetry.mixology: the PubGrub search for a set of package versions.      *)
(*                                                                         *)
(* A Term about a package is the set of choices for that package under     *)
(* which the term is true: a positive term is a set of versions, a         *)
(* negative one also holds when the package is Absent.  Module Term shows  *)
(* that the relations and intersections the code computes on terms are     *)
(* inclusion, disjointness and intersection of these sets.  An             *)
(* Incompatibility maps every package to its term, and to NoTerm (every    *)
(* choice) when it does not speak about the package; its terms cannot all  *)
(* be true at once.                                                        *)
(*                                                                         *)
(* The solver is one thread.  An action is one pass through a loop body:   *)
(* one incompatibility propagated, one resolution step, one choice.        *)
(***************************************************************************)
EXTENDS Registry

VARIABLES
  registry,       \* the question; never changes
  facts,          \* _incompatibilities, in the order they were added
  contradicted,   \* _contradicted_incompatibilities, as positions in facts
  contradictedAt, \* _contradicted_incompatibilities_by_level: <<level, position>>
  assignments,    \* PartialSolution._assignments
  decisions,      \* PartialSolution._decisions; Absent when undecided
  solution,       \* PartialSolution._positive and _negative, one term a package
  pc,             \* where solve() is
  changed,        \* _propagate: names still to be looked at
  package,        \* _propagate: the name being looked at
  cursor,         \* _propagate: facts above this position were looked at
  conflict,       \* _resolve_conflict: the incompatibility in hand
  conflictFact    \* its position in facts, 0 while it is only derived

vars == <<registry, facts, contradicted, contradictedAt, assignments, decisions,
          solution, pc, changed, package, cursor, conflict, conflictFact>>

partialSolution == <<assignments, decisions, solution>>
propagation     == <<changed, package, cursor>>
knowledge       == <<facts, contradicted, contradictedAt>>

NoPackage == Absent  \* _propagate has taken no name from changed yet

-----------------------------------------------------------------------------
(* Terms and incompatibilities *)

NoTerm == Selection
Terms == (SUBSET Selection) \ {{}}
Incompatibilities == [Packages -> Terms]

Not(term) == Selection \ term
IsPositive(term) == Absent \notin term
Constraint(term) == IF IsPositive(term) THEN term ELSE Versions \ term
Mentions(i, p) == i[p] # NoTerm

Nothing == [p \in Packages |-> NoTerm]
RootIncompatibility == [Nothing EXCEPT ![Root] = Not({RootVersion})]
NoVersions(p, term) == [Nothing EXCEPT ![p] = term]

(* "p in version v depends on dep." *)
Requires(p, v, dep) == [Nothing EXCEPT ![p] = {v}, ![dep.name] = Not(dep.constraint)]

(* Bug: the last requirement of a version is lost. *)
BugLastRequirementLost(p, v) ==
  [k \in 1 .. Len(registry.requires[p][v]) - 1 |->
     Requires(p, v, registry.requires[p][v][k])]

(* Bug: what one version requires is recorded for every version. *)
BugEveryVersion(p, v) ==
  [k \in 1 .. Len(registry.requires[p][v]) |->
     [Requires(p, v, registry.requires[p][v][k]) EXCEPT ![p] = Versions]]

IncompatibilitiesFor(p, v) ==
  IF v \in registry.unusable[p]
  THEN << [Nothing EXCEPT ![p] = {v}] >>
  ELSE [k \in 1 .. Len(registry.requires[p][v]) |->
          Requires(p, v, registry.requires[p][v][k])]

IsFailure(i) == \A p \in Packages : Mentions(i, p) => p = Root

(* Positive terms about the root project are left out of what is derived. *)
DropRoot(i) ==
  [i EXCEPT ![Root] = IF IsPositive(i[Root]) THEN NoTerm ELSE i[Root]]

-----------------------------------------------------------------------------
(* The partial solution *)

DecisionLevel == Cardinality({p \in Packages : decisions[p] # Absent})

(* The intersection of the first n assignments in seq about p. *)
Accumulated(seq, n, p) ==
  {x \in Selection : \A k \in 1 .. n : seq[k].name = p => x \in seq[k].term}

(* PartialSolution.satisfier: the n-th assignment makes term true for p. *)
IsSatisfier(n, p, term) ==
  /\ Accumulated(assignments, n, p) \subseteq term
  /\ \A m \in 0 .. n - 1 : ~ Accumulated(assignments, m, p) \subseteq term

(* The level of the assignment that first makes term true for p. *)
SatisfiedAt(p, term, level) ==
  \E n \in 1 .. Len(assignments) :
    IsSatisfier(n, p, term) /\ assignments[n].level = level

Disjoint(sol, i, p)     == sol[p] \cap i[p] = {}
Inconclusive(sol, i, p) == ~ Disjoint(sol, i, p) /\ ~ (sol[p] \subseteq i[p])
Unsatisfied(sol, i)     == {p \in Packages : Inconclusive(sol, i, p)}
Contradicts(sol, i)     == \E p \in Packages : Disjoint(sol, i, p)

Positive(sol) == {p \in Packages : IsPositive(sol[p])}

Derivation(i, p, cause, level) ==
  [name |-> p, term |-> Not(i[p]), level |-> level, cause |-> cause]

-----------------------------------------------------------------------------
Init ==
  /\ registry \in Registries
  /\ facts = << RootIncompatibility >>
  /\ contradicted = {}
  /\ contradictedAt = {}
  /\ assignments = << >>
  /\ decisions = [p \in Packages |-> Absent]
  /\ solution = Nothing
  /\ pc = "propagate"
  /\ changed = {Root}
  /\ package = NoPackage
  /\ cursor = 0
  /\ conflict = Nothing
  /\ conflictFact = 0

(* package = changed.pop(): the set gives its names in any order. *)
TakeChanged ==
  /\ pc = "propagate"
  /\ package = NoPackage
  /\ \E p \in changed :
       /\ package' = p
       /\ changed' = changed \ {p}
  /\ cursor' = Len(facts)
  /\ UNCHANGED <<registry, knowledge, partialSolution, pc, conflict, conflictFact>>

(* The next incompatibility of the for loop: the latest one about package  *)
(* that was not looked at and is not known to be contradicted.             *)
IsNext(n) ==
  /\ Mentions(facts[n], package)
  /\ n \notin contradicted
  /\ \A m \in n + 1 .. cursor :
       Mentions(facts[m], package) => m \in contradicted

Examining(n) ==
  /\ pc = "propagate"
  /\ package # NoPackage
  /\ n \in 1 .. cursor
  /\ IsNext(n)

(* A term is already false: nothing to learn until we backtrack.           *)
Contradict(n) ==
  /\ Examining(n)
  /\ Contradicts(solution, facts[n])
  /\ contradicted' = contradicted \cup {n}
  /\ contradictedAt' = contradictedAt \cup {<<DecisionLevel, n>>}
  /\ cursor' = n - 1
  /\ UNCHANGED <<registry, facts, partialSolution, pc, changed, package,
                 conflict, conflictFact>>

(* Two terms are open.  The loop returns at the second one, even if a term *)
(* further down the list is false.                                         *)
Skip(n) ==
  /\ Examining(n)
  /\ \E p, q \in Unsatisfied(solution, facts[n]) : p # q
  /\ cursor' = n - 1
  /\ UNCHANGED <<registry, knowledge, partialSolution, pc, changed, package,
                 conflict, conflictFact>>

(* Every term but one is true: the last one must be false.                 *)
Derive(n) ==
  /\ Examining(n)
  /\ ~ Contradicts(solution, facts[n])
  /\ \E p \in Packages :
       /\ Unsatisfied(solution, facts[n]) = {p}
       /\ assignments' =
            Append(assignments, Derivation(facts[n], p, n, DecisionLevel))
       /\ solution' = [solution EXCEPT ![p] = @ \cap Not(facts[n][p])]
       /\ changed' = changed \cup {p}
  /\ contradicted' = contradicted \cup {n}
  /\ contradictedAt' = contradictedAt \cup {<<DecisionLevel, n>>}
  /\ cursor' = n - 1
  /\ UNCHANGED <<registry, facts, decisions, pc, package, conflict, conflictFact>>

(* Every term is true: the partial solution cannot be extended.            *)
MeetConflict(n) ==
  /\ Examining(n)
  /\ ~ Contradicts(solution, facts[n])
  /\ Unsatisfied(solution, facts[n]) = {}
  /\ pc' = "resolve"
  /\ conflict' = facts[n]
  /\ conflictFact' = n
  /\ UNCHANGED <<registry, knowledge, partialSolution, propagation>>

(* The for loop over the incompatibilities of package has ended.           *)
FinishPackage ==
  /\ pc = "propagate"
  /\ package # NoPackage
  /\ \A n \in 1 .. cursor : Mentions(facts[n], package) => n \in contradicted
  /\ package' = NoPackage
  /\ cursor' = 0
  /\ UNCHANGED <<registry, knowledge, partialSolution, pc, changed,
                 conflict, conflictFact>>

FinishPropagate ==
  /\ pc = "propagate"
  /\ package = NoPackage
  /\ changed = {}
  /\ pc' = "choose"
  /\ UNCHANGED <<registry, knowledge, partialSolution, propagation,
                 conflict, conflictFact>>

-----------------------------------------------------------------------------
(* Conflict resolution *)

(* p is the package whose term of conflict became true last, at the n-th   *)
(* assignment.                                                             *)
IsMostRecent(n, p) ==
  /\ Mentions(conflict, p)
  /\ IsSatisfier(n, p, conflict[p])
  /\ assignments[n].name = p
  /\ \A q \in Packages \ {p} : Mentions(conflict, q) =>
       \E m \in 1 .. n - 1 : IsSatisfier(m, q, conflict[q])

(* What the n-th assignment allows beyond the term it makes true. *)
Difference(n, p) == assignments[n].term \ conflict[p]

(* The level at which conflict would have been true but for assignment n.  *)
IsPreviousLevel(level, n, p) ==
  LET Levels ==
        {1} \cup {l \in 0 .. assignments[n].level :
                    \/ \E q \in Packages \ {p} :
                         Mentions(conflict, q) /\ SatisfiedAt(q, conflict[q], l)
                    \/ /\ Difference(n, p) # {}
                       /\ SatisfiedAt(p, Not(Difference(n, p)), l)}
  IN  level \in Levels /\ \A l \in Levels : l <= level

(* Bug: resolution stops one step early. *)
BugStopEarly(level, n) == level <= assignments[n].level
IsRootCause(level, n) ==
  level < assignments[n].level \/ assignments[n].cause = 0

(* Bug: what the satisfier allows beyond the term is forgotten. *)
BugPartialSatisfier(n, p) ==
  LET cause == facts[assignments[n].cause]
      left  == DropRoot(conflict)
      right == DropRoot(cause)
  IN  DropRoot([q \in Packages |-> IF q = p THEN NoTerm
                                            ELSE left[q] \cap right[q]])

(* conflict without its term about p, joined with the cause of assignment  *)
(* n without the term that assignment negates.                             *)
Resolvent(n, p) ==
  LET cause == facts[assignments[n].cause]
      a     == assignments[n].term
      rest  == Not(Difference(n, p))
      base  == IF Constraint(cause[p]) = Constraint(a) THEN NoTerm ELSE cause[p]
      extra == IF Difference(n, p) = {} \/ Constraint(rest) = Constraint(a)
               THEN NoTerm ELSE rest
      left  == DropRoot(conflict)
      right == DropRoot(cause)
  IN  DropRoot([q \in Packages |-> IF q = p THEN base \cap extra
                                            ELSE left[q] \cap right[q]])

Resolve ==
  /\ pc = "resolve"
  /\ ~ IsFailure(conflict)
  /\ \E n \in 1 .. Len(assignments), p \in Packages :
       /\ IsMostRecent(n, p)
       /\ \E level \in 0 .. assignments[n].level + 1 :
            /\ IsPreviousLevel(level, n, p)
            /\ ~ IsRootCause(level, n)
       /\ conflict' = Resolvent(n, p)
  /\ conflictFact' = 0
  /\ pc' = IF \E q \in Packages : conflict'[q] = {} THEN "crashed" ELSE pc
  /\ UNCHANGED <<registry, knowledge, partialSolution, propagation>>

(* Bug: decisions are taken back, but _positive and _negative stay. *)
BugKeepTerms(n) ==
  LET undone == {assignments[k].name :
                   k \in {j \in n + 1 .. Len(assignments) : assignments[j].cause = 0}}
  IN  [kept      |-> SubSeq(assignments, 1, n),
       decisions |-> [p \in Packages |->
                        IF p \in undone THEN Absent ELSE decisions[p]],
       solution  |-> [p \in Packages |->
                        IF p \in undone THEN Accumulated(assignments, n, p)
                                        ELSE solution[p]]]

(* Bug: the assignments are removed, their decisions stay. *)
BugKeepDecisions(n) ==
  [kept      |-> SubSeq(assignments, 1, n),
   decisions |-> decisions,
   solution  |-> [p \in Packages |-> Accumulated(assignments, n, p)]]

(* PartialSolution.backtrack: the first n assignments stay.                *)
Backtrack(n) ==
  LET gone == {assignments[k].name : k \in n + 1 .. Len(assignments)}
      undone == {assignments[k].name :
                   k \in {j \in n + 1 .. Len(assignments) : assignments[j].cause = 0}}
  IN  [kept      |-> SubSeq(assignments, 1, n),
       decisions |-> [p \in Packages |->
                        IF p \in undone THEN Absent ELSE decisions[p]],
       solution  |-> [p \in Packages |->
                        IF p \in gone THEN Accumulated(assignments, n, p)
                                      ELSE solution[p]]]

IsBacktrackPoint(n, level) ==
  /\ assignments[n].level <= level
  /\ \A k \in n + 1 .. Len(assignments) : assignments[k].level > level

(* Bug: the first level that goes keeps its contradicted incompatibilities. *)
BugForgetLess(level) ==
  {x \in contradictedAt : x[1] \in level + 2 .. DecisionLevel}

(* What _contradicted_incompatibilities_by_level holds above level.        *)
Forgotten(level) ==
  {x \in contradictedAt : x[1] \in level + 1 .. DecisionLevel}

(* The one term that back leaves open in conflict, if there is just one.    *)
IsOnlyOpen(q, back) ==
  /\ ~ Contradicts(back.solution, conflict)
  /\ Unsatisfied(back.solution, conflict) = {q}

(* The incompatibility in hand is the root cause: jump back to where it    *)
(* leaves one term open, remember it and propagate it at once.  _propagate *)
(* asserts that there is such a term.                                      *)
Backjump ==
  /\ pc = "resolve"
  /\ ~ IsFailure(conflict)
  /\ \E n \in 1 .. Len(assignments), p \in Packages, k \in 1 .. Len(assignments) :
     \E level \in 0 .. assignments[n].level + 1 :
       LET back   == Backtrack(k)
           here   == Cardinality({q \in Packages : back.decisions[q] # Absent})
           isNew  == conflictFact = 0
           cause  == IF isNew THEN Len(facts) + 1 ELSE conflictFact
       IN  /\ IsMostRecent(n, p)
           /\ IsPreviousLevel(level, n, p)
           /\ IsRootCause(level, n)
           /\ IsBacktrackPoint(k, level)
           /\ facts' = IF isNew THEN Append(facts, conflict) ELSE facts
           /\ decisions' = back.decisions
           /\ contradicted' = (contradicted \ {x[2] : x \in Forgotten(level)}) \cup {cause}
           /\ contradictedAt' = (contradictedAt \ Forgotten(level)) \cup {<<here, cause>>}
           /\ IF \E q \in Packages : IsOnlyOpen(q, back)
              THEN \E q \in Packages :
                     /\ IsOnlyOpen(q, back)
                     /\ assignments' =
                          Append(back.kept, Derivation(conflict, q, cause, here))
                     /\ solution' =
                          [back.solution EXCEPT ![q] = @ \cap Not(conflict[q])]
                     /\ changed' = {q}
                     /\ pc' = "propagate"
              ELSE /\ assignments' = back.kept
                   /\ solution' = back.solution
                   /\ changed' = {}
                   /\ pc' = "crashed"
  /\ package' = NoPackage
  /\ cursor' = 0
  /\ UNCHANGED <<registry, conflict, conflictFact>>

Fail ==
  /\ pc = "resolve"
  /\ IsFailure(conflict)
  /\ pc' = "failed"
  /\ UNCHANGED <<registry, knowledge, partialSolution, propagation,
                 conflict, conflictFact>>

-----------------------------------------------------------------------------
(* Choosing a version *)

Undecided == {p \in Positive(solution) : decisions[p] = Absent}

(* Bug: a locked version is taken even if the constraints rule it out. *)
BugLockedAnyway(p) ==
  IF registry.locked[p] # Absent
  THEN {registry.locked[p]}
  ELSE registry.available[p] \cap solution[p]

Candidates(p) ==
  IF registry.locked[p] \in solution[p]
  THEN {registry.locked[p]}
  ELSE registry.available[p] \cap solution[p]

IsPreferred(p, v) ==
  v \in Candidates(p) /\ \A w \in Candidates(p) : w <= v

(* Selecting v for p now would make one of v's own requirements a conflict. *)
WouldConflict(p, v) ==
  \E k \in 1 .. Len(IncompatibilitiesFor(p, v)) :
    \A q \in Packages \ {p} : solution[q] \subseteq IncompatibilitiesFor(p, v)[k][q]

ChooseVersion(p) ==
  /\ pc = "choose"
  /\ p \in Undecided
  /\ \E v \in Versions :
       /\ IsPreferred(p, v)
       /\ facts' = facts \o IncompatibilitiesFor(p, v)
       /\ IF WouldConflict(p, v)
          THEN UNCHANGED partialSolution
          ELSE /\ decisions' = [decisions EXCEPT ![p] = v]
               /\ solution' = [solution EXCEPT ![p] = @ \cap {v}]
               /\ assignments' =
                    Append(assignments, [name |-> p, term |-> {v},
                                         level |-> DecisionLevel + 1, cause |-> 0])
  /\ changed' = {p}
  /\ pc' = "propagate"
  /\ UNCHANGED <<registry, contradicted, contradictedAt, package, cursor,
                 conflict, conflictFact>>

FindNoVersion(p) ==
  /\ pc = "choose"
  /\ p \in Undecided
  /\ Candidates(p) = {}
  /\ facts' = Append(facts, NoVersions(p, solution[p]))
  /\ changed' = {p}
  /\ pc' = "propagate"
  /\ UNCHANGED <<registry, contradicted, contradictedAt, partialSolution,
                 package, cursor, conflict, conflictFact>>

Succeed ==
  /\ pc = "choose"
  /\ Undecided = {}
  /\ pc' = "solved"
  /\ UNCHANGED <<registry, knowledge, partialSolution, propagation,
                 conflict, conflictFact>>

(* solve() has returned or raised. *)
Finished ==
  /\ pc \in {"solved", "failed", "crashed"}
  /\ UNCHANGED vars

Next ==
  \/ TakeChanged
  \/ \E n \in 1 .. Len(facts) : Contradict(n)
  \/ \E n \in 1 .. Len(facts) : Skip(n)
  \/ \E n \in 1 .. Len(facts) : Derive(n)
  \/ \E n \in 1 .. Len(facts) : MeetConflict(n)
  \/ FinishPackage
  \/ FinishPropagate
  \/ Resolve
  \/ Backjump
  \/ Fail
  \/ \E p \in Packages : ChooseVersion(p)
  \/ \E p \in Packages : FindNoVersion(p)
  \/ Succeed
  \/ Finished

(* The solver is a loop of one thread: it runs until it returns. *)
Spec == Init /\ [][Next]_vars /\ WF_vars(Next)
-----------------------------------------------------------------------------
(* Properties *)

Assignment ==
  [name : Packages, term : Terms, level : Nat, cause : Nat]

TypeOK ==
  /\ registry \in Registry
  /\ facts \in Seq(Incompatibilities)
  /\ contradicted \subseteq 1 .. Len(facts)
  /\ contradictedAt \subseteq (Nat \X (1 .. Len(facts)))
  /\ assignments \in Seq(Assignment)
  /\ decisions \in [Packages -> Selection]
  /\ solution \in [Packages -> Terms]
  /\ pc \in {"propagate", "resolve", "choose", "solved", "failed", "crashed"}
  /\ changed \subseteq Packages
  /\ package \in Packages \cup {NoPackage}
  /\ cursor \in 0 .. Len(facts)
  /\ conflict \in [Packages -> SUBSET Selection]
  /\ conflictFact \in 0 .. Len(facts)

(* SolveFailureError is raised only when no selection answers the registry: *)
(* no learned incompatibility rules out a solution that exists.            *)
FailureIsJustified == pc = "failed" => Solutions(registry) = {}

(* No solution of the registry makes all terms of i true. *)
Holds(i) == \A s \in Solutions(registry) : \E p \in Packages : s[p] \notin i[p]

(* Every incompatibility known to the solver holds in every solution of    *)
(* the registry, the learned ones included.                                *)
FactsHold ==
  LET solutions == Solutions(registry)
  IN  \A k \in 1 .. Len(facts) : \A s \in solutions :
        \E p \in Packages : s[p] \notin facts[k][p]

(* _positive and _negative are what the assignments say, also right after  *)
(* backtrack() recomputed them for the packages it removed.                *)
SolutionIsDerived ==
  \A p \in Packages :
    solution[p] = Accumulated(assignments, Len(assignments), p)

(* A contradicted incompatibility is skipped by _propagate: it must really  *)
(* have a false term, also after a backjump dropped some levels.           *)
ContradictedIsFalse ==
  pc # "crashed" =>
    \A k \in contradicted : Contradicts(solution, facts[k])

(* Decision levels never decrease along the assignments, and the decisions *)
(* that are left are exactly the ones the levels count.                    *)
LevelsAreOrdered ==
  /\ \A k \in 2 .. Len(assignments) :
       assignments[k - 1].level <= assignments[k].level
  /\ \A k \in 1 .. Len(assignments) :
       assignments[k].level =
         Cardinality({j \in 1 .. k : assignments[j].cause = 0})
  /\ \A p \in Packages : decisions[p] # Absent =>
       \E k \in 1 .. Len(assignments) :
         assignments[k] = [name |-> p, term |-> {decisions[p]}, cause |-> 0,
                           level |-> assignments[k].level]

(* A selected package is the root project, or a selected version requires   *)
(* it: nothing survives the backtracking that brought it in.               *)
NothingStray ==
  pc = "solved" =>
    \A p \in Packages \ {Root} : decisions[p] # Absent =>
      \E q \in Packages : /\ decisions[q] # Absent
                           /\ \E k \in 1 .. Len(registry.requires[q][decisions[q]]) :
                                registry.requires[q][decisions[q]][k].name = p

(* A backjump forgets what the dropped levels brought, and nothing else:   *)
(* contradictions, decisions and packages.                                 *)
BacktrackingIsClean == ContradictedIsFalse /\ LevelsAreOrdered /\ NothingStray

(* A derived assignment says that its cause cannot be true, and its cause   *)
(* was recorded: conflict resolution can always ask for it.                *)
CausesAreFacts ==
  \A k \in 1 .. Len(assignments) : LET a == assignments[k] IN
    a.cause # 0 => /\ a.cause <= Len(facts)
                   /\ a.term = Not(facts[a.cause][a.name])
                   /\ a.name # Root => RootVersion \in facts[a.cause][Root]

(* The root project is in every partial solution but the very first one,   *)
(* and no backjump goes behind it.                                         *)
RootIsChosen ==
  /\ \A k \in 1 .. Len(assignments) :
       assignments[k].name = Root => assignments[k].term = {RootVersion}
  /\ IF assignments = << >>
     THEN /\ solution[Root] = NoTerm
          /\ facts = << RootIncompatibility >>
          /\ contradicted = {}
          /\ pc = "propagate"
          /\ \/ package = NoPackage /\ changed = {Root}
             \/ package = Root /\ cursor = 1
     ELSE /\ solution[Root] = {RootVersion}
          /\ assignments[1].name = Root

(* The incompatibility in hand holds in every solution, contradicts the    *)
(* root project as little as the recorded ones, and has no empty term.     *)
ConflictHolds ==
  pc \in {"resolve", "failed"} =>
    /\ Holds(conflict)
    /\ \A p \in Packages : conflict[p] # {}
    /\ RootVersion \in conflict[Root]
    /\ conflictFact # 0 => conflict = facts[conflictFact]
    /\ pc = "failed" => IsFailure(conflict)

(* What makes the safety of the answers inductive, for a registry that does *)
(* not change.                                                             *)
Soundness ==
  /\ TypeOK
  /\ FactsHold
  /\ SolutionIsDerived
  /\ CausesAreFacts
  /\ RootIsChosen
  /\ ConflictHolds

(* The search implements its promise: it ends, no assertion of it fails,   *)
(* and what it returns answers the registry, for every order in which names *)
(* are propagated and packages chosen.                                     *)
Promise == INSTANCE Resolution WITH
  status <- CASE pc = "solved" -> "answered"
              [] pc = "failed" -> "unsolvable"
              [] OTHER -> "pending",
  selection <- [p \in Packages |-> IF pc = "solved" THEN decisions[p] ELSE Absent]
RefinesResolution == Promise!Spec
=============================================================================
