------------------------------ MODULE Overrides ------------------------------
(***************************************************************************)
(* One lock file for many environments: poetry.puzzle.provider completes   *)
(* the packages that the search decides on, and where a package has        *)
(* duplicate dependencies, poetry.puzzle.solver solves once per case and   *)
(* merges the solutions.  A marker is the set of environments in which it  *)
(* holds, a version constraint a set of versions.                          *)
(***************************************************************************)
EXTENDS Naturals, Sequences, FiniteSets, FiniteSetsExt

CONSTANTS
  Names, Versions, Sources,
  Environments,  \* each with a python, a platform and the extras of the root project
  Root, NoEnv,
  Problems       \* what may have to be solved

(* A dependency.  It is in the extras inExtras of who requires it, and asks *)
(* for the extras of who is required.                                      *)
Dependency ==
  [name : Names, extras : SUBSET STRING, constraint : SUBSET Versions, source : Sources,
   marker : SUBSET Environments, inExtras : SUBSET STRING]

Package(n, xs, v) == [name |-> n, extras |-> xs, version |-> v]
RootPackage == Package(Root, {}, 0)
Base(p) == Package(p.name, {}, p.version)

VARIABLES
  problem,   \* requires of all packages, extras that include others, and the environment or NoEnv
  pc,        \* "solve", "merge", "done", "failed"
  override,  \* what is solved with: dependencies that replace all of their name in a package
  decided,   \* [packages -> their dependencies after complete_package()]
  frames,    \* the calls of _solve_in_compatibility_mode(), innermost last
  packages   \* the last solution: [packages -> markers]

vars == <<problem, pc, override, decided, frames, packages>>

Started == [p \in {} |-> {}]

Init ==
  /\ problem \in Problems
  /\ pc = "solve"
  /\ override = {}
  /\ decided = Started
  /\ frames = <<>>
  /\ packages = Started
-----------------------------------------------------------------------------
(* Markers *)

PythonsOf(marker) == {e.python : e \in marker}
WithoutExtras(marker) ==
  {e \in Environments : \E f \in marker : e.python = f.python /\ e.platform = f.platform}
Extra(xs) == {e \in Environments : e.extras \cap xs # {}}

OverrideMarker(o) == {e \in Environments : \A x \in o : e \in x.dependency.marker}
PythonConstraint(o) ==
  IF problem.env = NoEnv THEN PythonsOf(OverrideMarker(o))
  ELSE {problem.env.python} \cap PythonsOf(OverrideMarker(o))

IsRelevantMarker(marker, pythons) ==
  /\ PythonsOf(marker) \cap pythons # {}
  /\ problem.env = NoEnv \/ problem.env \in marker

-----------------------------------------------------------------------------
(* Duplicate dependencies *)

SameButMarker(c, d) ==
  c.name = d.name /\ c.extras = d.extras /\ c.source = d.source /\ c.constraint = d.constraint

(* Bug: the marker of the first one is kept. *)
BugFirstMarker(ds) == {d \in ds : d = CHOOSE c \in ds : SameButMarker(c, d)}
MergeByConstraint(ds) ==
  {[d EXCEPT !.marker = UNION {c.marker : c \in {c \in ds : SameButMarker(c, d)}},
             !.inExtras = {}] : d \in ds}

(* The environments where exactly these of the dependencies are required.  *)
Overlap(uses, ds) ==
  {e \in Environments : \A d \in ds : e \in d.marker <=> d \in uses}
Uses(ds, o) ==
  LET pythons == PythonConstraint(o)
  IN {uses \in SUBSET ds : IsRelevantMarker(Overlap(uses, ds), pythons)}

CommonConstraint(uses) == {v \in Versions : \A d \in uses : v \in d.constraint}
SpecificSources(uses) == {d.source : d \in uses} \ {"any"}
IsIncompatible(uses) ==
  uses # {} /\ (CommonConstraint(uses) = {} \/ Cardinality(SpecificSources(uses)) > 1)

(* An empty constraint: not required here, which is to be remembered.      *)
Combined(uses, ds) ==
  LET d == CHOOSE d \in IF uses = {} THEN ds ELSE uses :
             uses = {} \/ SpecificSources(uses) \subseteq {d.source}
  IN [d EXCEPT !.constraint = IF uses = {} THEN {} ELSE CommonConstraint(uses),
               !.marker = Overlap(uses, ds)]

(* Bug: where none of them is required is left out. *)
BugOnlyRequired(ds, o) ==
  LET merged == MergeByConstraint(ds)
  IN MergeByConstraint({Combined(uses, merged) : uses \in Uses(merged, o) \ {{}}})
ResolveOverlappingMarkers(ds, o) ==
  LET merged == MergeByConstraint(ds)
  IN MergeByConstraint({Combined(uses, merged) : uses \in Uses(merged, o)})
Conflicts(ds, o) ==
  LET merged == MergeByConstraint(ds) IN \E uses \in Uses(merged, o) : IsIncompatible(uses)

AreDisjoint(ds) == \A c, d \in ds : c # d => c.marker \cap d.marker = {}

ByExtras(ds) == {{d \in ds : d.extras = xs} : xs \in {d.extras : d \in ds}}
ResolvedGroups(ds, o) ==
  IF Cardinality(ByExtras(ds)) = 1 THEN {ResolveOverlappingMarkers(ds, o)}
  ELSE {IF Cardinality(g) = 1 THEN g ELSE ResolveOverlappingMarkers(g, o) : g \in ByExtras(ds)}
(* With several extras, overrides are for simple cases only.               *)
IsTooComplicated(groups) ==
  /\ Cardinality(groups) > 1
  /\ ~ ((\A g \in groups : Cardinality(g) = 1) /\ AreDisjoint(UNION groups))

RelevantOf(ds, o) ==
  LET marker == OverrideMarker(o) IN {d \in ds : d.marker \cap marker # {}}

(* What becomes of the dependencies of one name: those to keep, those to   *)
(* solve separately for, or IncompatibleConstraintsError.                  *)
Treated(ds, o) ==
  LET groups == ResolvedGroups(ds, o)
      all == UNION groups
      relevant == RelevantOf(all, o)
      result(keep, split) == [keep |-> keep, split |-> split, fails |-> FALSE]
  IN IF Cardinality(ds) = 1 THEN result(ds, {})
     ELSE IF \E g \in ByExtras(ds) : Cardinality(g) > 1 /\ Conflicts(g, o)
     THEN [keep |-> {}, split |-> {}, fails |-> TRUE]
     ELSE IF IsTooComplicated(groups) \/ Cardinality(all) = 1 THEN result(all, {})
     ELSE IF Cardinality(relevant) < 2 THEN result({d \in relevant : d.constraint # {}}, {})
     ELSE result({}, relevant)
-----------------------------------------------------------------------------
(* complete_package() *)

RequiresOf(p) == IF p.name = Root THEN problem.root ELSE problem.requires[<<p.name, p.version>>]

(* Extras may include others.                                              *)
FoundExtras(n, xs) ==
  CHOOSE found \in SUBSET (xs \cup UNION {problem.includes[n][x] : x \in DOMAIN problem.includes[n]}) :
    /\ xs \subseteq found
    /\ \A x \in found \cap DOMAIN problem.includes[n] : problem.includes[n][x] \subseteq found
    /\ \A x \in found \ xs : \E y \in found \cap DOMAIN problem.includes[n] : x \in problem.includes[n][y]

(* foo[extra] requires foo in the same version.                            *)
BaseDependency(p, term) ==
  [name |-> p.name, extras |-> {}, constraint |-> {p.version}, source |-> term.source,
   marker |-> term.marker, inExtras |-> {}]

InEnv(d) == problem.env = NoEnv \/ problem.env \in d.marker
IsActive(d, p) ==
  p.name = Root \/ d.inExtras = {} \/ d.inExtras \cap FoundExtras(p.name, p.extras) # {}
WithRootExtras(d, p) ==
  IF problem.env = NoEnv /\ p.name = Root /\ d.inExtras # {}
  THEN [d EXCEPT !.marker = @ \cap Extra(d.inExtras)] ELSE d

Candidates(p, term, o) ==
  LET pythons == PythonConstraint(o)
      wanted == {d \in RequiresOf(p) : /\ PythonsOf(d.marker) \cap pythons # {}
                                       /\ InEnv(d) /\ IsActive(d, p)}
  IN {WithRootExtras(d, p) : d \in wanted}
       \cup IF p.extras = {} THEN {} ELSE {BaseDependency(p, term)}

WithOverrides(ds, p, o) ==
  LET own == {x.dependency : x \in {x \in o : x.package = p}}
  IN {d \in ds : \A x \in own : x.name # d.name}
       \cup {x \in own : x.constraint # {} /\ \E d \in ds : d.name = x.name}

(* By name, what becomes of the dependencies.                              *)
Treatments(p, term, o) ==
  LET ds == WithOverrides(Candidates(p, term, o), p, o)
  IN {Treated({d \in ds : d.name = n}, o) : n \in {d.name : d \in ds}}

(* The transitive marker of a dependency says where what requires it is    *)
(* required; a dependency for other environments is dropped.               *)
IsAny(marker) == WithoutExtras(marker) = Environments
IsNeeded(d, term) ==
  /\ IsAny(term.transitive) \/ WithoutExtras(term.transitive) \cap WithoutExtras(d.marker) # {}
  /\ PythonsOf(term.marker) \cap PythonsOf(d.marker) # {}
WithTransitive(d, term) ==
  [dependency |-> d,
   transitive |-> IF IsAny(term.transitive) THEN d.marker
                  ELSE WithoutExtras(term.transitive) \cap WithoutExtras(d.marker)]

Completed(treatments, term) ==
  {WithTransitive(d, term) : d \in {d \in UNION {t.keep : t \in treatments} : IsNeeded(d, term)}}
-----------------------------------------------------------------------------
(* The search, of which only decisions count that it does not take back    *)

On(n, xs) ==
  {c \in UNION {decided[p] : p \in DOMAIN decided} : c.dependency.name = n /\ c.dependency.extras = xs}
IsDecided(n, xs) == \E p \in DOMAIN decided : p.name = n /\ p.extras = xs
Pending ==
  {[name |-> c.dependency.name, extras |-> c.dependency.extras] :
     c \in UNION {decided[p] : p \in DOMAIN decided}}
Undecided == {q \in Pending : ~ IsDecided(q.name, q.extras)}

(* The terms about a package add up to one: the transitive marker is that  *)
(* of all of them, everything else is from one of them.                    *)
TermsOn(n, xs) ==
  {[marker |-> c.dependency.marker, source |-> c.dependency.source,
    transitive |-> UNION {d.transitive : d \in On(n, xs)}] : c \in On(n, xs)}
RootTerm == [marker |-> Environments, source |-> "any", transitive |-> Environments]

Allowed(n, xs) == {v \in Versions : <<n, v>> \in DOMAIN problem.requires
                     /\ \A c \in On(n, xs) : v \in c.dependency.constraint}
(* No dependency contradicts what was decided before.                      *)
Fits(cs) ==
  \A c \in cs : \A q \in DOMAIN decided :
    q.name = c.dependency.name /\ q.extras = c.dependency.extras
      => q.version \in c.dependency.constraint

OverrideWith(p, d) ==
  {x \in override : ~ (x.package = p /\ x.dependency.name = d.name)}
    \cup {[package |-> p, dependency |-> d]}

Start(o) == override' = o /\ decided' = Started

(* OverrideNeededError, for the first name with duplicates: solve for each  *)
(* of them.                                                                *)
Split(p, ds) ==
  LET todo == {OverrideWith(p, d) : d \in ds}
  IN \E first \in todo :
       /\ Start(first)
       /\ frames' = Append(frames, [outer |-> override, todo |-> todo \ {first}, results |-> {}])
       /\ UNCHANGED <<problem, pc, packages>>

Complete(p, term) ==
  LET treatments == Treatments(p, term, override)
      dependencies == Completed(treatments, term)
  IN \/ /\ \E t \in treatments : t.fails
        /\ pc' = "failed"
        /\ UNCHANGED <<problem, override, decided, frames, packages>>
     \/ \E t \in treatments : t.split # {} /\ Split(p, t.split)
     \/ /\ \A t \in treatments : ~ t.fails /\ t.split = {}
        /\ Fits(dependencies)
        /\ decided' = [q \in DOMAIN decided \cup {p} |-> IF q = p THEN dependencies ELSE decided[q]]
        /\ UNCHANGED <<problem, pc, override, frames, packages>>

DecideRoot ==
  /\ pc = "solve" /\ ~ IsDecided(Root, {})
  /\ Complete(RootPackage, RootTerm)

Decide(q) ==
  /\ pc = "solve" /\ q \in Undecided
  /\ \E v \in Allowed(q.name, q.extras), term \in TermsOn(q.name, q.extras) :
       Complete(Package(q.name, q.extras, v), term)

(* No version, or none that fits: SolveFailureError.                       *)
Fail(q) ==
  /\ pc = "solve" /\ q \in Undecided
  /\ \A v \in Allowed(q.name, q.extras), term \in TermsOn(q.name, q.extras) :
       LET treatments == Treatments(Package(q.name, q.extras, v), term, override)
       IN /\ \A t \in treatments : ~ t.fails /\ t.split = {}
          /\ ~ Fits(Completed(treatments, term))
  /\ pc' = "failed"
  /\ UNCHANGED <<problem, override, decided, frames, packages>>
-----------------------------------------------------------------------------
(* The markers of the solution, and of the solutions together              *)

EdgeMarker(p, d) ==
  IF p.name # Root THEN WithoutExtras(d.marker)
  ELSE IF d.inExtras = {} THEN d.marker ELSE d.marker \cap Extra(d.inExtras)
RequiredBy(ps, e) ==
  {q \in DOMAIN decided : \E p \in ps : \E c \in decided[p] :
     /\ c.dependency.name = q.name /\ c.dependency.extras = q.extras
     /\ q.version \in c.dependency.constraint
     /\ e \in EdgeMarker(p, c.dependency)}
ReachedIn(e) ==
  LET after[k \in 0 .. Cardinality(DOMAIN decided)] ==
        IF k = 0 THEN {RootPackage} ELSE after[k - 1] \cup RequiredBy(after[k - 1], e)
  IN after[Cardinality(DOMAIN decided)]

Aggregated ==
  LET reached == [e \in Environments |-> ReachedIn(e)]
  IN [p \in {p \in DOMAIN decided : p.extras = {} /\ p.name # Root} |->
        {e \in Environments : p \in reached[e]}]

(* Bug: the marker of the override is not added. *)
BugNoOverrideMarker(results) ==
  [p \in UNION {DOMAIN r.packages : r \in results} |->
     UNION {r.packages[p] : r \in {r \in results : p \in DOMAIN r.packages}}]
MergeOverridePackages(results) ==
  [p \in UNION {DOMAIN r.packages : r \in results} |->
     UNION {r.packages[p] \cap WithoutExtras(OverrideMarker(r.override)) :
              r \in {r \in results : p \in DOMAIN r.packages}}]

(* A solution that was found with the override done goes to the innermost  *)
(* of the calls, which goes on with its next override.                     *)
Return(solution, done, calls) ==
  IF calls = <<>>
  THEN /\ pc' = "done" /\ packages' = solution /\ frames' = calls
       /\ UNCHANGED <<override, decided>>
  ELSE LET n == Len(calls)
           results == calls[n].results \cup {[override |-> done, packages |-> solution]}
       IN IF calls[n].todo = {}
          THEN /\ pc' = "merge" /\ frames' = [calls EXCEPT ![n].results = results]
               /\ UNCHANGED <<override, decided, packages>>
          ELSE \E next \in calls[n].todo :
                 /\ Start(next) /\ pc' = "solve" /\ UNCHANGED packages
                 /\ frames' = [calls EXCEPT ![n].results = results, ![n].todo = @ \ {next}]

Finish ==
  /\ pc = "solve" /\ IsDecided(Root, {}) /\ Undecided = {}
  /\ Return(Aggregated, override, frames)
  /\ UNCHANGED problem

Merge ==
  /\ pc = "merge"
  /\ LET n == Len(frames)
     IN Return(MergeOverridePackages(frames[n].results), frames[n].outer, SubSeq(frames, 1, n - 1))
  /\ UNCHANGED problem

Finished == pc \in {"done", "failed"} /\ UNCHANGED vars

Next ==
  \/ DecideRoot \/ Finish \/ Merge
  \/ \E q \in Pending : Decide(q) \/ Fail(q)
  \/ Finished

Spec == Init /\ [][Next]_vars
-----------------------------------------------------------------------------
(* Properties                                                              *)

TypeOK ==
  /\ problem \in Problems /\ pc \in {"solve", "merge", "done", "failed"}
  /\ \A p \in DOMAIN packages : packages[p] \subseteq Environments

(* An override has one dependency per package and name; the overrides of a *)
(* call are for different environments and for all of its own: nothing is  *)
(* lost in a split, and nothing is solved twice.                           *)
OverridesArePartition ==
  /\ TypeOK
  /\ \A x, y \in override : x.package = y.package /\ x.dependency.name = y.dependency.name => x = y
  /\ \A n \in DOMAIN frames :
       LET inner == IF n < Len(frames) THEN {frames[n + 1].outer} ELSE IF pc # "merge" THEN {override} ELSE {}
           all == frames[n].todo \cup {r.override : r \in frames[n].results} \cup inner
       IN /\ UNION {OverrideMarker(o) : o \in all} = OverrideMarker(frames[n].outer)
          /\ \A o, q \in all : o # q => OverrideMarker(o) \cap OverrideMarker(q) = {}

(* What is installed in an environment, and what has to be.                *)
ChosenIn(e) == {p \in DOMAIN packages : e \in packages[p]}
RequiredIn(p, xs, e) ==
  {d \in problem.requires[<<p.name, p.version>>] :
     e \in d.marker /\ (d.inExtras = {} \/ d.inExtras \cap FoundExtras(p.name, xs) # {})}
DemandsIn(e) ==
  LET top == {d \in problem.root : e \in d.marker /\ (d.inExtras = {} \/ d.inExtras \cap e.extras # {})}
      after[k \in 0 .. Cardinality(Names)] ==
        IF k = 0 THEN top
        ELSE after[k - 1] \cup UNION {UNION {RequiredIn(p, d.extras, e) : p \in {p \in ChosenIn(e) : p.name = d.name}}
                                      : d \in after[k - 1]}
  IN after[Cardinality(Names)]
IsServed(e) ==
  /\ \A p, q \in ChosenIn(e) : p.name = q.name => p = q
  /\ \A d \in DemandsIn(e) : \E p \in ChosenIn(e) : p.name = d.name /\ p.version \in d.constraint
  /\ \A p \in ChosenIn(e) : \E d \in DemandsIn(e) : p.name = d.name

(* The lock file has, for every environment, what this environment needs,  *)
(* each in one version, and nothing else.                                  *)
EveryEnvironmentIsServed ==
  pc = "done" => \A e \in Environments : problem.env \in {NoEnv, e} => IsServed(e)

=============================================================================
