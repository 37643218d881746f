--------------------------- MODULE DependencyCache ---------------------------
(***************************************************************************)
(* DependencyCache of poetry.mixology.version_solver for one package: a    *)
(* stack of ever shorter lists of versions, filtered instead of asking the *)
(* provider again, and a cache of the searches themselves.  The package    *)
(* may be wanted under several names: alone, and with extras.              *)
(***************************************************************************)
EXTENDS Naturals, Sequences, FiniteSets, SequencesExt

CONSTANTS
  Names,        \* of the package: with and without extras
  Versions,     \* of it in the repositories
  Prereleases,  \* among them
  Settings,     \* what may be required
  MaxLevel,     \* bound: of decisions
  MaxEntries,   \* bound: of lists on the stack
  None

(* A dependency allows versions, and says of prereleases that they are      *)
(* welcome, forbidden, or nothing.                                          *)
Dependencies == [allowed : (SUBSET Versions) \ {{}}, pre : {"yes", "no", "unset"}]

(* Is the package wanted under one name only, and by what dependencies?    *)
Setting == [oneName : BOOLEAN, dependencies : SUBSET Dependencies]

(* What is assumed of the constants.                                       *)
DependencyCacheAssumption ==
  /\ Versions \subseteq Nat /\ Prereleases \subseteq Versions
  /\ \A s \in Settings : s.oneName \in BOOLEAN /\ s.dependencies \subseteq Dependencies
  /\ MaxLevel \in Nat /\ MaxEntries \in Nat
  /\ None \notin Dependencies

VARIABLES
  setting,
  level,  \* decision_level of the solver
  terms,  \* [0 .. MaxLevel -> [Names -> dependency or None]]: what is positive there
  stack,  \* _cache[key]: lists, as [packages, pre, for], the constraint it was made for
  added,  \* _cached_dependencies_by_level: [0 .. MaxLevel -> Nat], how many of them
  memo    \* lru_cache: lists by the constraint they were made for

vars == <<setting, level, terms, stack, added, memo>>

Levels == 0 .. MaxLevel
Lists == [packages : SUBSET Versions, pre : {"yes", "no", "unset"}, for : SUBSET Versions]

Init ==
  /\ setting \in Settings
  /\ level = 0
  /\ terms = [k \in Levels |-> [n \in Names |-> None]]
  /\ stack = <<>> /\ memo = {}
  /\ added = [k \in Levels |-> 0]

Wanted == {n \in Names : terms[level][n] # None}

(* Provider.search_for() and find_packages(): prereleases are offered when *)
(* the dependency allows them, or when there is nothing else.              *)
Offer(d) ==
  LET stable == d.allowed \ Prereleases
  IN IF d.pre = "yes" \/ (d.pre = "unset" /\ stable = {}) THEN d.allowed ELSE stable

(* The first of a list: a stable version before any other, unless the      *)
(* dependency allows prereleases.                                          *)
First(list) ==
  LET stable == list.packages \ Prereleases
      from == IF list.pre = "yes" \/ stable = {} THEN list.packages ELSE stable
  IN CHOOSE v \in from : \A w \in from : w <= v

(* Bug: an empty list is taken for an answer. *)
BugKeepEmpty(d) ==
  IF stack # <<>> THEN [packages |-> Last(stack).packages \cap d.allowed, pre |-> Last(stack).pre, for |-> d.allowed]
  ELSE [packages |-> Offer(d), pre |-> d.pre, for |-> d.allowed]
(* _search_for(): the last list, filtered, and a new one if nothing is left. *)
SearchFor(d) ==
  LET filtered == IF stack = <<>> THEN {} ELSE Last(stack).packages \cap d.allowed
  IN IF filtered # {} THEN [packages |-> filtered, pre |-> Last(stack).pre, for |-> d.allowed]
     ELSE [packages |-> Offer(d), pre |-> d.pre, for |-> d.allowed]

Known(d) == {m \in memo : m.for = d.allowed}
Answer(d) == IF Known(d) # {} THEN CHOOSE m \in Known(d) : TRUE ELSE SearchFor(d)

(* Is the answer the very list on top?  A new one never is.                *)
IsTop(d) == Known(d) # {} /\ stack # <<>> /\ Last(stack).for = d.allowed

(* Bug: the list is remembered for the level before. *)
BugLevelBefore == IF level = 0 THEN 0 ELSE level - 1
LevelOfEntry == level

Search(n) ==
  LET d == terms[level][n] IN
  /\ n \in Wanted
  /\ memo' = memo \cup {Answer(d)}
  /\ IF IsTop(d) THEN UNCHANGED <<stack, added>>
     ELSE /\ Len(stack) < MaxEntries
          /\ stack' = Append(stack, Answer(d))
          /\ added' = [added EXCEPT ![LevelOfEntry] = @ + 1]
  /\ UNCHANGED <<setting, level, terms>>

(* lru_cache drops the list that was not asked for longest.                *)
Evict ==
  /\ \E m \in memo : memo' = memo \ {m}
  /\ UNCHANGED <<setting, level, terms, stack, added>>

(* A derivation makes the term about a name narrower.                      *)
Derive(n) ==
  /\ setting.oneName => Wanted \subseteq {n}
  /\ \E d \in setting.dependencies :
       /\ terms[level][n] # None =>
            /\ d.pre = terms[level][n].pre
            /\ d.allowed \subseteq terms[level][n].allowed /\ d # terms[level][n]
       /\ terms' = [terms EXCEPT ![level][n] = d]
  /\ UNCHANGED <<setting, level, stack, added, memo>>

Decide ==
  /\ level < MaxLevel
  /\ level' = level + 1
  /\ terms' = [terms EXCEPT ![level + 1] = terms[level]]
  /\ UNCHANGED <<setting, stack, added, memo>>

(* Bug: as many lists go as there are levels. *)
BugOneEach(k) == IF Len(stack) < level - k THEN 0 ELSE Len(stack) - (level - k)
(* clear_level() for every level above k, the highest first: what the       *)
(* levels up to k have added is left.                                       *)
Additions(k) == {e \in (0 .. k) \X (1 .. MaxEntries) : e[2] <= added[e[1]]}
Kept(k) == Cardinality(Additions(k))

(* Bug: the searches are remembered. *)
BugRemember(k) == memo
MemoAfter(k) == IF \E l \in k + 1 .. level : added[l] > 0 THEN {} ELSE memo

Backtrack == \E k \in 0 .. level :
  /\ k < level
  /\ level' = k
  /\ stack' = SubSeq(stack, 1, Kept(k))
  /\ added' = [l \in Levels |-> IF l <= k THEN added[l] ELSE 0]
  /\ memo' = MemoAfter(k)
  /\ UNCHANGED setting
  /\ terms' = [l \in Levels |-> IF l <= k THEN terms[l] ELSE [n \in Names |-> None]]

Next ==
  \/ \E n \in Names : Search(n) \/ Derive(n)
  \/ Evict \/ Decide \/ Backtrack

Spec == Init /\ [][Next]_vars

(* ---- Properties ------------------------------------------------------- *)

TypeOK ==
  /\ setting \in Settings
  /\ level \in Levels
  /\ terms \in [Levels -> [Names -> Dependencies \cup {None}]]
  /\ stack \in Seq(Lists)
  /\ added \in [Levels -> Nat]
  /\ memo \subseteq Lists
  /\ Kept(MaxLevel) = Len(stack)

(* An empty answer makes the solver learn that there are no versions: the  *)
(* cache may only give one if the provider does.                           *)
NoneMeansNone == \A n \in Wanted :
  LET d == terms[level][n] IN Answer(d).packages = {} <=> Offer(d) = {}

(* What the solver is offered is allowed by the term it asks for.          *)
OnlyAllowed == \A n \in Wanted :
  Answer(terms[level][n]).packages \subseteq terms[level][n].allowed

(* The cache says neither too little nor what was not asked for.           *)
AnswersAreAllowed == TypeOK /\ NoneMeansNone /\ OnlyAllowed

(* If the package is wanted under one name, the version that the solver    *)
(* takes is the one that it would take without the cache.                  *)
FirstIsSame == setting.oneName => \A n \in Wanted :
  LET d == terms[level][n]
  IN Offer(d) # {} => First(Answer(d)) = First([packages |-> Offer(d), pre |-> d.pre, for |-> {}])

(* No version is lost that every name of the package allows.               *)
NothingIsLost == \A n \in Wanted :
  LET d == terms[level][n]
      common == {v \in Versions : \A m \in Wanted : v \in terms[level][m].allowed}
  IN Offer(d) \cap common \subseteq Answer(d).packages

(* A prerelease that a dependency forbids is not offered to it.            *)
ForbiddenIsNotOffered == \A n \in Wanted :
  LET d == terms[level][n]
  IN d.pre = "no" => Answer(d).packages \cap Prereleases = {}
==============================================================================
