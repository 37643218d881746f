------------------------------- MODULE Sources -------------------------------
(***************************************************************************)
(* The package sources of a project: Factory.create_pool(),                 *)
(* repositories.repository_pool and installation.chooser.  A dependency is  *)
(* looked up in the sources, one release of it is locked with the files it  *)
(* has, the indexes change, and a file is chosen and installed.             *)
(***************************************************************************)
EXTENDS Integers, Sequences, FiniteSets

CONSTANTS
  Names,          \* of sources, "pypi" among them
  Versions,       \* numbers
  None,
  Projects,       \* settings: the declared sources, the dependency and the policies
  Indexes,        \* what the indexes have at first
  Uploads,        \* links that are added later
  MaxChanges      \* bound: so often an index changes

MoreTags == 100   \* than an environment has

(* A file as an index shows it.  tags: the first of the environment's tags   *)
(* that the wheel supports, or 0; content: which of several uploads under    *)
(* the name it is.                                                          *)
Link ==
  [kind : {"wheel", "sdist", "egg"}, tags : 0 .. MoreTags - 1, build : Nat, hash : {"sha256", "md5", "none"},
   content : {0, 1}, yanked : BOOLEAN]
HasNoBuild(l) == l.kind # "wheel" => l.build = 0

Policies == {"none", "all", "named"}
Source == [name : Names, priority : {"primary", "supplemental", "explicit"}]

(* What is assumed of the constants.  No source is declared twice: the pool  *)
(* would not take it.                                                       *)
SourcesAssumption ==
  /\ "pypi" \in Names /\ None \notin Names \cup Link /\ Versions \subseteq Nat \ {0}
  /\ \A p \in Projects :
       /\ p.declared \in Seq(Source) /\ p.source \in Names \cup {None} /\ p.allowed \subseteq Versions
       /\ p.noBinary \in Policies /\ p.onlyBinary \in Policies
       /\ \A i, j \in DOMAIN p.declared : p.declared[i].name = p.declared[j].name => i = j
  /\ Indexes \subseteq [Names -> [Versions -> SUBSET Link]] /\ Uploads \subseteq Link
  /\ \A x \in Indexes : \A n \in Names, v \in Versions : \A l \in x[n][v] : HasNoBuild(l)
  /\ \A l \in Uploads : HasNoBuild(l)

VARIABLES
  project,
  index,      \* [Names -> [Versions -> SUBSET Link]]
  stage,
  pool,       \* the sources in order, with their priorities
  locked,     \* the release in the lock file
  chosen,     \* the link that was chosen at last, or None
  changes

vars == <<project, index, stage, pool, locked, chosen, changes>>

(* found: what find_packages() has found.                                   *)
NotLocked == [version |-> 0, source |-> None, found |-> None, digests |-> {}, before |-> None]

Init ==
  /\ project \in Projects /\ index \in Indexes
  /\ stage = "declared" /\ pool = << >> /\ locked = NotLocked /\ chosen = None /\ changes = 0

-----------------------------------------------------------------------------
(* create_pool() and the pool. *)

IsIn(n, sources) == \E i \in DOMAIN sources : sources[i].name = n
HasPrimary(sources) == \E i \in DOMAIN sources : sources[i].priority = "primary"

(* Bug: PyPI is added although there is a primary source.                   *)
BugAlwaysPyPI(sources) ==
  IF IsIn("pypi", sources) THEN sources ELSE Append(sources, [name |-> "pypi", priority |-> "primary"])

WithPyPI(sources) ==
  IF IsIn("pypi", sources) \/ HasPrimary(sources) THEN sources
  ELSE Append(sources, [name |-> "pypi", priority |-> "primary"])

(* Bug: explicit sources are searched, after the others.                    *)
BugExplicitToo(sources) == DOMAIN sources

(* RepositoryPool.repositories: where the sources are that are searched, and *)
(* which of them goes before another.                                       *)
Searched(sources) == {i \in DOMAIN sources : sources[i].priority # "explicit"}

Rank(priority) == CASE priority = "primary" -> 1 [] priority = "supplemental" -> 2 [] OTHER -> 3
IsBefore(sources, i, j) ==
  \/ Rank(sources[i].priority) < Rank(sources[j].priority)
  \/ sources[i].priority = sources[j].priority /\ i < j

CreatePool ==
  /\ stage = "declared"
  /\ pool' = WithPyPI(project.declared)
  /\ stage' = IF Searched(WithPyPI(project.declared)) = {} THEN "failed" ELSE "pooled"
  /\ UNCHANGED <<project, index, locked, chosen, changes>>

-----------------------------------------------------------------------------
(* Locking. *)

Has(n, v) == index[n][v] # {}
IsYanked(n, v) == \A l \in index[n][v] : l.yanked

(* Repository.find_packages() *)
FoundIn(n) ==
  {v \in project.allowed : Has(n, v) /\ (IsYanked(n, v) => Cardinality(project.allowed) = 1)}

(* Bug: supplemental sources are searched for what others have, too.        *)
BugAllSources(i) == TRUE

(* The search ends at a supplemental source if something was found before.  *)
IsAsked(i) ==
  \/ pool[i].priority # "supplemental"
  \/ \A j \in Searched(pool) : IsBefore(pool, j, i) => FoundIn(pool[j].name) = {}

(* With a source that is not declared there is an IndexError.               *)
Asked ==
  IF project.source = None THEN {i \in Searched(pool) : IsAsked(i)}
  ELSE {i \in DOMAIN pool : pool[i].name = project.source}

(* RepositoryPool.find_packages(): where there is which version.            *)
Found == {f \in Asked \X Versions : f[2] \in FoundIn(pool[f[1]].name)}

(* RepositoryPool.package(): the first source that has the version.         *)
IsSourceOf(v, n) ==
  IF project.source # None THEN n = project.source
  ELSE \E i \in Searched(pool) :
         /\ pool[i].name = n /\ Has(n, v)
         /\ \A j \in Searched(pool) : IsBefore(pool, j, i) => ~ Has(pool[j].name, v)

(* _links_to_data() *)
Digest(l) == [kind |-> l.kind, tags |-> l.tags, build |-> l.build, content |-> l.content]
FilesOf(n, v) == {Digest(l) : l \in {l \in index[n][v] : l.yanked => IsYanked(n, v)}}

(* The newest release that was found first, and what the pool has for it.   *)
IsFirst(f) == \A g \in Found : g[2] < f[2] \/ (g[2] = f[2] /\ ~ IsBefore(pool, g[1], f[1]))

Lock ==
  /\ stage = "pooled"
  /\ \E f \in Found, n \in Names :
       /\ IsFirst(f) /\ IsSourceOf(f[2], n)
       /\ locked' = [version |-> f[2], source |-> n, found |-> pool[f[1]].name, digests |-> FilesOf(n, f[2]),
                     before |-> index]
  /\ stage' = "locked"
  /\ UNCHANGED <<project, index, pool, chosen, changes>>

NotFound ==
  /\ stage = "pooled" /\ Found = {}
  /\ stage' = "failed"
  /\ UNCHANGED <<project, index, pool, locked, chosen, changes>>

-----------------------------------------------------------------------------
(* The indexes go on. *)

Changed(n, v, links) ==
  /\ stage \in {"locked", "installed", "failed"} /\ locked # NotLocked
  /\ v = locked.version /\ n = locked.source
  /\ changes < MaxChanges /\ changes' = changes + 1
  /\ index' = [index EXCEPT ![n][v] = links]
  /\ stage' = "locked" /\ chosen' = None
  /\ UNCHANGED <<project, pool, locked>>

Yank(n, v) ==
  \E l \in index[n][v] : ~ l.yanked /\ Changed(n, v, (index[n][v] \ {l}) \cup {[l EXCEPT !.yanked = TRUE]})
Delete(n, v) == \E l \in index[n][v] : Changed(n, v, index[n][v] \ {l})
Replace(n, v) ==
  \E l \in index[n][v] : Changed(n, v, (index[n][v] \ {l}) \cup {[l EXCEPT !.content = 1 - l.content]})
Upload(n, v) == \E l \in Uploads : Changed(n, v, index[n][v] \cup {l})

-----------------------------------------------------------------------------
(* Choosing. *)

(* Bug: the hash is asked for only if the index shows a sha256.             *)
BugShownOnly(l) == l.hash # "sha256" \/ Digest(l) \in locked.digests

(* _get_links(): what has no hash is taken, and of what has another kind of *)
(* hash the sha256 is calculated.                                           *)
IsLocked(l) == l.hash = "none" \/ Digest(l) \in locked.digests

(* PackageFilterPolicy: "all", "none", or "named", the package itself.       *)
HasExactPackage(policy) == policy = "named"
Allows(policy) == policy = "none"

IsWheelAllowed ==
  ~ HasExactPackage(project.noBinary) /\ (Allows(project.noBinary) \/ HasExactPackage(project.onlyBinary))

(* Bug: installer.no-binary is looked at first.                             *)
BugNoBinaryFirst == Allows(project.onlyBinary) \/ ~ Allows(project.noBinary)

IsSdistAllowed ==
  ~ HasExactPackage(project.onlyBinary) /\ (Allows(project.onlyBinary) \/ HasExactPackage(project.noBinary))

IsCandidate(l) ==
  /\ l.kind = "wheel" => IsWheelAllowed /\ l.tags > 0
  /\ l.kind = "sdist" => IsSdistAllowed
  /\ l.kind # "egg"

Links == {l \in index[locked.source][locked.version] : IsLocked(l)}
Candidates == {l \in Links : IsCandidate(l)}

(* _sort_key(): a calculated hash is not among those that are compared here.*)
HasAllowedHash(l) == l.hash = "none" \/ (l.hash = "sha256" /\ Digest(l) \in locked.digests)
Number(b) == IF b THEN 1 ELSE 0
(* Bug: the last of the tags is the best.                                   *)
BugLastTag(l) ==
  <<Number(HasAllowedHash(l)), Number(~ l.yanked), l.build, IF l.kind = "wheel" THEN l.tags ELSE 0>>

SortKey(l) ==
  <<Number(HasAllowedHash(l)), Number(~ l.yanked), l.build,
    IF l.kind = "wheel" THEN MoreTags - l.tags ELSE 0>>

IsLess(k, m) == \E i \in DOMAIN k : k[i] < m[i] /\ \A j \in 1 .. i - 1 : k[j] = m[j]

ChooseFor ==
  /\ stage = "locked" /\ Candidates # {}
  /\ \E l \in Candidates :
       /\ \A m \in Candidates : ~ IsLess(SortKey(l), SortKey(m))
       /\ chosen' = l
  /\ stage' = "installed"
  /\ UNCHANGED <<project, index, pool, locked, changes>>

(* No link is left, or none matches the hashes in the lock file.            *)
NothingToChoose ==
  /\ stage = "locked" /\ Candidates = {}
  /\ stage' = "failed" /\ chosen' = None
  /\ UNCHANGED <<project, index, pool, locked, changes>>

Next ==
  \/ CreatePool \/ Lock \/ NotFound
  \/ \E n \in Names, v \in Versions : Yank(n, v) \/ Delete(n, v) \/ Replace(n, v) \/ Upload(n, v)
  \/ ChooseFor \/ NothingToChoose

Spec == Init /\ [][Next]_vars
-----------------------------------------------------------------------------
TypeOK ==
  /\ stage \in {"declared", "pooled", "locked", "installed", "failed"}
  /\ \A n \in Names, v \in Versions : index[n][v] \subseteq Link
  /\ locked.version \in Versions \cup {0} /\ locked.source \in Names \cup {None}
  /\ chosen # None => chosen \in Link

PriorityOf(n) == IF IsIn(n, project.declared)
                 THEN (CHOOSE s \in {project.declared[i] : i \in DOMAIN project.declared} : s.name = n).priority
                 ELSE "primary"

(* What the index n had for the dependency when the project was locked.     *)
HadThen(n) ==
  {v \in project.allowed : locked.before[n][v] # {}
     /\ ((\A l \in locked.before[n][v] : l.yanked) => Cardinality(project.allowed) = 1)}

(* docs/repositories.md: a dependency that names a source is locked from     *)
(* there; an explicit source is asked for no other, a supplemental one only  *)
(* if no primary has anything that fits, and PyPI, if it is not declared,    *)
(* only if there is no primary; the newest release of these is locked.       *)
SourcesAreAsked ==
  locked # NotLocked =>
    LET declared == {project.declared[i].name : i \in DOMAIN project.declared}
        primaries == {n \in declared : PriorityOf(n) = "primary"}
        fits(n) == HadThen(n) # {}
    IN IF project.source # None THEN locked.source = project.source
       ELSE /\ locked.source \in declared \/ (locked.source = "pypi" /\ primaries = {})
            /\ PriorityOf(locked.found) # "explicit"
            /\ PriorityOf(locked.found) = "supplemental" =>
                 \A n \in primaries \cup (IF primaries = {} /\ "pypi" \notin declared THEN {"pypi"} ELSE {}) :
                   ~ fits(n)
            /\ \A n \in declared : PriorityOf(n) = PriorityOf(locked.found) /\ PriorityOf(n) = "primary" =>
                 \A v \in HadThen(n) : v <= locked.version

(* Whatever happens to the index: the file that is installed is of the      *)
(* locked release, and one of those that were locked, or else the index does *)
(* not show its hash.                                                       *)
ChosenIsLocked ==
  chosen # None =>
    chosen.hash = "none" \/ \E l \in locked.before[locked.source][locked.version] : Digest(l) = Digest(chosen)

(* A file is passed over only for a reason: a source distribution is not    *)
(* chosen when a wheel may be, nor a yanked file when another one may be,    *)
(* nor, of two wheels of one build, the one that fits the environment less. *)
(* And nothing is chosen only if nothing may be: "named" goes before "all". *)
May(l) ==
  /\ l.hash = "none" \/ Digest(l) \in locked.digests
  /\ \/ l.kind = "wheel" /\ l.tags > 0 /\ project.noBinary # "named"
        /\ (project.noBinary = "all" => project.onlyBinary = "named")
     \/ l.kind = "sdist" /\ project.onlyBinary # "named"
        /\ (project.onlyBinary = "all" => project.noBinary = "named")

ChoiceIsBest ==
  LET shown == {l \in index[locked.source][locked.version] : May(l)}
      alike == {l \in shown : l.hash = chosen.hash /\ l.yanked = chosen.yanked}
  IN /\ stage = "installed" =>
          /\ May(chosen)
          /\ chosen.yanked => \A l \in shown : l.yanked \/ l.hash = "md5"
          /\ chosen.kind = "sdist" => \A l \in alike : l.kind = "sdist"
          /\ \A l \in alike : l.kind = "wheel" /\ l.build = chosen.build => chosen.tags <= l.tags
     /\ stage = "failed" /\ locked # NotLocked => shown = {}

SourcesAreRight == TypeOK /\ SourcesAreAsked /\ ChosenIsLocked /\ ChoiceIsBest

(* "yanked files are always ignored, unless they are the only file that     *)
(* matches a version specifier that pins to an exact version": what is      *)
(* locked is not yanked.                                                    *)
YankedIsIgnored ==
  locked # NotLocked /\ Cardinality(project.allowed) > 1 =>
    \E l \in locked.before[locked.source][locked.version] : ~ l.yanked
==============================================================================
