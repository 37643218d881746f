------------------------------ MODULE MCCommands ------------------------------
(***************************************************************************)
(* The commands that change a project, and what they rest on: the            *)
(* configuration, the sources of packages, git repositories, the file cache, *)
(* and how a dependency and the project itself get into the environment.     *)
(* Each behaviour is about one of these, its subject, while the others stay  *)
(* where they start.                                                        *)
(***************************************************************************)
EXTENDS Project, TLC

CONSTANTS
  Subjects, None,
  a, b, pypi, legacy,
  sh1, sh2, Keys, Repositories, Values, Defaults, Migrations, Shells,             \* of Configuration
  ConfigCommands, Starts, MaxCommands, MaxFaults,
  SourceNames, Projects, Indexes, Uploads, MaxChanges,                        \* of Sources
  u1, u2, c1, c2, c3, m1, m2,                                                 \* of Git
  Urls, Refs, Commits, Pins, Settings, MaxCalls, MaxGitFaults,
  Clients, CacheVersions, LengthOf, Installations, MaxRequests, MaxCacheFaults, \* of FileCache
  Dependencies, SystemVersions,                                               \* of InstalledPackage
  Sites, ScriptDirs, SysPaths, Permissions, Layouts                           \* of EditableInstall

VARIABLES
  subject,
  environ, files, configuring, commands, faults, meant, torn,
  project, index, stage, pool, locked, chosen, changes,
  setting, request, cloning, target, calls, gitFaults, disturbed, halfDone,
  versionOf, file, directory, client, requests, cacheFaults, killed,
  dependency, dist, pth, src, system, installing, initial, todo, runs, leftover,
  layout, writable, layoutPth, layoutDist, scripts, building, added, left, last, lost, cut
-----------------------------------------------------------------------------
(* a 1 requires b, a 2 does not.                                           *)
MCNames == {a, b}
MCSources == {pypi, legacy}
MCRequires == [n \in MCNames |-> [v \in {1, 2} |-> IF n = a /\ v = 1 THEN {b} ELSE {}]]

Both(main, dev) == [g \in Groups |-> IF g = "main" THEN main ELSE dev]
MCEdits == {Both({}, {}), Both({a}, {}), Both({a}, {b})}

Plain(kind) ==
  [kind |-> kind, names |-> {}, group |-> "main", groups |-> Groups, sync |-> FALSE,
   dry |-> FALSE, lockOnly |-> FALSE, anew |-> FALSE]

Installs == {Plain("install"), [Plain("install") EXCEPT !.sync = TRUE, !.groups = {"main"}]}
Locks == {Plain("lock"), [Plain("lock") EXCEPT !.anew = TRUE]}
UpdateCommands == {Plain("update"), [Plain("update") EXCEPT !.lockOnly = TRUE]}
Adds == {[Plain("add") EXCEPT !.names = {b}, !.group = "dev"],
         [Plain("add") EXCEPT !.names = {b}, !.dry = TRUE],
         [Plain("add") EXCEPT !.names = {b}, !.lockOnly = TRUE]}
Removes == {[Plain("remove") EXCEPT !.names = {b}]}

MCCommands == Installs \cup Locks \cup UpdateCommands \cup Adds \cup Removes
OneProcess == {"poetry"}
-----------------------------------------------------------------------------
C == INSTANCE Configuration
       WITH Commands <- ConfigCommands, Processes <- Shells, env <- environ, process <- configuring
configvars == <<environ, files, configuring, commands, faults, meant, torn>>

ASSUME OneOfConfiguration == C!ConfigurationAssumption

(* The two migrations of CONFIG_MIGRATIONS, and a repository.               *)
SystemGit == [old |-> "experimental.system-git-client", new |-> "system-git-client", values |-> [v \in Values |-> v]]
PreferActive == [old |-> "virtualenvs.prefer-active-python", new |-> "virtualenvs.use-poetry-python",
           values |-> [v \in Values |-> IF v = "true" THEN None ELSE "true"]]
MCMigrations == <<SystemGit, PreferActive>>
MCKeys == {SystemGit.old, SystemGit.new, PreferActive.old, PreferActive.new, "repositories.foo"}

MCDefaults == [k \in Keys |-> IF k \in {SystemGit.new, PreferActive.new} THEN "false" ELSE None]

NoKeys == [k \in Keys |-> None]
OldKeys == [k \in Keys |-> IF k \in {SystemGit.old, PreferActive.old} THEN "false" ELSE None]
BothKeys == [OldKeys EXCEPT ![PreferActive.old] = "true", ![PreferActive.new] = "true", ![SystemGit.new] = "true"]

StartWith(e, global, local) ==
  [env |-> e, files |-> [f \in {"config.toml", "poetry.toml"} |-> IF f = "config.toml" THEN global ELSE local]]
MCStarts ==
  {StartWith(NoKeys, OldKeys, NoKeys), StartWith(NoKeys, BothKeys, [OldKeys EXCEPT ![SystemGit.new] = "false"]),
   StartWith([k \in Keys |-> IF k = SystemGit.new THEN "true" ELSE None], BothKeys, BothKeys)}

Does(kind, key, value, f) == [kind |-> kind, key |-> key, value |-> value, file |-> f]
MCConfigCommands ==
  {Does("migrate", None, None, "config.toml"), Does("set", SystemGit.new, "true", "config.toml"),
   Does("set", "repositories.foo", "true", "poetry.toml"), Does("unset", PreferActive.new, None, "config.toml"),
   Does("unset", "repositories.foo", None, "config.toml"), Does("get", SystemGit.new, None, "config.toml")}
-----------------------------------------------------------------------------
S == INSTANCE Sources WITH Names <- SourceNames
sourcevars == <<project, index, stage, pool, locked, chosen, changes>>

ASSUME OneOfSources == S!SourcesAssumption

Link(kind, tags, build, hash) ==
  [kind |-> kind, tags |-> tags, build |-> build, hash |-> hash, content |-> 0, yanked |-> FALSE]
Yanked(links) == {[l EXCEPT !.yanked = TRUE] : l \in links}

Sdist == {Link("sdist", 0, 0, "sha256")}
Mixed == {Link("sdist", 0, 0, "sha256"), Link("wheel", 1, 0, "sha256"), Link("wheel", 2, 0, "sha256"), Link("wheel", 0, 0, "sha256"),
         Link("egg", 0, 0, "sha256")}
Outdated == {Link("sdist", 0, 0, "none"), Link("wheel", 1, 0, "md5"), Link("wheel", 2, 1, "md5")}

(* What each of two sources has: versions 1 and 2.                          *)
MCIndexes ==
  LET releases == {<<{}, {}>>, <<Sdist, {}>>, <<Mixed, Yanked(Sdist)>>, <<Sdist, Outdated>>}
      others == {<<{}, {}>>, <<Sdist, Sdist>>, <<Sdist, Yanked(Sdist)>>}
  IN {[n \in SourceNames |-> IF n = "pypi" THEN x ELSE IF n = "a" THEN y ELSE z] :
        x \in releases, y \in others, z \in {<<{}, {}>>, <<Sdist, Sdist>>}}

Source(n, p) == [name |-> n, priority |-> p]
Declarations ==
  {<< >>, <<Source("a", "primary")>>, <<Source("a", "supplemental"), Source("b", "explicit")>>,
   <<Source("a", "supplemental"), Source("pypi", "primary")>>, <<Source("b", "primary"), Source("a", "primary"), Source("pypi", "primary")>>,
   <<Source("a", "explicit"), Source("pypi", "explicit")>>, <<Source("pypi", "supplemental"), Source("a", "primary"), Source("b", "supplemental")>>}

Declared(declared, source, allowed, noBinary, onlyBinary) ==
  [declared |-> declared, source |-> source, allowed |-> allowed, noBinary |-> noBinary, onlyBinary |-> onlyBinary]
Policies == {"none", "all", "named"}

MCProjects ==
  {Declared(d, None, vs, "none", "none") : d \in Declarations, vs \in {{1, 2}, {2}}} \cup
  {Declared(<<Source("a", "explicit")>>, "a", {1, 2}, "none", "none"), Declared(<<Source("a", "primary"), Source("b", "primary")>>, "b", {1, 2}, "none", "none"),
   Declared(<<Source("a", "primary")>>, "b", {1, 2}, "none", "none")} \cup
  {Declared(<< >>, None, vs, no, only) : vs \in {{1, 2}, {1}}, no \in Policies, only \in Policies}

MCUploads == {Link("wheel", 1, 0, "sha256"), [Link("wheel", 2, 2, "md5") EXCEPT !.content = 1], Link("wheel", 1, 0, "none")}
-----------------------------------------------------------------------------
G == INSTANCE Git
       WITH Names <- Refs, MaxFaults <- MaxGitFaults, pc <- cloning, faults <- gitFaults, torn <- halfDone
gitvars == <<setting, request, cloning, target, calls, gitFaults, disturbed, halfDone>>

(* Two repositories of one name; c3 can be had from no reference.           *)
NoNames == [n \in Refs |-> None]
At(u, v) == [n \in Refs |-> IF n = "main" THEN u ELSE v]

UsualGit ==
  [heads |-> [u \in Urls |-> IF u = u1 THEN At(c1, c2) ELSE At(c2, None)],
   tags |-> [u \in Urls |-> IF u = u1 THEN NoNames ELSE At(None, c1)],
   default |-> "main", sent |-> [u \in Urls |-> {c1, c2}],
   pin |-> [c \in Commits |-> CASE c = c1 -> m1 [] c = c2 -> m2 [] c = c3 -> None],
   system |-> FALSE, private |-> FALSE]

(* Everything is called "other", and the main branch lacks a commit.        *)
Ambiguous ==
  [UsualGit EXCEPT !.tags = [u \in Urls |-> At(None, c1)],
                !.heads = [u \in Urls |-> IF u = u1 THEN At(c1, c2) ELSE At(c1, c1)],
                !.sent = [u \in Urls |-> IF u = u1 THEN {c1, c2} ELSE {c1}],
                !.pin = [c \in Commits |-> IF c = c1 THEN None ELSE m1]]

MCGitSettings ==
  {UsualGit, Ambiguous, [UsualGit EXCEPT !.system = TRUE], [UsualGit EXCEPT !.private = TRUE]}

ASSUME OneOfGit == G!GitAssumption
-----------------------------------------------------------------------------
F == INSTANCE FileCache
       WITH Processes <- Clients, Versions <- CacheVersions, Installed <- Installations,
            MaxFaults <- MaxCacheFaults, process <- client, faults <- cacheFaults
cachevars == <<versionOf, file, directory, client, requests, cacheFaults, killed>>

MCLength == "1" :> 1 @@ "2" :> 2
MCInstallations == {[p \in Clients |-> "2"], [p \in Clients |-> IF p = "c" THEN "1" ELSE "2"]}

ASSUME OneOfFileCache == F!FileCacheAssumption
-----------------------------------------------------------------------------
D == INSTANCE InstalledPackage
       WITH Locks <- Dependencies, lock <- dependency, pc <- installing, torn <- leftover
dependencyvars == <<dependency, dist, pth, src, system, installing, initial, todo, runs, leftover>>

ASSUME OneOfInstalledPackage == D!InstalledPackageAssumption

Locked(type, url, version) ==
  [version |-> version, type |-> type, url |-> url, reference |-> "none", commit |-> "none",
   develop |-> FALSE]
OfGit(reference, commit, version) ==
  [Locked("git", "repo", version) EXCEPT !.reference = reference, !.commit = commit]
Editable(package) == [package EXCEPT !.develop = TRUE]

(* The commits c1 and c2 of a branch have the same version.                 *)
MCDependencies ==
  {Locked("index", "none", 1), Locked("url", "link", 2), Editable(Locked("directory", "here", 1)),
   OfGit("main", "c1", 1), OfGit("main", "c2", 1), OfGit("c1", "c1", 1),
   Editable(OfGit("main", "c1", 1)), Editable(OfGit("main", "c2", 1))}
-----------------------------------------------------------------------------
E == INSTANCE EditableInstall
       WITH Projects <- Layouts, project <- layout, pth <- layoutPth, dist <- layoutDist, pc <- building
layoutvars ==
  <<layout, writable, layoutPth, layoutDist, scripts, building, added, left, last, lost, cut>>

ASSUME OneOfEditableInstall == E!EditableInstallAssumption

Script(name) == [name |-> name, isValid |-> TRUE]
Broken(name) == [name |-> name, isValid |-> FALSE]
Layout(version, place, its) == [version |-> version, layout |-> place, scripts |-> its]

MCLayouts ==
  {Layout(1, "flat", <<Script("foo"), Script("bar")>>), Layout(2, "src", <<Script("foo")>>),
   Layout(2, "flat", <<Script("foo"), Broken("bar")>>), Layout(2, None, << >>)}

PureAndUser == <<"purelib", "usersite">>
Bins == <<"bin", "userbin">>
EitherOrder == {<<"purelib", "usersite">>, <<"usersite", "purelib">>}
MCPermissions ==
  {{"purelib", "bin", "usersite", "userbin"}, {"usersite", "userbin"},
   {"purelib", "usersite", "userbin"}}
-----------------------------------------------------------------------------
AStart == CHOOSE s \in Starts : TRUE

MCInit ==
  /\ subject \in Subjects
  /\ subject # "project" =>
       /\ pyproject = CHOOSE e \in Edits : TRUE
       /\ lock = NoLock
       /\ env = CHOOSE e \in Beginnings : TRUE
  /\ subject # "config" =>
       environ = AStart.env /\ files = AStart.files
  /\ subject # "sources" =>
       project = (CHOOSE p \in Projects : TRUE) /\ index = CHOOSE i \in Indexes : TRUE
  /\ subject # "git" => setting = CHOOSE s \in Settings : TRUE
  /\ subject # "cache" => file = None /\ versionOf = CHOOSE v \in Installations : TRUE
  /\ subject # "dependency" => dependency = (CHOOSE d \in Dependencies : TRUE) /\ system = 0
  /\ subject # "editable" =>
       layout = (CHOOSE l \in Layouts : TRUE) /\ writable = CHOOSE p \in Permissions : TRUE
  /\ Init /\ C!Init /\ S!Init /\ G!Init /\ F!Init /\ D!Init /\ E!Init

allvars ==
  <<subject, vars, configvars, sourcevars, gitvars, cachevars, dependencyvars, layoutvars>>

MCNext ==
  \/ subject = "project" /\ Next
     /\ UNCHANGED <<subject, configvars, sourcevars, gitvars, cachevars, dependencyvars, layoutvars>>
  \/ subject = "config" /\ C!Next
     /\ UNCHANGED <<subject, vars, sourcevars, gitvars, cachevars, dependencyvars, layoutvars>>
  \/ subject = "sources" /\ S!Next
     /\ UNCHANGED <<subject, vars, configvars, gitvars, cachevars, dependencyvars, layoutvars>>
  \/ subject = "git" /\ G!Next
     /\ UNCHANGED <<subject, vars, configvars, sourcevars, cachevars, dependencyvars, layoutvars>>
  \/ subject = "cache" /\ F!Next
     /\ UNCHANGED <<subject, vars, configvars, sourcevars, gitvars, dependencyvars, layoutvars>>
  \/ subject = "dependency" /\ D!Next
     /\ UNCHANGED <<subject, vars, configvars, sourcevars, gitvars, cachevars, layoutvars>>
  \/ subject = "editable" /\ E!Next
     /\ UNCHANGED <<subject, vars, configvars, sourcevars, gitvars, cachevars, dependencyvars>>

MCSpec == MCInit /\ [][MCNext]_allvars
-----------------------------------------------------------------------------
(* What is configured is kept: see Configuration.                          *)
ConfigIsKept == subject = "config" => C!ConfigIsKept

(* The right sources are asked, and the right file is chosen: see Sources.  *)
SourcesAreRight == subject = "sources" => S!SourcesAreRight

(* "yanked files are always ignored": see Sources.                         *)
YankedIsIgnored == subject = "sources" => S!YankedIsIgnored

(* A clone has what was asked for: see Git.                                *)
CloneIsAsAsked == subject = "git" => G!CloneIsAsAsked

(* Entries of the file cache are complete: see FileCache.                   *)
CacheIsSound == subject = "cache" => F!CacheIsSound

(* What is installed is found to be so, and nothing else: a dependency is    *)
(* what is locked, see InstalledPackage, and the project is as it is and its *)
(* files have an owner, see EditableInstall.                                *)
InstalledIsRight ==
  /\ subject = "dependency" => D!RoundTripIsTrue
  /\ subject = "editable" => E!EditableIsOwned
===============================================================================
