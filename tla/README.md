# Poetry in TLA+

A verification project for Poetry: TLA+ modules of the parts that decide
something (the version solver, the operations on an environment, the threads
that execute them, the sources and servers they talk to, and the files and
caches that several commands share), TLC
runs over small instances of them, and proofs that TLAPS checks. Paths below are
relative to `src/src/poetry/` unless they begin with `src/`.

- [1. The system](#1-the-system)
- [2. Modules](#2-modules)
- [3. State and actions, module by module](#3-state-and-actions-module-by-module)
- [4. Runs, bounds and fairness](#4-runs-bounds-and-fairness)
- [5. Proofs](#5-proofs)
- [6. Where a property has a condition](#6-where-a-property-has-a-condition)
- [7. What is left out](#7-what-is-left-out)
- [8. Plan](#8-plan)
- [9. Running it](#9-running-it)

## 1. The system

A command reads `pyproject.toml`, solves for a set of packages or takes it from
`poetry.lock`, calculates operations from what is installed, executes them in a
pool of threads, and writes the files back. Apart from the threads everything is
sequential, but several commands may work on one project and share its files,
its environment and the caches, and nothing locks these between processes.

    command --> Installer --> Solver --> VersionSolver --> Provider --> RepositoryPool
       |            |            |            |               |              |
       |            |            |            |               +--> git       +--> HTTPRepository --> LazyWheel
       |            |            |            +--> DependencyCache                +--> FileCache, Authenticator
       |            |            +--> overrides, depth first search, markers
       |            +--> Locker (poetry.lock)
       |            +--> Transaction --> Executor --> Chooser, ArtifactCache, Chef, WheelInstaller, git
       +--> EnvManager (.venv, virtualenvs.path, envs.toml)
       +--> ProjectPluginCache (.poetry/plugins)
       +--> Publisher, Uploader --> Authenticator --> PasswordManager (keyring, auth.toml)
       +--> Config (config.toml, poetry.toml)

| Component | State it keeps | Operations | What is hard | What makes it correct |
|---|---|---|---|---|
| version solver (`mixology/`) | incompatibilities, the contradicted ones by level, assignments, decisions, one term a package | propagate, derive, resolve a conflict, backjump, choose a version | state that a backjump must restore, resolution over levels, any order of names, an unbounded search | answers meet the requirements; failure only if there is no answer; an end |
| dependency cache (`mixology/version_solver.py`) | a stack of filtered lists per package, the levels that brought them, an `lru_cache` | search, forget a level | stale lists after a backjump; names with extras share lists | the solver takes what it would take without a cache |
| provider (`puzzle/provider.py`) | deferred and explicit sources, overrides, locked packages | search, complete a package, incompatibilities of a version | duplicate dependencies by marker, overrides | every environment has exactly one of the duplicates |
| puzzle solver (`puzzle/solver.py`) | the solution, depths, groups, markers, the overrides that are left to solve | depth first search, markers, compatibility mode | cycles: markers used before they are complete; solutions that are merged | a package is installed exactly where it is needed |
| transaction (`puzzle/transaction.py`) | none | calculate operations | two sets of removals, versions for different markers, sources that are not remembered | executed in any order they lead to what is wanted |
| installer (`installation/installer.py`) | flags, the lock data read | install, update, lock | failed operations, dry runs | files are written only when they are right |
| locker (`packages/locker.py`) | `poetry.lock`, its cached contents | compare, read, write | crash while writing, stale contents, hashes | a lock file found fresh answers the project |
| add, remove, update, lock, install, sync | `pyproject.toml` | as named | two files, one after the other; two commands at once | files fit together after every failure |
| executor (`installation/executor.py`) | pool, queue, counters, `_shutdown`, the environment | execute, cancel, count, report | threads, Ctrl-C at any moment, failures in a group | order, separation, exact counters, an end |
| artifact cache and downloader (`utils/cache.py`, `utils/helpers.py`) | files, a lock per archive | look for, download, resume, remove, build, check | two threads, two processes, broken connections, careless servers | only whole and locked archives are installed |
| atomic cached property (`utils/threading.py`) | a semaphore, a lock per instance, the value | get, invalidate | double-checked locking, errors in the function | one lock, one computation |
| environment manager (`utils/env/env_manager.py`) | environments in two places, `envs.toml` | get, create, activate, deactivate, remove | settings and interpreters that change in between | isolation, `env use` is obeyed, healthy environments stay |
| project plugins (`plugins/plugin_manager.py`) | `.poetry/plugins`, `config.toml`, `.gitignore` | check, remove, install, write | crash anywhere, changes of Poetry's own environment | plugins are there, nothing is broken |
| repository pool (`repositories/repository_pool.py`) | priorities | find, look up | explicit and supplemental sources, yanked releases | a package comes from where it may come from |
| package repositories (`repositories/`) | what is known of a domain and of releases | find the requirements of a release | many ways to them, each of which may fail | the requirements are those of the files |
| file cache (`utils/cache.py`) | files with an expiry | get, put, remember, forget, flush | several processes without a lock | an answer is complete and of the version that asks |
| authenticator (`utils/authenticator.py`) | sessions, credentials per URL | request, retry | repositories that share a host or a prefix, retries | bounded retries, the right credentials |
| password manager (`utils/password_manager.py`) | keyring, `auth.toml` | get, set, delete | two places, a keyring that comes and goes | what was set is used, and with nobody else's name |
| configuration (`config/`) | `config.toml`, `poetry.toml` | get, set, unset, migrate | read, change and write without a lock, a write that fails | no setting is lost or invented |
| chooser (`installation/chooser.py`) | none | choose a file | hashes and policies, an index that goes on | the file is allowed, locked, and the best |
| chef, wheel installer (`installation/`) | none | build, unpack | a failure half way | the environment has all of a package or is told so |
| installed repository (`repositories/installed_repository.py`) | what it found | load | four places that say where a package is from, some of them left over | what is found is what is installed |
| editable builder (`masonry/builders/editable.py`, `utils/env/site_packages.py`) | `.pth`, scripts, `.dist-info` | build | sites that change their permissions, a build that stops half way | one distribution, which owns its files |
| lazy wheel (`inspection/lazy_wheel.py`) | ranges of a file | read, fetch | servers that ignore or misread ranges | what is read is what the file has |
| git backend (`vcs/git/`) | a clone | clone, fetch, check out | a clone that stopped half way | the revision that was asked for |
| publisher, uploader (`publishing/`) | a session, `dist/` | build, upload, register | a part of the files was uploaded, an answer is lost | a second publish completes the first; done means complete |

`PROJECT.json` lists the components with their sources, the ones that are not
modelled too, and the hazards, each with its line and the properties that would
notice it going wrong.

## 2. Modules

| Module | Stands for | Uses |
|---|---|---|
| `Registry` | what the solver asks the provider: versions, requirements, unusable and locked versions; what an answer is | |
| `Resolution` | **abstract**: a solver answers once, and gives up only if there is no answer | `Registry` |
| `VersionSolver` | the PubGrub search | `Registry`; implements `Resolution` |
| `Term` | terms: relations, intersection, sources, transitive markers | |
| `PackageTerm` | `PartialSolution` for one package | `Term` |
| `DependencyCache` | the cache in front of the provider | |
| `Overrides` | the provider's duplicate dependencies, overrides, and compatibility mode | |
| `SolvedMarkers` | depth first search, groups and markers of a solution | |
| `Transaction` | operators: the operations from an environment to a result | |
| `EnvironmentUpdate` | operations calculated, executed in any order, calculated again | `Transaction` |
| `Project` | the commands over `pyproject.toml`, `poetry.lock` and the environment | `Transaction` |
| `Operations` | operations, their priorities, what may overlap | |
| `InstallPlan` | **abstract**: what `execute()` promises of a list of operations | `Operations` |
| `Executor` | the pool of threads | `Operations`; implements `InstallPlan` |
| `ArtifactCache` | one archive: cache, lock, download, build, check, install | |
| `AtomicCachedProperty` | `__get__` of the property | |
| `Environments` | the environment manager for one project | |
| `PluginCache` | the plugins of a project | |
| `Sources` | the sources of a project, the pool, and the chooser | |
| `LazyWheel` | the metadata of a wheel by range requests | |
| `HTTPRepository` | the requirements of a release, by whichever way | `LazyWheel` |
| `FileCache` | one entry of the file cache, and processes of several versions | |
| `Credentials` | the password manager, and what the authenticator sends | |
| `Publishing` | `poetry publish` | `Credentials` |
| `Git` | one directory for the clones of all repositories of a name | |
| `Configuration` | `poetry config` over `config.toml` and `poetry.toml` | |
| `InstalledPackage` | a dependency: locked, installed, found again, compared | |
| `EditableInstall` | the project itself, built in editable mode again and again | |

`X_proofs` holds the theorems about `X`; those about the components of
`MCEnvironment`, `MCServers` and `MCThreads` are in `Environment_proofs`,
`Servers_proofs` and `Threads_proofs`, those about the components of `MCCommands` in
`Commands_proofs` and `Packages_proofs`, and that about `DependencyCache` is in `PackageTerm_proofs`. For TLC there are two modules that
instantiate one component, `MCVersionSolver` and `MCExecutor`, and six that put
components of one kind side by side:

| Module | Components |
|---|---|
| `MCOnePackage` | `PackageTerm`, `DependencyCache` |
| `MCMarkers` | `Overrides`, `SolvedMarkers` |
| `MCServers` | `Publishing` with `Credentials`, `HTTPRepository` with `LazyWheel` |
| `MCEnvironment` | `EnvironmentUpdate`, `Environments`, `PluginCache` |
| `MCCommands` | `Project`, `Configuration`, `Sources`, `Git`, `FileCache`, `InstalledPackage`, `EditableInstall` |
| `MCThreads` | `ArtifactCache`, `AtomicCachedProperty`, with one configuration each |

In these a variable `subject` says which of the components a behaviour is about;
the others stay where they start. Their behaviours are the union of those of the
components and nothing interleaves, so that a run costs the sum of the state
spaces and not the product, and a property of one says `subject = ... =>`.

`Transaction` is shared by `EnvironmentUpdate`, which asks whether the
operations are right by themselves, and by `Project`, which asks whether the
commands use them rightly. `Term` is the reason why `VersionSolver` may take a
term for a set of choices: `PackageTerm` shows that the one term kept for a
package means the intersection of all that was assigned, that what `relation()`
says follows from it, and that `satisfier()` finds the first assignment.
`Overrides` takes the search for granted, which `VersionSolver` is about, and
asks what is searched for; `SolvedMarkers` begins where a search has ended.
`HTTPRepository` is what `FileCache` keeps the answers of.

An operator whose name begins with `Bug` is a mutated form of the definition
behind it, the way a plausible mistake in that code would change it. No behaviour
uses these; each property of a run, and nearly every part of those that are
conjunctions, is violated when the definition is replaced by its `Bug`, which
shows that the property speaks about that code.

## 3. State and actions, module by module

**`VersionSolver`.** `facts` is `_incompatibilities` in the order of their
addition, so that a position stands for the identity of an object;
`contradicted` and `contradictedAt` are the two dictionaries of contradicted
incompatibilities, `assignments`, `decisions` and `solution` the partial
solution, `changed`, `package`, `cursor` the locals of `_propagate()`, and
`conflict` that of `_resolve_conflict()`. A term is the set of choices (versions,
or `Absent`) under which it is true. An action is one pass through the body of a
loop: `TakeChanged`, `Contradict`, `Skip`, `Derive`, `MeetConflict`,
`FinishPackage`, `FinishPropagate` in `_propagate()`, `Resolve`, `Backjump` and
`Fail` in `_resolve_conflict()`, `ChooseVersion`, `FindNoVersion` and `Succeed`.
The registry is a variable that never changes, so that one run covers many.

**`Term`, `PackageTerm`.** A term has a sign, a set of versions, a source and a
marker (the set of environments in which it holds). `PackageTerm` keeps the
assignments about one package, `positive` and `negative` (the two dictionaries),
the level, and how many assignments `backtrack()` has registered again. Actions:
`Derive`, `Decide`, `DecideOther` (a decision about some other package),
`Backtrack`, `RegisterAgain` (one turn of its loop). The assertion in
`_register()` is the flag `failed`.

**`DependencyCache`.** `stack` is `_cache[key]`, `added` is
`_cached_dependencies_by_level` as the set of levels at which the list of a name was
put (`Additions`), of which `clear_level()` leaves those below (`Kept`); `memo` is the
`lru_cache`; `terms` is what the partial solution says of each name at each level. Actions: `Search`, `Evict` (the
`lru_cache` forgets), `Derive` (the term gets narrower), `Decide`, `Backtrack`
(with `clear_level()` for each level that is dropped).

**`SolvedMarkers`.** `Search` is the whole depth first search with the
aggregation of nodes; `CalculateMarkers` handles one package, `NextPass` begins
the iteration again when markers were incomplete. A marker is a set of
environments; union and intersection act on each environment separately, so one
environment shows what any number shows.

**`Transaction`, `EnvironmentUpdate`.** `CalculateOperations` is
`Transaction.calculate_operations()` with its flags; `Executed` is what an
operation does to the environment, where a package from an index other than PyPI
is remembered as one from PyPI (`AsInstalled`). `EnvironmentUpdate` takes
operations from `todo` in any order (`Execute`) and may at any moment calculate
again (`Again`, `OnceMore`).

**`Project`.** Files are `pyproject` and `lock` (each may be unreadable, that is
cut short by a crash), the environment is `env`, and a process has its memory:
the package it was created with, the hash of what it read, the lock data it
read, the solution. Its steps are those between which another process, an editor
or a crash may come: `Start`, `Read`, `Check` (refusals of `install` and `lock`),
`Solve` (with `OperationsOf`), `Execute` (one operation, which may fail),
`Finish`, `KeepLock` or `OpenLock` and `WriteLock`, `OpenProject` and
`WriteProject`. `Crash` and `Edit` come from outside.

**`Operations`, `Executor`.** The main thread walks through the operations
(`SubmitPip`, `WaitForPip`, `StartGroup`, `Dispatch`, `EndDispatch`, `SubmitGit`,
`StartWait`, `Wait`, `NextSerial`, `EndGroup`, `CancelFutures`, `Drained`), a
thread takes a task (`Take`) and goes on with the rest of a git list (`Proceed`),
and an operation goes through `Begin`, `Prepare`, `Remove`, `InstallWheel`,
`SaveUrlReference`, `ReadCount` and `WriteCount`, or `Raise` and `Report`.
`InterruptSubprocess`, `InterruptGroup`, `InterruptSerial` and
`InterruptEscapes` are the places where Ctrl-C arrives.

**`ArtifactCache`.** `archive` is the file in the cache, as the list of its
chunks; `locks` is the entry of `_archive_locks` in each process and `holder` who
is under a lock. A thread goes through `Ask`, `FindLock` and `StoreLock` (the two
halves of the look-up in a `defaultdict`), `TakeLock`, `Check`, `Get`, `Receive`,
`Cut`, `Finish`, `Clean`, `Choose`, `Build`, `Validate` and `Install`. `setting`
has the circumstances: who belongs to which process, whether the server honours
`Range` and sends a length, whether a hash is locked.

**`AtomicCachedProperty`.** `Access` (the first look), `TakeSemaphore`,
`MakeLock`, `GiveSemaphore`, `FindLock`, `TakeLock`, `FindValue`, `Compute`,
`Computed`, `RaiseError`, `GiveLock`, and `Invalidate` from outside. A lock is
known by the thread that made it, so that two locks of one instance would be two.

**`Environments`.** The environments in `virtualenvs.path` (one for each minor
version), `.venv`, the section in `envs.toml`, the interpreters, the shell and
`virtualenvs.in-project`. Actions are commands: `Install` (every command that
works in an environment), `Use`, `UseSystem`, `Remove`, `RemoveAll`,
`RemoveDot`; `Outside` is what users do in between. `last` has the last command
with its question and answer.

**`PluginCache`.** `.poetry/plugins` as `dir`, `cache` and `config`,
`.poetry/.gitignore` as `ignored`, Poetry's own environment as `env`. Steps of an
install: `Start`, `Check`, `RemoveEntry` (one entry that `rmtree()` removes),
`RemoveDirectory`, `Scan` (what is installed, what is missing, what is pinned,
and a solution), `EnsureDirectory`, `Ignore`, `Install` (one package),
`OpenConfig`, `FillConfig`. `Fail` may come at any step and is failure and crash.
`meddled` remembers that Poetry's environment changed without a new version of
Poetry (`SelfCommand`), which `config.toml` does not record. Sections change along
`Edits`, which also says which way there is no going back.

**`Overrides`.** A marker is the set of environments (a Python, a platform, extras
of the root project) in which it holds. `decided` has the packages that the
search has decided on, with what `complete_package()` makes of their
dependencies; `override` is what is solved with, and `frames` has the calls of
`_solve_in_compatibility_mode()`, each with the overrides that are left and the
solutions so far. `Decide` completes a package: filtered by marker, extras,
environment and Python (`Candidates`), replaced by an override
(`WithOverrides`), merged by constraint, resolved where markers overlap, and
split if more than one is left (`Treatments`, `Split`, which is
`OverrideNeededError`). `DecideRoot` does it for the project, `Fail` is a failure
of the search, `Finish` a solution, `Merge` is `merge_override_packages()`.

**`Sources`.** `stage` goes from `declared` through `pooled` (`CreatePool`) and
`locked` (`Lock`, or `NotFound`) to `installed` (`ChooseFor`) or `failed`
(`NothingToChoose`); in between the indexes go on (`Yank`, `Delete`, `Replace`,
`Upload`). `locked` has the release with the files it had, the source in which it
was found and the one from which it was locked, which the code looks up in two
steps. A release that is found is a pair of a place in the pool and a version
(`Found`); the order of the pool is by rank and then as declared (`IsBefore`), and the
one that the solver takes is the newest, then the first (`IsFirst`).

**`LazyWheel`, `HTTPRepository`.** A byte of a wheel is its place, so that
`content[b] = b` says that it is the right one. `left` and `right` are the two
lists of `MergeIntervals`. `TryInitialChunkRequest` has the answers of servers to
a request for a tail (`ServedTail`, `Unsatisfiable`, `WholeWheel`, `FromStart`,
`Unnamed`, `Refused`), then come `ContentLengthFromHead`, `FetchEnd`, `Read` (what
`ZipFile` reads), `Parse` and `Broken`. `HTTPRepository` goes through the releases
that it is asked for: `TakeJson`, `GetInfoFromLinks`, `GetInfoFromMetadata`,
`TryLazily`, `ReadLazily`, `Succeeded`, `Unsupported`, `Abort` (a download is
given up because the server turns out to support ranges), `Download`, `Done`.
`supports` is what is known of the domain and `noTails` that it has no negative
ranges, which stay from one release to the next.

**`Credentials`, `Publishing`.** `file` is `auth.toml`, `ring` the keyring and
`usable` whether it is there; `said` is what the user has said last, to which
what is used is compared. Commands: `SetHttpPassword` and `DeleteHttpPassword`,
whose second halves `WriteAuth` may be lost (`AuthIsLost`), `SetPypiToken`,
`DeletePypiToken`; `Switch` is a keyring that comes or goes. A session goes through
`Request`, `TryAgain`, `GiveUp` or `Answer` and keeps `cache`. `Publish` begins a
`poetry publish`, which builds (`Decline`, `Build`), lists `dist/` (`List`) and
handles one file after the other (`Upload`, `Refused`, `Register`, `DryRun`,
`NoFile`), while a request may be lost before or after the server has it
(`RequestIsLost`), the process dies (`Crash`) and others change `dist/`
(`DistIsChanged`).

**`Git`.** `target` is the directory: the origin in its configuration, HEAD, the
objects, the working tree and the clone of the submodule. A call looks at what is
there (`Look`), chooses a client (`UseSystemGit`, or dulwich: `InitRepo`,
`AddRemote`, `Fetch`, `Unauthorized`, `SetHead`, `ImportRefs`, `Reset`,
`CloneSubmodules`, `ResetSubmodule`; the system's: `Remove`, `SystemClone`,
`Checkout`). Any of these may be cut short by an error (`RequestFails`,
`SystemFails`) or by the end of the process (`Crash`), in the middle of it too:
`Left` is what may then be in the directory, for instance HEAD and the objects
without some of the files when it is being removed (`Remains`), cloned
(`PartsOfClone`) or checked out; `torn` remembers which parts were not whole
(`NotWhole`).

**`Configuration`.** A process reads `config.toml` and `poetry.toml`
(`LoadGlobal`, `LoadLocal`) and changes one of them as
`FileConfigSource.secure()` does: read (`ReadInitial`), read again and changed
(`ReadAgain`), emptied (`Empty`), written (`Write`), or restored from the first
reading when that fails (`WriteFails`, `Restore`). `Check`, `Migrate` and
`MigrateEnds` are `--migrate`, two changes for each migration that is `pending`, in
their order (`NextOf`). What a file is when all are done has a closed form
(`Migrated`), since no two migrations are about one key
(`ConfigurationAssumption`). `meant` is what the commands that are done should have
made of the files.

**`FileCache`.** The file is a sequence of blocks, so that two writers may leave
parts of two entries. `get_release_info()` goes through `LookFor`, `Read`,
`LookAgain` and `Unlink` (a corrupt entry), `Fetch`, `MakeDirectory`, `Open` and
`WriteBlock`; `cache clear` through the first four, or `CountEntries`, `Scan`,
`EmptyDirectory` and `RemoveDirectory`. `Die` ends a process anywhere.

**`InstalledPackage`.** `dist` has for each version the `.dist-info` directory, as
far as it is written, and the package that its files come from, which the code
does not know; `pth` and `src` are the `.pth` file and the clone of an editable or
git package. `Found` is what `InstalledRepository.load()` makes of these, `InSync`
what the transaction thinks of it. An install is skipped (`Skip`) or goes through
`Begin`, `Prepare` (a clone, a build, a download), for an update `Clean` and
`PipUninstall`, then `Unpack`, `Describe`, `Record`, and for each distribution, in
whatever order the directory lists them (`Listings`), `WriteUrl` and `AppendUrl`.
What a lock file may say of a package is `IsLockable`. `Relock` changes the lock file in between, and
`PrepareFails` and `Crash` end an install early.

**`EditableInstall`.** `EditableBuilder.build()` step by step: `Start`, or
`BuildScriptFails`; `RemoveFiles` and `RemoveDirectory` for each distribution in a
writable site, in the order of the sites, or `RemoveStops`; `RemovePth`, `WritePth`,
`AddScript` for each script or `BadScript`, `Mkdir`, `WriteMetadata`,
`WriteDirectUrl`, `WriteRecord`. `FirstOf` is what "the first candidate that lets it"
means for sites and for script directories, and `OnDisk` has the `.pth` files and
scripts that there are. `Again` lets the
project and the permissions change before the next build. `lost` has the files of
builds that never wrote a `RECORD`.

## 4. Runs, bounds and fairness

The bounds of a run are those of each subject.

| Run, subject | Question | Bounds | Why they are enough |
|---|---|---|---|
| `MCVersionSolver` | Are terms, levels and contradictions right after every step, are all facts true, are answer and failure right, does the search end, does it implement `Resolution`? | three packages and the root; two versions, three of one package | families of registries: requirements in both directions, missing, unusable and locked versions, a chain with a shortcut, and a diamond. The first needs propagation round a cycle, the second `FindNoVersion`, the third backjumps over more than one level, the fourth partial satisfiers; the mutants for each are found |
| `MCOnePackage`, term | Does the kept term mean the assignments, does `_register()` never fail, are relations and satisfiers right? | three versions, an index and one git repository, three assignments, two levels | every pair of terms in every relation, and an assignment behind a backtrack |
| `MCOnePackage`, versions | Is the answer of the cache that of the provider? | four versions with two prereleases, two names, two levels, three lists | a list made at each level, forgotten in either order. Any number of versions, names and levels: the theorem `CacheAnswersAreRight` |
| `MCMarkers`, overrides | Does every environment get exactly what it needs, and are overrides a partition? | two Pythons, two platforms, one extra; three packages in two versions; some seventy problems | duplicates that overlap, are disjoint, conflict or leave a gap, at the root, below it and one inside the other; sources, extras of packages and of the project, and a given environment. The order of decisions and of overrides is any |
| `MCMarkers`, markers | Are groups and markers those that are needed, and does the iteration end? | two packages with cycles, three without; two groups; one environment | with two packages every cycle through one node and both orders of dependencies; three packages have a diamond, where depth decides |
| `MCServers`, publishing | What was set is used, requests get their own credentials; a command that says so has published all, and each ends | two users, two passwords, two config commands (one if the keyring is locked at first); two versions of the project, two `publish`, one fault, six servers | a name and a password in each of the places; an upload that stops after the first of two files, and a second command after it |
| `MCServers`, releases | Is the answer that of the files, whatever the server does? | wheels of up to six units with an initial chunk of three (those of six only on servers that honour ranges), every kind of server; one release with two files of any kind, and three releases one after the other | wheels shorter than, as long as and twice as long as a chunk, METADATA inside, outside and across; a release meets what the ones before have taught. Any length and any chunk: the theorem `MetadataAreRight` |
| `MCEnvironment`, packages | Do operations in any order, stopped anywhere and calculated again, lead to what is wanted? | package `a` in every variety (version, source, directory, optional, applying or not), `pip`, the root project | operations of different names do not meet (that is a lemma of the proof), one package in every variety is enough, `pip` and the root are the special names |
| `MCEnvironment`, environment | Is the environment isolated, supported, the chosen one? | two patches of one minor version and one of another | the patches make a section outdated, the second minor version gives a second environment |
| `MCEnvironment`, plugins | Are the plugins there when the cache is fresh, and is nothing broken? | plugins `a`, `z`, a library and Poetry; two versions | the library is before and the plugin `z` after Poetry in the order of names, and the library is shared. Any other packages: the theorem `PluginsAreInstalled` |
| `MCCommands`, project | Do lock file, project and environment fit together whatever fails? | one process, packages `a` (1 requires `b`, 2 does not) and `b`, two versions, three contents of `pyproject.toml` | each command, each with dry run, lock only or sync where it has it; crashes leave files that later commands meet. Several processes are covered by the theorem `FreshLockIsTrue` |
| `MCCommands`, config | Are settings kept, whoever fails? | two processes, two commands, one failure or crash; both migrations and a repository | two commands meet in every pair of steps; a migration removes one key and adds another. More of each: the theorem `SettingsAreKept` |
| `MCCommands`, sources | Are the right sources asked, and is the right file chosen? | PyPI and two sources in seven declarations, two versions, two changes of the index | every priority before and after every other one; a yanked, an old and a new file of a release; a deletion followed by an upload. More sources, files and changes: the theorem `TheRightFileIsChosen` |
| `MCCommands`, git | Does a clone have what was asked for? | two repositories of one name, three commits, a submodule, three calls, two faults | a call that fails or dies at any step or in the middle of one, one for the other repository, and one for the first again |
| `MCCommands`, cache | Is what is answered whole, and of the version that asks? | three processes of two versions, entries of one and of two blocks, three requests, one fault | two writers of one version or of two and someone who removes; a longer entry over a shorter one and the other way round |
| `MCCommands`, dependency | Is what was installed found as such, and what was not installed anew? | one package in two versions, eight locks of every type, two commits of one version, two installs after each change | every change from one type to another and back, through each failure and crash; the second install meets what the first has left. Any locks: the theorem `WhatIsInstalledIsRight` |
| `MCCommands`, editable | Is the project installed as it is, and do its files have an owner? | two sites, two script directories, three sets of permissions, four contents of `pyproject.toml` | a site that cannot be written with an older distribution before or after the one that can; a script that goes and one that is bad. Any sites and projects: the same theorem |
| `MCThreads_archive` | Is nothing but the archive cached and installed, is it downloaded once, is everyone answered? | two threads, two chunks, one retry, two broken connections each | two threads meet in every pair of steps; two chunks give an empty, a partial and a whole file; two cuts exceed the retries |
| `MCExecutor` | Order, separation, counters, environment, the promise of `InstallPlan` and an end, with failures and Ctrl-C | two workers, up to five operations, two interrupts, five plans | more operations than threads; every kind of operation is in a group with every kind it must not meet; a second Ctrl-C while the pool is drained |
| `MCThreads_property` | One lock, one computation, everyone is answered | three threads, one instance | a thread under the semaphore, one under the lock and one that waits; two instances share only the semaphore, and the theorems hold for any number |
| `MCOnePackage_forbidden` | (violation) Is a prerelease that a dependency forbids never offered to it? | as above | |
| `MCMarkers_shared` | (violation) Is every environment served when two packages share a dependency? | one problem with three packages | |
| `MCCommands_yanked` | (violation) Is what is locked not yanked? | as above | |

What the properties say, a conjunction with its parts:

| Property | Parts | In short |
|---|---|---|
| `Soundness` | `TypeOK`, `FactsHold`, `SolutionIsDerived`, `CausesAreFacts`, `RootIsChosen`, `ConflictHolds` | a learned incompatibility rules out no solution, through any number of resolution steps |
| `BacktrackingIsClean` | `ContradictedIsFalse`, `LevelsAreOrdered`, `NothingStray` | a backjump forgets what the dropped levels brought and nothing else |
| `FailureIsJustified` | | there is no solution when the search gives up |
| `RefinesResolution` | | the search ends, no assertion of it fails, and what it returns is a solution |
| `TermIsSound` | `TypeOK`, no failed assertion, `TermIsKept`, some choice is left | one term stands for all assignments, through `backtrack()` |
| `RelationIsKnown` | | what the solver reads off that term is right |
| `AssignmentsAreTraced` | `SatisfierIsFirst`, `MarkersAreMerged` | conflict resolution blames the first assignment that satisfies; transitive markers add up |
| `CacheIsTransparent` | `AnswersAreAllowed` (`TypeOK`, `NoneMeansNone`, `OnlyAllowed`), `NothingIsLost`, `FirstIsSame` | the solver takes what it would take without the cache |
| `OverridesArePartition` | | the overrides of a split are for different environments, and for all of them together |
| `EveryEnvironmentIsServed` | | in the end every environment has what it needs, each in one version that fits, and nothing else |
| `MarkersAreRight` | `TypeOK`, `GroupsArePassedOn`, `OnlyWhereNeeded`, `WhereverNeeded` | no marker says too much, at any moment, nor too little in the end |
| `IterationEnds` | | groups and markers are complete after finitely many passes |
| `CredentialsAreRight` | `CredentialsTypeOK`, `SetIsUsed`, `NoMixture`, `RequestIsOwn`, `ApartIsSpecific` | what was set is used, no password with another's name, no repository's credentials for another one |
| `PublishIsComplete` | `TypeOK`, `SourceFirst`, `OneVersion`, `DoneIsComplete`, `FailsWithReason` | success means that all files are there, whatever earlier commands have left |
| `PublishEnds` | | every `publish` ends |
| `MetadataIsRight` | `TypeOK`, `BytesAreRight`, `NothingIsSentTwice`, `AnswersAreRight` | bytes and requirements are those of the files |
| `ReleasesAreAnswered` | | every release is answered or found impossible |
| `EnvIsAsLocked` | `WantedIsInstalled`, `SyncIsExact` | the environment in the end |
| `OthersAreKept` | `NotRemoved`, `ForeignIsKept` | what is not the project's stays, at every step |
| `OperationsAreSettled` | `TypeOK`, `OneOperationEach`, `NothingLeftToDo` | operations of a round may be executed side by side, and a second round has none |
| `EnvIsRight` | `TypeOK`, `AlwaysIsolated`, `InstallIsSupported`, `UseIsObeyed`, `RemovedIsDeactivated` | the environment of a command is one that it may have |
| `EnvironmentsLast` | `HealthyIsKept`, `ChoiceLasts` | across commands: nothing healthy is emptied, the choice stays |
| `PluginsAreRight` | `FreshIsComplete`, `NothingIsBroken`, `PluginsWhenDone`, `NothingToCommit` | a plugin cache found fresh is complete and hides nothing that is needed, and so is what an install leaves |
| `FreshLockAnswers` | | a lock file that is found fresh is a solution, after any crash |
| `ProjectIsLast` | | `pyproject.toml` is touched when the lock file is right for it |
| `LockedWhenDone` | | after add, remove, update and lock the lock file is fresh and a solution |
| `OutcomeIsTrue` | `TypeOK`, `FailureChangesNoFile`, `InstalledWhenDone`, `InstallAnswersProject` | what failure, dry run and success leave |
| `ConfigIsKept` | `TypeOK`, `SettingsLast`, `NothingInvented`, `LocalGoesFirst` | a command makes its change or none; an answer is that of the nearest place |
| `SourcesAreRight` | `TypeOK`, `SourcesAreAsked`, `ChosenIsLocked`, `ChoiceIsBest` | priorities are obeyed, the file is a locked one, and none better was passed over |
| `CloneIsAsAsked` | `TypeOK`, `IsAsAsked`, `FailsWithReason` | what is returned has the commit, its files and its submodule, after any other call, cut short anywhere; only a call for the commit in HEAD takes what was cut short |
| `CacheIsSound` | `TypeOK`, `AnswersAreWhole`, `EntryIsLeftWhole`, `FailsForAReason` | nobody is answered with a part, or with parts of two |
| `InstalledIsRight` | `RoundTripIsTrue` (`TypeOK`, `SkippedIsLocked`, `InstallLasts`, `EditableIsRepaired`), `EditableIsOwned` (`TypeOK`, `DoneIsInstalled`, `FilesAreOwned`, `ReportedIsImportable`) | what is left alone is what is locked, what was installed is found to be so; one distribution of the project in all that can be written, found first, and the next build removes it |
| `ArchiveIsSafe` | `TypeOK`, `ArchiveIsWhole`, `DownloadedOnce`, `FoundAfterDownload`, `InstalledIsLocked` | what is cached, found and installed is the archive |
| `ArchiveStays`, `Answered` | | the archive is not replaced or removed; every request ends |
| `PoolIsOrderly` | `TypeOK`, `InOrder`, `KeptApart`, `InOneHand`, `ReturnIsTrue` | who executes what, when, and that it is over when `execute()` returns |
| `ReportIsTrue` | `CountsAreExact`, `EnvIsAsReported` | counters and environment agree with what happened |
| `RefinesInstallPlan` | | the pool keeps the promise of `InstallPlan`, an end included |
| `ComputedAlone` | `LocksAreDisciplined` (`TypeOK`, `LockDiscipline`), `OneAtATime` | one lock for an instance, one thread under it |
| `AskersAreAnswered` | | everyone who asks for the property is answered |

The sets in `setting` say under which circumstances a property is claimed; they
are variables that never change, so one run has them side by side.

*Fairness.* `VersionSolver`: `WF` on `Next`, one thread that runs on.
`SolvedMarkers` and `HTTPRepository`: the same (`WF` of the subject's step in
`MCMarkers` and `MCServers`). `Publishing`: `WF` on the steps of the command
(`PublishSteps`); lost requests, crashes, changes of `dist/` and new commands are
not fair. `Executor`: `WF` on the main thread, on the threads of
the pool and on the operations in progress (downloads and subprocesses end); no
fairness for interrupts. `AtomicCachedProperty`: `WF` for the steps of a thread,
`SF` for taking the semaphore and the lock, which Python does not withhold from a
thread for ever when they are free again and again; nobody is forced to ask.
`ArtifactCache`: `WF` for the steps of a thread, `SF` for taking the archive's
lock; broken connections and new requests are not fair. Without these, each
liveness property fails by a thread that simply stops. The other modules state
safety only, and no fairness.

`CHECK_DEADLOCK FALSE` is in the runs whose system may stop: the solver has
nothing more to say about one package, the environment is up to date, everything
is installed, all
commands, calls and requests of the bound have been given, all releases are
answered, `execute()` has returned, nobody asks for the property.

## 5. Proofs

Eight modules hold theorems, checked by `tlapm` to the last leaf. Each inductive
invariant was checked by TLC on a small instance before it was proved.

**`VersionSolver_proofs`**: for every set of packages, of versions and of
registries (assumption: the root has one version, nobody requires it, and
registries are well formed). `FailureIsJustified` is not inductive: that a learned
incompatibility holds in every solution rests on its two causes, of which one is
found through an assignment that a backjump may have removed. `Soundness` adds
what is needed: the kept terms are the intersections of the assignments
(`SolutionIsDerived`), the cause of an assignment is a recorded fact and the
assignment its negation (`CausesAreFacts`), the root project is the first
decision (`RootIsChosen`), and the incompatibility in hand holds, has no empty
term, and is the recorded one as long as it has a position (`ConflictHolds`).
The inductive invariant `IInv` is `Soundness` for a registry among `Registries`.
From it: `SearchIsSound`, `TypesHold`, `KnowledgeHolds`, `TermsAreDerived`,
`GivingUpIsJustified`.

A second invariant, `Trail`, is about the order of the assignments: the decisions
in the partial solution are those of the assignments (`DecisionsAreRecorded`),
the level of an assignment counts the decisions up to it (`LevelsCount`), the
terms before a derived assignment left nothing but its negation of its cause
(`CausesAreTrue`), the incompatibility in hand is satisfied by a prefix
(`ConflictIsTrue`), and what was contradicted at a level is contradicted by the
assignments up to that level, so that it still is when higher levels are dropped
(`ContradictionsLast`). With it conflict resolution always finds a satisfier,
whose level is above that of the rest or whose cause can be resolved with, which
is why `pc` is never `"crashed"` (`NoAssertionFails`), and `SkippedIsFalse` and
`LevelsCountDecisions` follow.

A third one, `Requirements`, is about what is still to be propagated: the
incompatibilities of a decided version are facts (`DecisionsAreKnown`), and at
the level of each decision, and now, every one of them has been settled or is
waiting in `changed` or under the cursor (`SettledBefore`, `SettledNow`). The
levels below matter since a backjump goes back to one of them. When the
search succeeds nothing is waiting and nothing is undecided, so that the decisions
answer the registry (`AnswersAreSolutions`); and no package is selected that
nothing requires, since without it there would be another solution, in which the
facts hold as well (`BackjumpsAreClean`, which is `BacktrackingIsClean`). With
both kinds of answers justified, every step of the search is one of `Resolution`
or a stutter (`PromiseIsKept`). That the search ends, the other part of
`RefinesResolution`, is liveness and model-checked.

**`PackageTerm_proofs`** is about the components of `MCOnePackage`. For
`PackageTerm`: for every set of versions and environments, when no two
sources exclude each other (`SourcesAgree`: one source, or an index and one
direct origin). `TermIsSound` adds to the meaning of the term that all assignments
together leave some choice, so that no intersection on the way is empty:
`KeptTermIsRight`, `RegisterNeverFails`, `RelationsAreKnown`.

`AssignmentsTraced` (`AssignmentsAreTraced`) holds for any sources, since it speaks
only of those moments when all assignments are about one of them, the others
having been dropped perhaps. Its invariant `Traced` says that as long as the
first `n` assignments are about one source they leave some choice
(`PrefixesLeave`), and that the term that is kept is then about that source, means
what they mean and has the markers of the positive ones (`KeptOf`). What
`satisfier()` computes is a recursion over the assignments: that the function is
there at all (`AssignedTermIsDefined`) and what it means (`AssignedTermIsRight`)
are proved by the least number for which it would not hold.

`CacheAnswersAreRight` (`CacheIsTransparent`) is about `DependencyCache`, for any
versions, names, levels, lists and evictions, as long as two names of the package
disagree about prereleases nowhere (`PrereleasesAgree`; what happens where they do is
the run `MCOnePackage_forbidden`). The invariant says what a list on the stack is
worth: from one level to the next the terms are kept or become narrower
(`TermsNarrow`), and what is on the stack at a level, or was added at it and
remembered, is valid at that level (`StackIsValid`, `MemoIsValid`). A list is valid
(`IsValid`) if it has either everything that all names of the package allow there, or
everything but prereleases, and none of them. Validity is kept by a
narrower term and lost only with the level (`DeriveKeeps`, `BacktrackKeeps`), so that
whichever list is on top of the stack serves the terms of now.

**`Environment_proofs`** is about the components of `MCEnvironment`. For
`EnvironmentUpdate`, for every environment and every result, the core is the lemma `ExecutedIsNotNeeded`: executing an operation takes exactly this one
from the set of operations that are still needed. With it, `Pending` (what is
still to do is what would be calculated now) is inductive, and at the end nothing
is needed, which means that the environment is as locked (`WantedGetsInstalled`,
with and without sync), that what is not the project's was left
(`OthersAreLeftAlone`), and that operations are one for each name and none in a
second round (`OperationsSettle`).
For `Environments`, for any interpreters and circumstances
(`EnvironmentsAssumption`), `VenvInv` adds to the properties that the environments
in `virtualenvs.path` have the place of their version, that their interpreters
are there unless they may be uninstalled (`BuiltIsRight`), that the section in
`envs.toml` names an environment that exists (`SectionIsThere`), and that the one
that `env use` has reported is what the section names (`ChosenIsActive`). The
lemmas say what `get` may find (`GetFinds`) and what comes of `create_venv`
(`CreateVenvIsRight`): an environment that is there, with a supported Python, and
nothing built anew without a reason. Then `EnvironmentsAreRight` (`EnvIsRight`) and
the two action properties of `EnvironmentsLast` (`EnvironmentsStay`).

`PluginsAreInstalled` (`PluginsAreRight`) is about `PluginCache`, for any packages,
sections and environments of Poetry, under three conditions that are those of the
table in [6](#6-where-a-property-has-a-condition): one install works at a time
(`OneInstall`), no edit brings a former section back (`NoWayBack`, a rank that every
edit increases), and what a package of Poetry's environment requires is pinned when
the plugins are solved (`RequirementsArePinned`: it comes before the last required
plugin in the order of names). `PluginInv` says at each step of an install what is in
`.poetry/plugins` (`FilesAre`), that time goes forward (`InOrder`: a `config.toml` that
is there is not of a later section or version than the one being installed, so that
what is not fresh cannot become fresh again), that what is installed together with
what is still missing works (`PlanSuits`), and so does a cache whose `config.toml` is
that of now (`CacheSuits`). Without `InOrder` a cache that was emptied half way would
have to be complete.

**`Commands_proofs`** is about `Project`, `FileCache` and `Configuration`. For `Project`:
`FreshLockIsTrue` for any number of processes, under
`Undisturbed`: no lock file of Poetry before 2.3, and either no command changes
`pyproject.toml` (while it may be edited at any moment), or there is one process
and nobody else edits. The invariant says that the lock file always answers what
it has the hash of, and that a process that solves, executes or writes works with
one content and a solution of it. `LockBeforeProject` and `SuccessLocks` need one
process with nobody else at the files (`Lonely`), and a stronger memory
(`IInvAlone`): what is on disk is what the process read. `OutcomesAreTrue`
(`OutcomeIsTrue`) needs a third one, `IInvOutcome`: what is not yet in the
environment as the solution asks for has an operation left that will make it so,
unless one has failed (`Underway`); and until the lock file is written both files
are as the command found them.

For `FileCache`, `CacheSoundness` (`CacheIsSound`) holds for
any number of processes, versions and blocks (`FileCacheAssumption`: an entry has at
least one block, and `None` is no version and no file). `CacheInv` says of each process what it may have read
and how much of its entry it has written, and of the file that it is absent, an
entry, or covered (`IsCovered`): some process that has it open has still to come to
each block that is missing, as long as none was killed and all are of one version.

For `Configuration`, `SettingsAreKept` (`ConfigIsKept`) holds for any keys, values, shells, numbers of commands
and faults, and migrations of different keys. `ConfigInv` says of a file that is
not torn that it has what it should when no command is at work on it, and that one
that is will see to that (`CommandsGoOn`): `set` and `unset` keep what they have read
until they have written (`ChangeGoesOn`), and a migration, with the changes that it still has to
make (`Future`), leads to the same file as one that begins now, and has each
setting to be migrated among those that are pending (`MigrationGoesOn`). That one
migration does not touch another is a lemma about the closed form (`Migrated`,
`Moved`), and that there is a next one needs a least number (`LeastIsThere`).
`AllIsGiven` says that no value, in a file, in memory or on its way, is one that
nobody gave; `FirstReads`, that a lone `get` has what the files have.

**`Packages_proofs`** is about `Git`, `Sources`, `InstalledPackage` and `EditableInstall`.

- `ClonesAreAsAsked` (`CloneIsAsAsked`), for any servers, requests, calls and faults
  (`GitAssumption`: every server has its default branch and sends what its
  references name, and `None` is no commit): `GitInv` says that HEAD, the working
  tree and the submodule belong together unless it is known that a call was cut short
  and has left them otherwise (`FilesBelong`, `ModuleBelongs`), and at each step of a
  call what the step before has achieved (`StepIsRight`), whatever was in the
  directory when the call began: files that are not whole are still known as such
  only where a call for the commit in HEAD has returned.
- `TheRightFileIsChosen` (`SourcesAreRight`), for any sources, priorities, indexes, files,
  policies and changes. `SourcesInv` says that the pool is the declared sources with
  PyPI where it belongs (`SourceTypes`); that what is locked was asked for in the
  right places with what they had *then* (`LockIsRight`, `AsksRight`), since the index
  goes on; and that what is chosen is a candidate that no other beats
  (`ChoiceIsRight`). Which repositories are asked, in which order, and what the first
  answer means is `LockAsksRight`; from the order of the sort keys, compared
  element by element, to hashes, yanked files, wheels and tags it is
  `BestOfCandidates`.
- `WhatIsInstalledIsRight` (`InstalledIsRight`), for any packages that a lock file can
  have, any order of listing, any sites, directories, permissions, layouts and number
  of crashes, as the property itself says where one excuses what is there. It has an
  invariant for each of its two components.
  `InstallInv` (`InstalledPackage`): at most one distribution has metadata, and if no
  crash has torn it apart, its `direct_url.json` says where it is from and is in its
  `RECORD` (`DistsAreRight`); the `.pth` file is that of an editable package that is
  installed or about to be (`PthIsOwned`); at each step there is what the steps before have
  achieved (`PhaseIsRight`); and after one install what is locked is there, after two
  the clone besides (`RunsAreRight`), since the first one may take an old
  clone for what is installed.
  `BuildInv` (`EditableInstall`): a site has at most one distribution, whose `RECORD`
  names the `.pth` file of no other site, and whose `.pth` file is there as long as no
  removal was cut short (`SitesAreRight`); each file on disk is in a `RECORD`, is one of
  this build, or of one that never wrote its own (`BuildFilesHaveOwners`); and what
  the build has done so far (`BuildIsOnItsWay`), where the point is that the `.pth` file
  and the distribution get to the same site, the first that can be written, and that it has
  the only distribution in all that can.
  Removing a distribution must not take the `.pth` file of another one's site, which is
  what `ReportedIsImportable` needs the `RECORD` for.

The components of `MCCommands` other than `Project` are proved about as it puts
them side by side with each other, so that these theorems, in both modules, are about
`MCSpec`, with assumptions on the constants that TLC evaluates there.

**`Threads_proofs`** is about the components of `MCThreads`. For
`AtomicCachedProperty`, with any number of threads and instances:
`LocksAreDisciplined` is inductive, and `MutualExclusion` (`ComputedAlone`),
`ComputesOnce` and `LockStays` follow. Without `LockDiscipline` mutual exclusion
says nothing about the thread that is about to look up a lock that another one is
about to replace.

For `ArtifactCache`, with any number of threads, processes, chunks, retries and
broken connections: that the archive is whole is not inductive. It rests on
what a thread has in its temporary file, which is a prefix of the archive if the
server honours `Range` (`TempIsPrefix`), on the lock that whoever is under it
holds (`LockIsHeld`) and, for the threads of one process, on all of them having
the same lock (`LockIsShared`) and none of them being at work under it while there
is an archive (`OnlyWhenMissing`). From these `ArchiveSafety` (`ArchiveIsSafe`) and
the action property `ArchiveLasts` (`ArchiveStays`).

**`Executor_proofs`**: for every plan in `Plans`, every number of workers and of
interrupts. `InOrder` and `KeptApart` speak about operations that have begun; the
invariant says where all others are: each is in exactly one of the queue, the
pool, the lists of git operations and the serial list, and in it once
(`NothingRepeats`, `NothingIsLost`), tasks of the pool and tasks collected for it are apart before
they begin (`TasksAreApart`), and where the main thread stands tells which group
may be listed (`ListsFitGroup`, `ListedIsReady`, `PoolIsSafe`). With
`CountIsLocked` and `EnvFitsStage` for the counters and the environment it is
inductive. `PoolOrder` (`PoolIsOrderly`) and `TrueReport` (`ReportIsTrue`) follow,
and `PromiseIsKept`: every step of the main thread, of a thread of the pool or of
an interrupt is a step of `InstallPlan` or a stutter. That `execute()` ends, the
other part of `RefinesInstallPlan`, is model-checked.

**`Servers_proofs`** is about the components of `MCServers`; first `Credentials`
and `Publishing`, for any users,
passwords, repositories, URLs, servers and options (`CredentialsAssumption`,
`PublishingAssumption`: settings and options have the shape that they are declared
with, `None` is nobody and nothing, and only the other repository's user is
called "other").

- `CredentialsAreTheirs` (`CredentialsAreRight`). What is used is a function of the
  file, the keyring and the environment, and what was set is history; `Kept`
  relates them. It has to look ahead, since a command writes the keyring first and
  the file in a second step: what counts is what the file will be when the command
  that is at work is done (`Pending`), the keyring's entry for that name, and that
  nothing is left behind under the empty name, which is looked up when there is no
  other (`SaidIsKept`). `PairsAreKept` holds without conditions: whatever is lost
  or locked, each password in the file, in the keyring and on its way to the file
  is with a name that it was once set with. `Asked` says of the session's cache
  that each entry has the credentials of its own URL's repository.
- `LongestIsUsed` is what the search for a repository is worth. The library's
  well-foundedness of the natural numbers gives a least and a greatest element of
  a set (`Least`, `Greatest`), and with them the common prefix of two paths
  (`CommonPrefixIs`) and the repository that has most in common (`RepositoryIs`). The
  attempt to prove that slashes at the ends of paths suffice for the comment to be
  true failed for a good reason, see [6](#6-where-a-property-has-a-condition).
- `PublishingIsComplete` (`PublishIsComplete`). `Followed` says that the list of
  files is made once and gone through in order (`ListIsFollowed`), that all of it
  that was gone past is on the server (`PassedIsThere`), that a project which the
  server knows stays known, and that the files of the list are in `dist/` while
  nobody disturbs the command: without the last one a missing file would be a
  failure without a reason.

The last theorem is about `LazyWheel` and `HTTPRepository`, for any releases and
wheels, however long and wherever their METADATA are, and any size of the first
chunk (`HTTPRepositoryAssumption`: it has at least one unit, and releases have the
shape that they are declared with).

- `MergeIsRight` is what `MergeIntervals` is worth: if the intervals are in order
  and apart they are so afterwards, they cover what they covered and what was asked
  for, the parts that are to be fetched are exactly what was missing, and between
  two of them there is something that was not. It rests on what `bisect` finds in
  sequences that are in order (`BisectIsRight`, by counting), and on the same about
  gaps (`GapsAreRight`) and splicing (`SpliceIsRight`) with numbers only.
- `EnsureDownloadedIsRight`: what is fetched gets to its place, under one condition:
  of what was asked for, the end is what is there already. Then at most one part is
  missing and it is the beginning, where the code writes every part.
- `MetadataAreRight` (`MetadataIsRight`). That the condition always holds is not seen
  from the intervals. `Lazily` adds the order in which `ZipFile` reads: what was
  fetched is the end of the wheel, and METADATA besides when nothing but METADATA
  is still going to be read (`Reads`). `Served` says how far the links of a release
  were read (`Progress`), so that what is combined in the end are the requirements
  of the links that the release has, in their order.

The theorems about `DependencyCache`, `Environments`, `PluginCache`, `HTTPRepository`
and those about the components of `MCCommands` other than `Project` are about the
`MCSpec` of the module that puts them side by side, that about `AtomicCachedProperty`
about its `PropertySpec` in `MCThreads`. The others are about the
component, with its own specification and variables; a run that puts components side
by side checks the same property for the behaviours whose subject the component is.

TLC's own: liveness under fairness and `ENABLED`, which `tlapm` does not handle
(`IterationEnds`, `PublishEnds`, `ReleasesAreAnswered`, `Answered`, `AskersAreAnswered`, and that the
search and the pool end in `RefinesResolution` and `RefinesInstallPlan`);
and the properties of `MCMarkers` (`OverridesArePartition`, `EveryEnvironmentIsServed`,
`MarkersAreRight`), whose depth first search and unions of overrides are recursive
operators over data: what they compute for every input would be an induction that the
provers cannot instantiate. Every other invariant of a run is stated by a
theorem.

## 6. Where a property has a condition

Some promises of a comment or a page of the documentation hold under a condition
only. Three are kept as runs that TLC refutes and are listed as findings:

- **`ForbiddenIsNotOffered`** (`mixology/version_solver.py:88`). `foo` with
  `allow-prereleases = false` and `foo[x] >=2.0b0` share one list, and the
  prerelease that was found for the second is offered to the first.
- **`EveryEnvironmentIsServed`** in `MCMarkers_shared` (`puzzle/provider.py:739`).
  A dependency is dropped if its marker does not meet those under which its
  package was required when the package was completed. A package that is chosen
  later may require it elsewhere: foo is required on Linux, and by app
  everywhere; foo requires bar on Windows; when foo is completed before app is
  chosen, Windows has foo without bar.
- **`YankedIsIgnored`** (`puzzle/provider.py:485`). A yanked release of one source
  is ignored, the same version is found in another one, and then the pool is
  asked for the version without the source: the yanked one is locked.

The others are conditions in the properties or in the settings of the runs. Each
was met while modelling and can be seen by taking its condition away:

| Condition | Without it | Line |
|---|---|---|
| one source, or an index and one direct origin (`MCOnePackage`) | two git forks of a package are denied one after the other, the intersection is `None` and `assert term is not None` fails | `mixology/partial_solution.py:160` |
| `FromOnly` in `SatisfierIsFirst` | a git dependency satisfies a requirement from the index, and `assert not term.is_positive()` in `satisfier()` fails | `mixology/partial_solution.py:188` |
| no problem like `Shared2` in `MCProblems` | as in `MCMarkers_shared`, with an extra: foo[x] requires foo under the marker that foo[x] had when it was completed, and an environment for which app requires foo[x] as well is left without foo | `puzzle/provider.py:540` |
| three packages have no cycle (`MCGraphs`) | with two nested cycles one more iteration does not bring a marker back along two edges: a package is not installed where it is needed | `puzzle/solver.py:416` |
| `warm` in `IsShared` | two threads make the `defaultdict`'s entry at the same time, get two locks and both download | `utils/cache.py:263` |
| one process in `IsShared` | a failed download removes the archive that another process has finished | `utils/cache.py:272` |
| `honorsRanges` in `ArchiveIsWhole` | a server that ignores `Range` makes a resumed download append the whole archive; only the locked hash keeps it from being installed | `utils/helpers.py:198` |
| one process (`MCCommands`, `Undisturbed`) | two `add` commands: the one hashes a `pyproject.toml` with the other's requirement, which its solution lacks, and the lock file is found fresh | `console/commands/add.py:153` |
| no `OldLocks` | a lock file of Poetry before 2.3 has a hash without `[dependency-groups]` and stays fresh when only these change | `packages/locker.py:121` |
| (no property) | `poetry lock` reads the lock file that it is told to regenerate, and refuses with the advice to run `poetry lock` | `packages/locker.py:358` |
| `OnlyOutside` in `UseIsObeyed` | with `virtualenvs.in-project` true and no `.venv`, `env use` returns the environment in `virtualenvs.path` whatever version was asked for | `utils/env/env_manager.py:136` |
| `~ vanish` in `HealthyIsKept` | the interpreter of the active environment is gone, and the environment of the preferred Python, a healthy one, is built anew | `utils/env/env_manager.py:382` |
| (no property) | `env use` without a section writes the patch version of the interpreter although the environment has another one | `utils/env/env_manager.py:177` |
| `~meddled` in the properties of `PluginCache` | a plugin is removed from Poetry's own environment and the project's cache is still found fresh | `plugins/plugin_manager.py:125` |
| sections of `MCEnvironment` (`RequirementsArePinned`) | the loop stops when the last required plugin was met, in a wrong version too, and what comes after it is not pinned | `plugins/plugin_manager.py:214` |
| one process, edits that do not go back (`MCEnvironment`; `OneInstall`, `NoWayBack`) | two installs, or a stopped `rmtree()` and the former section again, leave an empty cache with a `config.toml` that is found fresh | `plugins/plugin_manager.py:176` |
| `i \notin hit` in `EnvIsAsReported` | Ctrl-C in pip's uninstall during an update is dropped: the update is reported as done | `installation/executor.py:605` |
| `ApartIsSpecific` instead of `MostSpecificIsUsed` | paths are compared letter by letter: a URL below `/a` has as many of them in common with `/ab`, and gets the credentials of whichever is configured first; a slash at the end of every path is no remedy, since with `/a/` and `/a/b/` the URL `/a/bc` has more in common with the second, which it is not below. The longest one above wins, as the comment says, as long as no other repository's path begins with one that the URL is below (`AreApart`) | `utils/authenticator.py:448` |
| `odd` in `SetIsUsed` | an empty user name is answered as none, and `--unset` then leaves the entry where it is; a token in the file wins over a newer one that was put into the keyring | `utils/password_manager.py:272` |
| `NoEnv` in `SetIsUsed` and `NoMixture` | a name or a password from `POETRY_HTTP_BASIC_*` is put together with the other half from `auth.toml` or the keyring | `utils/password_manager.py:249` |
| `registered` in `FailsWithReason` | a server that does not know the project: `_register()` is called, and then the answer to the upload is raised all the same | `publishing/uploader.py:257` |
| `OneVersion` without the built version | `publish --build` uploads the latest version in `dist/`, which may be another than the one that was just built | `publishing/uploader.py:94` |
| reads as `ZipFile` does them (`MetadataIsRight`) | each part that is missing is written at the beginning of what was asked for, and not at its own; it is right as long as what is there already is not the beginning of what is asked for, which is so since a wheel is read from its end and METADATA is asked for once | `inspection/lazy_wheel.py:483` |
| `~ ViaSystem` and `Meanings` in `IsAsAsked` | the system's git clones the submodules of the default branch's commit and leaves them, and is given a name without its kind, so that it takes a tag for a branch | `vcs/git/backend.py:288` |
| `torn` in `IsAsAsked` | HEAD is right and the files are not: a call that is cut short after it has moved HEAD (358), while it removes a clone (286), or in `git clone` (291) or `git checkout` (308), leaves a directory without all of the files, and a call for the commit that is HEAD takes it as it is. A call for a branch or a tag does not, which is part of the property | `vcs/git/backend.py:564` |
| `torn` in `SettingsLast` | two `poetry config` on one file, or one that dies between emptying and writing, lose settings of others; a migration that stops between two changes loses the setting | `config/file_config_source.py:108` |
| equal `build` in `ChoiceIsBest` | the build number is compared before the tags, against the docstring: a wheel that fits less is chosen when it has a build number | `installation/chooser.py:325` |
| `killed`, one version in `EntryIsLeftWhole` | parts of two entries are left; the next reader finds and removes them | `utils/cache.py:116` |
| `IsStray` in `SkippedIsLocked` | a distribution that does not say where it is from is taken for a git package when there is a clone: a package from the index is locked to a commit of git with the same version, the clone is made and the build fails, and the next install finds the old files "Already installed" | `repositories/installed_repository.py:80` |
| the second install in `EditableIsRepaired` | a git dependency becomes editable: the clone is made, `_remove()` of the old package removes it, and the wheel is installed, whose `.pth` file names it; it cannot be imported until the next install | `installation/executor.py:605` |
| no editable git package in `InstallLasts` | it is found as a directory, which is what its direct_url.json says, and is installed anew by each install | `installation/executor.py:871` |
| the development flag, in `IsOf` | whether a package is editable is not compared: when only this changes it is "Already installed" | `puzzle/transaction.py:127` |
| `torn` in `SkippedIsLocked` and `InstallLasts` | a `.pth` file that was written before a crash makes a package from the index a directory; a direct_url.json that is not in RECORD outlives pip's uninstall | `installation/executor.py:885` |
| `lost` in `FilesAreOwned` | a bad script, or a crash, leaves the `.pth` file and the scripts before it without an owner | `masonry/builders/editable.py:177` |
| (no property) | `except PermissionError` is never reached, since `write_text()` raises an `OSError` of its own | `masonry/builders/editable.py:135` |
| `excused` in `FailsForAReason` | an entry that another process removes between `exists()` and `open()` or `unlink()` makes the command fail | `utils/cache.py:163` |

## 7. What is left out

Parts without a module, and why, are in `PROJECT.json`. Within the modules:

- *Solver.* Markers, extras and direct origins are not in `VersionSolver`; a
  package with extras is a package of its own, sources and transitive markers are
  in `PackageTerm`. Nobody requires the root project or himself. The order in
  which an undecided package is chosen is any order, which covers
  `_choose_next()`. The newest version is the greatest; the order of
  prereleases is in `DependencyCache`. `attempted_solutions` and
  the wording of a failure are left out.
- *DependencyCache.* One package; the flags of a name are fixed once it is
  positive; yanked versions are in `Sources`; the `lru_cache` forgets any search.
- *Overrides.* The search decides and does not take back: a conflict is a
  failure, and what backtracking does is in `VersionSolver`. Which of several
  direct origins is the right one, refreshed packages, and the order in which
  `_resolve_overlapping_markers()` lists the cases, which is any order. A Python
  constraint is the set of Pythons of a marker.
- *SolvedMarkers.* Optional packages, extras, and the simplification of
  markers; the dependencies of a package are in one order or in its reverse.
- *Transaction.* A package's marker and groups are one Boolean, `applies`.
- *Project.* Re-resolving, lock files before 2.1, extras, plugins, the layout
  of `pyproject.toml`. The solver's choice is any solution. A failed update leaves
  the old version or none. The lock file is read in one step.
- *Executor.* Output sections, the counter `_skipped`, hash validation (its
  outcome is success or an exception), an interrupt while an error is reported.
  The priority of a removal is a large number; the order of git repositories in
  their dictionary is any order.
- *ArtifactCache.* One archive; names and suffixes of cached files; building a
  wheel is one step, which fails if the archive is cut short.
- *Environments.* A command is one step; `virtualenvs.create = false`, conda
  and other projects' sections are left out; an environment keeps the patch
  version it was built with.
- *PluginCache.* `poetry.lock` in `.poetry/plugins`, path dependencies and
  entry points; a version of Poetry stands for that of Poetry and of Python; the
  solution is any consistent one with nothing stray.
- *AtomicCachedProperty.* The lock of an instance goes with the instance.
- *Sources.* One dependency with one name; `search()`; links at other URLs; a
  hash that is calculated is that of the file; the tags of a wheel are the best of
  those of the environment.
- *LazyWheel.* A unit stands for any number of bytes; the directory of a zip
  file is one unit and a comment another; `ZipFile` is what it reads, in the order
  in which it reads it.
- *HTTPRepository.* Pages and their parsing; a hash is right, broken or of another
  file; requirements are sets, with a marker for the version of Python only.
- *FileCache.* One entry, in blocks; reading is one step; no caller passes a
  number of minutes, so that entries do not expire. What the index says of a release
  does not change, so that two writers of one version write the same.
- *Credentials.* Names in URLs, certificates, the delays between attempts, the
  cache of HTTP answers; config commands come one after the other, and sessions
  one request at a time.
- *Publishing.* The metadata that goes with a file; the credentials of
  `--username` and `--password`; config commands come between two `publish`.
  `POETRY_REPOSITORIES_*` hides the credentials of configured repositories, which
  is taken as it is.
- *Git.* Credentials, `clean`, submodules of submodules; files that are missing or
  half written are not told apart; the objects are one pack; the git of the system
  ends with Poetry, and which client is used is the same for all calls. `origin`
  stays that of the first repository of a name, since `add_remote()` does not
  change it. "Try again later" is a failure like any other.
- *Configuration.* `auth.toml` (in `Credentials`), certificates, build settings,
  normalizers, `--list`; reading a file is one step.
- *InstalledPackage.* One package that nothing else requires; eggs, packages
  outside the libraries, subdirectories; a wheel has no `.pth` file unless it is
  an editable one, and pip removes what RECORD names.
- *EditableInstall.* The fallback to `setup.py`, the `.cmd` wrappers; metadata is
  written in one step; a file can be removed where its directory can be written.

## 8. Plan

Written so far, in this order: `VersionSolver`, `Executor`,
`AtomicCachedProperty`, `PackageTerm`, `EnvironmentUpdate`, `Project`,
`SolvedMarkers`, `ArtifactCache`, `Environments`, `PluginCache`,
`DependencyCache`, `Overrides`, `LazyWheel`, `HTTPRepository`, `Credentials`,
`Publishing`, `Git`, `Configuration`, `FileCache`, `Sources`, `InstalledPackage`,
`EditableInstall`; and the theorems about every component but `Overrides` and
`SolvedMarkers`.

Next:

1. Proofs: one pass of `SolvedMarkers` and one split of `Overrides` as functions
   instead of recursive operators, so that `GroupsArePassedOn` and
   `OverridesArePartition` come within reach; `PluginCache` for several installs that
   do not meet.
2. Composition: `Overrides` over `VersionSolver`, with the specification of
   `Resolution` for every environment; `Executor` with `ArtifactCache` and the
   chooser for each operation.
3. Re-resolving and old lock files in `Project`; several files in
   `ArtifactCache`.
4. Package inspection and the isolated build, as far as they are more than the
   writing of files; the setup.py fallback of the editable builder.

## 9. Running it

    tlc -workers 2 -config MCCommands.cfg MCCommands
    tlapm Servers_proofs.tla

The longest runs are `MCOnePackage`, `MCCommands`, `MCServers`, `MCMarkers`,
`MCEnvironment` and `MCVersionSolver` with two to four minutes each; all others take about a minute or
less. `VersionSolver_proofs`, `Environment_proofs` and `Servers_proofs` take some
minutes, `Packages_proofs` about ten and `Commands_proofs` about a quarter of an hour.
