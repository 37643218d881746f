----------------------------- MODULE PluginCache -----------------------------
(***************************************************************************)
(* ProjectPluginCache of poetry.plugins.plugin_manager: `poetry install`   *)
(* puts the plugins that a project requires into .poetry/plugins, unless   *)
(* Poetry's own environment has them.  Its packages hide those of the      *)
(* environment when Poetry runs in the project.                            *)
(***************************************************************************)
EXTENDS Naturals, Sequences, FiniteSets

CONSTANTS
  Names, Versions,
  Core,         \* the name of Poetry itself
  Order,        \* the names as InstalledRepository sorts them
  Requires,     \* [Names -> [Versions -> sets of [name, versions]]]
  Sections,     \* requires-plugins: sets of [name, versions, where], where among the versions of Core
  Edits,        \* the changes to it: a set of pairs of Sections
  Environments, \* of Poetry: [Names -> Versions \cup {Absent}], nothing in them is broken
  Procs,
  Absent, NoFile, EmptyFile

VARIABLES
  section,  \* of pyproject.toml
  env,      \* Poetry's own environment
  meddled,  \* did it change without a new version of Poetry?
  dir,      \* is there a .poetry/plugins?
  ignored,  \* is there a .poetry/.gitignore?
  cache,    \* the packages in .poetry/plugins
  config,   \* .poetry/plugins/config.toml
  pc, mine, \* of a process: what it does, the section and the version of Poetry that it runs with,
  onPath,   \* was there a .poetry/plugins when it started?
  doomed,   \* the entries that rmtree() has yet to remove
  todo      \* the packages it has yet to install

vars == <<section, env, meddled, dir, ignored, cache, config, pc, mine, onPath, doomed, todo>>
world == <<section, env, meddled>>
files == <<dir, ignored, cache, config>>
process == <<mine, onPath, doomed, todo>>

Nothing == [n \in Names |-> Absent]
Has(packages) == {n \in Names : packages[n] # Absent}
Over(above, below) == [n \in Names |-> IF above[n] # Absent THEN above[n] ELSE below[n]]
IsMet(r, packages) == packages[r.name] \in r.versions

(* Does every package have what it requires?                               *)
IsConsistent(packages) ==
  \A n \in Has(packages) : \A r \in Requires[n][packages[n]] : IsMet(r, packages)

ConfigOf(s, v) == [section |-> s, poetry |-> v]
Relevant(s, v) == {r \in s : v \in r.where}

(* What is assumed of the constants.                                       *)
PluginCacheAssumption ==
  /\ Core \in Names /\ Versions \subseteq Nat
  /\ Order \in [1 .. Cardinality(Names) -> Names] /\ \A n \in Names : \E i \in DOMAIN Order : Order[i] = n
  /\ Edits \subseteq Sections \X Sections
  /\ \A s \in Sections : \A r \in s :
       /\ r.name \in Names \ {Core} /\ r.versions \subseteq Versions /\ r.where \subseteq Versions
       /\ \A q \in s : q.name = r.name => q = r
  /\ Absent \notin Versions /\ NoFile # EmptyFile
  /\ \A s \in Sections, v \in Versions : ConfigOf(s, v) \notin {NoFile, EmptyFile}
  /\ Requires \in [Names -> [Versions -> SUBSET [name : Names, versions : SUBSET Versions]]]
  /\ Environments \subseteq [Names -> Versions \cup {Absent}]
  /\ \A e \in Environments : e[Core] \in Versions /\ IsConsistent(e)

Init ==
  /\ section \in Sections /\ env \in Environments /\ meddled = FALSE
  /\ dir = FALSE /\ ignored = FALSE /\ cache = Nothing /\ config = NoFile
  /\ pc = [p \in Procs |-> "idle"]
  /\ mine = [p \in Procs |-> ConfigOf(section, env[Core])]
  /\ onPath = [p \in Procs |-> FALSE]
  /\ doomed = [p \in Procs |-> {}] /\ todo = [p \in Procs |-> {}]

Goes(p, from, to) == pc[p] = from /\ pc' = [pc EXCEPT ![p] = to]

(* ---- The install command ---------------------------------------------- *)

Start(p) ==
  /\ pc[p] \in {"idle", "done", "failed"}
  /\ pc' = [pc EXCEPT ![p] = "check"]
  /\ mine' = [mine EXCEPT ![p] = ConfigOf(section, env[Core])]
  /\ onPath' = [onPath EXCEPT ![p] = dir]
  /\ UNCHANGED <<world, files, doomed, todo>>

Entries == Has(cache) \cup (IF config = NoFile THEN {} ELSE {"config.toml"})

AfterOutdated(p) == IF dir THEN "remove" ELSE "scan"

(* Bug: any config.toml will do. *)
BugAnyConfig(p) == config # NoFile
IsFresh(p) == config = mine[p]

(* Is there nothing to do, is there something to remove first?             *)
Check(p) ==
  /\ Goes(p, "check", IF mine[p].section = {} THEN (IF dir THEN "remove" ELSE "done")
                      ELSE IF IsFresh(p) THEN "done" ELSE AfterOutdated(p))
  /\ doomed' = [doomed EXCEPT ![p] = Entries]
  /\ UNCHANGED <<world, files, mine, onPath, todo>>

(* shutil.rmtree(): entry by entry, in any order.                          *)
RemoveEntry(p) == \E e \in doomed[p] :
  /\ pc[p] = "remove"
  /\ IF e \in Entries
     THEN /\ pc' = pc
          /\ cache' = [n \in Names |-> IF n = e THEN Absent ELSE cache[n]]
          /\ config' = IF e = "config.toml" THEN NoFile ELSE config
     ELSE pc' = [pc EXCEPT ![p] = "failed"] /\ UNCHANGED <<cache, config>>
  /\ doomed' = [doomed EXCEPT ![p] = @ \ {e}]
  /\ UNCHANGED <<world, dir, ignored, mine, onPath, todo>>

RemoveDirectory(p) ==
  /\ doomed[p] = {}
  /\ Goes(p, "remove", IF ~dir \/ Entries # {} THEN "failed"
                       ELSE IF mine[p].section = {} THEN "done" ELSE "scan")
  /\ dir' = (dir /\ Entries # {})
  /\ UNCHANGED <<world, ignored, cache, config, process>>

(* ---- What is there, and what has to be installed ---------------------- *)

Found(p) == IF onPath[p] THEN Over(cache, env) ELSE env

(* InstalledRepository.load(): first what is in the cache, then by name.   *)
Before(p, m, n) ==
  LET inCache(x) == onPath[p] /\ cache[x] # Absent
      place(x) == CHOOSE i \in DOMAIN Order : Order[i] = x
  IN IF inCache(m) = inCache(n) THEN place(m) < place(n) ELSE inCache(m)

Needed(p) == Relevant(mine[p].section, mine[p].poetry)
Missing(p) == {r \in Needed(p) : ~IsMet(r, Found(p))}
IsCounted(p) == \A r \in Needed(p) : Found(p)[r.name] # Absent

(* The loop ends as soon as every required plugin was met; a plugin of a   *)
(* wrong version is left out, for another one to hide it.                  *)
(* Bug: nothing is pinned. *)
BugNoPins(p) == {}
Pinned(p) ==
  {n \in Has(Found(p)) :
    /\ \A r \in Missing(p) : r.name # n
    /\ IsCounted(p) => \E r \in Needed(p) : r.name = n \/ Before(p, n, r.name)}

(* What the solver may answer to the pinned packages and missing plugins.  *)
Solutions(p) ==
  {s \in [Names -> Versions \cup {Absent}] :
    /\ IsConsistent(s)
    /\ \A n \in Pinned(p) : s[n] = Found(p)[n]
    /\ \A r \in Missing(p) : IsMet(r, s)
    /\ \A n \in Has(s) : \/ n \in Pinned(p) \/ \E r \in Missing(p) : r.name = n
                         \/ \E m \in Has(s) : \E r \in Requires[m][s[m]] : r.name = n}

Scan(p) ==
  /\ \/ /\ Missing(p) = {}
        /\ Goes(p, "scan", "ensure")
        /\ todo' = [todo EXCEPT ![p] = {}]
     \/ /\ Missing(p) # {}
        /\ Goes(p, "scan", "ensure")
        /\ \E s \in Solutions(p) :
             todo' = [todo EXCEPT ![p] = {<<n, s[n]>> : n \in Has(s) \ Pinned(p)}]
     \/ /\ Missing(p) # {} /\ Solutions(p) = {}
        /\ Goes(p, "scan", "failed")
        /\ UNCHANGED todo
  /\ UNCHANGED <<world, files, mine, onPath, doomed>>

(* _ensure_cache_directory(), before the installation and before writing.  *)
Prepared(p) == IF todo[p] = {} THEN "open" ELSE "install"

(* Bug: .gitignore is never written. *)
BugNoIgnore(p) == Prepared(p)
AfterMkdir(p) == "ignore"

EnsureDirectory(p) ==
  /\ Goes(p, "ensure", IF dir THEN Prepared(p) ELSE AfterMkdir(p))
  /\ dir' = TRUE
  /\ UNCHANGED <<world, ignored, cache, config, process>>

Ignore(p) ==
  /\ Goes(p, "ignore", Prepared(p))
  /\ ignored' = TRUE
  /\ UNCHANGED <<world, dir, cache, config, process>>

(* Bug: config.toml is written before everything is installed. *)
BugEarly(p, rest) == "ensure"
AfterInstall(p, rest) == IF rest = {} THEN "ensure" ELSE "install"

Install(p) == \E t \in todo[p] :
  LET rest == todo[p] \ {t}
  IN /\ Goes(p, "install", AfterInstall(p, rest))
     /\ todo' = [todo EXCEPT ![p] = IF AfterInstall(p, rest) = "ensure" THEN {} ELSE rest]
     /\ cache' = [cache EXCEPT ![t[1]] = t[2]]
     /\ dir' = TRUE
     /\ UNCHANGED <<world, ignored, config, mine, onPath, doomed>>

(* _write_config(): the file is opened, and with that empty, and written.  *)
OpenConfig(p) ==
  /\ Goes(p, "open", IF dir THEN "fill" ELSE "failed")
  /\ config' = IF dir THEN EmptyFile ELSE config
  /\ UNCHANGED <<world, dir, ignored, cache, process>>

FillConfig(p) ==
  /\ Goes(p, "fill", "done")
  /\ config' = IF config = NoFile THEN NoFile ELSE mine[p]
  /\ UNCHANGED <<world, dir, ignored, cache, process>>

(* A failed installation, an exception or a crash.                         *)
Fail(p) ==
  /\ pc[p] \notin {"idle", "done", "failed"}
  /\ pc' = [pc EXCEPT ![p] = "failed"]
  /\ UNCHANGED <<world, files, process>>

(* ---- What others do --------------------------------------------------- *)

EditSection ==
  /\ \E e \in Edits : section = e[1] /\ section' = e[2]
  /\ UNCHANGED <<env, meddled, files, pc, process>>

UpgradePoetry ==
  /\ \E e \in Environments : e[Core] > env[Core] /\ env' = e
  /\ UNCHANGED <<section, meddled, files, pc, process>>

(* poetry self add, remove and update, or pip in Poetry's environment.     *)
SelfCommand ==
  /\ meddled' = TRUE
  /\ \E e \in Environments \ {env} : e[Core] = env[Core] /\ env' = e
  /\ UNCHANGED <<section, files, pc, process>>

Next ==
  \/ EditSection \/ UpgradePoetry \/ SelfCommand
  \/ \E p \in Procs :
       \/ Start(p) \/ Check(p) \/ RemoveEntry(p) \/ RemoveDirectory(p) \/ Scan(p)
       \/ EnsureDirectory(p) \/ Ignore(p) \/ Install(p) \/ OpenConfig(p) \/ FillConfig(p) \/ Fail(p)

Spec == Init /\ [][Next]_vars

(* ---- Properties ------------------------------------------------------- *)

TypeOK ==
  /\ section \in Sections /\ env \in Environments
  /\ {meddled, dir, ignored} \subseteq BOOLEAN
  /\ cache \in [Names -> Versions \cup {Absent}]
  /\ pc \in [Procs -> {"idle", "check", "remove", "scan", "ensure", "ignore", "install",
                       "open", "fill", "done", "failed"}]
  /\ \A p \in Procs : doomed[p] \subseteq Names \cup {"config.toml"}
  /\ \A p \in Procs : todo[p] \subseteq Names \X Versions
  /\ Has(cache) # {} \/ config # NoFile => dir

Loaded == Over(cache, env)
IsQuiet == \A p \in Procs : pc[p] \in {"idle", "done", "failed"}
Available == \A r \in Relevant(section, env[Core]) : IsMet(r, Loaded)

(* When nobody is at work and config.toml makes install believe that there *)
(* is nothing to do, Poetry finds every plugin that the project requires,  *)
(* of a version that it may have, if its environment changed with it only. *)
FreshIsComplete == ~meddled /\ IsQuiet /\ section # {} /\ config = ConfigOf(section, env[Core]) => Available

(* An install that succeeds for the present pyproject.toml and Poetry has  *)
(* seen to the plugins and left nothing of former ones.                    *)
PluginsWhenDone == \A p \in Procs :
  ~meddled /\ pc[p] = "done" /\ mine[p] = ConfigOf(section, env[Core]) =>
    IF section = {} THEN ~dir ELSE Available /\ config = mine[p]

(* What the cache hides does not take away from any package of Poetry's    *)
(* environment, or of the cache, what it requires.                         *)
NothingIsBroken == \A p \in Procs :
  ~meddled /\ pc[p] = "done" /\ mine[p] = ConfigOf(section, env[Core]) => IsConsistent(Loaded)

(* Whatever is in .poetry/plugins is out of sight of git.                  *)
NothingToCommit == Entries # {} => ignored

(* An install has done what it is for, and no state that an install, a      *)
(* failure or a crash has left is taken for more than it is.               *)
PluginsAreRight ==
  TypeOK /\ FreshIsComplete /\ PluginsWhenDone /\ NothingIsBroken /\ NothingToCommit
==============================================================================
