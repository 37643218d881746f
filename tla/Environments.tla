---------------------------- MODULE Environments ----------------------------
(***************************************************************************)
(* Which environment a project has: EnvManager of poetry.utils.env, the    *)
(* commands env use and env remove, and the environment that every other   *)
(* command gets.  A Python is a minor version and a patch of it.           *)
(***************************************************************************)
EXTENDS Naturals, FiniteSets

CONSTANTS
  Pythons,     \* that may be installed
  Settings,    \* the circumstances to be looked at
  None

Minors == {p.minor : p \in Pythons}

(* What stays as it is: the minor versions that the project supports, the  *)
(* Pythons of foreign environments that may be active in the shell, the    *)
(* values that virtualenvs.in-project may take, and whether interpreters   *)
(* may be uninstalled.                                                     *)
Setting ==
  [supported : SUBSET Minors, shells : SUBSET Pythons,
   inProject : SUBSET {"true", "false", "unset"}, vanish : BOOLEAN]

(* An environment that was built: its Python, and whether the project's     *)
(* packages were installed in it since.                                     *)
Built == [python : Pythons, filled : BOOLEAN]

(* What is assumed of the constants.                                       *)
EnvironmentsAssumption ==
  /\ Pythons \subseteq [minor : STRING, patch : Nat]
  /\ Settings \subseteq Setting
  /\ None \notin Pythons \cup Built
  /\ Minors \cap {"dot", "shell", "system", "none"} = {}

VARIABLES
  setting,
  installed,   \* the interpreters
  inProject,   \* virtualenvs.in-project
  shell,       \* the Python of the environment in VIRTUAL_ENV, or None
  venvs,       \* [Minors -> Built \cup {None}]: in virtualenvs.path, one per minor version
  dotVenv,     \* .venv of the project, or None
  section,     \* the project's section in envs.toml: a Python, or None
  last         \* the last command, what it was asked, and what it got

vars == <<setting, installed, inProject, shell, venvs, dotVenv, section, last>>
outside == <<setting, installed, inProject, shell>>

(* What EnvManager.get returns: where the environment is.                   *)
Location == {"dot", "shell", "system"} \cup Minors
Nowhere == "none"

Init ==
  /\ setting \in Settings
  /\ installed \in (SUBSET Pythons) \ {{}}
  /\ inProject \in setting.inProject
  /\ shell = None
  /\ venvs = [m \in Minors |-> None]
  /\ dotVenv = None
  /\ section = None
  /\ last = [command |-> "none", asked |-> None, env |-> Nowhere]
-----------------------------------------------------------------------------
(* What may be found out about the environments.  world: venvs, dotVenv     *)
(* and section in the course of a command; found: the Python in the PATH.   *)

World == [venvs |-> venvs, dot |-> dotVenv, section |-> section]

IsSane(w, env) ==
  CASE env = "dot" -> w.dot.python \in installed
    [] env \in Minors -> w.venvs[env].python \in installed
    [] OTHER -> TRUE

(* The interpreter of an environment that is broken is not found, and the   *)
(* one in the PATH is asked instead.                                        *)
VersionOf(w, env, found) ==
  IF ~ IsSane(w, env) THEN found
  ELSE CASE env = "dot" -> w.dot.python
         [] env \in Minors -> w.venvs[env].python
         [] env = "shell" -> shell
         [] OTHER -> found

UseInProject(w) == inProject = "true" \/ (inProject = "unset" /\ w.dot # None)
InProjectExists(w) == inProject # "false" /\ w.dot # None

(* Bug: an environment that is active in the shell comes first. *)
BugShellFirst(w, found) ==
  IF shell # None THEN "shell"
  ELSE IF InProjectExists(w) THEN "dot"
  ELSE LET m == IF w.section # None THEN w.section.minor ELSE found.minor
       IN IF w.venvs[m] = None THEN "system" ELSE m
Get(w, found) ==
  IF shell # None /\ w.section = None THEN "shell"
  ELSE IF InProjectExists(w) THEN "dot"
  ELSE LET m == IF w.section # None THEN w.section.minor ELSE found.minor
       IN IF w.venvs[m] = None THEN "system" ELSE m

(* A section whose environment is gone is removed.                          *)
AfterGet(w, found) ==
  IF Get(w, found) = "system" THEN [w EXCEPT !.section = None] ELSE w
-----------------------------------------------------------------------------
(* create_venv: what may come of it, an environment or an error.            *)

New(python) == [python |-> python, filled |-> FALSE]

BuildAt(w, place, python) ==
  IF place = "dot" THEN [w EXCEPT !.dot = New(python)] ELSE [w EXCEPT !.venvs[place] = New(python)]

IsThere(w, place) == IF place = "dot" THEN w.dot # None ELSE w.venvs[place] # None

(* Bug: any Python will do. *)
BugPreferred(asked, found) == IF asked # None THEN {asked} ELSE {found}
(* The Pythons that the new environment may have: the one that was asked    *)
(* for, the preferred one, or any other that the project supports.          *)
Candidates(asked, found) ==
  IF asked # None THEN {asked} \cap {p \in installed : p.minor \in setting.supported}
  ELSE IF found.minor \in setting.supported THEN {found}
  ELSE {p \in installed : p.minor \in setting.supported}

PlaceFor(w, python) == IF UseInProject(w) THEN "dot" ELSE python.minor

(* Bug: an environment that is there is built anew. *)
BugAlwaysBuild(w, place, force) == TRUE
MustBuild(w, place, force) == ~ IsThere(w, place) \/ force

(* Bug: the system's environment is good enough. *)
BugAnyEnv(env) == TRUE
IsVenv(env) == env # "system"

Failed(w) == [world |-> w, env |-> Nowhere]

CreateVenv(w, asked, force, found) ==
  LET env == Get(w, found)
      after == AfterGet(w, found)
      forced == force \/ ~ IsSane(w, env)
      Made(python) ==
        LET place == PlaceFor(after, python)
        IN [world |-> IF MustBuild(after, place, forced) THEN BuildAt(after, place, python) ELSE after,
            env |-> place]
  IN IF IsVenv(env) /\ ~ forced
     THEN {IF VersionOf(w, env, found).minor \in setting.supported
           THEN [world |-> after, env |-> env] ELSE Failed(after)}
     ELSE IF Candidates(asked, found) = {} THEN {Failed(after)}
     ELSE {Made(python) : python \in Candidates(asked, found)}

Becomes(w) == venvs' = w.venvs /\ dotVenv' = w.dot /\ section' = w.section
Reports(command, asked, env) == last' = [command |-> command, asked |-> asked, env |-> env]
-----------------------------------------------------------------------------
(* The commands *)

(* Any command that needs the environment; install fills it.                *)
Fill(w, env) ==
  CASE env = "dot" -> [w EXCEPT !.dot.filled = TRUE]
    [] env \in Minors -> [w EXCEPT !.venvs[env].filled = TRUE]
    [] OTHER -> w

Install ==
  \E found \in installed : \E done \in CreateVenv(World, None, FALSE, found) :
    /\ Becomes(Fill(done.world, done.env))
    /\ Reports("install", None, done.env)
    /\ UNCHANGED outside

UseDot(python, found) ==
  LET rebuild == dotVenv # None /\ VersionOf(World, "dot", found) # python
  IN \E done \in CreateVenv(World, python, rebuild, found) :
       IF done.env = Nowhere THEN Becomes(done.world) /\ Reports("use", python, Nowhere)
       ELSE /\ Becomes(AfterGet(done.world, found))
            /\ Reports("use", python, Get(done.world, found))

IsOutdated(python) ==
  section # None /\ section.minor = python.minor /\ section.patch # python.patch

(* Bug: envs.toml is not written. *)
BugNotWritten(w, python) == w
Activated(w, python) == [w EXCEPT !.section = python]

UseCached(python, found) ==
  LET rebuild == venvs[python.minor] = None \/ IsOutdated(python)
  IN \E done \in IF rebuild THEN CreateVenv(World, python, TRUE, found)
                 ELSE {[world |-> World, env |-> python.minor]} :
       IF done.env = Nowhere THEN Becomes(done.world) /\ Reports("use", python, Nowhere)
       ELSE /\ Becomes(AfterGet(Activated(done.world, python), found))
            /\ Reports("use", python, Get(Activated(done.world, python), found))

Use(python) ==
  /\ python \in installed
  /\ \E found \in installed : IF UseInProject(World) THEN UseDot(python, found) ELSE UseCached(python, found)
  /\ UNCHANGED outside

UseSystem ==
  /\ section' = None
  /\ Reports("use system", None, Nowhere)
  /\ UNCHANGED <<outside, venvs, dotVenv>>

(* Bug: the section stays. *)
BugStayActive(minor) == section
SectionWithout(minor) == IF section # None /\ section.minor = minor THEN None ELSE section

(* By version; or by name, when the version is asked of the environment.    *)
Remove(m) ==
  /\ venvs[m] # None
  /\ \/ (\E p \in installed : p.minor = m) /\ section' = SectionWithout(m)
     \/ \E found \in installed : section' = SectionWithout(VersionOf(World, m, found).minor)
  /\ venvs' = [venvs EXCEPT ![m] = None]
  /\ Reports("remove", None, Nowhere)
  /\ UNCHANGED <<outside, dotVenv>>

(* env remove --all, and env remove with environments in the project.       *)
RemoveAll ==
  /\ venvs' = IF inProject = "true" THEN venvs ELSE [m \in Minors |-> None]
  /\ dotVenv' = IF inProject # "false" THEN None ELSE dotVenv
  /\ section' = None
  /\ Reports("remove", None, Nowhere)
  /\ UNCHANGED outside

RemoveDot ==
  /\ inProject = "true"
  /\ dotVenv' = None
  /\ Reports("remove", None, Nowhere)
  /\ UNCHANGED <<outside, venvs, section>>
-----------------------------------------------------------------------------
(* What happens outside.                                                    *)

MakeDotVenv ==
  /\ \E p \in installed : dotVenv = None /\ dotVenv' = New(p)
  /\ UNCHANGED <<outside, venvs, section>>

Configure ==
  /\ inProject' \in setting.inProject \ {inProject}
  /\ UNCHANGED <<setting, installed, shell, venvs, dotVenv, section>>

ActivateShell ==
  /\ shell' \in (setting.shells \cup {None}) \ {shell}
  /\ UNCHANGED <<setting, installed, inProject, venvs, dotVenv, section>>

InstallPython ==
  /\ \E p \in Pythons \ installed : installed' = installed \cup {p}
  /\ UNCHANGED <<setting, inProject, shell, venvs, dotVenv, section>>

UninstallPython == \E p \in installed :
  /\ setting.vanish /\ installed # {p}
  /\ installed' = installed \ {p}
  /\ UNCHANGED <<setting, inProject, shell, venvs, dotVenv, section>>

Outside ==
  /\ MakeDotVenv \/ Configure \/ ActivateShell \/ InstallPython \/ UninstallPython
  /\ last' = [command |-> "none", asked |-> None, env |-> Nowhere]

Next ==
  \/ Install \/ (\E python \in Pythons : Use(python)) \/ UseSystem
  \/ (\E m \in Minors : Remove(m)) \/ RemoveAll \/ RemoveDot
  \/ Outside

Spec == Init /\ [][Next]_vars
-----------------------------------------------------------------------------
(* Properties *)

TypeOK ==
  /\ setting \in Setting
  /\ installed \in (SUBSET Pythons) \ {{}}
  /\ inProject \in setting.inProject
  /\ shell \in setting.shells \cup {None}
  /\ venvs \in [Minors -> Built \cup {None}]
  /\ dotVenv \in Built \cup {None}
  /\ section \in Pythons \cup {None}
  /\ last.env \in Location \cup {Nowhere}
  /\ \A m \in Minors : venvs[m] # None => venvs[m].python.minor = m

PythonAt(env) ==
  CASE env = "dot" -> dotVenv.python
    [] env \in Minors -> venvs[env].python
    [] env = "shell" -> shell

(* "it will always work isolated from your global Python installation"      *)
AlwaysIsolated == last.command = "install" => last.env # "system"

(* What packages are installed in is an environment that is there, with a   *)
(* Python that the project supports.                                        *)
InstallIsSupported ==
  last.command = "install" /\ last.env # Nowhere =>
    /\ last.env = "dot" => dotVenv # None
    /\ last.env \in Minors => venvs[last.env] # None
    /\ PythonAt(last.env).minor \in setting.supported

(* virtualenvs.in-project is false: the environments are outside of the    *)
(* project.                                                                *)
OnlyOutside == setting.inProject = {"false"}

(* "tell Poetry which Python version to use for the current project": the   *)
(* environment is one of that version.                                      *)
UseIsObeyed ==
  OnlyOutside /\ last.command = "use" /\ last.env # Nowhere =>
    last.env # "system" /\ PythonAt(last.env).minor = last.asked.minor

(* "If you remove the currently activated virtual environment, it will be   *)
(* automatically deactivated": the section of one that is not there is gone *)
(* as soon as an environment was removed, if interpreters stay.            *)
RemovedIsDeactivated ==
  OnlyOutside /\ ~ setting.vanish /\ last.command = "remove" /\ section # None =>
    venvs[section.minor] # None

(* The environment that a command gets is one that it may have.            *)
EnvIsRight ==
  TypeOK /\ AlwaysIsolated /\ InstallIsSupported /\ UseIsObeyed /\ RemovedIsDeactivated

(* "it will use one that it has already created": no command but env use    *)
(* and env remove empties an environment whose Python is there.             *)
Keeps(m) == venvs[m] # None /\ venvs[m].filled /\ venvs[m].python \in installed => venvs'[m] = venvs[m]
HealthyIsKept ==
  [][~ setting.vanish /\ last'.command \in {"install", "use system", "none"} =>
       \A m \in Minors : Keeps(m)]_vars

(* What was chosen with env use is what the next command works in, whatever *)
(* Python is in the PATH and whatever environment is active in the shell, as *)
(* long as interpreters stay.                                              *)
ChoiceLasts ==
  [][/\ OnlyOutside /\ ~ setting.vanish
     /\ last.command = "use" /\ last.env \in Minors
     => (last'.command = "install" /\ last'.env # Nowhere => last'.env = last.env)]_vars

(* Environments and choices last as long as there is no reason to give them *)
(* up.                                                                      *)
EnvironmentsLast == HealthyIsKept /\ ChoiceLasts
=============================================================================
