---------------------------- MODULE MCEnvironment ----------------------------
(***************************************************************************)
(* Environments: what is installed in one, which one it is, and the plugins  *)
(* that are installed for Poetry's own.  Each behaviour is about one of     *)
(* these, its subject, while the others stay where they start.              *)
(***************************************************************************)
EXTENDS EnvironmentUpdate, TLC

CONSTANTS
  Subjects,
  a, pip, root, git, legacy, pypi,
  Pythons, Settings, None,                              \* of Environments
  PoetryNames, Core, Order, Requires, Sections, Edits,  \* of PluginCache
  Installations, Procs, NoFile, EmptyFile

VARIABLES
  subject,
  setting, installed, inProject, shell, venvs, dotVenv, section, last,
  required, poetry, meddled, dir, ignored, cache, config, pc, mine, onPath, doomed, missing
-----------------------------------------------------------------------------
(* Package a in any variety; pip and the project itself in a few.          *)
MCNames == {a, pip, root}
MCSources == {pypi, legacy, git}

VariantsOfA ==
  {p \in Package : p.name = a /\ (p.directory => p.source = git)}
OfA ==
  {{}} \cup {{p} : p \in VariantsOfA}
  \cup {{p, q} : p \in {r \in VariantsOfA : r.version = 1 /\ r.source # legacy},
                 q \in {r \in VariantsOfA : r.version = 2 /\ r.source = pypi /\ ~ r.applies}}
OfPip ==
  {{}} \cup {{p} : p \in {r \in Package : r.name = pip /\ r.version = 1 /\ r.source = pypi
                                          /\ ~ r.directory}}
MCResults ==
  OfA \cup {x \cup y : x \in {{}} \cup {{p} : p \in {r \in VariantsOfA : r.version = 1 /\ r.source # legacy}}, y \in OfPip}

MCEnvironments ==
  {e \in Environment :
     /\ e[root] \in {Absent, [version |-> 1, source |-> git]}
     /\ e[pip] \in {Absent, [version |-> 1, source |-> pypi]}}

MCFlags ==
  {f \in [withUninstalls : BOOLEAN, synchronize : BOOLEAN, skipDirectory : BOOLEAN,
          systemSite : {{}, {a}}] : f.synchronize => f.withUninstalls}
-----------------------------------------------------------------------------
V == INSTANCE Environments
venvvars == <<setting, installed, inProject, shell, venvs, dotVenv, section, last>>

ASSUME OneOfEnvironments == V!EnvironmentsAssumption

(* Two patches of one minor version and one of another.                    *)
Python(m, p) == [minor |-> m, patch |-> p]
ThreePythons == {Python("3.10", 1), Python("3.10", 2), Python("3.11", 1)}

Changing ==
  [supported |-> {"3.10", "3.11"}, shells |-> {Python("3.11", 1)},
   inProject |-> {"true", "false", "unset"}, vanish |-> TRUE]

MCSettings ==
  {Changing,
   [Changing EXCEPT !.supported = {"3.10"}, !.vanish = FALSE],
   [Changing EXCEPT !.inProject = {"false"}],
   [Changing EXCEPT !.inProject = {"false"}, !.vanish = FALSE]}
-----------------------------------------------------------------------------
G == INSTANCE PluginCache
       WITH Names <- PoetryNames, Environments <- Installations,
            section <- required, env <- poetry, todo <- missing
pluginvars == <<required, poetry, meddled, dir, ignored, cache, config, pc, mine, onPath, doomed, missing>>

ASSUME OneOfPlugins == G!PluginCacheAssumption

(* Poetry 1 works with lib 1 only, Poetry 2 with both, plugins of version  *)
(* 2 with lib 2 only, and plugins of version 1 without it.                 *)
MCRequires == [n \in PoetryNames |-> [v \in Versions |->
  CASE n = "poetry" /\ v = 1 -> {[name |-> "lib", versions |-> {1}]}
    [] n = "poetry" /\ v = 2 -> {[name |-> "lib", versions |-> {1, 2}]}
    [] n \in {"a", "z"} -> (IF v = 2 THEN {[name |-> "lib", versions |-> {2}]} ELSE {})
    [] OTHER -> {}]]

(* In Poetry's own environment all that is required is there.              *)
MCInstallations == {e \in [PoetryNames -> Versions \cup {Absent}] :
  /\ e["poetry"] # Absent /\ e["lib"] # Absent
  /\ \A n \in PoetryNames : e[n] # Absent => \A r \in MCRequires[n][e[n]] : e[r.name] \in r.versions}

Plugin(n, vs, where) == [name |-> n, versions |-> vs, where |-> where]
SomeZ == {Plugin("z", {1, 2}, {1, 2})}
NewZ == {Plugin("z", {2}, {2})}
AnyAWithZ == {Plugin("a", {1, 2}, {1, 2}), Plugin("z", {1, 2}, {1, 2})}

ByName == <<"a", "lib", "poetry", "z">>

MCSections == {{}, SomeZ, NewZ, AnyAWithZ}
Forward == {<<SomeZ, NewZ>>, <<SomeZ, AnyAWithZ>>, <<AnyAWithZ, NewZ>>, <<NewZ, {}>>}
-----------------------------------------------------------------------------
MCInit ==
  /\ subject \in Subjects
  /\ IF subject = "packages" THEN Init
     ELSE /\ before = CHOOSE e \in Environments : TRUE
          /\ result = CHOOSE r \in Results : TRUE
          /\ flags = CHOOSE f \in Flags : TRUE
          /\ env = before /\ current = {} /\ todo = {} /\ round = "over"
  /\ subject # "environment" => setting = CHOOSE s \in Settings : TRUE
  /\ V!Init
  /\ subject # "environment" => installed = Pythons /\ inProject = "false"
  /\ subject # "plugins" =>
       required = {} /\ poetry = CHOOSE e \in Installations : TRUE
  /\ G!Init

MCNext ==
  \/ subject = "packages" /\ Next /\ UNCHANGED <<subject, venvvars, pluginvars>>
  \/ subject = "environment" /\ V!Next /\ UNCHANGED <<subject, vars, pluginvars>>
  \/ subject = "plugins" /\ G!Next /\ UNCHANGED <<subject, vars, venvvars>>

MCSpec == MCInit /\ [][MCNext]_<<subject, vars, venvvars, pluginvars>>
-----------------------------------------------------------------------------
(* The environment that a command gets is one that it may have: see         *)
(* Environments.                                                            *)
EnvIsRight == subject = "environment" => V!EnvIsRight

(* Environments and choices last: see Environments.                        *)
EnvironmentsLast == V!EnvironmentsLast

(* An install of plugins has done what it is for: see PluginCache.          *)
PluginsAreRight == subject = "plugins" => G!PluginsAreRight
===============================================================================
