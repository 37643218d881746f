-------------------------- MODULE EnvironmentUpdate --------------------------
(***************************************************************************)
(* An environment is brought up to date: operations are calculated from    *)
(* what is installed, executed in any order, and calculated anew when some *)
(* of them have failed or when the command is simply given again.          *)
(***************************************************************************)
EXTENDS Transaction

CONSTANTS
  Results,       \* the sets of packages that may be wanted
  Environments,  \* the environments to begin with
  Flags          \* [withUninstalls, synchronize, skipDirectory, systemSite]

(* Of several packages with one name at most one applies: their markers    *)
(* exclude each other.                                                     *)
ASSUME EnvironmentUpdateAssumption ==
  /\ Environments \subseteq Environment
  /\ Results \subseteq SUBSET Package
  /\ {Root, Pip} \subseteq Names
  /\ \A f \in Flags : f.systemSite \subseteq Names
  /\ \A result \in Results : \A p, q \in result :
       p.name = q.name /\ p.applies /\ q.applies => p = q

VARIABLES
  before,    \* the environment at the beginning
  env,
  current,   \* names of the packages that are locked until now
  result,
  flags,
  todo,      \* operations not executed yet
  round      \* "first", "again" or "over"

vars == <<before, env, current, result, flags, todo, round>>

Init ==
  /\ before \in Environments
  /\ env = before
  /\ result \in Results
  /\ current \in SUBSET (Names \ {Root})
  /\ flags \in Flags
  /\ todo = CalculateOperations(current, result, env, flags)
  /\ round = "first"

Execute ==
  \E op \in todo :
    /\ env' = Executed(op, env)
    /\ todo' = todo \ {op}
    /\ UNCHANGED <<before, current, result, flags, round>>

(* The command is given again, after a failure or after a success.         *)
Again ==
  /\ round = "first"
  /\ todo' = CalculateOperations(current, result, env, flags)
  /\ round' = "again"
  /\ UNCHANGED <<before, env, current, result, flags>>

(* And once more, when all operations have been executed.                  *)
OnceMore ==
  /\ round = "again"
  /\ todo = {}
  /\ todo' = CalculateOperations(current, result, env, flags)
  /\ round' = "over"
  /\ UNCHANGED <<before, env, current, result, flags>>

Next == Execute \/ Again \/ OnceMore

Spec == Init /\ [][Next]_vars
-----------------------------------------------------------------------------
(* Properties *)

TypeOK ==
  /\ env \in Environment
  /\ \A op \in todo : NameOf(op) \in Names
  /\ round \in {"first", "again", "over"}

IsComplete == todo = {}

(* No two operations work on one package: they may be executed in any order *)
(* or at the same time.                                                     *)
OneOperationEach ==
  \A o, p \in todo :
    NameOf(o) = NameOf(p) /\ ~ IsDone(o) /\ ~ IsDone(p) => o = p

(* A package that was not installed because its directory is left aside.   *)
IsLeftAside(package) ==
  flags.skipDirectory /\ package.directory /\ before[package.name] = Absent

(* What is wanted is installed, in the version and from the source that was *)
(* locked; between PyPI and another index no difference is seen.           *)
WantedIsInstalled ==
  IsComplete =>
    \A package \in result :
      IsRelevant(package) /\ ~ IsLeftAside(package) =>
        /\ env[package.name] # Absent
        /\ env[package.name].version = package.version
        /\ env[package.name].source = AsInstalled(package).source

(* "makes sure that the project's environment is in sync": nothing else is *)
(* left but the project, the system's packages and a pip of its own.       *)
SyncIsExact ==
  IsComplete /\ flags.withUninstalls /\ flags.synchronize =>
    \A name \in Names :
      env[name] # Absent =>
        \/ name \in RelevantNames(result)
        \/ name \in flags.systemSite
        \/ name = Root
        \/ name = Pip /\ name \notin current \ NamesOf(result)

(* Without synchronization nothing that is foreign to the project changes,  *)
(* and extras nobody asked for are left as they are.                        *)
ForeignIsKept ==
  ~ flags.synchronize =>
    \A name \in Names :
      name \notin RelevantNames(result) =>
        \/ env[name] = before[name]
        \/ flags.withUninstalls /\ name \in current \ NamesOf(result)

(* The project itself, what belongs to the system and a pip that the project *)
(* has never managed are not removed.                                      *)
NotRemoved ==
  \A name \in flags.systemSite \cup {Root} \cup ({Pip} \ (current \ NamesOf(result))) :
    before[name] # Absent => env[name] # Absent

(* When all is done, doing it again does nothing.                          *)
NothingLeftToDo == round = "over" => \A op \in todo : IsDone(op)

(* What is locked, and after sync nothing else, is in the environment.     *)
EnvIsAsLocked == WantedIsInstalled /\ SyncIsExact

(* Operations of one round may be executed side by side, and after a round *)
(* none is left.                                                           *)
OperationsAreSettled == TypeOK /\ OneOperationEach /\ NothingLeftToDo

(* What the project does not manage stays.                                 *)
OthersAreKept == NotRemoved /\ ForeignIsKept
=============================================================================
