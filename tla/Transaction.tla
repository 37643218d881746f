----------------------------- MODULE Transaction -----------------------------
(***************************************************************************)
(* poetry.puzzle.transaction: the operations that lead from the packages   *)
(* that are installed to those of a solution or of the lock file.          *)
(***************************************************************************)
EXTENDS FiniteSets, Naturals

CONSTANTS
  Names,
  Versions,
  Sources,   \* of packages in a solution; an installed one has no "legacy"
  Legacy,    \* the source type of an index other than PyPI
  PyPI,      \* no source type
  Root,      \* the name of the project
  Pip,
  Absent     \* not installed

ASSUME TransactionAssumption ==
  /\ {Legacy, PyPI} \subseteq Sources /\ Legacy # PyPI
  /\ Absent \notin [version : Versions, source : Sources \ {Legacy}]

(* applies: a group it belongs to is wanted and its marker holds in this   *)
(* environment; optional: only extras require it; directory: its source is *)
(* a directory of this machine.                                            *)
Package ==
  [name : Names, version : Versions, source : Sources, applies : BOOLEAN,
   optional : BOOLEAN, directory : BOOLEAN]

Installed == [version : Versions, source : Sources \ {Legacy}]
Environment == [Names -> Installed \cup {Absent}]

(* What is found in the environment after the package was installed.       *)
AsInstalled(package) ==
  [version |-> package.version,
   source  |-> IF package.source = Legacy THEN PyPI ELSE package.source]

(* Bug: everything in the lock file is installed. *)
BugWholeLockFile(package) == TRUE
IsRelevant(package) == package.applies
IsUnsolicitedExtra(package) == ~ package.applies /\ package.optional

(* Bug: the source of an installed package is compared as it stands. *)
BugCompareSources(package, installed) ==
  package.version # installed.version \/ package.source # installed.source
(* Bug: a package from another source is taken for the same. *)
BugOnlyVersions(package, installed) == package.version # installed.version
IsUpdate(package, installed) ==
  \/ package.version # installed.version
  \/ /\ installed.source # PyPI \/ package.source # Legacy
     /\ package.source # installed.source

Op(kind, package, skipped) == [kind |-> kind, package |-> package, skipped |-> skipped]
Uninstall(name) == [kind |-> "uninstall", name |-> name]

(* The operation for one package of the result, if there is one.           *)
ResultOp(package, env, skipDirectory) ==
  IF ~ IsRelevant(package) /\ ~ IsUnsolicitedExtra(package) THEN {}
  ELSE IF env[package.name] # Absent
       THEN IF IsUnsolicitedExtra(package) THEN {}
            ELSE IF IsUpdate(package, env[package.name])
                 THEN {Op("update", package, FALSE)}
                 ELSE {Op("install", package, TRUE)}
       ELSE IF skipDirectory /\ package.directory THEN {}
            ELSE {Op("install", package, IsUnsolicitedExtra(package))}

NamesOf(packages) == {package.name : package \in packages}
RelevantNames(result) == NamesOf({package \in result : IsRelevant(package)})

(* Bug: what does not apply here is taken for something nobody needs. *)
BugOtherPlatforms(current, result, env) ==
  {name \in current \ RelevantNames(result) : env[name] # Absent}
(* Packages that the lock file no longer has.                              *)
Superfluous(current, result, env) ==
  {name \in current \ NamesOf(result) : env[name] # Absent}

(* Bug: the project is taken for a package that nobody requires. *)
BugForgetRoot(result) == {Pip} \ RelevantNames(result)
Preserved(result) == {Root} \cup ({Pip} \ RelevantNames(result))

(* Bug: what only other platforms or groups need is left. *)
BugKeepIrrelevant(result, env) ==
  {name \in Names \ (Preserved(result) \cup NamesOf(result)) : env[name] # Absent}
(* What a synchronized environment must not have.                          *)
Unwanted(result, env) ==
  {name \in Names \ (Preserved(result) \cup RelevantNames(result)) : env[name] # Absent}

CalculateOperations(current, result, env, flags) ==
  (UNION {ResultOp(package, env, flags.skipDirectory) : package \in result})
  \cup IF flags.withUninstalls
       THEN {Uninstall(name) :
               name \in (Superfluous(current, result, env)
                         \cup IF flags.synchronize THEN Unwanted(result, env) ELSE {})
                        \ flags.systemSite}
       ELSE {}

IsDone(op) == op.kind # "uninstall" /\ op.skipped
NameOf(op) == IF op.kind = "uninstall" THEN op.name ELSE op.package.name

(* The environment after the operation was executed.                       *)
Executed(op, env) ==
  IF IsDone(op) THEN env
  ELSE [env EXCEPT ![NameOf(op)] =
          IF op.kind = "uninstall" THEN Absent ELSE AsInstalled(op.package)]
=============================================================================
