------------------------- MODULE Environment_proofs -------------------------
(***************************************************************************)
(* Calculating the operations again finds exactly those that were not      *)
(* executed yet: so any order of execution, with a stop anywhere and a     *)
(* second try, leads to the same environment.  And which environment it    *)
(* is: one that the command may have, the one that was chosen, and one     *)
(* that stays.                                                             *)
(***************************************************************************)
EXTENDS MCEnvironment, TLAPS

Pending(ops) == {op \in ops : ~ IsDone(op)}
Needed(e) == Pending(CalculateOperations(current, result, e, flags))

Wants(package, e) ==
  /\ IsRelevant(package)
  /\ IF e[package.name] # Absent THEN IsUpdate(package, e[package.name])
     ELSE ~ (flags.skipDirectory /\ package.directory)
OpFor(package, e) ==
  Op(IF e[package.name] # Absent THEN "update" ELSE "install", package, FALSE)

Removes(name, e) ==
  /\ flags.withUninstalls /\ e[name] # Absent /\ name \notin flags.systemSite
  /\ \/ name \in current /\ name \notin NamesOf(result)
     \/ /\ flags.synchronize /\ name \in Names
        /\ name \notin Preserved(result) /\ name \notin RelevantNames(result)

WellTyped ==
  /\ env \in Environment /\ before \in Environment
  /\ result \in Results
  /\ current \subseteq Names \ {Root}
  /\ flags \in Flags

LEMMA OpForName ==
  ASSUME NEW package, NEW e
  PROVE  /\ NameOf(OpFor(package, e)) = package.name /\ OpFor(package, e).kind # "uninstall"
         /\ OpFor(package, e).package = package /\ ~ IsDone(OpFor(package, e))
BY DEF NameOf, OpFor, Op, IsDone

LEMMA UninstallName ==
  ASSUME NEW name
  PROVE  NameOf(Uninstall(name)) = name /\ Uninstall(name).kind = "uninstall"
         /\ ~ IsDone(Uninstall(name))
BY DEF NameOf, Uninstall, IsDone

(* The operations that do something: one for every package that is wanted  *)
(* and not there, and for every name that is to be removed.                *)
LEMMA NeededOps ==
  ASSUME NEW e, NEW op
  PROVE  op \in Needed(e) <=>
           \/ \E package \in result : Wants(package, e) /\ op = OpFor(package, e)
           \/ \E name : Removes(name, e) /\ op = Uninstall(name)
<1>1. ASSUME NEW package \in result
      PROVE  op \in ResultOp(package, e, flags.skipDirectory) /\ ~ IsDone(op)
             <=> Wants(package, e) /\ op = OpFor(package, e)
  <2>. DEFINE ops == ResultOp(package, e, flags.skipDirectory)
  <2>1. CASE IsRelevant(package)
    <3>1. IsUnsolicitedExtra(package) = FALSE
      BY <2>1 DEF IsRelevant, IsUnsolicitedExtra
    <3>2. CASE e[package.name] # Absent /\ IsUpdate(package, e[package.name])
      <4>1. ops = {OpFor(package, e)}
        BY <2>1, <3>1, <3>2 DEF ResultOp, OpFor
      <4>2. QED
        BY <2>1, <3>2, <4>1, OpForName DEF Wants
    <3>3. CASE e[package.name] # Absent /\ ~ IsUpdate(package, e[package.name])
      <4>1. ops = {Op("install", package, TRUE)}
        BY <2>1, <3>1, <3>3 DEF ResultOp
      <4>2. QED
        BY <3>3, <4>1 DEF Wants, Op, IsDone
    <3>4. CASE e[package.name] = Absent /\ flags.skipDirectory /\ package.directory
      BY <2>1, <3>1, <3>4 DEF ResultOp, Wants
    <3>5. CASE e[package.name] = Absent /\ ~ (flags.skipDirectory /\ package.directory)
      <4>1. ops = {Op("install", package, IsUnsolicitedExtra(package))}
        BY <2>1, <3>5 DEF ResultOp
      <4>2. ops = {OpFor(package, e)}
        BY <3>1, <3>5, <4>1 DEF OpFor, Op
      <4>3. QED
        BY <2>1, <3>5, <4>2, OpForName DEF Wants
    <3>6. QED
      BY <3>2, <3>3, <3>4, <3>5
  <2>2. CASE ~ IsRelevant(package)
    <3>1. ops \subseteq {Op("install", package, IsUnsolicitedExtra(package))}
      BY <2>2 DEF ResultOp
    <3>2. ops # {} => IsUnsolicitedExtra(package)
      BY <2>2 DEF ResultOp
    <3>3. op \in ops => IsDone(op)
      BY <3>1, <3>2 DEF Op, IsDone
    <3>4. QED
      BY <2>2, <3>3 DEF Wants
  <2>3. QED
    BY <2>1, <2>2
<1>2. ASSUME NEW name
      PROVE  (flags.withUninstalls
              /\ name \in (Superfluous(current, result, e)
                           \cup IF flags.synchronize THEN Unwanted(result, e) ELSE {})
                          \ flags.systemSite)
             <=> Removes(name, e)
  BY DEF Superfluous, Unwanted, Removes
<1>3. ASSUME NEW name PROVE ~ IsDone(Uninstall(name))
  BY DEF Uninstall, IsDone
<1>. DEFINE results == UNION {ResultOp(package, e, flags.skipDirectory) : package \in result}
            removals == IF flags.withUninstalls
                        THEN {Uninstall(name) :
                                name \in (Superfluous(current, result, e)
                                          \cup IF flags.synchronize
                                               THEN Unwanted(result, e) ELSE {})
                                         \ flags.systemSite}
                        ELSE {}
<1>4. op \in results <=> \E package \in result : op \in ResultOp(package, e, flags.skipDirectory)
  OBVIOUS
<1>5. op \in removals <=> \E name : Removes(name, e) /\ op = Uninstall(name)
  <2>1. op \in removals <=>
          \E name : /\ flags.withUninstalls
                   /\ name \in (Superfluous(current, result, e)
                                \cup IF flags.synchronize THEN Unwanted(result, e) ELSE {})
                               \ flags.systemSite
                   /\ op = Uninstall(name)
    OBVIOUS
  <2>2. QED
    BY <1>2, <2>1
<1>6. op \in Needed(e) <=> (op \in results \/ op \in removals) /\ ~ IsDone(op)
  BY DEF Needed, Pending, CalculateOperations
<1>7. QED
  BY <1>1, <1>3, <1>4, <1>5, <1>6

LEMMA WantedName ==
  ASSUME NEW package \in result, IsRelevant(package)
  PROVE  package.name \in RelevantNames(result) /\ package.name \in NamesOf(result)
BY DEF RelevantNames, NamesOf

LEMMA RemovedName ==
  ASSUME NEW name, NEW e, Removes(name, e)
  PROVE  name \notin RelevantNames(result)
BY DEF Removes, RelevantNames, NamesOf

LEMMA OneForAName ==
  ASSUME WellTyped, NEW e, NEW o \in Needed(e), NEW p \in Needed(e), NameOf(o) = NameOf(p)
  PROVE  o = p
<1>1. CASE \E package \in result : Wants(package, e) /\ o = OpFor(package, e)
  <2>1. PICK package \in result : Wants(package, e) /\ o = OpFor(package, e)
    BY <1>1
  <2>2. ~ \E name : Removes(name, e) /\ p = Uninstall(name)
    BY <2>1, OpForName, UninstallName, WantedName, RemovedName DEF Wants
  <2>3. PICK other \in result : Wants(other, e) /\ p = OpFor(other, e)
    BY <2>2, NeededOps
  <2>4. package.name = other.name
    BY <2>1, <2>3, OpForName
  <2>5. package = other
    BY <2>1, <2>3, <2>4, EnvironmentUpdateAssumption DEF Wants, WellTyped, IsRelevant
  <2>6. QED
    BY <2>1, <2>3, <2>5
<1>2. CASE \E name : Removes(name, e) /\ o = Uninstall(name)
  <2>1. PICK name : Removes(name, e) /\ o = Uninstall(name)
    BY <1>2
  <2>2. ~ \E package \in result : Wants(package, e) /\ p = OpFor(package, e)
    BY <2>1, OpForName, UninstallName, WantedName, RemovedName DEF Wants
  <2>3. PICK other : Removes(other, e) /\ p = Uninstall(other)
    BY <2>2, NeededOps
  <2>4. QED
    BY <2>1, <2>3, UninstallName
<1>3. QED
  BY <1>1, <1>2, NeededOps

(* What an operation leads to needs no further operation.                  *)
LEMMA InstalledIsRight ==
  ASSUME NEW package \in Package
  PROVE  /\ AsInstalled(package) \in Installed
         /\ AsInstalled(package) # Absent
         /\ ~ IsUpdate(package, AsInstalled(package))
BY TransactionAssumption DEF Package, AsInstalled, Installed, IsUpdate

LEMMA ExecutedOp ==
  ASSUME WellTyped, NEW e \in Environment, NEW op \in Needed(e)
  PROVE  /\ Executed(op, e) \in Environment
         /\ \A name \in Names : name # NameOf(op) => Executed(op, e)[name] = e[name]
         /\ NameOf(op) \in Names
         /\ Executed(op, e)[NameOf(op)] =
              IF op.kind = "uninstall" THEN Absent ELSE AsInstalled(op.package)
<1>1. CASE \E package \in result : Wants(package, e) /\ op = OpFor(package, e)
  <2>1. PICK package \in result : Wants(package, e) /\ op = OpFor(package, e)
    BY <1>1
  <2>2. package \in Package
    BY EnvironmentUpdateAssumption DEF WellTyped
  <2>3. package.name \in Names
    BY <2>2 DEF Package
  <2>4. Executed(op, e) = [e EXCEPT ![package.name] = AsInstalled(package)]
    BY <2>1, OpForName DEF Executed
  <2>5. QED
    BY <2>1, <2>2, <2>3, <2>4, OpForName, InstalledIsRight DEF Environment
<1>2. CASE \E name : Removes(name, e) /\ op = Uninstall(name)
  <2>1. PICK name : Removes(name, e) /\ op = Uninstall(name)
    BY <1>2
  <2>2. name \in Names
    BY <2>1 DEF WellTyped, Removes
  <2>3. Executed(op, e) = [e EXCEPT ![name] = Absent]
    BY <2>1, UninstallName DEF Executed
  <2>4. QED
    BY <2>1, <2>2, <2>3, UninstallName DEF Environment
<1>3. QED
  BY <1>1, <1>2, NeededOps

(* An operation of one name neither makes nor spares one of another.       *)
LEMMA OthersNeeded ==
  ASSUME WellTyped, NEW e \in Environment, NEW f \in Environment, NEW o \in Needed(e),
         f[NameOf(o)] = e[NameOf(o)]
  PROVE  o \in Needed(f)
<1>1. CASE \E package \in result : Wants(package, e) /\ o = OpFor(package, e)
  <2>1. PICK package \in result : Wants(package, e) /\ o = OpFor(package, e)
    BY <1>1
  <2>2. f[package.name] = e[package.name]
    BY <2>1, OpForName
  <2>3. Wants(package, f) /\ o = OpFor(package, f)
    BY <2>1, <2>2 DEF Wants, OpFor
  <2>4. QED
    BY <2>3, NeededOps
<1>2. CASE \E name : Removes(name, e) /\ o = Uninstall(name)
  <2>1. PICK name : Removes(name, e) /\ o = Uninstall(name)
    BY <1>2
  <2>2. f[name] = e[name]
    BY <2>1, UninstallName
  <2>3. Removes(name, f)
    BY <2>1, <2>2 DEF Removes
  <2>4. QED
    BY <2>1, <2>3, NeededOps
<1>3. QED
  BY <1>1, <1>2, NeededOps

LEMMA NothingNeeded ==
  ASSUME WellTyped, NEW e \in Environment, NEW op \in Needed(e),
         NEW o \in Needed(Executed(op, e))
  PROVE  NameOf(o) # NameOf(op)
<1>. DEFINE f == Executed(op, e)
<1>1. CASE \E package \in result : Wants(package, e) /\ op = OpFor(package, e)
  <2>1. PICK package \in result : Wants(package, e) /\ op = OpFor(package, e)
    BY <1>1
  <2>2. package \in Package /\ IsRelevant(package)
    BY <2>1, EnvironmentUpdateAssumption DEF WellTyped, Wants
  <2>3. f[package.name] = AsInstalled(package)
    BY <2>1, ExecutedOp, OpForName
  <2>4. ASSUME NEW other \in result, Wants(other, f) PROVE other.name # package.name
    <3>1. SUFFICES ASSUME other.name = package.name PROVE FALSE
      OBVIOUS
    <3>2. other = package
      BY <2>2, <2>4, <3>1, EnvironmentUpdateAssumption DEF Wants, WellTyped, IsRelevant
    <3>3. QED
      BY <2>2, <2>3, <2>4, <3>2, InstalledIsRight DEF Wants
  <2>5. ASSUME NEW name, Removes(name, f) PROVE name # package.name
    BY <2>2, <2>5, WantedName, RemovedName
  <2>6. QED
    BY <2>1, <2>4, <2>5, NeededOps, OpForName, UninstallName
<1>2. CASE \E name : Removes(name, e) /\ op = Uninstall(name)
  <2>1. PICK name : Removes(name, e) /\ op = Uninstall(name)
    BY <1>2
  <2>2. f[name] = Absent
    BY <2>1, ExecutedOp, UninstallName
  <2>3. ASSUME NEW other \in result, Wants(other, f) PROVE other.name # name
    BY <2>1, <2>3, WantedName, RemovedName DEF Wants
  <2>4. ASSUME NEW other, Removes(other, f) PROVE other # name
    BY <2>2, <2>4 DEF Removes
  <2>5. QED
    BY <2>1, <2>3, <2>4, NeededOps, OpForName, UninstallName
<1>3. QED
  BY <1>1, <1>2, NeededOps

LEMMA OpNameIsName ==
  ASSUME WellTyped, NEW e, NEW o \in Needed(e)
  PROVE  NameOf(o) \in Names
<1>1. ASSUME NEW package \in result PROVE package.name \in Names
  BY EnvironmentUpdateAssumption DEF WellTyped, Package
<1>2. ASSUME NEW name, Removes(name, e) PROVE name \in Names
  BY <1>2 DEF WellTyped, Removes
<1>3. QED
  BY <1>1, <1>2, NeededOps, OpForName, UninstallName

LEMMA ExecutedIsNotNeeded ==
  ASSUME WellTyped, NEW e \in Environment, NEW op \in Needed(e)
  PROVE  Needed(Executed(op, e)) = Needed(e) \ {op}
<1>. DEFINE f == Executed(op, e)
<1>1. ASSUME NEW o \in Needed(f) PROVE o \in Needed(e) \ {op}
  <2>1. NameOf(o) # NameOf(op) /\ NameOf(o) \in Names
    BY <1>1, NothingNeeded, OpNameIsName
  <2>2. f \in Environment /\ f[NameOf(o)] = e[NameOf(o)]
    BY <2>1, ExecutedOp
  <2>3. QED
    BY <1>1, <2>1, <2>2, OthersNeeded
<1>2. ASSUME NEW o \in Needed(e) \ {op} PROVE o \in Needed(f)
  <2>1. NameOf(o) # NameOf(op) /\ NameOf(o) \in Names
    BY <1>2, OneForAName, OpNameIsName
  <2>2. f \in Environment /\ f[NameOf(o)] = e[NameOf(o)]
    BY <2>1, ExecutedOp
  <2>3. QED
    BY <1>2, <2>2, OthersNeeded
<1>3. QED
  BY <1>1, <1>2
-----------------------------------------------------------------------------
(* What is left to be done is what would be calculated now.                *)
IInv ==
  /\ WellTyped
  /\ Pending(todo) = Needed(env)
  /\ round = "over" => Pending(todo) = {}
  /\ \A name \in RelevantNames(result) : before[name] # Absent => env[name] # Absent
  /\ NotRemoved
  /\ ForeignIsKept

LEMMA InitEstablishes == Init => IInv
<1>1. Init => WellTyped
  BY EnvironmentUpdateAssumption DEF Init, WellTyped
<1>2. QED
  BY <1>1 DEF Init, IInv, Needed, NotRemoved, ForeignIsKept

(* An operation that does something, and what it may not touch.            *)
LEMMA ExecuteOne ==
  ASSUME IInv, NEW op \in todo, ~ IsDone(op), env' = Executed(op, env), todo' = todo \ {op},
         UNCHANGED <<before, current, result, flags, round>>
  PROVE  IInv'
<1>0. op \in Needed(env) /\ WellTyped
  BY DEF IInv, Pending
<1>1. /\ env' \in Environment
      /\ \A name \in Names : name # NameOf(op) => env'[name] = env[name]
      /\ NameOf(op) \in Names
      /\ env'[NameOf(op)] = IF op.kind = "uninstall" THEN Absent ELSE AsInstalled(op.package)
  BY <1>0, ExecutedOp DEF WellTyped
<1>2. WellTyped'
  BY <1>0, <1>1 DEF WellTyped
<1>3. Pending(todo)' = Needed(env)'
  <2>1. Pending(todo)' = Pending(todo) \ {op}
    BY DEF Pending
  <2>2. Needed(env)' = Needed(Executed(op, env))
    BY DEF Needed
  <2>3. QED
    BY <1>0, <2>1, <2>2, ExecutedIsNotNeeded DEF IInv, WellTyped
<1>4. (round = "over" => Pending(todo) = {})'
  BY <1>0 DEF IInv
<1>5. CASE \E package \in result : Wants(package, env) /\ op = OpFor(package, env)
  <2>1. PICK package \in result : Wants(package, env) /\ op = OpFor(package, env)
    BY <1>5
  <2>2. package \in Package /\ IsRelevant(package) /\ package.name \in RelevantNames(result)
    BY <2>1, <1>0, EnvironmentUpdateAssumption, WantedName DEF WellTyped, Wants
  <2>3. env'[package.name] # Absent /\ NameOf(op) = package.name
    BY <1>1, <2>1, <2>2, OpForName, InstalledIsRight
  <2>4. (\A name \in RelevantNames(result) : before[name] # Absent => env[name] # Absent)'
    <3>1. RelevantNames(result) \subseteq Names
      BY <1>0, EnvironmentUpdateAssumption DEF WellTyped, Package, RelevantNames, NamesOf
    <3>2. QED
      BY <1>1, <2>3, <3>1 DEF IInv
  <2>5. NotRemoved'
    <3>1. ASSUME NEW name \in Names, env[name] # Absent PROVE env'[name] # Absent
      BY <1>1, <2>3, <3>1
    <3>2. QED
      BY <1>0, <3>1, EnvironmentUpdateAssumption DEF IInv, NotRemoved, WellTyped
  <2>6. ForeignIsKept'
    BY <1>1, <2>2, <2>3 DEF IInv, ForeignIsKept
  <2>7. QED
    BY <1>2, <1>3, <1>4, <2>4, <2>5, <2>6 DEF IInv
<1>6. CASE \E name : Removes(name, env) /\ op = Uninstall(name)
  <2>1. PICK name : Removes(name, env) /\ op = Uninstall(name)
    BY <1>6
  <2>2. NameOf(op) = name /\ name \notin RelevantNames(result) /\ name \in Names
    BY <1>1, <2>1, UninstallName, RemovedName
  <2>3. (\A n \in RelevantNames(result) : before[n] # Absent => env[n] # Absent)'
    <3>1. RelevantNames(result) \subseteq Names
      BY <1>0, EnvironmentUpdateAssumption DEF WellTyped, Package, RelevantNames, NamesOf
    <3>2. QED
      BY <1>1, <2>2, <3>1 DEF IInv
  <2>4. name \notin flags.systemSite \cup {Root} \cup ({Pip} \ (current \ NamesOf(result)))
    BY <1>0, <2>1, <2>2 DEF Removes, Preserved, WellTyped
  <2>5. NotRemoved'
    <3>1. flags.systemSite \cup {Root} \cup ({Pip} \ (current \ NamesOf(result))) \subseteq Names
      BY <1>0, EnvironmentUpdateAssumption DEF WellTyped
    <3>2. ASSUME NEW n \in flags.systemSite \cup {Root} \cup ({Pip} \ (current \ NamesOf(result)))
          PROVE  env'[n] = env[n]
      BY <1>1, <2>2, <2>4, <3>1
    <3>3. QED
      BY <3>2 DEF IInv, NotRemoved
  <2>6. ForeignIsKept'
    BY <1>1, <2>1, <2>2 DEF IInv, ForeignIsKept, Removes
  <2>7. QED
    BY <1>2, <1>3, <1>4, <2>3, <2>5, <2>6 DEF IInv
<1>7. QED
  BY <1>0, <1>5, <1>6, NeededOps

LEMMA StepPreserves == IInv /\ [Next]_vars => IInv'
<1>1. ASSUME IInv, NEW op \in todo, IsDone(op), env' = Executed(op, env), todo' = todo \ {op},
             UNCHANGED <<before, current, result, flags, round>>
      PROVE  IInv'
  <2>1. env' = env
    BY <1>1 DEF Executed
  <2>2. Pending(todo)' = Pending(todo)
    BY <1>1 DEF Pending
  <2>3. QED
    BY <1>1, <2>1, <2>2 DEF IInv, WellTyped, Needed, NotRemoved, ForeignIsKept
<1>2. ASSUME IInv, Execute PROVE IInv'
  BY <1>1, <1>2, ExecuteOne DEF Execute
<1>3. ASSUME IInv, Again PROVE IInv'
  BY <1>3 DEF IInv, Again, WellTyped, Needed, NotRemoved, ForeignIsKept
<1>4. ASSUME IInv, OnceMore PROVE IInv'
  <2>1. Needed(env) = {}
    BY <1>4 DEF IInv, OnceMore, Pending
  <2>2. Pending(todo)' = Needed(env) /\ Needed(env)' = Needed(env)
    BY <1>4 DEF OnceMore, Needed
  <2>3. QED
    BY <1>4, <2>1, <2>2 DEF IInv, OnceMore, WellTyped, NotRemoved, ForeignIsKept
<1>5. ASSUME IInv, UNCHANGED vars PROVE IInv'
  BY <1>5 DEF IInv, vars, WellTyped, Needed, Pending, NotRemoved, ForeignIsKept
<1>6. QED
  BY <1>2, <1>3, <1>4, <1>5 DEF Next

LEMMA Invariance == Spec => []IInv
BY InitEstablishes, StepPreserves, PTL DEF Spec

(* Every operation is about one of the names.                              *)
LEMMA OpsAreNamed ==
  ASSUME WellTyped, NEW op \in CalculateOperations(current, result, env, flags)
  PROVE  NameOf(op) \in Names
<1>1. CASE \E package \in result : op \in ResultOp(package, env, flags.skipDirectory)
  <2>. PICK package \in result : op \in ResultOp(package, env, flags.skipDirectory)
    BY <1>1
  <2>1. package.name \in Names
    BY EnvironmentUpdateAssumption DEF WellTyped, Package
  <2>2. op.kind # "uninstall" /\ op.package = package
    BY DEF ResultOp, Op
  <2>3. QED
    BY <2>1, <2>2 DEF NameOf
<1>2. CASE \E name \in Names : op = Uninstall(name)
  BY <1>2, UninstallName
<1>3. QED
  <2>1. \A name \in Superfluous(current, result, env) \cup Unwanted(result, env) : name \in Names
    BY DEF WellTyped, Superfluous, Unwanted
  <2>2. QED
    BY <1>1, <1>2, <2>1 DEF CalculateOperations

LEMMA TypeInvariance == Spec => []TypeOK
<1>1. Init => TypeOK
  <2>. SUFFICES ASSUME Init PROVE TypeOK
    OBVIOUS
  <2>1. WellTyped
    BY InitEstablishes DEF IInv
  <2>2. QED
    BY <2>1, OpsAreNamed DEF Init, TypeOK, WellTyped
<1>2. IInv /\ IInv' /\ TypeOK /\ [Next]_vars => TypeOK'
  <2>. SUFFICES ASSUME IInv, IInv', TypeOK, [Next]_vars PROVE TypeOK'
    OBVIOUS
  <2>1. WellTyped /\ env' \in Environment
    BY DEF IInv, WellTyped
  <2>2. CASE Execute
    BY <2>1, <2>2 DEF Execute, TypeOK, NameOf
  <2>3. CASE Again
    BY <2>1, <2>3, OpsAreNamed DEF Again, TypeOK, NameOf
  <2>4. CASE OnceMore
    BY <2>1, <2>4, OpsAreNamed DEF OnceMore, TypeOK, NameOf
  <2>5. CASE UNCHANGED vars
    BY <2>5 DEF vars, TypeOK, NameOf
  <2>6. QED
    BY <2>2, <2>3, <2>4, <2>5 DEF Next
<1>3. QED
  BY <1>1, <1>2, Invariance, PTL DEF Spec

(* Executed in any order, stopped anywhere and calculated again: in the    *)
(* end what is wanted is installed, and with synchronization nothing else  *)
(* is left.                                                                *)
THEOREM WantedGetsInstalled == Spec => []EnvIsAsLocked
<1>1. IInv => WantedIsInstalled
  <2>. SUFFICES ASSUME IInv, IsComplete, NEW package \in result, IsRelevant(package),
                       ~ IsLeftAside(package)
                PROVE  /\ env[package.name] # Absent
                       /\ env[package.name].version = package.version
                       /\ env[package.name].source = AsInstalled(package).source
    BY DEF WantedIsInstalled
  <2>1. ~ Wants(package, env)
    BY NeededOps DEF IInv, IsComplete, Pending
  <2>2. package.name \in RelevantNames(result)
    BY WantedName
  <2>3. env[package.name] # Absent
    BY <2>1, <2>2 DEF IInv, Wants, IsLeftAside
  <2>4. ~ IsUpdate(package, env[package.name])
    BY <2>1, <2>3 DEF Wants
  <2>5. env[package.name] \in Installed
    BY <2>3, EnvironmentUpdateAssumption DEF IInv, WellTyped, Package, Environment
  <2>6. env[package.name].source # Legacy
    BY <2>5 DEF Installed
  <2>7. QED
    BY <2>3, <2>4, <2>6 DEF IsUpdate, AsInstalled
<1>2. IInv => SyncIsExact
  <2>. SUFFICES ASSUME IInv, IsComplete, flags.withUninstalls, flags.synchronize,
                       NEW name \in Names, env[name] # Absent
                PROVE  \/ name \in RelevantNames(result)
                       \/ name \in flags.systemSite
                       \/ name = Root
                       \/ name = Pip /\ name \notin current \ NamesOf(result)
    BY DEF SyncIsExact
  <2>1. ~ Removes(name, env)
    BY NeededOps DEF IInv, IsComplete, Pending
  <2>2. QED
    BY <2>1 DEF Removes, Preserved
<1>3. QED
  BY <1>1, <1>2, Invariance, PTL DEF EnvIsAsLocked

(* The project, the system and a pip of its own stay, and without           *)
(* synchronization what is foreign stays as it is.                         *)
THEOREM OthersAreLeftAlone == Spec => []OthersAreKept
<1>1. IInv => OthersAreKept
  BY DEF IInv, OthersAreKept
<1>2. QED
  BY <1>1, Invariance, PTL

(* Operations may be executed in parallel, and a second run does nothing.  *)
THEOREM OperationsSettle == Spec => []OperationsAreSettled
<1>1. IInv => OneOperationEach
  BY OneForAName DEF IInv, OneOperationEach, Pending
<1>2. IInv => NothingLeftToDo
  BY DEF IInv, NothingLeftToDo, Pending
<1>3. QED
  BY <1>1, <1>2, Invariance, TypeInvariance, PTL DEF OperationsAreSettled


-----------------------------------------------------------------------------
(* Environments *)

Worlds ==
  [venvs : [V!Minors -> V!Built \cup {None}], dot : V!Built \cup {None},
   section : Pythons \cup {None}]

(* In virtualenvs.path an environment has the place of its minor version,  *)
(* and interpreters of environments stay unless they may be uninstalled.   *)
BuiltIsRight(w) ==
  /\ \A m \in V!Minors : w.venvs[m] # None =>
       /\ w.venvs[m].python.minor = m
       /\ ~ setting.vanish => w.venvs[m].python \in installed
  /\ ~ setting.vanish /\ w.dot # None => w.dot.python \in installed

(* What envs.toml names is there.                                          *)
SectionIsThere(w) ==
  V!OnlyOutside /\ ~ setting.vanish /\ w.section # None => w.venvs[w.section.minor] # None

WorldIsRight(w) == w \in Worlds /\ BuiltIsRight(w) /\ SectionIsThere(w)

(* Where the packages are installed in w: an environment that is there.    *)
IsPlace(w, place) ==
  /\ place \in {"dot", "shell"} \cup V!Minors
  /\ place = "dot" => w.dot # None
  /\ place = "shell" => shell # None
  /\ place \in V!Minors => w.venvs[place] # None

MinorAt(w, place) ==
  CASE place = "dot" -> w.dot.python.minor
    [] place \in V!Minors -> w.venvs[place].python.minor
    [] place = "shell" -> shell.minor

Around ==
  /\ setting \in V!Setting
  /\ installed \in (SUBSET Pythons) \ {{}}
  /\ inProject \in setting.inProject
  /\ shell \in setting.shells \cup {None}

(* What was chosen with env use, and can be found, is what envs.toml names. *)
ChosenIsActive ==
  V!OnlyOutside /\ ~ setting.vanish /\ last.command = "use" /\ last.env \in V!Minors =>
    section # None /\ section.minor = last.env

LastIsRight ==
  /\ last.env \in V!Location \cup {V!Nowhere}
  /\ V!AlwaysIsolated /\ V!InstallIsSupported /\ V!UseIsObeyed /\ V!RemovedIsDeactivated
  /\ ChosenIsActive

VenvInv == Around /\ WorldIsRight(V!World) /\ LastIsRight

LEMMA Kinds ==
  /\ Pythons \subseteq [minor : STRING, patch : Nat]
  /\ None \notin Pythons /\ None \notin V!Built
  /\ \A p \in Pythons : p.minor \in V!Minors
  /\ \A x \in {"dot", "shell", "system", "none"} : x \notin V!Minors
  /\ V!Nowhere = "none"
BY OneOfEnvironments DEF V!EnvironmentsAssumption, V!Minors, V!Nowhere

LEMMA VenvTypes ==
  ASSUME VenvInv
  PROVE  V!TypeOK
BY DEF VenvInv, Around, WorldIsRight, Worlds, BuiltIsRight, LastIsRight, V!World, V!TypeOK

LEMMA VenvStarts == V!Init => VenvInv
<1>. SUFFICES ASSUME V!Init PROVE VenvInv
  OBVIOUS
<1>1. Around
  BY OneOfEnvironments DEF V!Init, V!EnvironmentsAssumption, Around
<1>2. WorldIsRight(V!World)
  BY DEF V!Init, V!World, WorldIsRight, Worlds, BuiltIsRight, SectionIsThere
<1>3. LastIsRight
  BY DEF V!Init, LastIsRight, V!AlwaysIsolated, V!InstallIsSupported, V!UseIsObeyed,
     V!RemovedIsDeactivated, ChosenIsActive
<1>4. QED
  BY <1>1, <1>2, <1>3 DEF VenvInv

(* EnvManager.get finds an environment that is there, or the system's.     *)
LEMMA GetFinds ==
  ASSUME Around, NEW w, WorldIsRight(w), NEW found \in installed
  PROVE  /\ V!Get(w, found) = "system" \/ IsPlace(w, V!Get(w, found))
         /\ V!Get(w, found) = "system" => ~ V!InProjectExists(w)
         /\ V!Get(w, found) \in V!Minors /\ w.section # None =>
              V!Get(w, found) = w.section.minor
         /\ V!OnlyOutside /\ ~ setting.vanish /\ w.section # None =>
              V!Get(w, found) = w.section.minor
<1>1. found.minor \in V!Minors /\ (w.section # None => w.section.minor \in V!Minors)
  BY Kinds DEF Around, WorldIsRight, Worlds
<1>2. CASE shell # None /\ w.section = None
  <2>1. V!Get(w, found) = "shell"
    BY <1>2 DEF V!Get
  <2>2. QED
    BY <1>2, <2>1, Kinds DEF IsPlace
<1>3. CASE ~ (shell # None /\ w.section = None) /\ V!InProjectExists(w)
  <2>1. V!Get(w, found) = "dot" /\ w.dot # None /\ inProject # "false"
    BY <1>3 DEF V!Get, V!InProjectExists
  <2>2. ~ V!OnlyOutside
    BY <2>1 DEF Around, V!OnlyOutside
  <2>3. QED
    BY <2>1, <2>2, Kinds DEF IsPlace
<1>4. CASE ~ (shell # None /\ w.section = None) /\ ~ V!InProjectExists(w)
  <2>. DEFINE m == IF w.section # None THEN w.section.minor ELSE found.minor
  <2>1. V!Get(w, found) = IF w.venvs[m] = None THEN "system" ELSE m
    BY <1>4 DEF V!Get
  <2>2. m \in V!Minors
    BY <1>1
  <2>3. V!OnlyOutside /\ ~ setting.vanish /\ w.section # None => w.venvs[m] # None
    BY DEF WorldIsRight, SectionIsThere
  <2>4. QED
    BY <1>4, <2>1, <2>2, <2>3, Kinds DEF IsPlace
<1>5. QED
  BY <1>2, <1>3, <1>4

(* And what it makes of envs.toml is right.                                *)
LEMMA AfterGetIsRight ==
  ASSUME Around, NEW w, WorldIsRight(w), NEW found \in installed
  PROVE  LET after == V!AfterGet(w, found) IN
         /\ WorldIsRight(after) /\ after.venvs = w.venvs /\ after.dot = w.dot
         /\ V!Get(w, found) # "system" => after = w
<1>. DEFINE after == V!AfterGet(w, found)
<1>1. CASE V!Get(w, found) = "system"
  <2>1. after = [w EXCEPT !.section = None]
    BY <1>1 DEF V!AfterGet
  <2>2. after \in Worlds /\ after.section = None /\ after.venvs = w.venvs /\ after.dot = w.dot
    BY <2>1 DEF WorldIsRight, Worlds
  <2>3. QED
    BY <1>1, <2>2 DEF WorldIsRight, BuiltIsRight, SectionIsThere
<1>2. CASE V!Get(w, found) # "system"
  BY <1>2 DEF V!AfterGet
<1>3. QED
  BY <1>1, <1>2


(* An environment that was built is there, and the others are as before.   *)
LEMMA BuildIsRight ==
  ASSUME Around, NEW w, WorldIsRight(w), NEW python \in installed,
         NEW place \in {"dot", python.minor}
  PROVE  LET built == V!BuildAt(w, place, python) IN
         /\ WorldIsRight(built) /\ IsPlace(built, place) /\ MinorAt(built, place) = python.minor
         /\ \A m \in V!Minors \ {place} : built.venvs[m] = w.venvs[m]
<1>. DEFINE built == V!BuildAt(w, place, python)
<1>1. /\ python \in Pythons /\ python.minor \in V!Minors
      /\ V!New(python) \in V!Built /\ V!New(python) # None
      /\ V!New(python).python = python
  <2>1. python \in Pythons /\ python.minor \in V!Minors
    BY Kinds DEF Around
  <2>2. V!New(python) \in V!Built /\ V!New(python).python = python
    BY <2>1 DEF V!New, V!Built
  <2>3. QED
    BY <2>1, <2>2, Kinds
<1>2. CASE place = "dot"
  <2>1. built = [w EXCEPT !.dot = V!New(python)]
    BY <1>2 DEF V!BuildAt
  <2>2. /\ built \in Worlds /\ built.venvs = w.venvs /\ built.section = w.section
        /\ built.dot = V!New(python)
    BY <1>1, <2>1 DEF WorldIsRight, Worlds
  <2>3. WorldIsRight(built)
    BY <1>1, <2>2 DEF WorldIsRight, BuiltIsRight, SectionIsThere
  <2>4. IsPlace(built, place) /\ MinorAt(built, place) = python.minor
    BY <1>1, <1>2, <2>2, Kinds DEF IsPlace, MinorAt
  <2>5. QED
    BY <2>2, <2>3, <2>4
<1>3. CASE place = python.minor
  <2>0. place # "dot"
    BY <1>1, <1>3, Kinds
  <2>1. built = [w EXCEPT !.venvs[place] = V!New(python)]
    BY <2>0 DEF V!BuildAt
  <2>2. /\ built \in Worlds /\ built.dot = w.dot /\ built.section = w.section
        /\ built.venvs[place] = V!New(python)
        /\ \A m \in V!Minors \ {place} : built.venvs[m] = w.venvs[m]
    BY <1>1, <1>3, <2>1 DEF WorldIsRight, Worlds
  <2>3. BuiltIsRight(built)
    BY <1>1, <1>3, <2>2 DEF WorldIsRight, BuiltIsRight
  <2>4. SectionIsThere(built)
    <3>. SUFFICES ASSUME V!OnlyOutside, ~ setting.vanish, w.section # None
                  PROVE  built.venvs[w.section.minor] # None
      BY <2>2 DEF SectionIsThere
    <3>1. w.section.minor \in V!Minors /\ w.venvs[w.section.minor] # None
      BY Kinds DEF WorldIsRight, Worlds, SectionIsThere
    <3>2. QED
      BY <1>1, <2>2, <3>1
  <2>5. IsPlace(built, place) /\ MinorAt(built, place) = python.minor
    BY <1>1, <1>3, <2>0, <2>2, Kinds DEF IsPlace, MinorAt
  <2>6. QED
    BY <2>2, <2>3, <2>4, <2>5 DEF WorldIsRight
<1>4. QED
  BY <1>2, <1>3

LEMMA FillIsRight ==
  ASSUME Around, NEW w, WorldIsRight(w), NEW place, place = "none" \/ IsPlace(w, place)
  PROVE  LET full == V!Fill(w, place) IN
         /\ WorldIsRight(full) /\ full.section = w.section
         /\ place # "none" => IsPlace(full, place) /\ MinorAt(full, place) = MinorAt(w, place)
         /\ \A m \in V!Minors : w.venvs[m] # None /\ w.venvs[m].filled =>
              full.venvs[m] = w.venvs[m]
<1>. DEFINE full == V!Fill(w, place)
<1>0. w \in Worlds
  BY DEF WorldIsRight
<1>1. CASE place \in {"none", "shell"}
  <2>1. full = w
    BY <1>1, Kinds DEF V!Fill
  <2>2. QED
    BY <2>1
<1>2. CASE place = "dot"
  <2>1. w.dot \in V!Built /\ full = [w EXCEPT !.dot.filled = TRUE]
    <3>1. w.dot # None
      BY <1>2 DEF IsPlace
    <3>2. QED
      BY <1>0, <1>2, <3>1, Kinds DEF Worlds, V!Fill
  <2>2. /\ full \in Worlds /\ full.venvs = w.venvs /\ full.section = w.section
        /\ full.dot \in V!Built /\ full.dot.python = w.dot.python
    BY <1>0, <2>1 DEF Worlds, V!Built
  <2>3. WorldIsRight(full)
    BY <2>2, <1>2 DEF WorldIsRight, BuiltIsRight, SectionIsThere, IsPlace
  <2>4. IsPlace(full, place) /\ MinorAt(full, place) = MinorAt(w, place)
    BY <1>2, <2>2, Kinds DEF IsPlace, MinorAt
  <2>5. QED
    BY <2>2, <2>3, <2>4
<1>3. CASE place \in V!Minors
  <2>0. place # "dot" /\ place # "none" /\ place # "shell"
    BY <1>3, Kinds
  <2>1. w.venvs[place] \in V!Built /\ w.venvs[place] # None
        /\ full = [w EXCEPT !.venvs[place].filled = TRUE]
    BY <1>0, <1>3, <2>0 DEF Worlds, IsPlace, V!Fill
  <2>2. /\ full \in Worlds /\ full.dot = w.dot /\ full.section = w.section
        /\ full.venvs[place] \in V!Built /\ full.venvs[place].python = w.venvs[place].python
        /\ full.venvs[place] = [w.venvs[place] EXCEPT !.filled = TRUE]
        /\ \A m \in V!Minors \ {place} : full.venvs[m] = w.venvs[m]
    <3>. DEFINE now == [w.venvs[place] EXCEPT !.filled = TRUE]
    <3>1. now \in V!Built /\ now.python = w.venvs[place].python
      BY <2>1 DEF V!Built
    <3>2. full.venvs = [w.venvs EXCEPT ![place] = now] /\ full.dot = w.dot
          /\ full.section = w.section /\ full = [w EXCEPT !.venvs = full.venvs]
      BY <1>0, <2>1 DEF Worlds
    <3>. HIDE DEF now
    <3>3. w.venvs \in [V!Minors -> V!Built \cup {None}]
      BY <1>0 DEF Worlds
    <3>4. full.venvs \in [V!Minors -> V!Built \cup {None}] /\ full.venvs[place] = now
          /\ \A m \in V!Minors \ {place} : full.venvs[m] = w.venvs[m]
      BY <1>3, <3>1, <3>2, <3>3
    <3>5. full \in Worlds
      BY <1>0, <3>2, <3>4 DEF Worlds
    <3>6. QED
      BY <3>1, <3>2, <3>4, <3>5 DEF now
  <2>3. \A m \in V!Minors : full.venvs[m] = None <=> w.venvs[m] = None
    BY <2>1, <2>2, Kinds
  <2>4. BuiltIsRight(full)
    BY <1>3, <2>1, <2>2, <2>3 DEF WorldIsRight, BuiltIsRight
  <2>5. SectionIsThere(full)
    <3>. SUFFICES ASSUME V!OnlyOutside, ~ setting.vanish, w.section # None
                  PROVE  full.venvs[w.section.minor] # None
      BY <2>2 DEF SectionIsThere
    <3>1. w.section.minor \in V!Minors /\ w.venvs[w.section.minor] # None
      BY <1>0, Kinds DEF WorldIsRight, Worlds, SectionIsThere
    <3>2. QED
      BY <2>3, <3>1
  <2>6. IsPlace(full, place) /\ MinorAt(full, place) = MinorAt(w, place)
    BY <1>3, <2>0, <2>1, <2>2, <2>3 DEF IsPlace, MinorAt
  <2>7. w.venvs[place].filled => full.venvs[place] = w.venvs[place]
    BY <2>1, <2>2 DEF V!Built
  <2>8. QED
    BY <2>2, <2>4, <2>5, <2>6, <2>7 DEF WorldIsRight
<1>4. QED
  BY <1>1, <1>2, <1>3 DEF IsPlace


(* A world in which a command may go on in the environment that it got.    *)
IsServed(w, place) ==
  IsPlace(w, place) /\ MinorAt(w, place) \in setting.supported

LEMMA MadeIsRight ==
  ASSUME Around, NEW w, WorldIsRight(w), NEW force \in BOOLEAN,
         NEW python \in installed, python.minor \in setting.supported,
         ~ force => ~ V!InProjectExists(w)
  PROVE  LET place == V!PlaceFor(w, python)
             made == IF V!MustBuild(w, place, force) THEN V!BuildAt(w, place, python) ELSE w
         IN /\ WorldIsRight(made) /\ IsServed(made, place)
            /\ V!OnlyOutside => place = python.minor
            /\ ~ force => \A m \in V!Minors : w.venvs[m] # None => made.venvs[m] = w.venvs[m]
<1>. DEFINE place == V!PlaceFor(w, python)
            made == IF V!MustBuild(w, place, force) THEN V!BuildAt(w, place, python) ELSE w
<1>1. /\ place \in {"dot", python.minor} /\ python.minor \in V!Minors
      /\ python.minor # "dot" /\ python.minor # "shell" /\ "dot" \notin V!Minors
      /\ place = "dot" <=> V!UseInProject(w)
  BY Kinds DEF V!PlaceFor, Around
<1>2. V!OnlyOutside => place = python.minor
  BY <1>1 DEF V!OnlyOutside, V!UseInProject, Around
<1>3. CASE V!MustBuild(w, place, force)
  <2>1. made = V!BuildAt(w, place, python)
    BY <1>3
  <2>2. /\ WorldIsRight(made) /\ IsPlace(made, place) /\ MinorAt(made, place) = python.minor
        /\ \A m \in V!Minors \ {place} : made.venvs[m] = w.venvs[m]
    BY <1>1, <2>1, BuildIsRight
  <2>3. ASSUME ~ force PROVE place \in V!Minors => w.venvs[place] = None
    BY <1>1, <1>3, <2>3 DEF V!MustBuild, V!IsThere
  <2>4. QED
    BY <1>2, <2>2, <2>3 DEF IsServed
<1>4. CASE ~ V!MustBuild(w, place, force)
  <2>1. made = w /\ V!IsThere(w, place) /\ ~ force
    BY <1>4 DEF V!MustBuild
  <2>2. place # "dot"
    BY <1>1, <2>1 DEF V!IsThere, V!UseInProject, V!InProjectExists
  <2>3. place = python.minor /\ w.venvs[place] # None
    BY <1>1, <2>1, <2>2 DEF V!IsThere
  <2>4. w.venvs[place].python.minor = place
    BY <1>1, <2>3 DEF WorldIsRight, BuiltIsRight
  <2>5. IsPlace(w, place) /\ MinorAt(w, place) = python.minor
    BY <1>1, <2>3, <2>4 DEF IsPlace, MinorAt
  <2>6. QED
    BY <1>2, <2>1, <2>5 DEF IsServed
<1>5. QED
  BY <1>3, <1>4

(* What create_venv() comes to: an environment of a supported Python that  *)
(* is there, with nothing built anew without a reason, or an error.        *)
LEMMA CreateVenvIsRight ==
  ASSUME Around, NEW w, WorldIsRight(w), NEW found \in installed,
         NEW asked \in installed \cup {None}, NEW force \in BOOLEAN,
         NEW done \in V!CreateVenv(w, asked, force, found)
  PROVE  /\ WorldIsRight(done.world)
         /\ done.env = "none" \/ IsServed(done.world, done.env)
         /\ ~ force /\ ~ setting.vanish =>
              /\ \A m \in V!Minors : w.venvs[m] # None => done.world.venvs[m] = w.venvs[m]
              /\ V!Get(w, found) # "system" => done.env \in {"none", V!Get(w, found)}
         /\ V!OnlyOutside /\ force /\ asked # None => done.env \in {"none", asked.minor}
<1>. DEFINE got == V!Get(w, found)
            after == V!AfterGet(w, found)
            forced == force \/ ~ V!IsSane(w, got)
            Made(python) ==
              LET place == V!PlaceFor(after, python)
              IN [world |-> IF V!MustBuild(after, place, forced)
                            THEN V!BuildAt(after, place, python) ELSE after,
                  env |-> place]
<1>1. /\ WorldIsRight(after) /\ after.venvs = w.venvs /\ after.dot = w.dot
      /\ got # "system" => after = w
  BY AfterGetIsRight
<1>2. /\ got = "system" \/ IsPlace(w, got)
      /\ got = "system" => ~ V!InProjectExists(w)
  BY GetFinds
<1>3. done \in IF V!IsVenv(got) /\ ~ forced
               THEN {IF V!VersionOf(w, got, found).minor \in setting.supported
                     THEN [world |-> after, env |-> got] ELSE V!Failed(after)}
               ELSE IF V!Candidates(asked, found) = {} THEN {V!Failed(after)}
               ELSE {Made(python) : python \in V!Candidates(asked, found)}
  BY DEF V!CreateVenv
<1>4. CASE done = V!Failed(after)
  BY <1>1, <1>4, Kinds DEF V!Failed
<1>5. CASE /\ got # "system" /\ ~ forced /\ done = [world |-> after, env |-> got]
           /\ V!VersionOf(w, got, found).minor \in setting.supported
  <2>1. V!VersionOf(w, got, found).minor = MinorAt(w, got)
    BY <1>2, <1>5, Kinds DEF V!VersionOf, MinorAt, IsPlace
  <2>2. IsServed(w, got)
    BY <1>2, <1>5, <2>1 DEF IsServed
  <2>3. QED
    BY <1>1, <1>5, <2>2
<1>6. CASE ~ (got # "system" /\ ~ forced)
           /\ \E python \in V!Candidates(asked, found) : done = Made(python)
  <2>1. PICK python \in V!Candidates(asked, found) : done = Made(python)
    BY <1>6
  <2>2. /\ python \in installed /\ python.minor \in setting.supported
        /\ asked # None => python = asked
    BY DEF V!Candidates
  <2>3. ~ forced => ~ V!InProjectExists(after)
    BY <1>1, <1>2, <1>6 DEF V!InProjectExists
  <2>4. forced \in BOOLEAN
    BY DEF V!IsSane
  <2>5. /\ WorldIsRight(done.world) /\ IsServed(done.world, done.env)
        /\ V!OnlyOutside => done.env = python.minor
        /\ ~ forced => \A m \in V!Minors : after.venvs[m] # None => done.world.venvs[m] = after.venvs[m]
    <3>. HIDE DEF forced, after
    <3>1. QED
      BY <1>1, <2>1, <2>2, <2>3, <2>4, MadeIsRight
  <2>6. ~ force /\ ~ setting.vanish => ~ forced
    BY <1>2, Kinds DEF V!IsSane, IsPlace, WorldIsRight, BuiltIsRight
  <2>7. QED
    BY <1>1, <1>6, <2>2, <2>5, <2>6
<1>7. QED
  BY <1>3, <1>4, <1>5, <1>6 DEF V!IsVenv


(* What is said of a world that a command leaves, and of what it reports.   *)
LEMMA Becoming ==
  ASSUME Around, NEW w, WorldIsRight(w), V!Becomes(w), UNCHANGED V!outside
  PROVE  Around' /\ WorldIsRight(V!World)'
         /\ venvs' = w.venvs /\ dotVenv' = w.dot /\ section' = w.section
<1>1. setting' = setting /\ installed' = installed /\ inProject' = inProject /\ shell' = shell
  BY DEF V!outside
<1>2. w = [venvs |-> venvs', dot |-> dotVenv', section |-> section']
  BY DEF V!Becomes, WorldIsRight, Worlds
<1>3. Around'
  BY <1>1 DEF Around
<1>4. WorldIsRight(V!World)'
  BY <1>1, <1>2 DEF V!World, WorldIsRight, Worlds, BuiltIsRight, SectionIsThere, V!OnlyOutside
<1>5. QED
  BY <1>3, <1>4 DEF V!Becomes

LEMMA InstallReports ==
  ASSUME Around, NEW w, WorldIsRight(w), V!Becomes(w), UNCHANGED V!outside,
         NEW place, place = "none" \/ IsServed(w, place), V!Reports("install", None, place)
  PROVE  VenvInv'
<1>1. /\ setting' = setting /\ shell' = shell
      /\ last' = [command |-> "install", asked |-> None, env |-> place]
  BY DEF V!outside, V!Reports
<1>2. Around' /\ WorldIsRight(V!World)' /\ venvs' = w.venvs /\ dotVenv' = w.dot
  BY Becoming
<1>3. place \in V!Location \cup {V!Nowhere} /\ place # "system"
  BY Kinds DEF IsServed, IsPlace, V!Location
<1>4. V!InstallIsSupported'
  <2>. SUFFICES ASSUME place # "none"
                PROVE  /\ place = "dot" => dotVenv' # None
                       /\ place \in V!Minors => venvs'[place] # None
                       /\ V!PythonAt(place)'.minor \in setting'.supported
    BY <1>1, Kinds DEF V!InstallIsSupported
  <2>1. IsServed(w, place)
    OBVIOUS
  <2>2. V!PythonAt(place)'.minor = MinorAt(w, place)
    BY <1>1, <1>2, <2>1, Kinds DEF V!PythonAt, MinorAt, IsServed, IsPlace
  <2>3. QED
    BY <1>1, <1>2, <2>1, <2>2 DEF IsServed, IsPlace
<1>5. LastIsRight'
  BY <1>1, <1>3, <1>4 DEF LastIsRight, V!AlwaysIsolated, V!UseIsObeyed, V!RemovedIsDeactivated,
     ChosenIsActive, V!Location, V!Nowhere
<1>6. QED
  BY <1>2, <1>5 DEF VenvInv

LEMMA UseReports ==
  ASSUME Around, NEW w, WorldIsRight(w), V!Becomes(w), UNCHANGED V!outside,
         NEW asked \in installed, NEW place \in V!Location \cup {"none"},
         V!OnlyOutside /\ place # "none" =>
           /\ place = asked.minor /\ w.venvs[place] # None
           /\ w.section # None /\ w.section.minor = place,
         V!Reports("use", asked, place)
  PROVE  VenvInv'
<1>1. /\ setting' = setting /\ shell' = shell
      /\ last' = [command |-> "use", asked |-> asked, env |-> place]
  BY DEF V!outside, V!Reports
<1>2. /\ Around' /\ WorldIsRight(V!World)' /\ venvs' = w.venvs /\ dotVenv' = w.dot
      /\ section' = w.section
  BY Becoming
<1>3. V!OnlyOutside' <=> V!OnlyOutside
  BY <1>1 DEF V!OnlyOutside
<1>4. V!UseIsObeyed'
  <2>. SUFFICES ASSUME V!OnlyOutside, place # "none"
                PROVE  place # "system" /\ V!PythonAt(place)'.minor = asked.minor
    BY <1>1, <1>3, Kinds DEF V!UseIsObeyed
  <2>1. place \in V!Minors /\ place = asked.minor /\ w.venvs[place] # None
    BY Kinds DEF Around
  <2>2. w.venvs[place].python.minor = place
    BY <2>1 DEF WorldIsRight, BuiltIsRight
  <2>3. V!PythonAt(place)' = w.venvs[place].python
    BY <1>2, <2>1, Kinds DEF V!PythonAt
  <2>4. QED
    BY <2>1, <2>2, <2>3, Kinds
<1>5. ChosenIsActive'
  BY <1>1, <1>2, <1>3, Kinds DEF ChosenIsActive
<1>6. LastIsRight'
  BY <1>1, <1>4, <1>5 DEF LastIsRight, V!AlwaysIsolated, V!InstallIsSupported,
     V!RemovedIsDeactivated, V!Location, V!Nowhere
<1>7. QED
  BY <1>2, <1>6 DEF VenvInv


LEMMA InstallStep ==
  ASSUME VenvInv, V!Install
  PROVE  VenvInv'
<1>0. PICK found \in installed : \E done \in V!CreateVenv(V!World, None, FALSE, found) :
        /\ V!Becomes(V!Fill(done.world, done.env))
        /\ V!Reports("install", None, done.env)
        /\ UNCHANGED V!outside
  BY DEF V!Install
<1>1. PICK done \in V!CreateVenv(V!World, None, FALSE, found) :
        /\ V!Becomes(V!Fill(done.world, done.env))
        /\ V!Reports("install", None, done.env)
        /\ UNCHANGED V!outside
  BY <1>0
<1>2. Around /\ WorldIsRight(V!World)
  BY DEF VenvInv
<1>3. WorldIsRight(done.world) /\ (done.env = "none" \/ IsServed(done.world, done.env))
  BY <1>2, CreateVenvIsRight
<1>. DEFINE full == V!Fill(done.world, done.env)
<1>4. /\ WorldIsRight(full)
      /\ done.env # "none" =>
           IsPlace(full, done.env) /\ MinorAt(full, done.env) = MinorAt(done.world, done.env)
  BY <1>2, <1>3, FillIsRight DEF IsServed
<1>5. done.env = "none" \/ IsServed(full, done.env)
  BY <1>3, <1>4 DEF IsServed
<1>. HIDE DEF full
<1>6. QED
  BY <1>1, <1>2, <1>4, <1>5, InstallReports DEF full

(* The last thing that env use does is to ask for the environment.          *)
LEMMA UseAsksAgain ==
  ASSUME Around, NEW w, WorldIsRight(w), NEW found \in installed, NEW python \in installed,
         V!OnlyOutside =>
           w.venvs[python.minor] # None /\ w.section # None /\ w.section.minor = python.minor,
         V!Becomes(V!AfterGet(w, found)), V!Reports("use", python, V!Get(w, found)),
         UNCHANGED V!outside
  PROVE  VenvInv'
<1>. DEFINE after == V!AfterGet(w, found)
            got == V!Get(w, found)
<1>1. WorldIsRight(after) /\ (got # "system" => after = w)
  BY AfterGetIsRight
<1>2. got \in V!Location \cup {"none"}
  BY GetFinds DEF IsPlace, V!Location
<1>3. ASSUME V!OnlyOutside
      PROVE  got = python.minor /\ got # "system"
  <2>1. ~ V!InProjectExists(w)
    BY <1>3 DEF V!OnlyOutside, V!InProjectExists, Around
  <2>2. got = python.minor
    BY <1>3, <2>1 DEF V!Get
  <2>3. QED
    BY <2>2, Kinds DEF Around
<1>. HIDE DEF after, got
<1>4. QED
  BY <1>1, <1>2, <1>3, UseReports DEF after, got

LEMMA UseFails ==
  ASSUME Around, NEW w, WorldIsRight(w), NEW python \in installed,
         V!Becomes(w), V!Reports("use", python, "none"), UNCHANGED V!outside
  PROVE  VenvInv'
BY UseReports

LEMMA UseStep ==
  ASSUME VenvInv, NEW python \in Pythons, V!Use(python)
  PROVE  VenvInv'
<1>1. PICK found \in installed :
        /\ python \in installed /\ UNCHANGED V!outside
        /\ IF V!UseInProject(V!World) THEN V!UseDot(python, found) ELSE V!UseCached(python, found)
  BY DEF V!Use
<1>2. /\ Around /\ WorldIsRight(V!World) /\ V!Nowhere = "none"
      /\ python \in Pythons /\ python # None /\ python.minor \in V!Minors /\ python.minor # "none"
  BY Kinds DEF VenvInv
<1>3. CASE V!UseInProject(V!World) /\ V!UseDot(python, found)
  <2>. DEFINE rebuild == dotVenv # None /\ V!VersionOf(V!World, "dot", found) # python
  <2>1. PICK done \in V!CreateVenv(V!World, python, rebuild, found) :
          IF done.env = "none" THEN V!Becomes(done.world) /\ V!Reports("use", python, "none")
          ELSE /\ V!Becomes(V!AfterGet(done.world, found))
               /\ V!Reports("use", python, V!Get(done.world, found))
    BY <1>2, <1>3 DEF V!UseDot
  <2>2. rebuild \in BOOLEAN
    OBVIOUS
  <2>. HIDE DEF rebuild
  <2>3. WorldIsRight(done.world)
    BY <1>1, <1>2, <2>2, CreateVenvIsRight
  <2>4. ~ V!OnlyOutside
    BY <1>2, <1>3 DEF V!OnlyOutside, V!UseInProject, Around
  <2>5. QED
    BY <1>1, <1>2, <2>1, <2>3, <2>4, UseFails, UseAsksAgain
<1>4. CASE ~ V!UseInProject(V!World) /\ V!UseCached(python, found)
  <2>. DEFINE rebuild == venvs[python.minor] = None \/ V!IsOutdated(python)
  <2>1. PICK done \in IF rebuild THEN V!CreateVenv(V!World, python, TRUE, found)
                      ELSE {[world |-> V!World, env |-> python.minor]} :
          IF done.env = "none" THEN V!Becomes(done.world) /\ V!Reports("use", python, "none")
          ELSE /\ V!Becomes(V!AfterGet(V!Activated(done.world, python), found))
               /\ V!Reports("use", python, V!Get(V!Activated(done.world, python), found))
    BY <1>2, <1>4 DEF V!UseCached
  <2>2. /\ WorldIsRight(done.world)
        /\ V!OnlyOutside /\ done.env # "none" => done.world.venvs[python.minor] # None
    <3>1. CASE done \in V!CreateVenv(V!World, python, TRUE, found)
      <4>1. /\ WorldIsRight(done.world)
            /\ done.env = "none" \/ IsServed(done.world, done.env)
            /\ V!OnlyOutside => done.env \in {"none", python.minor}
        BY <1>1, <1>2, <3>1, CreateVenvIsRight
      <4>2. QED
        BY <1>2, <4>1 DEF IsServed, IsPlace
    <3>2. CASE ~ rebuild /\ done = [world |-> V!World, env |-> python.minor]
      BY <1>2, <3>2 DEF V!World
    <3>3. QED
      BY <2>1, <3>1, <3>2
  <2>3. CASE done.env = "none"
    BY <1>1, <1>2, <2>1, <2>2, <2>3, UseFails
  <2>4. CASE done.env # "none"
    <3>. DEFINE chosen == V!Activated(done.world, python)
    <3>1. chosen \in Worlds /\ chosen.section = python
          /\ chosen.venvs = done.world.venvs /\ chosen.dot = done.world.dot
      BY <1>2, <2>2 DEF V!Activated, WorldIsRight, Worlds
    <3>2. WorldIsRight(chosen)
      BY <2>2, <2>4, <3>1 DEF WorldIsRight, BuiltIsRight, SectionIsThere
    <3>3. V!Becomes(V!AfterGet(chosen, found)) /\ V!Reports("use", python, V!Get(chosen, found))
      BY <2>1, <2>4
    <3>. HIDE DEF chosen
    <3>4. QED
      BY <1>1, <1>2, <2>2, <2>4, <3>1, <3>2, <3>3, UseAsksAgain
  <2>5. QED
    BY <2>3, <2>4
<1>5. QED
  BY <1>1, <1>3, <1>4


(* The commands that take an environment, or the choice of one, away.      *)
LEMMA TakenAway ==
  ASSUME Around, NEW w, WorldIsRight(w), V!Becomes(w), UNCHANGED V!outside,
         NEW command \in {"use system", "remove"}, V!Reports(command, None, "none"),
         V!OnlyOutside /\ ~ setting.vanish /\ w.section # None =>
           w.venvs[w.section.minor] # None
  PROVE  VenvInv'
<1>1. setting' = setting /\ last' = [command |-> command, asked |-> None, env |-> "none"]
  BY DEF V!outside, V!Reports
<1>2. Around' /\ WorldIsRight(V!World)' /\ venvs' = w.venvs /\ section' = w.section
  BY Becoming
<1>3. LastIsRight'
  BY <1>1, <1>2 DEF LastIsRight, V!AlwaysIsolated, V!InstallIsSupported, V!UseIsObeyed,
     V!RemovedIsDeactivated, ChosenIsActive, V!OnlyOutside, V!Location, V!Nowhere
<1>4. QED
  BY <1>2, <1>3 DEF VenvInv

LEMMA UseSystemStep ==
  ASSUME VenvInv, V!UseSystem
  PROVE  VenvInv'
<1>. DEFINE w == [venvs |-> venvs, dot |-> dotVenv, section |-> None]
<1>1. Around /\ WorldIsRight(V!World) /\ V!Nowhere = "none"
  BY Kinds DEF VenvInv
<1>2. WorldIsRight(w) /\ w.section = None
  BY <1>1 DEF WorldIsRight, Worlds, BuiltIsRight, SectionIsThere, V!World
<1>3. V!Becomes(w) /\ V!Reports("use system", None, "none") /\ UNCHANGED V!outside
  BY <1>1 DEF V!UseSystem, V!Becomes
<1>. HIDE DEF w
<1>4. QED
  BY <1>1, <1>2, <1>3, TakenAway

LEMMA RemoveStep ==
  ASSUME VenvInv, NEW m \in V!Minors, V!Remove(m)
  PROVE  VenvInv'
<1>1. Around /\ WorldIsRight(V!World) /\ V!Nowhere = "none" /\ m # "dot"
  BY Kinds DEF VenvInv
<1>2. /\ V!World.venvs = venvs /\ V!World.dot = dotVenv /\ V!World.section = section
      /\ venvs \in [V!Minors -> V!Built \cup {None}] /\ dotVenv \in V!Built \cup {None}
      /\ section \in Pythons \cup {None}
  BY <1>1 DEF V!World, WorldIsRight, Worlds
<1>3. venvs[m] # None /\ (~ setting.vanish => venvs[m].python \in installed)
      /\ venvs[m].python.minor = m
  BY <1>1, <1>2 DEF V!Remove, WorldIsRight, BuiltIsRight
<1>4. ASSUME NEW found \in installed, ~ setting.vanish
      PROVE  V!VersionOf(V!World, m, found).minor = m
  <2>1. V!IsSane(V!World, m)
    BY <1>1, <1>2, <1>3, <1>4 DEF V!IsSane
  <2>2. V!VersionOf(V!World, m, found) = V!World.venvs[m].python
    BY <1>1, <2>1, Kinds DEF V!VersionOf
  <2>3. QED
    BY <1>2, <1>3, <2>2
<1>5. /\ section' \in {section, None}
      /\ ~ setting.vanish /\ section' # None => section.minor # m
  BY <1>4 DEF V!Remove, V!SectionWithout
<1>. DEFINE w == [venvs |-> [venvs EXCEPT ![m] = None], dot |-> dotVenv, section |-> section']
<1>6. /\ w \in Worlds /\ w.venvs[m] = None
      /\ \A n \in V!Minors \ {m} : w.venvs[n] = venvs[n]
      /\ w.dot = dotVenv /\ w.section \in {section, None}
      /\ ~ setting.vanish /\ w.section # None => section.minor # m
  BY <1>2, <1>5 DEF Worlds
<1>7. BuiltIsRight(w)
  BY <1>1, <1>2, <1>6 DEF WorldIsRight, BuiltIsRight
<1>8. SectionIsThere(w)
  <2>. SUFFICES ASSUME V!OnlyOutside, ~ setting.vanish, w.section # None
                PROVE  w.venvs[w.section.minor] # None
    BY DEF SectionIsThere
  <2>1. w.section = section /\ section \in Pythons /\ section.minor # m
    BY <1>2, <1>6
  <2>2. section.minor \in V!Minors /\ venvs[section.minor] # None
    BY <1>1, <1>2, <2>1, Kinds DEF WorldIsRight, SectionIsThere
  <2>3. QED
    BY <1>6, <2>1, <2>2
<1>9. V!Becomes(w) /\ V!Reports("remove", None, "none") /\ UNCHANGED V!outside
  BY <1>1 DEF V!Remove, V!Becomes, V!outside
<1>. HIDE DEF w
<1>10. QED
  BY <1>1, <1>6, <1>7, <1>8, <1>9, TakenAway DEF WorldIsRight, SectionIsThere

LEMMA RemoveAllStep ==
  ASSUME VenvInv, V!RemoveAll
  PROVE  VenvInv'
<1>. DEFINE w == [venvs |-> IF inProject = "true" THEN venvs ELSE [m \in V!Minors |-> None],
                  dot |-> IF inProject # "false" THEN None ELSE dotVenv, section |-> None]
<1>1. Around /\ WorldIsRight(V!World) /\ V!Nowhere = "none"
  BY Kinds DEF VenvInv
<1>2. WorldIsRight(w) /\ w.section = None
  BY <1>1 DEF WorldIsRight, Worlds, BuiltIsRight, SectionIsThere, V!World
<1>3. V!Becomes(w) /\ V!Reports("remove", None, "none") /\ UNCHANGED V!outside
  BY <1>1 DEF V!RemoveAll, V!Becomes
<1>. HIDE DEF w
<1>4. QED
  BY <1>1, <1>2, <1>3, TakenAway

LEMMA RemoveDotStep ==
  ASSUME VenvInv, V!RemoveDot
  PROVE  VenvInv'
<1>. DEFINE w == [venvs |-> venvs, dot |-> None, section |-> section]
<1>1. Around /\ WorldIsRight(V!World) /\ V!Nowhere = "none"
  BY Kinds DEF VenvInv
<1>2. WorldIsRight(w)
  BY <1>1 DEF WorldIsRight, Worlds, BuiltIsRight, SectionIsThere, V!World
<1>3. V!Becomes(w) /\ V!Reports("remove", None, "none") /\ UNCHANGED V!outside
  BY <1>1 DEF V!RemoveDot, V!Becomes, V!outside
<1>4. ~ V!OnlyOutside
  BY <1>1 DEF V!RemoveDot, V!OnlyOutside, Around
<1>. HIDE DEF w
<1>5. QED
  BY <1>1, <1>2, <1>3, <1>4, TakenAway

LEMMA OutsideStep ==
  ASSUME VenvInv, V!Outside
  PROVE  VenvInv'
<1>1. Around /\ WorldIsRight(V!World) /\ last' = [command |-> "none", asked |-> None, env |-> "none"]
  BY Kinds DEF VenvInv, V!Outside
<1>2. LastIsRight'
  BY <1>1 DEF LastIsRight, V!AlwaysIsolated, V!InstallIsSupported, V!UseIsObeyed,
     V!RemovedIsDeactivated, ChosenIsActive, V!Location, V!Nowhere
<1>3. CASE V!MakeDotVenv
  <2>1. PICK p \in installed : dotVenv' = V!New(p)
    BY <1>3 DEF V!MakeDotVenv
  <2>. DEFINE w == V!BuildAt(V!World, "dot", p)
  <2>2. WorldIsRight(w)
    BY <1>1, BuildIsRight
  <2>3. w = [venvs |-> venvs, dot |-> V!New(p), section |-> section]
    BY DEF V!BuildAt, V!World
  <2>4. V!Becomes(w) /\ UNCHANGED V!outside
    BY <1>3, <2>1, <2>3 DEF V!Becomes, V!MakeDotVenv
  <2>. HIDE DEF w
  <2>5. QED
    BY <1>1, <1>2, <2>2, <2>4, Becoming DEF VenvInv
<1>4. CASE V!Configure
  BY <1>1, <1>2, <1>4 DEF V!Configure, VenvInv, Around, V!World, WorldIsRight, Worlds, BuiltIsRight,
     SectionIsThere, V!OnlyOutside
<1>5. CASE V!ActivateShell
  BY <1>1, <1>2, <1>5 DEF V!ActivateShell, VenvInv, Around, V!World, WorldIsRight, Worlds,
     BuiltIsRight, SectionIsThere, V!OnlyOutside
<1>6. CASE V!InstallPython
  <2>1. /\ installed \subseteq installed' /\ installed' \in (SUBSET Pythons) \ {{}}
        /\ UNCHANGED <<setting, inProject, shell, venvs, dotVenv, section>>
    <3>1. PICK p \in Pythons \ installed : installed' = installed \cup {p}
      BY <1>6 DEF V!InstallPython
    <3>2. installed \subseteq Pythons
      BY <1>1 DEF Around
    <3>3. UNCHANGED <<setting, inProject, shell, venvs, dotVenv, section>>
      BY <1>6 DEF V!InstallPython
    <3>4. p \in installed' /\ installed \subseteq installed' /\ installed' \subseteq Pythons
      BY <3>1, <3>2
    <3>5. QED
      BY ONLY <3>3, <3>4
  <2>2. Around'
    BY <1>1, <2>1 DEF Around
  <2>3. WorldIsRight(V!World)'
    BY <1>1, <2>1 DEF V!World, WorldIsRight, Worlds, BuiltIsRight, SectionIsThere, V!OnlyOutside
  <2>4. QED
    BY <1>2, <2>2, <2>3 DEF VenvInv
<1>7. CASE V!UninstallPython
  BY <1>1, <1>2, <1>7 DEF V!UninstallPython, VenvInv, Around, V!World, WorldIsRight, Worlds,
     BuiltIsRight, SectionIsThere, V!OnlyOutside
<1>8. QED
  BY <1>3, <1>4, <1>5, <1>6, <1>7 DEF V!Outside

LEMMA VenvStep ==
  ASSUME VenvInv, [V!Next]_venvvars
  PROVE  VenvInv'
<1>1. CASE UNCHANGED venvvars
  BY <1>1 DEF venvvars, VenvInv, Around, WorldIsRight, Worlds, BuiltIsRight, SectionIsThere, V!World,
     LastIsRight, V!AlwaysIsolated, V!InstallIsSupported, V!UseIsObeyed, V!RemovedIsDeactivated,
     ChosenIsActive, V!OnlyOutside, V!PythonAt
<1>2. CASE V!Next
  BY <1>2, InstallStep, UseStep, UseSystemStep, RemoveStep, RemoveAllStep, RemoveDotStep, OutsideStep
     DEF V!Next
<1>3. QED
  BY <1>1, <1>2


LEMMA VenvStarting == MCInit => VenvInv
BY VenvStarts DEF MCInit

LEMMA VenvNext ==
  ASSUME [MCNext]_<<subject, vars, venvvars, pluginvars>>
  PROVE  [V!Next]_venvvars
BY DEF MCNext

(* The environment that a command gets is one that it may have: the        *)
(* packages are installed in an isolated one that is there and whose Python *)
(* is supported, env use activates what it was asked for, and env remove    *)
(* deactivates what it removes.                                            *)
THEOREM EnvironmentsAreRight == MCSpec => []EnvIsRight
<1>1. VenvInv /\ [MCNext]_<<subject, vars, venvvars, pluginvars>> => VenvInv'
  BY VenvNext, VenvStep
<1>2. VenvInv => EnvIsRight
  BY VenvTypes DEF VenvInv, LastIsRight, EnvIsRight, V!EnvIsRight
<1>3. QED
  BY <1>1, <1>2, VenvStarting, PTL DEF MCSpec
-----------------------------------------------------------------------------
(* How long they last *)

(* An install keeps what was built and filled, and works in what was chosen. *)
LEMMA InstallKeeps ==
  ASSUME VenvInv, V!Install, ~ setting.vanish
  PROVE  /\ \A m \in V!Minors : venvs[m] # None /\ venvs[m].filled => venvs'[m] = venvs[m]
         /\ V!OnlyOutside /\ section # None => last'.env \in {"none", section.minor}
<1>0. PICK found \in installed : \E done \in V!CreateVenv(V!World, None, FALSE, found) :
        V!Becomes(V!Fill(done.world, done.env)) /\ V!Reports("install", None, done.env)
  BY DEF V!Install
<1>1. PICK done \in V!CreateVenv(V!World, None, FALSE, found) :
        V!Becomes(V!Fill(done.world, done.env)) /\ V!Reports("install", None, done.env)
  BY <1>0
<1>2. Around /\ WorldIsRight(V!World) /\ V!World.venvs = venvs /\ V!World.section = section
  BY DEF VenvInv, V!World
<1>3. /\ WorldIsRight(done.world) /\ (done.env = "none" \/ IsServed(done.world, done.env))
      /\ \A m \in V!Minors : venvs[m] # None => done.world.venvs[m] = venvs[m]
      /\ V!Get(V!World, found) # "system" => done.env \in {"none", V!Get(V!World, found)}
  <2>1. FALSE \in BOOLEAN /\ None \in installed \cup {None}
    OBVIOUS
  <2>2. /\ WorldIsRight(done.world) /\ (done.env = "none" \/ IsServed(done.world, done.env))
        /\ \A m \in V!Minors : V!World.venvs[m] # None => done.world.venvs[m] = V!World.venvs[m]
        /\ V!Get(V!World, found) # "system" => done.env \in {"none", V!Get(V!World, found)}
    BY <1>2, <2>1, CreateVenvIsRight
  <2>3. QED
    BY <1>2, <2>2
<1>4. \A m \in V!Minors : done.world.venvs[m] # None /\ done.world.venvs[m].filled =>
        venvs'[m] = done.world.venvs[m]
  BY <1>1, <1>2, <1>3, FillIsRight DEF V!Becomes, IsServed
<1>5. ASSUME V!OnlyOutside, section # None
      PROVE  last'.env \in {"none", section.minor}
  <2>1. V!Get(V!World, found) = section.minor
    BY <1>2, <1>5, GetFinds
  <2>2. section.minor # "system"
    BY <1>2, <1>5, Kinds DEF WorldIsRight, Worlds
  <2>3. QED
    BY <1>1, <1>3, <2>1, <2>2 DEF V!Reports
<1>6. QED
  BY <1>3, <1>4, <1>5

LEMMA WhichCommand ==
  ASSUME V!Next
  PROVE  /\ last'.command = "install" => V!Install
         /\ last'.command \in {"use system", "none"} => venvs' = venvs
<1>0. ASSUME NEW command, NEW asked, NEW place, V!Reports(command, asked, place)
      PROVE  last'.command = command
  BY <1>0 DEF V!Reports
<1>1. CASE V!Install
  <2>1. last'.command = "install"
    <3>1. \E found, done : V!Reports("install", None, done.env)
      BY <1>1 DEF V!Install
    <3>2. QED
      BY <1>0, <3>1
  <2>2. QED
    BY <1>1, <2>1
<1>2. CASE \E python \in Pythons : V!Use(python)
  <2>0. PICK python \in Pythons : V!Use(python)
    BY <1>2
  <2>1. PICK found \in installed :
          IF V!UseInProject(V!World) THEN V!UseDot(python, found) ELSE V!UseCached(python, found)
    BY <2>0 DEF V!Use
  <2>2. \E place : V!Reports("use", python, place)
    BY <2>1 DEF V!UseDot, V!UseCached
  <2>3. QED
    BY <1>0, <2>2
<1>3. CASE V!UseSystem
  BY <1>0, <1>3 DEF V!UseSystem
<1>4. CASE (\E m \in V!Minors : V!Remove(m)) \/ V!RemoveAll \/ V!RemoveDot
  <2>1. V!Reports("remove", None, V!Nowhere)
    BY <1>4 DEF V!Remove, V!RemoveAll, V!RemoveDot
  <2>2. QED
    BY <1>0, <2>1
<1>5. CASE V!Outside
  BY <1>5 DEF V!Outside, V!MakeDotVenv, V!Configure, V!ActivateShell, V!InstallPython, V!UninstallPython
<1>6. QED
  BY <1>1, <1>2, <1>3, <1>4, <1>5 DEF V!Next

(* What was installed in an environment stays until it is emptied for a     *)
(* reason, and what was chosen with env use is what the next install works  *)
(* in, whatever else is installed, active or configured.                   *)
THEOREM EnvironmentsStay == MCSpec => EnvironmentsLast
<1>. DEFINE Kept == ~ setting.vanish /\ last'.command \in {"install", "use system", "none"} =>
              \A m \in V!Minors : V!Keeps(m)
            Chosen == V!OnlyOutside /\ ~ setting.vanish /\ last.command = "use" /\ last.env \in V!Minors =>
              (last'.command = "install" /\ last'.env # V!Nowhere => last'.env = last.env)
<1>1. VenvInv /\ V!Next => Kept
  BY WhichCommand, InstallKeeps DEF V!Keeps
<1>2. VenvInv /\ V!Next => Chosen
  BY WhichCommand, InstallKeeps, Kinds DEF VenvInv, LastIsRight, ChosenIsActive
<1>3. VenvInv /\ [MCNext]_<<subject, vars, venvvars, pluginvars>> => [Kept]_venvvars /\ [Chosen]_venvvars
  <2>1. ASSUME [MCNext]_<<subject, vars, venvvars, pluginvars>>
        PROVE  V!Next \/ UNCHANGED venvvars
    BY <2>1, VenvNext
  <2>. HIDE DEF Kept, Chosen
  <2>2. QED
    BY <1>1, <1>2, <2>1
<1>4. VenvInv /\ [MCNext]_<<subject, vars, venvvars, pluginvars>> => VenvInv'
  BY VenvNext, VenvStep
<1>5. QED
  BY <1>3, <1>4, VenvStarting, PTL
     DEF MCSpec, EnvironmentsLast, V!EnvironmentsLast, V!HealthyIsKept, V!ChoiceLasts, V!vars, venvvars
-----------------------------------------------------------------------------
(* Plugins *)

(* One install at a time.                                                  *)
OneInstall == \E p : Procs = {p}
TheInstall == CHOOSE p : Procs = {p}

(* No edit brings a former section back.                                   *)
Forwards(rank) == rank \in [Sections -> Nat] /\ \A e \in Edits : rank[e[1]] < rank[e[2]]
NoWayBack == \E rank : Forwards(rank)
Rank == CHOOSE rank : Forwards(rank)

Place(n) == CHOOSE i \in DOMAIN Order : Order[i] = n
(* What a package of Poetry's environment requires is no plugin that the   *)
(* project requires, and is seen before the last of those.                 *)
RequirementsArePinned ==
  \A e \in Installations : \A n \in G!Has(e) : \A r \in Requires[n][e[n]] :
    \A s \in Sections, v \in Versions :
      LET needed == G!Relevant(s, v)
      IN needed # {} => /\ \A q \in needed : q.name # r.name
                        /\ \E q \in needed : Place(r.name) < Place(q.name)

Configs == [section : Sections, poetry : Versions]
Now == G!ConfigOf(required, poetry[Core])
NotAfter(c, d) == (c.section = d.section \/ Rank[c.section] < Rank[d.section]) /\ c.poetry <= d.poetry

(* With these packages the plugins work, and nothing is broken.            *)
Suits(c, packages) ==
  G!IsConsistent(packages) /\ \A r \in G!Relevant(c.section, c.poetry) : G!IsMet(r, packages)

(* The cache once everything is installed.                                 *)
Planned(p) ==
  [n \in PoetryNames |-> IF \E v \in Versions : <<n, v>> \in missing[p]
                         THEN CHOOSE v \in Versions : <<n, v>> \in missing[p] ELSE cache[n]]
HasOne(p) == \A t, u \in missing[p] : t[1] = u[1] => t = u

PluginTypes(p) ==
  /\ required \in Sections /\ poetry \in Installations
  /\ {meddled, dir, ignored} \subseteq BOOLEAN
  /\ cache \in [PoetryNames -> Versions \cup {Absent}]
  /\ config \in Configs \cup {NoFile, EmptyFile}
  /\ pc \in [Procs -> {"idle", "check", "remove", "scan", "ensure", "ignore", "install",
                       "open", "fill", "done", "failed"}]
  /\ mine \in [Procs -> Configs] /\ onPath \in [Procs -> BOOLEAN]
  /\ doomed \in [Procs -> SUBSET (PoetryNames \cup {"config.toml"})]
  /\ missing \in [Procs -> SUBSET (PoetryNames \X Versions)]

(* Time goes forward.                                                      *)
InOrder(p) ==
  /\ NotAfter(mine[p], Now)
  /\ config \in Configs => NotAfter(config, mine[p]) /\ config.section # {}
  /\ pc[p] = "remove" => config # mine[p]

(* What there is of .poetry/plugins while an install goes on.              *)
FilesAre(p) ==
  /\ G!Has(cache) # {} \/ config # NoFile => dir
  /\ pc[p] \in {"scan", "ensure", "ignore", "install", "open"} => config = NoFile
  /\ pc[p] = "fill" => config = EmptyFile
  /\ pc[p] = "scan" => ~ dir
  /\ pc[p] \in {"ignore", "install", "open", "fill"} => dir
  /\ (pc[p] = "ensure" /\ dir) \/ pc[p] \in {"install", "open", "fill"} => ignored
  /\ G!Has(cache) # {} \/ config # NoFile => ignored
  /\ pc[p] = "done" => IF mine[p].section = {} THEN ~ dir ELSE config = mine[p]

(* What is installed, or will be, suits what it is installed for.          *)
PlanSuits(p) ==
  pc[p] \in {"ensure", "ignore", "install", "open", "fill"} =>
    /\ HasOne(p)
    /\ ~ meddled /\ mine[p] = Now => Suits(mine[p], G!Over(Planned(p), poetry))
CacheSuits == config = Now /\ ~ meddled => Suits(config, G!Over(cache, poetry))

StagesAre(p) ==
  /\ pc[p] \in {"scan", "ensure", "ignore", "install", "open", "fill"} => mine[p].section # {}
  /\ pc[p] \in {"open", "fill"} => missing[p] = {}

PluginInv ==
  LET p == TheInstall
  IN /\ PluginTypes(p) /\ InOrder(p) /\ FilesAre(p) /\ StagesAre(p) /\ PlanSuits(p) /\ CacheSuits
LEMMA PluginKinds ==
  /\ Core \in PoetryNames /\ Versions \subseteq Nat /\ Absent \notin Versions
  /\ NoFile # EmptyFile /\ NoFile \notin Configs /\ EmptyFile \notin Configs
  /\ \A s \in Sections : \A r \in s : r.name \in PoetryNames /\ r.versions \subseteq Versions
  /\ \A e \in Edits : e[1] \in Sections /\ e[2] \in Sections
  /\ Installations \subseteq [PoetryNames -> Versions \cup {Absent}]
  /\ \A e \in Installations : e[Core] \in Versions /\ G!IsConsistent(e)
  /\ \A n \in PoetryNames, v \in Versions : \A r \in Requires[n][v] :
       r.name \in PoetryNames /\ r.versions \subseteq Versions
<1>1. /\ Core \in PoetryNames /\ Versions \subseteq Nat /\ Absent \notin Versions /\ NoFile # EmptyFile
      /\ \A s \in Sections : \A r \in s : r.name \in PoetryNames /\ r.versions \subseteq Versions
      /\ Edits \subseteq Sections \X Sections
      /\ \A s \in Sections, v \in Versions : G!ConfigOf(s, v) \notin {NoFile, EmptyFile}
      /\ Requires \in [PoetryNames -> [Versions -> SUBSET [name : PoetryNames, versions : SUBSET Versions]]]
      /\ Installations \subseteq [PoetryNames -> Versions \cup {Absent}]
      /\ \A e \in Installations : e[Core] \in Versions /\ G!IsConsistent(e)
  BY OneOfPlugins DEF G!PluginCacheAssumption
<1>2. ASSUME NEW c \in Configs PROVE c # NoFile /\ c # EmptyFile
  <2>1. c.section \in Sections /\ c.poetry \in Versions /\ c = G!ConfigOf(c.section, c.poetry)
    BY <1>2 DEF Configs, G!ConfigOf
  <2>. QED
    BY <1>1, <2>1
<1>3. ASSUME NEW n \in PoetryNames, NEW v \in Versions, NEW r \in Requires[n][v]
      PROVE  r.name \in PoetryNames /\ r.versions \subseteq Versions
  <2>1. Requires[n][v] \in SUBSET [name : PoetryNames, versions : SUBSET Versions]
    BY <1>1
  <2>. QED
    BY <1>3, <2>1
<1>. QED
  BY <1>1, <1>2, <1>3

LEMMA TheOne ==
  ASSUME OneInstall
  PROVE  Procs = {TheInstall}
BY DEF OneInstall, TheInstall

(* One configuration is never both before and after another.               *)
LEMMA OrderOfConfigs ==
  ASSUME NoWayBack, NEW c \in Configs, NEW d \in Configs, NEW e \in Configs
  PROVE  /\ NotAfter(c, c)
         /\ NotAfter(c, d) /\ NotAfter(d, e) => NotAfter(c, e)
         /\ NotAfter(c, d) /\ NotAfter(d, c) => c = d
<1>1. Rank \in [Sections -> Nat]
  BY DEF NoWayBack, Rank, Forwards
<1>2. /\ c = [section |-> c.section, poetry |-> c.poetry] /\ d = [section |-> d.section, poetry |-> d.poetry]
      /\ {c.section, d.section, e.section} \subseteq Sections
      /\ {c.poetry, d.poetry, e.poetry} \subseteq Nat
  BY PluginKinds DEF Configs
<1>3. {Rank[c.section], Rank[d.section], Rank[e.section]} \subseteq Nat
  BY <1>1, <1>2
<1>4. NotAfter(c, c) /\ (NotAfter(c, d) /\ NotAfter(d, e) => NotAfter(c, e))
  BY <1>2, <1>3 DEF NotAfter
<1>5. ASSUME NotAfter(c, d), NotAfter(d, c) PROVE c = d
  <2>1. c.section = d.section /\ c.poetry = d.poetry
    BY <1>2, <1>3, <1>5 DEF NotAfter
  <2>. QED
    BY <1>2, <2>1
<1>. QED
  BY <1>4, <1>5

LEMMA NowIsConfig ==
  ASSUME required \in Sections, poetry \in Installations
  PROVE  Now \in Configs /\ Now.section = required /\ Now.poetry = poetry[Core]
BY PluginKinds DEF Now, Configs, G!ConfigOf

LEMMA PluginsStart ==
  ASSUME OneInstall, NoWayBack, G!Init
  PROVE  PluginInv
<1>. DEFINE p == TheInstall
<1>1. p \in Procs
  BY TheOne
<1>2. /\ required \in Sections /\ poetry \in Installations /\ Now \in Configs
      /\ mine = [q \in Procs |-> Now] /\ mine[p] = Now
  BY <1>1, NowIsConfig DEF G!Init, Now
<1>3. NotAfter(mine[p], Now)
  BY <1>2, OrderOfConfigs
<1>4. G!Has(cache) = {} /\ config = NoFile /\ pc[p] = "idle" /\ cache \in [PoetryNames -> Versions \cup {Absent}]
  BY <1>1 DEF G!Init, G!Has, G!Nothing
<1>5. PluginTypes(p)
  BY <1>2, <1>4 DEF PluginTypes, G!Init
<1>6. InOrder(p) /\ FilesAre(p) /\ StagesAre(p) /\ PlanSuits(p) /\ CacheSuits
  BY <1>2, <1>3, <1>4, PluginKinds DEF InOrder, FilesAre, StagesAre, PlanSuits, CacheSuits
<1>. QED
  BY <1>5, <1>6 DEF PluginInv

(* A step of an install that changes neither what is there nor the plan.   *)
LEMMA StartPluginsStep ==
  ASSUME OneInstall, NoWayBack, PluginInv, NEW p \in Procs, G!Start(p)
  PROVE  PluginInv'
<1>0. p = TheInstall
  BY TheOne
<1>1. /\ PluginTypes(p) /\ InOrder(p) /\ FilesAre(p) /\ StagesAre(p) /\ PlanSuits(p) /\ CacheSuits
      /\ Now \in Configs
  BY <1>0, NowIsConfig DEF PluginInv, PluginTypes
<1>2. /\ pc' = [pc EXCEPT ![p] = "check"] /\ mine' = [mine EXCEPT ![p] = Now]
      /\ onPath' = [onPath EXCEPT ![p] = dir]
      /\ UNCHANGED <<required, poetry, meddled, dir, ignored, cache, config, doomed, missing>>
  BY DEF G!Start, G!world, G!files, Now
<1>3. pc'[p] = "check" /\ mine'[p] = Now /\ Now' = Now
  BY <1>1, <1>2 DEF PluginTypes, Now
<1>4. PluginTypes(p)'
  BY <1>1, <1>2 DEF PluginTypes
<1>5. InOrder(p)'
  <2>1. mine[p] \in Configs
    BY <1>1 DEF PluginTypes
  <2>2. NotAfter(Now, Now) /\ (config \in Configs => NotAfter(config, Now))
    BY <1>1, <2>1, OrderOfConfigs DEF InOrder
  <2>3. NotAfter(mine'[p], Now') /\ (config' \in Configs => NotAfter(config', mine'[p]) /\ config'.section # {})
    BY <1>1, <1>2, <1>3, <2>2 DEF InOrder
  <2>. QED
    BY <1>3, <2>3 DEF InOrder, NotAfter
<1>6. FilesAre(p)' /\ StagesAre(p)' /\ PlanSuits(p)' /\ CacheSuits'
  BY <1>1, <1>2, <1>3 DEF FilesAre, StagesAre, PlanSuits, CacheSuits, Suits, G!Has
<1>. QED
  BY <1>0, <1>4, <1>5, <1>6 DEF PluginInv

(* All that is known while p is at work.                                   *)
LEMMA InvOfOne ==
  ASSUME OneInstall, PluginInv, NEW p \in Procs
  PROVE  /\ PluginTypes(p) /\ InOrder(p) /\ FilesAre(p) /\ StagesAre(p) /\ PlanSuits(p) /\ CacheSuits
         /\ Now \in Configs /\ Now.section = required /\ Now.poetry = poetry[Core] /\ mine[p] \in Configs
<1>1. p = TheInstall
  BY TheOne
<1>. QED
  BY <1>1, NowIsConfig DEF PluginInv, PluginTypes

LEMMA InvFromOne ==
  ASSUME OneInstall, NEW p \in Procs,
         (PluginTypes(p) /\ InOrder(p) /\ FilesAre(p) /\ StagesAre(p) /\ PlanSuits(p) /\ CacheSuits)'
  PROVE  PluginInv'
<1>1. p = TheInstall
  BY TheOne
<1>. QED
  BY <1>1 DEF PluginInv

LEMMA CheckPluginsStep ==
  ASSUME OneInstall, NoWayBack, PluginInv, NEW p \in Procs, G!Check(p)
  PROVE  PluginInv'
<1>1. /\ PluginTypes(p) /\ InOrder(p) /\ FilesAre(p) /\ StagesAre(p) /\ PlanSuits(p) /\ CacheSuits
      /\ Now \in Configs /\ mine[p] \in Configs
  BY InvOfOne
<1>2. /\ pc' = [pc EXCEPT ![p] = IF mine[p].section = {} THEN (IF dir THEN "remove" ELSE "done")
                                 ELSE IF config = mine[p] THEN "done" ELSE IF dir THEN "remove" ELSE "scan"]
      /\ doomed' = [doomed EXCEPT ![p] = G!Entries]
      /\ UNCHANGED <<required, poetry, meddled, dir, ignored, cache, config, mine, onPath, missing>>
      /\ pc[p] = "check"
  BY DEF G!Check, G!Goes, G!world, G!files, G!IsFresh, G!AfterOutdated
<1>3. pc'[p] = IF mine[p].section = {} THEN (IF dir THEN "remove" ELSE "done")
               ELSE IF config = mine[p] THEN "done" ELSE IF dir THEN "remove" ELSE "scan"
  BY <1>1, <1>2 DEF PluginTypes
<1>4. G!Entries \subseteq PoetryNames \cup {"config.toml"}
  BY DEF G!Entries, G!Has
<1>5. PluginTypes(p)'
  <2>1. pc' \in [Procs -> {"idle", "check", "remove", "scan", "ensure", "ignore", "install",
                           "open", "fill", "done", "failed"}]
    BY <1>1, <1>2 DEF PluginTypes
  <2>2. doomed' \in [Procs -> SUBSET (PoetryNames \cup {"config.toml"})]
    BY <1>1, <1>2, <1>4 DEF PluginTypes
  <2>. QED
    BY <1>1, <1>2, <2>1, <2>2 DEF PluginTypes
<1>6. InOrder(p)'
  BY <1>1, <1>2, <1>3 DEF InOrder, NotAfter, Now
<1>7. FilesAre(p)' /\ StagesAre(p)' /\ PlanSuits(p)' /\ CacheSuits'
  BY <1>1, <1>2, <1>3 DEF FilesAre, StagesAre, PlanSuits, CacheSuits, Suits, G!Has, Now
<1>. QED
  BY <1>5, <1>6, <1>7, InvFromOne

(* config.toml is that of a former section while the directory is removed. *)
LEMMA RemovePluginsStep ==
  ASSUME OneInstall, NoWayBack, PluginInv, NEW p \in Procs, G!RemoveEntry(p)
  PROVE  PluginInv'
<1>1. /\ PluginTypes(p) /\ InOrder(p) /\ FilesAre(p) /\ StagesAre(p) /\ PlanSuits(p) /\ CacheSuits
      /\ Now \in Configs /\ mine[p] \in Configs
  BY InvOfOne
<1>2. PICK e \in doomed[p] :
      /\ pc[p] = "remove"
      /\ IF e \in G!Entries
         THEN /\ pc' = pc
              /\ cache' = [n \in PoetryNames |-> IF n = e THEN Absent ELSE cache[n]]
              /\ config' = IF e = "config.toml" THEN NoFile ELSE config
         ELSE pc' = [pc EXCEPT ![p] = "failed"] /\ UNCHANGED <<cache, config>>
      /\ doomed' = [doomed EXCEPT ![p] = @ \ {e}]
      /\ UNCHANGED <<required, poetry, meddled, dir, ignored, mine, onPath, missing>>
  BY DEF G!RemoveEntry, G!world
<1>4. /\ pc'[p] \in {"remove", "failed"} /\ config' \in {config, NoFile}
      /\ cache' \in [PoetryNames -> Versions \cup {Absent}]
      /\ pc' \in [Procs -> {"idle", "check", "remove", "scan", "ensure", "ignore", "install",
                            "open", "fill", "done", "failed"}]
  <2>1. CASE e \in G!Entries
    BY <1>1, <1>2, <2>1 DEF PluginTypes
  <2>2. CASE e \notin G!Entries
    BY <1>1, <1>2, <2>2 DEF PluginTypes
  <2>. QED
    BY <2>1, <2>2
<1>5. G!Has(cache') # {} => G!Has(cache) # {}
  BY <1>2 DEF G!Has
<1>6. config # Now
  <2>1. NotAfter(mine[p], Now) /\ (config \in Configs => NotAfter(config, mine[p])) /\ config # mine[p]
    BY <1>1, <1>2 DEF InOrder
  <2>. QED
    BY <1>1, <2>1, OrderOfConfigs
<1>7. PluginTypes(p)'
  <2>1. doomed' \in [Procs -> SUBSET (PoetryNames \cup {"config.toml"})]
    BY <1>1, <1>2 DEF PluginTypes
  <2>. QED
    BY <1>1, <1>2, <1>4, <2>1 DEF PluginTypes
<1>8. InOrder(p)'
  BY <1>1, <1>2, <1>4, PluginKinds DEF InOrder, NotAfter, Now
<1>9. FilesAre(p)' /\ StagesAre(p)' /\ PlanSuits(p)'
  BY <1>1, <1>2, <1>4, <1>5 DEF FilesAre, StagesAre, PlanSuits
<1>10. CacheSuits'
  BY <1>1, <1>2, <1>4, <1>6, PluginKinds DEF CacheSuits, Now
<1>. QED
  BY <1>7, <1>8, <1>9, <1>10, InvFromOne

LEMMA RemoveDirectoryStep ==
  ASSUME OneInstall, NoWayBack, PluginInv, NEW p \in Procs, G!RemoveDirectory(p)
  PROVE  PluginInv'
<1>1. /\ PluginTypes(p) /\ InOrder(p) /\ FilesAre(p) /\ StagesAre(p) /\ PlanSuits(p) /\ CacheSuits
      /\ Now \in Configs /\ mine[p] \in Configs
  BY InvOfOne
<1>2. /\ pc[p] = "remove"
      /\ pc' = [pc EXCEPT ![p] = IF ~ dir \/ G!Entries # {} THEN "failed"
                                 ELSE IF mine[p].section = {} THEN "done" ELSE "scan"]
      /\ dir' = (dir /\ G!Entries # {})
      /\ UNCHANGED <<required, poetry, meddled, ignored, cache, config, mine, onPath, doomed, missing>>
  BY DEF G!RemoveDirectory, G!Goes, G!world, G!process
<1>3. pc'[p] = IF ~ dir \/ G!Entries # {} THEN "failed"
               ELSE IF mine[p].section = {} THEN "done" ELSE "scan"
  BY <1>1, <1>2 DEF PluginTypes
<1>4. G!Entries = {} <=> G!Has(cache) = {} /\ config = NoFile
  BY DEF G!Entries
<1>5. PluginTypes(p)'
  <2>1. pc' \in [Procs -> {"idle", "check", "remove", "scan", "ensure", "ignore", "install",
                           "open", "fill", "done", "failed"}]
    BY <1>1, <1>2 DEF PluginTypes
  <2>2. dir' \in BOOLEAN
    BY <1>2
  <2>. QED
    BY <1>1, <1>2, <2>1, <2>2 DEF PluginTypes
<1>6. InOrder(p)'
  BY <1>1, <1>2, <1>3 DEF InOrder, NotAfter, Now
<1>7. FilesAre(p)'
  <2>1. G!Has(cache)' = G!Has(cache)
    BY <1>2 DEF G!Has
  <2>2. dir \in BOOLEAN /\ (G!Has(cache) # {} \/ config # NoFile => dir' /\ ignored)
    BY <1>1, <1>2, <1>4 DEF FilesAre, PluginTypes
  <2>3. pc'[p] \in {"scan", "done"} => G!Entries = {}
    BY <1>3
  <2>4. G!Entries = {} => ~ dir'
    BY <1>2, Zenon
  <2>5. pc'[p] \in {"scan", "done"} => config = NoFile /\ ~ dir'
    BY <1>4, <2>3, <2>4
  <2>6. pc'[p] = "done" => mine[p].section = {}
    BY <1>3
  <2>. QED
    BY <1>2, <1>3, <2>1, <2>2, <2>5, <2>6 DEF FilesAre
<1>8. StagesAre(p)' /\ PlanSuits(p)' /\ CacheSuits'
  BY <1>1, <1>2, <1>3 DEF StagesAre, PlanSuits, CacheSuits, Suits, G!Has, Now
<1>. QED
  BY <1>5, <1>6, <1>7, <1>8, InvFromOne

(* An install looks at Poetry's environment with an empty cache.           *)
LEMMA FoundIsPoetrys ==
  ASSUME NEW p \in Procs, PluginTypes(p), \A n \in PoetryNames : cache[n] = Absent
  PROVE  /\ G!Found(p) = poetry /\ G!Over(cache, poetry) = poetry
         /\ \A m, n \in PoetryNames : G!Before(p, m, n) <=> Place(m) < Place(n)
<1>1. poetry \in [PoetryNames -> Versions \cup {Absent}]
  BY PluginKinds DEF PluginTypes
<1>2. G!Over(cache, poetry) = poetry
  BY <1>1 DEF G!Over
<1>3. ASSUME NEW m \in PoetryNames, NEW n \in PoetryNames
      PROVE  G!Before(p, m, n) <=> Place(m) < Place(n)
  BY <1>3 DEF G!Before, Place
<1>. QED
  BY <1>2, <1>3 DEF G!Found

(* With the answer of the solver nothing in Poetry's environment is broken. *)
LEMMA SolutionSuits ==
  ASSUME RequirementsArePinned, NEW p \in Procs, PluginTypes(p), \A n \in PoetryNames : cache[n] = Absent,
         G!Missing(p) # {}, NEW s \in G!Solutions(p)
  PROVE  Suits(mine[p], G!Over(s, poetry))
<1>. DEFINE all == G!Over(s, poetry)
<1>1. /\ poetry \in [PoetryNames -> Versions \cup {Absent}] /\ poetry \in Installations
      /\ G!IsConsistent(poetry) /\ Absent \notin Versions
      /\ mine[p].section \in Sections /\ mine[p].poetry \in Versions
  BY PluginKinds DEF PluginTypes, Configs
<1>2. /\ s \in [PoetryNames -> Versions \cup {Absent}] /\ G!IsConsistent(s)
      /\ \A n \in G!Pinned(p) : s[n] = poetry[n]
      /\ \A r \in G!Missing(p) : s[r.name] \in r.versions
  BY FoundIsPoetrys DEF G!Solutions, G!IsMet
<1>3. /\ G!Needed(p) = G!Relevant(mine[p].section, mine[p].poetry) /\ G!Missing(p) \subseteq G!Needed(p)
      /\ \A r \in G!Needed(p) : r \in mine[p].section
      /\ \A r \in G!Needed(p) \ G!Missing(p) : poetry[r.name] \in r.versions
  BY FoundIsPoetrys DEF G!Needed, G!Relevant, G!Missing, G!IsMet
<1>4. \A r \in G!Needed(p) : r.name \in PoetryNames /\ r.versions \subseteq Versions
  BY <1>1, <1>3, PluginKinds
<1>5. \A n \in PoetryNames : all[n] = IF s[n] # Absent THEN s[n] ELSE poetry[n]
  BY DEF G!Over
<1>6. ASSUME NEW n \in G!Has(poetry), NEW r \in Requires[n][poetry[n]]
      PROVE  /\ r.name \in PoetryNames /\ r.versions \subseteq Versions /\ poetry[r.name] \in r.versions
             /\ r.name \in G!Pinned(p)
  <2>1. n \in PoetryNames /\ poetry[n] \in Versions
    BY <1>1, <1>6 DEF G!Has
  <2>2. r.name \in PoetryNames /\ r.versions \subseteq Versions
    BY <1>6, <2>1, PluginKinds
  <2>3. poetry[r.name] \in r.versions
    BY <1>1, <1>6 DEF G!IsConsistent, G!IsMet
  <2>4. /\ \A q \in G!Needed(p) : q.name # r.name
        /\ \E q \in G!Needed(p) : Place(r.name) < Place(q.name)
    BY <1>1, <1>3, <1>6 DEF RequirementsArePinned
  <2>5. \E q \in G!Needed(p) : G!Before(p, r.name, q.name)
    BY <1>4, <2>2, <2>4, FoundIsPoetrys
  <2>6. r.name \in G!Has(G!Found(p))
    BY <1>1, <2>2, <2>3, FoundIsPoetrys DEF G!Has
  <2>. QED
    BY <1>3, <2>2, <2>3, <2>4, <2>5, <2>6 DEF G!Pinned
<1>7. ASSUME NEW n \in G!Has(all), NEW r \in Requires[n][all[n]]
      PROVE  all[r.name] \in r.versions
  <2>1. n \in PoetryNames
    BY <1>7 DEF G!Has
  <2>2. CASE s[n] # Absent
    <3>1. n \in G!Has(s) /\ all[n] = s[n] /\ s[n] \in Versions
      BY <1>2, <1>5, <2>1, <2>2 DEF G!Has
    <3>2. r.name \in PoetryNames /\ r.versions \subseteq Versions
      BY <1>7, <2>1, <3>1, PluginKinds
    <3>3. s[r.name] \in r.versions
      BY <1>2, <1>7, <3>1 DEF G!IsConsistent, G!IsMet
    <3>. QED
      BY <1>1, <1>5, <3>2, <3>3
  <2>3. CASE s[n] = Absent
    <3>1. n \in G!Has(poetry) /\ all[n] = poetry[n]
      BY <1>5, <1>7, <2>1, <2>3 DEF G!Has
    <3>2. r.name \in PoetryNames /\ poetry[r.name] \in r.versions /\ r.name \in G!Pinned(p)
      BY <1>6, <1>7, <3>1
    <3>3. s[r.name] = poetry[r.name]
      BY <1>2, <3>2
    <3>. QED
      BY <1>5, <3>2, <3>3
  <2>. QED
    BY <2>2, <2>3
<1>8. ASSUME NEW r \in G!Relevant(mine[p].section, mine[p].poetry)
      PROVE  all[r.name] \in r.versions
  <2>0. r \in G!Needed(p) /\ r.name \in PoetryNames /\ r.versions \subseteq Versions
    BY <1>3, <1>4, <1>8
  <2>1. CASE r \in G!Missing(p)
    BY <1>1, <1>2, <1>5, <2>0, <2>1
  <2>2. CASE r \notin G!Missing(p)
    <3>1. poetry[r.name] \in r.versions /\ r.name \in G!Has(poetry)
      BY <1>1, <1>3, <2>0, <2>2 DEF G!Has
    <3>2. \A q \in G!Missing(p) : q.name # r.name
      <4>1. \A q \in mine[p].section : q.name = r.name => q = r
        BY <1>1, <1>3, <2>0, OneOfPlugins DEF G!PluginCacheAssumption
      <4>. QED
        BY <1>3, <2>2, <4>1
    <3>3. r.name \in G!Pinned(p)
      BY <2>0, <3>1, <3>2, FoundIsPoetrys DEF G!Pinned
    <3>. QED
      BY <1>2, <1>5, <2>0, <3>1, <3>3
  <2>. QED
    BY <2>1, <2>2
<1>. HIDE DEF all
<1>9. G!IsConsistent(all) /\ \A r \in G!Relevant(mine[p].section, mine[p].poetry) : G!IsMet(r, all)
  BY <1>7, <1>8 DEF G!IsConsistent, G!IsMet
<1>. QED
  BY <1>9 DEF Suits, all

LEMMA ScanPluginsStep ==
  ASSUME OneInstall, NoWayBack, RequirementsArePinned, PluginInv, NEW p \in Procs, G!Scan(p)
  PROVE  PluginInv'
<1>1. /\ PluginTypes(p) /\ InOrder(p) /\ FilesAre(p) /\ StagesAre(p) /\ PlanSuits(p) /\ CacheSuits
      /\ Now \in Configs /\ mine[p] \in Configs
  BY InvOfOne
<1>2. /\ pc[p] = "scan"
      /\ UNCHANGED <<required, poetry, meddled, dir, ignored, cache, config, mine, onPath, doomed>>
  BY DEF G!Scan, G!Goes, G!world, G!files
<1>3. \A n \in PoetryNames : cache[n] = Absent
  BY <1>1, <1>2 DEF FilesAre, G!Has
<1>4. G!Found(p) = poetry /\ G!Over(cache, poetry) = poetry
  BY <1>1, <1>3, FoundIsPoetrys
<1>. DEFINE Planning(plan) ==
              /\ plan \subseteq PoetryNames \X Versions
              /\ pc' = [pc EXCEPT ![p] = "ensure"]
              /\ missing' = [missing EXCEPT ![p] = plan]
              /\ \A t, u \in plan : t[1] = u[1] => t = u
              /\ Suits(mine[p], [n \in PoetryNames |-> IF \E v \in Versions : <<n, v>> \in plan
                     THEN CHOOSE v \in Versions : <<n, v>> \in plan ELSE poetry[n]])
<1>5. ASSUME NEW plan, Planning(plan)
      PROVE  PluginInv'
  <2>1. pc'[p] = "ensure" /\ missing'[p] = plan
    BY <1>1, <1>5 DEF PluginTypes
  <2>2. PluginTypes(p)'
    BY <1>1, <1>2, <1>5 DEF PluginTypes
  <2>3. InOrder(p)' /\ FilesAre(p)' /\ StagesAre(p)' /\ CacheSuits'
    BY <1>1, <1>2, <2>1 DEF InOrder, FilesAre, StagesAre, CacheSuits, NotAfter, Now, Suits, G!Has
  <2>4. HasOne(p)'
    BY <1>5, <2>1 DEF HasOne
  <2>5. G!Over(Planned(p), poetry)' = [n \in PoetryNames |-> IF \E v \in Versions : <<n, v>> \in plan
                     THEN CHOOSE v \in Versions : <<n, v>> \in plan ELSE poetry[n]]
    <3>1. Planned(p)' = [n \in PoetryNames |-> IF \E v \in Versions : <<n, v>> \in plan
                           THEN CHOOSE v \in Versions : <<n, v>> \in plan ELSE Absent]
      BY <1>2, <1>3, <2>1 DEF Planned
    <3>2. \A n \in PoetryNames : (\E v \in Versions : <<n, v>> \in plan) =>
            (CHOOSE v \in Versions : <<n, v>> \in plan) # Absent
      BY PluginKinds
    <3>. QED
      BY <1>2, <3>1, <3>2 DEF G!Over
  <2>6. Suits(mine[p], G!Over(Planned(p), poetry))'
    BY <1>2, <1>5, <2>5 DEF Suits
  <2>7. PlanSuits(p)'
    BY <2>4, <2>6 DEF PlanSuits
  <2>. QED
    BY <2>2, <2>3, <2>7, InvFromOne
<1>6. CASE G!Missing(p) = {} /\ G!Goes(p, "scan", "ensure") /\ missing' = [missing EXCEPT ![p] = {}]
  <2>1. Suits(mine[p], poetry)
    <3>1. G!IsConsistent(poetry)
      BY <1>1, PluginKinds DEF PluginTypes
    <3>2. \A r \in G!Relevant(mine[p].section, mine[p].poetry) : G!IsMet(r, poetry)
      BY <1>4, <1>6 DEF G!Missing, G!Needed
    <3>. QED
      BY <3>1, <3>2 DEF Suits
  <2>2. [n \in PoetryNames |-> IF \E v \in Versions : <<n, v>> \in {}
           THEN CHOOSE v \in Versions : <<n, v>> \in {} ELSE poetry[n]] = poetry
    BY <1>1, PluginKinds DEF PluginTypes
  <2>3. Planning({})
    BY <1>6, <2>1, <2>2 DEF G!Goes
  <2>. HIDE DEF Planning
  <2>. QED
    BY <1>5, <2>3
<1>7. CASE /\ G!Missing(p) # {} /\ G!Goes(p, "scan", "ensure")
           /\ \E s \in G!Solutions(p) :
                missing' = [missing EXCEPT ![p] = {<<n, s[n]>> : n \in G!Has(s) \ G!Pinned(p)}]
  <2>1. PICK s \in G!Solutions(p) :
          missing' = [missing EXCEPT ![p] = {<<n, s[n]>> : n \in G!Has(s) \ G!Pinned(p)}]
    BY <1>7
  <2>. DEFINE plan == {<<n, s[n]>> : n \in G!Has(s) \ G!Pinned(p)}
  <2>2. /\ s \in [PoetryNames -> Versions \cup {Absent}]
        /\ \A n \in G!Pinned(p) : s[n] = poetry[n]
    BY <1>4 DEF G!Solutions
  <2>3. Suits(mine[p], G!Over(s, poetry))
    BY <1>1, <1>3, <1>7, <2>1, SolutionSuits
  <2>4. \A n \in PoetryNames, v \in Versions : <<n, v>> \in plan <=> s[n] = v /\ n \notin G!Pinned(p)
    BY <2>2, PluginKinds DEF G!Has
  <2>5. plan \subseteq PoetryNames \X Versions /\ \A t, u \in plan : t[1] = u[1] => t = u
    BY <2>2 DEF G!Has
  <2>. HIDE DEF plan
  <2>6. ASSUME NEW n \in PoetryNames
        PROVE  (IF \E v \in Versions : <<n, v>> \in plan
                THEN CHOOSE v \in Versions : <<n, v>> \in plan ELSE poetry[n])
               = IF s[n] # Absent THEN s[n] ELSE poetry[n]
    <3>1. CASE \E v \in Versions : <<n, v>> \in plan
      <4>1. (CHOOSE v \in Versions : <<n, v>> \in plan) = s[n] /\ s[n] \in Versions
        BY <2>4, <2>6, <3>1
      <4>. QED
        BY <3>1, <4>1, PluginKinds
    <3>2. CASE ~ \E v \in Versions : <<n, v>> \in plan
      BY <2>2, <2>4, <2>6, <3>2
    <3>. QED
      BY <3>1, <3>2
  <2>7. [n \in PoetryNames |-> IF \E v \in Versions : <<n, v>> \in plan
           THEN CHOOSE v \in Versions : <<n, v>> \in plan ELSE poetry[n]] = G!Over(s, poetry)
    BY <2>6 DEF G!Over
  <2>8. missing' = [missing EXCEPT ![p] = plan] /\ pc' = [pc EXCEPT ![p] = "ensure"]
    BY <1>7, <2>1 DEF plan, G!Goes
  <2>9. Planning(plan)
    BY <2>3, <2>5, <2>7, <2>8
  <2>. HIDE DEF Planning
  <2>. QED
    BY <1>5, <2>9
<1>8. CASE G!Goes(p, "scan", "failed") /\ UNCHANGED missing
  <2>1. pc' = [pc EXCEPT ![p] = "failed"] /\ pc'[p] = "failed"
    BY <1>1, <1>8 DEF G!Goes, PluginTypes
  <2>2. PluginTypes(p)'
    BY <1>1, <1>2, <1>8, <2>1 DEF PluginTypes
  <2>3. InOrder(p)' /\ FilesAre(p)' /\ StagesAre(p)' /\ CacheSuits' /\ PlanSuits(p)'
    BY <1>1, <1>2, <2>1 DEF InOrder, FilesAre, StagesAre, CacheSuits, PlanSuits, NotAfter, Now, Suits, G!Has
  <2>. QED
    BY <2>2, <2>3, InvFromOne
<1>. QED
  BY <1>6, <1>7, <1>8 DEF G!Scan

LEMMA EnsureDirectoryStep ==
  ASSUME OneInstall, PluginInv, NEW p \in Procs, G!EnsureDirectory(p) \/ G!Ignore(p)
  PROVE  PluginInv'
<1>1. /\ PluginTypes(p) /\ InOrder(p) /\ FilesAre(p) /\ StagesAre(p) /\ PlanSuits(p) /\ CacheSuits
      /\ Now \in Configs /\ mine[p] \in Configs
  BY InvOfOne
<1>2. /\ UNCHANGED <<required, poetry, meddled, cache, config, mine, onPath, doomed, missing>>
      /\ pc[p] \in {"ensure", "ignore"} /\ dir' = TRUE
      /\ (ignored => ignored') /\ ignored' \in BOOLEAN
      /\ pc' = [pc EXCEPT ![p] = IF pc[p] = "ensure" /\ ~ dir THEN "ignore"
                                 ELSE IF missing[p] = {} THEN "open" ELSE "install"]
      /\ pc[p] = "ignore" => ignored'
  <2>1. CASE G!EnsureDirectory(p)
    BY <1>1, <2>1 DEF G!EnsureDirectory, G!Goes, G!AfterMkdir, G!Prepared, G!world, G!process, PluginTypes
  <2>2. CASE G!Ignore(p)
    BY <1>1, <2>2 DEF G!Ignore, G!Goes, G!Prepared, G!world, G!process, FilesAre
  <2>. QED
    BY <2>1, <2>2
<1>3. pc'[p] = IF pc[p] = "ensure" /\ ~ dir THEN "ignore" ELSE IF missing[p] = {} THEN "open" ELSE "install"
  BY <1>1, <1>2 DEF PluginTypes
<1>4. PluginTypes(p)'
  <2>1. pc' \in [Procs -> {"idle", "check", "remove", "scan", "ensure", "ignore", "install",
                           "open", "fill", "done", "failed"}]
    BY <1>1, <1>2 DEF PluginTypes
  <2>2. {meddled', dir', ignored'} \subseteq BOOLEAN
    BY <1>1, <1>2 DEF PluginTypes
  <2>. QED
    BY <1>1, <1>2, <2>1, <2>2 DEF PluginTypes
<1>5. InOrder(p)' /\ StagesAre(p)' /\ CacheSuits'
  BY <1>1, <1>2, <1>3 DEF InOrder, StagesAre, CacheSuits, NotAfter, Now, Suits, G!Has
<1>6. FilesAre(p)'
  BY <1>1, <1>2, <1>3 DEF FilesAre, G!Has
<1>7. PlanSuits(p)'
  <2>1. Planned(p)' = Planned(p) /\ Now' = Now
    BY <1>2 DEF Planned, Now
  <2>2. HasOne(p)' /\ (~ meddled /\ mine[p] = Now => Suits(mine[p], G!Over(Planned(p), poetry)))
    BY <1>1, <1>2 DEF PlanSuits, HasOne
  <2>. QED
    BY <1>2, <2>1, <2>2 DEF PlanSuits, Suits, G!Over
<1>. QED
  BY <1>4, <1>5, <1>6, <1>7, InvFromOne

LEMMA InstallPluginStep ==
  ASSUME OneInstall, PluginInv, NEW p \in Procs, G!Install(p)
  PROVE  PluginInv'
<1>1. /\ PluginTypes(p) /\ InOrder(p) /\ FilesAre(p) /\ StagesAre(p) /\ PlanSuits(p) /\ CacheSuits
      /\ Now \in Configs /\ mine[p] \in Configs
  BY InvOfOne
<1>2. PICK t \in missing[p] :
      /\ pc[p] = "install"
      /\ pc' = [pc EXCEPT ![p] = IF missing[p] \ {t} = {} THEN "ensure" ELSE "install"]
      /\ missing' = [missing EXCEPT ![p] = missing[p] \ {t}]
      /\ cache' = [cache EXCEPT ![t[1]] = t[2]]
      /\ dir' = TRUE
      /\ UNCHANGED <<required, poetry, meddled, ignored, config, mine, onPath, doomed>>
  <2>1. PICK t \in missing[p] :
        /\ pc[p] = "install"
        /\ pc' = [pc EXCEPT ![p] = G!AfterInstall(p, missing[p] \ {t})]
        /\ missing' = [missing EXCEPT ![p] = IF G!AfterInstall(p, missing[p] \ {t}) = "ensure" THEN {}
                                             ELSE missing[p] \ {t}]
        /\ cache' = [cache EXCEPT ![t[1]] = t[2]]
        /\ dir' = TRUE
        /\ UNCHANGED <<required, poetry, meddled, ignored, config, mine, onPath, doomed>>
    BY DEF G!Install, G!Goes, G!world
  <2>2. G!AfterInstall(p, missing[p] \ {t}) = IF missing[p] \ {t} = {} THEN "ensure" ELSE "install"
    BY DEF G!AfterInstall
  <2>. QED
    BY <2>1, <2>2
<1>3. /\ pc'[p] \in {"install", "ensure"} /\ missing'[p] = missing[p] \ {t}
      /\ t[1] \in PoetryNames /\ t[2] \in Versions /\ t = <<t[1], t[2]>>
      /\ missing[p] \subseteq PoetryNames \X Versions
  BY <1>1, <1>2 DEF PluginTypes
<1>4. PluginTypes(p)'
  <2>1. pc' \in [Procs -> {"idle", "check", "remove", "scan", "ensure", "ignore", "install",
                           "open", "fill", "done", "failed"}]
    BY <1>1, <1>2 DEF PluginTypes
  <2>2. missing' \in [Procs -> SUBSET (PoetryNames \X Versions)]
    BY <1>1, <1>2, <1>3 DEF PluginTypes
  <2>3. cache' \in [PoetryNames -> Versions \cup {Absent}] /\ dir' \in BOOLEAN
    BY <1>1, <1>2, <1>3 DEF PluginTypes
  <2>. QED
    BY <1>1, <1>2, <2>1, <2>2, <2>3 DEF PluginTypes
<1>5. config = NoFile /\ ignored
  BY <1>1, <1>2 DEF FilesAre
<1>6. InOrder(p)' /\ StagesAre(p)' /\ FilesAre(p)'
  BY <1>1, <1>2, <1>3, <1>5, PluginKinds DEF InOrder, StagesAre, FilesAre, NotAfter, Now
<1>7. CacheSuits'
  <2>1. Now' = Now /\ Now # NoFile
    BY <1>1, <1>2, PluginKinds DEF Now
  <2>. QED
    BY <1>2, <1>5, <2>1 DEF CacheSuits
<1>8. PlanSuits(p)'
  <2>1. HasOne(p) /\ (~ meddled /\ mine[p] = Now => Suits(mine[p], G!Over(Planned(p), poetry)))
    BY <1>1, <1>2 DEF PlanSuits
  <2>2. HasOne(p)'
    BY <1>3, <2>1 DEF HasOne
  <2>3. \A n \in PoetryNames, v \in Versions :
          <<n, v>> \in missing'[p] <=> <<n, v>> \in missing[p] /\ n # t[1]
    BY <1>3, <2>1 DEF HasOne
  <2>4. cache \in [PoetryNames -> Versions \cup {Absent}]
    BY <1>1 DEF PluginTypes
  <2>5. ASSUME NEW n \in PoetryNames
        PROVE  (IF \E v \in Versions : <<n, v>> \in missing'[p]
                THEN CHOOSE v \in Versions : <<n, v>> \in missing'[p] ELSE cache'[n])
             = (IF \E v \in Versions : <<n, v>> \in missing[p]
                THEN CHOOSE v \in Versions : <<n, v>> \in missing[p] ELSE cache[n])
    <3>1. CASE n = t[1]
      <4>1. ~ \E v \in Versions : <<n, v>> \in missing'[p]
        BY <2>3, <2>5, <3>1
      <4>2. cache'[n] = t[2]
        BY <1>2, <2>4, <2>5, <3>1
      <4>3. <<n, t[2]>> \in missing[p] /\ \A v \in Versions : <<n, v>> \in missing[p] => v = t[2]
        BY <1>3, <2>1, <3>1 DEF HasOne
      <4>4. (CHOOSE v \in Versions : <<n, v>> \in missing[p]) = t[2]
        BY <1>3, <4>3
      <4>. QED
        BY <1>3, <4>1, <4>2, <4>3, <4>4
    <3>2. CASE n # t[1]
      <4>1. \A v \in Versions : <<n, v>> \in missing'[p] <=> <<n, v>> \in missing[p]
        BY <2>3, <2>5, <3>2
      <4>2. cache'[n] = cache[n]
        BY <1>2, <2>4, <2>5, <3>2
      <4>3. (CHOOSE v \in Versions : <<n, v>> \in missing'[p]) = (CHOOSE v \in Versions : <<n, v>> \in missing[p])
        BY <4>1
      <4>. QED
        BY <4>1, <4>2, <4>3
    <3>. QED
      BY <3>1, <3>2
  <2>6. Planned(p)' = Planned(p)
    BY <2>5 DEF Planned
  <2>7. Now' = Now /\ mine'[p] = mine[p] /\ meddled' = meddled /\ poetry' = poetry
    BY <1>2 DEF Now
  <2>. QED
    BY <2>1, <2>2, <2>6, <2>7 DEF PlanSuits, Suits, G!Over
<1>. QED
  BY <1>4, <1>6, <1>7, <1>8, InvFromOne

LEMMA PlanIsCache ==
  ASSUME NEW p \in Procs, PluginTypes(p), missing[p] = {}
  PROVE  Planned(p) = cache
BY DEF Planned, PluginTypes

LEMMA OpenConfigStep ==
  ASSUME OneInstall, PluginInv, NEW p \in Procs, G!OpenConfig(p)
  PROVE  PluginInv'
<1>1. /\ PluginTypes(p) /\ InOrder(p) /\ FilesAre(p) /\ StagesAre(p) /\ PlanSuits(p) /\ CacheSuits
      /\ Now \in Configs /\ mine[p] \in Configs
  BY InvOfOne
<1>2. /\ pc[p] = "open" /\ dir /\ ignored /\ pc' = [pc EXCEPT ![p] = "fill"] /\ config' = EmptyFile
      /\ UNCHANGED <<required, poetry, meddled, dir, ignored, cache, mine, onPath, doomed, missing>>
  BY <1>1 DEF G!OpenConfig, G!Goes, G!world, G!process, FilesAre
<1>3. pc'[p] = "fill"
  BY <1>1, <1>2 DEF PluginTypes
<1>4. PluginTypes(p)'
  BY <1>1, <1>2 DEF PluginTypes
<1>5. InOrder(p)' /\ StagesAre(p)' /\ FilesAre(p)'
  BY <1>1, <1>2, <1>3, PluginKinds DEF InOrder, StagesAre, FilesAre, NotAfter, Now
<1>6. CacheSuits'
  <2>1. Now' = Now /\ Now # EmptyFile
    BY <1>1, <1>2, PluginKinds DEF Now
  <2>. QED
    BY <1>2, <2>1 DEF CacheSuits
<1>7. PlanSuits(p)'
  <2>1. Planned(p)' = Planned(p) /\ Now' = Now
    BY <1>2 DEF Planned, Now
  <2>2. HasOne(p)' /\ (~ meddled /\ mine[p] = Now => Suits(mine[p], G!Over(Planned(p), poetry)))
    BY <1>1, <1>2 DEF PlanSuits, HasOne
  <2>. QED
    BY <1>2, <2>1, <2>2 DEF PlanSuits, Suits, G!Over
<1>. QED
  BY <1>4, <1>5, <1>6, <1>7, InvFromOne

(* config.toml is written when everything is there.                        *)
LEMMA FillConfigStep ==
  ASSUME OneInstall, NoWayBack, PluginInv, NEW p \in Procs, G!FillConfig(p)
  PROVE  PluginInv'
<1>1. /\ PluginTypes(p) /\ InOrder(p) /\ FilesAre(p) /\ StagesAre(p) /\ PlanSuits(p) /\ CacheSuits
      /\ Now \in Configs /\ mine[p] \in Configs
  BY InvOfOne
<1>2. /\ pc[p] = "fill" /\ dir /\ ignored /\ mine[p].section # {} /\ missing[p] = {}
      /\ pc' = [pc EXCEPT ![p] = "done"] /\ config' = mine[p]
      /\ UNCHANGED <<required, poetry, meddled, dir, ignored, cache, mine, onPath, doomed, missing>>
  BY <1>1, PluginKinds DEF G!FillConfig, G!Goes, G!world, G!process, FilesAre, StagesAre
<1>3. pc'[p] = "done" /\ Now' = Now
  BY <1>1, <1>2 DEF PluginTypes, Now
<1>4. PluginTypes(p)'
  BY <1>1, <1>2 DEF PluginTypes
<1>5. InOrder(p)'
  <2>1. NotAfter(mine[p], mine[p]) /\ NotAfter(mine[p], Now)
    BY <1>1, OrderOfConfigs DEF InOrder
  <2>. QED
    BY <1>2, <1>3, <2>1 DEF InOrder, NotAfter
<1>6. StagesAre(p)' /\ FilesAre(p)' /\ PlanSuits(p)'
  BY <1>1, <1>2, <1>3 DEF StagesAre, FilesAre, PlanSuits
<1>7. CacheSuits'
  <2>1. Planned(p) = cache
    BY <1>1, <1>2, PlanIsCache
  <2>2. ~ meddled /\ mine[p] = Now => Suits(mine[p], G!Over(cache, poetry))
    BY <1>1, <1>2, <2>1 DEF PlanSuits
  <2>. QED
    BY <1>2, <1>3, <2>2 DEF CacheSuits, Suits, G!Over
<1>. QED
  BY <1>4, <1>5, <1>6, <1>7, InvFromOne

LEMMA FailStep ==
  ASSUME OneInstall, PluginInv, NEW p \in Procs, G!Fail(p)
  PROVE  PluginInv'
<1>1. /\ PluginTypes(p) /\ InOrder(p) /\ FilesAre(p) /\ StagesAre(p) /\ PlanSuits(p) /\ CacheSuits
  BY InvOfOne
<1>2. /\ pc' = [pc EXCEPT ![p] = "failed"]
      /\ UNCHANGED <<required, poetry, meddled, dir, ignored, cache, config, mine, onPath, doomed, missing>>
  BY DEF G!Fail, G!world, G!files, G!process
<1>3. pc'[p] = "failed"
  BY <1>1, <1>2 DEF PluginTypes
<1>4. PluginTypes(p)'
  BY <1>1, <1>2 DEF PluginTypes
<1>5. InOrder(p)' /\ StagesAre(p)' /\ FilesAre(p)' /\ PlanSuits(p)' /\ CacheSuits'
  BY <1>1, <1>2, <1>3 DEF InOrder, StagesAre, FilesAre, PlanSuits, CacheSuits, NotAfter, Now, Suits, G!Has
<1>. QED
  BY <1>4, <1>5, InvFromOne

(* A new section and a new Poetry are after all that was installed.        *)
LEMMA OutsidePluginsStep ==
  ASSUME OneInstall, NoWayBack, PluginInv, G!EditSection \/ G!UpgradePoetry \/ G!SelfCommand
  PROVE  PluginInv'
<1>. DEFINE p == TheInstall
<1>0. p \in Procs
  BY TheOne
<1>. HIDE DEF p
<1>1. /\ PluginTypes(p) /\ InOrder(p) /\ FilesAre(p) /\ StagesAre(p) /\ PlanSuits(p) /\ CacheSuits
      /\ Now \in Configs /\ Now.section = required /\ Now.poetry = poetry[Core] /\ mine[p] \in Configs
  BY <1>0, InvOfOne
<1>2. /\ required' \in Sections /\ poetry' \in Installations /\ meddled' \in {meddled, TRUE}
      /\ UNCHANGED <<dir, ignored, cache, config, pc, mine, onPath, doomed, missing>>
      /\ \/ required' # required /\ Rank[required] < Rank[required'] /\ poetry' = poetry
         \/ required' = required /\ poetry[Core] < poetry'[Core]
         \/ required' = required /\ meddled' = TRUE /\ poetry'[Core] = poetry[Core]
  <2>1. CASE G!EditSection
    <3>1. PICK e \in Edits : required = e[1] /\ required' = e[2]
      BY <2>1 DEF G!EditSection
    <3>2. Rank \in [Sections -> Nat] /\ Rank[e[1]] < Rank[e[2]]
      BY <3>1 DEF NoWayBack, Rank, Forwards
    <3>3. e[1] \in Sections /\ e[2] \in Sections
      BY <3>1, PluginKinds
    <3>4. e[1] # e[2]
      BY <3>2, <3>3
    <3>. QED
      BY <1>1, <2>1, <3>1, <3>2, <3>3, <3>4 DEF G!EditSection, G!files, G!process, PluginTypes
  <2>2. CASE G!UpgradePoetry
    BY <1>1, <2>2 DEF G!UpgradePoetry, G!files, G!process, PluginTypes
  <2>3. CASE G!SelfCommand
    BY <1>1, <2>3 DEF G!SelfCommand, G!files, G!process, PluginTypes
  <2>. QED
    BY <2>1, <2>2, <2>3
<1>3. Now' \in Configs /\ Now'.section = required' /\ Now'.poetry = poetry'[Core]
  BY <1>2, PluginKinds DEF Now, Configs, G!ConfigOf
<1>4. NotAfter(Now, Now') /\ (meddled' \/ Now' # Now)
  <2>1. poetry[Core] \in Nat /\ poetry'[Core] \in Nat
    BY <1>1, <1>2, PluginKinds DEF PluginTypes
  <2>2. NotAfter(Now, Now')
    BY <1>1, <1>2, <1>3, <2>1 DEF NotAfter
  <2>3. Now' = Now => required' = required /\ poetry'[Core] = poetry[Core]
    BY <1>1, <1>3
  <2>. QED
    BY <1>2, <2>1, <2>2, <2>3
<1>5. NotAfter(mine[p], Now') /\ (meddled' \/ mine[p] # Now')
  <2>1. NotAfter(mine[p], Now)
    BY <1>1 DEF InOrder
  <2>2. NotAfter(mine[p], Now')
    BY <1>1, <1>3, <1>4, <2>1, OrderOfConfigs
  <2>3. mine[p] = Now' => Now' = Now
    BY <1>1, <1>3, <1>4, <2>1, OrderOfConfigs
  <2>. QED
    BY <1>4, <2>2, <2>3
<1>6. meddled' \/ config # Now'
  <2>1. config = Now' => NotAfter(config, mine[p]) /\ mine[p] = Now'
    BY <1>1, <1>3, <1>5, OrderOfConfigs DEF InOrder
  <2>. QED
    BY <1>5, <2>1
<1>7. PluginTypes(p)'
  <2>1. {meddled', dir', ignored'} \subseteq BOOLEAN
    BY <1>1, <1>2 DEF PluginTypes
  <2>. QED
    BY <1>1, <1>2, <2>1 DEF PluginTypes
<1>8. InOrder(p)'
  BY <1>1, <1>2, <1>5 DEF InOrder, NotAfter
<1>9. FilesAre(p)' /\ StagesAre(p)' /\ PlanSuits(p)' /\ CacheSuits'
  BY <1>1, <1>2, <1>5, <1>6 DEF FilesAre, StagesAre, PlanSuits, CacheSuits, HasOne, G!Has
<1>. QED
  BY <1>0, <1>7, <1>8, <1>9, InvFromOne

LEMMA PluginsNext ==
  ASSUME OneInstall, NoWayBack, RequirementsArePinned, PluginInv, [G!Next]_pluginvars
  PROVE  PluginInv'
<1>1. CASE UNCHANGED pluginvars
  <2>. DEFINE p == TheInstall
  <2>0. p \in Procs
    BY TheOne
  <2>. HIDE DEF p
  <2>1. PluginTypes(p) /\ InOrder(p) /\ FilesAre(p) /\ StagesAre(p) /\ PlanSuits(p) /\ CacheSuits
    BY <2>0, InvOfOne
  <2>2. UNCHANGED <<required, poetry, meddled, dir, ignored, cache, config, pc, mine, onPath, doomed, missing>>
    BY <1>1 DEF pluginvars
  <2>3. PluginTypes(p)' /\ InOrder(p)' /\ FilesAre(p)' /\ StagesAre(p)'
    BY <2>1, <2>2 DEF PluginTypes, InOrder, FilesAre, StagesAre, NotAfter, Now, G!Has
  <2>4. Now' = Now /\ Planned(p)' = Planned(p) /\ HasOne(p)' = HasOne(p)
    BY <2>2 DEF Now, Planned, HasOne
  <2>5. PlanSuits(p)' /\ CacheSuits'
    BY <2>1, <2>2, <2>4 DEF PlanSuits, CacheSuits, Suits, G!Over
  <2>. QED
    BY <2>0, <2>1, <2>3, <2>5, InvFromOne
<1>2. CASE G!Next
  BY <1>2, StartPluginsStep, CheckPluginsStep, RemovePluginsStep, RemoveDirectoryStep, ScanPluginsStep,
     EnsureDirectoryStep, InstallPluginStep, OpenConfigStep, FillConfigStep, FailStep, OutsidePluginsStep
     DEF G!Next
<1>. QED
  BY <1>1, <1>2

LEMMA InvMeansPluginsAreRight ==
  ASSUME OneInstall, PluginInv
  PROVE  G!PluginsAreRight
<1>. DEFINE p == TheInstall
<1>0. Procs = {p} /\ p \in Procs
  BY TheOne
<1>. HIDE DEF p
<1>1. /\ PluginTypes(p) /\ InOrder(p) /\ FilesAre(p) /\ StagesAre(p) /\ PlanSuits(p) /\ CacheSuits
      /\ Now \in Configs /\ Now.section = required /\ Now.poetry = poetry[Core] /\ mine[p] \in Configs
  BY <1>0, InvOfOne
<1>2. G!TypeOK
  BY <1>0, <1>1 DEF PluginTypes, FilesAre, G!TypeOK
<1>3. config = Now /\ ~ meddled => G!IsConsistent(G!Loaded) /\ G!Available
  BY <1>1 DEF CacheSuits, Suits, G!Loaded, G!Available
<1>4. G!FreshIsComplete
  BY <1>3 DEF G!FreshIsComplete, Now
<1>5. ASSUME ~ meddled, pc[p] = "done", mine[p] = Now
      PROVE  /\ IF required = {} THEN ~ dir ELSE config = Now
             /\ G!IsConsistent(G!Loaded)
  <2>1. IF required = {} THEN ~ dir ELSE config = Now
    BY <1>1, <1>5 DEF FilesAre
  <2>2. CASE required # {}
    BY <1>3, <1>5, <2>1, <2>2
  <2>3. CASE required = {}
    <3>1. \A n \in PoetryNames : cache[n] = Absent
      BY <1>1, <2>1, <2>3 DEF FilesAre, G!Has
    <3>2. G!Loaded = poetry
      BY <1>0, <1>1, <3>1, FoundIsPoetrys DEF G!Loaded
    <3>. QED
      BY <1>1, <2>1, <2>3, <3>2, PluginKinds DEF PluginTypes
  <2>. QED
    BY <2>1, <2>2, <2>3
<1>6. G!PluginsWhenDone /\ G!NothingIsBroken
  BY <1>0, <1>3, <1>5 DEF G!PluginsWhenDone, G!NothingIsBroken, Now
<1>7. G!NothingToCommit
  BY <1>1 DEF FilesAre, G!NothingToCommit, G!Entries
<1>. QED
  BY <1>2, <1>4, <1>6, <1>7 DEF G!PluginsAreRight

(* Whatever is edited, upgraded, stopped and tried again: a plugin cache    *)
(* that is found fresh is complete, an install that is done has left what   *)
(* is required, and nothing in Poetry's environment is broken, as long as   *)
(* one install is at work at a time, no former section comes back, and what *)
(* the packages in that environment require is pinned.                      *)
THEOREM PluginsAreInstalled ==
  ASSUME OneInstall, NoWayBack, RequirementsArePinned
  PROVE  MCSpec => []PluginsAreRight
<1>1. MCInit => PluginInv
  BY PluginsStart DEF MCInit
<1>2. PluginInv /\ [MCNext]_<<subject, vars, venvvars, pluginvars>> => PluginInv'
  <2>1. [MCNext]_<<subject, vars, venvvars, pluginvars>> => [G!Next]_pluginvars
    BY DEF MCNext
  <2>. QED
    BY <2>1, PluginsNext
<1>3. PluginInv => PluginsAreRight
  BY InvMeansPluginsAreRight DEF PluginsAreRight
<1>. QED
  BY <1>1, <1>2, <1>3, PTL DEF MCSpec
=============================================================================
