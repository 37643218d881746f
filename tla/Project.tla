------------------------------ MODULE Project ------------------------------
(***************************************************************************)
(* The commands that change a project: install, sync, update, add, remove  *)
(* and lock, over pyproject.toml, poetry.lock and the environment, with    *)
(* failures, crashes between any two steps and several commands at once.   *)
(***************************************************************************)
EXTENDS Transaction

CONSTANTS
  Requires,      \* [Names -> [Versions -> SUBSET Names]]: what the packages require
  Procs,         \* poetry processes
  Commands,      \* bound: the commands that are given
  Edits,         \* bound: what pyproject.toml may be edited to
  Beginnings,    \* the environments to begin with
  Unreadable,    \* a file that is cut short, or of an unknown format
  NoLock,        \* no poetry.lock
  OldLocks,      \* may a lock file of Poetry before 2.3 be there at first?
  LateEdits      \* may pyproject.toml be edited while a command runs?

Groups == {"main", "dev"}
Content == [Groups -> SUBSET Names]
Selection == [Names -> Versions \cup {Absent}]
Solution == [packages : Selection, groups : [Names -> SUBSET Groups]]
LockFile == [hash : Content, new : BOOLEAN, solved : Solution]

(* What names require, directly or not, in a selection.                    *)
IsClosed(names, selection) ==
  \A name \in names :
    selection[name] # Absent => Requires[name][selection[name]] \subseteq names
Reach(names, selection) ==
  {name \in Names :
     \A closed \in SUBSET Names :
       names \subseteq closed /\ IsClosed(closed, selection) => name \in closed}

Answers(selection, content) ==
  {name \in Names : selection[name] # Absent} =
    Reach(content["main"] \cup content["dev"], selection)
Solutions(content) == {selection \in Selection : Answers(selection, content)}

(* What the lock file records of a solution.                               *)
Solved(selection, content) ==
  [packages |-> selection,
   groups   |-> [name \in Names |-> {group \in Groups : name \in Reach(content[group], selection)}]]
(* Before Poetry 2.3 the content hash did not include dependency groups.   *)
LegacyHash(content) == [content EXCEPT !["dev"] = {}]
(* The hash is the content that it was computed from.                      *)
ContentHash(content) == content

LockOf(selection, content) ==
  [hash |-> ContentHash(content), new |-> TRUE, solved |-> Solved(selection, content)]
OldLockOf(selection, content) ==
  [hash |-> LegacyHash(content), new |-> FALSE, solved |-> Solved(selection, content)]

Command ==
  [kind     : {"install", "update", "add", "remove", "lock"},
   names    : SUBSET Names,    \* add and remove
   group    : Groups,          \* add
   groups   : SUBSET Groups,   \* install and update
   sync     : BOOLEAN,
   dry      : BOOLEAN,
   lockOnly : BOOLEAN,         \* update, add and remove: --lock
   anew     : BOOLEAN]         \* lock: --regenerate

ASSUME ProjectAssumption ==
  /\ Commands \subseteq Command
  /\ Edits \subseteq Content
  /\ Beginnings \subseteq Environment
  /\ Unreadable \notin Content
  /\ NoLock \notin LockFile /\ Unreadable \notin LockFile
  /\ {OldLocks, LateEdits} \subseteq BOOLEAN

VARIABLES
  pyproject,
  lock,
  env,     \* what is installed
  procs    \* the processes and what they keep in memory

vars == <<pyproject, lock, env, procs>>

Idle == [pc |-> "idle"]
Nothing == [packages |-> [name \in Names |-> Absent], groups |-> [name \in Names |-> {}]]
(* What a process keeps in memory: the command, the package and its hash,  *)
(* what was there at first (for the properties), what is installed, the    *)
(* content to be written, and what the installer does and finds.           *)
Memory(command) ==
  [pc |-> "loaded", cmd |-> command, package |-> pyproject,
   hash |-> ContentHash(pyproject), before |-> <<pyproject, lock, env>>,
   installed |-> env, content |-> pyproject, mode |-> "none", read |-> NoLock,
   solved |-> Nothing, ok |-> TRUE, todo |-> {}]
AtRest(p) == procs[p].pc \in {"idle", "done", "nothing", "failed", "refused"}

Init ==
  /\ pyproject \in Edits
  /\ lock \in {NoLock, Unreadable}
       \cup (UNION {{LockOf(s, content) : s \in Solutions(content)} : content \in Edits})
       \cup IF OldLocks THEN {OldLockOf(s, pyproject) : s \in Solutions(pyproject)} ELSE {}
  /\ env \in Beginnings
  /\ procs = [p \in Procs |-> Idle]

Becomes(p, record) == procs' = [procs EXCEPT ![p] = record]
Ends(p, pc) == procs' = [procs EXCEPT ![p].pc = pc]
FilesKept == UNCHANGED <<pyproject, lock>>

(* The poetry object: the package and the locker with its content hash.    *)
Start(p, command) ==
  /\ AtRest(p)
  /\ pyproject # Unreadable
  /\ Becomes(p, Memory(command))
  /\ FilesKept /\ UNCHANGED env

(* Bug: a group that becomes empty is gone. *)
BugEmptyGroups(cmd, content) ==
  IF cmd.kind = "add" THEN [content EXCEPT ![cmd.group] = @ \cup cmd.names]
  ELSE IF cmd.kind = "remove"
       THEN [group \in {g \in Groups : ~ content[g] \subseteq cmd.names} |->
               content[group] \ cmd.names]
  ELSE content
(* The part of the file that add and remove change.                        *)
Changed(cmd, content) ==
  IF cmd.kind = "add" THEN [content EXCEPT ![cmd.group] = @ \cup cmd.names]
  ELSE IF cmd.kind = "remove" THEN [group \in Groups |-> content[group] \ cmd.names]
  ELSE content

(* The installer looks at the environment, the command reads the file.     *)
Read(p) ==
  LET me == procs[p] IN
  /\ me.pc = "loaded"
  /\ IF me.cmd.kind \notin {"add", "remove"}
     THEN Becomes(p, [me EXCEPT !.pc = "ready", !.installed = env])
     ELSE IF pyproject = Unreadable THEN Ends(p, "failed")
     ELSE IF me.cmd.kind = "add" /\ me.cmd.names \subseteq pyproject[me.cmd.group]
          THEN Ends(p, "nothing")
     ELSE IF me.cmd.kind = "remove"
             /\ ~ me.cmd.names \subseteq UNION {pyproject[group] : group \in Groups}
          THEN Ends(p, "failed")
     ELSE Becomes(p,
            [me EXCEPT !.pc = "ready", !.installed = env,
                       !.package = Changed(me.cmd, me.package),
                       !.hash = ContentHash(Changed(me.cmd, pyproject)),
                       !.content = Changed(me.cmd, pyproject)])
  /\ FilesKept /\ UNCHANGED env

IsLocked == lock # NoLock

(* Bug: a lock file is taken as it is. *)
BugAlwaysFresh(hash, file) == TRUE
IsFresh(hash, file) ==
  \/ hash = file.hash
  \/ ~ file.new /\ LegacyHash(hash) = file.hash

Updates(cmd) ==
  \/ cmd.kind \in {"update", "add", "remove"}
  \/ cmd.kind = "lock" /\ cmd.anew

(* Installer.run: refresh, update or install.                              *)
Check(p) ==
  LET me == procs[p] IN
  /\ me.pc = "ready"
  /\ \/ /\ ~ Updates(me.cmd) /\ me.cmd.kind = "lock" /\ IsLocked
        /\ Becomes(p, [me EXCEPT !.pc = "checked", !.mode = "refresh"])
     \/ /\ Updates(me.cmd) \/ ~ IsLocked
        /\ Becomes(p, [me EXCEPT !.pc = "checked", !.mode = "update"])
     \/ /\ ~ Updates(me.cmd) /\ me.cmd.kind # "lock" /\ IsLocked
        /\ IF lock # Unreadable /\ IsFresh(me.hash, lock)
           THEN Becomes(p, [me EXCEPT !.pc = "checked", !.mode = "install"])
           ELSE Ends(p, "refused")
  /\ FilesKept /\ UNCHANGED env

NeedsLock(me) ==
  \/ me.mode # "update"
  \/ me.cmd.kind # "lock" /\ IsLocked
OnlyLocks(cmd) == cmd.kind = "lock" \/ cmd.lockOnly
Executes(me) == me.mode = "install" \/ ~ OnlyLocks(me.cmd)

WantedGroups(cmd) == IF cmd.kind \in {"install", "update"} THEN cmd.groups ELSE Groups
ResultOf(solved, cmd) ==
  {[name |-> name, version |-> solved.packages[name], source |-> PyPI,
    applies |-> solved.groups[name] \cap WantedGroups(cmd) # {},
    optional |-> FALSE, directory |-> FALSE] :
     name \in {n \in Names : solved.packages[n] # Absent}}

LockedNames(read) ==
  IF read = NoLock THEN {} ELSE {n \in Names : read.solved.packages[n] # Absent}

OperationsOf(me, read, solved) ==
  CalculateOperations(LockedNames(read), ResultOf(solved, me.cmd), me.installed,
    [withUninstalls |-> me.cmd.sync \/ me.mode = "update", synchronize |-> me.cmd.sync,
     skipDirectory |-> FALSE, systemSite |-> {}])

(* The lock file is read, unless it is made anew, and the solver finds a   *)
(* solution, or fails.                                                     *)
Solve(p) ==
  LET me == procs[p]
      read == IF NeedsLock(me) THEN lock ELSE NoLock
  IN
  /\ me.pc = "checked"
  /\ \/ read = Unreadable /\ Ends(p, "refused")
     \/ me.mode # "install" /\ Ends(p, "failed")
     \/ /\ read # Unreadable
        /\ \E solved \in IF me.mode = "install" THEN {lock.solved}
                         ELSE {Solved(s, me.package) : s \in Solutions(me.package)} :
             Becomes(p,
               IF Executes(me)
               THEN [me EXCEPT !.pc = "executing", !.read = read, !.solved = solved,
                               !.todo = OperationsOf(me, read, solved)]
               ELSE [me EXCEPT !.pc = "write", !.read = read, !.solved = solved])
  /\ FilesKept /\ UNCHANGED env

(* An update that fails may have removed the old version already.          *)
Execute(p) ==
  LET me == procs[p] IN
  /\ me.pc = "executing"
  /\ \E op \in me.todo :
       \/ /\ env' = IF me.cmd.dry THEN env ELSE Executed(op, env)
          /\ Becomes(p, [me EXCEPT !.todo = @ \ {op}])
       \/ /\ ~ me.cmd.dry /\ ~ IsDone(op)
          /\ env' \in {env} \cup IF op.kind = "update"
                                 THEN {[env EXCEPT ![NameOf(op)] = Absent]} ELSE {}
          /\ Becomes(p, [me EXCEPT !.todo = @ \ {op}, !.ok = FALSE])
  /\ FilesKept

(* When one operation has failed the others may still be executed or not.  *)
IsOver(me) == me.todo = {} \/ ~ me.ok

(* Bug: the files are written whatever the executor returns. *)
BugWriteAnyway(me) ==
  IF me.mode = "install" THEN "done" ELSE "write"
AfterExecution(me) ==
  IF ~ me.ok THEN "failed" ELSE IF me.mode = "install" THEN "done" ELSE "write"

Finish(p) ==
  LET me == procs[p] IN
  /\ me.pc = "executing"
  /\ IsOver(me)
  /\ Ends(p, AfterExecution(me))
  /\ FilesKept /\ UNCHANGED env

AfterLock(cmd) ==
  IF cmd.kind \in {"add", "remove"} /\ ~ cmd.dry THEN "project" ELSE "done"

(* Bug: a changed hash alone is not worth a new file. *)
BugCompareSolutions(me) ==
  LET known == IF me.read = NoLock THEN lock ELSE me.read IN
  /\ ~ me.cmd.dry
  /\ IF known \in {NoLock, Unreadable} THEN TRUE ELSE known.solved # me.solved
(* Bug: a dry run writes the lock file. *)
BugWriteOnDryRun(me) ==
  LET known == IF me.read = NoLock THEN lock ELSE me.read IN
  IF known \in {NoLock, Unreadable} THEN TRUE ELSE known.solved # me.solved
(* The file is compared with what was read from it, the comment left out.  *)
ShouldWrite(me) ==
  LET known == IF me.read = NoLock THEN lock ELSE me.read IN
  /\ ~ me.cmd.dry
  /\ IF known \in {NoLock, Unreadable} THEN TRUE
     ELSE known.hash # me.hash \/ known.solved # me.solved

KeepLock(p) ==
  LET me == procs[p] IN
  /\ me.pc = "write"
  /\ ~ ShouldWrite(me)
  /\ Ends(p, AfterLock(me.cmd))
  /\ FilesKept /\ UNCHANGED env

(* The file is emptied when it is opened.                                  *)
OpenLock(p) ==
  LET me == procs[p] IN
  /\ me.pc = "write"
  /\ ShouldWrite(me)
  /\ lock' = Unreadable
  /\ Ends(p, "writing")
  /\ UNCHANGED <<pyproject, env>>

(* Bug: the hash is computed when the lock file is written. *)
BugHashNow(me) == IF pyproject = Unreadable THEN me.hash ELSE ContentHash(pyproject)
(* The hash is that of the content which the command works with.           *)
HashToWrite(me) == me.hash

WriteLock(p) ==
  LET me == procs[p] IN
  /\ me.pc = "writing"
  /\ lock' = [hash |-> HashToWrite(me), new |-> TRUE, solved |-> me.solved]
  /\ Ends(p, AfterLock(me.cmd))
  /\ UNCHANGED <<pyproject, env>>

OpenProject(p) ==
  /\ procs[p].pc = "project"
  /\ pyproject' = Unreadable
  /\ Ends(p, "saving")
  /\ UNCHANGED <<lock, env>>

WriteProject(p) ==
  /\ procs[p].pc = "saving"
  /\ pyproject' = procs[p].content
  /\ Ends(p, "done")
  /\ UNCHANGED <<lock, env>>

Crash(p) ==
  /\ ~ AtRest(p)
  /\ Becomes(p, Idle)
  /\ FilesKept /\ UNCHANGED env

(* The user edits, or restores, pyproject.toml.                            *)
Edit(content) ==
  /\ LateEdits \/ \A p \in Procs : AtRest(p)
  /\ pyproject' = content
  /\ procs' = [p \in Procs |-> IF AtRest(p) THEN Idle ELSE procs[p]]
  /\ UNCHANGED <<lock, env>>

Step(p) ==
  \/ Read(p) \/ Check(p) \/ Solve(p) \/ Execute(p) \/ Finish(p)
  \/ KeepLock(p) \/ OpenLock(p) \/ WriteLock(p) \/ OpenProject(p) \/ WriteProject(p)

Next ==
  \/ \E p \in Procs :
       \/ \E command \in Commands : Start(p, command)
       \/ Step(p)
       \/ Crash(p)
  \/ \E content \in Edits : Edit(content)

Spec == Init /\ [][Next]_vars
-----------------------------------------------------------------------------
(* Properties *)

TypeOK ==
  /\ pyproject \in Content \cup {Unreadable}
  /\ env \in Environment
  /\ lock \in LockFile \cup {NoLock, Unreadable}
  /\ \A p \in Procs : ~ AtRest(p) => procs[p].cmd \in Commands /\ procs[p].package \in Content

IsReadable(file) == file \notin {NoLock, Unreadable}

(* "Verify that lock file is consistent" (check --lock): a lock file that  *)
(* is taken for fresh is an answer to pyproject.toml, whatever crashed.    *)
FreshLockAnswers ==
  IsReadable(lock) /\ pyproject # Unreadable /\ IsFresh(ContentHash(pyproject), lock) =>
    Answers(lock.solved.packages, pyproject)

(* A command that fails or is refused leaves both files as they were, and  *)
(* a dry run the environment as well.                                      *)
FailureChangesNoFile ==
  \A p \in Procs :
    /\ procs[p].pc \in {"failed", "refused", "nothing"} =>
         procs[p].before[1] = pyproject /\ procs[p].before[2] = lock
    /\ (~ AtRest(p) \/ procs[p].pc = "done") /\ procs[p].cmd.dry =>
         procs[p].before = <<pyproject, lock, env>>

(* A command that changes the project and succeeds leaves a lock file that *)
(* is fresh and an answer, and the names where they belong.                *)
LockedWhenDone ==
  \A p \in Procs :
    procs[p].pc = "done" /\ procs[p].mode # "install" /\ ~ procs[p].cmd.dry =>
      /\ IsReadable(lock)
      /\ lock.hash = ContentHash(pyproject)
      /\ Answers(lock.solved.packages, pyproject)
      /\ procs[p].cmd.kind = "add" => procs[p].cmd.names \subseteq pyproject[procs[p].cmd.group]

HasInstalled(p) ==
  /\ procs[p].pc = "done" /\ ~ procs[p].cmd.dry
  /\ Executes(procs[p])

(* After install, sync, update, add and remove the environment has what    *)
(* the lock file says for the groups, and after sync nothing else.         *)
InstalledWhenDone ==
  \A p \in Procs :
    HasInstalled(p) =>
      \A name \in Names :
        /\ lock.solved.groups[name] \cap WantedGroups(procs[p].cmd) # {} =>
             env[name] # Absent /\ env[name].version = lock.solved.packages[name]
        /\ procs[p].cmd.sync /\ name \notin {Pip, Root} =>
             (env[name] # Absent <=> lock.solved.groups[name] \cap WantedGroups(procs[p].cmd) # {})

(* "pyproject.toml changed significantly since poetry.lock was last         *)
(* generated": what install installs answers the pyproject.toml it has read. *)
InstallAnswersProject ==
  \A p \in Procs :
    procs[p].pc = "done" /\ procs[p].mode = "install" =>
      Answers(procs[p].solved.packages, procs[p].package)

(* pyproject.toml is only touched when the lock file is right for it: a    *)
(* crash leaves a lock file that is found to be outdated.                  *)
ProjectIsLast ==
  \A p \in Procs :
    procs[p].pc \in {"project", "saving"} =>
      /\ IsReadable(lock)
      /\ IsFresh(ContentHash(procs[p].content), lock)
      /\ Answers(lock.solved.packages, procs[p].content)

(* A command leaves what it says it leaves, whether it fails or succeeds.  *)
OutcomeIsTrue ==
  TypeOK /\ FailureChangesNoFile /\ InstalledWhenDone /\ InstallAnswersProject
=============================================================================
