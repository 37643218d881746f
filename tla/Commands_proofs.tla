--------------------------- MODULE Commands_proofs ---------------------------
(***************************************************************************)
(* What the commands do and rest on, for every value of the constants:     *)
(* pyproject.toml, the lock file and the environment, a file of the cache  *)
(* that processes read, write and remove without a lock, and the files of   *)
(* the configuration, which are changed and migrated without a lock.       *)
(***************************************************************************)
EXTENDS MCCommands, Sequences, FiniteSetTheorems, WellFoundedInduction, TLAPS

-----------------------------------------------------------------------------
(* Project *)

OnlyReaders == \A cmd \in Commands : cmd.kind \notin {"add", "remove"}
Alone == ~ LateEdits /\ \A p, q \in Procs : p = q
(* No lock file of an older Poetry, and nobody changes the file that       *)
(* another command, or an editor, is about to change.                      *)
Undisturbed == ~ OldLocks /\ (OnlyReaders \/ Alone)

Writes(cmd) == cmd.kind \in {"add", "remove"}

IsRecord(me) ==
  me = [pc |-> me.pc, cmd |-> me.cmd, package |-> me.package, hash |-> me.hash,
        before |-> me.before, installed |-> me.installed, content |-> me.content,
        mode |-> me.mode, read |-> me.read, solved |-> me.solved, ok |-> me.ok,
        todo |-> me.todo]

GoodLock ==
  IsReadable(lock) => lock.new /\ Answers(lock.solved.packages, lock.hash)

(* A process works with one content, and with a solution for it.           *)
GoodMemory(p) ==
  LET me == procs[p] IN
  me.pc # "idle" =>
    /\ IsRecord(me)
    /\ me.cmd \in Commands
    /\ me.pc = "loaded" =>
         me.hash = me.package /\ (Writes(me.cmd) => me.package = pyproject)
    /\ me.pc \in {"ready", "checked", "executing", "write", "writing"} =>
         me.hash = me.package
    /\ me.pc \in {"executing", "write", "writing"} /\ me.mode # "install" =>
         Answers(me.solved.packages, me.hash)
    /\ me.pc \in {"write", "writing"} => me.mode # "install"

IInv ==
  /\ Undisturbed
  /\ procs \in [Procs -> {procs[p] : p \in Procs}]
  /\ GoodLock
  /\ \A p \in Procs : GoodMemory(p)

(* A solution answers the content it was found for.                        *)
LEMMA SolutionAnswers ==
  ASSUME NEW content, NEW s \in Solutions(content)
  PROVE  Answers(Solved(s, content).packages, content)
BY DEF Solutions, Solved

LEMMA InitEstablishes == Undisturbed /\ Init => IInv
<1>. SUFFICES ASSUME Undisturbed, Init PROVE IInv
  OBVIOUS
<1>1. GoodLock
  <2>1. lock \in {NoLock, Unreadable}
          \cup UNION {{LockOf(s, content) : s \in Solutions(content)} : content \in Edits}
    BY DEF Init, Undisturbed
  <2>2. ASSUME IsReadable(lock) PROVE lock.new /\ Answers(lock.solved.packages, lock.hash)
    <3>1. PICK content \in Edits : \E s \in Solutions(content) : lock = LockOf(s, content)
      BY <2>1, <2>2 DEF IsReadable
    <3>2. PICK s \in Solutions(content) : lock = LockOf(s, content)
      BY <3>1
    <3>3. lock.new /\ lock.hash = content /\ lock.solved = Solved(s, content)
      BY <3>2 DEF LockOf, ContentHash
    <3>4. QED
      BY <3>3, SolutionAnswers
  <2>3. QED
    BY <2>2 DEF GoodLock
<1>2. QED
  BY <1>1 DEF Init, IInv, GoodMemory, Idle

(* A step of one process leaves what is known of the others.               *)
LEMMA OthersKept ==
  ASSUME IInv, NEW p \in Procs, NEW me, Becomes(p, me), GoodMemory(p)', GoodLock',
         Alone \/ UNCHANGED pyproject
  PROVE  IInv'
<1>1. procs' \in [Procs -> {procs'[q] : q \in Procs}]
  BY DEF IInv, Becomes
<1>2. ASSUME NEW q \in Procs PROVE GoodMemory(q)'
  <2>1. CASE q = p
    BY <2>1
  <2>2. CASE q # p
    <3>1. procs'[q] = procs[q] /\ UNCHANGED pyproject
      BY <2>2 DEF IInv, Becomes, Alone
    <3>2. QED
      BY <3>1 DEF IInv, GoodMemory
  <2>3. QED
    BY <2>1, <2>2
<1>3. QED
  BY <1>1, <1>2 DEF IInv

LEMMA EndsBecomes ==
  ASSUME NEW p \in Procs, NEW pc, Ends(p, pc)
  PROVE  Becomes(p, [procs[p] EXCEPT !.pc = pc])
BY DEF Ends, Becomes

(* A process that has ended knows nothing that matters.                    *)
LEMMA Ended ==
  ASSUME IInv, NEW p \in Procs, procs[p].pc # "idle",
         NEW pc \in {"done", "nothing", "failed", "refused", "project", "saving"},
         Ends(p, pc), GoodLock', Alone \/ UNCHANGED pyproject
  PROVE  IInv'
<1>1. Becomes(p, [procs[p] EXCEPT !.pc = pc])
  BY EndsBecomes
<1>2. procs'[p] = [procs[p] EXCEPT !.pc = pc]
  BY <1>1 DEF IInv, Becomes
<1>3. IsRecord(procs[p]) /\ procs[p].cmd \in Commands
  BY DEF IInv, GoodMemory
<1>4. IsRecord(procs'[p]) /\ procs'[p].pc = pc /\ procs'[p].cmd \in Commands
  BY <1>2, <1>3 DEF IsRecord
<1>5. GoodMemory(p)'
  BY <1>4 DEF GoodMemory, IsRecord
<1>6. QED
  BY <1>1, <1>5, OthersKept

LEMMA StartPreserves ==
  ASSUME IInv, NEW p \in Procs, NEW cmd \in Commands, Start(p, cmd)
  PROVE  IInv'
<1>1. GoodLock' /\ UNCHANGED pyproject
  BY DEF IInv, Start, FilesKept, GoodLock
<1>2. procs'[p] = Memory(cmd)
  BY DEF IInv, Start, Becomes
<1>3. GoodMemory(p)'
  BY <1>1, <1>2 DEF GoodMemory, Memory, IsRecord, ContentHash
<1>4. QED
  BY <1>1, <1>3, OthersKept DEF Start

LEMMA ReadPreserves ==
  ASSUME IInv, NEW p \in Procs, Read(p)
  PROVE  IInv'
<1>. DEFINE me == procs[p]
<1>0. me.pc = "loaded" /\ IsRecord(me) /\ me.cmd \in Commands /\ me.hash = me.package
      /\ (Writes(me.cmd) => me.package = pyproject)
  BY DEF IInv, Read, GoodMemory
<1>1. GoodLock' /\ UNCHANGED pyproject
  BY DEF IInv, Read, FilesKept, GoodLock
<1>2. CASE ~ Writes(me.cmd)
  <2>1. Becomes(p, [me EXCEPT !.pc = "ready", !.installed = env])
    BY <1>2 DEF Read, Writes
  <2>2. procs'[p] = [me EXCEPT !.pc = "ready", !.installed = env]
    BY <2>1 DEF IInv, Becomes
  <2>3. GoodMemory(p)'
    BY <1>0, <2>2 DEF GoodMemory, IsRecord
  <2>4. QED
    BY <1>1, <2>1, <2>3, OthersKept
<1>3. CASE Writes(me.cmd) /\ (Ends(p, "failed") \/ Ends(p, "nothing"))
  BY <1>0, <1>1, <1>3, Ended
<1>4. CASE Writes(me.cmd) /\ ~ (Ends(p, "failed") \/ Ends(p, "nothing"))
  <2>. DEFINE ready == [me EXCEPT !.pc = "ready", !.installed = env,
                          !.package = Changed(me.cmd, me.package),
                          !.hash = ContentHash(Changed(me.cmd, pyproject)),
                          !.content = Changed(me.cmd, pyproject)]
  <2>1. Becomes(p, ready)
    BY <1>4 DEF Read, Writes
  <2>2. procs'[p] = ready
    BY <2>1 DEF IInv, Becomes
  <2>3. ready.hash = ready.package
    BY <1>0, <1>4 DEF ContentHash, IsRecord
  <2>4. GoodMemory(p)'
    BY <1>0, <2>2, <2>3 DEF GoodMemory, IsRecord
  <2>5. QED
    BY <1>1, <2>1, <2>4, OthersKept
<1>5. QED
  BY <1>2, <1>3, <1>4

LEMMA CheckPreserves ==
  ASSUME IInv, NEW p \in Procs, Check(p)
  PROVE  IInv'
<1>. DEFINE me == procs[p]
<1>0. me.pc = "ready" /\ IsRecord(me) /\ me.cmd \in Commands /\ me.hash = me.package
  BY DEF IInv, Check, GoodMemory
<1>1. GoodLock' /\ UNCHANGED pyproject
  BY DEF IInv, Check, FilesKept, GoodLock
<1>2. ASSUME NEW mode, Becomes(p, [me EXCEPT !.pc = "checked", !.mode = mode])
      PROVE  IInv'
  <2>1. procs'[p] = [me EXCEPT !.pc = "checked", !.mode = mode]
    BY <1>2 DEF IInv, Becomes
  <2>2. GoodMemory(p)'
    BY <1>0, <2>1 DEF GoodMemory, IsRecord
  <2>3. QED
    BY <1>1, <1>2, <2>2, OthersKept
<1>3. CASE Ends(p, "refused")
  BY <1>0, <1>1, <1>3, Ended
<1>4. QED
  BY <1>2, <1>3 DEF Check

LEMMA SolvePreserves ==
  ASSUME IInv, NEW p \in Procs, Solve(p)
  PROVE  IInv'
<1>. DEFINE me == procs[p]
            read == IF NeedsLock(me) THEN lock ELSE NoLock
<1>0. me.pc = "checked" /\ IsRecord(me) /\ me.cmd \in Commands /\ me.hash = me.package
  BY DEF IInv, Solve, GoodMemory
<1>1. GoodLock' /\ UNCHANGED pyproject
  BY DEF IInv, Solve, FilesKept, GoodLock
<1>2. CASE Ends(p, "refused") \/ Ends(p, "failed")
  BY <1>0, <1>1, <1>2, Ended
<1>3. ASSUME NEW solved \in IF me.mode = "install" THEN {lock.solved}
                            ELSE {Solved(s, me.package) : s \in Solutions(me.package)},
             NEW ops, NEW pc \in {"executing", "write"},
             pc = "write" => me.mode # "install",
             Becomes(p, [me EXCEPT !.pc = pc, !.read = read, !.solved = solved, !.todo = ops])
      PROVE  IInv'
  <2>1. me.mode # "install" => Answers(solved.packages, me.hash)
    BY <1>0, <1>3, SolutionAnswers
  <2>2. procs'[p] = [me EXCEPT !.pc = pc, !.read = read, !.solved = solved, !.todo = ops]
    BY <1>3 DEF IInv, Becomes
  <2>3. GoodMemory(p)'
    BY <1>0, <1>3, <2>1, <2>2 DEF GoodMemory, IsRecord
  <2>4. QED
    BY <1>1, <1>3, <2>3, OthersKept
<1>4. CASE ~ (Ends(p, "refused") \/ Ends(p, "failed"))
  <2>1. PICK solved \in IF me.mode = "install" THEN {lock.solved}
                        ELSE {Solved(s, me.package) : s \in Solutions(me.package)} :
          Becomes(p,
            IF Executes(me)
            THEN [me EXCEPT !.pc = "executing", !.read = read, !.solved = solved,
                            !.todo = OperationsOf(me, read, solved)]
            ELSE [me EXCEPT !.pc = "write", !.read = read, !.solved = solved])
    BY <1>4 DEF Solve
  <2>2. CASE Executes(me)
    BY <1>3, <2>1, <2>2
  <2>3. CASE ~ Executes(me)
    <3>1. [me EXCEPT !.pc = "write", !.read = read, !.solved = solved]
            = [me EXCEPT !.pc = "write", !.read = read, !.solved = solved, !.todo = me.todo]
      BY <1>0 DEF IsRecord
    <3>2. me.mode # "install"
      BY <2>3 DEF Executes
    <3>3. QED
      BY <1>3, <2>1, <2>3, <3>1, <3>2
  <2>4. QED
    BY <2>2, <2>3
<1>5. QED
  BY <1>2, <1>4

LEMMA ExecutePreserves ==
  ASSUME IInv, NEW p \in Procs, Execute(p)
  PROVE  IInv'
<1>. DEFINE me == procs[p]
<1>0. me.pc = "executing" /\ IsRecord(me) /\ me.cmd \in Commands /\ me.hash = me.package
      /\ (me.mode # "install" => Answers(me.solved.packages, me.hash))
  BY DEF IInv, Execute, GoodMemory
<1>1. GoodLock' /\ UNCHANGED pyproject
  BY DEF IInv, Execute, FilesKept, GoodLock
<1>2. PICK ops, ok : Becomes(p, [me EXCEPT !.todo = ops, !.ok = ok])
  <2>1. [me EXCEPT !.todo = @] = me
    BY <1>0 DEF IsRecord
  <2>2. PICK op \in me.todo : \/ Becomes(p, [me EXCEPT !.todo = @ \ {op}])
                             \/ Becomes(p, [me EXCEPT !.todo = @ \ {op}, !.ok = FALSE])
    BY DEF Execute
  <2>3. [me EXCEPT !.todo = @ \ {op}] = [me EXCEPT !.todo = @ \ {op}, !.ok = me.ok]
    BY <1>0 DEF IsRecord
  <2>4. QED
    BY <2>2, <2>3
<1>3. procs'[p] = [me EXCEPT !.todo = ops, !.ok = ok]
  BY <1>2 DEF IInv, Becomes
<1>4. GoodMemory(p)'
  BY <1>0, <1>3 DEF GoodMemory, IsRecord
<1>5. QED
  BY <1>1, <1>2, <1>4, OthersKept

LEMMA FinishPreserves ==
  ASSUME IInv, NEW p \in Procs, Finish(p)
  PROVE  IInv'
<1>. DEFINE me == procs[p]
<1>0. me.pc = "executing" /\ IsRecord(me) /\ me.cmd \in Commands /\ me.hash = me.package
      /\ (me.mode # "install" => Answers(me.solved.packages, me.hash))
  BY DEF IInv, Finish, GoodMemory
<1>1. GoodLock' /\ UNCHANGED pyproject
  BY DEF IInv, Finish, FilesKept, GoodLock
<1>2. CASE Ends(p, "failed") \/ Ends(p, "done")
  BY <1>0, <1>1, <1>2, Ended
<1>3. CASE ~ (Ends(p, "failed") \/ Ends(p, "done"))
  <2>1. Ends(p, "write") /\ me.mode # "install"
    BY <1>3 DEF Finish, AfterExecution
  <2>2. Becomes(p, [me EXCEPT !.pc = "write"])
    BY <2>1, EndsBecomes
  <2>3. procs'[p] = [me EXCEPT !.pc = "write"]
    BY <2>2 DEF IInv, Becomes
  <2>4. GoodMemory(p)'
    BY <1>0, <2>1, <2>3 DEF GoodMemory, IsRecord
  <2>5. QED
    BY <1>1, <2>2, <2>4, OthersKept
<1>4. QED
  BY <1>2, <1>3

LEMMA LockPreserves ==
  ASSUME IInv, NEW p \in Procs, KeepLock(p) \/ OpenLock(p) \/ WriteLock(p)
  PROVE  IInv'
<1>. DEFINE me == procs[p]
<1>0. me.pc \in {"write", "writing"} /\ IsRecord(me) /\ me.cmd \in Commands
      /\ me.hash = me.package /\ Answers(me.solved.packages, me.hash) /\ me.mode # "install"
  BY DEF IInv, KeepLock, OpenLock, WriteLock, GoodMemory
<1>1. UNCHANGED pyproject
  BY DEF KeepLock, OpenLock, WriteLock, FilesKept
<1>2. AfterLock(me.cmd) \in {"project", "done"}
  BY DEF AfterLock
<1>3. CASE KeepLock(p)
  <2>1. GoodLock'
    BY <1>3 DEF IInv, KeepLock, FilesKept, GoodLock
  <2>2. QED
    BY <1>0, <1>1, <1>2, <1>3, <2>1, Ended DEF KeepLock
<1>4. CASE OpenLock(p)
  <2>1. GoodLock'
    BY <1>4 DEF OpenLock, GoodLock, IsReadable
  <2>2. Becomes(p, [me EXCEPT !.pc = "writing"])
    BY <1>4, EndsBecomes DEF OpenLock
  <2>3. procs'[p] = [me EXCEPT !.pc = "writing"]
    BY <2>2 DEF IInv, Becomes
  <2>4. GoodMemory(p)'
    BY <1>0, <2>3 DEF GoodMemory, IsRecord
  <2>5. QED
    BY <1>1, <2>1, <2>2, <2>4, OthersKept
<1>5. CASE WriteLock(p)
  <2>1. GoodLock'
    BY <1>0, <1>5 DEF WriteLock, GoodLock, HashToWrite
  <2>2. QED
    BY <1>0, <1>1, <1>2, <1>5, <2>1, Ended DEF WriteLock
<1>6. QED
  BY <1>3, <1>4, <1>5

LEMMA SavePreserves ==
  ASSUME IInv, NEW p \in Procs, OpenProject(p) \/ WriteProject(p)
  PROVE  IInv'
<1>. DEFINE me == procs[p]
<1>0. me.pc \in {"project", "saving"} /\ IsRecord(me) /\ me.cmd \in Commands
  BY DEF IInv, OpenProject, WriteProject, GoodMemory
<1>1. GoodLock'
  BY DEF IInv, OpenProject, WriteProject, GoodLock
<1>2. Ends(p, "saving") \/ Ends(p, "done")
  BY DEF OpenProject, WriteProject
<1>3. PICK pc \in {"saving", "done"} : Becomes(p, [me EXCEPT !.pc = pc])
  BY <1>2, EndsBecomes
<1>4. procs'[p] = [me EXCEPT !.pc = pc]
  BY <1>3 DEF IInv, Becomes
<1>5. GoodMemory(p)'
  BY <1>0, <1>4 DEF GoodMemory, IsRecord
<1>6. procs' \in [Procs -> {procs'[q] : q \in Procs}]
  BY <1>3 DEF IInv, Becomes
<1>7. ASSUME NEW q \in Procs PROVE GoodMemory(q)'
  <2>1. CASE q = p
    BY <1>5, <2>1
  <2>2. CASE q # p
    <3>1. procs'[q] = procs[q]
      BY <1>3, <2>2 DEF IInv, Becomes
    <3>2. CASE Alone
      BY <2>2, <3>2 DEF Alone
    <3>3. CASE OnlyReaders
      BY <3>1, <3>3 DEF IInv, GoodMemory, OnlyReaders, Writes
    <3>4. QED
      BY <3>2, <3>3 DEF IInv, Undisturbed
  <2>3. QED
    BY <2>1, <2>2
<1>8. QED
  BY <1>1, <1>6, <1>7 DEF IInv

LEMMA CrashPreserves ==
  ASSUME IInv, NEW p \in Procs, Crash(p)
  PROVE  IInv'
<1>1. GoodLock' /\ UNCHANGED pyproject
  BY DEF IInv, Crash, FilesKept, GoodLock
<1>2. GoodMemory(p)'
  BY DEF IInv, Crash, Becomes, GoodMemory, Idle
<1>3. QED
  BY <1>1, <1>2, OthersKept DEF Crash

LEMMA EditPreserves ==
  ASSUME IInv, NEW content \in Edits, Edit(content)
  PROVE  IInv'
<1>1. GoodLock'
  BY DEF IInv, Edit, GoodLock
<1>2. procs' \in [Procs -> {procs'[q] : q \in Procs}]
  BY DEF Edit
<1>3. ASSUME NEW q \in Procs PROVE GoodMemory(q)'
  <2>1. CASE AtRest(q)
    BY <2>1 DEF Edit, GoodMemory, Idle
  <2>2. CASE ~ AtRest(q)
    <3>1. procs'[q] = procs[q] /\ LateEdits
      BY <2>2 DEF Edit
    <3>2. OnlyReaders
      BY <3>1 DEF IInv, Undisturbed, Alone
    <3>3. QED
      BY <3>1, <3>2 DEF IInv, GoodMemory, OnlyReaders, Writes
  <2>3. QED
    BY <2>1, <2>2
<1>4. QED
  BY <1>1, <1>2, <1>3 DEF IInv

LEMMA StepPreserves == IInv /\ [Next]_vars => IInv'
<1>1. ASSUME IInv, UNCHANGED vars PROVE IInv'
  BY <1>1 DEF IInv, vars, GoodLock, GoodMemory
<1>2. ASSUME IInv, NEW p \in Procs, Step(p) PROVE IInv'
  BY <1>2, ReadPreserves, CheckPreserves, SolvePreserves, ExecutePreserves, FinishPreserves,
     LockPreserves, SavePreserves DEF Step
<1>3. QED
  BY <1>1, <1>2, StartPreserves, CrashPreserves, EditPreserves DEF Next

LEMMA Invariance == Undisturbed /\ Spec => []IInv
BY InitEstablishes, StepPreserves, PTL DEF Spec

(* A lock file that is found fresh answers pyproject.toml, for every        *)
(* project: any number of processes that only read pyproject.toml, while   *)
(* it is edited, or one process that may change it; whatever crashes.      *)
THEOREM FreshLockIsTrue == Undisturbed /\ Spec => []FreshLockAnswers
<1>1. IInv => FreshLockAnswers
  BY DEF IInv, GoodLock, FreshLockAnswers, IsFresh, ContentHash
<1>2. QED
  BY <1>1, Invariance, PTL
-----------------------------------------------------------------------------
(* One command at a time: what it leaves behind.                           *)
Lonely == ~ OldLocks /\ Alone

IsAnsweredBy(content, found) ==
  IsReadable(found) /\ found.hash = content /\ Answers(found.solved.packages, content)
HasNames(cmd, content) == cmd.kind = "add" => cmd.names \subseteq content[cmd.group]

GoodProcess(p) ==
  LET me == procs[p] IN
  me.pc # "idle" =>
    /\ me.pc = "loaded" => me.package = pyproject /\ me.package \in Content
    /\ me.pc \in {"ready", "checked", "executing", "write", "writing"} =>
         /\ me.package \in Content
         /\ me.package = IF Writes(me.cmd) THEN me.content ELSE pyproject
         /\ HasNames(me.cmd, me.package)
    /\ me.pc \in {"executing", "write"} /\ me.mode # "install" => me.read \in {NoLock, lock}
    /\ me.pc \in {"executing", "write", "writing"} /\ me.mode # "install" =>
         me.solved \in Solution
    /\ me.pc = "writing" => ~ me.cmd.dry
    /\ me.pc \in {"project", "saving"} =>
         /\ me.content \in Content
         /\ IsAnsweredBy(me.content, lock)
         /\ HasNames(me.cmd, me.content)
    /\ me.pc = "done" /\ me.mode # "install" /\ ~ me.cmd.dry =>
         IsAnsweredBy(pyproject, lock) /\ HasNames(me.cmd, pyproject)

IInvAlone ==
  /\ Lonely
  /\ IInv
  /\ pyproject \in Content \cup {Unreadable}
  /\ \A p \in Procs : GoodProcess(p)

LEMMA InitAlone == Lonely /\ Init => IInvAlone
<1>. SUFFICES ASSUME Lonely, Init PROVE IInvAlone
  OBVIOUS
<1>1. IInv
  BY InitEstablishes DEF Lonely, Undisturbed
<1>2. QED
  BY <1>1, ProjectAssumption DEF Init, IInvAlone, GoodProcess, Idle

(* Alone, a process decides for all of them.                               *)
LEMMA OnlyOne ==
  ASSUME IInvAlone, NEW p \in Procs, NEW me, Becomes(p, me), GoodProcess(p)', IInv',
         pyproject' \in Content \cup {Unreadable}
  PROVE  IInvAlone'
BY DEF IInvAlone, Lonely, Alone

LEMMA StepMemory ==
  ASSUME IInvAlone, NEW p \in Procs, NEW me, Becomes(p, me)
  PROVE  procs'[p] = me
BY DEF IInvAlone, IInv, Becomes

(* What a process is changed to keeps its other fields.                    *)
LEMMA StepEnds ==
  ASSUME IInvAlone, NEW p \in Procs, procs[p].pc # "idle", NEW pc, Ends(p, pc)
  PROVE  /\ procs'[p].pc = pc
         /\ procs'[p].cmd = procs[p].cmd /\ procs'[p].mode = procs[p].mode
         /\ procs'[p].content = procs[p].content /\ procs'[p].package = procs[p].package
         /\ procs'[p].read = procs[p].read /\ procs'[p].solved = procs[p].solved
         /\ Becomes(p, [procs[p] EXCEPT !.pc = pc])
<1>1. Becomes(p, [procs[p] EXCEPT !.pc = pc])
  BY EndsBecomes
<1>2. procs'[p] = [procs[p] EXCEPT !.pc = pc]
  BY <1>1, StepMemory
<1>3. IsRecord(procs[p])
  BY DEF IInvAlone, IInv, GoodMemory
<1>4. QED
  BY <1>1, <1>2, <1>3 DEF IsRecord

LEMMA ChangedIsContent ==
  ASSUME NEW cmd \in Command, NEW content \in Content
  PROVE  Changed(cmd, content) \in Content /\ HasNames(cmd, Changed(cmd, content))
BY DEF Command, Content, Changed, HasNames

LEMMA StartAlone ==
  ASSUME IInvAlone, NEW p \in Procs, NEW cmd \in Commands, Start(p, cmd)
  PROVE  IInvAlone'
<1>1. IInv' /\ pyproject' \in Content \cup {Unreadable} /\ pyproject' \in Content
  BY StartPreserves DEF IInvAlone, Start, FilesKept
<1>2. procs'[p] = Memory(cmd) /\ Becomes(p, Memory(cmd))
  BY StepMemory DEF Start
<1>3. GoodProcess(p)'
  BY <1>1, <1>2 DEF GoodProcess, Memory, Start, FilesKept
<1>4. QED
  BY <1>1, <1>2, <1>3, OnlyOne

LEMMA ReadAlone ==
  ASSUME IInvAlone, NEW p \in Procs, Read(p)
  PROVE  IInvAlone'
<1>. DEFINE me == procs[p]
            ready == [me EXCEPT !.pc = "ready", !.installed = env,
                        !.package = Changed(me.cmd, me.package),
                        !.hash = ContentHash(Changed(me.cmd, pyproject)),
                        !.content = Changed(me.cmd, pyproject)]
<1>0. me.pc = "loaded" /\ IsRecord(me) /\ me.cmd \in Command
      /\ me.package = pyproject /\ me.package \in Content
  BY ProjectAssumption DEF IInvAlone, IInv, Read, GoodMemory, GoodProcess
<1>1. IInv' /\ UNCHANGED <<pyproject, lock>> /\ pyproject' \in Content \cup {Unreadable}
  BY ReadPreserves DEF IInvAlone, Read, FilesKept
<1>2. CASE Ends(p, "failed") \/ Ends(p, "nothing")
  <2>1. PICK pc \in {"failed", "nothing"} : Ends(p, pc)
    BY <1>2
  <2>2. procs'[p].pc = pc /\ Becomes(p, [me EXCEPT !.pc = pc])
    BY <1>0, <2>1, StepEnds
  <2>3. GoodProcess(p)'
    BY <2>2 DEF GoodProcess
  <2>4. QED
    BY <1>1, <2>2, <2>3, OnlyOne
<1>3. CASE ~ Writes(me.cmd) /\ Becomes(p, [me EXCEPT !.pc = "ready", !.installed = env])
  <2>1. procs'[p] = [me EXCEPT !.pc = "ready", !.installed = env]
    BY <1>3, StepMemory
  <2>2. HasNames(me.cmd, me.package)
    BY <1>3 DEF HasNames, Writes
  <2>3. GoodProcess(p)'
    BY <1>0, <1>1, <1>3, <2>1, <2>2 DEF GoodProcess, IsRecord
  <2>4. QED
    BY <1>1, <1>3, <2>3, OnlyOne
<1>4. CASE Writes(me.cmd) /\ Becomes(p, ready)
  <2>1. procs'[p] = ready
    BY <1>4, StepMemory
  <2>2. procs'[p].pc = "ready" /\ procs'[p].cmd = me.cmd
        /\ procs'[p].package = Changed(me.cmd, me.package)
        /\ procs'[p].content = Changed(me.cmd, me.package)
    BY <1>0, <2>1 DEF IsRecord
  <2>3. GoodProcess(p)'
    BY <1>0, <1>4, <2>2, ChangedIsContent DEF GoodProcess
  <2>4. QED
    BY <1>1, <1>4, <2>3, OnlyOne
<1>5. QED
  BY <1>2, <1>3, <1>4 DEF Read, Writes

LEMMA CheckAlone ==
  ASSUME IInvAlone, NEW p \in Procs, Check(p)
  PROVE  IInvAlone'
<1>. DEFINE me == procs[p]
<1>0. me.pc = "ready" /\ IsRecord(me) /\ GoodProcess(p)
  BY DEF IInvAlone, IInv, Check, GoodMemory
<1>1. IInv' /\ UNCHANGED <<pyproject, lock>> /\ pyproject' \in Content \cup {Unreadable}
  BY CheckPreserves DEF IInvAlone, Check, FilesKept
<1>2. ASSUME NEW mode, Becomes(p, [me EXCEPT !.pc = "checked", !.mode = mode])
      PROVE  IInvAlone'
  <2>1. procs'[p] = [me EXCEPT !.pc = "checked", !.mode = mode]
    BY <1>2, StepMemory
  <2>2. GoodProcess(p)'
    BY <1>0, <1>1, <2>1 DEF GoodProcess, IsRecord
  <2>3. QED
    BY <1>1, <1>2, <2>2, OnlyOne
<1>3. CASE Ends(p, "refused")
  <2>1. procs'[p].pc = "refused" /\ Becomes(p, [me EXCEPT !.pc = "refused"])
    BY <1>0, <1>3, StepEnds
  <2>2. GoodProcess(p)'
    BY <2>1 DEF GoodProcess
  <2>3. QED
    BY <1>1, <2>1, <2>2, OnlyOne
<1>4. QED
  BY <1>2, <1>3 DEF Check

LEMMA SolutionHasType ==
  ASSUME NEW content, NEW s \in Solutions(content)
  PROVE  Solved(s, content) \in Solution
BY DEF Solutions, Solved, Solution

LEMMA SolveAlone ==
  ASSUME IInvAlone, NEW p \in Procs, Solve(p)
  PROVE  IInvAlone'
<1>. DEFINE me == procs[p]
            read == IF NeedsLock(me) THEN lock ELSE NoLock
<1>0. me.pc = "checked" /\ IsRecord(me) /\ GoodProcess(p)
  BY DEF IInvAlone, IInv, Solve, GoodMemory
<1>1. IInv' /\ UNCHANGED <<pyproject, lock>> /\ pyproject' \in Content \cup {Unreadable}
  BY SolvePreserves DEF IInvAlone, Solve, FilesKept
<1>2. CASE Ends(p, "refused") \/ Ends(p, "failed")
  <2>1. PICK pc \in {"failed", "refused"} : Ends(p, pc)
    BY <1>2
  <2>2. procs'[p].pc = pc /\ Becomes(p, [me EXCEPT !.pc = pc])
    BY <1>0, <2>1, StepEnds
  <2>3. GoodProcess(p)'
    BY <2>2 DEF GoodProcess
  <2>4. QED
    BY <1>1, <2>2, <2>3, OnlyOne
<1>3. ASSUME NEW solved, NEW ops, NEW pc \in {"executing", "write"},
             me.mode # "install" => solved \in Solution,
             Becomes(p, [me EXCEPT !.pc = pc, !.read = read, !.solved = solved, !.todo = ops])
      PROVE  IInvAlone'
  <2>1. procs'[p] = [me EXCEPT !.pc = pc, !.read = read, !.solved = solved, !.todo = ops]
    BY <1>3, StepMemory
  <2>2. procs'[p].pc = pc /\ procs'[p].read = read /\ procs'[p].cmd = me.cmd
        /\ procs'[p].package = me.package /\ procs'[p].content = me.content
        /\ procs'[p].mode = me.mode /\ procs'[p].solved = solved
    BY <1>0, <2>1 DEF IsRecord
  <2>3. GoodProcess(p)'
    BY <1>0, <1>1, <1>3, <2>2 DEF GoodProcess
  <2>4. QED
    BY <1>1, <1>3, <2>3, OnlyOne
<1>4. CASE ~ (Ends(p, "refused") \/ Ends(p, "failed"))
  <2>1. PICK solved \in IF me.mode = "install" THEN {lock.solved}
                        ELSE {Solved(s, me.package) : s \in Solutions(me.package)} :
          Becomes(p,
            IF Executes(me)
            THEN [me EXCEPT !.pc = "executing", !.read = read, !.solved = solved,
                            !.todo = OperationsOf(me, read, solved)]
            ELSE [me EXCEPT !.pc = "write", !.read = read, !.solved = solved])
    BY <1>4 DEF Solve
  <2>2. [me EXCEPT !.pc = "write", !.read = read, !.solved = solved]
          = [me EXCEPT !.pc = "write", !.read = read, !.solved = solved, !.todo = me.todo]
    BY <1>0 DEF IsRecord
  <2>3. me.mode # "install" => solved \in Solution
    BY <2>1, SolutionHasType
  <2>4. QED
    BY <1>3, <2>1, <2>2, <2>3
<1>5. QED
  BY <1>2, <1>4

LEMMA ExecuteAlone ==
  ASSUME IInvAlone, NEW p \in Procs, Execute(p)
  PROVE  IInvAlone'
<1>. DEFINE me == procs[p]
<1>0. me.pc = "executing" /\ IsRecord(me) /\ GoodProcess(p)
  BY DEF IInvAlone, IInv, Execute, GoodMemory
<1>1. IInv' /\ UNCHANGED <<pyproject, lock>> /\ pyproject' \in Content \cup {Unreadable}
  BY ExecutePreserves DEF IInvAlone, Execute, FilesKept
<1>2. PICK ops, ok : Becomes(p, [me EXCEPT !.todo = ops, !.ok = ok])
  <2>1. PICK op \in me.todo : \/ Becomes(p, [me EXCEPT !.todo = @ \ {op}])
                             \/ Becomes(p, [me EXCEPT !.todo = @ \ {op}, !.ok = FALSE])
    BY DEF Execute
  <2>2. [me EXCEPT !.todo = @ \ {op}] = [me EXCEPT !.todo = @ \ {op}, !.ok = me.ok]
    BY <1>0 DEF IsRecord
  <2>3. QED
    BY <2>1, <2>2
<1>3. procs'[p] = [me EXCEPT !.todo = ops, !.ok = ok]
  BY <1>2, StepMemory
<1>4. GoodProcess(p)'
  BY <1>0, <1>1, <1>3 DEF GoodProcess, IsRecord
<1>5. QED
  BY <1>1, <1>2, <1>4, OnlyOne

LEMMA FinishAlone ==
  ASSUME IInvAlone, NEW p \in Procs, Finish(p)
  PROVE  IInvAlone'
<1>. DEFINE me == procs[p]
<1>0. me.pc = "executing" /\ GoodProcess(p)
  BY DEF IInvAlone, Finish
<1>1. IInv' /\ UNCHANGED <<pyproject, lock>> /\ pyproject' \in Content \cup {Unreadable}
  BY FinishPreserves DEF IInvAlone, Finish, FilesKept
<1>2. PICK pc \in {"failed", "done", "write"} :
        Ends(p, pc) /\ (pc = "done" => me.mode = "install") /\ (pc = "write" => me.mode # "install")
  BY DEF Finish, AfterExecution
<1>3. procs'[p].pc = pc /\ procs'[p].cmd = me.cmd /\ procs'[p].mode = me.mode
      /\ procs'[p].content = me.content /\ procs'[p].package = me.package
      /\ procs'[p].read = me.read /\ procs'[p].solved = me.solved
      /\ Becomes(p, [me EXCEPT !.pc = pc])
  BY <1>0, <1>2, StepEnds
<1>4. GoodProcess(p)'
  BY <1>0, <1>1, <1>2, <1>3 DEF GoodProcess
<1>5. QED
  BY <1>1, <1>3, <1>4, OnlyOne

(* The lock file, right for the command's content, and what comes next.    *)
LEMMA LockedAlone ==
  ASSUME IInvAlone, NEW p \in Procs, procs[p].pc \in {"write", "writing"},
         Ends(p, AfterLock(procs[p].cmd)), IInv', UNCHANGED pyproject,
         ~ procs[p].cmd.dry => IsAnsweredBy(procs[p].package, lock')
  PROVE  IInvAlone'
<1>. DEFINE me == procs[p]
            pc == AfterLock(me.cmd)
<1>0. GoodProcess(p) /\ me.cmd \in Command
  BY ProjectAssumption DEF IInvAlone, IInv, GoodMemory
<1>1. pc \in {"project", "done"} /\ (pc = "project" <=> Writes(me.cmd) /\ ~ me.cmd.dry)
  BY DEF AfterLock, Writes
<1>2. procs'[p].pc = pc /\ procs'[p].cmd = me.cmd /\ procs'[p].mode = me.mode
      /\ procs'[p].content = me.content /\ procs'[p].package = me.package
      /\ Becomes(p, [me EXCEPT !.pc = pc])
  BY StepEnds
<1>3. GoodProcess(p)'
  BY <1>0, <1>1, <1>2 DEF GoodProcess, IsAnsweredBy, IsReadable
<1>4. QED
  BY <1>2, <1>3, OnlyOne DEF IInvAlone

LEMMA LockAlone ==
  ASSUME IInvAlone, NEW p \in Procs, KeepLock(p) \/ OpenLock(p) \/ WriteLock(p)
  PROVE  IInvAlone'
<1>. DEFINE me == procs[p]
<1>0. me.pc \in {"write", "writing"} /\ IsRecord(me) /\ GoodProcess(p)
      /\ me.hash = me.package /\ Answers(me.solved.packages, me.hash) /\ me.mode # "install"
  BY DEF IInvAlone, IInv, KeepLock, OpenLock, WriteLock, GoodMemory
<1>1. IInv' /\ UNCHANGED pyproject
  BY LockPreserves DEF IInvAlone, KeepLock, OpenLock, WriteLock, FilesKept
<1>2. CASE KeepLock(p)
  <2>1. ASSUME ~ me.cmd.dry PROVE IsAnsweredBy(me.package, lock')
    <3>1. me.read \in {NoLock, lock}
      BY <1>0, <1>2 DEF GoodProcess, KeepLock
    <3>2. IsReadable(lock) /\ lock.hash = me.hash /\ lock.solved = me.solved
      BY <1>2, <2>1, <3>1 DEF KeepLock, ShouldWrite, IsReadable
    <3>3. lock' = lock
      BY <1>2 DEF KeepLock, FilesKept
    <3>4. QED
      BY <1>0, <3>2, <3>3 DEF IsAnsweredBy
  <2>2. QED
    BY <1>0, <1>1, <1>2, <2>1, LockedAlone DEF KeepLock
<1>3. CASE OpenLock(p)
  <2>1. ~ me.cmd.dry
    BY <1>3 DEF OpenLock, ShouldWrite
  <2>2. procs'[p].pc = "writing" /\ procs'[p].cmd = me.cmd
        /\ procs'[p].content = me.content /\ procs'[p].package = me.package
        /\ procs'[p].solved = me.solved /\ procs'[p].mode = me.mode
        /\ Becomes(p, [me EXCEPT !.pc = "writing"])
    BY <1>0, <1>3, StepEnds DEF OpenLock
  <2>3. GoodProcess(p)'
    BY <1>0, <1>1, <2>1, <2>2 DEF GoodProcess
  <2>4. QED
    BY <1>1, <2>2, <2>3, OnlyOne DEF IInvAlone
<1>4. CASE WriteLock(p)
  <2>1. lock' = [hash |-> me.hash, new |-> TRUE, solved |-> me.solved]
    BY <1>4 DEF WriteLock, HashToWrite
  <2>2. IsReadable(lock')
    <3>1. lock' \in LockFile
      BY <1>0, <1>4, <2>1 DEF GoodProcess, WriteLock, LockFile
    <3>2. QED
      BY <3>1, ProjectAssumption DEF IsReadable
  <2>3. IsAnsweredBy(me.package, lock')
    BY <1>0, <2>1, <2>2 DEF IsAnsweredBy
  <2>4. QED
    BY <1>0, <1>1, <1>4, <2>3, LockedAlone DEF WriteLock
<1>5. QED
  BY <1>2, <1>3, <1>4

LEMMA SaveAlone ==
  ASSUME IInvAlone, NEW p \in Procs, OpenProject(p) \/ WriteProject(p)
  PROVE  IInvAlone'
<1>. DEFINE me == procs[p]
<1>0. me.pc \in {"project", "saving"} /\ GoodProcess(p)
  BY DEF IInvAlone, OpenProject, WriteProject
<1>1. IInv' /\ UNCHANGED lock
  BY SavePreserves DEF IInvAlone, OpenProject, WriteProject
<1>2. PICK pc \in {"saving", "done"} :
        Ends(p, pc) /\ (pc = "done" => pyproject' = me.content)
        /\ (pc = "saving" => pyproject' = Unreadable)
  BY DEF OpenProject, WriteProject
<1>3. procs'[p].pc = pc /\ procs'[p].cmd = me.cmd /\ procs'[p].mode = me.mode
      /\ procs'[p].content = me.content /\ Becomes(p, [me EXCEPT !.pc = pc])
  BY <1>0, <1>2, StepEnds
<1>4. GoodProcess(p)'
  BY <1>0, <1>1, <1>2, <1>3 DEF GoodProcess
<1>5. QED
  BY <1>0, <1>1, <1>2, <1>3, <1>4, OnlyOne DEF GoodProcess

LEMMA OutsideAlone ==
  ASSUME IInvAlone, (\E p \in Procs : Crash(p)) \/ (\E content \in Edits : Edit(content))
  PROVE  IInvAlone'
<1>1. CASE \E p \in Procs : Crash(p)
  <2>1. PICK p \in Procs : Crash(p)
    BY <1>1
  <2>2. IInv' /\ UNCHANGED pyproject /\ Becomes(p, Idle)
    BY <2>1, CrashPreserves DEF IInvAlone, Crash, FilesKept
  <2>3. GoodProcess(p)'
    BY <2>2, StepMemory DEF GoodProcess, Idle
  <2>4. QED
    BY <2>2, <2>3, OnlyOne DEF IInvAlone
<1>2. CASE \E content \in Edits : Edit(content)
  <2>1. PICK content \in Edits : Edit(content)
    BY <1>2
  <2>2. IInv'
    BY <2>1, EditPreserves DEF IInvAlone
  <2>3. pyproject' \in Content
    BY <2>1, ProjectAssumption DEF Edit
  <2>4. ASSUME NEW p \in Procs PROVE GoodProcess(p)'
    BY <2>1 DEF Edit, IInvAlone, Lonely, Alone, GoodProcess, Idle
  <2>5. QED
    BY <2>2, <2>3, <2>4 DEF IInvAlone
<1>3. QED
  BY <1>1, <1>2

LEMMA StepAlone == IInvAlone /\ [Next]_vars => IInvAlone'
<1>1. ASSUME IInvAlone, UNCHANGED vars PROVE IInvAlone'
  BY <1>1, StepPreserves DEF IInvAlone, vars, GoodProcess
<1>2. ASSUME IInvAlone, NEW p \in Procs, Step(p) PROVE IInvAlone'
  BY <1>2, ReadAlone, CheckAlone, SolveAlone, ExecuteAlone, FinishAlone, LockAlone, SaveAlone
     DEF Step
<1>3. QED
  BY <1>1, <1>2, StartAlone, OutsideAlone DEF Next

LEMMA InvarianceAlone == Lonely /\ Spec => []IInvAlone
BY InitAlone, StepAlone, PTL DEF Spec

(* pyproject.toml is only touched when the lock file answers what is to be  *)
(* written: for one command at a time, with crashes at any step.           *)
THEOREM LockBeforeProject == Lonely /\ Spec => []ProjectIsLast
<1>1. IInvAlone => ProjectIsLast
  BY DEF IInvAlone, GoodProcess, IsAnsweredBy, ProjectIsLast, IsFresh, ContentHash
<1>2. QED
  BY <1>1, InvarianceAlone, PTL

(* A command that succeeds leaves a lock file that is fresh and answers     *)
(* pyproject.toml, with the names that were added.                         *)
THEOREM SuccessLocks == Lonely /\ Spec => []LockedWhenDone
<1>1. IInvAlone => LockedWhenDone
  BY DEF IInvAlone, GoodProcess, IsAnsweredBy, HasNames, LockedWhenDone, ContentHash
<1>2. QED
  BY <1>1, InvarianceAlone, PTL


-----------------------------------------------------------------------------
(* One command at a time: what it does to the environment, and what it     *)
(* leaves when it fails.                                                   *)

(* A package is in a group only if it is in the solution.                  *)
WellSolved(solved) ==
  /\ solved \in Solution
  /\ \A name \in Names : solved.groups[name] # {} => solved.packages[name] # Absent

Wanted(me, name) == me.solved.groups[name] \cap WantedGroups(me.cmd) # {}

(* The package is in an environment what the command promises.             *)
IsRight(me, name, e) ==
  /\ Wanted(me, name) => e[name] # Absent /\ e[name].version = me.solved.packages[name]
  /\ me.cmd.sync /\ name \notin {Pip, Root} /\ ~ Wanted(me, name) => e[name] = Absent

(* What an operation that does something is for.                           *)
Serves(me, op) ==
  /\ NameOf(op) \in Names
  /\ IF op.kind = "uninstall" THEN ~ Wanted(me, NameOf(op))
     ELSE /\ Wanted(me, NameOf(op))
          /\ op.package.version = me.solved.packages[NameOf(op)]
          /\ op.package.version \in Versions /\ op.package.source = PyPI

(* Whatever is not right yet has an operation that will make it right.     *)
Underway(me) ==
  /\ \A op \in me.todo : IsDone(op) \/ Serves(me, op)
  /\ ~ me.cmd.dry /\ me.ok =>
       \A name \in Names :
         IsRight(me, name, env) \/ \E op \in me.todo : ~ IsDone(op) /\ NameOf(op) = name

GoodFiles ==
  /\ env \in Environment
  /\ lock \in LockFile \cup {NoLock, Unreadable}
  /\ IsReadable(lock) => WellSolved(lock.solved)

GoodOutcome(p) ==
  LET me == procs[p] IN
  me.pc # "idle" =>
    /\ ~ AtRest(p) => me.package \in Content
    /\ me.pc \in {"loaded", "ready", "checked", "executing", "write",
                  "failed", "refused", "nothing"} =>
         me.before[1] = pyproject /\ me.before[2] = lock
    /\ (~ AtRest(p) \/ me.pc = "done") /\ me.cmd.dry => me.before = <<pyproject, lock, env>>
    /\ me.pc \in {"ready", "checked"} => me.installed = env
    /\ me.pc = "checked" /\ me.mode = "install" => IsReadable(lock) /\ lock.hash = me.hash
    /\ me.pc \in {"executing", "done"} /\ me.mode = "install" =>
         /\ IsReadable(lock) /\ lock.solved = me.solved
         /\ Answers(me.solved.packages, me.package)
    /\ me.pc \in {"executing", "write", "writing", "project", "saving"} => WellSolved(me.solved)
    /\ me.pc = "executing" => Underway(me)
    /\ me.pc \in {"write", "writing", "project", "saving", "done"} /\ Executes(me) /\ ~ me.cmd.dry =>
         \A name \in Names : IsRight(me, name, env)
    /\ me.pc \in {"project", "saving"} \/ (me.pc = "done" /\ ~ me.cmd.dry) =>
         lock.solved = me.solved
    /\ me.pc \in {"project", "saving"} => ~ me.cmd.dry /\ me.mode # "install"

IInvOutcome == IInvAlone /\ GoodFiles /\ \A p \in Procs : GoodOutcome(p)

(* What few names require, many require as well.                           *)
LEMMA ReachGrows ==
  ASSUME NEW few, NEW many, few \subseteq many, NEW selection
  PROVE  Reach(few, selection) \subseteq Reach(many, selection)
BY DEF Reach

LEMMA SolvedIsWell ==
  ASSUME NEW content, NEW s \in Solutions(content)
  PROVE  WellSolved(Solved(s, content))
<1>. DEFINE all == content["main"] \cup content["dev"]
<1>1. {name \in Names : s[name] # Absent} = Reach(all, s)
  BY DEF Solutions, Answers
<1>2. ASSUME NEW name \in Names, NEW group \in Groups, name \in Reach(content[group], s)
      PROVE  s[name] # Absent
  <2>1. content[group] \subseteq all
    BY DEF Groups
  <2>2. name \in Reach(all, s)
    BY <1>2, <2>1, ReachGrows
  <2>3. QED
    BY <1>1, <2>2
<1>3. QED
  BY <1>2, SolutionHasType DEF WellSolved, Solved

(* Operations that do something do what the command wants.                 *)
LEMMA OperationsServe ==
  ASSUME NEW me, WellSolved(me.solved), NEW e \in Environment, NEW current, NEW flags,
         current \subseteq Names,
         NEW op \in CalculateOperations(current, ResultOf(me.solved, me.cmd), e, flags)
  PROVE  IsDone(op) \/ Serves(me, op)
<1>. DEFINE result == ResultOf(me.solved, me.cmd)
<1>1. CASE \E package \in result : op \in ResultOp(package, e, flags.skipDirectory)
  <2>1. PICK package \in result : op \in ResultOp(package, e, flags.skipDirectory)
    BY <1>1
  <2>2. /\ package.name \in Names /\ package.version = me.solved.packages[package.name]
        /\ package.version \in Versions /\ package.source = PyPI /\ ~ package.optional
        /\ package.applies <=> Wanted(me, package.name)
    <3>1. PICK name \in Names :
            /\ me.solved.packages[name] # Absent
            /\ package = [name |-> name, version |-> me.solved.packages[name], source |-> PyPI,
                          applies |-> me.solved.groups[name] \cap WantedGroups(me.cmd) # {},
                          optional |-> FALSE, directory |-> FALSE]
      BY <2>1 DEF ResultOf
    <3>2. me.solved.packages[name] \in Versions
      BY <3>1 DEF WellSolved, Solution, Selection
    <3>3. QED
      BY <3>1, <3>2 DEF Wanted
  <2>3. package.applies
    BY <2>1, <2>2 DEF ResultOp, IsRelevant, IsUnsolicitedExtra
  <2>4. op.package = package /\ op.kind # "uninstall"
    BY <2>1, <2>3 DEF ResultOp, IsRelevant, IsUnsolicitedExtra, Op
  <2>5. QED
    BY <2>2, <2>3, <2>4 DEF Serves, NameOf
<1>2. CASE \E name \in Superfluous(current, result, e) \cup Unwanted(result, e) : op = Uninstall(name)
  <2>1. PICK name \in Superfluous(current, result, e) \cup Unwanted(result, e) : op = Uninstall(name)
    BY <1>2
  <2>2. name \in Names
    BY <2>1 DEF Superfluous, Unwanted
  <2>3. ASSUME Wanted(me, name) PROVE FALSE
    <3>1. me.solved.packages[name] # Absent
      BY <2>2, <2>3 DEF Wanted, WellSolved
    <3>. DEFINE package == [name |-> name, version |-> me.solved.packages[name], source |-> PyPI,
                            applies |-> me.solved.groups[name] \cap WantedGroups(me.cmd) # {},
                            optional |-> FALSE, directory |-> FALSE]
    <3>2. package \in result
      BY <2>2, <3>1 DEF ResultOf
    <3>3. package.name = name /\ package.applies
      BY <2>3 DEF Wanted
    <3>4. name \in NamesOf(result) /\ name \in RelevantNames(result)
      BY <3>2, <3>3 DEF NamesOf, RelevantNames, IsRelevant
    <3>5. QED
      BY <2>1, <3>4 DEF Superfluous, Unwanted
  <2>4. QED
    BY <2>1, <2>2, <2>3 DEF Serves, NameOf, Uninstall
<1>3. QED
  BY <1>1, <1>2 DEF CalculateOperations

(* What is not as it should be has an operation.                           *)
LEMMA OperationsSuffice ==
  ASSUME NEW me, WellSolved(me.solved), NEW e \in Environment, NEW current, NEW flags,
         flags.systemSite = {}, ~ flags.skipDirectory,
         me.cmd.sync => flags.withUninstalls /\ flags.synchronize,
         NEW name \in Names
  PROVE  \/ IsRight(me, name, e)
         \/ \E op \in CalculateOperations(current, ResultOf(me.solved, me.cmd), e, flags) :
              ~ IsDone(op) /\ NameOf(op) = name
<1>. DEFINE result == ResultOf(me.solved, me.cmd)
            ops == CalculateOperations(current, result, e, flags)
<1>1. CASE Wanted(me, name)
  <2>1. me.solved.packages[name] # Absent
    BY <1>1 DEF Wanted, WellSolved
  <2>. DEFINE package == [name |-> name, version |-> me.solved.packages[name], source |-> PyPI,
                          applies |-> me.solved.groups[name] \cap WantedGroups(me.cmd) # {},
                          optional |-> FALSE, directory |-> FALSE]
  <2>2. package \in result
    BY <2>1 DEF ResultOf
  <2>3. package.name = name /\ package.version = me.solved.packages[name]
        /\ IsRelevant(package) /\ IsUnsolicitedExtra(package) = FALSE
    BY <1>1 DEF Wanted, IsRelevant, IsUnsolicitedExtra
  <2>. HIDE DEF package
  <2>4. ResultOp(package, e, flags.skipDirectory) \subseteq ops
    BY <2>2 DEF CalculateOperations
  <2>5. CASE e[name] = Absent
    <3>1. Op("install", package, FALSE) \in ops
      BY <2>3, <2>4, <2>5 DEF ResultOp
    <3>2. QED
      BY <2>3, <3>1 DEF Op, IsDone, NameOf
  <2>6. CASE e[name] # Absent /\ IsUpdate(package, e[name])
    <3>1. Op("update", package, FALSE) \in ops
      BY <2>3, <2>4, <2>6 DEF ResultOp
    <3>2. QED
      BY <2>3, <3>1 DEF Op, IsDone, NameOf
  <2>7. CASE e[name] # Absent /\ ~ IsUpdate(package, e[name])
    BY <1>1, <2>3, <2>7 DEF IsRight, IsUpdate
  <2>8. QED
    BY <2>5, <2>6, <2>7
<1>2. CASE ~ Wanted(me, name) /\ ~ IsRight(me, name, e)
  <2>1. me.cmd.sync /\ name \notin {Pip, Root} /\ e[name] # Absent
    BY <1>2 DEF IsRight
  <2>2. ASSUME NEW package \in result, IsRelevant(package) PROVE package.name # name
    <3>1. PICK n \in Names :
            package = [name |-> n, version |-> me.solved.packages[n], source |-> PyPI,
                       applies |-> me.solved.groups[n] \cap WantedGroups(me.cmd) # {},
                       optional |-> FALSE, directory |-> FALSE]
      BY DEF ResultOf
    <3>2. package.name = n /\ (package.applies <=> Wanted(me, n))
      BY <3>1 DEF Wanted
    <3>3. QED
      BY <1>2, <2>2, <3>2 DEF IsRelevant
  <2>3. name \notin RelevantNames(result)
    BY <2>2 DEF RelevantNames, NamesOf
  <2>4. name \in Unwanted(result, e)
    BY <2>1, <2>3 DEF Unwanted, Preserved
  <2>5. Uninstall(name) \in ops
    BY <2>1, <2>4 DEF CalculateOperations
  <2>6. QED
    BY <2>5 DEF Uninstall, IsDone, NameOf
<1>3. QED
  BY <1>1, <1>2

(* An operation makes right what it is for, and touches nothing else.      *)
LEMMA ExecutedIsRight ==
  ASSUME NEW me, NEW op, Serves(me, op), ~ IsDone(op), NEW e \in Environment
  PROVE  /\ Executed(op, e) \in Environment
         /\ IsRight(me, NameOf(op), Executed(op, e))
         /\ \A name \in Names \ {NameOf(op)} : Executed(op, e)[name] = e[name]
<1>. DEFINE there == IF op.kind = "uninstall" THEN Absent ELSE AsInstalled(op.package)
<1>1. Executed(op, e) = [e EXCEPT ![NameOf(op)] = there]
  BY DEF Executed
<1>2. there \in Installed \cup {Absent}
  BY TransactionAssumption DEF Serves, AsInstalled, Installed
<1>3. op.kind # "uninstall" => there # Absent /\ there.version = op.package.version
  BY <1>2, TransactionAssumption DEF Serves, AsInstalled, Installed
<1>. HIDE DEF there
<1>4. Executed(op, e)[NameOf(op)] = there /\ NameOf(op) \in Names
  BY <1>1 DEF Serves, Environment
<1>5. op.kind = "uninstall" => there = Absent
  BY DEF there
<1>6. IsRight(me, NameOf(op), Executed(op, e))
  BY <1>3, <1>4, <1>5 DEF IsRight, Serves
<1>7. QED
  BY <1>1, <1>2, <1>6 DEF Environment

LEMMA InitOutcome == Lonely /\ Init => IInvOutcome
<1>. SUFFICES ASSUME Lonely, Init PROVE IInvOutcome
  OBVIOUS
<1>1. env \in Environment
  BY ProjectAssumption DEF Init
<1>2. CASE lock \in {NoLock, Unreadable}
  <2>1. GoodFiles
    BY <1>1, <1>2 DEF GoodFiles, IsReadable
  <2>2. QED
    BY <2>1, InitAlone DEF IInvOutcome, GoodOutcome, Init, Idle
<1>3. CASE lock \notin {NoLock, Unreadable}
  <2>1. PICK content \in Edits : \E s \in Solutions(content) : lock = LockOf(s, content)
    BY <1>3 DEF Init, Lonely
  <2>2. PICK s \in Solutions(content) : lock = LockOf(s, content)
    BY <2>1
  <2>3. lock = [hash |-> content, new |-> TRUE, solved |-> Solved(s, content)]
    BY <2>2 DEF LockOf, ContentHash
  <2>4. WellSolved(Solved(s, content)) /\ Solved(s, content) \in Solution
    BY SolvedIsWell DEF WellSolved
  <2>5. lock \in LockFile
    BY <2>3, <2>4, ProjectAssumption DEF LockFile
  <2>6. GoodFiles
    BY <1>1, <2>3, <2>4, <2>5 DEF GoodFiles
  <2>7. QED
    BY <2>6, InitAlone DEF IInvOutcome, GoodOutcome, Init, Idle
<1>4. QED
  BY <1>2, <1>3

LEMMA OneOutcome ==
  ASSUME IInvOutcome, IInvAlone', GoodFiles', NEW p \in Procs, GoodOutcome(p)'
  PROVE  IInvOutcome'
BY DEF IInvOutcome, IInvAlone, Lonely, Alone

(* What is kept when a process goes on, or ends.                           *)
LEMMA EndsKeeps ==
  ASSUME IInvOutcome, NEW p \in Procs, procs[p].pc # "idle", NEW pc, Ends(p, pc)
  PROVE  /\ procs'[p].pc = pc /\ procs'[p].cmd = procs[p].cmd
         /\ procs'[p].package = procs[p].package /\ procs'[p].hash = procs[p].hash
         /\ procs'[p].before = procs[p].before /\ procs'[p].installed = procs[p].installed
         /\ procs'[p].mode = procs[p].mode /\ procs'[p].read = procs[p].read
         /\ procs'[p].solved = procs[p].solved /\ procs'[p].ok = procs[p].ok
         /\ procs'[p].todo = procs[p].todo
<1>1. procs'[p] = [procs[p] EXCEPT !.pc = pc]
  BY EndsBecomes, StepMemory DEF IInvOutcome
<1>2. IsRecord(procs[p])
  BY DEF IInvOutcome, IInvAlone, IInv, GoodMemory
<1>3. QED
  BY <1>1, <1>2 DEF IsRecord

LEMMA FilesStayGood ==
  ASSUME IInvOutcome, UNCHANGED lock, env' \in Environment
  PROVE  GoodFiles'
BY DEF IInvOutcome, GoodFiles, IsReadable, WellSolved

LEMMA StartOutcome ==
  ASSUME IInvOutcome, IInvAlone', NEW p \in Procs, NEW cmd \in Commands, Start(p, cmd)
  PROVE  IInvOutcome'
<1>1. GoodFiles' /\ UNCHANGED <<pyproject, lock, env>>
  BY FilesStayGood DEF Start, FilesKept, IInvOutcome, GoodFiles
<1>2. procs'[p] = Memory(cmd)
  BY StepMemory DEF Start, IInvOutcome
<1>3. pyproject \in Content
  BY DEF Start, IInvOutcome, IInvAlone
<1>4. procs'[p].pc = "loaded" /\ procs'[p].before = <<pyproject, lock, env>>
      /\ procs'[p].package = pyproject
  BY <1>2 DEF Memory
<1>5. GoodOutcome(p)'
  BY <1>1, <1>3, <1>4 DEF GoodOutcome, AtRest
<1>6. QED
  BY <1>1, <1>5, OneOutcome

LEMMA ReadOutcome ==
  ASSUME IInvOutcome, IInvAlone', NEW p \in Procs, Read(p)
  PROVE  IInvOutcome'
<1>. DEFINE me == procs[p]
            ready == [me EXCEPT !.pc = "ready", !.installed = env,
                        !.package = Changed(me.cmd, me.package),
                        !.hash = ContentHash(Changed(me.cmd, pyproject)),
                        !.content = Changed(me.cmd, pyproject)]
<1>0. me.pc = "loaded" /\ IsRecord(me) /\ me.cmd \in Command /\ GoodOutcome(p)
      /\ me.package \in Content
  BY ProjectAssumption DEF IInvOutcome, IInvAlone, IInv, Read, GoodMemory, GoodProcess
<1>1. GoodFiles' /\ UNCHANGED <<pyproject, lock, env>>
  BY FilesStayGood DEF Read, FilesKept, IInvOutcome, GoodFiles
<1>2. me.before[1] = pyproject /\ me.before[2] = lock
      /\ (me.cmd.dry => me.before = <<pyproject, lock, env>>)
  BY <1>0 DEF GoodOutcome, AtRest
<1>3. CASE Ends(p, "failed") \/ Ends(p, "nothing")
  <2>1. PICK pc \in {"failed", "nothing"} : Ends(p, pc)
    BY <1>3
  <2>2. procs'[p].pc = pc /\ procs'[p].cmd = me.cmd /\ procs'[p].before = me.before
    BY <1>0, <2>1, EndsKeeps
  <2>3. GoodOutcome(p)'
    BY <1>1, <1>2, <2>2 DEF GoodOutcome, AtRest
  <2>4. QED
    BY <1>1, <2>3, OneOutcome
<1>4. CASE Becomes(p, [me EXCEPT !.pc = "ready", !.installed = env]) \/ Becomes(p, ready)
  <2>1. procs'[p] = [me EXCEPT !.pc = "ready", !.installed = env] \/ procs'[p] = ready
    BY <1>4, StepMemory DEF IInvOutcome
  <2>2. procs'[p].pc = "ready" /\ procs'[p].cmd = me.cmd /\ procs'[p].before = me.before
        /\ procs'[p].installed = env
        /\ procs'[p].package \in {me.package, Changed(me.cmd, me.package)}
    BY <1>0, <2>1 DEF IsRecord
  <2>3. procs'[p].package \in Content
    BY <1>0, <2>2, ChangedIsContent
  <2>4. GoodOutcome(p)'
    BY <1>1, <1>2, <2>2, <2>3 DEF GoodOutcome, AtRest
  <2>5. QED
    BY <1>1, <2>4, OneOutcome
<1>5. QED
  BY <1>3, <1>4 DEF Read

LEMMA CheckOutcome ==
  ASSUME IInvOutcome, IInvAlone', NEW p \in Procs, Check(p)
  PROVE  IInvOutcome'
<1>. DEFINE me == procs[p]
<1>0. me.pc = "ready" /\ IsRecord(me) /\ GoodOutcome(p)
  BY DEF IInvOutcome, IInvAlone, IInv, Check, GoodMemory
<1>1. GoodFiles' /\ UNCHANGED <<pyproject, lock, env>>
  BY FilesStayGood DEF Check, FilesKept, IInvOutcome, GoodFiles
<1>2. me.before[1] = pyproject /\ me.before[2] = lock /\ me.installed = env
      /\ (me.cmd.dry => me.before = <<pyproject, lock, env>>) /\ me.package \in Content
  BY <1>0 DEF GoodOutcome, AtRest
<1>3. ASSUME NEW mode, mode = "install" => IsReadable(lock) /\ lock.hash = me.hash,
             Becomes(p, [me EXCEPT !.pc = "checked", !.mode = mode])
      PROVE  IInvOutcome'
  <2>1. procs'[p] = [me EXCEPT !.pc = "checked", !.mode = mode]
    BY <1>3, StepMemory DEF IInvOutcome
  <2>2. procs'[p].pc = "checked" /\ procs'[p].cmd = me.cmd /\ procs'[p].before = me.before
        /\ procs'[p].installed = env /\ procs'[p].package = me.package
        /\ procs'[p].mode = mode /\ procs'[p].hash = me.hash
    BY <1>0, <1>2, <2>1 DEF IsRecord
  <2>3. GoodOutcome(p)'
    BY <1>1, <1>2, <1>3, <2>2 DEF GoodOutcome, AtRest, IsReadable
  <2>4. QED
    BY <1>1, <2>3, OneOutcome
<1>4. CASE Ends(p, "refused")
  <2>1. procs'[p].pc = "refused" /\ procs'[p].cmd = me.cmd /\ procs'[p].before = me.before
    BY <1>0, <1>4, EndsKeeps
  <2>2. GoodOutcome(p)'
    BY <1>1, <1>2, <2>1 DEF GoodOutcome, AtRest
  <2>3. QED
    BY <1>1, <2>2, OneOutcome
<1>5. ASSUME IsLocked, lock # Unreadable, IsFresh(me.hash, lock)
      PROVE  IsReadable(lock) /\ lock.hash = me.hash
  <2>1. IsReadable(lock)
    BY <1>5 DEF IsLocked, IsReadable
  <2>2. lock.new
    BY <2>1 DEF IInvOutcome, IInvAlone, IInv, GoodLock
  <2>3. QED
    BY <1>5, <2>1, <2>2 DEF IsFresh
<1>6. QED
  BY <1>3, <1>4, <1>5 DEF Check

(* What is to be done leads from what is installed to what is wanted.      *)
LEMMA TodoIsUnderway ==
  ASSUME NEW me, WellSolved(me.solved), me.installed = env, env \in Environment,
         me.cmd.sync \in BOOLEAN, NEW read, me.todo = OperationsOf(me, read, me.solved)
  PROVE  Underway(me)
<1>. DEFINE flags == [withUninstalls |-> me.cmd.sync \/ me.mode = "update",
                      synchronize |-> me.cmd.sync, skipDirectory |-> FALSE, systemSite |-> {}]
<1>1. me.todo = CalculateOperations(LockedNames(read), ResultOf(me.solved, me.cmd), env, flags)
  BY DEF OperationsOf
<1>2. flags.systemSite = {} /\ ~ flags.skipDirectory
      /\ (me.cmd.sync => flags.withUninstalls /\ flags.synchronize)
  OBVIOUS
<1>. HIDE DEF flags
<1>3. LockedNames(read) \subseteq Names
  BY DEF LockedNames
<1>4. ASSUME NEW op \in me.todo PROVE IsDone(op) \/ Serves(me, op)
  BY <1>1, <1>3, OperationsServe
<1>5. ASSUME NEW name \in Names
      PROVE  IsRight(me, name, env) \/ \E op \in me.todo : ~ IsDone(op) /\ NameOf(op) = name
  BY <1>1, <1>2, OperationsSuffice
<1>6. QED
  BY <1>4, <1>5 DEF Underway

LEMMA SolveOutcome ==
  ASSUME IInvOutcome, IInvAlone', NEW p \in Procs, Solve(p)
  PROVE  IInvOutcome'
<1>. DEFINE me == procs[p]
            read == IF NeedsLock(me) THEN lock ELSE NoLock
            solutions == IF me.mode = "install" THEN {lock.solved}
                         ELSE {Solved(s, me.package) : s \in Solutions(me.package)}
<1>0. me.pc = "checked" /\ IsRecord(me) /\ GoodOutcome(p) /\ me.cmd \in Command
      /\ me.hash = me.package
  BY ProjectAssumption DEF IInvOutcome, IInvAlone, IInv, Solve, GoodMemory
<1>1. GoodFiles /\ GoodFiles' /\ UNCHANGED <<pyproject, lock, env>> /\ env \in Environment
  BY FilesStayGood DEF Solve, FilesKept, IInvOutcome, GoodFiles
<1>2. me.before[1] = pyproject /\ me.before[2] = lock /\ me.installed = env
      /\ (me.cmd.dry => me.before = <<pyproject, lock, env>>) /\ me.package \in Content
      /\ (me.mode = "install" => IsReadable(lock) /\ lock.hash = me.package)
  BY <1>0 DEF GoodOutcome, AtRest
<1>3. CASE Ends(p, "refused") \/ Ends(p, "failed")
  <2>1. PICK pc \in {"failed", "refused"} : Ends(p, pc)
    BY <1>3
  <2>2. procs'[p].pc = pc /\ procs'[p].cmd = me.cmd /\ procs'[p].before = me.before
    BY <1>0, <2>1, EndsKeeps
  <2>3. GoodOutcome(p)'
    BY <1>1, <1>2, <2>2 DEF GoodOutcome, AtRest
  <2>4. QED
    BY <1>1, <2>3, OneOutcome
<1>4. ASSUME NEW solved \in solutions
      PROVE  /\ WellSolved(solved)
             /\ me.mode = "install" => solved = lock.solved /\ Answers(solved.packages, me.package)
  <2>1. CASE me.mode = "install"
    <3>1. lock.new /\ Answers(lock.solved.packages, lock.hash)
      BY <1>2, <2>1 DEF IInvOutcome, IInvAlone, IInv, GoodLock
    <3>2. QED
      BY <1>1, <1>2, <2>1, <3>1 DEF GoodFiles
  <2>2. CASE me.mode # "install"
    BY <2>2, SolvedIsWell
  <2>3. QED
    BY <2>1, <2>2
<1>5. ASSUME NEW solved \in solutions, Executes(me),
             Becomes(p, [me EXCEPT !.pc = "executing", !.read = read, !.solved = solved,
                                   !.todo = OperationsOf(me, read, solved)])
      PROVE  IInvOutcome'
  <2>. DEFINE new == procs'[p]
  <2>1. new = [me EXCEPT !.pc = "executing", !.read = read, !.solved = solved,
                         !.todo = OperationsOf(me, read, solved)]
    BY <1>5, StepMemory DEF IInvOutcome
  <2>2. new.pc = "executing" /\ new.cmd = me.cmd /\ new.before = me.before
        /\ new.package = me.package /\ new.mode = me.mode /\ new.solved = solved
        /\ new.installed = env /\ new.todo = OperationsOf(me, read, solved)
    BY <1>0, <1>2, <2>1 DEF IsRecord
  <2>3. OperationsOf(new, read, solved) = OperationsOf(me, read, solved)
    BY <1>2, <2>2 DEF OperationsOf
  <2>4. me.cmd.sync \in BOOLEAN
    BY <1>0 DEF Command
  <2>. HIDE DEF new
  <2>5. Underway(new)
    <3>1. WellSolved(new.solved) /\ new.installed = env /\ new.cmd.sync \in BOOLEAN
          /\ new.todo = OperationsOf(new, read, new.solved)
      BY <1>4, <2>2, <2>3, <2>4
    <3>. HIDE DEF read
    <3>2. QED
      BY <1>1, <3>1, TodoIsUnderway
  <2>6. Underway(procs[p])'
    BY <1>1, <2>5 DEF Underway, new
  <2>7. GoodOutcome(p)'
    BY <1>1, <1>2, <1>4, <2>2, <2>6 DEF GoodOutcome, AtRest, IsReadable, new, WellSolved
  <2>8. QED
    BY <1>1, <2>7, OneOutcome
<1>6. ASSUME NEW solved \in solutions, ~ Executes(me),
             Becomes(p, [me EXCEPT !.pc = "write", !.read = read, !.solved = solved])
      PROVE  IInvOutcome'
  <2>1. procs'[p] = [me EXCEPT !.pc = "write", !.read = read, !.solved = solved]
    BY <1>6, StepMemory DEF IInvOutcome
  <2>2. procs'[p].pc = "write" /\ procs'[p].cmd = me.cmd /\ procs'[p].before = me.before
        /\ procs'[p].package = me.package /\ procs'[p].mode = me.mode /\ procs'[p].solved = solved
    BY <1>0, <1>2, <2>1 DEF IsRecord
  <2>3. ~ Executes(procs[p])'
    BY <1>6, <2>2 DEF Executes
  <2>4. GoodOutcome(p)'
    BY <1>1, <1>2, <1>4, <2>2, <2>3 DEF GoodOutcome, AtRest, WellSolved
  <2>5. QED
    BY <1>1, <2>4, OneOutcome
<1>7. QED
  BY <1>3, <1>5, <1>6 DEF Solve

LEMMA ExecuteOutcome ==
  ASSUME IInvOutcome, IInvAlone', NEW p \in Procs, Execute(p)
  PROVE  IInvOutcome'
<1>. DEFINE me == procs[p]
<1>0. me.pc = "executing" /\ IsRecord(me) /\ GoodOutcome(p) /\ Underway(me)
  BY DEF IInvOutcome, IInvAlone, IInv, Execute, GoodMemory, GoodOutcome
<1>1. UNCHANGED <<pyproject, lock>> /\ env \in Environment
  BY DEF Execute, FilesKept, IInvOutcome, GoodFiles
<1>2. me.before[1] = pyproject /\ me.before[2] = lock /\ me.package \in Content
      /\ (me.cmd.dry => me.before = <<pyproject, lock, env>>)
      /\ (me.mode = "install" => /\ IsReadable(lock) /\ lock.solved = me.solved
                                 /\ Answers(me.solved.packages, me.package))
      /\ WellSolved(me.solved)
  BY <1>0 DEF GoodOutcome, AtRest
<1>3. ASSUME NEW ok, NEW op \in me.todo,
             Becomes(p, [me EXCEPT !.todo = @ \ {op}, !.ok = ok]),
             env' \in Environment, me.cmd.dry => env' = env,
             ~ me.cmd.dry /\ ok =>
               \A name \in Names :
                 IsRight(me, name, env') \/ \E o \in me.todo \ {op} : ~ IsDone(o) /\ NameOf(o) = name
      PROVE  IInvOutcome'
  <2>1. procs'[p] = [me EXCEPT !.todo = @ \ {op}, !.ok = ok]
    BY <1>3, StepMemory DEF IInvOutcome
  <2>2. procs'[p].pc = "executing" /\ procs'[p].cmd = me.cmd /\ procs'[p].before = me.before
        /\ procs'[p].package = me.package /\ procs'[p].mode = me.mode
        /\ procs'[p].solved = me.solved /\ procs'[p].todo = me.todo \ {op} /\ procs'[p].ok = ok
    BY <1>0, <2>1 DEF IsRecord
  <2>3. \A o \in me.todo \ {op} : IsDone(o) \/ Serves(me, o)
    BY <1>0 DEF Underway
  <2>4. Underway(procs[p])'
    BY <1>3, <2>2, <2>3 DEF Underway, Serves, Wanted, IsRight
  <2>5. GoodOutcome(p)'
    BY <1>1, <1>2, <1>3, <2>2, <2>4 DEF GoodOutcome, AtRest, IsReadable, WellSolved
  <2>6. QED
    BY <1>1, <1>3, <2>5, FilesStayGood, OneOutcome
<1>4. ASSUME NEW op \in me.todo, env' = IF me.cmd.dry THEN env ELSE Executed(op, env),
             Becomes(p, [me EXCEPT !.todo = @ \ {op}])
      PROVE  IInvOutcome'
  <2>1. Becomes(p, [me EXCEPT !.todo = @ \ {op}, !.ok = me.ok])
    BY <1>0, <1>4 DEF IsRecord
  <2>2. CASE me.cmd.dry
    BY <1>1, <1>3, <1>4, <2>1, <2>2
  <2>3. CASE ~ me.cmd.dry /\ IsDone(op)
    <3>1. env' = env
      BY <1>4, <2>3 DEF Executed
    <3>2. me.ok => \A name \in Names :
            IsRight(me, name, env') \/ \E o \in me.todo \ {op} : ~ IsDone(o) /\ NameOf(o) = name
      BY <1>0, <2>3, <3>1 DEF Underway
    <3>3. QED
      BY <1>1, <1>3, <2>1, <2>3, <3>1, <3>2
  <2>4. CASE ~ me.cmd.dry /\ ~ IsDone(op)
    <3>1. env' = Executed(op, env) /\ Serves(me, op)
      BY <1>0, <1>4, <2>4 DEF Underway
    <3>2. /\ env' \in Environment /\ IsRight(me, NameOf(op), env')
          /\ \A name \in Names \ {NameOf(op)} : env'[name] = env[name]
      BY <1>1, <2>4, <3>1, ExecutedIsRight
    <3>3. ASSUME me.ok, NEW name \in Names
          PROVE  IsRight(me, name, env') \/ \E o \in me.todo \ {op} : ~ IsDone(o) /\ NameOf(o) = name
      <4>1. CASE name = NameOf(op)
        BY <3>2, <4>1
      <4>2. CASE name # NameOf(op) /\ IsRight(me, name, env)
        BY <3>2, <4>2 DEF IsRight
      <4>3. CASE name # NameOf(op) /\ ~ IsRight(me, name, env)
        BY <1>0, <2>4, <3>3, <4>3 DEF Underway
      <4>4. QED
        BY <4>1, <4>2, <4>3
    <3>4. QED
      BY <1>3, <2>1, <2>4, <3>2, <3>3
  <2>5. QED
    BY <2>2, <2>3, <2>4
<1>5. ASSUME NEW op \in me.todo, ~ me.cmd.dry, ~ IsDone(op),
             env' \in {env} \cup IF op.kind = "update"
                                 THEN {[env EXCEPT ![NameOf(op)] = Absent]} ELSE {},
             Becomes(p, [me EXCEPT !.todo = @ \ {op}, !.ok = FALSE])
      PROVE  IInvOutcome'
  <2>1. env' \in Environment
    BY <1>1, <1>5 DEF Environment
  <2>2. QED
    BY <1>3, <1>5, <2>1
<1>6. QED
  BY <1>4, <1>5 DEF Execute

LEMMA FinishOutcome ==
  ASSUME IInvOutcome, IInvAlone', NEW p \in Procs, Finish(p)
  PROVE  IInvOutcome'
<1>. DEFINE me == procs[p]
<1>0. me.pc = "executing" /\ GoodOutcome(p) /\ Underway(me)
  BY DEF IInvOutcome, Finish, GoodOutcome
<1>1. GoodFiles' /\ UNCHANGED <<pyproject, lock, env>>
  BY FilesStayGood DEF Finish, FilesKept, IInvOutcome, GoodFiles
<1>2. me.before[1] = pyproject /\ me.before[2] = lock /\ me.package \in Content
      /\ (me.cmd.dry => me.before = <<pyproject, lock, env>>)
      /\ (me.mode = "install" => /\ IsReadable(lock) /\ lock.solved = me.solved
                                 /\ Answers(me.solved.packages, me.package))
      /\ WellSolved(me.solved)
  BY <1>0 DEF GoodOutcome, AtRest
<1>3. PICK pc \in {"failed", "done", "write"} :
        /\ Ends(p, pc)
        /\ pc # "failed" => me.ok /\ me.todo = {}
        /\ pc = "done" => me.mode = "install"
        /\ pc = "write" => me.mode # "install"
  BY DEF Finish, AfterExecution, IsOver
<1>4. pc # "failed" /\ ~ me.cmd.dry => \A name \in Names : IsRight(me, name, env)
  BY <1>0, <1>3 DEF Underway
<1>5. procs'[p].pc = pc /\ procs'[p].cmd = me.cmd /\ procs'[p].before = me.before
      /\ procs'[p].package = me.package /\ procs'[p].mode = me.mode
      /\ procs'[p].solved = me.solved
  BY <1>0, <1>3, EndsKeeps
<1>6. pc # "failed" /\ ~ me.cmd.dry => \A name \in Names : IsRight(procs[p], name, env)'
  BY <1>1, <1>4, <1>5 DEF IsRight, Wanted
<1>7. GoodOutcome(p)'
  BY <1>1, <1>2, <1>3, <1>5, <1>6 DEF GoodOutcome, AtRest, IsReadable, WellSolved
<1>8. QED
  BY <1>1, <1>7, OneOutcome

LEMMA LockOutcome ==
  ASSUME IInvOutcome, IInvAlone', NEW p \in Procs, KeepLock(p) \/ OpenLock(p) \/ WriteLock(p)
  PROVE  IInvOutcome'
<1>. DEFINE me == procs[p]
<1>0. /\ me.pc \in {"write", "writing"} /\ GoodOutcome(p) /\ GoodProcess(p)
      /\ me.hash = me.package /\ me.mode # "install"
  BY DEF IInvOutcome, IInvAlone, IInv, KeepLock, OpenLock, WriteLock, GoodMemory
<1>1. UNCHANGED <<pyproject, env>> /\ env \in Environment
  BY DEF KeepLock, OpenLock, WriteLock, FilesKept, IInvOutcome, GoodFiles
<1>2. /\ me.package \in Content /\ WellSolved(me.solved)
      /\ me.cmd.dry => me.before = <<pyproject, lock, env>>
      /\ Executes(me) /\ ~ me.cmd.dry => \A name \in Names : IsRight(me, name, env)
  BY <1>0 DEF GoodOutcome, AtRest
<1>3. ASSUME NEW pc, Ends(p, pc)
      PROVE  /\ procs'[p].pc = pc /\ procs'[p].cmd = me.cmd /\ procs'[p].before = me.before
             /\ procs'[p].package = me.package /\ procs'[p].mode = me.mode
             /\ procs'[p].solved = me.solved
             /\ Executes(procs'[p]) /\ ~ me.cmd.dry =>
                  \A name \in Names : IsRight(procs'[p], name, env')
  <2>1. /\ procs'[p].pc = pc /\ procs'[p].cmd = me.cmd /\ procs'[p].before = me.before
        /\ procs'[p].package = me.package /\ procs'[p].mode = me.mode
        /\ procs'[p].solved = me.solved
    BY <1>0, <1>3, EndsKeeps
  <2>2. QED
    BY <1>1, <1>2, <2>1 DEF Executes, IsRight, Wanted
<1>4. AfterLock(me.cmd) \in {"project", "done"}
      /\ (AfterLock(me.cmd) = "project" => ~ me.cmd.dry)
  BY DEF AfterLock
<1>5. CASE KeepLock(p)
  <2>1. UNCHANGED lock /\ Ends(p, AfterLock(me.cmd)) /\ me.pc = "write"
    BY <1>5 DEF KeepLock, FilesKept
  <2>2. me.read \in {NoLock, lock}
    BY <1>0, <2>1 DEF GoodProcess
  <2>3. ~ me.cmd.dry => lock.solved = me.solved
    BY <1>5, <2>2 DEF KeepLock, ShouldWrite
  <2>4. GoodFiles'
    BY <1>1, <2>1, FilesStayGood
  <2>5. GoodOutcome(p)'
    BY <1>0, <1>1, <1>2, <1>3, <1>4, <2>1, <2>3 DEF GoodOutcome, AtRest, WellSolved
  <2>6. QED
    BY <2>4, <2>5, OneOutcome
<1>6. CASE OpenLock(p)
  <2>1. lock' = Unreadable /\ Ends(p, "writing") /\ ~ me.cmd.dry
    BY <1>6 DEF OpenLock, ShouldWrite
  <2>2. GoodFiles'
    BY <1>1, <2>1 DEF GoodFiles, IsReadable
  <2>3. GoodOutcome(p)'
    BY <1>0, <1>1, <1>2, <1>3, <2>1 DEF GoodOutcome, AtRest, WellSolved
  <2>4. QED
    BY <2>2, <2>3, OneOutcome
<1>7. CASE WriteLock(p)
  <2>1. /\ lock' = [hash |-> me.hash, new |-> TRUE, solved |-> me.solved]
        /\ Ends(p, AfterLock(me.cmd)) /\ me.pc = "writing"
    BY <1>7 DEF WriteLock, HashToWrite
  <2>2. ~ me.cmd.dry
    BY <1>0, <2>1 DEF GoodProcess
  <2>3. lock' \in LockFile /\ lock'.solved = me.solved
    BY <1>0, <1>2, <2>1 DEF LockFile, WellSolved
  <2>4. GoodFiles'
    BY <1>1, <1>2, <2>3 DEF GoodFiles, WellSolved
  <2>5. GoodOutcome(p)'
    BY <1>0, <1>1, <1>2, <1>3, <1>4, <2>1, <2>2, <2>3 DEF GoodOutcome, AtRest, WellSolved
  <2>6. QED
    BY <2>4, <2>5, OneOutcome
<1>8. QED
  BY <1>5, <1>6, <1>7

LEMMA SaveOutcome ==
  ASSUME IInvOutcome, IInvAlone', NEW p \in Procs, OpenProject(p) \/ WriteProject(p)
  PROVE  IInvOutcome'
<1>. DEFINE me == procs[p]
<1>0. me.pc \in {"project", "saving"} /\ GoodOutcome(p)
  BY DEF IInvOutcome, OpenProject, WriteProject
<1>1. UNCHANGED <<lock, env>> /\ GoodFiles'
  BY FilesStayGood DEF OpenProject, WriteProject, IInvOutcome, GoodFiles
<1>2. /\ me.package \in Content /\ WellSolved(me.solved)
      /\ ~ me.cmd.dry /\ me.mode # "install" /\ lock.solved = me.solved
      /\ Executes(me) => \A name \in Names : IsRight(me, name, env)
  BY <1>0 DEF GoodOutcome, AtRest
<1>3. PICK pc \in {"saving", "done"} : Ends(p, pc)
  BY DEF OpenProject, WriteProject
<1>4. procs'[p].pc = pc /\ procs'[p].cmd = me.cmd /\ procs'[p].before = me.before
      /\ procs'[p].package = me.package /\ procs'[p].mode = me.mode
      /\ procs'[p].solved = me.solved
  BY <1>0, <1>3, EndsKeeps
<1>5. Executes(procs'[p]) => \A name \in Names : IsRight(procs'[p], name, env')
  BY <1>1, <1>2, <1>4 DEF Executes, IsRight, Wanted
<1>6. GoodOutcome(p)'
  BY <1>1, <1>2, <1>4, <1>5 DEF GoodOutcome, AtRest, WellSolved
<1>7. QED
  BY <1>1, <1>6, OneOutcome

LEMMA OutsideOutcome ==
  ASSUME IInvOutcome, IInvAlone',
         (\E p \in Procs : Crash(p)) \/ (\E content \in Edits : Edit(content))
  PROVE  IInvOutcome'
<1>1. UNCHANGED <<lock, env>> /\ GoodFiles'
  BY FilesStayGood DEF Crash, FilesKept, Edit, IInvOutcome, GoodFiles
<1>2. CASE \E p \in Procs : Crash(p)
  <2>1. PICK p \in Procs : Crash(p)
    BY <1>2
  <2>2. procs'[p] = Idle
    BY <2>1, StepMemory DEF Crash, IInvOutcome
  <2>3. GoodOutcome(p)'
    BY <2>2 DEF GoodOutcome, Idle
  <2>4. QED
    BY <1>1, <2>3, OneOutcome
<1>3. CASE \E content \in Edits : Edit(content)
  <2>1. PICK content \in Edits : Edit(content)
    BY <1>3
  <2>2. ASSUME NEW p \in Procs PROVE procs'[p] = Idle
    BY <2>1 DEF Edit, IInvOutcome, IInvAlone, Lonely, Alone
  <2>3. \A p \in Procs : GoodOutcome(p)'
    BY <2>2 DEF GoodOutcome, Idle
  <2>4. QED
    BY <1>1, <2>3 DEF IInvOutcome
<1>4. QED
  BY <1>2, <1>3

LEMMA StepOutcome == IInvOutcome /\ [Next]_vars => IInvOutcome'
<1>. SUFFICES ASSUME IInvOutcome, [Next]_vars PROVE IInvOutcome'
  OBVIOUS
<1>1. IInvAlone'
  BY StepAlone DEF IInvOutcome
<1>2. CASE UNCHANGED vars
  BY <1>1, <1>2 DEF IInvOutcome, vars, GoodFiles, GoodOutcome, AtRest, Underway, Serves, Wanted,
     IsRight, Executes, IsReadable, WellSolved
<1>3. ASSUME NEW p \in Procs, Step(p) PROVE IInvOutcome'
  BY <1>1, <1>3, ReadOutcome, CheckOutcome, SolveOutcome, ExecuteOutcome, FinishOutcome,
     LockOutcome, SaveOutcome DEF Step
<1>4. QED
  BY <1>1, <1>2, <1>3, StartOutcome, OutsideOutcome DEF Next

(* A command leaves what it says it leaves: one that fails, both files as   *)
(* they were, a dry run the environment as well, and one that succeeds an   *)
(* environment with what the lock file has for the groups that are wanted,  *)
(* and after sync nothing else; whatever was installed before, and whatever *)
(* a command that crashed has left.                                        *)
THEOREM OutcomesAreTrue == Lonely /\ Spec => []OutcomeIsTrue
<1>1. IInvOutcome => OutcomeIsTrue
  <2>. SUFFICES ASSUME IInvOutcome PROVE OutcomeIsTrue
    OBVIOUS
  <2>1. TypeOK
    BY DEF IInvOutcome, IInvAlone, IInv, GoodFiles, GoodOutcome, GoodMemory, TypeOK, AtRest
  <2>2. FailureChangesNoFile
    BY DEF IInvOutcome, GoodOutcome, FailureChangesNoFile, AtRest
  <2>3. InstallAnswersProject
    BY DEF IInvOutcome, GoodOutcome, InstallAnswersProject
  <2>4. InstalledWhenDone
    <3>. SUFFICES ASSUME NEW p \in Procs, HasInstalled(p), NEW name \in Names
                  PROVE  /\ lock.solved.groups[name] \cap WantedGroups(procs[p].cmd) # {} =>
                              env[name] # Absent /\ env[name].version = lock.solved.packages[name]
                         /\ procs[p].cmd.sync /\ name \notin {Pip, Root} =>
                              (env[name] # Absent
                                 <=> lock.solved.groups[name] \cap WantedGroups(procs[p].cmd) # {})
      BY DEF InstalledWhenDone
    <3>1. lock.solved = procs[p].solved /\ IsRight(procs[p], name, env)
      BY DEF IInvOutcome, GoodOutcome, HasInstalled
    <3>2. QED
      BY <3>1 DEF IsRight, Wanted
  <2>5. QED
    BY <2>1, <2>2, <2>3, <2>4 DEF OutcomeIsTrue
<1>2. Lonely /\ Spec => []IInvOutcome
  BY InitOutcome, StepOutcome, PTL DEF Spec
<1>3. QED
  BY <1>1, <1>2, PTL

-----------------------------------------------------------------------------
(* FileCache *)

Blocks == {F!Hole} \cup [version : CacheVersions, block : Nat]
Cached == {None} \cup Seq(Blocks)

ForInfo == {"fetch", "mkdir", "open", "write"}
ForClear == {"forget", "clear"}
ForFlush == {"entries", "scan", "empty", "rmdir"}
ForEither == {"exists", "read", "corrupt", "drop"}
Resting == {"idle", "done", "failed"}
Places == ForInfo \cup ForClear \cup ForFlush \cup ForEither \cup Resting

Client ==
  [pc : Places,
   kind : {None, "info", "clear", "flush"}, got : Cached, written : Nat,
   attached : BOOLEAN, excused : BOOLEAN]

CacheTypes ==
  /\ versionOf \in [Clients -> CacheVersions]
  /\ client \in [Clients -> Client]
  /\ file \in Cached
  /\ directory \in BOOLEAN /\ killed \in BOOLEAN
  /\ file # None => directory

(* The kinds of request that come to each place, what they have there, and *)
(* what another one must have done if they do not find what they have seen.*)
ClientIsRight(p) ==
  LET me == client[p] IN
  /\ me.pc \in ForInfo => me.kind = "info"
  /\ me.pc \in ForClear => me.kind = "clear"
  /\ me.pc \in ForFlush => me.kind = "flush"
  /\ me.pc \in ForEither => me.kind \in {"info", "clear"}
  /\ me.pc \notin Resting \cup {"write"} => me.written = 0
  /\ me.pc = "write" => me.written < LengthOf[versionOf[p]]
  /\ me.attached => me.pc = "write" /\ file # None
  /\ me.got = None \/ me.written > 0 \/ F!IsDecoded(me.got)
  /\ me.pc = "done" /\ me.kind = "info" => me.got = F!Payload(versionOf[p])
  /\ me.pc = "failed" => me.excused
  /\ me.pc \in {"read", "drop", "clear", "empty"} /\ file = None => me.excused
  /\ me.pc \in {"scan", "open"} /\ ~ directory => me.excused
  /\ me.pc = "rmdir" /\ (~ directory \/ file # None) => me.excused

(* Every block is there, or a writer has still to come to it.              *)
IsCovered(v) ==
  /\ Len(file) <= LengthOf[v]
  /\ \A i \in 1 .. LengthOf[v] :
       \/ i <= Len(file) /\ file[i] = F!Payload(v)[i]
       \/ \E p \in Clients : client[p].attached /\ client[p].written < i

ContentIsRight ==
  \A v \in CacheVersions :
    (\A p \in Clients : versionOf[p] = v) /\ file # None /\ ~ killed =>
      \/ F!IsDecoded(file) /\ \A p \in Clients : ~ client[p].attached
      \/ IsCovered(v)

CacheInv == CacheTypes /\ (\A p \in Clients : ClientIsRight(p)) /\ ContentIsRight

LEMMA NoneIsNoFile == None \notin Seq(Blocks)
BY OneOfFileCache DEF F!FileCacheAssumption, Blocks

LEMMA PayloadIsWhole ==
  ASSUME NEW v \in CacheVersions
  PROVE  /\ LengthOf[v] \in Nat /\ LengthOf[v] > 0
         /\ F!Payload(v) \in Seq(Blocks) /\ F!Payload(v) # None
         /\ Len(F!Payload(v)) = LengthOf[v]
         /\ \A i \in 1 .. LengthOf[v] : F!Payload(v)[i] = [version |-> v, block |-> i]
         /\ F!IsDecoded(F!Payload(v))
<1>1. LengthOf[v] \in Nat /\ LengthOf[v] > 0
  BY OneOfFileCache DEF F!FileCacheAssumption
<1>2. F!Payload(v) \in Seq(Blocks) /\ Len(F!Payload(v)) = LengthOf[v]
      /\ \A i \in 1 .. LengthOf[v] : F!Payload(v)[i] = [version |-> v, block |-> i]
  BY <1>1 DEF F!Payload, Blocks
<1>3. F!Payload(v) # None
  BY <1>2, NoneIsNoFile
<1>4. QED
  BY <1>1, <1>2, <1>3 DEF F!IsDecoded

LEMMA CacheStarts == F!Init => CacheInv
<1>. SUFFICES ASSUME F!Init PROVE CacheInv
  OBVIOUS
<1>1. \A p \in Clients : client[p] = F!Idle
  BY DEF F!Init
<1>2. F!Idle \in Client /\ F!Idle.pc = "idle" /\ F!Idle.got = None /\ ~ F!Idle.attached
  BY DEF F!Idle, Client, Places, Resting, Cached
<1>3. file = None \/ \E v \in CacheVersions : file = F!Payload(v)
  BY DEF F!Init
<1>4. CacheTypes
  BY <1>1, <1>2, <1>3, PayloadIsWhole, OneOfFileCache
     DEF F!Init, CacheTypes, F!FileCacheAssumption, Cached
<1>5. \A p \in Clients : ClientIsRight(p)
  BY <1>1, <1>2 DEF ClientIsRight, ForInfo, ForClear, ForFlush, ForEither, Resting
<1>6. ContentIsRight
  BY <1>1, <1>2, <1>3, PayloadIsWhole DEF ContentIsRight
<1>7. QED
  BY <1>4, <1>5, <1>6 DEF CacheInv

(* A step of one process that leaves the files.                            *)
LEMMA FilesAreLeft ==
  ASSUME CacheInv, NEW p \in Clients, NEW me \in Client, client' = [client EXCEPT ![p] = me],
         F!SameFiles, UNCHANGED killed,
         me.attached = client[p].attached, me.attached => me.written = client[p].written,
         ClientIsRight(p)'
  PROVE  CacheInv'
<1>1. client' \in [Clients -> Client] /\ client'[p] = me
      /\ \A q \in Clients : q # p => client'[q] = client[q]
  BY DEF CacheInv, CacheTypes
<1>2. UNCHANGED <<versionOf, file, directory, killed>>
  BY DEF F!SameFiles
<1>3. CacheTypes'
  BY <1>1, <1>2 DEF CacheInv, CacheTypes
<1>4. ASSUME NEW q \in Clients PROVE ClientIsRight(q)'
  BY <1>1, <1>2 DEF CacheInv, ClientIsRight
<1>5. \A q \in Clients : /\ client'[q].attached = client[q].attached
                         /\ client[q].attached => client'[q].written = client[q].written
  BY <1>1
<1>6. ContentIsRight'
  BY <1>2, <1>5 DEF CacheInv, ContentIsRight, IsCovered
<1>7. QED
  BY <1>3, <1>4, <1>6 DEF CacheInv

LEMMA BecomesKeeps ==
  ASSUME CacheInv, NEW p \in Clients, NEW pc \in Places, F!Becomes(p, pc)
  PROVE  /\ client' = [client EXCEPT ![p] = [client[p] EXCEPT !.pc = pc]]
         /\ [client[p] EXCEPT !.pc = pc] \in Client
         /\ client'[p].pc = pc /\ client'[p].kind = client[p].kind
         /\ client'[p].got = client[p].got /\ client'[p].written = client[p].written
         /\ client'[p].attached = client[p].attached /\ client'[p].excused = client[p].excused
<1>1. client[p] \in Client
  BY DEF CacheInv, CacheTypes
<1>2. client' = [client EXCEPT ![p] = [client[p] EXCEPT !.pc = pc]]
  BY DEF F!Becomes
<1>3. client'[p] = [client[p] EXCEPT !.pc = pc]
  BY <1>2 DEF CacheInv, CacheTypes
<1>4. QED
  BY <1>1, <1>2, <1>3 DEF Client

LEMMA GoesOn ==
  ASSUME CacheInv, NEW p \in Clients, NEW pc \in Places, F!Becomes(p, pc),
         F!SameFiles, UNCHANGED killed, ClientIsRight(p)'
  PROVE  CacheInv'
<1>1. client' = [client EXCEPT ![p] = [client[p] EXCEPT !.pc = pc]]
      /\ [client[p] EXCEPT !.pc = pc] \in Client
  BY BecomesKeeps
<1>2. client[p] \in Client
  BY DEF CacheInv, CacheTypes
<1>3. [client[p] EXCEPT !.pc = pc].attached = client[p].attached
      /\ [client[p] EXCEPT !.pc = pc].written = client[p].written
  BY <1>2 DEF Client
<1>. DEFINE me == [client[p] EXCEPT !.pc = pc]
<1>. HIDE DEF me
<1>4. QED
  BY <1>1, <1>3, FilesAreLeft DEF me

LEMMA AskIsSafe ==
  ASSUME CacheInv, NEW p \in Clients, NEW kind \in {"info", "clear", "flush"}, F!Ask(p, kind)
  PROVE  CacheInv'
<1>. DEFINE me == [F!Idle EXCEPT !.kind = kind,
                                 !.pc = IF kind = "flush" THEN "entries" ELSE "exists"]
<1>1. me \in Client /\ me.kind = kind /\ ~ me.attached /\ me.written = 0 /\ me.got = None
      /\ me.pc = IF kind = "flush" THEN "entries" ELSE "exists"
  BY DEF F!Idle, Client, Places, ForInfo, ForClear, ForFlush, ForEither, Resting, Cached
<1>2. client' = [client EXCEPT ![p] = me] /\ F!SameFiles /\ UNCHANGED killed
  BY DEF F!Ask
<1>3. client'[p] = me /\ ~ client[p].attached
  BY <1>2 DEF CacheInv, CacheTypes, ClientIsRight, F!Ask, F!AtWork
<1>. HIDE DEF me
<1>4. ClientIsRight(p)'
  BY <1>1, <1>3 DEF ClientIsRight, ForInfo, ForClear, ForFlush, ForEither, Resting
<1>5. me.attached = client[p].attached
  BY <1>1, <1>3 DEF CacheInv, CacheTypes, Client
<1>6. QED
  BY <1>1, <1>2, <1>4, <1>5, FilesAreLeft

(* What get() without a result leads to.                                   *)
LEMMA AfterNothing ==
  ASSUME NEW p \in Clients, client[p].kind \in {"info", "clear"}
  PROVE  F!AfterGet(p, None) = IF client[p].kind = "info" THEN "fetch" ELSE "done"
BY DEF F!AfterGet

LEMMA LooksAreSafe ==
  ASSUME CacheInv, NEW p \in Clients, F!LookFor(p) \/ F!LookAgain(p)
  PROVE  CacheInv'
<1>1. client[p].pc \in {"exists", "corrupt", "forget"} /\ F!SameFiles /\ UNCHANGED killed
  BY DEF F!LookFor, F!LookAgain, F!Still
<1>2. UNCHANGED <<versionOf, file, directory>>
  BY <1>1 DEF F!SameFiles
<1>3. ClientIsRight(p) /\ client[p].kind \in {"info", "clear"}
  BY <1>1 DEF CacheInv, ClientIsRight, ForClear, ForEither
<1>4. PICK pc \in {"read", "drop", "clear", "fetch", "done"} :
        /\ F!Becomes(p, pc)
        /\ pc \in {"read", "drop", "clear"} => file # None
        /\ pc = "clear" => client[p].kind = "clear"
        /\ pc = "fetch" => client[p].kind = "info"
        /\ pc = "done" => client[p].kind = "clear"
  BY <1>1, <1>3, AfterNothing DEF F!LookFor, F!LookAgain, ClientIsRight, ForClear
<1>5. pc \in Places
  BY DEF Places, ForInfo, ForClear, ForEither, Resting
<1>6. ClientIsRight(p)'
  BY <1>1, <1>2, <1>3, <1>4, <1>5, BecomesKeeps
     DEF ClientIsRight, ForInfo, ForClear, ForFlush, ForEither, Resting
<1>7. QED
  BY <1>1, <1>4, <1>5, <1>6, GoesOn

LEMMA ReadIsSafe ==
  ASSUME CacheInv, NEW p \in Clients, F!Read(p)
  PROVE  CacheInv'
<1>1. client[p].pc = "read" /\ F!SameFiles /\ UNCHANGED killed
  BY DEF F!Read, F!Still
<1>2. UNCHANGED <<versionOf, file, directory>>
  BY <1>1 DEF F!SameFiles
<1>3. ClientIsRight(p) /\ client[p].kind \in {"info", "clear"} /\ client[p] \in Client
  BY <1>1 DEF CacheInv, CacheTypes, ClientIsRight, ForEither
<1>4. CASE \E pc \in {"failed", "corrupt"} : F!Becomes(p, pc) /\ (pc = "failed" => file = None)
  <2>1. PICK pc \in {"failed", "corrupt"} : F!Becomes(p, pc) /\ (pc = "failed" => file = None)
    BY <1>4
  <2>2. pc \in Places
    BY DEF Places, ForEither, Resting
  <2>3. ClientIsRight(p)'
    BY <1>1, <1>2, <1>3, <2>1, <2>2, BecomesKeeps
       DEF ClientIsRight, ForInfo, ForClear, ForFlush, ForEither, Resting
  <2>4. QED
    BY <1>1, <2>1, <2>2, <2>3, GoesOn
<1>5. CASE /\ file # None /\ F!IsDecoded(file)
           /\ client' = [client EXCEPT ![p].got = file, ![p].pc = F!AfterGet(p, file)]
  <2>. DEFINE pc == F!AfterGet(p, file)
              me == [client[p] EXCEPT !.got = file, !.pc = pc]
  <2>1. PICK v \in CacheVersions : file = F!Payload(v)
    BY <1>5 DEF F!IsDecoded
  <2>2. file[1] = [version |-> v, block |-> 1]
    BY <2>1, PayloadIsWhole
  <2>3. pc \in {"done", "fetch", "forget"}
        /\ (pc = "fetch" => client[p].kind = "info")
        /\ (pc = "forget" => client[p].kind = "clear")
        /\ (pc = "done" => client[p].kind = "info" /\ versionOf[p] = v)
    BY <1>3, <1>5, <2>2 DEF F!AfterGet, F!IsCurrent
  <2>4. pc \in Places
    BY <2>3 DEF Places, ForInfo, ForClear, Resting
  <2>. HIDE DEF pc
  <2>5. file \in Cached
    BY DEF CacheInv, CacheTypes
  <2>6. /\ me \in Client /\ me.pc = pc /\ me.got = file /\ me.kind = client[p].kind
        /\ me.written = client[p].written /\ me.attached = client[p].attached
        /\ me.excused = client[p].excused
    BY <1>3, <2>4, <2>5 DEF Client
  <2>7. client' = [client EXCEPT ![p] = me]
    BY <1>3, <1>5 DEF Client, pc
  <2>. HIDE DEF me
  <2>8. client'[p] = me
    BY <2>7 DEF CacheInv, CacheTypes
  <2>9. ClientIsRight(p)'
    <3>1. F!IsDecoded(file)
      BY <1>5
    <3>2. F!IsDecoded(me.got)
      BY <2>6, <3>1
    <3>3. F!IsDecoded(client'[p].got)
      BY <2>8, <3>2
    <3>4. F!Payload(versionOf[p])' = F!Payload(versionOf[p])
      BY <1>2
    <3>5. QED
      BY <1>1, <1>2, <1>3, <2>1, <2>3, <2>6, <2>8, <3>3
         DEF ClientIsRight, ForInfo, ForClear, ForFlush, ForEither, Resting
  <2>10. QED
    BY <1>1, <2>6, <2>7, <2>9, FilesAreLeft
<1>6. QED
  BY <1>4, <1>5 DEF F!Read

(* A file that is removed.                                                 *)
LEMMA RemovedIsSafe ==
  ASSUME CacheInv, NEW p \in Clients, NEW pc \in Places, F!Removed(p, pc),
         client[p].pc \in {"drop", "clear", "empty"},
         UNCHANGED <<versionOf, killed>>,
         /\ pc = "done" => client[p].kind # "info"
         /\ pc = "fetch" => client[p].kind = "info"
         /\ pc = "rmdir" => client[p].kind = "flush",
         pc \in {"done", "fetch", "rmdir"}
  PROVE  CacheInv'
<1>1. file # None /\ file' = None /\ UNCHANGED directory /\ directory
  BY DEF F!Removed, CacheInv, CacheTypes
<1>2. client' = [q \in Clients |->
        IF q = p THEN [client[p] EXCEPT !.pc = pc]
        ELSE [client[q] EXCEPT !.attached = FALSE, !.excused = TRUE]]
  BY DEF F!Removed
<1>3. \A q \in Clients : client[q] \in Client /\ ClientIsRight(q)
  BY DEF CacheInv, CacheTypes
<1>4. /\ client'[p] \in Client /\ client'[p].pc = pc /\ client'[p].kind = client[p].kind
      /\ client'[p].got = client[p].got /\ client'[p].written = client[p].written
      /\ client'[p].attached = client[p].attached /\ client'[p].excused = client[p].excused
  BY <1>2, <1>3 DEF Client
<1>5. ASSUME NEW q \in Clients, q # p
      PROVE  /\ client'[q] \in Client /\ client'[q].pc = client[q].pc
             /\ client'[q].kind = client[q].kind /\ client'[q].got = client[q].got
             /\ client'[q].written = client[q].written
             /\ ~ client'[q].attached /\ client'[q].excused
  BY <1>2, <1>3, <1>5 DEF Client
<1>6. CacheTypes'
  BY <1>1, <1>2, <1>4, <1>5 DEF CacheInv, CacheTypes, Cached
<1>7. ClientIsRight(p)'
  BY <1>1, <1>3, <1>4 DEF ClientIsRight, ForInfo, ForClear, ForFlush, ForEither, Resting
<1>8. ASSUME NEW q \in Clients, q # p PROVE ClientIsRight(q)'
  BY <1>3, <1>5, <1>8 DEF ClientIsRight
<1>9. ContentIsRight'
  BY <1>1 DEF ContentIsRight
<1>10. QED
  BY <1>6, <1>7, <1>8, <1>9 DEF CacheInv

LEMMA RemovalsAreSafe ==
  ASSUME CacheInv, NEW p \in Clients, F!Unlink(p) \/ F!EmptyDirectory(p)
  PROVE  CacheInv'
<1>1. client[p].pc \in {"drop", "clear", "empty"} /\ UNCHANGED <<versionOf, killed>>
  BY DEF F!Unlink, F!EmptyDirectory, F!Still
<1>2. ClientIsRight(p) /\ (client[p].pc = "drop" => client[p].kind \in {"info", "clear"})
      /\ (client[p].pc = "clear" => client[p].kind = "clear")
      /\ (client[p].pc = "empty" => client[p].kind = "flush")
  BY DEF CacheInv, ClientIsRight, ForClear, ForFlush, ForEither
<1>3. CASE F!IsGone(p)
  <2>1. file = None /\ F!Becomes(p, "failed") /\ F!SameFiles /\ "failed" \in Places
    BY <1>3 DEF F!IsGone, Places, Resting
  <2>2. ClientIsRight(p)'
    BY <1>1, <1>2, <2>1, BecomesKeeps
       DEF F!SameFiles, ClientIsRight, ForInfo, ForClear, ForFlush, ForEither, Resting
  <2>3. QED
    BY <1>1, <2>1, <2>2, GoesOn
<1>4. CASE ~ F!IsGone(p)
  <2>1. PICK pc \in {"done", "fetch", "rmdir"} :
          /\ F!Removed(p, pc)
          /\ pc = "done" => client[p].kind # "info"
          /\ pc = "fetch" => client[p].kind = "info"
          /\ pc = "rmdir" => client[p].kind = "flush"
    BY <1>1, <1>2, <1>4, AfterNothing DEF F!Unlink, F!EmptyDirectory
  <2>2. pc \in Places
    BY DEF Places, ForInfo, ForFlush, Resting
  <2>3. QED
    BY <1>1, <2>1, <2>2, RemovedIsSafe
<1>5. QED
  BY <1>3, <1>4

LEMMA ScansAreSafe ==
  ASSUME CacheInv, NEW p \in Clients, F!CountEntries(p) \/ F!Scan(p) \/ F!Fetch(p)
  PROVE  CacheInv'
<1>1. client[p].pc \in {"entries", "scan", "fetch"} /\ F!SameFiles /\ UNCHANGED killed
  BY DEF F!CountEntries, F!Scan, F!Fetch, F!Goes, F!Still
<1>2. UNCHANGED <<versionOf, file, directory>>
  BY <1>1 DEF F!SameFiles
<1>3. ClientIsRight(p)
  BY DEF CacheInv
<1>4. PICK pc \in {"scan", "done", "failed", "rmdir", "empty", "mkdir"} :
        /\ F!Becomes(p, pc)
        /\ client[p].pc = "fetch" <=> pc = "mkdir"
        /\ pc = "scan" => directory
        /\ pc = "failed" => client[p].excused
        /\ pc = "rmdir" => directory /\ file = None
        /\ pc = "empty" => file # None
  BY <1>3 DEF F!CountEntries, F!Scan, F!Fetch, F!Goes, ClientIsRight
<1>5. pc \in Places
  BY DEF Places, ForInfo, ForFlush, Resting
<1>6. ClientIsRight(p)'
  BY <1>1, <1>2, <1>3, <1>4, <1>5, BecomesKeeps
     DEF ClientIsRight, ForInfo, ForClear, ForFlush, ForEither, Resting
<1>7. QED
  BY <1>1, <1>4, <1>5, <1>6, GoesOn

LEMMA FetchFailsIsSafe ==
  ASSUME CacheInv, NEW p \in Clients, F!FetchFails(p)
  PROVE  CacheInv'
<1>. DEFINE me == [client[p] EXCEPT !.pc = "failed", !.excused = TRUE]
<1>1. F!SameFiles /\ UNCHANGED killed /\ client[p].pc = "fetch"
  BY DEF F!FetchFails
<1>2. client[p] \in Client /\ ClientIsRight(p)
  BY DEF CacheInv, CacheTypes
<1>3. client' = [client EXCEPT ![p] = me]
  BY <1>2 DEF F!FetchFails, Client
<1>4. /\ me \in Client /\ me.pc = "failed" /\ me.got = client[p].got /\ me.kind = client[p].kind
      /\ me.written = client[p].written /\ me.attached = client[p].attached /\ me.excused
  BY <1>2 DEF Client, Places, Resting
<1>. HIDE DEF me
<1>5. client'[p] = me
  BY <1>3 DEF CacheInv, CacheTypes
<1>6. ClientIsRight(p)'
  BY <1>1, <1>2, <1>4, <1>5
     DEF F!SameFiles, ClientIsRight, ForInfo, ForClear, ForFlush, ForEither, Resting
<1>7. QED
  BY <1>1, <1>3, <1>4, <1>6, FilesAreLeft

LEMMA RemoveDirectoryIsSafe ==
  ASSUME CacheInv, NEW p \in Clients, F!RemoveDirectory(p)
  PROVE  CacheInv'
<1>1. client[p].pc = "rmdir" /\ UNCHANGED <<file, versionOf, killed>>
  BY DEF F!RemoveDirectory, F!Still
<1>2. \A q \in Clients : client[q] \in Client /\ ClientIsRight(q)
  BY DEF CacheInv, CacheTypes
<1>3. CASE F!Becomes(p, "failed") /\ (~ directory \/ file # None) /\ UNCHANGED directory
  <2>1. "failed" \in Places
    BY DEF Places, Resting
  <2>2. /\ client'[p].pc = "failed" /\ client'[p].kind = client[p].kind
        /\ client'[p].got = client[p].got /\ client'[p].written = client[p].written
        /\ client'[p].attached = client[p].attached /\ client'[p].excused = client[p].excused
    BY <1>3, <2>1, BecomesKeeps
  <2>3. ClientIsRight(p)'
    BY <1>1, <1>2, <1>3, <2>2
       DEF ClientIsRight, ForInfo, ForClear, ForFlush, ForEither, Resting
  <2>4. QED
    BY <1>1, <1>3, <2>1, <2>3, GoesOn DEF F!SameFiles
<1>4. CASE /\ directory /\ file = None /\ directory' = FALSE
           /\ client' = [q \in Clients |->
                IF q = p THEN [client[p] EXCEPT !.pc = "done"]
                ELSE [client[q] EXCEPT !.excused = TRUE]]
  <2>1. /\ client'[p] \in Client /\ client'[p].pc = "done" /\ client'[p].kind = client[p].kind
        /\ client'[p].got = client[p].got /\ client'[p].written = client[p].written
        /\ client'[p].attached = client[p].attached /\ client'[p].excused = client[p].excused
    BY <1>2, <1>4 DEF Client, Places, Resting
  <2>2. ASSUME NEW q \in Clients, q # p
        PROVE  /\ client'[q] \in Client /\ client'[q].pc = client[q].pc
               /\ client'[q].kind = client[q].kind /\ client'[q].got = client[q].got
               /\ client'[q].written = client[q].written
               /\ client'[q].attached = client[q].attached /\ client'[q].excused
    BY <1>2, <1>4, <2>2 DEF Client
  <2>3. CacheTypes'
    BY <1>1, <1>4, <2>1, <2>2 DEF CacheInv, CacheTypes
  <2>4. ClientIsRight(p)'
    BY <1>1, <1>2, <2>1 DEF ClientIsRight, ForInfo, ForClear, ForFlush, ForEither, Resting
  <2>5. ASSUME NEW q \in Clients, q # p PROVE ClientIsRight(q)'
    BY <1>1, <1>2, <2>2, <2>5 DEF ClientIsRight
  <2>6. ContentIsRight'
    BY <1>1, <1>4 DEF ContentIsRight
  <2>7. QED
    BY <2>3, <2>4, <2>5, <2>6 DEF CacheInv
<1>5. QED
  BY <1>3, <1>4 DEF F!RemoveDirectory

LEMMA MakeDirectoryIsSafe ==
  ASSUME CacheInv, NEW p \in Clients, F!MakeDirectory(p)
  PROVE  CacheInv'
<1>1. /\ client[p].pc = "mkdir" /\ F!Becomes(p, "open") /\ directory' = TRUE
      /\ UNCHANGED <<file, versionOf, killed>> /\ "open" \in Places
  BY DEF F!MakeDirectory, F!Goes, F!Still, Places, ForInfo
<1>2. \A q \in Clients : client[q] \in Client /\ ClientIsRight(q)
  BY DEF CacheInv, CacheTypes
<1>3. client' = [client EXCEPT ![p] = [client[p] EXCEPT !.pc = "open"]]
      /\ [client[p] EXCEPT !.pc = "open"] \in Client
  BY <1>1, BecomesKeeps
<1>4. client' \in [Clients -> Client] /\ \A q \in Clients : q # p => client'[q] = client[q]
  BY <1>3 DEF CacheInv, CacheTypes
<1>5. CacheTypes'
  BY <1>1, <1>4 DEF CacheInv, CacheTypes
<1>6. ClientIsRight(p)'
  BY <1>1, <1>2, BecomesKeeps, ZenonT(60)
     DEF ClientIsRight, ForInfo, ForClear, ForFlush, ForEither, Resting
<1>7. ASSUME NEW q \in Clients, q # p PROVE ClientIsRight(q)'
  BY <1>1, <1>2, <1>4, <1>7 DEF ClientIsRight
<1>8. \A q \in Clients : /\ client'[q].attached = client[q].attached
                         /\ client'[q].written = client[q].written
  BY <1>1, <1>4, BecomesKeeps
<1>9. ContentIsRight'
  BY <1>1, <1>8 DEF CacheInv, ContentIsRight, IsCovered
<1>10. QED
  BY <1>5, <1>6, <1>7, <1>9 DEF CacheInv

(* Who opens the file has all of it to write.                              *)
LEMMA OpenIsSafe ==
  ASSUME CacheInv, NEW p \in Clients, F!Open(p)
  PROVE  CacheInv'
<1>1. client[p].pc = "open" /\ UNCHANGED <<directory, versionOf, killed>>
  BY DEF F!Open, F!Still
<1>2. \A q \in Clients : client[q] \in Client /\ ClientIsRight(q) /\ versionOf[q] \in CacheVersions
  BY DEF CacheInv, CacheTypes
<1>3. CASE F!Becomes(p, "failed") /\ ~ directory /\ UNCHANGED file
  <2>1. "failed" \in Places
    BY DEF Places, Resting
  <2>2. /\ client'[p].pc = "failed" /\ client'[p].kind = client[p].kind
        /\ client'[p].got = client[p].got /\ client'[p].written = client[p].written
        /\ client'[p].attached = client[p].attached /\ client'[p].excused = client[p].excused
    BY <1>3, <2>1, BecomesKeeps
  <2>3. ClientIsRight(p)'
    BY <1>1, <1>2, <1>3, <2>2
       DEF ClientIsRight, ForInfo, ForClear, ForFlush, ForEither, Resting
  <2>4. QED
    BY <1>1, <1>3, <2>1, <2>3, GoesOn DEF F!SameFiles
<1>4. CASE /\ directory /\ file' = << >>
           /\ client' = [q \in Clients |->
                IF q = p THEN [client[p] EXCEPT !.pc = "write", !.attached = TRUE]
                ELSE [client[q] EXCEPT !.excused = @ \/ client[q].kind = "flush"]]
  <2>1. file' \in Seq(Blocks) /\ file' # None /\ Len(file') = 0
    <3>1. << >> \in Seq(Blocks) /\ Len(<< >>) = 0
      OBVIOUS
    <3>2. QED
      BY <1>4, <3>1, NoneIsNoFile
  <2>2. /\ client'[p] \in Client /\ client'[p].pc = "write" /\ client'[p].kind = client[p].kind
        /\ client'[p].got = client[p].got /\ client'[p].written = client[p].written
        /\ client'[p].attached /\ client'[p].excused = client[p].excused
    BY <1>2, <1>4 DEF Client, Places, ForInfo
  <2>3. ASSUME NEW q \in Clients, q # p
        PROVE  /\ client'[q] \in Client /\ client'[q].pc = client[q].pc
               /\ client'[q].kind = client[q].kind /\ client'[q].got = client[q].got
               /\ client'[q].written = client[q].written
               /\ client'[q].attached = client[q].attached
               /\ client[q].excused => client'[q].excused
               /\ client[q].kind = "flush" => client'[q].excused
    BY <1>2, <1>4, <2>3 DEF Client
  <2>4. CacheTypes'
    BY <1>1, <1>4, <2>1, <2>2, <2>3 DEF CacheInv, CacheTypes, Cached
  <2>5. client[p].written = 0 /\ LengthOf[versionOf[p]] > 0
    BY <1>1, <1>2, PayloadIsWhole DEF ClientIsRight, Resting
  <2>6. ClientIsRight(p)'
    BY <1>1, <1>2, <2>1, <2>2, <2>5
       DEF ClientIsRight, ForInfo, ForClear, ForFlush, ForEither, Resting
  <2>7. ASSUME NEW q \in Clients, q # p PROVE ClientIsRight(q)'
    BY <1>1, <1>2, <2>1, <2>3, <2>7 DEF ClientIsRight, ForFlush
  <2>8. ContentIsRight'
    <3>1. \A v \in CacheVersions : IsCovered(v)'
      BY <2>1, <2>2, <2>5, PayloadIsWhole DEF IsCovered
    <3>2. QED
      BY <3>1 DEF ContentIsRight
  <2>9. QED
    BY <2>4, <2>6, <2>7, <2>8 DEF CacheInv
<1>5. QED
  BY <1>3, <1>4 DEF F!Open

LEMMA WrittenIs ==
  ASSUME NEW content \in Seq(Blocks), NEW i \in Nat, i > 0, NEW block \in Blocks
  PROVE  /\ F!Written(content, i, block) \in Seq(Blocks)
         /\ Len(F!Written(content, i, block)) = IF i > Len(content) THEN i ELSE Len(content)
         /\ F!Written(content, i, block)[i] = block
         /\ \A j \in 1 .. Len(content) : j # i => F!Written(content, i, block)[j] = content[j]
<1>. DEFINE n == IF i > Len(content) THEN i ELSE Len(content)
            at(j) == IF j = i THEN block ELSE IF j <= Len(content) THEN content[j] ELSE F!Hole
<1>1. Len(content) \in Nat /\ n \in Nat /\ i \in 1 .. n
      /\ \A j \in 1 .. Len(content) : j \in 1 .. n /\ content[j] \in Blocks
  OBVIOUS
<1>2. F!Hole \in Blocks
  BY DEF Blocks
<1>3. \A j \in 1 .. n : at(j) \in Blocks
  BY <1>1, <1>2
<1>4. F!Written(content, i, block) = [j \in 1 .. n |-> at(j)]
  BY DEF F!Written
<1>5. at(i) = block /\ \A j \in 1 .. Len(content) : j # i => at(j) = content[j]
  BY <1>1
<1>. HIDE DEF n, at
<1>6. [j \in 1 .. n |-> at(j)] \in Seq(Blocks) /\ Len([j \in 1 .. n |-> at(j)]) = n
  BY <1>1, <1>3
<1>7. QED
  BY <1>1, <1>4, <1>5, <1>6 DEF n

(* What a writer writes, it need not come to again.                        *)
LEMMA WriteIsSafe ==
  ASSUME CacheInv, NEW p \in Clients, F!WriteBlock(p)
  PROVE  CacheInv'
<1>. DEFINE v == versionOf[p]
            i == client[p].written + 1
            was == client[p].attached
<1>1. /\ client[p].pc = "write" /\ UNCHANGED <<directory, versionOf, killed>>
      /\ file' = IF was THEN F!Written(file, i, F!Payload(v)[i]) ELSE file
      /\ client' = [client EXCEPT ![p].written = i,
                      ![p].pc = IF i = LengthOf[v] THEN "done" ELSE "write",
                      ![p].got = F!Payload(v), ![p].attached = i < LengthOf[v] /\ @]
  BY DEF F!WriteBlock, F!Still
<1>2. /\ client[p] \in Client /\ ClientIsRight(p) /\ v \in CacheVersions /\ was \in BOOLEAN
      /\ client[p].written \in Nat
  BY DEF CacheInv, CacheTypes, Client
<1>3. /\ i \in Nat /\ i > 0 /\ LengthOf[v] \in Nat /\ i <= LengthOf[v]
      /\ client[p].kind = "info" /\ (was => file \in Seq(Blocks))
  BY <1>1, <1>2, PayloadIsWhole DEF ClientIsRight, ForInfo, CacheInv, CacheTypes, Cached
<1>4. /\ F!Payload(v)[i] \in Blocks /\ F!Payload(v) \in Cached /\ F!IsDecoded(F!Payload(v))
      /\ Len(F!Payload(v)) = LengthOf[v]
  BY <1>2, <1>3, PayloadIsWhole DEF Cached
<1>5. /\ client'[p] \in Client /\ client'[p].written = i
      /\ client'[p].pc = (IF i = LengthOf[v] THEN "done" ELSE "write")
      /\ client'[p].got = F!Payload(v) /\ client'[p].kind = client[p].kind
      /\ client'[p].attached <=> i < LengthOf[v] /\ was
      /\ client'[p].excused = client[p].excused
  <2>. DEFINE pc == IF i = LengthOf[v] THEN "done" ELSE "write"
              on == i < LengthOf[v] /\ was
              me == [client[p] EXCEPT !.written = i, !.pc = pc, !.got = F!Payload(v), !.attached = on]
  <2>1. client' = [client EXCEPT ![p] = me]
    BY <1>1, <1>2 DEF Client
  <2>2. client'[p] = me
    BY <2>1 DEF CacheInv, CacheTypes
  <2>3. pc \in Places /\ on \in BOOLEAN
    BY <1>2 DEF Places, ForInfo, Resting
  <2>. HIDE DEF pc, on, v, i
  <2>4. /\ me \in Client /\ me.written = i /\ me.pc = pc /\ me.got = F!Payload(v)
        /\ me.kind = client[p].kind /\ me.attached = on /\ me.excused = client[p].excused
    BY <1>2, <1>3, <1>4, <2>3 DEF Client
  <2>. HIDE DEF me
  <2>5. QED
    BY <2>2, <2>4 DEF pc, on
<1>6. client' \in [Clients -> Client] /\ \A q \in Clients : q # p => client'[q] = client[q]
  BY <1>1, <1>5 DEF CacheInv, CacheTypes
<1>7. /\ was => file' \in Seq(Blocks) /\ file' # None /\ file' = F!Written(file, i, F!Payload(v)[i])
      /\ ~ was => file' = file
  BY <1>1, <1>3, <1>4, WrittenIs, NoneIsNoFile
<1>8. was => file # None
  BY <1>2 DEF ClientIsRight
<1>. HIDE DEF v, i, was
<1>9. CacheTypes'
  BY <1>1, <1>6, <1>7, <1>8 DEF CacheInv, CacheTypes, Cached
<1>10. ClientIsRight(p)'
  <2>1. F!IsDecoded(client'[p].got) /\ client'[p].got = F!Payload(versionOf[p])'
    BY <1>1, <1>4, <1>5 DEF v
  <2>2. /\ client'[p].pc \in {"write", "done"} /\ client'[p].kind = "info"
        /\ client'[p].pc = "write" => client'[p].written < LengthOf[versionOf'[p]]
        /\ client'[p].attached => client'[p].pc = "write" /\ file' # None
    <3>1. versionOf'[p] = v
      BY <1>1 DEF v
    <3>2. client'[p].pc \in {"write", "done"} /\ client'[p].kind = "info"
      BY <1>3, <1>5
    <3>3. client'[p].pc = "write" => i < LengthOf[v]
      BY <1>3, <1>5
    <3>4. client'[p].attached => client'[p].pc = "write" /\ file' # None
      BY <1>3, <1>5, <1>7
    <3>5. QED
      BY <1>5, <3>1, <3>2, <3>3, <3>4
  <2>3. QED
    BY <2>1, <2>2 DEF ClientIsRight, ForInfo, ForClear, ForFlush, ForEither, Resting
<1>11. ASSUME NEW q \in Clients, q # p PROVE ClientIsRight(q)'
  <2>1. file' = None <=> file = None
    BY <1>7, <1>8
  <2>2. QED
    BY <1>1, <1>6, <1>11, <2>1 DEF CacheInv, ClientIsRight
<1>12. ContentIsRight'
  <2>. SUFFICES ASSUME \A q \in Clients : versionOf[q] = v, file' # None, ~ killed
                PROVE  \/ F!IsDecoded(file') /\ \A q \in Clients : ~ client'[q].attached
                       \/ IsCovered(v)'
    BY <1>1 DEF ContentIsRight, v
  <2>1. CASE ~ was
    <3>1. file' = file
      BY <1>7, <2>1
    <3>2. \/ F!IsDecoded(file) /\ \A q \in Clients : ~ client[q].attached
          \/ IsCovered(v)
      BY <1>2, <3>1 DEF CacheInv, ContentIsRight
    <3>3. ~ client[p].attached /\ ~ client'[p].attached
      BY <1>5, <2>1 DEF was
    <3>4. CASE F!IsDecoded(file) /\ \A q \in Clients : ~ client[q].attached
      BY <1>6, <3>1, <3>3, <3>4
    <3>5. CASE IsCovered(v)
      <4>1. ASSUME NEW q \in Clients, NEW j \in 1 .. LengthOf[v],
                   client[q].attached, client[q].written < j
            PROVE  client'[q].attached /\ client'[q].written < j
        BY <1>6, <3>3, <4>1
      <4>2. v' = v
        BY <1>1 DEF v
      <4>3. IsCovered(v)'
        BY <3>1, <3>5, <4>1, <4>2 DEF IsCovered
      <4>4. QED
        BY <4>3
    <3>6. QED
      BY <3>2, <3>4, <3>5
  <2>2. CASE was
    <3>1. IsCovered(v)
      BY <1>2, <1>8, <2>2 DEF CacheInv, ContentIsRight, was
    <3>2. /\ Len(file') = IF i > Len(file) THEN i ELSE Len(file)
          /\ file'[i] = F!Payload(v)[i]
          /\ \A j \in 1 .. Len(file) : j # i => file'[j] = file[j]
      <4>1. file \in Seq(Blocks) /\ file' = F!Written(file, i, F!Payload(v)[i])
        BY <1>3, <1>7, <2>2
      <4>2. QED
        BY ONLY <1>3, <1>4, <4>1, WrittenIs
    <3>3. Len(file) \in Nat
      BY <1>3, <2>2
    <3>4. Len(file') <= LengthOf[v]
      BY <1>3, <3>1, <3>2, <3>3 DEF IsCovered
    <3>5. ASSUME NEW j \in 1 .. LengthOf[v]
          PROVE  \/ j <= Len(file') /\ file'[j] = F!Payload(v)[j]
                 \/ \E q \in Clients : client'[q].attached /\ client'[q].written < j
      <4>1. CASE j = i
        BY <1>3, <3>2, <3>3, <4>1
      <4>2. CASE j # i /\ j <= Len(file) /\ file[j] = F!Payload(v)[j]
        BY <1>3, <3>2, <3>3, <4>2
      <4>3. CASE j # i /\ \E q \in Clients : client[q].attached /\ client[q].written < j
        <5>1. PICK q \in Clients : client[q].attached /\ client[q].written < j
          BY <4>3
        <5>2. CASE q = p
          <6>1. i < j
            BY <1>2, <4>3, <5>1, <5>2 DEF i
          <6>2. i < LengthOf[v]
            BY <1>3, <6>1
          <6>3. client'[p].attached /\ client'[p].written = i
            BY <1>5, <2>2, <6>2
          <6>4. QED
            BY <6>1, <6>3
        <5>3. CASE q # p
          BY <1>6, <5>1, <5>3
        <5>4. QED
          BY <5>2, <5>3
      <4>4. QED
        BY <3>1, <4>1, <4>2, <4>3 DEF IsCovered
    <3>6. IsCovered(v)'
      BY <1>1, <3>4, <3>5 DEF IsCovered, v
    <3>7. QED
      BY <3>6
  <2>3. QED
    BY <2>1, <2>2
<1>13. QED
  BY <1>9, <1>10, <1>11, <1>12 DEF CacheInv

LEMMA DieIsSafe ==
  ASSUME CacheInv, NEW p \in Clients, F!Die(p)
  PROVE  CacheInv'
<1>1. client' = [client EXCEPT ![p] = F!Idle] /\ killed' = TRUE
      /\ UNCHANGED <<versionOf, file, directory>>
  BY DEF F!Die, F!SameFiles
<1>2. F!Idle \in Client /\ F!Idle.pc = "idle" /\ F!Idle.got = None /\ ~ F!Idle.attached
  BY DEF F!Idle, Client, Places, Resting, Cached
<1>3. client' \in [Clients -> Client] /\ client'[p] = F!Idle
      /\ \A q \in Clients : q # p => client'[q] = client[q]
  BY <1>1, <1>2 DEF CacheInv, CacheTypes
<1>4. CacheTypes'
  BY <1>1, <1>3 DEF CacheInv, CacheTypes
<1>5. ClientIsRight(p)'
  BY <1>2, <1>3 DEF ClientIsRight, ForInfo, ForClear, ForFlush, ForEither, Resting
<1>6. ASSUME NEW q \in Clients, q # p PROVE ClientIsRight(q)'
  BY <1>1, <1>3, <1>6 DEF CacheInv, ClientIsRight
<1>7. ContentIsRight'
  BY <1>1 DEF ContentIsRight
<1>8. QED
  BY <1>4, <1>5, <1>6, <1>7 DEF CacheInv

LEMMA CacheSteps == CacheInv /\ [F!Next]_F!vars => CacheInv'
<1>. SUFFICES ASSUME CacheInv, [F!Next]_F!vars PROVE CacheInv'
  OBVIOUS
<1>1. CASE UNCHANGED F!vars
  BY <1>1 DEF F!vars, CacheInv, CacheTypes, ClientIsRight, ContentIsRight, IsCovered
<1>2. CASE F!Next
  BY <1>2, AskIsSafe, LooksAreSafe, ReadIsSafe, RemovalsAreSafe, ScansAreSafe, FetchFailsIsSafe,
     RemoveDirectoryIsSafe, MakeDirectoryIsSafe, OpenIsSafe, WriteIsSafe, DieIsSafe DEF F!Next
<1>3. QED
  BY <1>1, <1>2

(* A sequence of blocks that are all there is the entry.                   *)
LEMMA CoveredIsWhole ==
  ASSUME CacheInv, NEW v \in CacheVersions, file # None, IsCovered(v),
         \A p \in Clients : ~ client[p].attached
  PROVE  F!IsDecoded(file)
<1>1. file \in Seq(Blocks) /\ F!Payload(v) \in Seq(Blocks) /\ Len(F!Payload(v)) = LengthOf[v]
      /\ LengthOf[v] \in Nat /\ LengthOf[v] > 0
  BY PayloadIsWhole DEF CacheInv, CacheTypes, Cached
<1>2. Len(file) <= LengthOf[v]
      /\ \A i \in 1 .. LengthOf[v] : i <= Len(file) /\ file[i] = F!Payload(v)[i]
  BY DEF IsCovered
<1>3. Len(file) = LengthOf[v]
  BY <1>1, <1>2
<1>4. file = F!Payload(v)
  BY <1>1, <1>2, <1>3
<1>5. QED
  BY <1>4 DEF F!IsDecoded

(* Whatever the processes read, write and remove at the same time, and      *)
(* wherever one dies: an answer is whole and of the version that asks, what *)
(* writers of one version leave is an entry, and a request fails only when  *)
(* the index or another process is the reason; for any number of processes, *)
(* versions and blocks.                                                    *)
THEOREM CacheSoundness == MCSpec => []CacheIsSound
<1>1. CacheInv => CacheIsSound
  <2>. SUFFICES ASSUME CacheInv PROVE F!CacheIsSound
    BY DEF CacheIsSound
  <2>1. F!TypeOK
    <3>1. file = None \/ \A i \in DOMAIN file : file[i] = F!Hole \/ file[i].version \in CacheVersions
      <4>1. CASE file # None
        <5>1. file \in Seq(Blocks)
          BY <4>1 DEF CacheInv, CacheTypes, Cached
        <5>2. \A i \in DOMAIN file : file[i] \in Blocks
          BY <5>1
        <5>3. QED
          BY <5>2 DEF Blocks
      <4>2. QED
        BY <4>1
    <3>2. QED
      BY <3>1 DEF F!TypeOK, CacheInv, CacheTypes, ClientIsRight
  <2>2. F!AnswersAreWhole
    BY DEF F!AnswersAreWhole, CacheInv, ClientIsRight
  <2>3. F!EntryIsLeftWhole
    <3>. SUFFICES ASSUME \A p, q \in Clients : client[p].pc # "write" /\ versionOf[p] = versionOf[q],
                         file # None, ~ killed
                  PROVE  F!IsDecoded(file)
      BY DEF F!EntryIsLeftWhole
    <3>1. PICK p \in Clients : TRUE
      BY OneOfFileCache DEF F!FileCacheAssumption
    <3>2. versionOf[p] \in CacheVersions /\ \A q \in Clients : versionOf[q] = versionOf[p]
      BY DEF CacheInv, CacheTypes
    <3>3. \A q \in Clients : ~ client[q].attached
      BY DEF CacheInv, ClientIsRight
    <3>4. F!IsDecoded(file) \/ IsCovered(versionOf[p])
      BY <3>2 DEF CacheInv, ContentIsRight
    <3>5. QED
      BY <3>2, <3>3, <3>4, CoveredIsWhole
  <2>4. F!FailsForAReason
    BY DEF F!FailsForAReason, CacheInv, ClientIsRight
  <2>5. QED
    BY <2>1, <2>2, <2>3, <2>4 DEF F!CacheIsSound
<1>2. MCInit => CacheInv
  BY CacheStarts DEF MCInit
<1>3. CacheInv /\ [MCNext]_allvars => CacheInv'
  <2>1. [MCNext]_allvars => [F!Next]_F!vars
    BY DEF MCNext, allvars, cachevars, F!vars
  <2>2. QED
    BY <2>1, CacheSteps
<1>4. QED
  BY <1>1, <1>2, <1>3, PTL DEF MCSpec

-----------------------------------------------------------------------------
(* Configuration *)

Change == [key : Keys, value : Values \cup {None}]
Stages ==
  {"idle", "global", "local", "read", "again", "empty", "write", "restore", "check", "migrate",
   "done", "failed"}
Configuring ==
  [pc : Stages, command : C!Command \cup {None}, merged : C!Content, initial : C!Content,
   work : C!Content, todo : Seq(Change), pending : SUBSET DOMAIN Migrations, answer : Values \cup {None}]

(* What a command has to do still, and for which commands there is what.   *)
StageIsRight(me) ==
  /\ me.pc # "idle" => me.command \in ConfigCommands
  /\ me.pc # "idle" =>
       /\ me.command.kind = "get" => me.pc \in {"global", "local", "done"}
       /\ me.command.kind \in {"set", "unset"} => me.pc \notin {"check", "migrate"}
       /\ me.command.kind = "migrate" => me.pc \notin {"global", "local"}
       /\ me.pc \in {"read", "again", "empty", "write"} =>
            /\ Len(me.todo) \in 1 .. 2
            /\ me.command.kind # "migrate" =>
                 Len(me.todo) = 1 /\ me.todo[1].key = me.command.key /\ me.todo[1].value = me.command.value

ConfigTypes ==
  /\ environ \in C!Content
  /\ files \in [C!Files -> C!Content] /\ meant \in [C!Files -> C!Content]
  /\ configuring \in [Shells -> Configuring]
  /\ commands \in Nat /\ torn \subseteq C!Files
  /\ \A p \in Shells : StageIsRight(configuring[p])

(* Nothing comes from nowhere.                                             *)
IsGiven(content) == \A k \in Keys : C!Given(k, content[k])
AllIsGiven ==
  /\ \A f \in C!Files : IsGiven(files[f])
  /\ \A p \in Shells :
       /\ IsGiven(configuring[p].initial) /\ IsGiven(configuring[p].work)
       /\ \A i \in DOMAIN configuring[p].todo :
            C!Given(configuring[p].todo[i].key, configuring[p].todo[i].value)

(* The first command has the files for itself.                             *)
FirstIsAlone ==
  /\ \A p \in Shells : configuring[p].pc # "idle" => commands >= 1
  /\ \A p, q \in Shells : p # q /\ configuring[p].pc # "idle" /\ configuring[q].pc # "idle" => commands >= 2
Global == C!Over(Defaults, files["config.toml"])
FirstReads ==
  \A p \in Shells :
    commands = 1 /\ configuring[p].pc # "idle" /\ configuring[p].command.kind = "get" =>
      /\ configuring[p].pc = "local" => configuring[p].merged = Global
      /\ configuring[p].pc = "done" =>
           configuring[p].answer = C!Get(C!Over(Global, files["poetry.toml"]), configuring[p].command.key)

(* Who is about to change f.                                               *)
WorksOn(p, f) == C!AtWork(p) /\ C!Changes(C!CommandOf(p)) /\ C!FileOf(p) = f
OneWorks == \A f \in C!Files \ torn : \A p, q \in Shells : WorksOn(p, f) /\ WorksOn(q, f) => p = q

(* The file once the changes that are left are made.                       *)
AfterTodo(content, rest) ==
  IF Len(rest) = 0 THEN content
  ELSE IF Len(rest) = 1 THEN C!Changed(content, rest[1])
  ELSE C!Changed(C!Changed(content, rest[1]), rest[2])
Future(me, content) ==
  IF me.pc \in {"check", "migrate"} THEN content
  ELSE IF me.pc \in {"read", "again"} THEN AfterTodo(content, me.todo)
  ELSE AfterTodo(me.work, Tail(me.todo))

(* A migration that goes on leads to what it should, one of the migrations *)
(* after the other.                                                        *)
MigrationGoesOn(me, content, should) ==
  me.command.kind = "migrate" =>
    /\ me.pc # "restore"
    /\ C!Migrated(Future(me, content)) = C!Migrated(should)
    /\ me.pc # "check" => C!Required(Future(me, content)) \subseteq me.pending

ChangeGoesOn(me, content, should) ==
  me.command.kind \in {"set", "unset"} =>
    /\ me.pc \in {"global", "local", "read", "again", "empty"} => content = should
    /\ me.pc \in {"again", "empty", "write", "restore"} => me.initial = should
    /\ me.pc \in {"empty", "write"} => me.work = C!Changed(should, me.command)

CommandsGoOn ==
  \A f \in C!Files \ torn :
    /\ \A p \in Shells : WorksOn(p, f) => /\ MigrationGoesOn(configuring[p], files[f], meant[f])
                                         /\ ChangeGoesOn(configuring[p], files[f], meant[f])
    /\ (\A p \in Shells : ~ WorksOn(p, f)) => files[f] = meant[f]

ConfigInv == ConfigTypes /\ AllIsGiven /\ FirstIsAlone /\ FirstReads /\ OneWorks /\ CommandsGoOn

(* A step of p that makes me, content and should of its record, its file,   *)
(* and what should be in that.                                             *)
Makes(p, me, content, should) ==
  /\ configuring' = [configuring EXCEPT ![p] = me]
  /\ files' = [files EXCEPT ![C!FileOf(p)] = content]
  /\ meant' = [meant EXCEPT ![C!FileOf(p)] = should]
  /\ torn' \in {torn, torn \cup {C!FileOf(p)}}
  /\ UNCHANGED <<environ, commands>>

IsFine(me, content, should) ==
  /\ me \in Configuring /\ StageIsRight(me)
  /\ content \in C!Content /\ should \in C!Content
  /\ IsGiven(content) /\ IsGiven(me.initial) /\ IsGiven(me.work)
  /\ \A i \in DOMAIN me.todo : C!Given(me.todo[i].key, me.todo[i].value)

Rests(me) == me.pc \in {"idle", "done", "failed"}
KeepsOn(me, content, should) ==
  IF Rests(me) THEN content = should
  ELSE MigrationGoesOn(me, content, should) /\ ChangeGoesOn(me, content, should)

ReadsFirst(me, key) ==
  /\ me.pc = "local" => me.merged = Global
  /\ me.pc = "done" => me.answer = C!Get(C!Over(Global, files["poetry.toml"]), key)

LEMMA ConfigKinds ==
  /\ None \notin Keys /\ None \notin Values /\ Defaults \in C!Content
  /\ \A i \in DOMAIN Migrations :
       /\ Migrations[i].old \in Keys /\ Migrations[i].new \in Keys
       /\ \A v \in Values : Migrations[i].values[v] \in Values \cup {None}
  /\ DOMAIN Migrations = 1 .. Len(Migrations) /\ Len(Migrations) \in Nat
  /\ \A i, j \in DOMAIN Migrations :
       /\ Migrations[i].old # Migrations[j].new
       /\ i # j => Migrations[i].old # Migrations[j].old /\ Migrations[i].new # Migrations[j].new
  /\ ConfigCommands \subseteq C!Command
  /\ \A c \in ConfigCommands :
       /\ c.kind \in {"set", "unset", "get", "migrate"} /\ c.file \in C!Files
       /\ c.value \in Values \cup {None} /\ (c.kind # "migrate" => c.key \in Keys)
<1>. DEFINE R == [old : Keys, new : Keys, values : [Values -> Values \cup {None}]]
<1>1. Migrations \in Seq(R)
  BY OneOfConfiguration DEF C!ConfigurationAssumption
<1>. HIDE DEF R
<1>2. \A i \in DOMAIN Migrations : Migrations[i] \in R
  BY <1>1
<1>3. DOMAIN Migrations = 1 .. Len(Migrations) /\ Len(Migrations) \in Nat
  BY <1>1
<1>. USE DEF R
<1>. QED
  BY <1>2, <1>3, OneOfConfiguration DEF C!ConfigurationAssumption, C!Command

(* What is known of a shell that is at work.                               *)
LEMMA AtWorkKnown ==
  ASSUME ConfigInv, NEW p \in Shells
  PROVE  LET me == configuring[p] IN
         /\ me \in Configuring /\ StageIsRight(me)
         /\ IsGiven(me.initial) /\ IsGiven(me.work)
         /\ \A i \in DOMAIN me.todo : C!Given(me.todo[i].key, me.todo[i].value)
         /\ me.pc # "idle" => me.command \in ConfigCommands /\ me.command.file \in C!Files
<1>1. configuring[p] \in Configuring /\ StageIsRight(configuring[p])
  BY DEF ConfigInv, ConfigTypes
<1>2. configuring[p].pc # "idle" => configuring[p].command \in ConfigCommands
  BY <1>1 DEF StageIsRight
<1>3. ASSUME NEW c \in ConfigCommands PROVE c.file \in C!Files
  BY <1>3, ConfigKinds
<1>. QED
  BY <1>1, <1>2, <1>3 DEF ConfigInv, AllIsGiven

(* The invariant, from what a step of p makes of p and its file.           *)
LEMMA ConfigStep ==
  ASSUME ConfigInv, NEW p \in Shells, C!AtWork(p), NEW me, NEW content, NEW should,
         Makes(p, me, content, should), IsFine(me, content, should),
         me.pc = "idle" \/ me.command = configuring[p].command,
         configuring[p].command.kind = "get" =>
           /\ content = files[C!FileOf(p)] /\ should = meant[C!FileOf(p)]
           /\ commands = 1 => ReadsFirst(me, configuring[p].command.key),
         configuring[p].command.kind # "get" /\ C!FileOf(p) \notin torn' => KeepsOn(me, content, should)
  PROVE  ConfigInv'
<1>. DEFINE c == configuring[p].command
            f0 == C!FileOf(p)
<1>1. /\ configuring \in [Shells -> Configuring] /\ files \in [C!Files -> C!Content]
      /\ meant \in [C!Files -> C!Content] /\ torn \subseteq C!Files /\ commands \in Nat
      /\ environ \in C!Content
  BY DEF ConfigInv, ConfigTypes
<1>2. /\ configuring[p].pc \notin {"idle", "done", "failed"} /\ c \in ConfigCommands
      /\ f0 = c.file /\ f0 \in C!Files
  BY AtWorkKnown DEF C!AtWork, C!FileOf, C!CommandOf
<1>3. /\ configuring'[p] = me /\ files'[f0] = content /\ meant'[f0] = should
      /\ \A q \in Shells \ {p} : configuring'[q] = configuring[q]
      /\ \A f \in C!Files \ {f0} : files'[f] = files[f] /\ meant'[f] = meant[f]
      /\ torn \subseteq torn' /\ torn' \subseteq C!Files /\ commands' = commands
  BY <1>1, <1>2 DEF Makes
<1>4. ConfigTypes'
  <2>1. configuring' \in [Shells -> Configuring]
    BY <1>1 DEF Makes, IsFine
  <2>2. files' \in [C!Files -> C!Content] /\ meant' \in [C!Files -> C!Content]
    BY <1>1 DEF Makes, IsFine
  <2>3. \A q \in Shells : StageIsRight(configuring'[q])
    BY <1>3, AtWorkKnown DEF IsFine
  <2>. QED
    BY <1>1, <1>3, <2>1, <2>2, <2>3 DEF ConfigTypes, Makes, StageIsRight
<1>5. AllIsGiven'
  <2>1. \A f \in C!Files : IsGiven(files'[f])
    BY <1>3 DEF IsFine, ConfigInv, AllIsGiven
  <2>2. \A q \in Shells :
          /\ IsGiven(configuring'[q].initial) /\ IsGiven(configuring'[q].work)
          /\ \A i \in DOMAIN configuring'[q].todo :
               C!Given(configuring'[q].todo[i].key, configuring'[q].todo[i].value)
    BY <1>3, AtWorkKnown DEF IsFine
  <2>. QED
    BY <2>1, <2>2 DEF AllIsGiven, IsGiven
<1>6. FirstIsAlone'
  BY <1>2, <1>3 DEF ConfigInv, FirstIsAlone
<1>7. FirstReads'
  <2>1. \A q \in Shells : commands = 1 /\ configuring'[q].pc # "idle" => q = p
    BY <1>1, <1>2, <1>3 DEF ConfigInv, FirstIsAlone
  <2>2. ASSUME commands = 1, me.pc # "idle", me.command.kind = "get"
        PROVE  ReadsFirst(me, me.command.key)'
    <3>1. me.command = c /\ content = files[f0] /\ should = meant[f0] /\ ReadsFirst(me, c.key)
      BY <2>2
    <3>2. files' = files /\ environ' = environ
      BY <1>1, <1>2, <3>1 DEF Makes
    <3>. QED
      BY <3>1, <3>2 DEF ReadsFirst, Global, C!Get, C!Over
  <2>. QED
    BY <1>3, <2>1, <2>2 DEF FirstReads, ReadsFirst
<1>8. \A q \in Shells, f \in C!Files :
        /\ q # p => (WorksOn(q, f)' <=> WorksOn(q, f))
        /\ WorksOn(p, f)' <=> f = f0 /\ c.kind # "get" /\ ~ Rests(me)
        /\ WorksOn(p, f) <=> f = f0 /\ c.kind # "get"
  <2>1. \A q \in Shells, f \in C!Files : q # p => (WorksOn(q, f)' <=> WorksOn(q, f))
    BY <1>3 DEF WorksOn, C!AtWork, C!Changes, C!CommandOf, C!FileOf
  <2>2. \A f \in C!Files : WorksOn(p, f) <=> f = f0 /\ c.kind # "get"
    BY <1>2 DEF WorksOn, C!AtWork, C!Changes, C!CommandOf, C!FileOf
  <2>3. \A f \in C!Files : WorksOn(p, f)' <=> f = f0 /\ c.kind # "get" /\ ~ Rests(me)
    <3>1. \A f \in C!Files : WorksOn(p, f)' <=> ~ Rests(me) /\ me.command.kind # "get" /\ me.command.file = f
      BY <1>3 DEF WorksOn, C!AtWork, C!Changes, C!CommandOf, C!FileOf, Rests
    <3>. QED
      BY <1>2, <3>1 DEF Rests
  <2>. QED
    BY <2>1, <2>2, <2>3
<1>9. OneWorks'
  BY <1>3, <1>8 DEF ConfigInv, OneWorks
<1>10. CommandsGoOn'
  <2>. SUFFICES ASSUME NEW f \in C!Files \ torn'
                PROVE  /\ \A q \in Shells : WorksOn(q, f)' =>
                            /\ MigrationGoesOn(configuring'[q], files'[f], meant'[f])
                            /\ ChangeGoesOn(configuring'[q], files'[f], meant'[f])
                       /\ (\A q \in Shells : ~ WorksOn(q, f)') => files'[f] = meant'[f]
    BY DEF CommandsGoOn, MigrationGoesOn, ChangeGoesOn, Future, AfterTodo
  <2>1. f \in C!Files \ torn
    BY <1>3
  <2>2. CASE f = f0 /\ c.kind # "get"
    <3>1. \A q \in Shells \ {p} : ~ WorksOn(q, f)
      BY <1>8, <2>1, <2>2 DEF ConfigInv, OneWorks
    <3>2. KeepsOn(me, content, should)
      BY <2>2
    <3>. QED
      BY <1>3, <1>8, <2>2, <3>1, <3>2 DEF KeepsOn
  <2>3. CASE f # f0 \/ c.kind = "get"
    <3>1. files'[f] = files[f] /\ meant'[f] = meant[f]
      BY <1>3, <2>1, <2>3
    <3>2. ~ WorksOn(p, f) /\ ~ WorksOn(p, f)'
      BY <1>8, <2>1, <2>3
    <3>. QED
      BY <1>3, <1>8, <2>1, <3>1, <3>2 DEF ConfigInv, CommandsGoOn
  <2>. QED
    BY <2>2, <2>3
<1>. QED
  BY <1>4, <1>5, <1>6, <1>7, <1>9, <1>10 DEF ConfigInv

(* The first of the changes that are left may be made first.               *)
LEMMA AfterHead ==
  ASSUME NEW content, NEW rest \in Seq(Change), Len(rest) \in 1 .. 2
  PROVE  /\ rest[1] \in Change /\ Head(rest) = rest[1] /\ Tail(rest) \in Seq(Change)
         /\ Len(Tail(rest)) = Len(rest) - 1
         /\ \A i \in DOMAIN Tail(rest) : i + 1 \in DOMAIN rest /\ Tail(rest)[i] = rest[i + 1]
         /\ AfterTodo(C!Changed(content, rest[1]), Tail(rest)) = AfterTodo(content, rest)
         /\ Len(rest) = 1 => Tail(rest) = << >>
<1>. HIDE DEF Change
<1>1. /\ rest[1] \in Change /\ Head(rest) = rest[1] /\ Tail(rest) \in Seq(Change)
      /\ Len(Tail(rest)) = Len(rest) - 1
      /\ \A i \in DOMAIN Tail(rest) : i + 1 \in DOMAIN rest /\ Tail(rest)[i] = rest[i + 1]
  OBVIOUS
<1>2. ASSUME Len(rest) = 1
      PROVE  Tail(rest) = << >> /\ AfterTodo(C!Changed(content, rest[1]), Tail(rest)) = AfterTodo(content, rest)
  BY <1>1, <1>2 DEF AfterTodo
<1>3. ASSUME Len(rest) = 2
      PROVE  AfterTodo(C!Changed(content, rest[1]), Tail(rest)) = AfterTodo(content, rest)
  <2>1. Len(Tail(rest)) = 1 /\ 1 \in DOMAIN Tail(rest)
    BY <1>1, <1>3
  <2>2. Tail(rest)[1] = rest[2]
    BY <1>1, <2>1
  <2>3. AfterTodo(C!Changed(content, rest[1]), Tail(rest)) = C!Changed(C!Changed(content, rest[1]), Tail(rest)[1])
    BY <2>1 DEF AfterTodo
  <2>4. AfterTodo(content, rest) = C!Changed(C!Changed(content, rest[1]), rest[2])
    BY <1>3 DEF AfterTodo
  <2>. QED
    BY <2>2, <2>3, <2>4
<1>. QED
  BY <1>1, <1>2, <1>3

LEMMA ChangedContent ==
  ASSUME NEW content \in C!Content, NEW change, change.key \in Keys, change.value \in Values \cup {None}
  PROVE  /\ C!Changed(content, change) \in C!Content
         /\ IsGiven(content) /\ C!Given(change.key, change.value) => IsGiven(C!Changed(content, change))
<1>1. C!Changed(content, change) \in C!Content
  BY DEF C!Changed, C!Content
<1>2. \A k \in Keys : C!Changed(content, change)[k] = IF k = change.key THEN change.value ELSE content[k]
  BY DEF C!Changed, C!Content
<1>. QED
  BY <1>1, <1>2 DEF IsGiven

LEMMA MergedContent ==
  ASSUME NEW lower \in C!Content, NEW upper \in C!Content
  PROVE  C!Merge(lower, upper) \in C!Content /\ C!Merge(lower, upper) = C!Over(lower, upper)
BY DEF C!Merge, C!Over, C!Content

LEMMA NothingIsContent == C!Nothing \in C!Content /\ IsGiven(C!Nothing)
BY DEF C!Nothing, C!Content, IsGiven, C!Given

(* What is known of the shell and the file when p takes a step.            *)
LEMMA BeforeStep ==
  ASSUME ConfigInv, NEW p \in Shells, C!AtWork(p)
  PROVE  LET me == configuring[p]
             f == C!FileOf(p)
         IN /\ me \in Configuring /\ StageIsRight(me) /\ IsFine(me, files[f], meant[f])
            /\ me.command \in ConfigCommands /\ f = me.command.file /\ f \in C!Files
            /\ me.pc \notin {"idle", "done", "failed"}
            /\ configuring \in [Shells -> Configuring] /\ files \in [C!Files -> C!Content]
            /\ meant \in [C!Files -> C!Content]
            /\ me.command.kind # "get" /\ f \notin torn =>
                 MigrationGoesOn(me, files[f], meant[f]) /\ ChangeGoesOn(me, files[f], meant[f])
            /\ commands = 1 /\ me.command.kind = "get" => ReadsFirst(me, me.command.key)
<1>. DEFINE me == configuring[p]
            f == C!FileOf(p)
<1>1. /\ me.pc \notin {"idle", "done", "failed"} /\ me.command \in ConfigCommands
      /\ f = me.command.file /\ f \in C!Files /\ me \in Configuring /\ StageIsRight(me)
  BY AtWorkKnown DEF C!AtWork, C!FileOf, C!CommandOf
<1>2. /\ configuring \in [Shells -> Configuring] /\ files \in [C!Files -> C!Content]
      /\ meant \in [C!Files -> C!Content]
  BY DEF ConfigInv, ConfigTypes
<1>3. IsFine(me, files[f], meant[f])
  BY <1>1, <1>2, AtWorkKnown DEF IsFine, ConfigInv, AllIsGiven
<1>4. me.command.kind # "get" /\ f \notin torn =>
        MigrationGoesOn(me, files[f], meant[f]) /\ ChangeGoesOn(me, files[f], meant[f])
  BY <1>1 DEF ConfigInv, CommandsGoOn, WorksOn, C!Changes, C!CommandOf, C!FileOf
<1>5. commands = 1 /\ me.command.kind = "get" => ReadsFirst(me, me.command.key)
  BY <1>1 DEF ConfigInv, FirstReads, ReadsFirst
<1>. QED
  BY <1>1, <1>2, <1>3, <1>4, <1>5

LEMMA LoadGlobalStep ==
  ASSUME ConfigInv, NEW p \in Shells, C!LoadGlobal(p)
  PROVE  ConfigInv'
<1>0. C!AtWork(p) /\ configuring[p].pc = "global"
  BY DEF C!LoadGlobal, C!AtWork
<1>. PICK me, f : me = configuring[p] /\ f = C!FileOf(p)
  OBVIOUS
<1>. PICK new, content, should :
       /\ new = [me EXCEPT !.pc = "local", !.merged = C!Merge(Defaults, files["config.toml"])]
       /\ content = files[f] /\ should = meant[f]
  OBVIOUS
<1>1. /\ me \in Configuring /\ StageIsRight(me) /\ IsFine(me, content, should) /\ me.pc = "global"
      /\ me.command \in ConfigCommands /\ f \in C!Files
      /\ configuring \in [Shells -> Configuring] /\ files \in [C!Files -> C!Content]
      /\ meant \in [C!Files -> C!Content]
      /\ me.command.kind # "get" /\ f \notin torn => ChangeGoesOn(me, content, should)
  BY <1>0, BeforeStep
<1>2. C!Merge(Defaults, files["config.toml"]) \in C!Content /\ C!Merge(Defaults, files["config.toml"]) = Global
  BY <1>1, ConfigKinds, MergedContent DEF C!Files, Global
<1>3. /\ new.pc = "local" /\ new.merged = Global /\ new.command = me.command /\ new.initial = me.initial
      /\ new.work = me.work /\ new.todo = me.todo /\ new \in Configuring
  BY <1>1, <1>2 DEF Configuring, Stages
<1>4. Makes(p, new, content, should)
  BY <1>1 DEF C!LoadGlobal, C!Quiet, C!NoFault, Makes
<1>5. IsFine(new, content, should)
  BY <1>1, <1>3 DEF IsFine, StageIsRight
<1>6. ReadsFirst(new, me.command.key)
  BY <1>3 DEF ReadsFirst
<1>7. me.command.kind # "get" /\ f \notin torn => KeepsOn(new, content, should)
  BY <1>1, <1>3 DEF KeepsOn, Rests, ChangeGoesOn, MigrationGoesOn, StageIsRight
<1>. QED
  BY <1>0, <1>3, <1>4, <1>5, <1>6, <1>7, ConfigStep DEF C!LoadGlobal, C!NoFault

LEMMA ReadInitialStep ==
  ASSUME ConfigInv, NEW p \in Shells, C!ReadInitial(p)
  PROVE  ConfigInv'
<1>0. C!AtWork(p) /\ configuring[p].pc = "read"
  BY DEF C!ReadInitial, C!AtWork, C!Goes
<1>. PICK me, f : me = configuring[p] /\ f = C!FileOf(p)
  OBVIOUS
<1>. PICK new, content, should :
       /\ new = [me EXCEPT !.pc = "again", !.initial = files[f]]
       /\ content = files[f] /\ should = meant[f]
  OBVIOUS
<1>1. /\ me \in Configuring /\ StageIsRight(me) /\ IsFine(me, files[f], meant[f]) /\ me.pc = "read"
      /\ me.command \in ConfigCommands /\ f \in C!Files
      /\ configuring \in [Shells -> Configuring] /\ files \in [C!Files -> C!Content]
      /\ meant \in [C!Files -> C!Content]
      /\ me.command.kind # "get" /\ f \notin torn =>
           MigrationGoesOn(me, files[f], meant[f]) /\ ChangeGoesOn(me, files[f], meant[f])
  BY <1>0, BeforeStep
<1>2. me.command.kind \in {"set", "unset", "migrate"}
  BY <1>1, ConfigKinds DEF StageIsRight
<1>3. /\ new.pc = "again" /\ new.initial = content /\ new.command = me.command
      /\ new.work = me.work /\ new.todo = me.todo /\ new.pending = me.pending /\ new \in Configuring
  BY <1>1 DEF Configuring, Stages
<1>4. Makes(p, new, content, should)
  BY <1>1 DEF C!ReadInitial, C!Quiet, C!NoFault, Makes
<1>5. IsFine(new, content, should)
  BY <1>1, <1>3 DEF IsFine, StageIsRight
<1>6. f \notin torn => KeepsOn(new, content, should)
  BY <1>1, <1>2, <1>3 DEF KeepsOn, Rests, ChangeGoesOn, MigrationGoesOn, Future
<1>. QED
  BY <1>0, <1>2, <1>3, <1>4, <1>5, <1>6, ConfigStep DEF C!ReadInitial, C!NoFault

LEMMA ReadAgainStep ==
  ASSUME ConfigInv, NEW p \in Shells, C!ReadAgain(p)
  PROVE  ConfigInv'
<1>0. C!AtWork(p) /\ configuring[p].pc = "again"
  BY DEF C!ReadAgain, C!AtWork, C!Goes
<1>. PICK me, f : me = configuring[p] /\ f = C!FileOf(p)
  OBVIOUS
<1>. PICK new, content, should, work :
       /\ work = C!Changed(files[f], Head(me.todo))
       /\ new = [me EXCEPT !.pc = "empty", !.work = work]
       /\ content = files[f] /\ should = meant[f]
  OBVIOUS
<1>1. /\ me \in Configuring /\ StageIsRight(me) /\ IsFine(me, files[f], meant[f]) /\ me.pc = "again"
      /\ me.command \in ConfigCommands /\ f \in C!Files
      /\ configuring \in [Shells -> Configuring] /\ files \in [C!Files -> C!Content]
      /\ meant \in [C!Files -> C!Content]
      /\ me.command.kind # "get" /\ f \notin torn =>
           MigrationGoesOn(me, files[f], meant[f]) /\ ChangeGoesOn(me, files[f], meant[f])
  BY <1>0, BeforeStep
<1>2. me.command.kind \in {"set", "unset", "migrate"}
  BY <1>1, ConfigKinds DEF StageIsRight
<1>3. /\ me.todo \in Seq(Change) /\ Len(me.todo) \in 1 .. 2 /\ 1 \in DOMAIN me.todo
      /\ me.command.kind # "migrate" => me.todo[1].key = me.command.key /\ me.todo[1].value = me.command.value
  BY <1>1 DEF Configuring, StageIsRight
<1>4. Head(me.todo) = me.todo[1] /\ me.todo[1] \in Change
  BY <1>3, AfterHead
<1>5. /\ work \in C!Content /\ IsGiven(work) /\ AfterTodo(work, Tail(me.todo)) = AfterTodo(content, me.todo)
  <2>1. content \in C!Content /\ IsGiven(content) /\ C!Given(me.todo[1].key, me.todo[1].value)
    BY <1>1, <1>3 DEF IsFine
  <2>2. work = C!Changed(content, me.todo[1])
    BY <1>4
  <2>3. me.todo[1].key \in Keys /\ me.todo[1].value \in Values \cup {None}
    BY <1>4 DEF Change
  <2>4. work \in C!Content /\ IsGiven(work)
    BY <2>1, <2>2, <2>3, ChangedContent
  <2>. QED
    BY <1>3, <2>2, <2>4, AfterHead
<1>6. /\ new.pc = "empty" /\ new.initial = me.initial /\ new.command = me.command
      /\ new.work = work /\ new.todo = me.todo /\ new.pending = me.pending /\ new \in Configuring
  BY <1>1, <1>5 DEF Configuring, Stages
<1>7. Makes(p, new, content, should)
  BY <1>1 DEF C!ReadAgain, C!Quiet, C!NoFault, Makes
<1>8. IsFine(new, content, should)
  BY <1>1, <1>5, <1>6 DEF IsFine, StageIsRight
<1>9. f \notin torn => MigrationGoesOn(new, content, should)
  BY <1>1, <1>2, <1>5, <1>6 DEF MigrationGoesOn, Future
<1>10. f \notin torn => ChangeGoesOn(new, content, should)
  <2>1. me.command.kind # "migrate" => work = C!Changed(content, me.command)
    BY <1>3, <1>4 DEF C!Changed
  <2>. QED
    BY <1>1, <1>2, <1>6, <2>1 DEF ChangeGoesOn
<1>. QED
  BY <1>0, <1>2, <1>6, <1>7, <1>8, <1>9, <1>10, ConfigStep DEF C!ReadAgain, C!NoFault, KeepsOn, Rests

LEMMA EmptyStep ==
  ASSUME ConfigInv, NEW p \in Shells, C!Empty(p)
  PROVE  ConfigInv'
<1>0. C!AtWork(p) /\ configuring[p].pc = "empty"
  BY DEF C!Empty, C!AtWork, C!Goes
<1>. PICK me, f : me = configuring[p] /\ f = C!FileOf(p)
  OBVIOUS
<1>. PICK new, content, should :
       /\ new = [me EXCEPT !.pc = "write"]
       /\ content = C!Nothing /\ should = meant[f]
  OBVIOUS
<1>1. /\ me \in Configuring /\ StageIsRight(me) /\ IsFine(me, files[f], meant[f]) /\ me.pc = "empty"
      /\ me.command \in ConfigCommands /\ f \in C!Files
      /\ configuring \in [Shells -> Configuring] /\ files \in [C!Files -> C!Content]
      /\ meant \in [C!Files -> C!Content]
      /\ me.command.kind # "get" /\ f \notin torn =>
           MigrationGoesOn(me, files[f], meant[f]) /\ ChangeGoesOn(me, files[f], meant[f])
  BY <1>0, BeforeStep
<1>2. me.command.kind \in {"set", "unset", "migrate"}
  BY <1>1, ConfigKinds DEF StageIsRight
<1>3. /\ new.pc = "write" /\ new.initial = me.initial /\ new.command = me.command
      /\ new.work = me.work /\ new.todo = me.todo /\ new.pending = me.pending /\ new \in Configuring
  BY <1>1 DEF Configuring, Stages
<1>4. Makes(p, new, content, should)
  BY <1>1 DEF C!Empty, C!Goes, C!Quiet, C!NoFault, Makes
<1>5. IsFine(new, content, should)
  BY <1>1, <1>3, NothingIsContent DEF IsFine, StageIsRight
<1>6. f \notin torn => KeepsOn(new, content, should)
  BY <1>1, <1>2, <1>3 DEF KeepsOn, Rests, ChangeGoesOn, MigrationGoesOn, Future
<1>. QED
  BY <1>0, <1>2, <1>3, <1>4, <1>5, <1>6, ConfigStep DEF C!Empty, C!NoFault

LEMMA WriteFailsStep ==
  ASSUME ConfigInv, NEW p \in Shells, C!WriteFails(p)
  PROVE  ConfigInv'
<1>0. C!AtWork(p) /\ configuring[p].pc = "write"
  BY DEF C!WriteFails, C!AtWork, C!Goes
<1>. PICK me, f : me = configuring[p] /\ f = C!FileOf(p)
  OBVIOUS
<1>. PICK new, content, should :
       /\ new = [me EXCEPT !.pc = "restore"]
       /\ content = files[f] /\ should = meant[f]
  OBVIOUS
<1>1. /\ me \in Configuring /\ StageIsRight(me) /\ IsFine(me, files[f], meant[f]) /\ me.pc = "write"
      /\ me.command \in ConfigCommands /\ f \in C!Files
      /\ configuring \in [Shells -> Configuring] /\ files \in [C!Files -> C!Content]
      /\ meant \in [C!Files -> C!Content]
      /\ me.command.kind # "get" /\ f \notin torn =>
           MigrationGoesOn(me, files[f], meant[f]) /\ ChangeGoesOn(me, files[f], meant[f])
  BY <1>0, BeforeStep
<1>2. me.command.kind \in {"set", "unset", "migrate"}
  BY <1>1, ConfigKinds DEF StageIsRight
<1>3. /\ new.pc = "restore" /\ new.initial = me.initial /\ new.command = me.command
      /\ new.work = me.work /\ new.todo = me.todo /\ new.pending = me.pending /\ new \in Configuring
  BY <1>1 DEF Configuring, Stages
<1>4. Makes(p, new, content, should)
  BY <1>1 DEF C!WriteFails, C!Goes, C!Quiet, C!CommandOf, Makes
<1>5. IsFine(new, content, should)
  BY <1>1, <1>3 DEF IsFine, StageIsRight
<1>6. f \notin torn' => KeepsOn(new, content, should)
  <2>1. f \notin torn' => f \notin torn /\ me.command.kind # "migrate"
    BY DEF C!WriteFails, C!CommandOf
  <2>. QED
    BY <1>1, <1>2, <1>3, <2>1 DEF KeepsOn, Rests, ChangeGoesOn, MigrationGoesOn
<1>. QED
  BY <1>0, <1>2, <1>3, <1>4, <1>5, <1>6, ConfigStep

LEMMA RestoreStep ==
  ASSUME ConfigInv, NEW p \in Shells, C!Restore(p)
  PROVE  ConfigInv'
<1>0. C!AtWork(p) /\ configuring[p].pc = "restore"
  BY DEF C!Restore, C!AtWork, C!Goes
<1>. PICK me, f : me = configuring[p] /\ f = C!FileOf(p)
  OBVIOUS
<1>. PICK new, content, should :
       /\ new = [me EXCEPT !.pc = "failed"]
       /\ content = me.initial /\ should = meant[f]
  OBVIOUS
<1>1. /\ me \in Configuring /\ StageIsRight(me) /\ IsFine(me, files[f], meant[f]) /\ me.pc = "restore"
      /\ me.command \in ConfigCommands /\ f \in C!Files
      /\ configuring \in [Shells -> Configuring] /\ files \in [C!Files -> C!Content]
      /\ meant \in [C!Files -> C!Content]
      /\ me.command.kind # "get" /\ f \notin torn =>
           MigrationGoesOn(me, files[f], meant[f]) /\ ChangeGoesOn(me, files[f], meant[f])
  BY <1>0, BeforeStep
<1>2. me.command.kind \in {"set", "unset", "migrate"}
  BY <1>1, ConfigKinds DEF StageIsRight
<1>3. /\ new.pc = "failed" /\ new.initial = me.initial /\ new.command = me.command
      /\ new.work = me.work /\ new.todo = me.todo /\ new \in Configuring
  BY <1>1 DEF Configuring, Stages
<1>4. Makes(p, new, content, should)
  BY <1>1 DEF C!Restore, C!Restored, C!Goes, C!Quiet, C!NoFault, Makes
<1>5. IsFine(new, content, should)
  BY <1>1, <1>3 DEF IsFine, StageIsRight, Configuring
<1>6. f \notin torn => KeepsOn(new, content, should)
  BY <1>1, <1>2, <1>3 DEF KeepsOn, Rests, ChangeGoesOn, MigrationGoesOn
<1>. QED
  BY <1>0, <1>2, <1>3, <1>4, <1>5, <1>6, ConfigStep DEF C!Restore, C!NoFault

LEMMA CheckStep ==
  ASSUME ConfigInv, NEW p \in Shells, C!Check(p)
  PROVE  ConfigInv'
<1>0. C!AtWork(p) /\ configuring[p].pc = "check"
  BY DEF C!Check, C!AtWork, C!Goes
<1>. PICK me, f : me = configuring[p] /\ f = C!FileOf(p)
  OBVIOUS
<1>. PICK new, content, should :
       /\ new = [me EXCEPT !.pc = "migrate", !.pending = C!Required(files[f])]
       /\ content = files[f] /\ should = meant[f]
  OBVIOUS
<1>1. /\ me \in Configuring /\ StageIsRight(me) /\ IsFine(me, files[f], meant[f]) /\ me.pc = "check"
      /\ me.command \in ConfigCommands /\ f \in C!Files
      /\ configuring \in [Shells -> Configuring] /\ files \in [C!Files -> C!Content]
      /\ meant \in [C!Files -> C!Content]
      /\ me.command.kind # "get" /\ f \notin torn =>
           MigrationGoesOn(me, files[f], meant[f]) /\ ChangeGoesOn(me, files[f], meant[f])
  BY <1>0, BeforeStep
<1>2. me.command.kind = "migrate"
  BY <1>1, ConfigKinds DEF StageIsRight
<1>3. /\ new.pc = "migrate" /\ new.initial = me.initial /\ new.command = me.command
      /\ new.work = me.work /\ new.todo = me.todo /\ new.pending = C!Required(content) /\ new \in Configuring
  BY <1>1 DEF Configuring, Stages, C!Required
<1>4. Makes(p, new, content, should)
  BY <1>1 DEF C!Check, C!Quiet, C!NoFault, Makes
<1>5. IsFine(new, content, should)
  BY <1>1, <1>2, <1>3 DEF IsFine, StageIsRight
<1>6. f \notin torn => KeepsOn(new, content, should)
  BY <1>1, <1>2, <1>3 DEF KeepsOn, Rests, ChangeGoesOn, MigrationGoesOn, Future
<1>. QED
  BY <1>0, <1>2, <1>3, <1>4, <1>5, <1>6, ConfigStep DEF C!Check, C!NoFault

IdleRecord(me) ==
  /\ me \in Configuring /\ me.pc = "idle" /\ me.todo = << >>
  /\ IsGiven(me.initial) /\ IsGiven(me.work)
LEMMA IdleIsRecord == IdleRecord(C!Idle)
<1>1. << >> \in Seq(Change)
  OBVIOUS
<1>. HIDE DEF Change
<1>. QED
  BY <1>1, NothingIsContent DEF C!Idle, IdleRecord, Configuring, Stages

LEMMA LoadLocalStep ==
  ASSUME ConfigInv, NEW p \in Shells, C!LoadLocal(p)
  PROVE  ConfigInv'
<1>0. C!AtWork(p) /\ configuring[p].pc = "local"
  BY DEF C!LoadLocal, C!AtWork, C!Goes
<1>. PICK me, f : me = configuring[p] /\ f = C!FileOf(p)
  OBVIOUS
<1>. PICK merged : merged = C!Merge(me.merged, files["poetry.toml"])
  OBVIOUS
<1>. PICK pc : pc = C!AfterLocal(me.command, merged)
  OBVIOUS
<1>. PICK answer, list :
       answer = C!AnswerTo(me.command, merged) /\ list = C!ChangesOf(me.command)
  OBVIOUS
<1>. PICK new, content, should :
       /\ new = [me EXCEPT !.merged = merged, !.answer = answer, !.todo = list, !.pc = pc]
       /\ content = files[f] /\ should = meant[f]
  OBVIOUS
<1>1. /\ me \in Configuring /\ StageIsRight(me) /\ IsFine(me, files[f], meant[f]) /\ me.pc = "local"
      /\ me.command \in ConfigCommands /\ f \in C!Files
      /\ configuring \in [Shells -> Configuring] /\ files \in [C!Files -> C!Content]
      /\ meant \in [C!Files -> C!Content]
      /\ me.command.kind # "get" /\ f \notin torn =>
           MigrationGoesOn(me, files[f], meant[f]) /\ ChangeGoesOn(me, files[f], meant[f])
      /\ commands = 1 /\ me.command.kind = "get" => ReadsFirst(me, me.command.key)
  BY <1>0, BeforeStep
<1>2. /\ me.command.kind \in {"get", "set", "unset"} /\ me.command.key \in Keys
      /\ me.command.value \in Values \cup {None}
  BY <1>1, ConfigKinds DEF StageIsRight
<1>3. merged \in C!Content /\ merged = C!Over(me.merged, files["poetry.toml"])
  BY <1>1, MergedContent DEF Configuring, C!Files
<1>4. answer \in Values \cup {None}
  BY <1>2, <1>3 DEF ConfigInv, ConfigTypes, C!AnswerTo, C!Get, C!Content
<1>5. pc \in {"done", "failed", "read"} /\ (me.command.kind = "get" <=> pc = "done")
  <2>1. CASE me.command.kind = "get"
    BY <2>1 DEF C!AfterLocal
  <2>2. CASE me.command.kind # "get"
    <3>. PICK gone \in BOOLEAN :
           gone <=> me.command.kind = "unset" /\ me.command.key \in Repositories
                    /\ C!Get(merged, me.command.key) = None
      OBVIOUS
    <3>1. pc = IF gone THEN "failed" ELSE "read"
      BY <2>2 DEF C!AfterLocal
    <3>. QED
      BY <2>2, <3>1
  <2>. QED
    BY <2>1, <2>2
<1>6. /\ list \in Seq(Change) /\ (me.command.kind = "get" => list = << >>)
      /\ me.command.kind # "get" =>
           Len(list) = 1 /\ list[1].key = me.command.key /\ list[1].value = me.command.value
  <2>1. [key |-> me.command.key, value |-> me.command.value] \in Change
    BY <1>2 DEF Change
  <2>. HIDE DEF Change
  <2>. QED
    BY <2>1 DEF C!ChangesOf
<1>7. /\ new.pc = pc /\ new.initial = me.initial /\ new.command = me.command /\ new.answer = answer
      /\ new.work = me.work /\ new.todo = list /\ new.pending = me.pending /\ new \in Configuring
  BY <1>1, <1>3, <1>4, <1>5, <1>6 DEF Configuring, Stages
<1>8. Makes(p, new, content, should)
  BY <1>1 DEF C!LoadLocal, C!Quiet, C!NoFault, C!CommandOf, Makes
<1>9. IsFine(new, content, should)
  <2>1. StageIsRight(new)
    BY <1>1, <1>2, <1>5, <1>6, <1>7 DEF StageIsRight
  <2>2. \A i \in DOMAIN list : C!Given(list[i].key, list[i].value)
    <3>1. me.command.kind # "get" => \A i \in DOMAIN list : i = 1
      BY <1>6
    <3>2. C!Given(me.command.key, me.command.value)
      BY <1>1 DEF C!Given
    <3>. QED
      BY <1>6, <3>1, <3>2
  <2>. QED
    BY <1>1, <1>7, <2>1, <2>2 DEF IsFine
<1>10. me.command.kind # "get" /\ f \notin torn => KeepsOn(new, content, should)
  BY <1>1, <1>2, <1>5, <1>7 DEF KeepsOn, Rests, ChangeGoesOn, MigrationGoesOn
<1>11. commands = 1 /\ me.command.kind = "get" => ReadsFirst(new, me.command.key)
  BY <1>1, <1>3, <1>5, <1>7 DEF ReadsFirst, C!AnswerTo
<1>. QED
  BY <1>0, <1>7, <1>8, <1>9, <1>10, <1>11, ConfigStep DEF C!LoadLocal, C!NoFault

LEMMA WriteStep ==
  ASSUME ConfigInv, NEW p \in Shells, C!Write(p)
  PROVE  ConfigInv'
<1>0. C!AtWork(p) /\ configuring[p].pc = "write"
  BY DEF C!Write, C!AtWork, C!Goes
<1>. PICK me, f : me = configuring[p] /\ f = C!FileOf(p)
  OBVIOUS
<1>. PICK new, content, should, final :
       /\ final = (Len(me.todo) = 1 /\ me.command.kind # "migrate")
       /\ new = [me EXCEPT !.pc = IF final THEN "done" ELSE IF Len(me.todo) = 1 THEN "migrate" ELSE "read",
                           !.todo = Tail(me.todo)]
       /\ content = me.work
       /\ should = IF final THEN C!Meant(me.command, meant[f]) ELSE meant[f]
  OBVIOUS
<1>1. /\ me \in Configuring /\ StageIsRight(me) /\ IsFine(me, files[f], meant[f]) /\ me.pc = "write"
      /\ me.command \in ConfigCommands /\ f \in C!Files
      /\ configuring \in [Shells -> Configuring] /\ files \in [C!Files -> C!Content]
      /\ meant \in [C!Files -> C!Content]
      /\ me.command.kind # "get" /\ f \notin torn =>
           MigrationGoesOn(me, files[f], meant[f]) /\ ChangeGoesOn(me, files[f], meant[f])
      /\ commands = 1 /\ me.command.kind = "get" => ReadsFirst(me, me.command.key)
  BY <1>0, BeforeStep
<1>2. me.command.kind \in {"set", "unset", "migrate"}
  BY <1>1, ConfigKinds DEF StageIsRight
<1>3. /\ me.todo \in Seq(Change) /\ Len(me.todo) \in 1 .. 2 /\ (me.command.kind # "migrate" => final)
      /\ me.command.kind = "migrate" => ~ final
  BY <1>1 DEF Configuring, StageIsRight
<1>4. /\ Tail(me.todo) \in Seq(Change) /\ Len(Tail(me.todo)) = Len(me.todo) - 1
      /\ \A i \in DOMAIN Tail(me.todo) : i + 1 \in DOMAIN me.todo /\ Tail(me.todo)[i] = me.todo[i + 1]
  BY <1>3, AfterHead
<1>5. /\ new.pc = IF final THEN "done" ELSE IF Len(me.todo) = 1 THEN "migrate" ELSE "read"
      /\ new.initial = me.initial /\ new.command = me.command
      /\ new.work = me.work /\ new.todo = Tail(me.todo) /\ new.pending = me.pending /\ new \in Configuring
  BY <1>1, <1>4 DEF Configuring, Stages
<1>6. should \in C!Content
  BY <1>1, <1>2, <1>3, ConfigKinds, ChangedContent DEF C!Meant
<1>7. Makes(p, new, content, should)
  BY <1>1 DEF C!Write, C!IsLast, C!CommandOf, C!Quiet, C!NoFault, Makes
<1>8. IsFine(new, content, should)
  <2>1. StageIsRight(new)
    BY <1>1, <1>2, <1>3, <1>4, <1>5 DEF StageIsRight
  <2>2. content \in C!Content
    BY <1>1 DEF Configuring
  <2>3. \A i \in DOMAIN new.todo : C!Given(new.todo[i].key, new.todo[i].value)
    BY <1>1, <1>4, <1>5 DEF IsFine
  <2>. QED
    BY <1>1, <1>5, <1>6, <2>1, <2>2, <2>3 DEF IsFine
<1>9. f \notin torn => KeepsOn(new, content, should)
  <2>1. CASE final
    BY <1>1, <1>2, <1>3, <1>5, <2>1 DEF KeepsOn, Rests, ChangeGoesOn, C!Meant
  <2>2. CASE ~ final
    <3>1. me.command.kind = "migrate" /\ should = meant[f]
      BY <1>2, <1>3, <2>2
    <3>2. Future(new, content) = AfterTodo(me.work, Tail(me.todo)) /\ Future(me, files[f]) = AfterTodo(me.work, Tail(me.todo))
      <4>1. Future(me, files[f]) = AfterTodo(me.work, Tail(me.todo))
        BY <1>1 DEF Future
      <4>2. CASE Len(me.todo) = 1
        <5>1. new.pc = "migrate" /\ Len(Tail(me.todo)) = 0
          BY <1>4, <1>5, <2>2, <4>2
        <5>2. Future(new, content) = content
          BY <5>1 DEF Future
        <5>. QED
          BY <4>1, <5>1, <5>2 DEF AfterTodo
      <4>3. CASE Len(me.todo) # 1
        <5>1. new.pc = "read"
          BY <1>5, <2>2, <4>3
        <5>. QED
          BY <1>5, <4>1, <5>1 DEF Future
      <4>. QED
        BY <4>2, <4>3
    <3>. QED
      BY <1>1, <1>5, <2>2, <3>1, <3>2 DEF KeepsOn, Rests, ChangeGoesOn, MigrationGoesOn
  <2>. QED
    BY <2>1, <2>2
<1>. QED
  BY <1>0, <1>2, <1>5, <1>7, <1>8, <1>9, ConfigStep DEF C!Write, C!NoFault

LEMMA CrashStep ==
  ASSUME ConfigInv, NEW p \in Shells, C!Crash(p)
  PROVE  ConfigInv'
<1>0. C!AtWork(p)
  BY DEF C!Crash
<1>. PICK me, f : me = configuring[p] /\ f = C!FileOf(p)
  OBVIOUS
<1>. PICK content, should : content = files[f] /\ should = meant[f]
  OBVIOUS
<1>1. /\ me \in Configuring /\ StageIsRight(me) /\ IsFine(me, content, should)
      /\ me.pc \notin {"idle", "done", "failed"}
      /\ me.command \in ConfigCommands /\ f \in C!Files
      /\ configuring \in [Shells -> Configuring] /\ files \in [C!Files -> C!Content]
      /\ meant \in [C!Files -> C!Content]
      /\ me.command.kind # "get" /\ f \notin torn => ChangeGoesOn(me, content, should)
  BY <1>0, BeforeStep
<1>2. IdleRecord(C!Idle)
  BY IdleIsRecord
<1>3. Makes(p, C!Idle, content, should)
  BY <1>1 DEF C!Crash, C!Quiet, C!CommandOf, Makes
<1>4. IsFine(C!Idle, content, should)
  BY <1>1, <1>2 DEF IsFine, StageIsRight, IdleRecord
<1>5. me.command.kind # "get" /\ f \notin torn' => KeepsOn(C!Idle, content, should)
  <2>1. f \notin torn' => f \notin torn /\ me.command.kind # "migrate" /\ me.pc \notin {"write", "restore"}
    BY DEF C!Crash, C!CommandOf
  <2>2. me.command.kind \in {"get", "set", "unset", "migrate"}
    BY <1>1, ConfigKinds
  <2>. QED
    BY <1>1, <1>2, <2>1, <2>2 DEF KeepsOn, Rests, ChangeGoesOn, StageIsRight, Configuring, Stages, IdleRecord
<1>6. ReadsFirst(C!Idle, me.command.key)
  BY <1>2 DEF ReadsFirst, IdleRecord
<1>. QED
  BY <1>0, <1>2, <1>3, <1>4, <1>5, <1>6, ConfigStep DEF IdleRecord

(* A set of numbers that is not empty has a least element, so that there is *)
(* a migration to go on with.                                              *)
LEMMA LeastIsThere ==
  ASSUME NEW T \in SUBSET Nat, T # {}
  PROVE  \E x \in T : \A y \in T : x <= y
<1>. DEFINE R == OpToRel(<, Nat)
<1>1. IsWellFoundedOn(R, Nat)
  BY NatLessThanWellFounded
<1>2. \A x, y \in Nat : <<y, x>> \in R <=> y < x
  BY DEF OpToRel
<1>. HIDE DEF R
<1>3. PICK x \in T : \A y \in T : ~ (<<y, x>> \in R)
  BY <1>1, WFMin
<1>4. ASSUME NEW y \in T PROVE x <= y
  <2>1. x \in Nat /\ y \in Nat /\ ~ (y < x)
    BY <1>2, <1>3
  <2>. QED
    BY <2>1
<1>. QED
  BY <1>4

LEMMA NextIsPending ==
  ASSUME NEW T \in SUBSET Nat, T # {}
  PROVE  C!NextOf(T) \in T
BY LeastIsThere DEF C!NextOf

(* Where no old key is set, there is nothing to migrate.                   *)
LEMMA NothingToMigrate ==
  ASSUME NEW content \in C!Content, C!Required(content) = {}
  PROVE  C!Migrated(content) = content
<1>1. \A i \in DOMAIN Migrations : content[Migrations[i].old] = None /\ C!Moved(i, content) = None
  BY DEF C!Required, C!Moved
<1>2. \A k \in Keys : C!Migrated(content)[k] = content[k]
  BY <1>1 DEF C!Migrated
<1>. QED
  BY <1>2 DEF C!Migrated, C!Content

(* What a migration makes of a content.                                    *)
AppliedTo(i, content) ==
  AfterTodo(content, C!Apply(Migrations[i], content[Migrations[i].old]))

LEMMA ApplyIsTodo ==
  ASSUME NEW i \in DOMAIN Migrations, NEW old \in Values
  PROVE  /\ C!Apply(Migrations[i], old) \in Seq(Change) /\ C!Apply(Migrations[i], old) # << >>
         /\ Len(C!Apply(Migrations[i], old)) \in 1 .. 2
         /\ C!Apply(Migrations[i], old)[1] = C!Removal(Migrations[i])
         /\ Len(C!Apply(Migrations[i], old)) = 2 <=> Migrations[i].values[old] # None
         /\ Len(C!Apply(Migrations[i], old)) = 2 =>
              C!Apply(Migrations[i], old)[2] = C!Addition(Migrations[i], old)
         /\ \A n \in DOMAIN C!Apply(Migrations[i], old) :
              C!Given(C!Apply(Migrations[i], old)[n].key, C!Apply(Migrations[i], old)[n].value)
<1>. PICK m, removal, addition :
       /\ m = Migrations[i] /\ removal = C!Removal(m) /\ addition = C!Addition(m, old)
  OBVIOUS
<1>1. removal \in Change /\ C!Given(removal.key, removal.value)
  BY ConfigKinds DEF C!Removal, C!Given, Change
<1>2. addition \in Change /\ C!Given(addition.key, addition.value)
  BY ConfigKinds DEF C!Addition, C!Given, Change
<1>. HIDE DEF Change
<1>3. CASE m.values[old] = None
  <2>1. C!Apply(m, old) = <<removal>>
    BY <1>3 DEF C!Apply
  <2>2. \A n \in DOMAIN <<removal>> : n = 1
    OBVIOUS
  <2>. QED
    BY <1>1, <1>3, <2>1, <2>2
<1>4. CASE m.values[old] # None
  <2>1. C!Apply(m, old) = <<removal, addition>>
    BY <1>4 DEF C!Apply
  <2>2. \A n \in DOMAIN <<removal, addition>> : n = 1 \/ n = 2
    OBVIOUS
  <2>. QED
    BY <1>1, <1>2, <1>4, <2>1, <2>2
<1>. QED
  BY <1>3, <1>4

LEMMA AppliedContent ==
  ASSUME NEW i \in DOMAIN Migrations, NEW content \in C!Content, content[Migrations[i].old] # None
  PROVE  /\ AppliedTo(i, content) \in C!Content
         /\ \A k \in Keys : AppliedTo(i, content)[k] =
              IF k = Migrations[i].old THEN None
              ELSE IF k = Migrations[i].new /\ C!Moved(i, content) # None THEN C!Moved(i, content)
              ELSE content[k]
<1>. PICK m, old, list : m = Migrations[i] /\ old = content[m.old] /\ list = C!Apply(m, old)
  OBVIOUS
<1>1. /\ old \in Values /\ m.old \in Keys /\ m.new \in Keys /\ m.old # m.new
      /\ m.values[old] \in Values \cup {None} /\ C!Moved(i, content) = m.values[old]
  BY ConfigKinds DEF C!Content, C!Moved
<1>2. /\ Len(list) \in 1 .. 2 /\ list[1] = C!Removal(m)
      /\ Len(list) = 2 <=> m.values[old] # None
      /\ Len(list) = 2 => list[2] = C!Addition(m, old)
  BY <1>1, ApplyIsTodo
<1>3. AppliedTo(i, content) = AfterTodo(content, list)
  BY DEF AppliedTo
<1>. PICK removed : removed = C!Changed(content, C!Removal(m))
  OBVIOUS
<1>4. removed \in C!Content /\ \A k \in Keys : removed[k] = IF k = m.old THEN None ELSE content[k]
  BY <1>1 DEF C!Changed, C!Content, C!Removal
<1>5. CASE m.values[old] = None
  <2>1. AppliedTo(i, content) = removed
    BY <1>2, <1>3, <1>5 DEF AfterTodo
  <2>. QED
    BY <1>1, <1>4, <1>5, <2>1
<1>6. CASE m.values[old] # None
  <2>1. AppliedTo(i, content) = C!Changed(removed, C!Addition(m, old))
    BY <1>2, <1>3, <1>6 DEF AfterTodo
  <2>2. /\ C!Changed(removed, C!Addition(m, old)) \in C!Content
        /\ \A k \in Keys : C!Changed(removed, C!Addition(m, old))[k] = IF k = m.new THEN m.values[old] ELSE removed[k]
    BY <1>1, <1>4 DEF C!Changed, C!Content, C!Addition
  <2>. QED
    BY <1>1, <1>4, <1>6, <2>1, <2>2
<1>. QED
  BY <1>5, <1>6

(* One migration does not change what all of them lead to.                 *)
LEMMA OneMigration ==
  ASSUME NEW i \in DOMAIN Migrations, NEW content \in C!Content, content[Migrations[i].old] # None
  PROVE  /\ C!Migrated(AppliedTo(i, content)) = C!Migrated(content)
         /\ C!Required(AppliedTo(i, content)) = C!Required(content) \ {i}
<1>. PICK applied, m : applied = AppliedTo(i, content) /\ m = Migrations[i]
  OBVIOUS
<1>. DEFINE Arriving(k, c) == {j \in DOMAIN Migrations : Migrations[j].new = k /\ C!Moved(j, c) # None}
<1>1. /\ applied \in C!Content
      /\ \A k \in Keys : applied[k] =
           IF k = m.old THEN None
           ELSE IF k = m.new /\ C!Moved(i, content) # None THEN C!Moved(i, content) ELSE content[k]
  BY AppliedContent
<1>2. \A j \in DOMAIN Migrations \ {i} : applied[Migrations[j].old] = content[Migrations[j].old]
  BY <1>1, ConfigKinds
<1>3. applied[m.old] = None /\ content[m.old] # None
  BY <1>1, ConfigKinds
<1>4. C!Moved(i, applied) = None /\ \A j \in DOMAIN Migrations \ {i} : C!Moved(j, applied) = C!Moved(j, content)
  BY <1>2, <1>3 DEF C!Moved
<1>5. C!Required(applied) = C!Required(content) \ {i}
  BY <1>2, <1>3 DEF C!Required
<1>6. ASSUME NEW k \in Keys PROVE C!Migrated(applied)[k] = C!Migrated(content)[k]
  <2>1. \A c \in {applied, content} : C!Migrated(c)[k] =
          IF \E j \in DOMAIN Migrations : Migrations[j].old = k THEN None
          ELSE IF Arriving(k, c) = {} THEN c[k] ELSE C!Moved(CHOOSE j \in Arriving(k, c) : TRUE, c)
    BY DEF C!Migrated
  <2>2. CASE \E j \in DOMAIN Migrations : Migrations[j].old = k
    BY <2>1, <2>2
  <2>3. CASE k = m.new /\ ~ \E j \in DOMAIN Migrations : Migrations[j].old = k
    <3>1. \A j \in DOMAIN Migrations : Migrations[j].new = k => j = i
      BY <2>3, ConfigKinds
    <3>2. Arriving(k, applied) = {}
      BY <1>4, <3>1
    <3>3. C!Migrated(applied)[k] = applied[k]
      BY <2>1, <2>3, <3>2
    <3>4. CASE C!Moved(i, content) = None
      <4>1. Arriving(k, content) = {}
        BY <3>1, <3>4
      <4>. QED
        BY <1>1, <2>1, <2>3, <3>3, <3>4, <4>1, ConfigKinds
    <3>5. CASE C!Moved(i, content) # None
      <4>1. Arriving(k, content) = {i}
        BY <2>3, <3>1, <3>5
      <4>2. C!Migrated(content)[k] = C!Moved(i, content)
        BY <2>1, <2>3, <4>1
      <4>. QED
        BY <1>1, <2>3, <3>3, <3>5, <4>2, ConfigKinds
    <3>. QED
      BY <3>4, <3>5
  <2>4. CASE k # m.new /\ ~ \E j \in DOMAIN Migrations : Migrations[j].old = k
    <3>1. applied[k] = content[k]
      BY <1>1, <2>4
    <3>2. i \notin Arriving(k, applied) /\ i \notin Arriving(k, content)
      BY <2>4
    <3>3. \A j \in DOMAIN Migrations \ {i} : j \in Arriving(k, applied) <=> j \in Arriving(k, content)
      BY <1>4
    <3>4. Arriving(k, applied) = Arriving(k, content)
      BY <3>2, <3>3
    <3>5. CASE Arriving(k, content) = {}
      BY <2>1, <2>4, <3>1, <3>4, <3>5
    <3>6. CASE Arriving(k, content) # {}
      <4>. PICK j : j = CHOOSE x \in Arriving(k, content) : TRUE
        OBVIOUS
      <4>1. j \in Arriving(k, content)
        BY <3>6
      <4>2. C!Moved(j, applied) = C!Moved(j, content)
        BY <1>4, <3>2, <4>1
      <4>. HIDE DEF Arriving
      <4>. QED
        BY <2>1, <2>4, <3>4, <3>6, <4>2
    <3>. QED
      BY <3>5, <3>6
  <2>. QED
    BY <2>2, <2>3, <2>4
<1>7. C!Migrated(applied) = C!Migrated(content)
  BY <1>6 DEF C!Migrated
<1>. QED
  BY <1>5, <1>7

LEMMA MigratedContent ==
  ASSUME NEW content \in C!Content
  PROVE  C!Migrated(content) \in C!Content
<1>1. ASSUME NEW i \in DOMAIN Migrations PROVE C!Moved(i, content) \in Values \cup {None}
  BY ConfigKinds DEF C!Moved, C!Content
<1>2. ASSUME NEW k \in Keys PROVE C!Migrated(content)[k] \in Values \cup {None}
  <2>. DEFINE arriving == {i \in DOMAIN Migrations : Migrations[i].new = k /\ C!Moved(i, content) # None}
  <2>1. C!Migrated(content)[k] =
          IF \E i \in DOMAIN Migrations : Migrations[i].old = k THEN None
          ELSE IF arriving = {} THEN content[k] ELSE C!Moved(CHOOSE i \in arriving : TRUE, content)
    BY DEF C!Migrated
  <2>2. arriving # {} => (CHOOSE i \in arriving : TRUE) \in DOMAIN Migrations
    OBVIOUS
  <2>3. content[k] \in Values \cup {None}
    BY DEF C!Content
  <2>. HIDE DEF arriving
  <2>. QED
    BY <1>1, <2>1, <2>2, <2>3
<1>. QED
  BY <1>2 DEF C!Migrated, C!Content

LEMMA MigrateStep ==
  ASSUME ConfigInv, NEW p \in Shells, C!Migrate(p)
  PROVE  ConfigInv'
<1>0. C!AtWork(p) /\ configuring[p].pc = "migrate"
  BY DEF C!Migrate, C!AtWork, C!Goes
<1>. PICK me, f : me = configuring[p] /\ f = C!FileOf(p)
  OBVIOUS
<1>. PICK content, should, i, m, old, list :
       /\ i = C!NextOf(me.pending) /\ m = Migrations[i] /\ old = files[f][m.old]
       /\ list = IF old = None THEN << >> ELSE C!Apply(m, old)
       /\ content = files[f] /\ should = meant[f]
  OBVIOUS
<1>1. /\ me \in Configuring /\ StageIsRight(me) /\ IsFine(me, files[f], meant[f]) /\ me.pc = "migrate"
      /\ me.command \in ConfigCommands /\ f \in C!Files
      /\ configuring \in [Shells -> Configuring] /\ files \in [C!Files -> C!Content]
      /\ meant \in [C!Files -> C!Content]
      /\ me.command.kind # "get" /\ f \notin torn => MigrationGoesOn(me, files[f], meant[f])
  BY <1>0, BeforeStep
<1>2. me.command.kind = "migrate"
  BY <1>1, ConfigKinds DEF StageIsRight
<1>3. i \in me.pending /\ i \in DOMAIN Migrations /\ me.pending \subseteq DOMAIN Migrations
  <2>1. me.pending \subseteq DOMAIN Migrations
    BY <1>1 DEF Configuring
  <2>2. me.pending # {}
    BY DEF C!Migrate
  <2>3. DOMAIN Migrations \subseteq Nat
    <3>1. DOMAIN Migrations = 1 .. Len(Migrations) /\ Len(Migrations) \in Nat
      BY ConfigKinds
    <3>. QED
      BY <3>1
  <2>. QED
    BY <2>1, <2>2, <2>3, NextIsPending
<1>4. content \in C!Content /\ old = content[m.old] /\ (old # None => old \in Values)
  <2>1. content \in C!Content /\ m.old \in Keys
    BY <1>1, <1>3, ConfigKinds
  <2>. QED
    BY <2>1 DEF C!Content
<1>5. /\ list \in Seq(Change) /\ (old = None <=> list = << >>) /\ Len(list) \in 0 .. 2
      /\ list # << >> => Len(list) \in 1 .. 2
      /\ \A n \in DOMAIN list : C!Given(list[n].key, list[n].value)
  <2>1. CASE old = None
    BY <2>1
  <2>2. CASE old # None
    <3>1. list = C!Apply(m, old)
      BY <2>2
    <3>2. /\ C!Apply(m, old) \in Seq(Change) /\ C!Apply(m, old) # << >> /\ Len(C!Apply(m, old)) \in 1 .. 2
          /\ \A n \in DOMAIN C!Apply(m, old) : C!Given(C!Apply(m, old)[n].key, C!Apply(m, old)[n].value)
      BY <1>3, <1>4, <2>2, ApplyIsTodo
    <3>3. list \in Seq(Change) /\ list # << >>
      BY <3>1, <3>2
    <3>4. Len(list) \in 1 .. 2
      BY <3>1, <3>2
    <3>5. \A n \in DOMAIN list : C!Given(list[n].key, list[n].value)
      BY <3>1, <3>2
    <3>6. Len(list) \in 0 .. 2
      BY <3>4
    <3>. QED
      BY <2>2, <3>3, <3>4, <3>5, <3>6
  <2>. QED
    BY <2>1, <2>2
<1>. PICK pc, pending : pending = me.pending \ {i} /\ pc = IF list = << >> THEN "migrate" ELSE "read"
  OBVIOUS
<1>6. (list = << >> /\ pc = "migrate") \/ (list # << >> /\ pc = "read")
  OBVIOUS
<1>. PICK new : new = [me EXCEPT !.pending = pending, !.todo = list, !.pc = pc]
  OBVIOUS
<1>7. /\ new.pc = pc
      /\ new.initial = me.initial /\ new.command = me.command
      /\ new.work = me.work /\ new.todo = list /\ new.pending = pending /\ new \in Configuring
  <2>1. pending \in SUBSET DOMAIN Migrations
    BY <1>3
  <2>2. pc \in Stages
    BY <1>6 DEF Stages
  <2>. QED
    BY <1>1, <1>5, <1>6, <2>1, <2>2 DEF Configuring
<1>8. Makes(p, new, content, should)
  <2>1. configuring' = [configuring EXCEPT ![p] = new]
    BY <1>1 DEF C!Migrate
  <2>. QED
    BY <1>1, <2>1 DEF C!Migrate, C!Quiet, C!NoFault, Makes
<1>9. IsFine(new, content, should)
  <2>1. new.pc \in {"migrate", "read"} /\ (new.pc = "read" => Len(new.todo) \in 1 .. 2)
    BY <1>5, <1>6, <1>7
  <2>2. StageIsRight(new)
    BY <1>1, <1>2, <1>7, <2>1 DEF StageIsRight
  <2>. QED
    BY <1>1, <1>5, <1>7, <2>2 DEF IsFine
<1>10. f \notin torn => KeepsOn(new, content, should)
  <2>. SUFFICES ASSUME f \notin torn PROVE MigrationGoesOn(new, content, should)
    <3>1. new.pc \in {"migrate", "read"}
      BY <1>6, <1>7
    <3>2. ~ Rests(new) /\ ChangeGoesOn(new, content, should)
      BY <1>2, <1>7, <3>1 DEF ChangeGoesOn, Rests
    <3>. QED
      BY <3>2 DEF KeepsOn
  <2>1. C!Migrated(content) = C!Migrated(should) /\ C!Required(content) \subseteq me.pending
    BY <1>1, <1>2 DEF MigrationGoesOn, Future
  <2>2. CASE old = None
    <3>1. i \notin C!Required(content)
      BY <1>3, <1>4, <2>2 DEF C!Required
    <3>2. Future(new, content) = content /\ new.pc = "migrate"
      BY <1>5, <1>6, <1>7, <2>2 DEF Future
    <3>. QED
      BY <1>7, <2>1, <3>1, <3>2 DEF MigrationGoesOn
  <2>3. CASE old # None
    <3>1. new.pc = "read" /\ list = C!Apply(m, old)
      BY <1>5, <1>6, <1>7, <2>3
    <3>2. Future(new, content) = AppliedTo(i, content)
      BY <1>4, <1>7, <3>1 DEF Future, AppliedTo
    <3>3. /\ C!Migrated(AppliedTo(i, content)) = C!Migrated(content)
          /\ C!Required(AppliedTo(i, content)) = C!Required(content) \ {i}
      BY <1>3, <1>4, <2>3, OneMigration
    <3>. QED
      BY <1>7, <2>1, <3>1, <3>2, <3>3 DEF MigrationGoesOn
  <2>. QED
    BY <2>2, <2>3
<1>. QED
  BY <1>0, <1>2, <1>7, <1>8, <1>9, <1>10, ConfigStep DEF C!Migrate, C!NoFault

LEMMA MigrateEndsStep ==
  ASSUME ConfigInv, NEW p \in Shells, C!MigrateEnds(p)
  PROVE  ConfigInv'
<1>0. C!AtWork(p) /\ configuring[p].pc = "migrate"
  BY DEF C!MigrateEnds, C!AtWork, C!Goes
<1>. PICK me, f : me = configuring[p] /\ f = C!FileOf(p)
  OBVIOUS
<1>. PICK new, content, should :
       /\ new = [me EXCEPT !.pc = "done"]
       /\ content = files[f] /\ should = C!Meant(me.command, meant[f])
  OBVIOUS
<1>1. /\ me \in Configuring /\ StageIsRight(me) /\ IsFine(me, files[f], meant[f]) /\ me.pc = "migrate"
      /\ me.command \in ConfigCommands /\ f \in C!Files
      /\ configuring \in [Shells -> Configuring] /\ files \in [C!Files -> C!Content]
      /\ meant \in [C!Files -> C!Content]
      /\ me.command.kind # "get" /\ f \notin torn => MigrationGoesOn(me, files[f], meant[f])
  BY <1>0, BeforeStep
<1>2. me.command.kind = "migrate" /\ me.pending = {}
  BY <1>1, ConfigKinds DEF StageIsRight, C!MigrateEnds
<1>3. /\ new.pc = "done" /\ new.initial = me.initial /\ new.command = me.command
      /\ new.work = me.work /\ new.todo = me.todo /\ new \in Configuring
  BY <1>1 DEF Configuring, Stages
<1>4. should = C!Migrated(meant[f]) /\ should \in C!Content
  BY <1>1, <1>2, MigratedContent DEF C!Meant
<1>5. Makes(p, new, content, should)
  BY <1>1 DEF C!MigrateEnds, C!Goes, C!CommandOf, C!Quiet, C!NoFault, Makes
<1>6. IsFine(new, content, should)
  BY <1>1, <1>2, <1>3, <1>4 DEF IsFine, StageIsRight
<1>7. f \notin torn => KeepsOn(new, content, should)
  <2>. SUFFICES ASSUME f \notin torn PROVE content = should
    BY <1>3 DEF KeepsOn, Rests
  <2>1. C!Migrated(content) = C!Migrated(meant[f]) /\ C!Required(content) = {} /\ content \in C!Content
    BY <1>1, <1>2 DEF MigrationGoesOn, Future
  <2>. QED
    BY <1>4, <2>1, NothingToMigrate
<1>. QED
  BY <1>0, <1>2, <1>3, <1>5, <1>6, <1>7, ConfigStep DEF C!MigrateEnds, C!NoFault

LEMMA GiveStep ==
  ASSUME ConfigInv, NEW p \in Shells, NEW c \in ConfigCommands, C!Give(p, c)
  PROVE  ConfigInv'
<1>. PICK new : new = [C!Idle EXCEPT !.pc = IF c.kind = "migrate" THEN "check" ELSE "global", !.command = c]
  OBVIOUS
<1>1. /\ configuring \in [Shells -> Configuring] /\ files \in [C!Files -> C!Content]
      /\ meant \in [C!Files -> C!Content] /\ torn \subseteq C!Files /\ commands \in Nat
      /\ environ \in C!Content
  BY DEF ConfigInv, ConfigTypes
<1>2. /\ c.kind \in {"set", "unset", "get", "migrate"} /\ c.file \in C!Files /\ c \in C!Command
  BY ConfigKinds
<1>3. /\ new.pc = IF c.kind = "migrate" THEN "check" ELSE "global"
      /\ new.command = c /\ new.todo = << >> /\ new \in Configuring
      /\ IsGiven(new.initial) /\ IsGiven(new.work)
  <2>1. IdleRecord(C!Idle)
    BY IdleIsRecord
  <2>. QED
    BY <1>2, <2>1 DEF IdleRecord, Configuring, Stages
<1>4. /\ configuring' = [configuring EXCEPT ![p] = new] /\ commands' = commands + 1
      /\ torn' = torn \cup C!Meeting(p, c) /\ UNCHANGED <<environ, files, meant>>
      /\ configuring[p].pc \in {"idle", "done", "failed"}
  BY DEF C!Give, C!AtWork
<1>5. /\ configuring' \in [Shells -> Configuring] /\ configuring'[p] = new
      /\ \A q \in Shells \ {p} : configuring'[q] = configuring[q]
  BY <1>1, <1>3, <1>4
<1>6. C!Meeting(p, c) \subseteq {c.file}
  BY DEF C!Meeting
<1>7. StageIsRight(new)
  BY <1>2, <1>3 DEF StageIsRight
<1>8. ConfigTypes'
  <2>1. \A q \in Shells : StageIsRight(configuring'[q])
    BY <1>5, <1>7 DEF ConfigInv, ConfigTypes
  <2>2. torn' \subseteq C!Files
    BY <1>1, <1>2, <1>4, <1>6
  <2>. QED
    BY <1>1, <1>4, <1>5, <2>1, <2>2 DEF ConfigTypes, StageIsRight
<1>9. AllIsGiven'
  <2>1. \A q \in Shells :
          /\ IsGiven(configuring'[q].initial) /\ IsGiven(configuring'[q].work)
          /\ \A i \in DOMAIN configuring'[q].todo :
               C!Given(configuring'[q].todo[i].key, configuring'[q].todo[i].value)
    <3>1. \A i \in DOMAIN new.todo : FALSE
      BY <1>3
    <3>. QED
      BY <1>3, <1>5, <3>1 DEF ConfigInv, AllIsGiven
  <2>2. \A f \in C!Files : IsGiven(files'[f])
    BY <1>4 DEF ConfigInv, AllIsGiven
  <2>. QED
    BY <2>1, <2>2 DEF AllIsGiven, IsGiven
<1>10. FirstIsAlone'
  BY <1>1, <1>4, <1>5 DEF ConfigInv, FirstIsAlone
<1>11. FirstReads'
  <2>1. \A q \in Shells \ {p} : configuring[q].pc # "idle" => commands' # 1
    BY <1>1, <1>4 DEF ConfigInv, FirstIsAlone
  <2>2. configuring'[p].pc \notin {"local", "done"}
    BY <1>3, <1>5
  <2>. QED
    BY <1>5, <2>1, <2>2 DEF FirstReads
<1>12. \A q \in Shells, f \in C!Files :
         /\ q # p => (WorksOn(q, f)' <=> WorksOn(q, f))
         /\ WorksOn(p, f)' <=> f = c.file /\ c.kind # "get"
         /\ ~ WorksOn(p, f)
  BY <1>3, <1>4, <1>5 DEF WorksOn, C!AtWork, C!Changes, C!CommandOf, C!FileOf
<1>13. \A q \in Shells \ {p} : c.kind # "get" /\ WorksOn(q, c.file) => c.file \in torn'
  <2>1. \A q \in Shells \ {p} : c.kind # "get" /\ WorksOn(q, c.file) => c.file \in C!Meeting(p, c)
    BY DEF WorksOn, C!Meeting, C!Changes
  <2>. QED
    BY <1>4, <2>1
<1>14. OneWorks'
  BY <1>4, <1>12, <1>13 DEF ConfigInv, OneWorks
<1>15. CommandsGoOn'
  <2>. SUFFICES ASSUME NEW f \in C!Files \ torn'
                PROVE  /\ \A q \in Shells : WorksOn(q, f)' =>
                            /\ MigrationGoesOn(configuring'[q], files'[f], meant'[f])
                            /\ ChangeGoesOn(configuring'[q], files'[f], meant'[f])
                       /\ (\A q \in Shells : ~ WorksOn(q, f)') => files'[f] = meant'[f]
    BY DEF CommandsGoOn, MigrationGoesOn, ChangeGoesOn, Future, AfterTodo
  <2>1. f \in C!Files \ torn /\ files'[f] = files[f] /\ meant'[f] = meant[f]
    BY <1>4
  <2>2. CASE f = c.file /\ c.kind # "get"
    <3>1. \A q \in Shells : ~ WorksOn(q, f)
      BY <1>12, <1>13, <2>1, <2>2
    <3>2. files[f] = meant[f]
      BY <2>1, <3>1 DEF ConfigInv, CommandsGoOn
    <3>3. MigrationGoesOn(new, files[f], meant[f])
      BY <1>3, <3>2 DEF MigrationGoesOn, Future
    <3>4. ChangeGoesOn(new, files[f], meant[f])
      BY <1>3, <3>2 DEF ChangeGoesOn
    <3>. QED
      BY <1>5, <1>12, <2>1, <3>1, <3>2, <3>3, <3>4
  <2>3. CASE f # c.file \/ c.kind = "get"
    <3>1. ~ WorksOn(p, f)' /\ ~ WorksOn(p, f)
      BY <1>12, <2>1, <2>3
    <3>. QED
      BY <1>5, <1>12, <2>1, <3>1 DEF ConfigInv, CommandsGoOn
  <2>. QED
    BY <2>2, <2>3
<1>. QED
  BY <1>8, <1>9, <1>10, <1>11, <1>14, <1>15 DEF ConfigInv

LEMMA ConfigStarts == C!Init => ConfigInv
<1>. SUFFICES ASSUME C!Init PROVE ConfigInv
  OBVIOUS
<1>1. PICK s \in Starts : environ = s.env /\ files = s.files
  BY DEF C!Init
<1>2. /\ meant = files /\ torn = {} /\ commands = 0
      /\ configuring = [p \in Shells |-> C!Idle]
  BY DEF C!Init
<1>3. IdleRecord(C!Idle) /\ StageIsRight(C!Idle)
  BY IdleIsRecord DEF IdleRecord, StageIsRight
<1>4. ConfigTypes
  <2>1. environ \in C!Content /\ files \in [C!Files -> C!Content]
    BY <1>1, OneOfConfiguration DEF C!ConfigurationAssumption
  <2>. QED
    BY <1>2, <1>3, <2>1 DEF ConfigTypes, IdleRecord
<1>5. AllIsGiven
  <2>1. \A f \in C!Files : IsGiven(files[f])
    BY <1>1 DEF IsGiven, C!Given
  <2>. QED
    BY <1>2, <1>3, <2>1 DEF AllIsGiven, IdleRecord
<1>6. \A p \in Shells : configuring[p].pc = "idle"
  BY <1>2, <1>3 DEF IdleRecord
<1>7. FirstIsAlone /\ FirstReads /\ OneWorks /\ CommandsGoOn
  BY <1>2, <1>6 DEF FirstIsAlone, FirstReads, OneWorks, CommandsGoOn, WorksOn, C!AtWork
<1>. QED
  BY <1>4, <1>5, <1>7 DEF ConfigInv

LEMMA ConfigSteps == ConfigInv /\ [C!Next]_configvars => ConfigInv'
<1>. SUFFICES ASSUME ConfigInv, [C!Next]_configvars PROVE ConfigInv'
  OBVIOUS
<1>1. CASE UNCHANGED configvars
  <2>1. UNCHANGED <<environ, files, configuring, commands, meant, torn>>
    BY <1>1 DEF configvars
  <2>2. ConfigTypes'
    BY <2>1 DEF ConfigInv, ConfigTypes, StageIsRight
  <2>3. AllIsGiven' /\ FirstIsAlone'
    BY <2>1 DEF ConfigInv, AllIsGiven, IsGiven, FirstIsAlone
  <2>4. FirstReads'
    BY <2>1 DEF ConfigInv, FirstReads, Global, C!Get, C!Over
  <2>5. OneWorks'
    BY <2>1 DEF ConfigInv, OneWorks, WorksOn, C!AtWork, C!Changes, C!CommandOf, C!FileOf
  <2>6. CommandsGoOn'
    <3>1. \A q \in Shells, f \in C!Files : WorksOn(q, f)' <=> WorksOn(q, f)
      BY <2>1 DEF WorksOn, C!AtWork, C!Changes, C!CommandOf, C!FileOf
    <3>. SUFFICES ASSUME NEW f \in C!Files \ torn'
                  PROVE  /\ \A q \in Shells : WorksOn(q, f)' =>
                              /\ MigrationGoesOn(configuring'[q], files'[f], meant'[f])
                              /\ ChangeGoesOn(configuring'[q], files'[f], meant'[f])
                         /\ (\A q \in Shells : ~ WorksOn(q, f)') => files'[f] = meant'[f]
      BY DEF CommandsGoOn, MigrationGoesOn, ChangeGoesOn, Future, AfterTodo
    <3>. QED
      BY <2>1, <3>1 DEF ConfigInv, CommandsGoOn
  <2>. QED
    BY <2>2, <2>3, <2>4, <2>5, <2>6 DEF ConfigInv
<1>2. CASE C!Next
  <2>. PICK p \in Shells :
         \/ \E c \in ConfigCommands : C!Give(p, c)
         \/ C!Step(p) \/ C!WriteFails(p) \/ C!Crash(p)
    BY <1>2 DEF C!Next
  <2>. QED
    BY GiveStep, LoadGlobalStep, LoadLocalStep, ReadInitialStep, ReadAgainStep, EmptyStep, WriteStep,
       RestoreStep, CheckStep, MigrateStep, MigrateEndsStep, WriteFailsStep, CrashStep DEF C!Step
<1>. QED
  BY <1>1, <1>2

(* The answer of the first command is that of the first place with one.    *)
LEMMA FirstPlaceAnswers ==
  ASSUME ConfigInv
  PROVE  C!LocalGoesFirst
<1>. SUFFICES ASSUME NEW p \in Shells, configuring[p].pc = "done", C!CommandOf(p).kind = "get", commands = 1
              PROVE  LET k == C!CommandOf(p).key
                         places == <<environ[k], files["poetry.toml"][k], files["config.toml"][k], Defaults[k]>>
                     IN \E i \in 1 .. 4 :
                          /\ configuring[p].answer = places[i] /\ (places[i] # None \/ i = 4)
                          /\ \A j \in 1 .. i - 1 : places[j] = None
  BY DEF C!LocalGoesFirst
<1>. PICK k, e, l, g, d, answer :
       /\ k = C!CommandOf(p).key /\ e = environ[k] /\ l = files["poetry.toml"][k]
       /\ g = files["config.toml"][k] /\ d = Defaults[k] /\ answer = configuring[p].answer
  OBVIOUS
<1>1. k \in Keys
  BY AtWorkKnown, ConfigKinds DEF C!CommandOf
<1>2. answer = C!Get(C!Over(Global, files["poetry.toml"]), k)
  BY DEF ConfigInv, FirstReads, C!CommandOf
<1>3. answer = IF e # None THEN e ELSE IF l # None THEN l ELSE IF g # None THEN g ELSE d
  BY <1>1, <1>2 DEF C!Get, C!Over, Global
<1>. DEFINE places == <<e, l, g, d>>
<1>4. \E i \in 1 .. 4 :
        /\ answer = places[i] /\ (places[i] # None \/ i = 4)
        /\ \A j \in 1 .. i - 1 : places[j] = None
  <2>1. places[1] = e /\ places[2] = l /\ places[3] = g /\ places[4] = d
    OBVIOUS
  <2>. HIDE DEF places
  <2>2. CASE e # None
    <3>1. \A j \in 1 .. 1 - 1 : places[j] = None
      OBVIOUS
    <3>. QED
      BY <1>3, <2>1, <2>2, <3>1
  <2>3. CASE e = None /\ l # None
    <3>1. \A j \in 1 .. 2 - 1 : places[j] = None
      BY <2>1, <2>3
    <3>. QED
      BY <1>3, <2>1, <2>3, <3>1
  <2>4. CASE e = None /\ l = None /\ g # None
    <3>1. \A j \in 1 .. 3 - 1 : places[j] = None
      <4>1. \A j \in 1 .. 3 - 1 : j = 1 \/ j = 2
        OBVIOUS
      <4>. QED
        BY <2>1, <2>4, <4>1
    <3>. QED
      BY <1>3, <2>1, <2>4, <3>1
  <2>5. CASE e = None /\ l = None /\ g = None
    <3>1. \A j \in 1 .. 4 - 1 : places[j] = None
      <4>1. \A j \in 1 .. 4 - 1 : j = 1 \/ j = 2 \/ j = 3
        OBVIOUS
      <4>. QED
        BY <2>1, <2>5, <4>1
    <3>. QED
      BY <1>3, <2>1, <2>5, <3>1
  <2>. QED
    BY <2>2, <2>3, <2>4, <2>5
<1>. QED
  BY <1>4

(* What the settings are that commands leave and answer: outside the files *)
(* in which two commands meet, or that a crash or a migration that fails   *)
(* leaves half done, a change that is done has made exactly its change, one *)
(* that fails none, and a migration has moved every old setting; no file    *)
(* has a value that nobody gave, and a lone command answers the environment,*)
(* then poetry.toml, then config.toml, then the default; for any keys,      *)
(* values, migrations of different keys, files, processes, number of        *)
(* commands and faults.                                                    *)
THEOREM SettingsAreKept == MCSpec => []ConfigIsKept
<1>1. ConfigInv => ConfigIsKept
  <2>. SUFFICES ASSUME ConfigInv PROVE C!ConfigIsKept
    BY DEF ConfigIsKept
  <2>1. C!TypeOK
    BY AtWorkKnown DEF ConfigInv, ConfigTypes, C!TypeOK, Configuring
  <2>2. C!SettingsLast
    BY DEF ConfigInv, CommandsGoOn, WorksOn, C!SettingsLast, C!IsBeingWritten
  <2>3. C!NothingInvented
    BY DEF ConfigInv, AllIsGiven, IsGiven, C!NothingInvented
  <2>4. C!LocalGoesFirst
    BY FirstPlaceAnswers
  <2>. QED
    BY <2>1, <2>2, <2>3, <2>4 DEF C!ConfigIsKept
<1>2. MCInit => ConfigInv
  BY ConfigStarts DEF MCInit
<1>3. ConfigInv /\ [MCNext]_allvars => ConfigInv'
  <2>1. [MCNext]_allvars => [C!Next]_configvars
    BY DEF MCNext, allvars
  <2>2. QED
    BY <2>1, ConfigSteps
<1>4. QED
  BY <1>1, <1>2, <1>3, PTL DEF MCSpec
=============================================================================
