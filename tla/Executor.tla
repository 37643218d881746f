------------------------------ MODULE Executor ------------------------------
(***************************************************************************)
(* poetry.installation.Executor: the main thread walks through the groups  *)
(* of operations that have the same priority; it gives safe operations to  *)
(* a pool of threads, waits for them, and executes the unsafe operations   *)
(* itself.  A failure or an interrupt sets _shutdown, which the main       *)
(* thread looks at before it submits an operation and after each group.    *)
(*                                                                         *)
(* An operation is executed in the steps between which the threads can be  *)
(* interleaved: prepare the archive, remove the old version, install the   *)
(* wheel, save the url reference, count.                                   *)
(***************************************************************************)
EXTENDS Operations, FiniteSets

CONSTANTS
  MaxWorkers,    \* installer_max_workers
  MaxInterrupts  \* bound: how often Ctrl-C is pressed

ASSUME ExecutorAssumption ==
  /\ MaxWorkers \in Nat \ {0}
  /\ MaxInterrupts \in Nat

VARIABLES
  plan,        \* the operations
  forReal,     \* _enabled and not _dry_run
  pc,          \* where execute() is
  next,        \* the next operation to look at
  group,       \* the priority of the group
  gitTasks,    \* serial_git_operations: for each repository, in order
  serial,      \* serial_operations that are left, the first one in progress
  queue,       \* tasks in the thread pool that no thread has taken
  running,     \* tasks in the hands of a thread, the first one in progress
  stage,       \* of every operation
  env,         \* what the environment holds of every package
  shutdown,    \* _shutdown
  executed,    \* _executed
  seen,        \* the value of _executed an operation is about to increment
  lock,        \* _lock: 0, or the operation whose thread holds it
  hit,         \* operations whose pip subprocess was interrupted
  interrupts   \* how often Ctrl-C was pressed

groupVars == <<next, group, gitTasks, serial>>
counters  == <<executed, seen, lock>>
vars == <<plan, forReal, pc, groupVars, queue, running, stage, env, shutdown,
          counters, hit, interrupts>>

-----------------------------------------------------------------------------
(* Operations *)

(* Bug: an editable install is as safe as any other. *)
BugOnlyUninstalls(op) == ~ op.skipped /\ op.job = "uninstall"
IsParallelUnsafe(op) ==
  /\ ~ op.skipped
  /\ \/ op.job = "uninstall"
     \/ op.develop /\ op.source \in {"directory", "git"}

Terminal == {"done", "passed", "failed", "cancelled"}
Completed == {"done", "passed"}
InProgress ==
  {Head(t) : t \in running} \cup
  (IF pc = "serial" /\ serial # << >> THEN {Head(serial)} ELSE {})

Quiet == queue = << >> /\ running = {}

(* Bug: pip stays in the list. *)
BugPipStays(n) == n + 1
(* The operation behind position n; pip is taken out of the list. *)
After(n) ==
  IF n + 1 \in Positions(plan) /\ plan[n + 1].name = Pip THEN n + 2 ELSE n + 1

JobCounts == [job \in {"install", "update", "uninstall"} |-> 0]

Init ==
  /\ plan \in Plans
  /\ forReal \in BOOLEAN
  /\ pc = "start"
  /\ next = After(0)
  /\ group = 0
  /\ gitTasks = [r \in Repos |-> << >>]
  /\ serial = << >>
  /\ queue = << >>
  /\ running = {}
  /\ stage = [i \in Positions(plan) |-> "pending"]
  /\ env = [i \in Positions(plan) |->
              IF plan[i].job = "install" THEN {} ELSE {"old"}]
  /\ shutdown = FALSE
  /\ executed = JobCounts
  /\ seen = [i \in Positions(plan) |-> 0]
  /\ lock = 0
  /\ hit = {}
  /\ interrupts = 0

-----------------------------------------------------------------------------
(* The main thread *)

(* pip is installed or updated first, while nothing else runs. *)
SubmitPip ==
  /\ pc = "start"
  /\ queue' = [k \in 1 .. Cardinality({i \in Positions(plan) : plan[i].name = Pip})
                 |-> << CHOOSE i \in Positions(plan) : plan[i].name = Pip >>]
  /\ pc' = "pip"
  /\ UNCHANGED <<plan, forReal, groupVars, running, stage, env, shutdown,
                 counters, hit, interrupts>>

(* The next group, unless all operations were looked at. *)
StartGroup ==
  IF next > Len(plan)
  THEN pc' = "returned" /\ UNCHANGED group
  ELSE pc' = "submit" /\ group' = plan[next].priority

WaitForPip ==
  /\ pc = "pip"
  /\ Quiet
  /\ StartGroup
  /\ UNCHANGED <<plan, forReal, next, gitTasks, serial, queue, running, stage, env,
                 shutdown, counters, hit, interrupts>>

InGroup == next <= Len(plan) /\ plan[next].priority = group

Dispatch ==
  /\ pc = "submit"
  /\ InGroup
  /\ ~ shutdown
  /\ LET op == plan[next] IN
       \/ /\ IsParallelUnsafe(op)
          /\ serial' = Append(serial, next)
          /\ UNCHANGED <<gitTasks, queue>>
       \/ /\ ~ IsParallelUnsafe(op)
          /\ op.source = "git"
          /\ gitTasks' = [gitTasks EXCEPT ![op.repo] = Append(@, next)]
          /\ UNCHANGED <<serial, queue>>
       \/ /\ ~ IsParallelUnsafe(op)
          /\ op.source # "git"
          /\ queue' = Append(queue, <<next>>)
          /\ UNCHANGED <<serial, gitTasks>>
  /\ next' = After(next)
  /\ UNCHANGED <<plan, forReal, pc, group, running, stage, env, shutdown, counters,
                 hit, interrupts>>

(* Once a thread has set _shutdown the rest of the group is left out. *)
EndDispatch ==
  /\ pc = "submit"
  /\ shutdown \/ ~ InGroup
  /\ pc' = "submit git"
  /\ UNCHANGED <<plan, forReal, groupVars, queue, running, stage, env, shutdown,
                 counters, hit, interrupts>>

(* One task for each repository; _shutdown is not looked at any more. *)
SubmitGit ==
  /\ pc = "submit git"
  /\ \E r \in Repos :
       /\ gitTasks[r] # << >>
       /\ queue' = Append(queue, gitTasks[r])
       /\ gitTasks' = [gitTasks EXCEPT ![r] = << >>]
  /\ UNCHANGED <<plan, forReal, pc, next, group, serial, running, stage, env,
                 shutdown, counters, hit, interrupts>>

StartWait ==
  /\ pc = "submit git"
  /\ \A r \in Repos : gitTasks[r] = << >>
  /\ pc' = "wait"
  /\ UNCHANGED <<plan, forReal, groupVars, queue, running, stage, env, shutdown,
                 counters, hit, interrupts>>

(* Bug: the main thread goes on while the pool still works. *)
BugDoNotWait == queue = << >>
TasksAreDone == Quiet

Wait ==
  /\ pc = "wait"
  /\ TasksAreDone
  /\ pc' = "serial"
  /\ UNCHANGED <<plan, forReal, groupVars, queue, running, stage, env, shutdown,
                 counters, hit, interrupts>>

NextSerial ==
  /\ pc = "serial"
  /\ serial # << >>
  /\ stage[Head(serial)] \in Terminal
  /\ serial' = Tail(serial)
  /\ UNCHANGED <<plan, forReal, pc, next, group, gitTasks, queue, running, stage,
                 env, shutdown, counters, hit, interrupts>>

EndGroup ==
  /\ pc = "serial"
  /\ serial = << >>
  /\ IF shutdown THEN pc' = "closing" /\ UNCHANGED group ELSE StartGroup
  /\ UNCHANGED <<plan, forReal, next, gitTasks, serial, queue, running, stage, env,
                 shutdown, counters, hit, interrupts>>

(* ThreadPoolExecutor.shutdown(wait=True, cancel_futures=True) *)
CancelFutures ==
  /\ pc = "closing"
  /\ queue' = << >>
  /\ pc' = "draining"
  /\ UNCHANGED <<plan, forReal, groupVars, running, stage, env, shutdown, counters,
                 hit, interrupts>>

(* Bug: wait=False. *)
BugLeave == queue = << >>
ThreadsAreJoined == Quiet

Drained ==
  /\ pc = "draining"
  /\ ThreadsAreJoined
  /\ pc' = "returned"
  /\ UNCHANGED <<plan, forReal, groupVars, queue, running, stage, env, shutdown,
                 counters, hit, interrupts>>

-----------------------------------------------------------------------------
(* The threads of the pool *)

(* Bug: one thread too many. *)
BugOneMore == Cardinality(running) <= MaxWorkers
HasThread == Cardinality(running) < MaxWorkers

Take ==
  /\ queue # << >>
  /\ HasThread
  /\ running' = running \cup {Head(queue)}
  /\ queue' = Tail(queue)
  /\ UNCHANGED <<plan, forReal, pc, groupVars, stage, env, shutdown, counters, hit,
                 interrupts>>

(* _serialize goes on with the next operation, whatever became of this one. *)
Proceed(t) ==
  /\ t \in running
  /\ stage[Head(t)] \in Terminal
  /\ running' = (running \ {t}) \cup (IF Tail(t) = << >> THEN {} ELSE {Tail(t)})
  /\ UNCHANGED <<plan, forReal, pc, groupVars, queue, stage, env, shutdown,
                 counters, hit, interrupts>>

-----------------------------------------------------------------------------
(* _execute_operation, in whatever thread has operation i in hand *)

At(i, here) == i \in InProgress /\ stage[i] = here

Step(i, there) ==
  /\ stage' = [stage EXCEPT ![i] = there]
  /\ UNCHANGED <<plan, forReal, pc, groupVars, queue, running>>

(* A skipped operation, or a dry run, comes to its end at once. *)
Begin(i) ==
  /\ At(i, "pending")
  /\ Step(i, IF plan[i].skipped \/ ~ forReal THEN "passed"
             ELSE IF plan[i].job = "uninstall" THEN "removing" ELSE "preparing")
  /\ UNCHANGED <<env, shutdown, counters, hit, interrupts>>

(* Bug: the new version is installed over the old one. *)
BugOverwrite(i) == "installing"
AfterPrepare(i) == IF plan[i].job = "update" THEN "removing" ELSE "installing"

Prepare(i) ==
  /\ At(i, "preparing")
  /\ Step(i, AfterPrepare(i))
  /\ UNCHANGED <<env, shutdown, counters, hit, interrupts>>

Remove(i) ==
  /\ At(i, "removing")
  /\ env' = [env EXCEPT ![i] = @ \ {"old"}]
  /\ Step(i, IF plan[i].job = "update" THEN "installing" ELSE "counting")
  /\ UNCHANGED <<shutdown, counters, hit, interrupts>>

InstallWheel(i) ==
  /\ At(i, "installing")
  /\ env' = [env EXCEPT ![i] = @ \cup {"new"}]
  /\ Step(i, "saving")
  /\ UNCHANGED <<shutdown, counters, hit, interrupts>>

SaveUrlReference(i) ==
  /\ At(i, "saving")
  /\ Step(i, "counting")
  /\ UNCHANGED <<env, shutdown, counters, hit, interrupts>>

(* An exception in any of these steps; a wheel may be there in part. *)
Raise(i) ==
  /\ \E here \in {"preparing", "removing", "installing", "saving"} : At(i, here)
  /\ Step(i, "failing")
  /\ \/ UNCHANGED env
     \/ stage[i] = "installing" /\ env' = [env EXCEPT ![i] = @ \cup {"part"}]
  /\ UNCHANGED <<shutdown, counters, hit, interrupts>>

(* The python subprocess of this step ends with a KeyboardInterrupt: the   *)
(* operation is cancelled, but _install ignores what _remove returns.      *)
AfterInterrupt(i) ==
  IF stage[i] = "removing" /\ plan[i].job = "update" THEN "installing" ELSE "cancelling"

InterruptSubprocess(i) ==
  /\ interrupts < MaxInterrupts
  /\ At(i, "preparing") \/ At(i, "removing")
  /\ Step(i, AfterInterrupt(i))
  /\ hit' = hit \cup {i}
  /\ interrupts' = interrupts + 1
  /\ UNCHANGED <<env, shutdown, counters>>

(* Bug: the counters are not protected. *)
BugNoLock(i) == TRUE
MayLock(i) == lock = 0

(* with self._lock: self._executed[operation.job_type] += 1 *)
ReadCount(i) ==
  /\ At(i, "counting")
  /\ MayLock(i)
  /\ lock' = i
  /\ seen' = [seen EXCEPT ![i] = executed[plan[i].job]]
  /\ Step(i, "incrementing")
  /\ UNCHANGED <<env, shutdown, executed, hit, interrupts>>

WriteCount(i) ==
  /\ At(i, "incrementing")
  /\ executed' = [executed EXCEPT ![plan[i].job] = seen[i] + 1]
  /\ lock' = 0
  /\ Step(i, "done")
  /\ UNCHANGED <<env, shutdown, seen, hit, interrupts>>

(* finally: with self._lock: self._shutdown = True *)
Report(i) ==
  /\ At(i, "failing") \/ At(i, "cancelling")
  /\ MayLock(i)
  /\ Step(i, IF stage[i] = "failing" THEN "failed" ELSE "cancelled")
  /\ shutdown' = TRUE
  /\ UNCHANGED <<env, counters, hit, interrupts>>

-----------------------------------------------------------------------------
(* Ctrl-C, as the main thread gets it *)

(* While it waits for the pool, or between two unsafe operations. *)
InterruptGroup ==
  /\ interrupts < MaxInterrupts
  /\ \/ pc = "wait"
     \/ pc = "serial" /\ \A i \in InProgress : stage[i] \in Terminal \cup {"pending"}
  /\ pc' = "closing"
  /\ shutdown' = TRUE
  /\ interrupts' = interrupts + 1
  /\ UNCHANGED <<plan, forReal, groupVars, queue, running, stage, env, counters, hit>>

(* Bug: the lock is not released by the exception. *)
BugKeepLock(i) == lock
Released(i) == IF lock = i THEN 0 ELSE lock

(* In the middle of an unsafe operation, which is cancelled. *)
InterruptSerial(i) ==
  /\ interrupts < MaxInterrupts
  /\ pc = "serial"
  /\ i \in InProgress
  /\ stage[i] \notin Terminal \cup {"pending", "failing", "cancelling"}
  /\ Step(i, "cancelling")
  /\ \/ UNCHANGED env
     \/ stage[i] = "installing" /\ env' = [env EXCEPT ![i] = @ \cup {"part"}]
  /\ lock' = Released(i)
  /\ hit' = hit \cup {i}
  /\ interrupts' = interrupts + 1
  /\ UNCHANGED <<shutdown, executed, seen>>

(* Anywhere else nothing catches it. *)
InterruptEscapes ==
  /\ interrupts < MaxInterrupts
  /\ pc \in {"start", "pip", "submit", "submit git", "closing", "draining"}
  /\ pc' = "raised"
  /\ interrupts' = interrupts + 1
  /\ UNCHANGED <<plan, forReal, groupVars, queue, running, stage, env, shutdown,
                 counters, hit>>

Main ==
  \/ SubmitPip \/ WaitForPip
  \/ Dispatch \/ EndDispatch \/ SubmitGit \/ StartWait
  \/ Wait \/ NextSerial \/ EndGroup
  \/ CancelFutures \/ Drained

Execute(i) ==
  \/ Begin(i) \/ Prepare(i) \/ Remove(i) \/ InstallWheel(i) \/ SaveUrlReference(i)
  \/ ReadCount(i) \/ WriteCount(i) \/ Report(i)

Threads == Take \/ \E t \in running : Proceed(t)

Disturb ==
  \/ \E i \in Positions(plan) : Raise(i)
  \/ \E i \in Positions(plan) : InterruptSubprocess(i)
  \/ InterruptGroup
  \/ \E i \in Positions(plan) : InterruptSerial(i)
  \/ InterruptEscapes

(* execute() has returned or raised, and no thread is at work. *)
Finished == pc \in {"returned", "raised"} /\ Quiet /\ UNCHANGED vars

Next ==
  \/ Main
  \/ Threads
  \/ \E i \in Positions(plan) : Execute(i)
  \/ Disturb
  \/ Finished

(* The main thread and the pool go on; downloads and subprocesses end. *)
Fairness ==
  /\ WF_vars(Main)
  /\ WF_vars(Threads)
  /\ WF_vars(\E i \in Positions(plan) : Execute(i))

Spec == Init /\ [][Next]_vars /\ Fairness
-----------------------------------------------------------------------------
(* Properties *)

Stages ==
  {"pending", "preparing", "removing", "installing", "saving", "counting",
   "incrementing", "failing", "cancelling"} \cup Terminal

TypeOK ==
  /\ plan \in Plans
  /\ forReal \in BOOLEAN
  /\ pc \in {"start", "pip", "submit", "submit git", "wait", "serial", "closing",
             "draining", "returned", "raised"}
  /\ next \in 1 .. Len(plan) + 1
  /\ group \in Nat
  /\ gitTasks \in [Repos -> Seq(Positions(plan))]
  /\ serial \in Seq(Positions(plan))
  /\ queue \in Seq(Seq(Positions(plan)) \ {<< >>})
  /\ running \subseteq Seq(Positions(plan)) \ {<< >>}
  /\ Cardinality(running) <= MaxWorkers
  /\ stage \in [Positions(plan) -> Stages]
  /\ env \in [Positions(plan) -> SUBSET {"old", "new", "part"}]
  /\ shutdown \in BOOLEAN
  /\ executed \in [{"install", "update", "uninstall"} -> Nat]
  /\ seen \in [Positions(plan) -> Nat]
  /\ lock \in {0} \cup Positions(plan)
  /\ hit \subseteq Positions(plan)
  /\ interrupts \in 0 .. MaxInterrupts

HasBegun(i) == stage[i] # "pending"
IsAtWork(i) == HasBegun(i) /\ stage[i] \notin Terminal

(* An operation begins only when every operation with a higher priority,   *)
(* and pip before all, was completed: a failure in a group, at whatever    *)
(* moment the main thread gets to know of it, stops all groups behind it.  *)
InOrder ==
  \A i, j \in Positions(plan) :
    Precedes(plan, i, j) /\ HasBegun(j) => stage[i] \in Completed

(* Uninstalls and editable installs meet no other operation, and nobody    *)
(* works in a clone that another operation is working in.                  *)
KeptApart ==
  \A i, j \in Positions(plan) :
    i # j /\ IsAtWork(i) /\ IsAtWork(j) => MayOverlap(plan[i], plan[j])

Elements(seq) == {seq[k] : k \in 1 .. Len(seq)}
InQueue == UNION {Elements(queue[k]) : k \in 1 .. Len(queue)}
InPool == UNION {Elements(t) : t \in running}
InGit == UNION {Elements(gitTasks[r]) : r \in Repos}

(* Nothing is executed twice: an operation that waits in a list of the main *)
(* thread or in the pool has not begun, and it waits in one place only.     *)
InOneHand ==
  /\ \A i \in InQueue \cup InGit : ~ HasBegun(i)
  /\ InQueue \cap InPool = {}
  /\ InGit \cap (InQueue \cup InPool \cup Elements(serial)) = {}
  /\ Elements(serial) \cap (InQueue \cup InPool) = {}
  /\ \A k \in 2 .. Len(serial) : ~ HasBegun(serial[k])
  /\ \A t \in running : \A k \in 2 .. Len(t) : ~ HasBegun(t[k])

(* When execute() returns no thread is at work, and the returned 0 means   *)
(* that every operation was completed.                                     *)
ReturnIsTrue ==
  pc = "returned" =>
    /\ Quiet
    /\ \A i \in Positions(plan) : ~ IsAtWork(i)
    /\ ~ shutdown => \A i \in Positions(plan) : stage[i] \in Completed

(* The pool of threads and the main thread divide the work as they should. *)
PoolIsOrderly == TypeOK /\ InOrder /\ KeptApart /\ InOneHand /\ ReturnIsTrue

(* The counters a caller reads are the numbers of operations done, however *)
(* the threads that increment them are interleaved.                        *)
CountsAreExact ==
  pc = "returned" =>
    \A job \in DOMAIN executed :
      executed[job] =
        Cardinality({i \in Positions(plan) : stage[i] = "done" /\ plan[i].job = job})

(* What is reported as done is what the environment holds, unless the pip  *)
(* subprocess of an update was interrupted; a dry run touches nothing.     *)
EnvIsAsReported ==
  \A i \in Positions(plan) :
    /\ stage[i] = "done" /\ i \notin hit =>
         env[i] = IF plan[i].job = "uninstall" THEN {} ELSE {"new"}
    /\ stage[i] \in {"pending", "passed"} =>
         env[i] = IF plan[i].job = "install" THEN {} ELSE {"old"}

(* What execute() counts and reports is what has happened.                  *)
ReportIsTrue == CountsAreExact /\ EnvIsAsReported

(* The pool of threads keeps the promise of InstallPlan, and execute() comes *)
(* to an end: no thread waits for a lock or a task for ever.                *)
Promise == INSTANCE InstallPlan WITH
  progress <- [i \in Positions(plan) |->
                 IF ~ HasBegun(i) THEN "pending"
                 ELSE IF IsAtWork(i) THEN "running"
                 ELSE IF stage[i] \in Completed THEN "completed" ELSE "broken"],
  verdict <- CASE pc = "returned" -> IF shutdown THEN "one" ELSE "zero"
               [] pc = "raised"   -> "raised"
               [] OTHER           -> "none"
RefinesInstallPlan == Promise!Spec
=============================================================================
