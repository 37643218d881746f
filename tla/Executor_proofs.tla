--------------------------- MODULE Executor_proofs ---------------------------
(***************************************************************************)
(* For every plan, every number of threads and every moment of a failure   *)
(* or of Ctrl-C: the pool and the main thread work in the right order and  *)
(* apart, each operation is executed once, the counters are exact, what is *)
(* reported is in the environment, and execute() keeps InstallPlan's       *)
(* promise.                                                                *)
(***************************************************************************)
EXTENDS Executor, FiniteSetTheorems, TLAPS

-----------------------------------------------------------------------------
(* The inductive invariant *)

Grouping == {"submit", "submit git", "wait", "serial"}
Regular == {"start", "pip"} \cup Grouping

IsPip(i) == plan[i].name = Pip
InSerial == Elements(serial)
Listed == InQueue \cup InPool \cup InGit \cup InSerial
NoRepeat(seq) == \A a, b \in 1 .. Len(seq) : seq[a] = seq[b] => a = b

(* No operation of one task is one of the other, or works in its clone.    *)
Apart(t, u) ==
  \A i \in Elements(t), j \in Elements(u) : i # j /\ ~ ShareClone(plan[i], plan[j])

(* Tasks of the pool, and those that are collected for it, are apart.      *)
TasksAreApart ==
  /\ \A k, m \in 1 .. Len(queue) : k # m => Apart(queue[k], queue[m])
  /\ \A t, u \in running : t # u => Apart(t, u)
  /\ \A k \in 1 .. Len(queue), t \in running : Apart(queue[k], t)
  /\ \A r \in Repos :
       /\ \A i \in Elements(gitTasks[r]) : plan[i].source = "git" /\ plan[i].repo = r
       /\ \A k \in 1 .. Len(queue) : Apart(gitTasks[r], queue[k])
       /\ \A t \in running : Apart(gitTasks[r], t)

NothingRepeats ==
  /\ \A k \in 1 .. Len(queue) : NoRepeat(queue[k])
  /\ \A t \in running : NoRepeat(t)
  /\ \A r \in Repos : NoRepeat(gitTasks[r])
  /\ NoRepeat(serial)
  /\ InSerial \cap (InQueue \cup InPool \cup InGit) = {}

(* What waits has not begun; what is at work is first in a task.           *)
WaitingIsPending ==
  /\ \A i \in InQueue \cup InGit : ~ HasBegun(i)
  /\ \A k \in 2 .. Len(serial) : ~ HasBegun(serial[k])
  /\ \A t \in running : \A k \in 2 .. Len(t) : ~ HasBegun(t[k])
  /\ \A i \in Positions(plan) : IsAtWork(i) => i \in InProgress

(* Where the main thread is tells which operations are listed.             *)
ListsFitGroup ==
  /\ pc = "start" => Listed = {} /\ \A i \in Positions(plan) : ~ HasBegun(i)
  /\ pc = "pip" => InGit = {} /\ InSerial = {} /\ \A i \in Listed : IsPip(i)
  /\ pc \in Grouping => \A i \in Listed : plan[i].priority = group /\ ~ IsPip(i)
  /\ pc = "submit" => \A i \in InQueue \cup InPool : plan[i].source # "git"
  /\ pc \in {"wait", "serial"} => InGit = {}
  /\ pc \in {"serial", "returned"} => Quiet
  /\ next <= Len(plan) => ~ IsPip(next)
  /\ \A i \in Positions(plan) : i \in Listed \/ HasBegun(i) => IsPip(i) \/ i < next

(* What the main thread has seen is listed or at its end.                  *)
NothingIsLost ==
  pc \in Regular =>
    \A i \in Positions(plan) :
      (IF IsPip(i) THEN pc # "start" ELSE i < next) => i \in Listed \/ stage[i] \in Terminal

(* What is listed may begin.                                               *)
ListedIsReady ==
  \A i, j \in Positions(plan) :
    Precedes(plan, i, j) /\ (j \in Listed \/ HasBegun(j)) => stage[i] \in Completed

(* The pool has what may overlap, or pip alone.                            *)
PoolIsSafe ==
  /\ \A i \in InQueue \cup InPool \cup InGit : IsPip(i) \/ ~ NeedsToBeAlone(plan[i])
  /\ \A i, j \in InQueue \cup InPool : IsPip(i) => IsPip(j)

FailureIsKnown ==
  /\ \A i \in Positions(plan) : stage[i] \in {"failed", "cancelled"} => shutdown
  /\ pc \in {"closing", "draining"} => shutdown
  /\ pc = "returned" /\ ~ shutdown => \A i \in Positions(plan) : stage[i] \in Completed

DoneOf(job) == {i \in Positions(plan) : stage[i] = "done" /\ plan[i].job = job}

(* _lock is held while a counter is incremented.                           *)
CountIsLocked ==
  /\ \A i \in Positions(plan) : stage[i] = "incrementing" <=> lock = i
  /\ \A i \in Positions(plan) : lock = i => seen[i] = executed[plan[i].job]
  /\ \A job \in DOMAIN executed : executed[job] = Cardinality(DoneOf(job))

(* What the environment holds at each stage, unless pip was interrupted.   *)
Before(i) == IF plan[i].job = "install" THEN {} ELSE {"old"}
Afterwards(i) == IF plan[i].job = "uninstall" THEN {} ELSE {"new"}
EnvFitsStage ==
  \A i \in Positions(plan) :
    /\ stage[i] \in {"pending", "passed"} => i \notin hit /\ env[i] = Before(i)
    /\ stage[i] = "preparing" => plan[i].job # "uninstall"
    /\ stage[i] = "removing" => plan[i].job # "install"
    /\ stage[i] \in {"installing", "saving"} => plan[i].job # "uninstall"
    /\ i \notin hit =>
         /\ stage[i] \in {"preparing", "removing"} => env[i] = Before(i)
         /\ stage[i] = "installing" => env[i] = {}
         /\ stage[i] \in {"saving", "counting", "incrementing", "done"} => env[i] = Afterwards(i)

(* The parts that say where the operations are.                            *)
Placement ==
  /\ TasksAreApart /\ NothingRepeats /\ WaitingIsPending /\ ListsFitGroup
  /\ NothingIsLost /\ ListedIsReady /\ PoolIsSafe /\ FailureIsKnown

IInv == TypeOK /\ IsFiniteSet(running) /\ Placement /\ CountIsLocked /\ EnvFitsStage
-----------------------------------------------------------------------------
(* Sequences and their elements *)

LEMMA ElementsOfAppend ==
  ASSUME NEW S, NEW seq \in Seq(S), NEW x \in S
  PROVE  /\ Elements(Append(seq, x)) = Elements(seq) \cup {x}
         /\ x \notin Elements(seq) /\ NoRepeat(seq) => NoRepeat(Append(seq, x))
<1>1. /\ Len(Append(seq, x)) = Len(seq) + 1 /\ Len(seq) \in Nat
      /\ \A k \in 1 .. Len(seq) : Append(seq, x)[k] = seq[k]
      /\ Append(seq, x)[Len(seq) + 1] = x
  OBVIOUS
<1>2. 1 .. Len(seq) + 1 = (1 .. Len(seq)) \cup {Len(seq) + 1}
  BY <1>1
<1>3. QED
  BY <1>1, <1>2 DEF Elements, NoRepeat

LEMMA ElementsOfTail ==
  ASSUME NEW S, NEW seq \in Seq(S), seq # << >>
  PROVE  /\ Head(seq) = seq[1] /\ Head(seq) \in S /\ Tail(seq) \in Seq(S)
         /\ Len(Tail(seq)) = Len(seq) - 1 /\ Len(seq) \in Nat \ {0}
         /\ \A k \in 1 .. Len(seq) - 1 : Tail(seq)[k] = seq[k + 1]
         /\ Elements(seq) = {Head(seq)} \cup Elements(Tail(seq))
         /\ NoRepeat(seq) => NoRepeat(Tail(seq)) /\ Head(seq) \notin Elements(Tail(seq))
<1>1. /\ Head(seq) = seq[1] /\ Head(seq) \in S /\ Tail(seq) \in Seq(S)
      /\ Len(Tail(seq)) = Len(seq) - 1 /\ Len(seq) \in Nat \ {0}
      /\ \A k \in 1 .. Len(seq) - 1 : Tail(seq)[k] = seq[k + 1]
  OBVIOUS
<1>2. \A k \in 2 .. Len(seq) : k - 1 \in 1 .. Len(seq) - 1 /\ seq[k] = Tail(seq)[k - 1]
  BY <1>1
<1>3. 1 .. Len(seq) = {1} \cup 2 .. Len(seq) /\ 1 \in 1 .. Len(seq)
  BY <1>1
<1>4. Elements(seq) = {Head(seq)} \cup Elements(Tail(seq))
  <2>1. ASSUME NEW x \in Elements(seq) PROVE x \in {Head(seq)} \cup Elements(Tail(seq))
    <3>1. PICK k \in 1 .. Len(seq) : x = seq[k]
      BY DEF Elements
    <3>2. k = 1 \/ (k - 1 \in 1 .. Len(Tail(seq)) /\ x = Tail(seq)[k - 1])
      BY <1>1, <1>2, <1>3, <3>1
    <3>3. QED
      BY <1>1, <3>1, <3>2 DEF Elements
  <2>2. ASSUME NEW x \in Elements(Tail(seq)) PROVE x \in Elements(seq)
    <3>1. PICK k \in 1 .. Len(seq) - 1 : x = Tail(seq)[k]
      BY <1>1 DEF Elements
    <3>2. k + 1 \in 1 .. Len(seq) /\ x = seq[k + 1]
      BY <1>1, <3>1
    <3>3. QED
      BY <3>2 DEF Elements
  <2>3. Head(seq) \in Elements(seq)
    BY <1>1, <1>3 DEF Elements
  <2>4. QED
    BY <2>1, <2>2, <2>3
<1>5. NoRepeat(seq) => NoRepeat(Tail(seq)) /\ Head(seq) \notin Elements(Tail(seq))
  BY <1>1 DEF NoRepeat, Elements
<1>6. QED
  BY <1>1, <1>4, <1>5

LEMMA ElementsOfEmpty == Elements(<< >>) = {} /\ NoRepeat(<< >>)
BY DEF Elements, NoRepeat

LEMMA ElementsOfOne ==
  ASSUME NEW x
  PROVE  Elements(<<x>>) = {x} /\ NoRepeat(<<x>>) /\ Len(<<x>>) = 1
BY DEF Elements, NoRepeat

LEMMA HeadIsElement ==
  ASSUME NEW S, NEW seq \in Seq(S)
  PROVE  /\ Elements(seq) \subseteq S
         /\ seq # << >> => Head(seq) \in Elements(seq) /\ Head(seq) = seq[1] /\ Len(seq) >= 1
         /\ Elements(seq) = {} => seq = << >>
<1>1. Elements(seq) \subseteq S
  BY DEF Elements
<1>2. ASSUME seq # << >> PROVE Head(seq) = seq[1] /\ Len(seq) >= 1 /\ seq[1] \in Elements(seq)
  <2>1. Head(seq) = seq[1] /\ Len(seq) >= 1 /\ Len(seq) \in Nat
    BY <1>2
  <2>2. QED
    BY <2>1 DEF Elements
<1>3. QED
  BY <1>1, <1>2

(* The operations of all tasks in a sequence of tasks.                     *)
AllOf(tasks) == UNION {Elements(tasks[k]) : k \in 1 .. Len(tasks)}

LEMMA AllOfAppend ==
  ASSUME NEW S, NEW tasks \in Seq(S), NEW t \in S
  PROVE  AllOf(Append(tasks, t)) = AllOf(tasks) \cup Elements(t)
<1>1. /\ Len(Append(tasks, t)) = Len(tasks) + 1 /\ Len(tasks) \in Nat
      /\ \A k \in 1 .. Len(tasks) : Append(tasks, t)[k] = tasks[k]
      /\ Append(tasks, t)[Len(tasks) + 1] = t
  OBVIOUS
<1>2. 1 .. Len(tasks) + 1 = (1 .. Len(tasks)) \cup {Len(tasks) + 1}
  BY <1>1
<1>3. QED
  BY <1>1, <1>2 DEF AllOf

LEMMA AllOfTail ==
  ASSUME NEW S, NEW tasks \in Seq(S), tasks # << >>
  PROVE  AllOf(tasks) = Elements(Head(tasks)) \cup AllOf(Tail(tasks))
<1>1. /\ Head(tasks) = tasks[1] /\ Len(Tail(tasks)) = Len(tasks) - 1 /\ Len(tasks) \in Nat \ {0}
      /\ \A k \in 1 .. Len(tasks) - 1 : Tail(tasks)[k] = tasks[k + 1]
  OBVIOUS
<1>2. \A k \in 2 .. Len(tasks) : k - 1 \in 1 .. Len(tasks) - 1 /\ tasks[k] = Tail(tasks)[k - 1]
  BY <1>1
<1>3. 1 .. Len(tasks) = {1} \cup 2 .. Len(tasks) /\ 1 \in 1 .. Len(tasks)
  BY <1>1
<1>4. QED
  BY <1>1, <1>2, <1>3 DEF AllOf

-----------------------------------------------------------------------------
(* Plans *)

(* A plan is sorted by priority and has one operation for a package.       *)
LEMMA PlanFacts ==
  ASSUME TypeOK
  PROVE  /\ Len(plan) \in Nat /\ plan \in Seq(Operation)
         /\ \A i \in Positions(plan) : plan[i] \in Operation
         /\ \A i, j \in Positions(plan) : plan[i].name = plan[j].name => i = j
         /\ \A i, j \in Positions(plan) : plan[i].priority > plan[j].priority => i < j
<1>1. plan \in Seq(Operation) /\ \A i, j \in Positions(plan) : i < j =>
        plan[i].priority >= plan[j].priority /\ plan[i].name # plan[j].name
  BY PlanAssumption DEF TypeOK, Positions
<1>2. Len(plan) \in Nat /\ \A i \in Positions(plan) : i \in Nat /\ plan[i] \in Operation
  BY <1>1 DEF Positions
<1>3. \A i \in Positions(plan) : plan[i].priority \in Nat
  BY <1>2 DEF Operation
<1>4. QED
  BY <1>1, <1>2, <1>3

LEMMA PipIsOne == TypeOK => \A i, j \in Positions(plan) : IsPip(i) /\ IsPip(j) => i = j
BY PlanFacts DEF IsPip

LEMMA Numbers ==
  ASSUME TypeOK
  PROVE  /\ next \in Nat /\ next \in 1 .. Len(plan) + 1
         /\ seen \in [Positions(plan) -> Nat]
         /\ executed \in [{"install", "update", "uninstall"} -> Nat]
         /\ interrupts < MaxInterrupts => interrupts + 1 \in 0 .. MaxInterrupts
         /\ interrupts \in 0 .. MaxInterrupts
<1>1. next \in 1 .. Len(plan) + 1 /\ interrupts \in 0 .. MaxInterrupts
  BY DEF TypeOK
<1>2. Len(plan) \in Nat /\ MaxInterrupts \in Nat
  BY PlanFacts, ExecutorAssumption
<1>3. next \in Nat /\ (interrupts < MaxInterrupts => interrupts + 1 \in 0 .. MaxInterrupts)
  BY <1>1, <1>2
<1>4. seen \in [Positions(plan) -> Nat] /\ executed \in [{"install", "update", "uninstall"} -> Nat]
  BY DEF TypeOK
<1>5. QED
  BY <1>1, <1>3, <1>4

(* What comes after position n is behind it and not pip; only pip is between. *)
LEMMA AfterFacts ==
  ASSUME TypeOK, NEW n \in 0 .. Len(plan)
  PROVE  /\ After(n) \in 1 .. Len(plan) + 1 /\ n < After(n)
         /\ After(n) <= Len(plan) => ~ IsPip(After(n))
         /\ \A i \in Positions(plan) : n < i /\ i < After(n) => IsPip(i)
<1>1. Len(plan) \in Nat /\ n \in Nat
  BY PlanFacts
<1>2. CASE n + 1 \in Positions(plan) /\ IsPip(n + 1)
  BY <1>1, <1>2, PipIsOne DEF After, IsPip, Positions
<1>3. CASE ~ (n + 1 \in Positions(plan) /\ IsPip(n + 1))
  BY <1>1, <1>3 DEF After, IsPip, Positions
<1>4. QED
  BY <1>2, <1>3

LEMMA AloneIsUnsafe ==
  ASSUME TypeOK, NEW i \in Positions(plan)
  PROVE  NeedsToBeAlone(plan[i]) = IsParallelUnsafe(plan[i])
<1>1. plan[i].source \in {"index", "directory", "git"} /\ plan[i].skipped \in BOOLEAN
  BY PlanFacts DEF Operation
<1>2. QED
  BY <1>1 DEF NeedsToBeAlone, IsParallelUnsafe

-----------------------------------------------------------------------------
(* Types *)

(* A step of an operation in progress, to another stage.                   *)
Works(i) ==
  /\ i \in InProgress /\ stage[i] \notin Terminal
  /\ UNCHANGED <<plan, pc, next, group, gitTasks, serial, queue, running>>
  /\ \E there \in Stages \ {"pending"} : stage' = [stage EXCEPT ![i] = there]
  /\ stage'[i] \in {"failed", "cancelled"} => shutdown'
  /\ shutdown => shutdown'

StageStep(i) == Execute(i) \/ Raise(i) \/ InterruptSubprocess(i) \/ InterruptSerial(i)

LEMMA StageStepWorks ==
  ASSUME TypeOK, NEW i \in Positions(plan), StageStep(i)
  PROVE  Works(i)
<1>1. i \in DOMAIN stage
  BY DEF TypeOK
<1>. USE DEF Works, Step, At, Stages, Terminal, groupVars, counters
<1>2. CASE Begin(i)
  <2>. DEFINE there == IF plan[i].skipped \/ ~ forReal THEN "passed"
                       ELSE IF plan[i].job = "uninstall" THEN "removing" ELSE "preparing"
  <2>1. stage' = [stage EXCEPT ![i] = there] /\ stage[i] = "pending" /\ i \in InProgress
    BY <1>2 DEF Begin
  <2>2. there \in {"passed", "removing", "preparing"}
    OBVIOUS
  <2>3. UNCHANGED <<plan, pc, next, group, gitTasks, serial, queue, running, shutdown>>
    BY <1>2 DEF Begin
  <2>. HIDE DEF there
  <2>4. stage'[i] = there
    BY <1>1, <2>1
  <2>5. QED
    BY <2>1, <2>2, <2>3, <2>4
<1>3. CASE Prepare(i)
  BY <1>1, <1>3 DEF Prepare, AfterPrepare
<1>4. CASE Remove(i)
  BY <1>1, <1>4 DEF Remove
<1>5. CASE InstallWheel(i)
  BY <1>1, <1>5 DEF InstallWheel
<1>6. CASE SaveUrlReference(i)
  BY <1>1, <1>6 DEF SaveUrlReference
<1>7. CASE ReadCount(i)
  BY <1>1, <1>7 DEF ReadCount
<1>8. CASE WriteCount(i)
  BY <1>1, <1>8 DEF WriteCount
<1>9. CASE Report(i)
  BY <1>1, <1>9 DEF Report
<1>10. CASE Raise(i)
  BY <1>1, <1>10 DEF Raise
<1>11. CASE InterruptSubprocess(i)
  BY <1>1, <1>11 DEF InterruptSubprocess, AfterInterrupt
<1>12. CASE InterruptSerial(i)
  BY <1>1, <1>12 DEF InterruptSerial
<1>13. QED
  BY <1>2, <1>3, <1>4, <1>5, <1>6, <1>7, <1>8, <1>9, <1>10, <1>11, <1>12 DEF StageStep, Execute

LEMMA WorkChanges ==
  ASSUME TypeOK, NEW i \in Positions(plan), Works(i)
  PROVE  /\ \A j \in Positions(plan) : j # i => stage'[j] = stage[j]
         /\ stage'[i] \in Stages \ {"pending"}
         /\ i \in DOMAIN stage
BY DEF Works, TypeOK

(* What a step of an operation does to the other variables.                *)
LEMMA StageStepTypes ==
  ASSUME TypeOK, NEW i \in Positions(plan), StageStep(i)
  PROVE  /\ env' \in [Positions(plan) -> SUBSET {"old", "new", "part"}]
         /\ shutdown' \in BOOLEAN
         /\ executed' \in [{"install", "update", "uninstall"} -> Nat]
         /\ seen' \in [Positions(plan) -> Nat]
         /\ lock' \in {0} \cup Positions(plan)
         /\ hit' \subseteq Positions(plan)
         /\ interrupts' \in 0 .. MaxInterrupts
         /\ forReal' = forReal
<1>1. plan[i].job \in {"install", "update", "uninstall"}
  BY PlanFacts DEF Operation
<1>0. /\ seen[i] + 1 \in Nat
      /\ interrupts < MaxInterrupts => interrupts + 1 \in 0 .. MaxInterrupts
  BY Numbers
<1>14. env \in [Positions(plan) -> SUBSET {"old", "new", "part"}]
  BY DEF TypeOK
<1>15. StageStep(i) => \/ env' = env
                       \/ env' = [env EXCEPT ![i] = @ \ {"old"}]
                       \/ env' = [env EXCEPT ![i] = @ \cup {"new"}]
                       \/ env' = [env EXCEPT ![i] = @ \cup {"part"}]
  BY DEF StageStep, Execute, Begin, Prepare, Remove, InstallWheel, SaveUrlReference, ReadCount,
         WriteCount, Report, Raise, InterruptSubprocess, InterruptSerial
<1>16. env' \in [Positions(plan) -> SUBSET {"old", "new", "part"}]
  BY <1>14, <1>15
<1>. USE DEF TypeOK, Step, counters
<1>2. CASE Begin(i)
  BY <1>2 DEF Begin
<1>3. CASE Prepare(i)
  BY <1>3 DEF Prepare
<1>4. CASE Remove(i)
  BY <1>4 DEF Remove
<1>5. CASE InstallWheel(i)
  BY <1>5 DEF InstallWheel
<1>6. CASE SaveUrlReference(i)
  BY <1>6 DEF SaveUrlReference
<1>7. CASE ReadCount(i)
  BY <1>1, <1>7 DEF ReadCount
<1>8. CASE WriteCount(i)
  <2>2. executed' \in [{"install", "update", "uninstall"} -> Nat]
    BY <1>0, <1>1, <1>8 DEF WriteCount
  <2>3. QED
    BY <1>8, <2>2 DEF WriteCount
<1>9. CASE Report(i)
  BY <1>9 DEF Report
<1>10. CASE Raise(i)
  BY <1>10, ZenonT(60) DEF Raise
<1>11. CASE InterruptSubprocess(i)
  <2>1. interrupts' \in 0 .. MaxInterrupts
    BY <1>0, <1>11 DEF InterruptSubprocess
  <2>2. QED
    BY <1>11, <2>1 DEF InterruptSubprocess
<1>12. CASE InterruptSerial(i)
  <2>1. interrupts' \in 0 .. MaxInterrupts
    BY <1>0, <1>12 DEF InterruptSerial
  <2>2. QED
    BY <1>12, <1>16, <2>1 DEF InterruptSerial, Released
<1>13. QED
  BY <1>2, <1>3, <1>4, <1>5, <1>6, <1>7, <1>8, <1>9, <1>10, <1>11, <1>12 DEF StageStep, Execute

LEMMA InitTypes == Init => TypeOK /\ IsFiniteSet(running)
<1>. SUFFICES ASSUME Init PROVE TypeOK /\ IsFiniteSet(running)
  OBVIOUS
<1>1. plan \in Plans /\ Len(plan) \in Nat
  BY PlanAssumption DEF Init
<1>2. next \in 1 .. Len(plan) + 1
  BY <1>1 DEF Init, After, Positions
<1>3. IsFiniteSet(running) /\ Cardinality(running) = 0
  BY FS_EmptySet DEF Init
<1>4. gitTasks \in [Repos -> Seq(Positions(plan))] /\ serial \in Seq(Positions(plan))
      /\ queue \in Seq(Seq(Positions(plan)) \ {<< >>})
  BY DEF Init
<1>5. /\ stage \in [Positions(plan) -> Stages]
      /\ env \in [Positions(plan) -> SUBSET {"old", "new", "part"}]
      /\ executed \in [{"install", "update", "uninstall"} -> Nat]
      /\ seen \in [Positions(plan) -> Nat]
  BY DEF Init, Stages, JobCounts
<1>6. interrupts \in 0 .. MaxInterrupts /\ Cardinality(running) <= MaxWorkers
  BY <1>3, ExecutorAssumption DEF Init
<1>7. QED
  BY <1>1, <1>2, <1>3, <1>4, <1>5, <1>6 DEF Init, TypeOK

(* The next group, or the end.                                             *)
LEMMA StartGroupTypes ==
  ASSUME TypeOK, StartGroup
  PROVE  group' \in Nat /\ pc' \in {"submit", "returned"}
<1>1. next <= Len(plan) => next \in Positions(plan)
  BY Numbers, PlanFacts DEF Positions
<1>2. next <= Len(plan) => plan[next].priority \in Nat
  BY <1>1, PlanFacts DEF Operation
<1>3. ~ (next > Len(plan)) => next <= Len(plan)
  BY Numbers, PlanFacts
<1>4. group \in Nat
  BY DEF TypeOK
<1>5. QED
  BY <1>2, <1>3, <1>4 DEF StartGroup

(* Steps of the main thread that leave the lists as they are.              *)
Moves ==
  \/ WaitForPip \/ EndDispatch \/ StartWait \/ Wait \/ EndGroup \/ Drained
  \/ InterruptGroup \/ InterruptEscapes

LEMMA MovesKeep ==
  ASSUME Moves
  PROVE  /\ UNCHANGED <<plan, forReal, next, gitTasks, serial, queue, running, stage, env>>
         /\ UNCHANGED <<executed, seen, lock, hit>>
BY DEF Moves, WaitForPip, EndDispatch, StartWait, Wait, EndGroup, Drained, InterruptGroup,
       InterruptEscapes, groupVars, counters

LEMMA MovesTypes ==
  ASSUME TypeOK, Moves
  PROVE  TypeOK'
<1>2. interrupts' \in 0 .. MaxInterrupts
  BY Numbers DEF Moves, WaitForPip, EndDispatch, StartWait, Wait, EndGroup, Drained,
              InterruptGroup, InterruptEscapes
<1>3. shutdown' \in BOOLEAN
  BY DEF TypeOK, Moves, WaitForPip, EndDispatch, StartWait, Wait, EndGroup, Drained,
         InterruptGroup, InterruptEscapes
<1>4. group' \in Nat
  BY StartGroupTypes
     DEF TypeOK, Moves, WaitForPip, EndDispatch, StartWait, Wait, EndGroup, Drained,
         InterruptGroup, InterruptEscapes, groupVars
<1>5. pc' \in {"submit git", "wait", "serial", "closing", "returned", "raised", "submit"}
  BY StartGroupTypes
     DEF Moves, WaitForPip, EndDispatch, StartWait, Wait, EndGroup, Drained,
         InterruptGroup, InterruptEscapes
<1>6. QED
  BY <1>2, <1>3, <1>4, <1>5, MovesKeep DEF TypeOK, Stages

LEMMA StageStepsKeepTypes ==
  ASSUME TypeOK, NEW i \in Positions(plan), StageStep(i)
  PROVE  TypeOK'
<1>1. stage' \in [Positions(plan) -> Stages]
  BY StageStepWorks DEF Works, TypeOK
<1>2. QED
  BY <1>1, StageStepWorks, StageStepTypes DEF Works, TypeOK, Stages

(* What the steps that change the lists leave alone.                       *)
ListStep == SubmitPip \/ Dispatch \/ SubmitGit \/ NextSerial \/ CancelFutures \/ Threads

LEMMA ListStepKeeps ==
  ASSUME ListStep
  PROVE  UNCHANGED <<plan, forReal, group, stage, env, shutdown, executed, seen, lock, hit,
                     interrupts>>
BY DEF ListStep, SubmitPip, Dispatch, SubmitGit, NextSerial, CancelFutures, Threads, Take,
       Proceed, groupVars, counters

LEMMA Kinds ==
  ASSUME TypeOK, Next
  PROVE  \/ \E i \in Positions(plan) : StageStep(i)
         \/ Moves
         \/ ListStep
         \/ UNCHANGED vars
BY DEF Next, Main, Threads, Disturb, Finished, StageStep, Moves, ListStep

LEMMA ConstantTasks ==
  ASSUME NEW n, NEW c
  PROVE  /\ n = 0 => [k \in 1 .. n |-> c] = << >>
         /\ n = 1 => [k \in 1 .. n |-> c] = <<c>>
OBVIOUS

(* pip as the only operation of the pool.                                  *)
LEMMA SubmitPipQueue ==
  ASSUME TypeOK, SubmitPip
  PROVE  \/ queue' = << >> /\ \A i \in Positions(plan) : ~ IsPip(i)
         \/ \E i \in Positions(plan) : IsPip(i) /\ queue' = << <<i>> >>
<1>. DEFINE Pips == {i \in Positions(plan) : plan[i].name = Pip}
            pip == CHOOSE i \in Positions(plan) : plan[i].name = Pip
<1>1. queue' = [k \in 1 .. Cardinality(Pips) |-> <<pip>>]
  BY DEF SubmitPip
<1>2. Pips # {} => pip \in Positions(plan) /\ IsPip(pip)
  BY DEF IsPip
<1>3. Pips # {} => Pips = {pip}
  BY <1>2, PipIsOne DEF IsPip
<1>4. Pips = {} => \A i \in Positions(plan) : ~ IsPip(i)
  BY DEF IsPip
<1>. HIDE DEF Pips, pip
<1>5. CASE Pips = {}
  <2>1. Cardinality(Pips) = 0
    BY <1>5, FS_EmptySet
  <2>2. queue' = << >>
    BY <1>1, <2>1, ConstantTasks
  <2>3. QED
    BY <1>4, <1>5, <2>2
<1>6. CASE Pips # {}
  <2>1. Cardinality(Pips) = 1
    BY <1>3, <1>6, FS_Singleton
  <2>2. queue' = << <<pip>> >>
    BY <1>1, <2>1, ConstantTasks
  <2>3. QED
    BY <1>2, <1>6, <2>2
<1>7. QED
  BY <1>5, <1>6

-----------------------------------------------------------------------------
(* What the steps do to the lists *)

Tasks == Seq(Positions(plan)) \ {<< >>}

LEMMA ListTypes ==
  ASSUME TypeOK
  PROVE  /\ queue \in Seq(Tasks) /\ running \subseteq Tasks
         /\ \A r \in Repos : gitTasks[r] \in Seq(Positions(plan))
         /\ gitTasks \in [Repos -> Seq(Positions(plan))]
         /\ serial \in Seq(Positions(plan))
         /\ \A k \in 1 .. Len(queue) : queue[k] \in Tasks
<1>1. queue \in Seq(Tasks) /\ running \subseteq Tasks /\ serial \in Seq(Positions(plan))
      /\ gitTasks \in [Repos -> Seq(Positions(plan))]
  BY DEF TypeOK, Tasks
<1>2. \A k \in 1 .. Len(queue) : queue[k] \in Tasks
  BY <1>1
<1>3. QED
  BY <1>1, <1>2

LEMMA ListedAreOperations ==
  ASSUME TypeOK
  PROVE  /\ InQueue \subseteq Positions(plan) /\ InPool \subseteq Positions(plan)
         /\ InGit \subseteq Positions(plan) /\ InSerial \subseteq Positions(plan)
         /\ InProgress \subseteq InPool \cup InSerial
         /\ \A t \in running : Head(t) \in InPool /\ Head(t) \in Positions(plan)
<1>1. \A t \in Tasks : Elements(t) \subseteq Positions(plan) /\ Head(t) \in Elements(t)
  BY HeadIsElement DEF Tasks
<1>2. InQueue \subseteq Positions(plan) /\ InPool \subseteq Positions(plan)
  BY <1>1, ListTypes DEF InQueue, InPool
<1>3. InGit \subseteq Positions(plan)
  BY HeadIsElement, ListTypes DEF InGit
<1>4. InSerial \subseteq Positions(plan) /\ (serial # << >> => Head(serial) \in InSerial)
  BY HeadIsElement, ListTypes DEF InSerial
<1>5. \A t \in running : Head(t) \in InPool /\ Head(t) \in Positions(plan)
  BY <1>1, <1>2, ListTypes DEF InPool
<1>6. QED
  BY <1>2, <1>3, <1>4, <1>5 DEF InProgress

LEMMA SubmitPipEffect ==
  ASSUME TypeOK, SubmitPip
  PROVE  /\ pc = "start" /\ pc' = "pip"
         /\ UNCHANGED <<plan, next, gitTasks, serial, running>>
         /\ queue' \in Seq(Tasks)
         /\ \A i \in InQueue' : i \in Positions(plan) /\ IsPip(i)
         /\ \A i \in Positions(plan) : IsPip(i) => i \in InQueue'
         /\ \A k \in 1 .. Len(queue') : k = 1 /\ NoRepeat(queue'[k])
<1>1. pc = "start" /\ pc' = "pip" /\ UNCHANGED <<plan, next, gitTasks, serial, running>>
  BY DEF SubmitPip, groupVars
<1>2. CASE queue' = << >> /\ \A i \in Positions(plan) : ~ IsPip(i)
  <2>1. Len(queue') = 0 /\ InQueue' = {}
    BY <1>2 DEF InQueue
  <2>2. queue' \in Seq(Tasks)
    BY <1>2
  <2>3. QED
    BY <1>1, <1>2, <2>1, <2>2
<1>3. ASSUME NEW i \in Positions(plan), IsPip(i), queue' = << <<i>> >>
      PROVE  /\ queue' \in Seq(Tasks) /\ InQueue' = {i}
             /\ \A k \in 1 .. Len(queue') : k = 1 /\ NoRepeat(queue'[k])
  <2>1. <<i>> \in Tasks
    BY DEF Tasks
  <2>2. Len(queue') = 1 /\ queue'[1] = <<i>> /\ 1 .. 1 = {1}
    BY <1>3
  <2>3. InQueue' = {i}
    BY <2>2, ElementsOfOne DEF InQueue
  <2>4. QED
    BY <1>3, <2>1, <2>2, <2>3, ElementsOfOne
<1>4. QED
  BY <1>1, <1>2, <1>3, SubmitPipQueue, PipIsOne

LEMMA DispatchEffect ==
  ASSUME TypeOK, Dispatch
  PROVE  /\ pc = "submit" /\ pc' = "submit" /\ ~ shutdown
         /\ next \in Positions(plan) /\ plan[next].priority = group
         /\ next' = After(next) /\ UNCHANGED <<plan, group, running>>
         /\ \/ /\ IsParallelUnsafe(plan[next])
               /\ serial' = Append(serial, next) /\ InSerial' = InSerial \cup {next}
               /\ UNCHANGED <<gitTasks, queue>>
            \/ /\ ~ IsParallelUnsafe(plan[next]) /\ plan[next].source = "git"
               /\ plan[next].repo \in Repos
               /\ gitTasks' = [gitTasks EXCEPT ![plan[next].repo] =
                                 Append(gitTasks[plan[next].repo], next)]
               /\ InGit' = InGit \cup {next}
               /\ UNCHANGED <<serial, queue>>
            \/ /\ ~ IsParallelUnsafe(plan[next]) /\ plan[next].source # "git"
               /\ queue' = Append(queue, <<next>>) /\ <<next>> \in Tasks
               /\ InQueue' = InQueue \cup {next}
               /\ UNCHANGED <<serial, gitTasks>>
<1>1. next <= Len(plan) /\ plan[next].priority = group /\ pc = "submit" /\ pc' = "submit"
      /\ ~ shutdown /\ next' = After(next) /\ UNCHANGED <<plan, group, running>>
  BY DEF Dispatch, InGroup
<1>2. next \in Positions(plan)
  BY <1>1, Numbers, PlanFacts DEF Positions
<1>3. plan[next].repo \in Repos
  BY <1>2, PlanFacts DEF Operation
<1>4. CASE IsParallelUnsafe(plan[next])
  <2>1. serial' = Append(serial, next) /\ UNCHANGED <<gitTasks, queue>>
    BY <1>4 DEF Dispatch
  <2>2. InSerial' = InSerial \cup {next}
    BY <1>2, <2>1, ListTypes, ElementsOfAppend DEF InSerial
  <2>3. QED
    BY <1>1, <1>2, <1>4, <2>1, <2>2
<1>5. CASE ~ IsParallelUnsafe(plan[next]) /\ plan[next].source = "git"
  <2>. DEFINE r == plan[next].repo
  <2>1. gitTasks' = [gitTasks EXCEPT ![r] = Append(gitTasks[r], next)] /\ UNCHANGED <<serial, queue>>
    BY <1>5 DEF Dispatch
  <2>2. Elements(Append(gitTasks[r], next)) = Elements(gitTasks[r]) \cup {next}
    BY <1>2, <1>3, ListTypes, ElementsOfAppend
  <2>3. InGit' = InGit \cup {next}
    BY <1>3, <2>1, <2>2, ListTypes DEF InGit
  <2>4. QED
    BY <1>1, <1>2, <1>3, <1>5, <2>1, <2>3
<1>6. CASE ~ IsParallelUnsafe(plan[next]) /\ plan[next].source # "git"
  <2>1. queue' = Append(queue, <<next>>) /\ UNCHANGED <<serial, gitTasks>>
    BY <1>6 DEF Dispatch
  <2>2. <<next>> \in Tasks
    BY <1>2 DEF Tasks
  <2>3. AllOf(queue') = AllOf(queue) \cup {next}
    BY <2>1, <2>2, ListTypes, AllOfAppend, ElementsOfOne
  <2>4. QED
    BY <1>1, <1>2, <1>6, <2>1, <2>2, <2>3 DEF InQueue, AllOf
<1>7. QED
  BY <1>4, <1>5, <1>6

LEMMA SubmitGitEffect ==
  ASSUME TypeOK, TasksAreApart, SubmitGit
  PROVE  /\ pc = "submit git" /\ pc' = "submit git"
         /\ UNCHANGED <<plan, next, group, serial, running>>
         /\ \E r \in Repos :
              /\ gitTasks[r] # << >> /\ gitTasks[r] \in Tasks
              /\ queue' = Append(queue, gitTasks[r])
              /\ gitTasks' = [gitTasks EXCEPT ![r] = << >>]
              /\ InQueue' = InQueue \cup Elements(gitTasks[r])
              /\ InGit = InGit' \cup Elements(gitTasks[r])
              /\ InGit' \cap Elements(gitTasks[r]) = {}
<1>1. /\ pc = "submit git" /\ pc' = "submit git"
      /\ UNCHANGED <<plan, next, group, serial, running>>
  BY DEF SubmitGit
<1>2. PICK r \in Repos : /\ gitTasks[r] # << >> /\ queue' = Append(queue, gitTasks[r])
                         /\ gitTasks' = [gitTasks EXCEPT ![r] = << >>]
  BY DEF SubmitGit
<1>3. gitTasks[r] \in Tasks
  BY <1>2, ListTypes DEF Tasks
<1>4. AllOf(queue') = AllOf(queue) \cup Elements(gitTasks[r])
  BY <1>2, <1>3, ListTypes, AllOfAppend
<1>5. gitTasks'[r] = << >> /\ \A q \in Repos : q # r => gitTasks'[q] = gitTasks[q]
  BY <1>2, ListTypes
<1>6. InGit = InGit' \cup Elements(gitTasks[r])
  BY <1>5, ElementsOfEmpty DEF InGit
<1>7. InGit' \cap Elements(gitTasks[r]) = {}
  <2>1. ASSUME NEW i \in InGit', i \in Elements(gitTasks[r]) PROVE FALSE
    <3>1. PICK q \in Repos : i \in Elements(gitTasks'[q])
      BY DEF InGit
    <3>2. q # r /\ i \in Elements(gitTasks[q])
      BY <1>5, <3>1, ElementsOfEmpty
    <3>3. plan[i].repo = q /\ plan[i].repo = r
      BY <2>1, <3>2 DEF TasksAreApart
    <3>4. QED
      BY <3>2, <3>3
  <2>2. QED
    BY <2>1
<1>8. QED
  BY <1>1, <1>2, <1>3, <1>4, <1>6, <1>7 DEF InQueue, AllOf

LEMMA NextSerialEffect ==
  ASSUME TypeOK, NothingRepeats, NextSerial
  PROVE  /\ pc = "serial" /\ pc' = "serial"
         /\ UNCHANGED <<plan, next, group, gitTasks, queue, running>>
         /\ serial # << >> /\ serial' = Tail(serial) /\ stage[Head(serial)] \in Terminal
         /\ InSerial = {Head(serial)} \cup InSerial' /\ Head(serial) \notin InSerial'
         /\ NoRepeat(serial')
<1>1. /\ pc = "serial" /\ pc' = "serial"
      /\ UNCHANGED <<plan, next, group, gitTasks, queue, running>>
      /\ serial # << >> /\ serial' = Tail(serial) /\ stage[Head(serial)] \in Terminal
  BY DEF NextSerial
<1>2. QED
  BY <1>1, ListTypes, ElementsOfTail DEF InSerial, NothingRepeats

LEMMA CancelEffect ==
  ASSUME CancelFutures
  PROVE  /\ pc = "closing" /\ pc' = "draining"
         /\ UNCHANGED <<plan, next, group, gitTasks, serial, running>>
         /\ queue' = << >> /\ InQueue' = {} /\ Len(queue') = 0
<1>1. /\ pc = "closing" /\ pc' = "draining" /\ queue' = << >>
      /\ UNCHANGED <<plan, next, group, gitTasks, serial, running>>
  BY DEF CancelFutures, groupVars
<1>2. Len(queue') = 0
  BY <1>1
<1>3. InQueue' = {}
  BY <1>2 DEF InQueue
<1>4. QED
  BY <1>1, <1>2, <1>3

LEMMA TakeEffect ==
  ASSUME TypeOK, TasksAreApart, Take
  PROVE  /\ UNCHANGED <<plan, pc, next, group, gitTasks, serial>>
         /\ queue # << >> /\ Head(queue) \in Tasks /\ Head(queue) = queue[1]
         /\ queue' = Tail(queue) /\ queue' \in Seq(Tasks)
         /\ Len(queue') = Len(queue) - 1 /\ Len(queue) \in Nat \ {0}
         /\ \A k \in 1 .. Len(queue') : queue'[k] = queue[k + 1] /\ k + 1 \in 2 .. Len(queue)
         /\ running' = running \cup {Head(queue)} /\ Cardinality(running) < MaxWorkers
         /\ InQueue = InQueue' \cup Elements(Head(queue))
         /\ InQueue' \cap Elements(Head(queue)) = {}
         /\ InPool' = InPool \cup Elements(Head(queue))
<1>1. /\ UNCHANGED <<plan, pc, next, group, gitTasks, serial>>
      /\ queue # << >> /\ queue' = Tail(queue) /\ running' = running \cup {Head(queue)}
      /\ Cardinality(running) < MaxWorkers
  BY DEF Take, HasThread, groupVars
<1>2. /\ Head(queue) \in Tasks /\ Head(queue) = queue[1] /\ queue' \in Seq(Tasks)
      /\ Len(queue') = Len(queue) - 1 /\ Len(queue) \in Nat \ {0}
      /\ \A k \in 1 .. Len(queue) - 1 : queue'[k] = queue[k + 1]
  BY <1>1, ListTypes, ElementsOfTail
<1>3. \A k \in 1 .. Len(queue') : queue'[k] = queue[k + 1] /\ k + 1 \in 2 .. Len(queue)
  BY <1>2
<1>4. AllOf(queue) = AllOf(queue') \cup Elements(Head(queue))
  BY <1>1, ListTypes, AllOfTail
<1>5. InQueue' \cap Elements(Head(queue)) = {}
  <2>1. ASSUME NEW i \in InQueue', i \in Elements(Head(queue)) PROVE FALSE
    <3>1. PICK k \in 1 .. Len(queue') : i \in Elements(queue'[k])
      BY DEF InQueue
    <3>2. i \in Elements(queue[k + 1]) /\ k + 1 \in 1 .. Len(queue) /\ 1 \in 1 .. Len(queue) /\ k + 1 # 1
      BY <1>2, <1>3, <3>1
    <3>3. Apart(queue[k + 1], queue[1])
      BY <3>2 DEF TasksAreApart
    <3>4. QED
      BY <1>2, <2>1, <3>2, <3>3 DEF Apart
  <2>2. QED
    BY <2>1
<1>6. InPool' = InPool \cup Elements(Head(queue))
  BY <1>1 DEF InPool
<1>7. QED
  BY <1>1, <1>2, <1>3, <1>4, <1>5, <1>6 DEF InQueue, AllOf

LEMMA ProceedEffect ==
  ASSUME TypeOK, TasksAreApart, NothingRepeats, NEW t \in running, Proceed(t)
  PROVE  /\ UNCHANGED <<plan, pc, next, group, gitTasks, serial, queue>>
         /\ t \in Tasks /\ Head(t) \in Positions(plan) /\ stage[Head(t)] \in Terminal
         /\ \/ Tail(t) = << >> /\ running' = running \ {t}
            \/ Tail(t) \in Tasks /\ running' = (running \ {t}) \cup {Tail(t)}
         /\ Elements(t) = {Head(t)} \cup Elements(Tail(t)) /\ Head(t) \notin Elements(Tail(t))
         /\ NoRepeat(Tail(t)) /\ Len(Tail(t)) = Len(t) - 1 /\ Len(t) \in Nat \ {0}
         /\ \A k \in 1 .. Len(t) - 1 : Tail(t)[k] = t[k + 1]
         /\ InPool = {Head(t)} \cup InPool' /\ Head(t) \notin InPool'
<1>1. /\ UNCHANGED <<plan, pc, next, group, gitTasks, serial, queue>>
      /\ stage[Head(t)] \in Terminal
      /\ running' = (running \ {t}) \cup (IF Tail(t) = << >> THEN {} ELSE {Tail(t)})
  BY DEF Proceed, groupVars
<1>2. t \in Tasks /\ t \in Seq(Positions(plan)) /\ t # << >> /\ NoRepeat(t)
  BY ListTypes DEF Tasks, NothingRepeats
<1>3. /\ Head(t) \in Positions(plan) /\ Tail(t) \in Seq(Positions(plan))
      /\ Elements(t) = {Head(t)} \cup Elements(Tail(t)) /\ Head(t) \notin Elements(Tail(t))
      /\ NoRepeat(Tail(t)) /\ Len(Tail(t)) = Len(t) - 1 /\ Len(t) \in Nat \ {0}
      /\ \A k \in 1 .. Len(t) - 1 : Tail(t)[k] = t[k + 1]
  BY <1>2, ElementsOfTail
<1>4. \/ Tail(t) = << >> /\ running' = running \ {t}
      \/ Tail(t) \in Tasks /\ running' = (running \ {t}) \cup {Tail(t)}
  BY <1>1, <1>3 DEF Tasks
<1>5. \A x : x \in InPool <=> \E u \in running : x \in Elements(u)
  BY DEF InPool
<1>6. \A x : x \in InPool' <=> \E u \in running' : x \in Elements(u)
  BY DEF InPool
<1>7. \A u \in running \ {t} : Head(t) \notin Elements(u)
  BY <1>3 DEF TasksAreApart, Apart
<1>8. Head(t) \notin InPool'
  BY <1>3, <1>4, <1>6, <1>7
<1>9. ASSUME NEW x PROVE x \in InPool <=> x = Head(t) \/ x \in InPool'
  <2>1. x \in InPool' => x \in InPool
    BY <1>3, <1>4, <1>5, <1>6
  <2>2. x \in InPool => x = Head(t) \/ x \in InPool'
    <3>1. x \in Elements(Tail(t)) => x \in InPool'
      BY <1>4, <1>6, ElementsOfEmpty
    <3>2. QED
      BY <1>3, <1>4, <1>5, <1>6, <3>1
  <2>3. Head(t) \in InPool
    BY <1>3, <1>5
  <2>4. QED
    BY <2>1, <2>2, <2>3
<1>10. InPool = {Head(t)} \cup InPool'
  BY <1>9
<1>11. QED
  BY <1>1, <1>2, <1>3, <1>4, <1>8, <1>10

LEMMA AppendType ==
  ASSUME NEW S, NEW seq \in Seq(S), NEW x \in S
  PROVE  Append(seq, x) \in Seq(S)
OBVIOUS

(* The part of the types that the list steps are about.                    *)
ListsOK ==
  /\ pc \in {"start", "pip", "submit", "submit git", "wait", "serial", "closing",
             "draining", "returned", "raised"}
  /\ next \in 1 .. Len(plan) + 1
  /\ gitTasks \in [Repos -> Seq(Positions(plan))]
  /\ serial \in Seq(Positions(plan))
  /\ queue \in Seq(Tasks)
  /\ running \subseteq Tasks
  /\ Cardinality(running) <= MaxWorkers
  /\ IsFiniteSet(running)

LEMMA ListStepTypes ==
  ASSUME TypeOK, IsFiniteSet(running), TasksAreApart, NothingRepeats, ListStep
  PROVE  TypeOK' /\ IsFiniteSet(running')
<1>1. /\ UNCHANGED <<plan, forReal, group, stage, env, shutdown, executed, seen, lock, hit, interrupts>>
      /\ Tasks' = Tasks /\ Positions(plan)' = Positions(plan)
  BY ListStepKeeps DEF Tasks
<1>2. ListsOK
  BY DEF ListsOK, TypeOK, Tasks
<1>3. CASE SubmitPip
  <2>1. ListsOK'
    BY <1>1, <1>2, <1>3, SubmitPipEffect DEF ListsOK
  <2>2. QED
    BY <1>1, <2>1 DEF ListsOK, TypeOK, Tasks, Stages
<1>4. CASE Dispatch
  <2>1. next' \in 1 .. Len(plan) + 1
    BY <1>4, DispatchEffect, AfterFacts, PlanFacts DEF Positions
  <2>2. next \in Positions(plan) /\ UNCHANGED running /\ pc' = "submit"
    BY <1>4, DispatchEffect
  <2>3. /\ gitTasks' \in [Repos -> Seq(Positions(plan))] /\ serial' \in Seq(Positions(plan))
        /\ queue' \in Seq(Tasks)
    <3>1. \A r \in Repos : Append(gitTasks[r], next) \in Seq(Positions(plan))
      BY <2>2, ListTypes, AppendType
    <3>2. Append(serial, next) \in Seq(Positions(plan))
      BY <2>2, ListTypes, AppendType
    <3>3. <<next>> \in Tasks => Append(queue, <<next>>) \in Seq(Tasks)
      BY ListTypes, AppendType
    <3>4. QED
      BY <1>4, <3>1, <3>2, <3>3, ListTypes, DispatchEffect
  <2>4. ListsOK'
    BY <1>1, <1>2, <2>1, <2>2, <2>3 DEF ListsOK
  <2>5. QED
    BY <1>1, <2>4 DEF ListsOK, TypeOK, Tasks, Stages
<1>5. CASE SubmitGit
  <2>1. PICK r \in Repos : /\ gitTasks[r] \in Tasks /\ queue' = Append(queue, gitTasks[r])
                           /\ gitTasks' = [gitTasks EXCEPT ![r] = << >>]
    BY <1>5, SubmitGitEffect
  <2>2. queue' \in Seq(Tasks)
    BY <2>1, ListTypes, AppendType
  <2>3. gitTasks' \in [Repos -> Seq(Positions(plan))]
    BY <2>1, ListTypes
  <2>4. UNCHANGED <<next, serial, running>> /\ pc' = "submit git"
    BY <1>5, SubmitGitEffect
  <2>5. ListsOK'
    BY <1>1, <1>2, <2>2, <2>3, <2>4 DEF ListsOK
  <2>6. QED
    BY <1>1, <2>5 DEF ListsOK, TypeOK, Tasks, Stages
<1>6. CASE NextSerial
  <2>1. UNCHANGED <<next, gitTasks, queue, running>> /\ pc' = "serial"
        /\ serial # << >> /\ serial' = Tail(serial)
    BY <1>6, NextSerialEffect
  <2>2. serial' \in Seq(Positions(plan))
    BY <2>1, ListTypes, ElementsOfTail
  <2>3. ListsOK'
    BY <1>1, <1>2, <2>1, <2>2 DEF ListsOK
  <2>4. QED
    BY <1>1, <2>3 DEF ListsOK, TypeOK, Tasks, Stages
<1>7. CASE CancelFutures
  <2>1. ListsOK'
    BY <1>1, <1>2, <1>7, CancelEffect DEF ListsOK
  <2>2. QED
    BY <1>1, <2>1 DEF ListsOK, TypeOK, Tasks, Stages
<1>8. CASE Take
  <2>. DEFINE t == Head(queue)
  <2>0. running' = running \cup {t} /\ Cardinality(running) < MaxWorkers
    BY <1>8, TakeEffect
  <2>1. IsFiniteSet(running') /\ Cardinality(running) \in Nat
        /\ Cardinality(running') \in {Cardinality(running), Cardinality(running) + 1}
    BY <2>0, FS_AddElement, FS_CardinalityType
  <2>2. Cardinality(running') <= MaxWorkers
    BY <2>0, <2>1, ExecutorAssumption
  <2>3. ListsOK'
    BY <1>1, <1>2, <1>8, <2>1, <2>2, TakeEffect DEF ListsOK
  <2>4. QED
    BY <1>1, <2>3 DEF ListsOK, TypeOK, Tasks, Stages
<1>9. ASSUME NEW t \in running, Proceed(t) PROVE TypeOK' /\ IsFiniteSet(running')
  <2>1. IsFiniteSet(running \ {t}) /\ Cardinality(running \ {t}) = Cardinality(running) - 1
        /\ Cardinality(running) \in Nat
    BY FS_RemoveElement, FS_CardinalityType
  <2>0. \/ running' = running \ {t}
        \/ running' = (running \ {t}) \cup {Tail(t)} /\ Tail(t) \in Tasks
    BY <1>9, ProceedEffect
  <2>2. /\ IsFiniteSet(running')
        /\ Cardinality(running') \in {Cardinality(running) - 1, Cardinality(running)}
    <3>1. CASE running' = running \ {t}
      BY <2>1, <3>1
    <3>2. CASE running' = (running \ {t}) \cup {Tail(t)}
      <4>1. /\ IsFiniteSet(running')
            /\ Cardinality(running') \in {Cardinality(running \ {t}), Cardinality(running \ {t}) + 1}
        BY <2>1, <3>2, FS_AddElement
      <4>2. QED
        BY <2>1, <4>1
    <3>3. QED
      BY <2>0, <3>1, <3>2
  <2>3. Cardinality(running') <= MaxWorkers
    <3>1. Cardinality(running) <= MaxWorkers /\ MaxWorkers \in Nat
      BY <1>2, ExecutorAssumption DEF ListsOK
    <3>2. QED
      BY <2>1, <2>2, <3>1
  <2>4. running' \subseteq Tasks
    BY <2>0, ListTypes
  <2>7. UNCHANGED <<pc, next, gitTasks, serial, queue>>
    BY <1>9, ProceedEffect
  <2>5. ListsOK'
    BY <1>1, <1>2, <2>2, <2>3, <2>4, <2>7 DEF ListsOK
  <2>6. QED
    BY <1>1, <2>5 DEF ListsOK, TypeOK, Tasks, Stages
<1>10. QED
  BY <1>3, <1>4, <1>5, <1>6, <1>7, <1>8, <1>9 DEF ListStep, Threads

-----------------------------------------------------------------------------
(* Tasks are apart, and nothing is in two places *)

LEMMA ApartIsSymmetric ==
  ASSUME NEW t, NEW u, Apart(t, u)
  PROVE  Apart(u, t)
BY DEF Apart, ShareClone

LEMMA AppendCases ==
  ASSUME NEW S, NEW seq \in Seq(S), NEW x \in S, NEW k \in 1 .. Len(Append(seq, x))
  PROVE  \/ k \in 1 .. Len(seq) /\ Append(seq, x)[k] = seq[k]
         \/ k = Len(seq) + 1 /\ Append(seq, x)[k] = x
OBVIOUS

LEMMA Members ==
  /\ \A k \in 1 .. Len(queue) : Elements(queue[k]) \subseteq InQueue
  /\ \A t \in running : Elements(t) \subseteq InPool
  /\ \A r \in Repos : Elements(gitTasks[r]) \subseteq InGit
BY DEF InQueue, InPool, InGit

(* The next operation is in no list yet.                                   *)
LEMMA NextIsNew ==
  ASSUME TypeOK, ListsFitGroup, Dispatch
  PROVE  /\ next \notin Listed /\ ~ HasBegun(next) /\ ~ IsPip(next)
         /\ \A i \in InQueue \cup InPool : plan[i].source # "git"
BY DispatchEffect, Numbers, PlanFacts DEF ListsFitGroup, Positions

LEMMA TasksSame ==
  ASSUME TasksAreApart, NothingRepeats, UNCHANGED <<plan, queue, running, gitTasks, serial>>
  PROVE  TasksAreApart' /\ NothingRepeats'
BY DEF TasksAreApart, NothingRepeats, Apart, NoRepeat, InSerial, InQueue, InPool, InGit

LEMMA TasksListStep ==
  ASSUME TypeOK, Placement, ListStep
  PROVE  TasksAreApart' /\ NothingRepeats'
<1>0. /\ TasksAreApart /\ NothingRepeats /\ ListsFitGroup
      /\ plan' = plan
      /\ \A t, u : Apart(t, u)' <=> Apart(t, u)
  BY ListStepKeeps DEF Placement, Apart
<1>1. CASE SubmitPip
  <2>1. InPool = {} /\ InGit = {} /\ InSerial = {}
    BY <1>0, <1>1, SubmitPipEffect DEF ListsFitGroup, Listed
  <2>2. /\ UNCHANGED <<gitTasks, serial, running, InPool, InGit, InSerial>>
        /\ \A k \in 1 .. Len(queue') : k = 1 /\ NoRepeat(queue'[k])
    BY <1>1, SubmitPipEffect DEF InPool, InGit, InSerial
  <2>3. \A t : Elements(t) = {} => \A u : Apart(t, u) /\ Apart(u, t)
    BY DEF Apart
  <2>4. (\A t \in running : Elements(t) = {}) /\ \A r \in Repos : Elements(gitTasks[r]) = {}
    BY <2>1, Members
  <2>5. TasksAreApart'
    BY <1>0, <2>2, <2>3, <2>4 DEF TasksAreApart
  <2>6. NothingRepeats'
    BY <1>0, <2>1, <2>2 DEF NothingRepeats
  <2>7. QED
    BY <2>5, <2>6
<1>2. CASE Dispatch
  <2>1. /\ next \in Positions(plan) /\ next \notin Listed
        /\ (\A i \in InQueue \cup InPool : plan[i].source # "git")
        /\ running' = running /\ InPool' = InPool
    BY <1>0, <1>2, DispatchEffect, NextIsNew DEF InPool
  <2>2. CASE serial' = Append(serial, next) /\ InSerial' = InSerial \cup {next}
             /\ UNCHANGED <<gitTasks, queue>>
    <3>1. NoRepeat(serial')
      BY <1>0, <2>1, <2>2, ListTypes, ElementsOfAppend DEF NothingRepeats, Listed, InSerial
    <3>2. UNCHANGED <<InQueue, InGit>>
      BY <2>2 DEF InQueue, InGit
    <3>3. TasksAreApart'
      BY <1>0, <2>1, <2>2 DEF TasksAreApart
    <3>4. NothingRepeats'
      BY <1>0, <2>1, <2>2, <3>1, <3>2 DEF NothingRepeats, Listed
    <3>5. QED
      BY <3>3, <3>4
  <2>3. ASSUME NEW r \in Repos, r = plan[next].repo, plan[next].source = "git",
               gitTasks' = [gitTasks EXCEPT ![r] = Append(gitTasks[r], next)],
               InGit' = InGit \cup {next}, UNCHANGED <<serial, queue>>
        PROVE  TasksAreApart' /\ NothingRepeats'
    <3>1. UNCHANGED <<InQueue, InSerial>>
      BY <2>3 DEF InQueue, InSerial
    <3>2. /\ gitTasks'[r] = Append(gitTasks[r], next)
          /\ \A q \in Repos : q # r => gitTasks'[q] = gitTasks[q]
      BY <2>3, ListTypes
    <3>3. /\ Elements(gitTasks'[r]) = Elements(gitTasks[r]) \cup {next}
          /\ NoRepeat(gitTasks'[r])
      <4>1. next \notin Elements(gitTasks[r]) /\ NoRepeat(gitTasks[r])
        BY <1>0, <2>1, Members DEF NothingRepeats, Listed
      <4>2. QED
        BY <2>1, <3>2, <4>1, ListTypes, ElementsOfAppend
    <3>4. \A t : Elements(t) \subseteq InQueue \cup InPool /\ Apart(gitTasks[r], t) =>
            Apart(gitTasks'[r], t)
      <4>1. ASSUME NEW t, Elements(t) \subseteq InQueue \cup InPool, Apart(gitTasks[r], t),
                   NEW i \in Elements(gitTasks'[r]), NEW j \in Elements(t)
            PROVE  i # j /\ ~ ShareClone(plan[i], plan[j])
        BY <2>1, <3>3, <4>1 DEF Apart, ShareClone, Listed
      <4>2. QED
        BY <4>1 DEF Apart
    <3>5. TasksAreApart'
      <4>1. \A q \in Repos : \A i \in Elements(gitTasks'[q]) : plan[i].source = "git" /\ plan[i].repo = q
        BY <1>0, <2>3, <3>2, <3>3 DEF TasksAreApart
      <4>2. \A q \in Repos : /\ \A k \in 1 .. Len(queue) : Apart(gitTasks'[q], queue[k])
                             /\ \A t \in running : Apart(gitTasks'[q], t)
        BY <1>0, <3>2, <3>4, Members DEF TasksAreApart
      <4>3. QED
        BY <1>0, <2>1, <2>3, <4>1, <4>2 DEF TasksAreApart
    <3>6. NothingRepeats'
      BY <1>0, <2>1, <2>3, <3>1, <3>2, <3>3 DEF NothingRepeats, Listed
    <3>7. QED
      BY <3>5, <3>6
  <2>4. CASE plan[next].source # "git" /\ queue' = Append(queue, <<next>>) /\ <<next>> \in Tasks
             /\ InQueue' = InQueue \cup {next} /\ UNCHANGED <<serial, gitTasks>>
    <3>1. \A k \in 1 .. Len(queue') : \/ k \in 1 .. Len(queue) /\ queue'[k] = queue[k]
                                      \/ k = Len(queue) + 1 /\ queue'[k] = <<next>>
      BY <2>4, ListTypes, AppendCases
    <3>2. UNCHANGED <<InGit, InSerial>>
      BY <2>4 DEF InGit, InSerial
    <3>3. \A t : next \notin Elements(t) => Apart(t, <<next>>) /\ Apart(<<next>>, t)
      BY <2>4, ElementsOfOne DEF Apart, ShareClone
    <3>4. /\ \A k \in 1 .. Len(queue) : next \notin Elements(queue[k])
          /\ \A t \in running : next \notin Elements(t)
          /\ \A r \in Repos : next \notin Elements(gitTasks[r])
      BY <2>1, Members DEF Listed
    <3>5. TasksAreApart'
      BY <1>0, <2>1, <2>4, <3>1, <3>3, <3>4 DEF TasksAreApart
    <3>6. NothingRepeats'
      BY <1>0, <2>1, <2>4, <3>1, <3>2, ElementsOfOne DEF NothingRepeats, Listed
    <3>7. QED
      BY <3>5, <3>6
  <2>5. QED
    BY <1>2, <2>2, <2>3, <2>4, DispatchEffect
<1>3. CASE SubmitGit
  <2>1. /\ UNCHANGED <<serial, running, InSerial, InPool>>
        /\ \E r \in Repos :
              /\ gitTasks[r] \in Tasks /\ queue' = Append(queue, gitTasks[r])
              /\ gitTasks' = [gitTasks EXCEPT ![r] = << >>]
              /\ InQueue' = InQueue \cup Elements(gitTasks[r])
              /\ InGit = InGit' \cup Elements(gitTasks[r])
    BY <1>0, <1>3, SubmitGitEffect DEF InSerial, InPool
  <2>2. PICK r \in Repos :
              /\ gitTasks[r] \in Tasks /\ queue' = Append(queue, gitTasks[r])
              /\ gitTasks' = [gitTasks EXCEPT ![r] = << >>]
              /\ InQueue' = InQueue \cup Elements(gitTasks[r])
              /\ InGit = InGit' \cup Elements(gitTasks[r])
    BY <2>1
  <2>3. \A k \in 1 .. Len(queue') : \/ k \in 1 .. Len(queue) /\ queue'[k] = queue[k]
                                    \/ k = Len(queue) + 1 /\ queue'[k] = gitTasks[r]
    BY <2>2, ListTypes, AppendCases
  <2>4. /\ Elements(gitTasks'[r]) = {} /\ NoRepeat(gitTasks'[r])
        /\ \A q \in Repos : q # r => gitTasks'[q] = gitTasks[q]
    BY <2>2, ListTypes, ElementsOfEmpty
  <2>5. \A q \in Repos : Apart(gitTasks'[q], gitTasks[r])
    <3>1. ASSUME NEW q \in Repos, q # r, NEW i \in Elements(gitTasks[q]), NEW j \in Elements(gitTasks[r])
          PROVE  i # j /\ ~ ShareClone(plan[i], plan[j])
      BY <1>0, <3>1 DEF TasksAreApart, ShareClone
    <3>2. QED
      BY <2>4, <3>1 DEF Apart
  <2>6. /\ \A k \in 1 .. Len(queue) : Apart(gitTasks[r], queue[k]) /\ Apart(queue[k], gitTasks[r])
        /\ \A t \in running : Apart(gitTasks[r], t)
    BY <1>0, ApartIsSymmetric DEF TasksAreApart
  <2>7. TasksAreApart'
    <3>1. \A q \in Repos :
            /\ \A i \in Elements(gitTasks'[q]) : plan[i].source = "git" /\ plan[i].repo = q
            /\ \A k \in 1 .. Len(queue) : Apart(gitTasks'[q], queue[k])
            /\ \A t \in running : Apart(gitTasks'[q], t)
      BY <1>0, <2>4, SMTT(30) DEF TasksAreApart, Apart
    <3>2. QED
      BY <1>0, <2>1, <2>3, <2>5, <2>6, <3>1 DEF TasksAreApart
  <2>8. NothingRepeats'
    BY <1>0, <2>1, <2>2, <2>3, <2>4 DEF NothingRepeats
  <2>9. QED
    BY <2>7, <2>8
<1>4. CASE NextSerial
  <2>1. /\ UNCHANGED <<gitTasks, queue, running, InGit, InQueue, InPool>>
        /\ InSerial' \subseteq InSerial /\ NoRepeat(serial')
    BY <1>0, <1>4, NextSerialEffect DEF InGit, InQueue, InPool
  <2>2. QED
    BY <1>0, <2>1 DEF TasksAreApart, NothingRepeats
<1>5. CASE CancelFutures
  <2>1. /\ UNCHANGED <<gitTasks, serial, running, InGit, InSerial, InPool>>
        /\ InQueue' = {} /\ \A k \in 1 .. Len(queue') : FALSE
    BY <1>5, CancelEffect DEF InGit, InSerial, InPool
  <2>2. QED
    BY <1>0, <2>1 DEF TasksAreApart, NothingRepeats
<1>6. CASE Take
  <2>1. /\ UNCHANGED <<gitTasks, serial, InGit, InSerial>>
        /\ \A k \in 1 .. Len(queue') : queue'[k] = queue[k + 1] /\ k + 1 \in 2 .. Len(queue)
        /\ \A k \in 2 .. Len(queue) : k \in 1 .. Len(queue) /\ k # 1
        /\ 1 \in 1 .. Len(queue) /\ running' = running \cup {queue[1]}
        /\ InQueue' \cup InPool' = InQueue \cup InPool
    BY <1>0, <1>6, TakeEffect DEF InGit, InSerial
  <2>2. \A k, m \in 1 .. Len(queue') : k # m => k + 1 # m + 1
    OBVIOUS
  <2>3. TasksAreApart'
    <3>1. /\ \A k, m \in 1 .. Len(queue') : k # m => Apart(queue'[k], queue'[m])
          /\ \A t, u \in running' : t # u => Apart(t, u)
      BY <1>0, <2>1, <2>2, ApartIsSymmetric DEF TasksAreApart
    <3>2. \A k \in 1 .. Len(queue'), t \in running' : Apart(queue'[k], t)
      BY <1>0, <2>1 DEF TasksAreApart
    <3>3. QED
      BY <1>0, <2>1, <3>1, <3>2 DEF TasksAreApart
  <2>4. NothingRepeats'
    BY <1>0, <2>1 DEF NothingRepeats
  <2>5. QED
    BY <2>3, <2>4
<1>7. ASSUME NEW t \in running, Proceed(t) PROVE TasksAreApart' /\ NothingRepeats'
  <2>1. /\ UNCHANGED <<gitTasks, serial, queue, InGit, InSerial, InQueue>>
        /\ Elements(Tail(t)) \subseteq Elements(t) /\ NoRepeat(Tail(t)) /\ InPool' \subseteq InPool
    BY <1>0, <1>7, ProceedEffect DEF InGit, InSerial, InQueue
  <2>2. \A u \in running' : u = Tail(t) \/ (u \in running /\ u # t)
    BY <1>0, <1>7, ProceedEffect
  <2>3. \A u : Apart(t, u) => Apart(Tail(t), u) /\ Apart(u, Tail(t))
    BY <2>1, ApartIsSymmetric DEF Apart
  <2>4. TasksAreApart'
    <3>0. /\ \A u \in running : u # t => Apart(t, u) /\ Apart(Tail(t), u) /\ Apart(u, Tail(t))
          /\ \A k \in 1 .. Len(queue) : Apart(queue[k], Tail(t))
          /\ \A r \in Repos : Apart(gitTasks[r], Tail(t))
      <4>1. \A u : Apart(u, t) => Apart(t, u)
        BY ApartIsSymmetric
      <4>2. QED
        BY <1>0, <2>3, <4>1 DEF TasksAreApart
    <3>1. ASSUME NEW u \in running', NEW v \in running', u # v PROVE Apart(u, v)
      <4>1. \A x, y \in running : x # y => Apart(x, y)
        BY <1>0 DEF TasksAreApart
      <4>2. CASE u = Tail(t) /\ v \in running /\ v # t
        BY <3>0, <4>2
      <4>3. CASE v = Tail(t) /\ u \in running /\ u # t
        BY <3>0, <4>3
      <4>4. CASE u \in running /\ v \in running
        BY <3>1, <4>1, <4>4
      <4>5. u = Tail(t) \/ (u \in running /\ u # t)
        BY <2>2
      <4>6. v = Tail(t) \/ (v \in running /\ v # t)
        BY <2>2
      <4>7. CASE u = Tail(t)
        <5>1. v \in running /\ v # t
          BY <3>1, <4>6, <4>7
        <5>2. QED
          BY <4>2, <4>7, <5>1
      <4>8. CASE u \in running /\ u # t
        BY <4>3, <4>4, <4>6, <4>8
      <4>9. QED
        BY <4>5, <4>7, <4>8
    <3>2. /\ \A k \in 1 .. Len(queue), u \in running' : Apart(queue[k], u)
          /\ \A r \in Repos, u \in running' : Apart(gitTasks[r], u)
      <4>1. /\ \A k \in 1 .. Len(queue), u \in running : Apart(queue[k], u)
            /\ \A r \in Repos, u \in running : Apart(gitTasks[r], u)
        BY <1>0 DEF TasksAreApart
      <4>2. \A u \in running' : u = Tail(t) \/ u \in running
        BY <2>2
      <4>3. QED
        BY <3>0, <4>1, <4>2
    <3>3. QED
      BY <1>0, <2>1, <3>1, <3>2 DEF TasksAreApart
  <2>5. NothingRepeats'
    BY <1>0, <2>1, <2>2 DEF NothingRepeats
  <2>6. QED
    BY <2>4, <2>5
<1>8. QED
  BY <1>1, <1>2, <1>3, <1>4, <1>5, <1>6, <1>7 DEF ListStep, Threads

-----------------------------------------------------------------------------
(* Steps of an operation keep the placement *)

LEMMA QuietLists == Quiet => InQueue = {} /\ InPool = {}
<1>1. Quiet => Len(queue) = 0 /\ running = {}
  BY DEF Quiet
<1>2. QED
  BY <1>1 DEF InQueue, InPool

(* An operation in progress is in one place, and first there.              *)
LEMMA InProgressIsFirst ==
  ASSUME TypeOK, Placement, NEW i \in InProgress
  PROVE  /\ i \in Positions(plan) /\ i \in InPool \cup InSerial
         /\ i \notin InQueue \cup InGit
         /\ \A k \in 2 .. Len(serial) : serial[k] # i
         /\ \A t \in running : \A k \in 2 .. Len(t) : t[k] # i
         /\ pc \notin {"start", "returned"}
<1>0. TasksAreApart /\ NothingRepeats /\ ListsFitGroup
  BY DEF Placement
<1>1. \/ \E t \in running : i = Head(t)
      \/ pc = "serial" /\ serial # << >> /\ i = Head(serial) /\ running = {}
  BY <1>0 DEF InProgress, ListsFitGroup, Quiet
<1>2. i \in Positions(plan) /\ i \in InPool \cup InSerial
  BY ListedAreOperations
<1>3. pc \notin {"start", "returned"}
  BY <1>0, <1>1, <1>2 DEF ListsFitGroup, Listed, Quiet
<1>4. ASSUME NEW t \in running, i = Head(t)
      PROVE  /\ i \notin InQueue \cup InGit
             /\ \A k \in 2 .. Len(serial) : serial[k] # i
             /\ \A u \in running : \A k \in 2 .. Len(u) : u[k] # i
  <2>1. t \in Seq(Positions(plan)) /\ t # << >> /\ i \in Elements(t) /\ i = t[1] /\ 1 \in 1 .. Len(t)
    BY <1>4, ListTypes, HeadIsElement DEF Tasks
  <2>2. i \in InPool
    BY <2>1, Members
  <2>3. i \notin InQueue \cup InGit
    <3>1. ASSUME NEW k \in 1 .. Len(queue), i \in Elements(queue[k]) PROVE FALSE
      BY <1>0, <2>1, <3>1 DEF TasksAreApart, Apart
    <3>2. ASSUME NEW r \in Repos, i \in Elements(gitTasks[r]) PROVE FALSE
      BY <1>0, <2>1, <3>2 DEF TasksAreApart, Apart
    <3>3. QED
      BY <3>1, <3>2 DEF InQueue, InGit
  <2>4. \A k \in 2 .. Len(serial) : serial[k] \in InSerial
    BY DEF InSerial, Elements
  <2>5. \A k \in 2 .. Len(serial) : serial[k] # i
    BY <1>0, <2>2, <2>4 DEF NothingRepeats
  <2>6. \A u \in running : \A k \in 2 .. Len(u) : u[k] \in Elements(u) /\ k \in 1 .. Len(u) /\ k # 1
    BY DEF Elements
  <2>7. \A u \in running : u # t => \A j \in Elements(u) : j # i
    BY <1>0, <2>1 DEF TasksAreApart, Apart
  <2>8. \A k \in 1 .. Len(t) : k # 1 => t[k] # i
    BY <1>0, <2>1 DEF NothingRepeats, NoRepeat
  <2>9. QED
    BY <2>3, <2>5, <2>6, <2>7, <2>8
<1>5. ASSUME serial # << >>, i = Head(serial), running = {}
      PROVE  /\ i \notin InQueue \cup InGit
             /\ \A k \in 2 .. Len(serial) : serial[k] # i
             /\ \A u \in running : \A k \in 2 .. Len(u) : u[k] # i
  <2>1. i \in InSerial /\ i = serial[1] /\ Len(serial) >= 1 /\ Len(serial) \in Nat
    BY <1>5, ListTypes, HeadIsElement DEF InSerial
  <2>2. \A k \in 2 .. Len(serial) : k \in 1 .. Len(serial) /\ k # 1
    BY <2>1
  <2>3. 1 \in 1 .. Len(serial)
    BY <2>1
  <2>4. QED
    BY <1>0, <1>5, <2>1, <2>2, <2>3 DEF NothingRepeats, NoRepeat
<1>6. QED
  BY <1>1, <1>2, <1>3, <1>4, <1>5

LEMMA WorkKeepsPlacement ==
  ASSUME TypeOK, Placement, NEW i \in Positions(plan), Works(i)
  PROVE  Placement'
<1>1. /\ i \in InProgress /\ stage[i] \notin Terminal
      /\ UNCHANGED <<plan, pc, next, group, gitTasks, serial, queue, running>>
      /\ (shutdown => shutdown') /\ (stage'[i] \in {"failed", "cancelled"} => shutdown')
  BY DEF Works
<1>2. /\ \A j \in Positions(plan) : j # i => stage'[j] = stage[j]
      /\ stage'[i] # "pending"
  BY DEF Works, TypeOK
<1>3. UNCHANGED <<InQueue, InPool, InGit, InSerial, Listed, InProgress, Quiet>>
  BY <1>1 DEF InQueue, InPool, InGit, InSerial, Listed, InProgress, Quiet
<1>4. /\ i \in InPool \cup InSerial /\ i \in Listed
      /\ i \notin InQueue \cup InGit
      /\ \A k \in 2 .. Len(serial) : serial[k] # i
      /\ \A t \in running : \A k \in 2 .. Len(t) : t[k] # i
      /\ pc \notin {"start", "returned"}
  BY <1>1, InProgressIsFirst DEF Listed
<1>5. /\ \A k \in 2 .. Len(serial) : serial[k] \in Positions(plan)
      /\ \A t \in running : \A k \in 2 .. Len(t) : t[k] \in Positions(plan)
      /\ InQueue \cup InGit \subseteq Positions(plan)
  <2>1. \A k \in 2 .. Len(serial) : serial[k] \in InSerial
    BY DEF InSerial, Elements
  <2>2. \A t \in running : \A k \in 2 .. Len(t) : t[k] \in Elements(t)
    BY DEF Elements
  <2>3. QED
    BY <2>1, <2>2, Members, ListedAreOperations
<1>6. TasksAreApart' /\ NothingRepeats'
  BY <1>1, TasksSame DEF Placement
<1>7. WaitingIsPending'
  BY <1>1, <1>2, <1>3, <1>4, <1>5 DEF Placement, WaitingIsPending, HasBegun, IsAtWork
<1>8. ListsFitGroup'
  <2>1. \A j \in Positions(plan) : j \in Listed \/ HasBegun(j)' => j \in Listed \/ HasBegun(j)
    BY <1>2, <1>4 DEF HasBegun
  <2>2. \A j : IsPip(j)' <=> IsPip(j)
    BY <1>1 DEF IsPip
  <2>3. QED
    BY <1>1, <1>3, <1>4, <2>1, <2>2 DEF Placement, ListsFitGroup
<1>9. NothingIsLost'
  BY <1>1, <1>2, <1>3, <1>4 DEF Placement, NothingIsLost, IsPip
<1>10. ListedIsReady'
  BY <1>1, <1>2, <1>3, <1>4 DEF Placement, ListedIsReady, HasBegun, Completed, Terminal
<1>11. PoolIsSafe'
  BY <1>1, <1>3 DEF Placement, PoolIsSafe, IsPip
<1>12. FailureIsKnown'
  BY <1>1, <1>2, <1>4 DEF Placement, FailureIsKnown
<1>13. QED
  BY <1>6, <1>7, <1>8, <1>9, <1>10, <1>11, <1>12 DEF Placement

-----------------------------------------------------------------------------
(* Moves of the main thread keep the placement *)

LEMMA MovesEffect ==
  ASSUME Moves
  PROVE  \/ /\ pc = "pip" \/ (pc = "serial" /\ serial = << >> /\ ~ shutdown)
            /\ pc = "pip" => Quiet
            /\ StartGroup /\ UNCHANGED shutdown
         \/ pc = "submit" /\ pc' = "submit git" /\ UNCHANGED <<group, shutdown>>
         \/ /\ pc = "submit git" /\ pc' = "wait" /\ UNCHANGED <<group, shutdown>>
            /\ \A r \in Repos : gitTasks[r] = << >>
         \/ pc = "wait" /\ pc' = "serial" /\ Quiet /\ UNCHANGED <<group, shutdown>>
         \/ /\ pc = "serial" /\ serial = << >> /\ shutdown
            /\ pc' = "closing" /\ UNCHANGED <<group, shutdown>>
         \/ pc = "draining" /\ pc' = "returned" /\ Quiet /\ UNCHANGED <<group, shutdown>>
         \/ /\ pc \in {"wait", "serial"} /\ pc' = "closing" /\ shutdown' = TRUE /\ UNCHANGED group
            /\ pc = "serial" => \A i \in InProgress : stage[i] \in Terminal \cup {"pending"}
         \/ /\ pc \in {"start", "pip", "submit", "submit git", "closing", "draining"}
            /\ pc' = "raised" /\ UNCHANGED <<group, shutdown>>
BY ZenonT(30) DEF Moves, WaitForPip, EndDispatch, StartWait, Wait, EndGroup, Drained, InterruptGroup,
       InterruptEscapes, groupVars, TasksAreDone, ThreadsAreJoined

(* When the next group starts nothing is listed, and all that was seen is  *)
(* at its end.                                                             *)
LEMMA GroupIsOver ==
  ASSUME TypeOK, Placement, pc = "pip" \/ (pc = "serial" /\ serial = << >>), pc = "pip" => Quiet
  PROVE  /\ Listed = {} /\ Quiet
         /\ \A i \in Positions(plan) : IsPip(i) \/ i < next => stage[i] \in Terminal
<1>1. Quiet /\ InGit = {} /\ InSerial = {}
  BY ElementsOfEmpty DEF Placement, ListsFitGroup, InSerial
<1>2. Listed = {}
  BY <1>1, QuietLists DEF Listed
<1>3. \A i \in Positions(plan) :
        (IF IsPip(i) THEN pc # "start" ELSE i < next) => i \in Listed \/ stage[i] \in Terminal
  BY DEF Placement, NothingIsLost, Regular, Grouping
<1>4. QED
  BY <1>1, <1>2, <1>3

LEMMA MovesKeepPlacement ==
  ASSUME TypeOK, Placement, Moves
  PROVE  Placement'
<1>1. UNCHANGED <<plan, next, gitTasks, serial, queue, running, stage>>
  BY MovesKeep
<1>2. UNCHANGED <<InQueue, InPool, InGit, InSerial, Listed, Quiet>>
  BY <1>1 DEF InQueue, InPool, InGit, InSerial, Listed, Quiet
<1>3. /\ \A j : IsPip(j)' <=> IsPip(j)
      /\ \A j : HasBegun(j)' <=> HasBegun(j)
      /\ \A j : IsAtWork(j)' <=> IsAtWork(j)
  BY <1>1 DEF IsPip, HasBegun, IsAtWork
<1>4. TasksAreApart' /\ NothingRepeats'
  BY <1>1, TasksSame DEF Placement
<1>5. ListedIsReady' /\ PoolIsSafe'
  BY <1>1, <1>2, <1>3 DEF Placement, ListedIsReady, PoolIsSafe
<1>6. WaitingIsPending'
  <2>1. ASSUME NEW i \in Positions(plan), IsAtWork(i) PROVE i \in InProgress'
    <3>1. i \in InProgress /\ stage[i] \notin Terminal \cup {"pending"}
      BY <2>1 DEF Placement, WaitingIsPending, IsAtWork, HasBegun
    <3>2. ~ (pc = "serial" /\ serial # << >> /\ i = Head(serial))
      BY <3>1, MovesEffect
    <3>3. i \in {Head(t) : t \in running}
      BY <3>1, <3>2 DEF InProgress
    <3>4. QED
      BY <1>1, <3>3 DEF InProgress
  <2>2. QED
    BY <1>1, <1>2, <1>3, <2>1 DEF Placement, WaitingIsPending
<1>7. FailureIsKnown /\ ListsFitGroup /\ NothingIsLost
  BY DEF Placement
<1>8. (shutdown => shutdown') /\ \A i \in Positions(plan) : stage[i] \in {"failed", "cancelled"} => shutdown'
  BY <1>7, MovesEffect DEF FailureIsKnown
<1>9. CASE /\ pc = "pip" \/ (pc = "serial" /\ serial = << >> /\ ~ shutdown)
           /\ pc = "pip" => Quiet
           /\ StartGroup /\ UNCHANGED shutdown
  <2>1. /\ Listed = {} /\ Quiet
        /\ \A i \in Positions(plan) : IsPip(i) \/ i < next => stage[i] \in Terminal
    BY <1>9, GroupIsOver
  <2>2. InQueue = {} /\ InPool = {} /\ InGit = {} /\ InSerial = {}
    BY <2>1 DEF Listed
  <2>3. CASE next > Len(plan)
    <3>1. pc' = "returned"
      BY <1>9, <2>3 DEF StartGroup
    <3>2. \A i \in Positions(plan) : stage[i] \in Terminal
      BY <2>1, <2>3, Numbers, PlanFacts DEF Positions
    <3>3. ~ shutdown' => \A i \in Positions(plan) : stage[i] \in Completed
      BY <1>8, <3>2 DEF Terminal, Completed
    <3>4. FailureIsKnown'
      BY <1>1, <1>8, <3>1, <3>3 DEF FailureIsKnown
    <3>5. ListsFitGroup'
      BY <1>1, <1>2, <1>3, <1>7, <2>1, <3>1 DEF ListsFitGroup, Grouping
    <3>6. NothingIsLost'
      BY <3>1 DEF NothingIsLost, Regular, Grouping
    <3>7. QED
      BY <1>4, <1>5, <1>6, <3>4, <3>5, <3>6 DEF Placement
  <2>4. CASE ~ (next > Len(plan))
    <3>1. pc' = "submit"
      BY <1>9, <2>4 DEF StartGroup
    <3>2. FailureIsKnown'
      BY <1>1, <1>8, <3>1 DEF FailureIsKnown
    <3>3. ListsFitGroup'
      BY <1>1, <1>2, <1>3, <1>7, <2>1, <2>2, <3>1 DEF ListsFitGroup, Grouping
    <3>4. NothingIsLost'
      BY <1>1, <1>3, <2>1 DEF NothingIsLost
    <3>5. QED
      BY <1>4, <1>5, <1>6, <3>2, <3>3, <3>4 DEF Placement
  <2>5. QED
    BY <2>3, <2>4
<1>10. CASE pc = "submit" /\ pc' = "submit git" /\ UNCHANGED <<group, shutdown>>
  <2>1. ListsFitGroup' /\ NothingIsLost' /\ FailureIsKnown'
    BY <1>1, <1>2, <1>3, <1>7, <1>8, <1>10
       DEF ListsFitGroup, NothingIsLost, FailureIsKnown, Grouping, Regular
  <2>2. QED
    BY <1>4, <1>5, <1>6, <2>1 DEF Placement
<1>11. CASE /\ pc = "submit git" /\ pc' = "wait" /\ UNCHANGED <<group, shutdown>>
            /\ \A r \in Repos : gitTasks[r] = << >>
  <2>1. InGit = {}
    BY <1>11, ElementsOfEmpty DEF InGit
  <2>2. ListsFitGroup' /\ NothingIsLost' /\ FailureIsKnown'
    BY <1>1, <1>2, <1>3, <1>7, <1>8, <1>11, <2>1
       DEF ListsFitGroup, NothingIsLost, FailureIsKnown, Grouping, Regular
  <2>3. QED
    BY <1>4, <1>5, <1>6, <2>2 DEF Placement
<1>12. CASE pc = "wait" /\ pc' = "serial" /\ Quiet /\ UNCHANGED <<group, shutdown>>
  <2>1. ListsFitGroup' /\ NothingIsLost' /\ FailureIsKnown'
    BY <1>1, <1>2, <1>3, <1>7, <1>8, <1>12
       DEF ListsFitGroup, NothingIsLost, FailureIsKnown, Grouping, Regular
  <2>2. QED
    BY <1>4, <1>5, <1>6, <2>1 DEF Placement
<1>13. CASE pc' = "closing" /\ shutdown' /\ pc \in {"wait", "serial"}
  <2>1. ListsFitGroup' /\ NothingIsLost' /\ FailureIsKnown'
    BY <1>1, <1>2, <1>3, <1>7, <1>8, <1>13
       DEF ListsFitGroup, NothingIsLost, FailureIsKnown, Grouping, Regular
  <2>2. QED
    BY <1>4, <1>5, <1>6, <2>1 DEF Placement
<1>14. CASE pc = "draining" /\ pc' = "returned" /\ Quiet /\ UNCHANGED <<group, shutdown>>
  <2>1. ListsFitGroup' /\ NothingIsLost' /\ FailureIsKnown'
    BY <1>1, <1>2, <1>3, <1>7, <1>8, <1>14
       DEF ListsFitGroup, NothingIsLost, FailureIsKnown, Grouping, Regular
  <2>2. QED
    BY <1>4, <1>5, <1>6, <2>1 DEF Placement
<1>15. CASE pc' = "raised" /\ UNCHANGED <<group, shutdown>>
  <2>1. ListsFitGroup' /\ NothingIsLost' /\ FailureIsKnown'
    BY <1>1, <1>2, <1>3, <1>7, <1>8, <1>15
       DEF ListsFitGroup, NothingIsLost, FailureIsKnown, Grouping, Regular
  <2>2. QED
    BY <1>4, <1>5, <1>6, <2>1 DEF Placement
<1>16. CASE /\ pc = "serial" /\ serial = << >> /\ shutdown
            /\ pc' = "closing" /\ UNCHANGED <<group, shutdown>>
  BY <1>13, <1>16
<1>17. CASE /\ pc \in {"wait", "serial"} /\ pc' = "closing" /\ shutdown' = TRUE
  BY <1>13, <1>17
<1>18. QED
  BY <1>9, <1>10, <1>11, <1>12, <1>14, <1>15, <1>16, <1>17, MovesEffect

-----------------------------------------------------------------------------
(* Steps that change the lists keep the placement *)

(* The rest of the placement, after TasksAreApart and NothingRepeats.      *)
Order ==
  /\ WaitingIsPending /\ ListsFitGroup
  /\ NothingIsLost /\ ListedIsReady /\ PoolIsSafe /\ FailureIsKnown

LEMMA ListStepSame ==
  ASSUME ListStep
  PROVE  /\ UNCHANGED <<plan, group, stage, shutdown>>
         /\ \A j : IsPip(j)' <=> IsPip(j)
         /\ \A j : HasBegun(j)' <=> HasBegun(j)
         /\ \A j : IsAtWork(j)' <=> IsAtWork(j)
BY ListStepKeeps DEF IsPip, HasBegun, IsAtWork

LEMMA SubmitPipKeepsOrder ==
  ASSUME TypeOK, Placement, SubmitPip
  PROVE  Order'
<1>1. /\ UNCHANGED <<plan, group, stage, shutdown>>
      /\ \A j : IsPip(j)' <=> IsPip(j)
      /\ \A j : HasBegun(j)' <=> HasBegun(j)
      /\ \A j : IsAtWork(j)' <=> IsAtWork(j)
  BY ListStepSame DEF ListStep
<1>2. /\ pc = "start" /\ pc' = "pip" /\ UNCHANGED <<next, gitTasks, serial, running>>
      /\ \A i \in InQueue' : i \in Positions(plan) /\ IsPip(i)
      /\ \A i \in Positions(plan) : IsPip(i) => i \in InQueue'
  BY SubmitPipEffect
<1>3. /\ InPool = {} /\ InGit = {} /\ InSerial = {} /\ Listed = {}
      /\ \A i \in Positions(plan) : ~ HasBegun(i)
      /\ next <= Len(plan) => ~ IsPip(next)
  BY <1>2 DEF Placement, ListsFitGroup, Listed
<1>4. UNCHANGED <<InPool, InGit, InSerial>> /\ Listed' = InQueue'
  BY <1>2, <1>3 DEF InPool, InGit, InSerial, Listed
<1>5. WaitingIsPending'
  <2>1. \A i \in Positions(plan) : ~ IsAtWork(i)
    BY <1>3 DEF IsAtWork
  <2>2. QED
    BY <1>1, <1>2, <1>3, <1>4, <2>1 DEF WaitingIsPending, Placement
<1>6. ListsFitGroup'
  BY <1>1, <1>2, <1>3, <1>4 DEF ListsFitGroup, Grouping
<1>7. NothingIsLost'
  <2>1. \A i \in Positions(plan) : ~ IsPip(i) => (i < next => stage[i] \in Terminal)
    BY <1>2, <1>3 DEF Placement, NothingIsLost, Regular
  <2>2. QED
    BY <1>1, <1>2, <1>4, <2>1 DEF NothingIsLost
<1>8. ListedIsReady' /\ PoolIsSafe' /\ FailureIsKnown'
  BY <1>1, <1>2, <1>3, <1>4
     DEF Placement, ListedIsReady, PoolIsSafe, FailureIsKnown, Precedes, IsPip, HasBegun
<1>9. QED
  BY <1>5, <1>6, <1>7, <1>8 DEF Order

LEMMA DispatchKeepsOrder ==
  ASSUME TypeOK, Placement, Dispatch
  PROVE  Order'
<1>1. /\ UNCHANGED <<plan, group, stage, shutdown>>
      /\ \A j : IsPip(j)' <=> IsPip(j)
      /\ \A j : HasBegun(j)' <=> HasBegun(j)
      /\ \A j : IsAtWork(j)' <=> IsAtWork(j)
  BY ListStepSame DEF ListStep
<1>2. /\ pc = "submit" /\ pc' = "submit" /\ ~ shutdown
      /\ next \in Positions(plan) /\ plan[next].priority = group
      /\ next' = After(next) /\ UNCHANGED <<plan, group, running>>
  BY DispatchEffect
<1>3. next \notin Listed /\ ~ HasBegun(next) /\ ~ IsPip(next)
  BY NextIsNew DEF Placement
<1>4. InPool' = InPool /\ InProgress' = InProgress
  BY <1>2 DEF InPool, InProgress
<1>5. \/ /\ IsParallelUnsafe(plan[next])
         /\ serial' = Append(serial, next) /\ InSerial' = InSerial \cup {next}
         /\ UNCHANGED <<InGit, InQueue>>
      \/ /\ ~ IsParallelUnsafe(plan[next])
         /\ InGit' = InGit \cup {next} /\ UNCHANGED <<serial, InSerial, InQueue>>
      \/ /\ ~ IsParallelUnsafe(plan[next]) /\ plan[next].source # "git"
         /\ InQueue' = InQueue \cup {next} /\ UNCHANGED <<serial, InSerial, InGit>>
  BY DispatchEffect, ZenonT(30) DEF InGit, InQueue, InSerial
<1>6. Listed' = Listed \cup {next}
  BY <1>4, <1>5 DEF Listed
<1>7. /\ next' \in Nat /\ next < next' /\ next \in Nat /\ Len(plan) \in Nat
      /\ next' <= Len(plan) => ~ IsPip(next')
      /\ \A i \in Positions(plan) : next < i /\ i < next' => IsPip(i)
      /\ \A i \in Positions(plan) : i \in Nat
  BY <1>2, AfterFacts, Numbers, PlanFacts DEF Positions
<1>8. WaitingIsPending'
  <2>1. \A k \in 2 .. Len(serial') : ~ HasBegun(serial'[k])
    <3>1. CASE serial' = serial
      BY <3>1 DEF Placement, WaitingIsPending
    <3>2. CASE serial' = Append(serial, next)
      <4>1. \A k \in 1 .. Len(serial') : \/ k \in 1 .. Len(serial) /\ serial'[k] = serial[k]
                                         \/ serial'[k] = next
        BY <1>2, <3>2, ListTypes, AppendCases
      <4>2. Len(serial) \in Nat /\ Len(serial') \in Nat
        BY <1>2, <3>2, ListTypes, AppendType
      <4>3. \A k \in 2 .. Len(serial') : k \in 1 .. Len(serial')
        BY <4>2
      <4>4. \A k \in 2 .. Len(serial') : k \in 1 .. Len(serial) => k \in 2 .. Len(serial)
        BY <4>2
      <4>5. QED
        BY <1>3, <4>1, <4>3, <4>4 DEF Placement, WaitingIsPending
    <3>3. QED
      BY <1>5, <3>1, <3>2
  <2>2. \A i \in InQueue' \cup InGit' : ~ HasBegun(i)
    BY <1>3, <1>5 DEF Placement, WaitingIsPending
  <2>3. QED
    BY <1>1, <1>2, <1>4, <2>1, <2>2 DEF Placement, WaitingIsPending
<1>9. ListsFitGroup'
  <2>1. /\ \A i \in Listed : plan[i].priority = group /\ ~ IsPip(i)
        /\ \A i \in InQueue \cup InPool : plan[i].source # "git"
        /\ \A i \in Positions(plan) : i \in Listed \/ HasBegun(i) => IsPip(i) \/ i < next
    BY <1>2 DEF Placement, ListsFitGroup, Grouping
  <2>2. \A i \in Positions(plan) : i \in Listed' \/ HasBegun(i)' => IsPip(i) \/ i < next'
    BY <1>1, <1>6, <1>7, <2>1
  <2>3. \A i \in InQueue' \cup InPool' : plan[i].source # "git"
    BY <1>4, <1>5, <2>1
  <2>4. QED
    BY <1>1, <1>2, <1>3, <1>6, <1>7, <2>1, <2>2, <2>3 DEF ListsFitGroup, Grouping
<1>10. \A i \in Positions(plan) : IsPip(i) \/ i < next => i \in Listed \/ stage[i] \in Terminal
  BY <1>2 DEF Placement, NothingIsLost, Regular, Grouping
<1>11. NothingIsLost'
  <2>1. \A i \in Positions(plan) : i < next' => i < next \/ i = next \/ IsPip(i)
    BY <1>2, <1>7
  <2>2. QED
    BY <1>1, <1>2, <1>6, <1>10, <2>1 DEF NothingIsLost
<1>12. ListedIsReady'
  <2>1. ASSUME NEW i \in Positions(plan), Precedes(plan, i, next) PROVE stage[i] \in Completed
    <3>1. IsPip(i) \/ (plan[i].priority > group /\ i < next)
      BY <1>2, <2>1, PlanFacts DEF Precedes, IsPip
    <3>2. plan[i].priority \in Nat /\ group \in Nat
      BY PlanFacts DEF TypeOK, Operation
    <3>3. i \notin Listed
      BY <1>2, <3>1, <3>2 DEF Placement, ListsFitGroup, Grouping
    <3>4. stage[i] \in Terminal /\ stage[i] \notin {"failed", "cancelled"}
      BY <1>2, <1>10, <3>1, <3>3 DEF Placement, FailureIsKnown
    <3>5. QED
      BY <3>4 DEF Terminal, Completed
  <2>2. QED
    BY <1>1, <1>6, <2>1 DEF Placement, ListedIsReady
<1>13. PoolIsSafe'
  <2>1. ~ IsParallelUnsafe(plan[next]) => ~ NeedsToBeAlone(plan[next])
    BY <1>2, AloneIsUnsafe
  <2>2. \A i \in InQueue' \cup InPool' : ~ IsPip(i)
    BY <1>2, <1>3, <1>4, <1>5 DEF Placement, ListsFitGroup, Grouping, Listed
  <2>3. \A i \in InQueue' \cup InPool' \cup InGit' : IsPip(i) \/ ~ NeedsToBeAlone(plan[i])
    BY <1>4, <1>5, <2>1 DEF Placement, PoolIsSafe
  <2>4. QED
    BY <1>1, <2>2, <2>3 DEF PoolIsSafe
<1>14. FailureIsKnown'
  BY <1>1, <1>2 DEF Placement, FailureIsKnown
<1>15. QED
  BY <1>8, <1>9, <1>11, <1>12, <1>13, <1>14 DEF Order

LEMMA SubmitGitKeepsOrder ==
  ASSUME TypeOK, Placement, SubmitGit
  PROVE  Order'
<1>1. /\ UNCHANGED <<plan, group, stage, shutdown>>
      /\ \A j : IsPip(j)' <=> IsPip(j)
      /\ \A j : HasBegun(j)' <=> HasBegun(j)
      /\ \A j : IsAtWork(j)' <=> IsAtWork(j)
  BY ListStepSame DEF ListStep
<1>2. /\ pc = "submit git" /\ pc' = "submit git"
      /\ UNCHANGED <<next, serial, running, InSerial, InPool, InProgress>>
      /\ InQueue \subseteq InQueue' /\ InGit' \subseteq InGit
      /\ InQueue' \cup InGit' = InQueue \cup InGit
  BY SubmitGitEffect DEF Placement, InSerial, InPool, InProgress
<1>3. Listed' = Listed
  BY <1>2 DEF Listed
<1>4. WaitingIsPending' /\ ListsFitGroup' /\ NothingIsLost'
  BY <1>1, <1>2, <1>3 DEF Placement, WaitingIsPending, ListsFitGroup, NothingIsLost, Grouping
<1>5. ListedIsReady' /\ FailureIsKnown'
  BY <1>1, <1>2, <1>3 DEF Placement, ListedIsReady, FailureIsKnown
<1>6. PoolIsSafe'
  <2>1. \A i \in InQueue' \cup InPool' : ~ IsPip(i)
    BY <1>2, <1>3 DEF Placement, ListsFitGroup, Grouping, Listed
  <2>2. QED
    BY <1>1, <1>2, <2>1 DEF Placement, PoolIsSafe
<1>7. QED
  BY <1>4, <1>5, <1>6 DEF Order

LEMMA NextSerialKeepsOrder ==
  ASSUME TypeOK, Placement, NextSerial
  PROVE  Order'
<1>1. /\ UNCHANGED <<plan, group, stage, shutdown>>
      /\ \A j : IsPip(j)' <=> IsPip(j)
      /\ \A j : HasBegun(j)' <=> HasBegun(j)
      /\ \A j : IsAtWork(j)' <=> IsAtWork(j)
  BY ListStepSame DEF ListStep
<1>2. /\ pc = "serial" /\ pc' = "serial" /\ serial # << >> /\ serial' = Tail(serial)
      /\ UNCHANGED <<next, gitTasks, queue, running, InGit, InQueue, InPool, Quiet>>
      /\ stage[Head(serial)] \in Terminal
      /\ InSerial = {Head(serial)} \cup InSerial'
  BY NextSerialEffect DEF Placement, InGit, InQueue, InPool, Quiet
<1>3. /\ Len(serial') = Len(serial) - 1 /\ Len(serial) \in Nat \ {0}
      /\ \A k \in 1 .. Len(serial) - 1 : serial'[k] = serial[k + 1]
  BY <1>2, ListTypes, ElementsOfTail
<1>4. Listed = Listed' \cup {Head(serial)}
  BY <1>2 DEF Listed
<1>5. WaitingIsPending'
  <2>1. \A k \in 2 .. Len(serial') : k + 1 \in 2 .. Len(serial) /\ serial'[k] = serial[k + 1]
    BY <1>3
  <2>2. \A i \in Positions(plan) : IsAtWork(i) => i \in {Head(t) : t \in running}
    BY <1>2 DEF Placement, WaitingIsPending, InProgress, IsAtWork
  <2>3. QED
    BY <1>1, <1>2, <2>1, <2>2 DEF Placement, WaitingIsPending, InProgress
<1>6. ListsFitGroup' /\ NothingIsLost'
  BY <1>1, <1>2, <1>4 DEF Placement, ListsFitGroup, NothingIsLost, Grouping
<1>7. ListedIsReady' /\ PoolIsSafe' /\ FailureIsKnown'
  BY <1>1, <1>2, <1>4 DEF Placement, ListedIsReady, PoolIsSafe, FailureIsKnown
<1>8. QED
  BY <1>5, <1>6, <1>7 DEF Order

LEMMA CancelKeepsOrder ==
  ASSUME TypeOK, Placement, CancelFutures
  PROVE  Order'
<1>1. /\ UNCHANGED <<plan, group, stage, shutdown>>
      /\ \A j : IsPip(j)' <=> IsPip(j)
      /\ \A j : HasBegun(j)' <=> HasBegun(j)
      /\ \A j : IsAtWork(j)' <=> IsAtWork(j)
  BY ListStepSame DEF ListStep
<1>2. /\ pc = "closing" /\ pc' = "draining"
      /\ UNCHANGED <<next, gitTasks, serial, running, InGit, InSerial, InPool, InProgress>>
      /\ InQueue' = {}
  BY CancelEffect DEF InGit, InSerial, InPool, InProgress
<1>3. Listed' \subseteq Listed
  BY <1>2 DEF Listed
<1>4. WaitingIsPending' /\ ListsFitGroup' /\ NothingIsLost'
  BY <1>1, <1>2, <1>3
     DEF Placement, WaitingIsPending, ListsFitGroup, NothingIsLost, Grouping, Regular
<1>5. ListedIsReady' /\ PoolIsSafe' /\ FailureIsKnown'
  BY <1>1, <1>2, <1>3 DEF Placement, ListedIsReady, PoolIsSafe, FailureIsKnown
<1>6. QED
  BY <1>4, <1>5 DEF Order

LEMMA TakeKeepsOrder ==
  ASSUME TypeOK, Placement, Take
  PROVE  Order'
<1>1. /\ UNCHANGED <<plan, group, stage, shutdown>>
      /\ \A j : IsPip(j)' <=> IsPip(j)
      /\ \A j : HasBegun(j)' <=> HasBegun(j)
      /\ \A j : IsAtWork(j)' <=> IsAtWork(j)
  BY ListStepSame DEF ListStep, Threads
<1>2. /\ UNCHANGED <<pc, next, gitTasks, serial, InGit, InSerial>>
      /\ queue # << >> /\ running' = running \cup {Head(queue)} /\ Head(queue) \in Tasks
      /\ InQueue = InQueue' \cup Elements(Head(queue))
      /\ InPool' = InPool \cup Elements(Head(queue))
  BY TakeEffect DEF Placement, InGit, InSerial
<1>3. Listed' = Listed /\ InQueue' \cup InPool' = InQueue \cup InPool
  BY <1>2 DEF Listed
<1>4. pc \notin {"serial", "returned"}
  BY <1>2 DEF Placement, ListsFitGroup, Quiet
<1>5. WaitingIsPending'
  <2>1. \A k \in 2 .. Len(Head(queue)) : Head(queue)[k] \in InQueue
    BY <1>2 DEF Elements
  <2>2. InProgress \subseteq InProgress'
    BY <1>2 DEF InProgress
  <2>3. QED
    BY <1>1, <1>2, <2>1, <2>2 DEF Placement, WaitingIsPending
<1>6. ListsFitGroup' /\ NothingIsLost'
  BY <1>1, <1>2, <1>3, <1>4 DEF Placement, ListsFitGroup, NothingIsLost, Grouping
<1>7. ListedIsReady' /\ PoolIsSafe' /\ FailureIsKnown'
  BY <1>1, <1>2, <1>3 DEF Placement, ListedIsReady, PoolIsSafe, FailureIsKnown
<1>8. QED
  BY <1>5, <1>6, <1>7 DEF Order

LEMMA ProceedKeepsOrder ==
  ASSUME TypeOK, Placement, NEW t \in running, Proceed(t)
  PROVE  Order'
<1>1. /\ UNCHANGED <<plan, group, stage, shutdown>>
      /\ \A j : IsPip(j)' <=> IsPip(j)
      /\ \A j : HasBegun(j)' <=> HasBegun(j)
      /\ \A j : IsAtWork(j)' <=> IsAtWork(j)
  BY ListStepSame DEF ListStep, Threads
<1>2. /\ UNCHANGED <<pc, next, gitTasks, serial, queue, InGit, InSerial, InQueue>>
      /\ stage[Head(t)] \in Terminal
      /\ \/ running' = running \ {t}
         \/ running' = (running \ {t}) \cup {Tail(t)}
      /\ Len(Tail(t)) = Len(t) - 1 /\ Len(t) \in Nat \ {0}
      /\ \A k \in 1 .. Len(t) - 1 : Tail(t)[k] = t[k + 1]
      /\ InPool = {Head(t)} \cup InPool'
  BY ProceedEffect DEF Placement, InGit, InSerial, InQueue
<1>3. Listed = Listed' \cup {Head(t)}
  BY <1>2 DEF Listed
<1>4. pc \notin {"serial", "returned"}
  BY DEF Placement, ListsFitGroup, Quiet
<1>5. WaitingIsPending'
  <2>1. \A k \in 2 .. Len(Tail(t)) : k + 1 \in 2 .. Len(t) /\ Tail(t)[k] = t[k + 1]
    BY <1>2
  <2>2. \A u \in running' : \A k \in 2 .. Len(u) : ~ HasBegun(u[k])
    BY <1>2, <2>1 DEF Placement, WaitingIsPending
  <2>3. ASSUME NEW i \in Positions(plan), IsAtWork(i) PROVE i \in InProgress'
    <3>1. PICK u \in running : i = Head(u)
      BY <1>4, <2>3 DEF Placement, WaitingIsPending, InProgress
    <3>2. u # t
      BY <1>2, <2>3, <3>1 DEF IsAtWork
    <3>3. u \in running'
      BY <1>2, <3>2
    <3>4. QED
      BY <3>1, <3>3 DEF InProgress
  <2>4. QED
    BY <1>1, <1>2, <2>2, <2>3 DEF Placement, WaitingIsPending
<1>6. ListsFitGroup' /\ NothingIsLost'
  BY <1>1, <1>2, <1>3, <1>4 DEF Placement, ListsFitGroup, NothingIsLost, Grouping
<1>7. ListedIsReady' /\ PoolIsSafe' /\ FailureIsKnown'
  BY <1>1, <1>2, <1>3 DEF Placement, ListedIsReady, PoolIsSafe, FailureIsKnown
<1>8. QED
  BY <1>5, <1>6, <1>7 DEF Order

LEMMA ListStepKeepsPlacement ==
  ASSUME TypeOK, Placement, ListStep
  PROVE  Placement'
<1>1. Order'
  BY SubmitPipKeepsOrder, DispatchKeepsOrder, SubmitGitKeepsOrder, NextSerialKeepsOrder,
     CancelKeepsOrder, TakeKeepsOrder, ProceedKeepsOrder DEF ListStep, Threads
<1>2. QED
  BY <1>1, TasksListStep DEF Placement, Order

LEMMA InitPlacement == Init => Placement
<1>. SUFFICES ASSUME Init PROVE Placement
  OBVIOUS
<1>1. TypeOK
  BY InitTypes
<1>2. /\ Len(queue) = 0 /\ running = {} /\ Elements(serial) = {} /\ NoRepeat(serial)
      /\ \A r \in Repos : Elements(gitTasks[r]) = {} /\ NoRepeat(gitTasks[r])
  BY ElementsOfEmpty DEF Init
<1>3. InQueue = {} /\ InPool = {} /\ InGit = {} /\ InSerial = {} /\ Listed = {}
  <2>1. Quiet
    BY DEF Init, Quiet
  <2>2. QED
    BY <1>2, <2>1, QuietLists DEF InGit, InSerial, Listed
<1>4. pc = "start" /\ \A i \in Positions(plan) : ~ HasBegun(i) /\ stage[i] = "pending"
  BY DEF Init, HasBegun
<1>5. next = After(0) /\ (next <= Len(plan) => ~ IsPip(next))
      /\ \A i \in Positions(plan) : i < next => IsPip(i)
  <2>1. 0 \in 0 .. Len(plan) /\ \A i \in Positions(plan) : 0 < i
    BY <1>1, PlanFacts DEF Positions
  <2>2. next = After(0)
    BY DEF Init
  <2>3. QED
    BY <1>1, <2>1, <2>2, AfterFacts
<1>6. TasksAreApart /\ NothingRepeats
  BY <1>2, <1>3 DEF TasksAreApart, NothingRepeats, Apart
<1>7. WaitingIsPending
  <2>1. Len(serial) = 0
    BY DEF Init
  <2>2. QED
    BY <1>2, <1>3, <1>4, <2>1 DEF WaitingIsPending, IsAtWork
<1>8. ListsFitGroup
  BY <1>3, <1>4, <1>5 DEF ListsFitGroup, Grouping
<1>9. NothingIsLost
  BY <1>4, <1>5 DEF NothingIsLost
<1>10. ListedIsReady /\ PoolIsSafe /\ FailureIsKnown
  BY <1>3, <1>4 DEF ListedIsReady, PoolIsSafe, FailureIsKnown
<1>11. QED
  BY <1>6, <1>7, <1>8, <1>9, <1>10 DEF Placement

(* Every step keeps the types and the placement.                           *)
LEMMA PlacementStep ==
  ASSUME TypeOK, IsFiniteSet(running), Placement, [Next]_vars
  PROVE  TypeOK' /\ IsFiniteSet(running)' /\ Placement'
<1>1. CASE UNCHANGED vars
  <2>1. UNCHANGED <<plan, forReal, pc, next, group, gitTasks, serial, queue, running, stage, env,
                    shutdown, executed, seen, lock, hit, interrupts>>
    BY <1>1 DEF vars, groupVars, counters
  <2>2. UNCHANGED <<InQueue, InPool, InGit, InSerial, Listed, InProgress, Quiet>>
    BY <2>1 DEF InQueue, InPool, InGit, InSerial, Listed, InProgress, Quiet
  <2>3. TypeOK'
    BY <2>1 DEF TypeOK, Stages
  <2>4. TasksAreApart' /\ NothingRepeats'
    BY <2>1, TasksSame DEF Placement
  <2>5. Order'
    BY <2>1, <2>2 DEF Placement, Order, WaitingIsPending, ListsFitGroup, NothingIsLost,
                      ListedIsReady, PoolIsSafe, FailureIsKnown, HasBegun, IsAtWork, IsPip
  <2>6. QED
    BY <2>1, <2>3, <2>4, <2>5 DEF Placement, Order
<1>2. ASSUME NEW i \in Positions(plan), StageStep(i)
      PROVE  TypeOK' /\ IsFiniteSet(running)' /\ Placement'
  BY <1>2, StageStepWorks, StageStepsKeepTypes, WorkKeepsPlacement DEF Works
<1>3. CASE Moves
  BY <1>3, MovesTypes, MovesKeepPlacement, MovesKeep
<1>4. CASE ListStep
  BY <1>4, ListStepTypes, ListStepKeepsPlacement DEF Placement
<1>5. QED
  BY <1>1, <1>2, <1>3, <1>4, Kinds

-----------------------------------------------------------------------------
(* The counters *)

LEMMA DoneIsFinite ==
  ASSUME TypeOK, NEW job
  PROVE  IsFiniteSet(DoneOf(job))
<1>1. IsFiniteSet(Positions(plan))
  BY PlanFacts, FS_Interval DEF Positions
<1>2. DoneOf(job) \subseteq Positions(plan)
  BY DEF DoneOf
<1>3. QED
  BY <1>1, <1>2, FS_Subset

LEMMA CountSame ==
  ASSUME CountIsLocked, UNCHANGED <<plan, stage, executed, seen, lock>>
  PROVE  CountIsLocked'
BY DEF CountIsLocked, DoneOf

(* A step that neither takes the lock nor counts.                          *)
LEMMA CountAside ==
  ASSUME TypeOK, CountIsLocked, NEW i \in Positions(plan), Works(i),
         UNCHANGED <<executed, seen>>,
         stage'[i] \notin {"incrementing", "done"},
         lock' = IF lock = i THEN 0 ELSE lock
  PROVE  CountIsLocked'
<1>1. /\ plan' = plan /\ stage[i] \notin Terminal
      /\ \A j \in Positions(plan) : j # i => stage'[j] = stage[j]
  BY DEF Works, TypeOK
<1>2. \A job : DoneOf(job)' = DoneOf(job)
  BY <1>1 DEF DoneOf, Terminal
<1>3. 0 \notin Positions(plan)
  BY DEF Positions
<1>4. QED
  BY <1>1, <1>2, <1>3 DEF CountIsLocked

LEMMA CountStep ==
  ASSUME TypeOK, CountIsLocked, NEW i \in Positions(plan), StageStep(i)
  PROVE  CountIsLocked'
<1>1. Works(i)
  BY StageStepWorks
<1>0. 0 \notin Positions(plan)
  BY DEF Positions
<1>2. /\ plan' = plan /\ stage[i] \notin Terminal
      /\ \A j \in Positions(plan) : j # i => stage'[j] = stage[j]
      /\ 0 \notin Positions(plan)
  BY <1>0, <1>1 DEF Works, TypeOK
<1>3. CASE ReadCount(i)
  <2>1. /\ lock = 0 /\ lock' = i /\ stage'[i] = "incrementing" /\ executed' = executed
        /\ seen'[i] = executed[plan[i].job]
        /\ stage[i] = "counting"
    BY <1>2, <1>3 DEF ReadCount, MayLock, At, Step, TypeOK
  <2>2. \A job : DoneOf(job)' = DoneOf(job)
    BY <1>2, <2>1 DEF DoneOf
  <2>3. QED
    BY <1>2, <2>1, <2>2 DEF CountIsLocked
<1>4. CASE WriteCount(i)
  <2>0. PICK job : job = plan[i].job
    OBVIOUS
  <2>1. /\ stage[i] = "incrementing" /\ stage'[i] = "done" /\ lock' = 0
        /\ executed' = [executed EXCEPT ![job] = seen[i] + 1]
    BY <1>2, <1>4, <2>0 DEF WriteCount, At, Step, TypeOK
  <2>2. lock = i /\ seen[i] = executed[job]
    BY <2>0, <2>1 DEF CountIsLocked
  <2>3. job \in DOMAIN executed /\ DOMAIN executed' = DOMAIN executed
    BY <2>0, <2>1, PlanFacts, Numbers DEF Operation
  <2>4. DoneOf(job)' = DoneOf(job) \cup {i} /\ i \notin DoneOf(job)
    BY <1>2, <2>0, <2>1 DEF DoneOf
  <2>5. Cardinality(DoneOf(job) \cup {i}) = Cardinality(DoneOf(job)) + 1
    BY <2>4, DoneIsFinite, FS_AddElement
  <2>6. \A other : other # job => DoneOf(other)' = DoneOf(other)
    BY <1>2, <2>0, <2>1 DEF DoneOf
  <2>7. executed'[job] = Cardinality(DoneOf(job)')
    BY <2>1, <2>2, <2>3, <2>4, <2>5 DEF CountIsLocked
  <2>8. \A other \in DOMAIN executed : other # job => executed'[other] = Cardinality(DoneOf(other)')
    BY <2>1, <2>6 DEF CountIsLocked
  <2>9. \A other \in DOMAIN executed' : executed'[other] = Cardinality(DoneOf(other)')
    <3>1. ASSUME NEW other \in DOMAIN executed' PROVE executed'[other] = Cardinality(DoneOf(other)')
      <4>1. CASE other = job
        BY <2>7, <4>1
      <4>2. CASE other # job
        BY <2>3, <2>8, <4>2
      <4>3. QED
        BY <4>1, <4>2
    <3>2. QED
      BY <3>1
  <2>10. \A j \in Positions(plan) : stage'[j] = "incrementing" <=> lock' = j
    BY <1>2, <2>1, <2>2 DEF CountIsLocked
  <2>11. QED
    BY <1>2, <2>1, <2>9, <2>10 DEF CountIsLocked
<1>5. CASE InterruptSerial(i)
  <2>1. /\ UNCHANGED <<executed, seen>> /\ lock' = IF lock = i THEN 0 ELSE lock
        /\ stage'[i] = "cancelling"
    BY <1>2, <1>5 DEF InterruptSerial, Released, Step, TypeOK
  <2>2. QED
    BY <1>1, <2>1, CountAside
<1>6. CASE \/ Begin(i) \/ Prepare(i) \/ Remove(i) \/ InstallWheel(i) \/ SaveUrlReference(i)
           \/ Report(i) \/ Raise(i) \/ InterruptSubprocess(i)
  <2>1. UNCHANGED <<executed, seen, lock>>
    BY <1>6 DEF Begin, Prepare, Remove, InstallWheel, SaveUrlReference, Report, Raise,
                InterruptSubprocess, counters
  <2>2. stage[i] # "incrementing"
    BY <1>6 DEF Begin, Prepare, Remove, InstallWheel, SaveUrlReference, Report, Raise,
                InterruptSubprocess, At
  <2>3. stage'[i] \notin {"incrementing", "done"}
    <3>1. i \in DOMAIN stage
      BY DEF TypeOK
    <3>2. QED
      BY <1>6, <3>1 DEF Begin, Prepare, AfterPrepare, Remove, InstallWheel, SaveUrlReference,
                Report, Raise, InterruptSubprocess, AfterInterrupt, Step
  <2>4. lock # i
    BY <2>2 DEF CountIsLocked
  <2>5. QED
    BY <1>1, <2>1, <2>3, <2>4, CountAside
<1>7. QED
  BY <1>3, <1>4, <1>5, <1>6 DEF StageStep, Execute

-----------------------------------------------------------------------------
(* What the environment holds *)

LEMMA EnvSame ==
  ASSUME EnvFitsStage, UNCHANGED <<plan, stage, env, hit>>
  PROVE  EnvFitsStage'
BY DEF EnvFitsStage, Before, Afterwards

LEMMA EnvStep ==
  ASSUME TypeOK, EnvFitsStage, NEW i \in Positions(plan), StageStep(i)
  PROVE  EnvFitsStage'
<1>0. Works(i)
  BY StageStepWorks
<1>1. /\ plan' = plan /\ stage[i] \notin Terminal
      /\ \A j \in Positions(plan) : j # i => stage'[j] = stage[j]
  BY <1>0 DEF Works, TypeOK
<1>2. plan[i].job \in {"install", "update", "uninstall"}
  BY PlanFacts DEF Operation
<1>3. i \in DOMAIN stage /\ env \in [Positions(plan) -> SUBSET {"old", "new", "part"}]
  BY DEF TypeOK
<1>4. \A j \in Positions(plan) : j # i => env'[j] = env[j] /\ (j \in hit' <=> j \in hit)
  BY <1>3 DEF StageStep, Execute, Begin, Prepare, Remove, InstallWheel, SaveUrlReference, ReadCount,
              WriteCount, Report, Raise, InterruptSubprocess, InterruptSerial
<1>. DEFINE Fits(j) ==
       /\ stage[j] \in {"pending", "passed"} => j \notin hit /\ env[j] = Before(j)
       /\ stage[j] = "preparing" => plan[j].job # "uninstall"
       /\ stage[j] = "removing" => plan[j].job # "install"
       /\ stage[j] \in {"installing", "saving"} => plan[j].job # "uninstall"
       /\ j \notin hit =>
            /\ stage[j] \in {"preparing", "removing"} => env[j] = Before(j)
            /\ stage[j] = "installing" => env[j] = {}
            /\ stage[j] \in {"saving", "counting", "incrementing", "done"} => env[j] = Afterwards(j)
<1>5. \A j \in Positions(plan) : Fits(j)
  BY DEF EnvFitsStage
<1>6. Fits(i)'
  <2>. USE <1>1, <1>2, <1>3, <1>5 DEF At, Step, Before, Afterwards, Terminal
  <2>1. CASE Begin(i)
    BY <2>1 DEF Begin
  <2>2. CASE Prepare(i)
    BY <2>2 DEF Prepare, AfterPrepare
  <2>3. CASE Remove(i)
    BY <2>3 DEF Remove
  <2>4. CASE InstallWheel(i)
    BY <2>4 DEF InstallWheel
  <2>5. CASE SaveUrlReference(i)
    BY <2>5 DEF SaveUrlReference
  <2>6. CASE ReadCount(i)
    BY <2>6 DEF ReadCount
  <2>7. CASE WriteCount(i)
    BY <2>7 DEF WriteCount
  <2>8. CASE Report(i)
    BY <2>8 DEF Report
  <2>9. CASE Raise(i)
    BY <2>9 DEF Raise
  <2>10. CASE InterruptSubprocess(i)
    BY <2>10 DEF InterruptSubprocess, AfterInterrupt
  <2>11. CASE InterruptSerial(i)
    BY <2>11 DEF InterruptSerial
  <2>12. QED
    BY <2>1, <2>2, <2>3, <2>4, <2>5, <2>6, <2>7, <2>8, <2>9, <2>10, <2>11 DEF StageStep, Execute
<1>7. \A j \in Positions(plan) : j # i => Fits(j)'
  BY <1>1, <1>4, <1>5 DEF Before, Afterwards
<1>8. QED
  BY <1>1, <1>6, <1>7 DEF EnvFitsStage

-----------------------------------------------------------------------------
(* The invariant *)

LEMMA InitCounts == Init => CountIsLocked /\ EnvFitsStage
<1>. SUFFICES ASSUME Init PROVE CountIsLocked /\ EnvFitsStage
  OBVIOUS
<1>1. /\ stage = [i \in Positions(plan) |-> "pending"] /\ lock = 0 /\ hit = {}
      /\ executed = [job \in {"install", "update", "uninstall"} |-> 0]
      /\ env = [i \in Positions(plan) |-> Before(i)]
  BY DEF Init, JobCounts, Before
<1>2. 0 \notin Positions(plan)
  BY DEF Positions
<1>3. \A job : DoneOf(job) = {}
  BY <1>1 DEF DoneOf
<1>4. \A job \in DOMAIN executed : executed[job] = Cardinality(DoneOf(job))
  BY <1>1, <1>3, FS_EmptySet
<1>5. CountIsLocked
  BY <1>1, <1>2, <1>4 DEF CountIsLocked
<1>6. EnvFitsStage
  BY <1>1 DEF EnvFitsStage
<1>7. QED
  BY <1>5, <1>6

LEMMA StepPreserves == IInv /\ [Next]_vars => IInv'
<1>. SUFFICES ASSUME IInv, [Next]_vars PROVE IInv'
  OBVIOUS
<1>. USE DEF IInv
<1>1. TypeOK' /\ IsFiniteSet(running)' /\ Placement'
  BY PlacementStep
<1>2. CountIsLocked' /\ EnvFitsStage'
  <2>1. CASE UNCHANGED vars
    BY <2>1, CountSame, EnvSame DEF vars, counters
  <2>2. ASSUME NEW i \in Positions(plan), StageStep(i) PROVE CountIsLocked' /\ EnvFitsStage'
    BY <2>2, CountStep, EnvStep
  <2>3. CASE Moves
    BY <2>3, MovesKeep, CountSame, EnvSame
  <2>4. CASE ListStep
    BY <2>4, ListStepKeeps, CountSame, EnvSame
  <2>5. QED
    BY <2>1, <2>2, <2>3, <2>4, Kinds
<1>3. QED
  BY <1>1, <1>2

(* The lists, the stages, the counters and the environment fit together in *)
(* every state.                                                            *)
THEOREM Invariance == Spec => []IInv
<1>1. Init => IInv
  BY InitTypes, InitPlacement, InitCounts DEF IInv
<1>2. QED
  BY <1>1, StepPreserves, PTL DEF Spec

-----------------------------------------------------------------------------
(* What follows from the invariant *)

(* Two different operations in progress are in different threads.          *)
LEMMA InProgressOverlaps ==
  ASSUME IInv, NEW i \in InProgress, NEW j \in InProgress, i # j
  PROVE  MayOverlap(plan[i], plan[j])
<1>0. TypeOK /\ Placement /\ TasksAreApart /\ ListsFitGroup /\ PoolIsSafe
  BY DEF IInv, Placement
<1>1. PICK t \in running, u \in running : i = Head(t) /\ j = Head(u)
  BY <1>0 DEF InProgress, ListsFitGroup, Quiet
<1>2. i \in Elements(t) /\ j \in Elements(u)
  BY <1>0, <1>1, ListTypes, HeadIsElement DEF Tasks
<1>3. i \in InPool /\ j \in InPool /\ i \in Positions(plan) /\ j \in Positions(plan)
  BY <1>0, <1>2, Members, InProgressIsFirst
<1>4. ~ ShareClone(plan[i], plan[j])
  BY <1>0, <1>1, <1>2 DEF TasksAreApart, Apart
<1>5. ~ IsPip(i) /\ ~ IsPip(j)
  BY <1>0, <1>3, PipIsOne DEF PoolIsSafe
<1>6. QED
  BY <1>0, <1>3, <1>4, <1>5 DEF PoolIsSafe, MayOverlap

LEMMA WorkIsApart == IInv => KeptApart
BY InProgressOverlaps DEF IInv, Placement, WaitingIsPending, KeptApart

LEMMA OrderIsKept == IInv => InOrder
BY DEF IInv, Placement, ListedIsReady, InOrder

LEMMA HandsAreApart == IInv => InOneHand
<1>. SUFFICES ASSUME IInv PROVE InOneHand
  OBVIOUS
<1>0. TasksAreApart /\ NothingRepeats /\ WaitingIsPending
  BY DEF IInv, Placement
<1>1. InQueue \cap InPool = {}
  BY <1>0 DEF InQueue, InPool, TasksAreApart, Apart
<1>2. InGit \cap InQueue = {}
  BY <1>0 DEF InQueue, InGit, TasksAreApart, Apart
<1>3. InGit \cap InPool = {}
  BY <1>0 DEF InPool, InGit, TasksAreApart, Apart
<1>4. Elements(serial) \cap (InQueue \cup InPool \cup InGit) = {}
  BY <1>0 DEF NothingRepeats, InSerial
<1>5. QED
  BY <1>0, <1>1, <1>2, <1>3, <1>4 DEF WaitingIsPending, InOneHand

LEMMA ReturnIsJust == IInv => ReturnIsTrue
<1>. SUFFICES ASSUME IInv, pc = "returned" PROVE ReturnIsTrue
  BY DEF ReturnIsTrue
<1>1. Quiet /\ WaitingIsPending /\ FailureIsKnown
  BY DEF IInv, Placement, ListsFitGroup
<1>2. InProgress = {}
  BY <1>1 DEF InProgress, Quiet
<1>3. QED
  BY <1>1, <1>2 DEF WaitingIsPending, FailureIsKnown, ReturnIsTrue

LEMMA ReportFollows == IInv => ReportIsTrue
BY DEF IInv, CountIsLocked, DoneOf, EnvFitsStage, Before, Afterwards, ReportIsTrue,
       CountsAreExact, EnvIsAsReported

(* For every plan and every number of threads and of interrupts, the pool  *)
(* and the main thread divide the work as execute() means them to: in the  *)
(* order of the priorities, unsafe operations alone, each operation once,  *)
(* and 0 is returned only for a plan that was completed.                   *)
THEOREM PoolOrder == Spec => []PoolIsOrderly
<1>1. IInv => PoolIsOrderly
  BY WorkIsApart, OrderIsKept, HandsAreApart, ReturnIsJust DEF PoolIsOrderly, IInv
<1>2. QED
  BY <1>1, Invariance, PTL

(* The counters are exact although the threads increment them one behind   *)
(* the other, and what is reported as done is in the environment.          *)
THEOREM TrueReport == Spec => []ReportIsTrue
BY ReportFollows, Invariance, PTL

-----------------------------------------------------------------------------
(* The promise of InstallPlan *)

ProgressOf(i) ==
  IF ~ HasBegun(i) THEN "pending"
  ELSE IF IsAtWork(i) THEN "running"
  ELSE IF stage[i] \in Completed THEN "completed" ELSE "broken"
Progress == [i \in Positions(plan) |-> ProgressOf(i)]
Verdict == CASE pc = "returned" -> IF shutdown THEN "one" ELSE "zero"
             [] pc = "raised"   -> "raised"
             [] OTHER           -> "none"

(* The promise in the terms of the executor.                               *)
LEMMA PromiseMeans ==
  /\ Promise!Positions(plan) = Positions(plan)
  /\ \A i \in Positions(plan) : Promise!MayBegin(i) <=>
       /\ Progress[i] = "pending"
       /\ \A j \in Positions(plan) :
            /\ Precedes(plan, j, i) => Progress[j] = "completed"
            /\ Progress[j] = "running" => MayOverlap(plan[i], plan[j])
BY DEF Promise!Positions, Positions, Promise!MayBegin, Promise!Precedes, Precedes,
       Promise!MayOverlap, MayOverlap, Promise!NeedsToBeAlone, NeedsToBeAlone, Promise!ShareClone,
       ShareClone, Progress, ProgressOf

LEMMA PromiseSame ==
  ASSUME UNCHANGED <<plan, Progress, Verdict>>
  PROVE  UNCHANGED Promise!vars
BY DEF Promise!vars, Progress, ProgressOf, Verdict

LEMMA InitKeepsPromise == Init => Promise!Init
<1>. SUFFICES ASSUME Init PROVE Promise!Init
  OBVIOUS
<1>1. /\ plan \in Plans /\ pc = "start" /\ Promise!Positions(plan) = Positions(plan)
      /\ \A i \in Positions(plan) : ~ HasBegun(i)
  BY PromiseMeans DEF Init, HasBegun
<1>2. QED
  BY <1>1 DEF Promise!Init

(* What is in progress and pending may begin.                              *)
LEMMA PendingMayBegin ==
  ASSUME IInv, NEW i \in InProgress, stage[i] = "pending"
  PROVE  Promise!MayBegin(i)
<1>0. TypeOK /\ Placement /\ ListedIsReady /\ WaitingIsPending
  BY DEF IInv, Placement
<1>1. i \in Positions(plan) /\ i \in Listed /\ ~ HasBegun(i)
  BY <1>0, InProgressIsFirst DEF Listed, HasBegun
<1>2. Progress[i] = "pending"
  BY <1>1 DEF Progress, ProgressOf
<1>3. ASSUME NEW j \in Positions(plan), Precedes(plan, j, i) PROVE Progress[j] = "completed"
  BY <1>0, <1>1, <1>3 DEF ListedIsReady, Progress, ProgressOf, HasBegun, IsAtWork, Completed, Terminal
<1>4. ASSUME NEW j \in Positions(plan), Progress[j] = "running" PROVE MayOverlap(plan[i], plan[j])
  <2>1. IsAtWork(j)
    BY <1>4 DEF Progress, ProgressOf
  <2>2. j \in InProgress /\ i # j
    BY <1>0, <1>1, <2>1 DEF WaitingIsPending, IsAtWork
  <2>3. QED
    BY <2>2, InProgressOverlaps
<1>5. QED
  BY <1>1, <1>2, <1>3, <1>4, PromiseMeans

(* A step of an operation begins it, ends it or is not seen.               *)
LEMMA WorkKeepsPromise ==
  ASSUME IInv, NEW i \in Positions(plan), StageStep(i)
  PROVE  [Promise!Next]_(Promise!vars)
<1>0. TypeOK /\ Placement /\ Works(i)
  BY StageStepWorks DEF IInv
<1>1. /\ plan' = plan /\ pc' = pc /\ i \in InProgress /\ pc # "returned"
      /\ stage[i] \notin Terminal
  BY <1>0, InProgressIsFirst DEF Works
<1>2. Verdict' = Verdict
  BY <1>1 DEF Verdict
<1>3. /\ \A j \in Positions(plan) : j # i => ProgressOf(j)' = ProgressOf(j)
      /\ stage'[i] \in Stages \ {"pending"}
  <2>1. /\ \A j \in Positions(plan) : j # i => stage'[j] = stage[j]
        /\ stage'[i] \in Stages \ {"pending"}
    BY <1>0, WorkChanges
  <2>2. QED
    BY <2>1 DEF ProgressOf, HasBegun, IsAtWork
<1>4. ProgressOf(i)' \in {"running", "completed", "broken"}
  BY <1>3 DEF ProgressOf, HasBegun
<1>5. Progress' = [Progress EXCEPT ![i] = ProgressOf(i)']
  <2>1. Progress' = [j \in Positions(plan) |-> ProgressOf(j)']
    BY <1>1 DEF Progress
  <2>. DEFINE new == ProgressOf(i)'
  <2>2. \A j \in Positions(plan) : ProgressOf(j)' = IF j = i THEN new ELSE ProgressOf(j)
    BY <1>3
  <2>. HIDE DEF new
  <2>3. [Progress EXCEPT ![i] = new] =
          [j \in Positions(plan) |-> IF j = i THEN new ELSE ProgressOf(j)]
    BY DEF Progress
  <2>4. QED
    BY <2>1, <2>2, <2>3 DEF new
<1>6. Promise!Positions(plan) = Positions(plan)
  BY PromiseMeans
<1>7. CASE stage[i] = "pending"
  <2>1. Promise!MayBegin(i)
    BY <1>1, <1>7, PendingMayBegin
  <2>2. CASE Begin(i)
    <3>1. stage'[i] \in {"passed", "removing", "preparing"}
      <4>1. i \in DOMAIN stage
        BY <1>0, WorkChanges
      <4>2. PICK there \in {"passed", "removing", "preparing"} :
              stage' = [stage EXCEPT ![i] = there]
        BY <2>2 DEF Begin, Step
      <4>3. QED
        BY <4>1, <4>2
    <3>2. ProgressOf(i)' \in {"running", "completed"}
      BY <3>1 DEF ProgressOf, HasBegun, IsAtWork, Completed, Terminal
    <3>3. \/ Progress' = [Progress EXCEPT ![i] = "running"]
          \/ Progress' = [Progress EXCEPT ![i] = "completed"]
      BY <1>5, <3>2
    <3>4. Promise!Begin(i) \/ Promise!Pass(i)
      BY <1>1, <1>2, <2>1, <3>3
         DEF Promise!Begin, Promise!Pass, Progress, ProgressOf, Verdict
    <3>5. QED
      BY <1>6, <3>4 DEF Promise!Next
  <2>3. CASE InterruptSerial(i)
    BY <1>7, <2>3 DEF InterruptSerial
  <2>4. QED
    BY <1>7, <2>2, <2>3 DEF StageStep, Execute, Prepare, Remove, InstallWheel, SaveUrlReference,
         ReadCount, WriteCount, Report, Raise, InterruptSubprocess, At
<1>8. CASE stage[i] # "pending"
  <2>1. ProgressOf(i) = "running" /\ Progress[i] = "running"
    BY <1>1, <1>8 DEF Progress, ProgressOf, HasBegun, IsAtWork
  <2>2. CASE ProgressOf(i)' = "running"
    <3>1. Progress' = Progress
      BY <1>5, <2>1, <2>2 DEF Progress
    <3>2. QED
      BY <1>1, <1>2, <3>1, PromiseSame
  <2>3. ASSUME NEW outcome \in {"completed", "broken"}, ProgressOf(i)' = outcome
        PROVE  Promise!Next
    <3>1. Promise!End(i, outcome)
      BY <1>1, <1>2, <1>5, <2>1, <2>3 DEF Promise!End, Progress, ProgressOf, Verdict
    <3>2. QED
      BY <1>6, <3>1 DEF Promise!Next
  <2>4. QED
    BY <1>4, <2>2, <2>3
<1>9. QED
  BY <1>7, <1>8

LEMMA MovesKeepPromise ==
  ASSUME IInv, ReturnIsTrue', Moves
  PROVE  [Promise!Next]_(Promise!vars)
<1>1. UNCHANGED <<plan, stage>>
  BY MovesKeep
<1>2. Progress' = Progress
  BY <1>1 DEF Progress, ProgressOf, HasBegun, IsAtWork
<1>0. pc \notin {"returned", "raised"}
  BY MovesEffect
<1>3. Promise!Positions(plan) = Positions(plan)
  BY PromiseMeans
<1>4. Verdict = "none"
  BY <1>0 DEF Verdict
<1>5. CASE pc' = "returned"
  <2>2. CASE shutdown'
    <3>1. \A i \in Positions(plan) : ~ IsAtWork(i)
      BY <1>1, <1>5 DEF ReturnIsTrue, IsAtWork, HasBegun
    <3>2. \A i \in Positions(plan) : Progress[i] # "running"
      BY <3>1 DEF Progress, ProgressOf
    <3>3. Verdict' = "one"
      BY <1>5, <2>2 DEF Verdict
    <3>4. Promise!ReturnOne
      BY <1>1, <1>2, <1>3, <1>4, <3>2, <3>3 DEF Promise!ReturnOne, Progress, ProgressOf, Verdict
    <3>5. QED
      BY <3>4 DEF Promise!Next
  <2>3. CASE ~ shutdown'
    <3>1. \A i \in Positions(plan) : stage[i] \in Completed
      BY <1>1, <1>5, <2>3 DEF ReturnIsTrue
    <3>2. \A i \in Positions(plan) : Progress[i] = "completed"
      BY <3>1 DEF Progress, ProgressOf, IsAtWork, HasBegun, Completed, Terminal
    <3>3. Verdict' = "zero"
      BY <1>5, <2>3 DEF Verdict
    <3>4. Promise!ReturnZero
      BY <1>1, <1>2, <1>3, <1>4, <3>2, <3>3 DEF Promise!ReturnZero, Progress, ProgressOf, Verdict
    <3>5. QED
      BY <3>4 DEF Promise!Next
  <2>4. QED
    BY <2>2, <2>3
<1>6. CASE pc' = "raised"
  <2>1. Verdict' = "raised"
    BY <1>6 DEF Verdict
  <2>2. Promise!Raise
    BY <1>1, <1>2, <1>4, <2>1 DEF Promise!Raise, Progress, ProgressOf, Verdict
  <2>3. QED
    BY <2>2 DEF Promise!Next
<1>7. CASE pc' \notin {"returned", "raised"}
  <2>1. Verdict' = "none"
    BY <1>7 DEF Verdict
  <2>2. QED
    BY <1>1, <1>2, <1>4, <2>1, PromiseSame
<1>8. QED
  BY <1>5, <1>6, <1>7

LEMMA ListStepKeepsPromise ==
  ASSUME ListStep
  PROVE  UNCHANGED Promise!vars
<1>1. UNCHANGED <<plan, stage, shutdown>>
  BY ListStepKeeps
<1>2. Progress' = Progress
  BY <1>1 DEF Progress, ProgressOf, HasBegun, IsAtWork
<1>3. \/ pc' = pc
      \/ pc \notin {"returned", "raised"} /\ pc' \notin {"returned", "raised"}
  <2>1. CASE SubmitPip \/ CancelFutures
    BY <2>1 DEF SubmitPip, CancelFutures
  <2>2. CASE Dispatch \/ SubmitGit \/ NextSerial \/ Threads
    BY <2>2 DEF Dispatch, SubmitGit, NextSerial, Threads, Take, Proceed
  <2>3. QED
    BY <2>1, <2>2 DEF ListStep
<1>4. Verdict' = Verdict
  BY <1>1, <1>3 DEF Verdict
<1>5. QED
  BY <1>1, <1>2, <1>4, PromiseSame

LEMMA StepKeepsPromise == IInv /\ ReturnIsTrue' /\ [Next]_vars => [Promise!Next]_(Promise!vars)
<1>. SUFFICES ASSUME IInv, ReturnIsTrue', [Next]_vars PROVE [Promise!Next]_(Promise!vars)
  OBVIOUS
<1>1. CASE UNCHANGED vars
  <2>1. UNCHANGED <<plan, stage, pc, shutdown>>
    BY <1>1 DEF vars
  <2>2. UNCHANGED <<plan, Progress, Verdict>>
    BY <2>1 DEF Progress, ProgressOf, HasBegun, IsAtWork, Verdict
  <2>3. QED
    BY <2>2, PromiseSame
<1>2. ASSUME NEW i \in Positions(plan), StageStep(i) PROVE [Promise!Next]_(Promise!vars)
  BY <1>2, WorkKeepsPromise
<1>3. CASE Moves
  BY <1>3, MovesKeepPromise
<1>4. CASE ListStep
  BY <1>4, ListStepKeepsPromise
<1>5. QED
  BY <1>1, <1>2, <1>3, <1>4, Kinds DEF IInv

(* execute() keeps the promise of InstallPlan at every step: what it does  *)
(* to operations, and the value it returns, are what that module allows.   *)
(* That there is an end is left to TLC.                                    *)
THEOREM PromiseIsKept == Spec => Promise!Safety
<1>1. Spec => Promise!Init /\ [][Promise!Next]_(Promise!vars)
  BY InitKeepsPromise, StepKeepsPromise, Invariance, ReturnIsJust, PTL DEF Spec
<1>2. QED
  BY <1>1 DEF Promise!Safety
=============================================================================
