------------------------ MODULE AtomicCachedProperty ------------------------
(***************************************************************************)
(* poetry.utils.threading: a cached_property that several threads may ask  *)
(* for at once.  The lock of an instance is made on demand: a first look   *)
(* without protection, a second one under a semaphore that all instances   *)
(* share.  The value is kept in the instance, where attribute access finds *)
(* it before it finds the property.                                        *)
(***************************************************************************)
EXTENDS Naturals

CONSTANTS
  Threads,
  Instances,
  NoThread,   \* nobody
  NoInstance  \* a thread is between two accesses

ThreadAssumption == NoThread \notin Threads /\ NoInstance \notin Instances

VARIABLES
  locks,      \* _locks: for each instance the thread that made its lock
  semaphore,  \* the thread that holds _semaphore
  holder,     \* holder[i][t]: who holds the lock that t made for i
  cached,     \* the instance has a value in its __dict__
  pc,         \* where __get__ is, for each thread
  asks,       \* the instance a thread asks for the property of
  mine        \* the lock it found, by its maker

vars == <<locks, semaphore, holder, cached, pc, asks, mine>>

Init ==
  /\ locks = [i \in Instances |-> NoThread]
  /\ semaphore = NoThread
  /\ holder = [i \in Instances |-> [t \in Threads |-> NoThread]]
  /\ cached = [i \in Instances |-> FALSE]
  /\ pc = [t \in Threads |-> "idle"]
  /\ asks = [t \in Threads |-> NoInstance]
  /\ mine = [t \in Threads |-> NoThread]

HasLock(i) == locks[i] # NoThread

Goto(t, here, there) == pc[t] = here /\ pc' = [pc EXCEPT ![t] = there]

(* Bug: the first look takes it for granted that there is a lock. *)
BugTakeForGranted(i) == "find"
FirstLook(i) == IF HasLock(i) THEN "find" ELSE "look"

(* The value is not in the instance: __get__ is called, and looks first. *)
Access(t, i) ==
  /\ ~ cached[i]
  /\ Goto(t, "idle", FirstLook(i))
  /\ asks' = [asks EXCEPT ![t] = i]
  /\ UNCHANGED <<locks, semaphore, holder, cached, mine>>

TakeSemaphore(t) ==
  /\ semaphore = NoThread
  /\ Goto(t, "look", "make")
  /\ semaphore' = t
  /\ UNCHANGED <<locks, holder, cached, asks, mine>>

(* Bug: no second look under the semaphore. *)
BugLookOnce(i) == TRUE
IsMissing(i) == ~ HasLock(i)

MakeLock(t) ==
  /\ Goto(t, "make", "made")
  /\ locks' = IF IsMissing(asks[t]) THEN [locks EXCEPT ![asks[t]] = t] ELSE locks
  /\ UNCHANGED <<semaphore, holder, cached, asks, mine>>

(* Bug: the semaphore is not given back. *)
BugKeepSemaphore(t) == t
Freed(t) == NoThread

GiveSemaphore(t) ==
  /\ Goto(t, "made", "find")
  /\ semaphore' = Freed(t)
  /\ UNCHANGED <<locks, holder, cached, asks, mine>>

FindLock(t) ==
  /\ Goto(t, "find", "wait")
  /\ mine' = [mine EXCEPT ![t] = locks[asks[t]]]
  /\ UNCHANGED <<locks, semaphore, holder, cached, asks>>

TakeLock(t) ==
  /\ Goto(t, "wait", "inside")
  /\ holder[asks[t]][mine[t]] = NoThread
  /\ holder' = [holder EXCEPT ![asks[t]][mine[t]] = t]
  /\ UNCHANGED <<locks, semaphore, cached, asks, mine>>

(* Bug: what another thread has computed in the meantime is not used. *)
BugComputeAnyway(i) == FALSE
IsCached(i) == cached[i]

(* cached_property.__get__ finds the value, or calls the function. *)
FindValue(t) ==
  /\ Goto(t, "inside", "leave")
  /\ IsCached(asks[t])
  /\ UNCHANGED <<locks, semaphore, holder, cached, asks, mine>>

Compute(t) ==
  /\ Goto(t, "inside", "compute")
  /\ ~ IsCached(asks[t])
  /\ UNCHANGED <<locks, semaphore, holder, cached, asks, mine>>

Computed(t) ==
  /\ Goto(t, "compute", "leave")
  /\ cached' = [cached EXCEPT ![asks[t]] = TRUE]
  /\ UNCHANGED <<locks, semaphore, holder, asks, mine>>

(* The function raises: nothing is kept, and the lock is released. *)
RaiseError(t) ==
  /\ Goto(t, "compute", "leave")
  /\ UNCHANGED <<locks, semaphore, holder, cached, asks, mine>>

GiveLock(t) ==
  /\ Goto(t, "leave", "idle")
  /\ holder' = [holder EXCEPT ![asks[t]][mine[t]] = NoThread]
  /\ asks' = [asks EXCEPT ![t] = NoInstance]
  /\ mine' = [mine EXCEPT ![t] = NoThread]
  /\ UNCHANGED <<locks, semaphore, cached>>

(* del instance.property: the next access computes it again. *)
Invalidate(i) ==
  /\ cached[i]
  /\ cached' = [cached EXCEPT ![i] = FALSE]
  /\ UNCHANGED <<locks, semaphore, holder, pc, asks, mine>>

Proceed(t) ==
  \/ TakeSemaphore(t) \/ MakeLock(t) \/ GiveSemaphore(t) \/ FindLock(t)
  \/ TakeLock(t) \/ FindValue(t) \/ Compute(t) \/ Computed(t) \/ RaiseError(t)
  \/ GiveLock(t)

Next ==
  \/ \E t \in Threads, i \in Instances : Access(t, i)
  \/ \E t \in Threads : Proceed(t)
  \/ \E i \in Instances : Invalidate(i)

(* Threads run on; a semaphore and a lock that are given back again and     *)
(* again are not withheld from one thread for ever.                        *)
Fairness ==
  \A t \in Threads :
    /\ WF_vars(Proceed(t))
    /\ SF_vars(TakeSemaphore(t))
    /\ SF_vars(TakeLock(t))

Spec == Init /\ [][Next]_vars /\ Fairness
-----------------------------------------------------------------------------
(* Properties *)

UnderLock == {"inside", "compute", "leave"}

TypeOK ==
  /\ locks \in [Instances -> Threads \cup {NoThread}]
  /\ semaphore \in Threads \cup {NoThread}
  /\ holder \in [Instances -> [Threads -> Threads \cup {NoThread}]]
  /\ cached \in [Instances -> BOOLEAN]
  /\ pc \in [Threads -> {"idle", "look", "make", "made", "find", "wait", "inside",
                         "compute", "leave"}]
  /\ asks \in [Threads -> Instances \cup {NoInstance}]
  /\ mine \in [Threads -> Threads \cup {NoThread}]
  /\ \A t \in Threads :
       /\ pc[t] # "idle" => asks[t] \in Instances
       /\ pc[t] \in {"wait"} \cup UnderLock => mine[t] \in Threads

(* Two threads never compute the property of one instance at the same time *)
(* and no two threads are ever under its lock: it has one lock only.       *)
OneAtATime ==
  \A t, u \in Threads :
    t # u /\ pc[t] \in UnderLock /\ pc[u] \in UnderLock => asks[t] # asks[u]

(* "computed only once": the function is not called, and its result does   *)
(* not replace another, while the instance has a value.                    *)
ComputedOnce ==
  [][\A t \in Threads : Compute(t) \/ Computed(t) => ~ cached[asks[t]]]_vars

(* The lock of an instance is never replaced by another one: a thread that *)
(* waits for it waits for the same lock as all others.                     *)
OneLock == [][\A i \in Instances : HasLock(i) => locks'[i] = locks[i]]_vars

(* Why there is one lock: it is made by a thread that holds the semaphore,  *)
(* it is there when it is looked up, and whoever found it found the same.  *)
LockDiscipline ==
  \A t \in Threads :
    /\ pc[t] \in {"make", "made"} <=> semaphore = t
    /\ pc[t] \in {"made", "find"} => HasLock(asks[t])
    /\ pc[t] \in {"wait"} \cup UnderLock => mine[t] = locks[asks[t]]
    /\ pc[t] \in UnderLock => holder[asks[t]][mine[t]] = t
    /\ pc[t] = "compute" => ~ cached[asks[t]]

(* The types and the discipline together are inductive.                    *)
LocksAreDisciplined == TypeOK /\ LockDiscipline

(* One thread at a time is under the lock of an instance, which is the      *)
(* only lock that the instance has, and computes for want of a value.      *)
ComputedAlone == LocksAreDisciplined /\ OneAtATime

(* A thread that asks gets an answer, or an error, whatever others do.     *)
Answered == \A t \in Threads : pc[t] # "idle" ~> pc[t] = "idle"
=============================================================================
