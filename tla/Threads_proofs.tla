--------------------------- MODULE Threads_proofs ---------------------------
(***************************************************************************)
(* What threads do to each other, for any number of them.  However many ask *)
(* for however long an archive, and however often the connection breaks:    *)
(* the lock excludes, so what is cached is written by one thread, never      *)
(* replaced, and whole if the server can be trusted.  And however many ask  *)
(* for the property of however many instances: it is computed by one thread *)
(* at a time, and not again while the instance has a value.                 *)
(***************************************************************************)
EXTENDS MCThreads, TLAPS

-----------------------------------------------------------------------------
(* ArtifactCache *)

UnderLock(t) == pc[t] \in {"check", "get", "load", "clean"}
IsPrefix(seq) == Len(seq) <= NumChunks /\ \A k \in 1 .. Len(seq) : seq[k] = k

(* Whoever is under a lock holds it.                                       *)
LockIsHeld ==
  \A t \in Threads :
    /\ pc[t] \in {"store", "lock"} \/ UnderLock(t) => lock[t] \in Locks
    /\ UnderLock(t) => holder[lock[t]] = t

(* A server that honors ranges goes on where the temporary file ends.      *)
TempIsPrefix ==
  setting.honorsRanges =>
    \A t \in Threads :
      IsPrefix(temp[t]) /\ (pc[t] = "load" => next[t] = Len(temp[t]) + 1)

(* Threads that share a process use the lock that was there.               *)
LockIsShared ==
  IsShared =>
    \A t \in Threads :
      /\ locks[setting.processOf[t]] = First
      /\ pc[t] # "store"
      /\ pc[t] = "lock" \/ UnderLock(t) => lock[t] = First

(* They download what is not there, and then find what they have chosen.   *)
OnlyWhenMissing ==
  IsShared =>
    \A t \in Threads :
      /\ pc[t] \in {"get", "load", "clean"} => archive = None
      /\ pc[t] = "choose" => archive # None
      /\ pc[t] # "refused"

IInv ==
  /\ TypeOK /\ LockIsHeld /\ TempIsPrefix /\ ArchiveIsWhole
  /\ LockIsShared /\ OnlyWhenMissing /\ InstalledIsLocked
-----------------------------------------------------------------------------
LEMMA Constants ==
  /\ First \in Locks /\ \A t \in Threads : LockBy[t] \in Locks
  /\ None \notin Threads /\ None \notin Locks /\ None \notin Seq(Nat)
  /\ << >> \in Seq(Nat)
  /\ NumChunks \in Nat /\ MaxRetries \in Nat /\ MaxCuts \in Nat
BY ArtifactCacheAssumption

LEMMA Circumstances ==
  ASSUME TypeOK
  PROVE  /\ \A t \in Threads : setting.processOf[t] \in Processes
         /\ setting.honorsRanges \in BOOLEAN
BY DEF TypeOK, Setting

LEMMA InitEstablishes == Init => IInv
<1>. SUFFICES ASSUME Init PROVE IInv
  OBVIOUS
<1>1. TypeOK
  <2>1. setting \in Setting
    BY ArtifactCacheAssumption DEF Init
  <2>2. locks \in [Processes -> Locks \cup {None}]
    BY Constants DEF Init
  <2>3. /\ retries \in [Threads -> 0 .. MaxRetries] /\ cuts \in [Threads -> 0 .. MaxCuts]
        /\ next \in [Threads -> Nat]
    BY Constants DEF Init
  <2>4. /\ temp \in [Threads -> Seq(Nat)] /\ archive \in Seq(Nat) \cup {None}
        /\ holder \in [Locks -> Threads \cup {None}] /\ lock \in [Threads -> Locks \cup {None}]
    BY Constants DEF Init
  <2>5. QED
    BY <2>1, <2>2, <2>3, <2>4 DEF Init, TypeOK, States
<1>2. LockIsHeld /\ TempIsPrefix /\ OnlyWhenMissing /\ InstalledIsLocked
  BY Constants DEF Init, LockIsHeld, TempIsPrefix, OnlyWhenMissing, InstalledIsLocked,
                   UnderLock, IsPrefix
<1>3. ArchiveIsWhole
  BY DEF Init, ArchiveIsWhole
<1>4. LockIsShared
  BY <1>1, Circumstances DEF Init, LockIsShared, IsShared, UnderLock
<1>5. QED
  BY <1>1, <1>2, <1>3, <1>4 DEF IInv

(* The lock excludes: of two threads that are under it, each holds it.     *)
LEMMA Exclusion ==
  ASSUME TypeOK, LockIsHeld, LockIsShared, IsShared,
         NEW s \in Threads, NEW t \in Threads, UnderLock(s), UnderLock(t)
  PROVE  s = t
BY DEF TypeOK, LockIsHeld, LockIsShared

(* A prefix that is as long as the archive is the archive.                 *)
LEMMA WholePrefix ==
  ASSUME NEW seq \in Seq(Nat), IsPrefix(seq), Len(seq) + 1 > NumChunks
  PROVE  seq = Whole
BY ArtifactCacheAssumption DEF IsPrefix, Whole

LEMMA NoneIsNoArchive == None \notin Seq(Nat) /\ None \notin Locks /\ Whole \in Seq(Nat)
BY ArtifactCacheAssumption DEF Whole

(* A connection that breaks: the archive is taken for complete, or the     *)
(* thread goes on under the lock.                                          *)
LEMMA CutEffect ==
  ASSUME TypeOK, NEW t \in Threads, Cut(t)
  PROVE  /\ pc[t] = "load"
         /\ UNCHANGED <<wheel, locks, lock, temp, next, chosen>>
         /\ \/ /\ ~ setting.knowsLength /\ archive' = temp[t]
               /\ pc' = [pc EXCEPT ![t] = "choose"]
               /\ holder' = [holder EXCEPT ![lock[t]] = None]
            \/ /\ pc' = [pc EXCEPT ![t] = "get"] /\ UNCHANGED <<archive, holder>>
            \/ /\ pc' = [pc EXCEPT ![t] = "clean"] /\ UNCHANGED <<archive, holder>>
BY DEF Cut, Leaves, Goes, locking

(* Every step of a thread keeps the types.                                 *)
LEMMA StepTypes ==
  ASSUME TypeOK, NEW t \in Threads, Step(t) \/ Again(t),
         LockIsHeld
  PROVE  TypeOK'
<1>. USE Constants DEF TypeOK, Goes, Leaves, files, locking, loading, States
<1>0. setting' = setting
  BY DEF Step, Again
<1>1. CASE Ask(t)
  BY <1>0, <1>1 DEF Ask
<1>2. CASE FindLock(t)
  BY <1>0, <1>2, Circumstances DEF FindLock, EntryOf
<1>3. CASE StoreLock(t)
  BY <1>0, <1>3 DEF StoreLock, Setting
<1>4. CASE TakeLock(t)
  BY <1>0, <1>4 DEF TakeLock
<1>5. CASE Check(t)
  <2>1. temp' \in [Threads -> Seq(Nat)] /\ retries' \in [Threads -> 0 .. MaxRetries]
    BY <1>5 DEF Check
  <2>2. pc' \in [Threads -> States] /\ holder' \in [Locks -> Threads \cup {None}]
    BY <1>5 DEF Check
  <2>3. UNCHANGED <<setting, archive, wheel, locks, lock, next, cuts, chosen>>
    BY <1>0, <1>5 DEF Check
  <2>4. QED
    BY <2>1, <2>2, <2>3
<1>6. CASE Get(t)
  <2>1. StartOf(t) \in Nat
    BY DEF StartOf
  <2>2. QED
    BY <1>0, <1>6, <2>1, ZenonT(60) DEF Get
<1>7. CASE Receive(t)
  BY <1>0, <1>7 DEF Receive
<1>8. CASE Finish(t)
  BY <1>0, <1>8 DEF Finish
<1>9. CASE Cut(t)
  <2>1. cuts' \in [Threads -> 0 .. MaxCuts]
    BY <1>9 DEF Cut
  <2>2. retries' \in [Threads -> 0 .. MaxRetries]
    <3>1. \/ retries' = retries
          \/ retries[t] < MaxRetries /\ retries' = [retries EXCEPT ![t] = retries[t] + 1]
      BY <1>9 DEF Cut, MayRetry
    <3>2. retries[t] < MaxRetries => retries[t] + 1 \in 0 .. MaxRetries
      OBVIOUS
    <3>3. QED
      BY <3>1, <3>2
  <2>3. archive' \in Seq(Nat) \cup {None} /\ UNCHANGED <<wheel, locks, lock, temp, next, chosen>>
    BY <1>9 DEF Cut
  <2>4. pc' \in [Threads -> States]
    BY <1>9 DEF Cut
  <2>5. holder' \in [Locks -> Threads \cup {None}]
    BY <1>9 DEF Cut
  <2>6. QED
    BY <1>0, <2>1, <2>2, <2>3, <2>4, <2>5
<1>10. CASE Clean(t)
  BY <1>0, <1>10 DEF Clean
<1>11. CASE Choose(t)
  BY <1>0, <1>11 DEF Choose
<1>12. CASE Build(t)
  BY <1>0, <1>12 DEF Build
<1>13. CASE Validate(t)
  BY <1>0, <1>13 DEF Validate
<1>14. CASE Install(t)
  BY <1>0, <1>14 DEF Install
<1>15. CASE Again(t)
  BY <1>0, <1>15 DEF Again
<1>16. QED
  BY <1>1, <1>2, <1>3, <1>4, <1>5, <1>6, <1>7, <1>8, <1>9, <1>10, <1>11, <1>12,
     <1>13, <1>14, <1>15 DEF Step
(* Every step keeps the discipline of the locks: a lock is given back by   *)
(* its holder only, and taken when nobody has it.                          *)
LEMMA StepLocks ==
  ASSUME IInv, NEW t \in Threads, Step(t) \/ Again(t)
  PROVE  LockIsHeld' /\ LockIsShared'
<1>. USE Constants, Circumstances
     DEF IInv, TypeOK, LockIsHeld, LockIsShared, UnderLock, Goes, Leaves, files, locking, loading
<1>0. setting' = setting /\ IsShared' = IsShared
  BY DEF Step, Again, IsShared
<1>1. CASE Ask(t)
  BY <1>0, <1>1 DEF Ask
<1>2. CASE FindLock(t)
  <2>1. IsShared => EntryOf(t) = First /\ First # None
    BY DEF EntryOf
  <2>2. EntryOf(t) \in Locks \cup {None}
    BY DEF EntryOf
  <2>3. LockIsHeld'
    BY <1>0, <1>2, <2>2, ZenonT(60) DEF FindLock
  <2>4. LockIsShared'
    BY <1>0, <1>2, <2>1, <2>2 DEF FindLock
  <2>5. QED
    BY <2>3, <2>4
<1>3. CASE StoreLock(t)
  BY <1>0, <1>3 DEF StoreLock, IsShared
<1>4. CASE TakeLock(t)
  BY <1>0, <1>4 DEF TakeLock
<1>5. CASE Check(t)
  BY <1>0, <1>5, SMTT(30) DEF Check
<1>6. CASE Get(t)
  BY <1>0, <1>6 DEF Get
<1>7. CASE Receive(t)
  BY <1>0, <1>7 DEF Receive
<1>8. CASE Finish(t)
  BY <1>0, <1>8 DEF Finish
<1>9. CASE Cut(t)
  <2>0. pc[t] = "load" /\ UNCHANGED <<locks, lock>>
    BY <1>9, CutEffect
  <2>1. CASE pc' = [pc EXCEPT ![t] = "choose"] /\ holder' = [holder EXCEPT ![lock[t]] = None]
    <3>1. \A s \in Threads : s # t /\ UnderLock(s) => lock[s] # lock[t]
      BY <2>0
    <3>2. LockIsHeld'
      BY <2>0, <2>1, <3>1
    <3>3. LockIsShared'
      BY <1>0, <2>0, <2>1
    <3>4. QED
      BY <3>2, <3>3
  <2>2. CASE pc'[t] \in {"get", "clean"} /\ pc' = [pc EXCEPT ![t] = pc'[t]] /\ UNCHANGED holder
    BY <1>0, <2>2, CutEffect, <1>9, SMTT(30)
  <2>3. QED
    BY <2>1, <2>2, CutEffect, <1>9
<1>10. CASE Clean(t)
  BY <1>0, <1>10 DEF Clean
<1>11. CASE Choose(t)
  BY <1>0, <1>11, ZenonT(60) DEF Choose
<1>12. CASE Build(t)
  BY <1>0, <1>12 DEF Build
<1>13. CASE Validate(t)
  BY <1>0, <1>13 DEF Validate
<1>14. CASE Install(t)
  BY <1>0, <1>14 DEF Install
<1>15. CASE Again(t)
  BY <1>0, <1>15 DEF Again, IsOver
<1>16. QED
  BY <1>1, <1>2, <1>3, <1>4, <1>5, <1>6, <1>7, <1>8, <1>9, <1>10, <1>11, <1>12,
     <1>13, <1>14, <1>15 DEF Step

(* Every step keeps the temporary files prefixes of the archive.           *)
LEMMA StepTemp ==
  ASSUME IInv, NEW t \in Threads, Step(t) \/ Again(t)
  PROVE  TempIsPrefix' /\ ArchiveIsWhole'
<1>. USE Constants
     DEF IInv, TypeOK, TempIsPrefix, ArchiveIsWhole, IsPrefix, Goes, Leaves, files, locking, loading
<1>0. setting' = setting
  BY DEF Step, Again
<1>1. CASE Ask(t)
  BY <1>0, <1>1 DEF Ask
<1>2. CASE FindLock(t)
  BY <1>0, <1>2 DEF FindLock
<1>3. CASE StoreLock(t)
  BY <1>0, <1>3 DEF StoreLock
<1>4. CASE TakeLock(t)
  BY <1>0, <1>4 DEF TakeLock
<1>5. CASE Check(t)
  BY <1>0, <1>5 DEF Check
<1>6. CASE Get(t)
  BY <1>0, <1>6 DEF Get, StartOf
<1>7. CASE Receive(t)
  BY <1>0, <1>7 DEF Receive
<1>8. CASE Finish(t)
  <2>1. setting.honorsRanges => temp[t] = Whole
    BY <1>8, WholePrefix DEF Finish
  <2>2. QED
    BY <1>0, <1>8, <2>1 DEF Finish
<1>9. CASE Cut(t)
  <2>1. setting.knowsLength => archive' = archive
    BY <1>9 DEF Cut
  <2>2. UNCHANGED <<temp, next>> /\ pc' = [pc EXCEPT ![t] = pc'[t]] /\ pc'[t] # "load"
    BY <1>9 DEF Cut
  <2>3. QED
    BY <1>0, <2>1, <2>2
<1>10. CASE Clean(t)
  BY <1>0, <1>10 DEF Clean
<1>11. CASE Choose(t)
  BY <1>0, <1>11 DEF Choose
<1>12. CASE Build(t)
  BY <1>0, <1>12 DEF Build
<1>13. CASE Validate(t)
  BY <1>0, <1>13 DEF Validate
<1>14. CASE Install(t)
  BY <1>0, <1>14 DEF Install
<1>15. CASE Again(t)
  BY <1>0, <1>15 DEF Again, IsOver
<1>16. QED
  BY <1>1, <1>2, <1>3, <1>4, <1>5, <1>6, <1>7, <1>8, <1>9, <1>10, <1>11, <1>12,
     <1>13, <1>14, <1>15 DEF Step

(* Threads that share a process never replace or remove what is cached.    *)
LEMMA ArchiveIsKept ==
  ASSUME IInv, NEW t \in Threads, Step(t) \/ Again(t), IsShared, archive # None
  PROVE  archive' = archive
<1>1. pc[t] \notin {"load", "clean"}
  BY DEF IInv, OnlyWhenMissing
<1>2. ~ Finish(t) /\ ~ Cut(t) /\ ~ Clean(t)
  BY <1>1 DEF Finish, Cut, Clean, Leaves, Goes
<1>3. QED
  BY <1>2 DEF Step, Again, Ask, FindLock, StoreLock, TakeLock, Check, Get, Receive, Choose,
              Build, Validate, Install, files

LEMMA StepShared ==
  ASSUME IInv, NEW t \in Threads, Step(t) \/ Again(t)
  PROVE  OnlyWhenMissing' /\ InstalledIsLocked'
<1>. SUFFICES ASSUME IsShared PROVE OnlyWhenMissing' /\ InstalledIsLocked'
  BY DEF Step, Again, IsShared, OnlyWhenMissing, InstalledIsLocked
<1>0. /\ setting' = setting /\ IsShared' = IsShared
      /\ \A s \in Threads : UnderLock(s) /\ UnderLock(t) => s = t
      /\ archive # None => archive' = archive
      /\ None \notin Seq(Nat) /\ Whole \in Seq(Nat)
  BY Exclusion, ArchiveIsKept, NoneIsNoArchive DEF Step, Again, IsShared, IInv
<1>. USE DEF IInv, TypeOK, OnlyWhenMissing, InstalledIsLocked, UnderLock, LockIsShared,
             Goes, Leaves, files, locking, loading
<1>1. CASE Ask(t)
  BY <1>0, <1>1 DEF Ask
<1>2. CASE FindLock(t)
  BY <1>0, <1>2 DEF FindLock, EntryOf
<1>3. CASE StoreLock(t)
  BY <1>0, <1>3 DEF StoreLock
<1>4. CASE TakeLock(t)
  BY <1>0, <1>4 DEF TakeLock
<1>5. CASE Check(t)
  BY <1>0, <1>5 DEF Check, IsThere
<1>6. CASE Get(t)
  BY <1>0, <1>6 DEF Get
<1>7. CASE Receive(t)
  BY <1>0, <1>7 DEF Receive
<1>8. CASE Finish(t)
  BY <1>0, <1>8 DEF Finish
<1>9. CASE Cut(t)
  <2>0. pc[t] = "load" /\ UNCHANGED chosen /\ archive' \in {archive, temp[t]}
    BY <1>9, CutEffect
  <2>1. OnlyWhenMissing'
    <3>1. CASE pc' = [pc EXCEPT ![t] = "choose"] /\ archive' = temp[t]
      BY <1>0, <2>0, <3>1
    <3>2. CASE pc'[t] \in {"get", "clean"} /\ pc' = [pc EXCEPT ![t] = pc'[t]] /\ UNCHANGED archive
      BY <1>0, <2>0, <3>2
    <3>3. QED
      BY <3>1, <3>2, CutEffect, <1>9
  <2>2. InstalledIsLocked'
    BY <1>0, <1>9, CutEffect
  <2>3. QED
    BY <2>1, <2>2
<1>10. CASE Clean(t)
  BY <1>0, <1>10 DEF Clean
<1>11. CASE Choose(t)
  BY <1>0, <1>11, ZenonT(60) DEF Choose
<1>12. CASE Build(t)
  BY <1>0, <1>12 DEF Build
<1>13. CASE Validate(t)
  BY <1>0, <1>13 DEF Validate, IsValid
<1>14. CASE Install(t)
  BY <1>0, <1>14 DEF Install
<1>15. CASE Again(t)
  BY <1>0, <1>15 DEF Again, IsOver
<1>16. QED
  BY <1>1, <1>2, <1>3, <1>4, <1>5, <1>6, <1>7, <1>8, <1>9, <1>10, <1>11, <1>12,
     <1>13, <1>14, <1>15 DEF Step

LEMMA StepPreserves == IInv /\ [Next]_vars => IInv'
<1>. SUFFICES ASSUME IInv, [Next]_vars PROVE IInv'
  OBVIOUS
<1>1. CASE UNCHANGED vars
  BY <1>1 DEF vars, IInv, TypeOK, LockIsHeld, TempIsPrefix, ArchiveIsWhole, LockIsShared,
              OnlyWhenMissing, InstalledIsLocked, UnderLock, IsPrefix, IsShared
<1>2. ASSUME NEW t \in Threads, Step(t) \/ Again(t) PROVE IInv'
  BY <1>2, StepTypes, StepLocks, StepTemp, StepShared DEF IInv
<1>3. QED
  BY <1>1, <1>2 DEF Next

LEMMA Invariance == Spec => []IInv
BY InitEstablishes, StepPreserves, PTL DEF Spec

(* What is cached, found and installed is the archive, and the threads of  *)
(* a process download it once (ArtifactCache and Downloader).              *)
THEOREM ArchiveSafety == Spec => []ArchiveIsSafe
<1>1. IInv => DownloadedOnce
  BY Exclusion DEF IInv, DownloadedOnce, UnderLock
<1>2. IInv => FoundAfterDownload
  BY DEF IInv, OnlyWhenMissing, FoundAfterDownload
<1>3. IInv => ArchiveIsSafe
  BY <1>1, <1>2 DEF IInv, ArchiveIsSafe
<1>4. QED
  BY <1>3, Invariance, PTL

(* What is in the cache is neither replaced nor removed while the threads  *)
(* of one process ask for it.                                              *)
THEOREM ArchiveLasts == Spec => ArchiveStays
<1>1. IInv /\ [Next]_vars => [IsShared /\ archive # None => archive' = archive]_vars
  BY ArchiveIsKept DEF Next
<1>2. QED
  BY <1>1, Invariance, PTL DEF Spec, ArchiveStays

-----------------------------------------------------------------------------
(* AtomicCachedProperty *)

LEMMA LocksStart == A!Init => A!LocksAreDisciplined
BY OneOfAtomicCachedProperty
   DEF A!ThreadAssumption, A!Init, A!LocksAreDisciplined, A!TypeOK, A!LockDiscipline, A!UnderLock, A!HasLock

(* The lock excludes: whoever is under the lock of an instance is its      *)
(* holder, and all of them mean the same lock.                             *)
LEMMA LockExcludes == A!LocksAreDisciplined => A!OneAtATime
BY OneOfAtomicCachedProperty
   DEF A!ThreadAssumption, A!LocksAreDisciplined, A!TypeOK, A!LockDiscipline, A!OneAtATime, A!UnderLock

(* Every step keeps the discipline of the locks.                          *)
LEMMA LocksStep == A!LocksAreDisciplined /\ [A!Next]_propertyvars => A!LocksAreDisciplined'
<1>. SUFFICES ASSUME A!LocksAreDisciplined, [A!Next]_propertyvars PROVE A!LocksAreDisciplined'
  OBVIOUS
<1>0. A!OneAtATime
  BY LockExcludes
<1>. USE OneOfAtomicCachedProperty DEF A!ThreadAssumption, A!LocksAreDisciplined, A!TypeOK, A!LockDiscipline,
         A!UnderLock, A!HasLock, A!Goto
<1>1. ASSUME NEW t \in Askers, NEW i \in Instances, A!Access(t, i) PROVE A!LocksAreDisciplined'
  BY <1>1 DEF A!Access, A!FirstLook
<1>2. ASSUME NEW t \in Askers, A!TakeSemaphore(t) PROVE A!LocksAreDisciplined'
  BY <1>2 DEF A!TakeSemaphore
<1>3. ASSUME NEW t \in Askers, A!MakeLock(t) PROVE A!LocksAreDisciplined'
  BY <1>3 DEF A!MakeLock, A!IsMissing
<1>4. ASSUME NEW t \in Askers, A!GiveSemaphore(t) PROVE A!LocksAreDisciplined'
  BY <1>4 DEF A!GiveSemaphore, A!Freed
<1>5. ASSUME NEW t \in Askers, A!FindLock(t) PROVE A!LocksAreDisciplined'
  BY <1>5 DEF A!FindLock
<1>6. ASSUME NEW t \in Askers, A!TakeLock(t) PROVE A!LocksAreDisciplined'
  BY <1>6 DEF A!TakeLock
<1>7. ASSUME NEW t \in Askers, A!FindValue(t) PROVE A!LocksAreDisciplined'
  BY <1>7 DEF A!FindValue
<1>8. ASSUME NEW t \in Askers, A!Compute(t) PROVE A!LocksAreDisciplined'
  BY <1>8 DEF A!Compute, A!IsCached
<1>9. ASSUME NEW t \in Askers, A!Computed(t) PROVE A!LocksAreDisciplined'
  BY <1>0, <1>9 DEF A!Computed, A!OneAtATime
<1>10. ASSUME NEW t \in Askers, A!RaiseError(t) PROVE A!LocksAreDisciplined'
  BY <1>10 DEF A!RaiseError
<1>11. ASSUME NEW t \in Askers, A!GiveLock(t) PROVE A!LocksAreDisciplined'
  BY <1>0, <1>11 DEF A!GiveLock, A!OneAtATime
<1>12. ASSUME NEW i \in Instances, A!Invalidate(i) PROVE A!LocksAreDisciplined'
  BY <1>12 DEF A!Invalidate
<1>13. CASE UNCHANGED propertyvars
  BY <1>13 DEF propertyvars
<1>14. QED
  BY <1>1, <1>2, <1>3, <1>4, <1>5, <1>6, <1>7, <1>8, <1>9, <1>10, <1>11, <1>12,
     <1>13 DEF A!Next, A!Proceed

LEMMA LocksInvariance == PropertySpec => []A!LocksAreDisciplined /\ [][A!Next]_propertyvars
<1>1. [A!Next /\ UNCHANGED vars]_allvars => [A!Next]_propertyvars
  BY DEF allvars
<1>. QED
  BY <1>1, LocksStart, LocksStep, PTL DEF PropertySpec, MCInit

(* No two threads are ever under the lock of one instance, the discipline  *)
(* of the locks holds, and all variables have their types.                 *)
THEOREM MutualExclusion == PropertySpec => []ComputedAlone
<1>1. A!LocksAreDisciplined => ComputedAlone
  BY LockExcludes DEF ComputedAlone, A!ComputedAlone
<1> QED
  BY <1>1, LocksInvariance, PTL

(* The function is called, and its value kept, only for an instance that   *)
(* has no value yet.                                                       *)
THEOREM ComputesOnce == PropertySpec => A!ComputedOnce
<1>1. A!LocksAreDisciplined => [\A t \in Askers : A!Compute(t) \/ A!Computed(t) => ~ cached[asks[t]]]_propertyvars
  BY DEF A!LocksAreDisciplined, A!LockDiscipline, A!Compute, A!Computed, A!Goto, A!IsCached
<1>2. QED
  BY <1>1, LocksInvariance, PTL DEF A!ComputedOnce, propertyvars, A!vars

(* The lock of an instance is never replaced.                              *)
THEOREM LockStays == PropertySpec => A!OneLock
<1>1. A!LocksAreDisciplined /\ [A!Next]_propertyvars =>
        [\A i \in Instances : A!HasLock(i) => made'[i] = made[i]]_propertyvars
  <2>. SUFFICES ASSUME A!LocksAreDisciplined, A!Next, NEW i \in Instances, A!HasLock(i)
                PROVE  made'[i] = made[i]
    BY DEF propertyvars
  <2>1. ASSUME NEW t \in Askers, A!MakeLock(t) PROVE made'[i] = made[i]
    BY <2>1 DEF A!MakeLock, A!IsMissing, A!LocksAreDisciplined, A!TypeOK, A!Goto
  <2>2. CASE UNCHANGED made
    BY <2>2
  <2>3. QED
    BY <2>1, <2>2 DEF A!Next, A!Proceed, A!Access, A!TakeSemaphore, A!GiveSemaphore, A!FindLock,
       A!TakeLock, A!FindValue, A!Compute, A!Computed, A!RaiseError, A!GiveLock, A!Invalidate
<1>2. QED
  BY <1>1, LocksInvariance, PTL DEF A!OneLock, propertyvars, A!vars
=============================================================================
