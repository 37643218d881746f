---------------------------- MODULE ArtifactCache ----------------------------
(***************************************************************************)
(* One archive in poetry.utils.cache.ArtifactCache: threads, of one or     *)
(* several processes, look for it, download it with Downloader of          *)
(* poetry.utils.helpers, and the executor builds, checks and installs it.  *)
(***************************************************************************)
EXTENDS Naturals, Sequences

CONSTANTS
  Threads,
  Processes,
  Locks,          \* lock objects: one that is there from the beginning, one per thread
  First,          \* the former
  LockBy,         \* [Threads -> Locks \ {First}]: the lock that a thread makes
  None,
  NumChunks,      \* of the archive
  MaxRetries,     \* requests.max-retries
  MaxCuts,        \* bound: how often a thread's connection breaks
  Settings        \* the circumstances to be looked at

(* What stays as it is while the archive is asked for.                     *)
Setting ==
  [processOf     : [Threads -> Processes],
   warm          : BOOLEAN,    \* the archive was asked for before: its lock is there
   acceptsRanges : BOOLEAN,    \* does the server say so?
   honorsRanges  : BOOLEAN,    \* does it do so?
   knowsLength   : BOOLEAN,    \* is a broken connection told from the archive's end?
   isWheel       : BOOLEAN,    \* the archive is a wheel, not a source distribution
   hashKnown     : BOOLEAN]    \* the lock file has a hash for it

ASSUME ArtifactCacheAssumption ==
  /\ First \in Locks /\ LockBy \in [Threads -> Locks \ {First}]
  /\ \A s, t \in Threads : LockBy[s] = LockBy[t] => s = t
  /\ None \notin Threads \cup Locks \cup Seq(Nat)
  /\ {NumChunks, MaxRetries, MaxCuts} \subseteq Nat
  /\ Settings \subseteq Setting

Whole == [k \in 1 .. NumChunks |-> k]

VARIABLES
  setting,
  archive,  \* in the cache: its chunks, or None
  wheel,    \* is the wheel built from it there?
  locks,    \* [Processes -> Locks \cup {None}]: the entry of the archive in _archive_locks
  holder,   \* [Locks -> Threads \cup {None}]
  lock,     \* [Threads -> Locks \cup {None}]: the lock a thread has found
  pc,
  temp,     \* [Threads -> Seq(Nat)]: what was written to the temporary file
  next,     \* [Threads -> Nat]: the chunk that the response has next
  retries,
  cuts,
  chosen    \* [Threads -> {"archive", "wheel", "none"}]: what is going to be installed

vars == <<setting, archive, wheel, locks, holder, lock, pc, temp, next, retries, cuts,
          chosen>>
files == <<archive, wheel>>
locking == <<locks, holder, lock>>
loading == <<temp, next, retries, cuts>>

Init ==
  /\ setting \in Settings
  /\ archive = None /\ wheel = FALSE
  /\ locks = [p \in Processes |-> IF setting.warm THEN First ELSE None]
  /\ holder = [l \in Locks |-> None]
  /\ lock = [t \in Threads |-> None]
  /\ pc = [t \in Threads |-> "ask"]
  /\ temp = [t \in Threads |-> <<>>]
  /\ next = [t \in Threads |-> 1]
  /\ retries = [t \in Threads |-> 0]
  /\ cuts = [t \in Threads |-> 0]
  /\ chosen = [t \in Threads |-> "none"]

Goes(t, from, to) == pc[t] = from /\ pc' = [pc EXCEPT ![t] = to]

(* The end of the block under the lock, by return or by exception.         *)
Leaves(t, from, to) ==
  /\ Goes(t, from, to)
  /\ holder' = [holder EXCEPT ![lock[t]] = None]
  /\ UNCHANGED <<locks, lock>>

Ask(t) ==
  /\ Goes(t, "ask", IF archive # None THEN "choose" ELSE "find")
  /\ UNCHANGED <<files, locking, loading, chosen>>

(* Bug: a lock that is made is not kept. *)
BugNoEntry(t) == None
EntryOf(t) == locks[setting.processOf[t]]

(* defaultdict: the key is looked up, and hashed again to be stored; its   *)
(* hash is Python code, where another thread may come in.                  *)
FindLock(t) ==
  /\ IF EntryOf(t) # None
     THEN /\ Goes(t, "find", "lock")
          /\ lock' = [lock EXCEPT ![t] = EntryOf(t)]
     ELSE /\ Goes(t, "find", "store")
          /\ lock' = [lock EXCEPT ![t] = LockBy[t]]
  /\ UNCHANGED <<files, locks, holder, loading, chosen>>

StoreLock(t) ==
  /\ Goes(t, "store", "lock")
  /\ locks' = [locks EXCEPT ![setting.processOf[t]] = lock[t]]
  /\ UNCHANGED <<files, holder, lock, loading, chosen>>

TakeLock(t) ==
  /\ Goes(t, "lock", "check")
  /\ holder[lock[t]] = None
  /\ holder' = [holder EXCEPT ![lock[t]] = t]
  /\ UNCHANGED <<files, locks, lock, loading, chosen>>

(* Bug: no second look. *)
BugNoSecondLook == FALSE
IsThere == archive # None

Check(t) ==
  /\ \/ IsThere /\ Leaves(t, "check", "choose")
     \/ ~ IsThere /\ Goes(t, "check", "get") /\ UNCHANGED locking
  /\ temp' = [temp EXCEPT ![t] = <<>>]
  /\ retries' = [retries EXCEPT ![t] = 0]
  /\ UNCHANGED <<files, next, cuts, chosen>>

(* Bug: one byte too far. *)
BugOneTooFar(t) == IF temp[t] # <<>> THEN Len(temp[t]) + 2 ELSE 1
(* Where the response begins: Range is sent when something was fetched.    *)
StartOf(t) == IF setting.honorsRanges THEN Len(temp[t]) + 1 ELSE 1

Get(t) ==
  /\ \/ Goes(t, "get", "load") /\ next' = [next EXCEPT ![t] = StartOf(t)]
     \/ Goes(t, "get", "clean") /\ UNCHANGED next
  /\ UNCHANGED <<files, locking, temp, retries, cuts, chosen>>

Receive(t) ==
  /\ pc[t] = "load" /\ next[t] <= NumChunks
  /\ temp' = [temp EXCEPT ![t] = Append(@, next[t])]
  /\ next' = [next EXCEPT ![t] = @ + 1]
  /\ UNCHANGED <<files, locking, pc, retries, cuts, chosen>>

(* The temporary file takes the archive's place.                           *)
Finish(t) ==
  /\ next[t] > NumChunks
  /\ Leaves(t, "load", "choose")
  /\ archive' = temp[t]
  /\ UNCHANGED <<wheel, loading, chosen>>

(* Bug: one retry more than configured. *)
BugOneMore(t) == retries[t] <= MaxRetries /\ setting.acceptsRanges /\ temp[t] # <<>>
MayRetry(t) == retries[t] < MaxRetries /\ setting.acceptsRanges /\ temp[t] # <<>>

(* The connection breaks before the end of the archive.                    *)
Cut(t) ==
  /\ pc[t] = "load" /\ next[t] <= NumChunks
  /\ cuts[t] < MaxCuts
  /\ cuts' = [cuts EXCEPT ![t] = @ + 1]
  /\ \/ /\ ~ setting.knowsLength
        /\ Leaves(t, "load", "choose")
        /\ archive' = temp[t]
        /\ UNCHANGED retries
     \/ /\ MayRetry(t)
        /\ Goes(t, "load", "get")
        /\ retries' = [retries EXCEPT ![t] = @ + 1]
        /\ UNCHANGED <<archive, locking>>
     \/ /\ ~ MayRetry(t)
        /\ Goes(t, "load", "clean")
        /\ UNCHANGED <<archive, locking, retries>>
  /\ UNCHANGED <<wheel, temp, next, chosen>>

(* Bug: a download that failed is tried again, without end. *)
BugTryAgain(t) ==
  /\ Leaves(t, "clean", "ask")
  /\ archive' = None
  /\ UNCHANGED <<wheel, loading, chosen>>

(* Whatever failed, what is in the archive's place is removed.             *)
Clean(t) ==
  /\ Leaves(t, "clean", "failed")
  /\ archive' = None
  /\ UNCHANGED <<wheel, loading, chosen>>

(* The executor prefers a wheel that was built before.                     *)
Choose(t) ==
  /\ \/ wheel /\ Goes(t, "choose", "validate") /\ chosen' = [chosen EXCEPT ![t] = "wheel"]
     \/ /\ ~ wheel /\ archive # None
        /\ Goes(t, "choose", IF setting.isWheel THEN "validate" ELSE "build")
        /\ chosen' = [chosen EXCEPT ![t] = "archive"]
     \/ ~ wheel /\ archive = None /\ Goes(t, "choose", "refused") /\ UNCHANGED chosen
  /\ UNCHANGED <<files, locking, loading>>

(* What is cut short cannot be unpacked; any other may fail to build.      *)
Build(t) ==
  /\ \/ /\ archive = Whole
        /\ Goes(t, "build", "validate")
        /\ wheel' = TRUE
        /\ chosen' = [chosen EXCEPT ![t] = "wheel"]
     \/ Goes(t, "build", "failed") /\ UNCHANGED <<wheel, chosen>>
  /\ UNCHANGED <<archive, locking, loading>>

(* Bug: a file that is there is good enough. *)
BugNoHash == archive # None
IsValid == archive # None /\ (setting.hashKnown => archive = Whole)

Validate(t) ==
  /\ Goes(t, "validate", IF IsValid THEN "install" ELSE "failed")
  /\ UNCHANGED <<files, locking, loading, chosen>>

Install(t) ==
  /\ Goes(t, "install", IF chosen[t] = "wheel" \/ archive # None THEN "installed" ELSE "failed")
  /\ UNCHANGED <<files, locking, loading, chosen>>

IsOver(t) == pc[t] \in {"installed", "failed", "refused"}

(* The archive is asked for again, in a later command say.                 *)
Again(t) ==
  /\ IsOver(t)
  /\ pc' = [pc EXCEPT ![t] = "ask"]
  /\ UNCHANGED <<setting, files, locking, loading, chosen>>

Step(t) ==
  /\ UNCHANGED setting
  /\ \/ Ask(t) \/ FindLock(t) \/ StoreLock(t) \/ TakeLock(t) \/ Check(t) \/ Get(t)
     \/ Receive(t) \/ Finish(t) \/ Cut(t) \/ Clean(t)
     \/ Choose(t) \/ Build(t) \/ Validate(t) \/ Install(t)

Next == \E t \in Threads : Step(t) \/ Again(t)

Spec == Init /\ [][Next]_vars

(* Threads go on, and a lock that is free again and again is obtained.     *)
FairSpec == Spec /\ \A t \in Threads : WF_vars(Step(t)) /\ SF_vars(UNCHANGED setting /\ TakeLock(t))
-----------------------------------------------------------------------------
(* Properties *)

States ==
  {"ask", "find", "store", "lock", "check", "get", "load", "clean", "choose", "build",
   "validate", "install", "installed", "failed", "refused"}

TypeOK ==
  /\ setting \in Setting
  /\ archive \in Seq(Nat) \cup {None}
  /\ wheel \in BOOLEAN
  /\ locks \in [Processes -> Locks \cup {None}]
  /\ holder \in [Locks -> Threads \cup {None}]
  /\ lock \in [Threads -> Locks \cup {None}]
  /\ pc \in [Threads -> States]
  /\ temp \in [Threads -> Seq(Nat)]
  /\ next \in [Threads -> Nat]
  /\ retries \in [Threads -> 0 .. MaxRetries]
  /\ cuts \in [Threads -> 0 .. MaxCuts]
  /\ chosen \in [Threads -> {"archive", "wheel", "none"}]

(* However often the connection breaks, what gets into the cache is the    *)
(* archive, not a part of it and no chunk twice, if the server does what    *)
(* it says and says how long the archive is.                               *)
ArchiveIsWhole ==
  setting.honorsRanges /\ setting.knowsLength => archive \in {None, Whole}

(* All are threads of one process, which has a lock for the archive.       *)
IsShared ==
  /\ setting.warm
  /\ \A s, t \in Threads : setting.processOf[s] = setting.processOf[t]

(* "Check again if the archive exists (under the lock) to avoid duplicate   *)
(* downloads": no two threads of a process download the archive, once its  *)
(* lock is there.                                                          *)
DownloadedOnce ==
  IsShared => \A s, t \in Threads :
                pc[s] \in {"get", "load"} /\ pc[t] \in {"get", "load"} => s = t

(* An archive that is in the cache stays there as it is.                   *)
ArchiveStays == [][IsShared /\ archive # None => archive' = archive]_vars

(* "Since we previously downloaded an archive, we now should have something *)
(* cached that we can use here."                                           *)
FoundAfterDownload == IsShared => \A t \in Threads : pc[t] # "refused"

(* Whatever the server sent, what is installed is what was locked.         *)
InstalledIsLocked ==
  IsShared =>
    \A t \in Threads :
      pc[t] \in {"install", "installed"} /\ chosen[t] = "archive" /\ setting.hashKnown =>
        archive = Whole

(* What is cached, found and installed is the archive, downloaded once.    *)
ArchiveIsSafe ==
  TypeOK /\ ArchiveIsWhole /\ DownloadedOnce /\ FoundAfterDownload /\ InstalledIsLocked

(* Every request for the archive is answered, with success or failure.     *)
Answered == \A t \in Threads : []<>IsOver(t)
=============================================================================
