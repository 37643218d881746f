------------------------------ MODULE FileCache ------------------------------
(***************************************************************************)
(* poetry.utils.cache.FileCache, CachedRepository.get_release_info() and    *)
(* poetry cache clear: the file in which the information about a release is *)
(* kept, which processes of several versions of Poetry read, write and      *)
(* remove without a lock.  put() empties the file and then writes it, so    *)
(* that others may find a part of it, or parts of two.                      *)
(***************************************************************************)
EXTENDS Naturals, Sequences, SequencesExt

CONSTANTS
  Processes,
  LengthOf,       \* the number of blocks that a version of Poetry writes
  None,
  Versions,       \* CACHE_VERSIONs
  Installed,      \* ways to give each process the version of its Poetry
  MaxRequests,    \* bound: so many requests
  MaxFaults       \* bound: so many requests to the index fail, or processes die

VARIABLES
  versionOf,
  file,           \* the blocks in the file; None: there is no file
  directory,
  process,
  requests,
  faults,
  killed          \* a process has died since the file was whole

vars == <<versionOf, file, directory, process, requests, faults, killed>>

Hole == [version |-> None, block |-> 0]

FileCacheAssumption ==
  /\ Processes # {} /\ Installed \subseteq [Processes -> Versions]
  /\ LengthOf \in [Versions -> Nat \ {0}]
  /\ None \notin Versions
  /\ None \notin Seq({Hole} \cup [version : Versions, block : Nat])

(* written: blocks written; attached: the file that is open for writing is  *)
(* still the one in the directory; excused: another one has removed         *)
(* something since the request began, or the index has not answered.        *)
Idle ==
  [pc |-> "idle", kind |-> None, got |-> None, written |-> 0, attached |-> FALSE, excused |-> FALSE]

Payload(v) == [i \in 1 .. LengthOf[v] |-> [version |-> v, block |-> i]]

Init ==
  /\ file \in {None} \cup {Payload(v) : v \in Versions}
  /\ directory = TRUE /\ versionOf \in Installed
  /\ process = [p \in Processes |-> Idle]
  /\ requests = 0 /\ faults = 0 /\ killed = FALSE

-----------------------------------------------------------------------------
AtWork(p) == process[p].pc \notin {"idle", "done", "failed"}
Becomes(p, pc) == process' = [process EXCEPT ![p].pc = pc]
Goes(p, from, to) == process[p].pc = from /\ Becomes(p, to)
Still == UNCHANGED <<versionOf, requests, faults, killed>>
SameFiles == UNCHANGED <<versionOf, file, directory>>

(* get_release_info(), cache clear of one release and cache clear --all.    *)
Ask(p, kind) ==
  /\ ~ AtWork(p) /\ requests < MaxRequests
  /\ process' = [process EXCEPT ![p] = [Idle EXCEPT !.kind = kind,
                                                    !.pc = IF kind = "flush" THEN "entries" ELSE "exists"]]
  /\ requests' = requests + 1
  /\ UNCHANGED <<faults, killed>> /\ SameFiles

(* Bug: the _cache_version is not looked at.                                *)
BugAnyVersion(p, got) == TRUE
IsCurrent(p, got) == got[1].version = versionOf[p]

(* What is done when get() has returned.                                    *)
AfterGet(p, got) ==
  CASE process[p].kind = "info" -> IF got # None /\ IsCurrent(p, got) THEN "done" ELSE "fetch"
    [] OTHER -> IF got = None THEN "done" ELSE "forget"

LookFor(p) ==
  /\ process[p].pc = "exists"
  /\ Becomes(p, IF file # None THEN "read" ELSE AfterGet(p, None))
  /\ Still /\ SameFiles

(* _deserialize(): the JSON of a part, or of two parts, cannot be decoded.  *)
(* Bug: whatever begins like an entry is one.                               *)
BugAnything(content) == content # << >> /\ content[1] # Hole
IsDecoded(content) == \E v \in Versions : content = Payload(v)

Read(p) ==
  /\ process[p].pc = "read"
  /\ \/ file = None /\ Becomes(p, "failed")
     \/ file # None /\ ~ IsDecoded(file) /\ Becomes(p, "corrupt")
     \/ /\ file # None /\ IsDecoded(file)
        /\ process' = [process EXCEPT ![p].got = file, ![p].pc = AfterGet(p, file)]
  /\ Still /\ SameFiles

-----------------------------------------------------------------------------
(* forget(): the file is looked for, and removed.                           *)

LookAgain(p) ==
  /\ \/ process[p].pc = "corrupt" /\ Becomes(p, IF file = None THEN AfterGet(p, None) ELSE "drop")
     \/ process[p].pc = "forget" /\ Becomes(p, IF file = None THEN "done" ELSE "clear")
  /\ Still /\ SameFiles

(* A writer goes on to write to a file that is no longer in the directory.  *)
Removed(p, pc) ==
  /\ file # None
  /\ file' = None
  /\ process' = [q \in Processes |->
       IF q = p THEN [process[p] EXCEPT !.pc = pc]
       ELSE [process[q] EXCEPT !.attached = FALSE, !.excused = TRUE]]
  /\ UNCHANGED directory

IsGone(p) == file = None /\ Becomes(p, "failed") /\ SameFiles

Unlink(p) ==
  /\ \/ /\ process[p].pc = "drop"
        /\ Removed(p, AfterGet(p, None)) \/ IsGone(p)
     \/ /\ process[p].pc = "clear"
        /\ Removed(p, "done") \/ IsGone(p)
  /\ Still

(* flush(): rmtree() removes the files that it has found, and the directory.*)
CountEntries(p) ==
  /\ process[p].pc = "entries"
  /\ Becomes(p, IF directory THEN "scan" ELSE "done")
  /\ Still /\ SameFiles

Scan(p) ==
  /\ process[p].pc = "scan"
  /\ Becomes(p, IF ~ directory THEN "failed" ELSE IF file = None THEN "rmdir" ELSE "empty")
  /\ Still /\ SameFiles

EmptyDirectory(p) ==
  /\ process[p].pc = "empty"
  /\ Removed(p, "rmdir") \/ IsGone(p)
  /\ Still

RemoveDirectory(p) ==
  /\ process[p].pc = "rmdir"
  /\ \/ /\ directory /\ file = None
        /\ directory' = FALSE
        /\ process' = [q \in Processes |->
             IF q = p THEN [process[p] EXCEPT !.pc = "done"] ELSE [process[q] EXCEPT !.excused = TRUE]]
     \/ /\ ~ directory \/ file # None
        /\ Becomes(p, "failed") /\ UNCHANGED directory
  /\ UNCHANGED file /\ Still

-----------------------------------------------------------------------------
Fetch(p) == Goes(p, "fetch", "mkdir") /\ Still /\ SameFiles

FetchFails(p) ==
  /\ process[p].pc = "fetch"
  /\ process' = [process EXCEPT ![p].pc = "failed", ![p].excused = TRUE]
  /\ faults < MaxFaults /\ faults' = faults + 1
  /\ UNCHANGED <<requests, killed>> /\ SameFiles

(* put() *)
MakeDirectory(p) ==
  /\ Goes(p, "mkdir", "open")
  /\ directory' = TRUE
  /\ UNCHANGED file /\ Still

Open(p) ==
  /\ process[p].pc = "open"
  /\ \/ /\ directory
        /\ file' = << >>
        /\ process' = [q \in Processes |->
             IF q = p THEN [process[p] EXCEPT !.pc = "write", !.attached = TRUE]
             ELSE [process[q] EXCEPT !.excused = @ \/ process[q].kind = "flush"]]
     \/ ~ directory /\ Becomes(p, "failed") /\ UNCHANGED file
  /\ UNCHANGED directory /\ Still

(* Bug: each writer writes at the end.                                      *)
BugAppend(content, i, block) == Append(content, block)

(* Each writer writes where it has come to, whatever the others have done.  *)
Written(content, i, block) ==
  [j \in 1 .. IF i > Len(content) THEN i ELSE Len(content) |->
     IF j = i THEN block ELSE IF j <= Len(content) THEN content[j] ELSE Hole]

WriteBlock(p) ==
  LET v == versionOf[p]
      i == process[p].written + 1
  IN /\ process[p].pc = "write"
     /\ process' = [process EXCEPT ![p].written = i,
                      ![p].pc = IF i = LengthOf[v] THEN "done" ELSE "write",
                      ![p].got = Payload(v),
                      ![p].attached = i < LengthOf[v] /\ @]
     /\ file' = IF process[p].attached THEN Written(file, i, Payload(v)[i]) ELSE file
     /\ UNCHANGED directory /\ Still

Die(p) ==
  /\ AtWork(p)
  /\ faults < MaxFaults /\ faults' = faults + 1
  /\ process' = [process EXCEPT ![p] = Idle]
  /\ killed' = TRUE
  /\ UNCHANGED requests /\ SameFiles

Next ==
  \E p \in Processes :
    \/ \E kind \in {"info", "clear", "flush"} : Ask(p, kind)
    \/ LookFor(p) \/ Read(p) \/ LookAgain(p) \/ Unlink(p)
    \/ CountEntries(p) \/ Scan(p) \/ EmptyDirectory(p) \/ RemoveDirectory(p)
    \/ Fetch(p) \/ FetchFails(p) \/ MakeDirectory(p) \/ Open(p) \/ WriteBlock(p) \/ Die(p)

Spec == Init /\ [][Next]_vars
-----------------------------------------------------------------------------
TypeOK ==
  /\ file = None \/ \A i \in DOMAIN file : file[i] = Hole \/ file[i].version \in Versions
  /\ directory \in BOOLEAN /\ killed \in BOOLEAN
  /\ \A p \in Processes : process[p].got = None \/ process[p].written > 0 \/ IsDecoded(process[p].got)
  /\ file # None => directory

(* Whoever empties, writes and removes the file meanwhile: what a request   *)
(* is answered with is complete and of the version that asks.               *)
AnswersAreWhole ==
  \A p \in Processes :
    process[p].pc = "done" /\ process[p].kind = "info" => process[p].got = Payload(versionOf[p])

(* What two writers of one version leave is an entry: a part of one stays   *)
(* only when a process has died, or two versions have written at once.      *)
EntryIsLeftWhole ==
  /\ \A p, q \in Processes : process[p].pc # "write" /\ versionOf[p] = versionOf[q]
  /\ file # None /\ ~ killed
  => IsDecoded(file)

(* A request fails only when the index does not answer, or another process  *)
(* has removed something while the request was under way, or has written to *)
(* the directory that this one removes.                                     *)
FailsForAReason ==
  \A p \in Processes : process[p].pc = "failed" => process[p].excused

CacheIsSound == TypeOK /\ AnswersAreWhole /\ EntryIsLeftWhole /\ FailsForAReason
==============================================================================
