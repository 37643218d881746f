--------------------------- MODULE InstalledPackage ---------------------------
(***************************************************************************)
(* One dependency on its way into an environment and back: the executor      *)
(* installs what is locked and leaves a direct_url.json, InstalledRepository *)
(* finds it again, and the transaction compares.  One install follows the    *)
(* other, the lock file changes between them, and each may fail or crash.    *)
(* pip and the wheel are external.                                          *)
(***************************************************************************)
EXTENDS Naturals, Sequences, FiniteSets, SequencesExt, FiniteSetsExt

CONSTANTS
  Versions,       \* numbers
  None,
  Locks,          \* what a lock file may name
  SystemVersions  \* what the read-only site of the base environment may have, or 0

(* A package in the lock file or as it is found.  url stands for where it    *)
(* comes from, "src" for the clone in the environment; commit is the         *)
(* resolved reference, "none" without one.                                  *)
Package ==
  [version : Versions, type : {"index", "url", "file", "directory", "git"},
   url : {"none", "link", "file", "here", "repo", "src"},
   reference : {"none", "main", "c1", "c2"}, commit : {"none", "c1", "c2"}, develop : BOOLEAN]

(* A lock file says of what is not from git where it is, and that is all; of *)
(* a clone it has the commit.  Only those with a directory can be editable.  *)
IsLockable(p) ==
  /\ p.url = (CASE p.type = "index" -> "none" [] p.type = "url" -> "link" [] p.type = "file" -> "file"
                [] p.type = "directory" -> "here" [] p.type = "git" -> "repo")
  /\ p.type = "git" => p.commit # "none"
  /\ p.type # "git" => p.reference = "none" /\ p.commit = "none"
  /\ p.develop => p.type \in {"directory", "git"}

InstalledPackageAssumption ==
  /\ Versions \subseteq Nat \ {0} /\ SystemVersions \subseteq Versions \cup {0} /\ None \notin Package
  /\ Locks \subseteq {p \in Package : IsLockable(p)}

VARIABLES
  lock,
  dist,     \* [Versions -> the distribution in site-packages]
  pth,      \* what the .pth file of an editable wheel names, or "none"
  src,      \* the commit of the clone in <env>/src, or "none"
  system,
  pc,
  initial,  \* the package that an update replaces, None for an installation
  todo,     \* distributions that get a direct_url.json
  runs,     \* installs that came to their end since the lock file changed, up to 2
  torn      \* what crashes have left behind: see Crash

vars == <<lock, dist, pth, src, system, pc, initial, todo, runs, torn>>

(* url: the contents of direct_url.json; from: the package that the files    *)
(* come from.                                                               *)
NoDist == [files |-> {}, url |-> None, isRecorded |-> FALSE, from |-> None]

Init ==
  /\ lock \in Locks /\ system \in SystemVersions
  /\ dist = [v \in Versions |-> NoDist] /\ pth = "none" /\ src = "none"
  /\ pc = "idle" /\ initial = None /\ todo = << >> /\ runs = 0 /\ torn = {}

-----------------------------------------------------------------------------
(* InstalledRepository *)

Of(type, url, reference, version) ==
  [version |-> version, type |-> type, url |-> url, reference |-> reference,
   commit |-> "none", develop |-> FALSE]

(* get_package_paths(): the .pth file, and only without one the clone.       *)
Paths == IF pth # "none" THEN {pth} ELSE IF src # "none" THEN {"src"} ELSE {}

(* A distribution without direct_url.json. *)
Standard(v) ==
  IF "src" \in Paths THEN Of("git", "repo", src, v)
  ELSE IF "here" \in Paths THEN Of("directory", "here", "none", v)
  ELSE Of("index", "none", "none", v)

(* Bug: direct_url.json is not read.                                        *)
BugNoUrl(v) == Standard(v)
FromDistribution(v) ==
  IF "url" \in dist[v].files THEN [dist[v].url EXCEPT !.version = v] ELSE Standard(v)

HasMetadata == {v \in Versions : "metadata" \in dist[v].files}
LoadFails ==
  HasMetadata # {} /\ "url" \notin dist[Min(HasMetadata)].files /\ pth = "src" /\ src = "none"

(* load(): of the valid distributions the first, in the environment before   *)
(* the system's.                                                            *)
Found ==
  IF HasMetadata # {} THEN FromDistribution(Min(HasMetadata))
  ELSE IF system # 0 THEN Standard(system)
  ELSE None

-----------------------------------------------------------------------------
(* Transaction and Package.is_same_package_as(). *)

Matches(r, s) == (r = "none" /\ s = "none") \/ (r # "none" /\ r = s)

(* Bug: two packages of one repository are the same.                        *)
BugAnyCommit(p, q) == TRUE
IsSameRevision(p, q) ==
  \/ p.commit # "none" /\ p.commit = q.commit
  \/ /\ Matches(p.reference, q.reference)
     /\ p.commit = "none" \/ q.commit = "none"

IsSameSource(p, q) == p.type = q.type /\ p.url = q.url /\ IsSameRevision(p, q)
IsUpToDate(found) == lock.version = found.version /\ IsSameSource(lock, found)

InSync == ~ LoadFails /\ Found # None /\ IsUpToDate(Found)

-----------------------------------------------------------------------------
(* Executor *)

Fails == pc' = "idle" /\ runs' = 0 /\ initial' = None /\ todo' = << >>

Skip ==
  /\ pc = "idle" /\ runs < 2 /\ InSync
  /\ runs' = runs + 1
  /\ UNCHANGED <<lock, dist, pth, src, system, pc, initial, todo, torn>>

Begin ==
  /\ pc = "idle" /\ runs < 2 /\ ~ LoadFails /\ ~ InSync
  /\ pc' = "prepare" /\ initial' = Found
  /\ UNCHANGED <<lock, dist, pth, src, system, todo, runs, torn>>

(* The wheel of a git package is in the cache, or built from a clone.        *)
IsCloned == lock.type = "git"
Prepare ==
  /\ pc = "prepare"
  /\ \/ src' = IF IsCloned THEN lock.commit ELSE src
     \/ IsCloned /\ ~ lock.develop /\ src' = src
  /\ pc' = IF initial = None THEN "unpack" ELSE "clean"
  /\ UNCHANGED <<lock, dist, pth, system, initial, todo, runs, torn>>

(* No connection, or no build: after the clone or before it.                *)
PrepareFails ==
  /\ pc = "prepare"
  /\ src' \in {src} \cup IF IsCloned THEN {lock.commit} ELSE {}
  /\ Fails /\ UNCHANGED <<lock, dist, pth, system, torn>>

(* _remove(): the clone of what is called a git package goes first.          *)
Clean ==
  /\ pc = "clean"
  /\ src' = IF initial.type = "git" THEN "none" ELSE src
  /\ pc' = "remove"
  /\ UNCHANGED <<lock, dist, pth, system, initial, todo, runs, torn>>

(* pip uninstall.  It removes what RECORD names, in the environment only,    *)
(* and refuses a distribution without one.                                  *)
IsThere(v) == dist[v].files # {}
Present == {v \in Versions : IsThere(v)}
Removable(v) == "record" \in dist[v].files

(* Bug: direct_url.json is not in RECORD.                                   *)
BugLeaveUrl(v) ==
  IF "url" \in dist[v].files THEN [NoDist EXCEPT !.files = {"url"}, !.url = dist[v].url]
  ELSE NoDist
Uninstalled(v) ==
  IF "url" \in dist[v].files /\ ~ dist[v].isRecorded
  THEN [NoDist EXCEPT !.files = {"url"}, !.url = dist[v].url] ELSE NoDist

PipUninstall ==
  /\ pc = "remove"
  /\ IF Present = {} THEN pc' = "unpack" /\ UNCHANGED <<dist, pth, initial, todo, runs>>
     ELSE LET v == Min(Present) IN
          IF Removable(v)
          THEN /\ dist' = [dist EXCEPT ![v] = Uninstalled(v)]
               /\ pth' = IF dist[v].from.develop THEN "none" ELSE pth
               /\ pc' = "unpack" /\ UNCHANGED <<initial, todo, runs>>
          ELSE Fails /\ UNCHANGED <<dist, pth>>
  /\ UNCHANGED <<lock, src, system, torn>>

(* WheelInstaller.install(): the files of the package, its metadata, RECORD. *)
PlaceOf(package) == IF package.type = "git" THEN "src" ELSE "here"
Unpack ==
  /\ pc = "unpack"
  /\ pth' = IF lock.develop THEN PlaceOf(lock) ELSE pth
  /\ pc' = "describe"
  /\ UNCHANGED <<lock, dist, src, system, initial, todo, runs, torn>>

Describe ==
  /\ pc = "describe"
  /\ dist' = [dist EXCEPT ![lock.version].files = @ \cup {"metadata"}, ![lock.version].from = lock]
  /\ pc' = "record"
  /\ UNCHANGED <<lock, pth, src, system, initial, todo, runs, torn>>

Ends == pc' = "idle" /\ runs' = runs + 1 /\ initial' = None /\ torn' = torn \ {"unmarked"}

(* A directory is listed in any order.                                       *)
Listings == {order \in [1 .. Cardinality(Present) -> Present] : ToSet(order) = Present}

Record ==
  /\ pc = "record"
  /\ dist' = [dist EXCEPT ![lock.version].files = @ \cup {"record"}, ![lock.version].isRecorded = FALSE]
  /\ todo' \in IF lock.type = "index" THEN {<< >>} ELSE Listings
  /\ IF lock.type = "index" THEN Ends ELSE pc' = "url" /\ UNCHANGED <<initial, runs, torn>>
  /\ UNCHANGED <<lock, pth, src, system>>

(* _create_*_url_reference(), as _create_package_from_pep610() reads it.     *)
(* Bug: the commit is left out.                                             *)
BugNoCommit(package) == [package EXCEPT !.commit = "none"]
UrlReference(package) ==
  IF package.type = "git" /\ package.develop
  THEN [Of("directory", "src", "none", package.version) EXCEPT !.develop = TRUE]
  ELSE package

WriteUrl ==
  /\ pc = "url"
  /\ dist' = [dist EXCEPT ![Head(todo)].files = @ \cup {"url"}, ![Head(todo)].url = UrlReference(lock)]
  /\ pc' = "append"
  /\ UNCHANGED <<lock, pth, src, system, initial, todo, runs, torn>>

AppendUrl ==
  /\ pc = "append"
  /\ dist' = [dist EXCEPT ![Head(todo)].isRecorded = Removable(Head(todo))]
  /\ todo' = Tail(todo)
  /\ IF Tail(todo) = << >> THEN Ends ELSE pc' = "url" /\ UNCHANGED <<initial, runs, torn>>
  /\ UNCHANGED <<lock, pth, src, system>>

(* What is left: a .pth file that no distribution owns, a distribution that   *)
(* does not say where it is from, a direct_url.json that pip will not remove. *)
Crash ==
  /\ pc # "idle" /\ Fails
  /\ torn' = torn \cup
       (CASE pc = "describe" /\ lock.develop                  -> {"pth"}
          [] pc \in {"record", "url"} /\ lock.type # "index" -> {"unmarked"}
          [] pc = "append"                                    -> {"unrecorded"}
          [] OTHER                                            -> {})
  /\ UNCHANGED <<lock, dist, pth, src, system>>

-----------------------------------------------------------------------------
Relock ==
  /\ pc = "idle"
  /\ \E l \in Locks \ {lock} : lock' = l
  /\ runs' = 0
  /\ UNCHANGED <<dist, pth, src, system, pc, initial, todo, torn>>

Next ==
  \/ Skip \/ Begin \/ Prepare \/ PrepareFails \/ Clean \/ PipUninstall \/ Unpack \/ Describe
  \/ Record \/ WriteUrl \/ AppendUrl \/ Crash \/ Relock

Spec == Init /\ [][Next]_vars

-----------------------------------------------------------------------------
TypeOK ==
  /\ lock \in Locks /\ runs \in 0..2
  /\ initial \in Package \cup {None}
  /\ \A v \in Versions : dist[v].from \in Locks \cup {None} /\ dist[v].url \in Package \cup {None}

IsOf(v, package) ==
  HasMetadata = {v} /\ package.version = v
  /\ [dist[v].from EXCEPT !.develop = package.develop, !.reference = package.reference] = package

(* A clone in the environment is taken for the source of a distribution that *)
(* does not say where it is from.                                           *)
IsStray == src # "none" /\ (HasMetadata = {} \/ "url" \notin dist[Min(HasMetadata)].files)

(* The transaction leaves a package alone only if its files are those of the *)
(* locked one, whatever failed before, unless a crash has torn something or  *)
(* a stray clone is there.                                                  *)
SkippedIsLocked ==
  pc = "idle" /\ InSync /\ HasMetadata # {} /\ torn = {} /\ ~ IsStray => IsOf(lock.version, lock)

(* What an install has done the next one finds done, after a crash too: at   *)
(* once, or the second time if there was a stray clone.  Left out: an        *)
(* editable git package, which is found as a directory and installed anew    *)
(* each time, and two of the three things that crashes leave.               *)
IsEditableGit == lock.type = "git" /\ lock.develop
InstallLasts ==
  pc = "idle" /\ torn \cap {"pth", "unrecorded"} = {} /\ ~ IsEditableGit
  /\ (runs = 2 \/ (runs = 1 /\ ~ IsStray)) => InSync

(* The second install of an editable git package has its clone in place.     *)
EditableIsRepaired ==
  pc = "idle" /\ runs = 2 /\ IsEditableGit /\ ~ InSync =>
    pth = "src" /\ src = lock.commit /\ IsOf(lock.version, lock)

RoundTripIsTrue == TypeOK /\ SkippedIsLocked /\ InstallLasts /\ EditableIsRepaired
=============================================================================
