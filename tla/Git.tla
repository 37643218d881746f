--------------------------------- MODULE Git ---------------------------------
(***************************************************************************)
(* poetry.vcs.git: a directory for all repositories of one name, in which   *)
(* Git.clone() provides one commit after the other, with dulwich or with    *)
(* the git of the system.  Requests to the server fail, files are locked,   *)
(* and the process may die at any step.                                     *)
(***************************************************************************)
EXTENDS Naturals, FiniteSets

CONSTANTS
  Urls,         \* of repositories with the same name
  Names,        \* of branches and tags
  Commits,
  Pins,         \* commits of the submodule
  None,
  Settings,
  MaxCalls,     \* bound: so many times clone() is called
  MaxFaults     \* bound: so many failures and crashes

(* What the servers have.                                                   *)
Setting ==
  [heads    : [Urls -> [Names -> Commits \cup {None}]],
   tags     : [Urls -> [Names -> Commits \cup {None}]],
   default  : Names,                  \* HEAD of every server
   sent     : [Urls -> SUBSET Commits],  \* commits that can be reached from a branch or a tag
   pin      : [Commits -> Pins \cup {None}],  \* of the submodule, if the commit has it
   system   : BOOLEAN,                \* system-git-client
   private  : BOOLEAN]                \* dulwich is not authorized

(* "short" is a revision that is the beginning of a hash.                   *)
Request ==
  [url : Urls, kind : {"branch", "tag", "revision"}, name : Names]
    \cup [url : Urls, kind : {"sha", "short"}, name : Commits]

(* Every server has its default branch, and sends what a reference names.   *)
GitAssumption ==
  /\ Settings \subseteq Setting /\ None \notin Commits
  /\ \A s \in Settings, u \in Urls :
       /\ s.heads[u][s.default] # None
       /\ \A n \in Names : {s.heads[u][n], s.tags[u][n]} \subseteq s.sent[u] \cup {None}

VARIABLES
  setting,
  request,
  pc,
  target,     \* the directory
  calls,
  faults,
  disturbed,  \* was there a fault in this call?
  torn        \* what an interrupted call has left that is not whole: "files", "module"

vars == <<setting, request, pc, target, calls, faults, disturbed, torn>>

NoFiles == [head |-> None, files |-> None, from |-> None]

(* head: what HEAD is; files: the commit of the working tree; origin: the   *)
(* URL of the remote in the configuration; module: the clone of the         *)
(* submodule, with the repository whose neighbour it was taken from.        *)
NoClone ==
  [exists |-> FALSE, origin |-> None, head |-> None, objects |-> {}, files |-> None,
   module |-> NoFiles]

Init ==
  /\ setting \in Settings
  /\ request = None /\ pc = "idle" /\ target = NoClone
  /\ calls = 0 /\ faults = 0 /\ disturbed = FALSE /\ torn = {}

-----------------------------------------------------------------------------
(* GitRefSpec. *)

Heads(r) == setting.heads[r.url]
Tags(r) == setting.tags[r.url]
IsSha(r) == r.kind \in {"sha", "short"}

(* Is the commit found by the beginning of its hash, among the values of    *)
(* the remote's references or in the object store?                          *)
IsFound(r, objects) ==
  r.name \in objects \cup {Heads(r)[n] : n \in Names} \cup {Tags(r)[n] : n \in Names}

(* Bug: whatever has the name, in the order of branches and tags.          *)
BugBranchFirst(r, objects) ==
  CASE IsSha(r) -> IF IsFound(r, objects) THEN r.name ELSE None
    [] ~ IsSha(r) -> IF Heads(r)[r.name] # None THEN Heads(r)[r.name] ELSE Tags(r)[r.name]

(* resolve(): None is a KeyError or a ValueError.  Tags have priority over  *)
(* branches for a revision, and step in for a branch that is not there.     *)
Resolve(r, objects) ==
  CASE r.kind = "sha" -> r.name
    [] r.kind = "short" -> IF IsFound(r, objects) THEN r.name ELSE None
    [] r.kind = "tag" -> Tags(r)[r.name]
    [] r.kind = "branch" -> IF Heads(r)[r.name] # None THEN Heads(r)[r.name] ELSE Tags(r)[r.name]
    [] r.kind = "revision" -> IF Tags(r)[r.name] # None THEN Tags(r)[r.name] ELSE Heads(r)[r.name]

-----------------------------------------------------------------------------
Goes(from, to) == pc = from /\ pc' = to
Same == UNCHANGED <<setting, request, calls>>
NoFault == UNCHANGED <<faults, disturbed>>
Fault == faults < MaxFaults /\ faults' = faults + 1 /\ disturbed' = TRUE

Call(r) ==
  /\ pc \in {"idle", "returned", "failed"} /\ calls < MaxCalls
  /\ pc' = "look" /\ request' = r /\ calls' = calls + 1 /\ disturbed' = FALSE
  /\ UNCHANGED <<setting, target, faults, torn>>

(* Bug: the objects are there, so the commit is not looked at.              *)
BugAnyHead == IsSha(request) /\ request.name \in target.objects

(* Does the copy answer the request without the server?                     *)
IsThere == IsSha(request) /\ target.head = request.name

(* Bug: HEAD is read as a reference, which may point nowhere.               *)
BugReference(t) == t.head # None

(* HEAD is read through get_peeled(), which fails without the commit.       *)
IsSound(t) == t.head # None /\ t.head \in t.objects

Look ==
  /\ pc = "look"
  /\ IF target.exists /\ ~ IsSound(target)
     THEN target' = NoClone /\ pc' = "client" /\ torn' = {}
     ELSE /\ pc' = IF target.exists /\ IsThere THEN "returned" ELSE "client"
          /\ UNCHANGED <<target, torn>>
  /\ Same /\ NoFault

UseSystemGit ==
  /\ Goes("client", "remove") /\ setting.system
  /\ UNCHANGED <<target, torn>> /\ Same /\ NoFault

InitRepo ==
  /\ Goes("client", "remote") /\ ~ setting.system
  /\ target' = IF target.exists THEN target ELSE [NoClone EXCEPT !.exists = TRUE]
  /\ UNCHANGED torn /\ Same /\ NoFault

(* remote_add(), for a new directory only.                                  *)
AddRemote ==
  /\ Goes("remote", "fetch")
  /\ target' = IF target.head = None THEN [target EXCEPT !.origin = request.url] ELSE target
  /\ UNCHANGED torn /\ Same /\ NoFault

Fetch ==
  /\ ~ setting.private
  /\ Goes("fetch", "resolve")
  /\ target' = [target EXCEPT !.objects = @ \cup setting.sent[request.url]]
  /\ UNCHANGED torn /\ Same /\ NoFault

(* HTTPUnauthorized: the system's git is tried.                             *)
Unauthorized ==
  /\ setting.private
  /\ Goes("fetch", "remove")
  /\ UNCHANGED <<target, torn>> /\ Same /\ NoFault

Wanted == Resolve(request, target.objects)

(* Bug: a clone whose HEAD is right is not reset.                           *)
BugUpToDate ==
  /\ pc = "resolve"
  /\ IF Wanted = None
     THEN pc' = "failed" /\ UNCHANGED target
     ELSE /\ pc' = IF Wanted = target.head THEN "module" ELSE "references"
          /\ target' = [target EXCEPT !.head = Wanted]
  /\ UNCHANGED torn /\ Same /\ NoFault

SetHead ==
  /\ pc = "resolve"
  /\ IF Wanted = None
     THEN pc' = "failed" /\ UNCHANGED target
     ELSE pc' = "references" /\ target' = [target EXCEPT !.head = Wanted]
  /\ UNCHANGED torn /\ Same /\ NoFault

ImportRefs ==
  /\ Goes("references", "reset")
  /\ UNCHANGED <<target, torn>> /\ Same /\ NoFault

(* reset_index(); a KeyError means that the commit was not sent.            *)
Reset ==
  /\ pc = "reset"
  /\ IF target.head \in target.objects
     THEN target' = [target EXCEPT !.files = target.head] /\ pc' = "module" /\ torn' = torn \ {"files"}
     ELSE target' = NoClone /\ pc' = "failed" /\ torn' = {}
  /\ Same /\ NoFault

Pin == setting.pin[target.head]

(* _clone_submodules(), which calls clone() for the commit that is pinned;   *)
(* the URL is relative to the one of the remote.                            *)
CloneSubmodules ==
  /\ pc = "module"
  /\ IF Pin = None \/ target.module.head = Pin
     THEN pc' = "returned" /\ UNCHANGED target
     ELSE pc' = "moduleFiles" /\ target' = [target EXCEPT !.module.head = Pin, !.module.from = target.origin]
  /\ UNCHANGED torn /\ Same /\ NoFault

ResetSubmodule ==
  /\ Goes("moduleFiles", "returned")
  /\ target' = [target EXCEPT !.module.files = Pin]
  /\ torn' = torn \ {"module"}
  /\ Same /\ NoFault

-----------------------------------------------------------------------------
(* _clone_legacy() *)

Remove ==
  /\ Goes("remove", "system")
  /\ target' = NoClone /\ torn' = {}
  /\ Same /\ NoFault

DefaultHead == Heads(request)[setting.default]

Cloned ==
  [exists |-> TRUE, origin |-> request.url, head |-> DefaultHead, files |-> DefaultHead,
   objects |-> setting.sent[request.url],
   module |-> IF setting.pin[DefaultHead] = None THEN NoFiles
              ELSE [head |-> setting.pin[DefaultHead], files |-> setting.pin[DefaultHead],
                    from |-> request.url]]

(* git clone --recurse-submodules                                          *)
SystemClone ==
  /\ Goes("system", "checkout")
  /\ target' = Cloned
  /\ UNCHANGED torn /\ Same /\ NoFault

(* git checkout, which takes a name for the local branch first, then for a  *)
(* tag, then for a branch of the remote.  It leaves the submodules alone.   *)
SystemResolve(r) ==
  IF IsSha(r) THEN IF r.name \in target.objects THEN r.name ELSE None
  ELSE IF r.name = setting.default \/ Tags(r)[r.name] = None THEN Heads(r)[r.name]
  ELSE Tags(r)[r.name]

Checkout ==
  /\ pc = "checkout"
  /\ LET c == SystemResolve(request)
     IN IF c = None THEN pc' = "failed" /\ UNCHANGED target
        ELSE pc' = "returned" /\ target' = [target EXCEPT !.head = c, !.files = c]
  /\ UNCHANGED torn /\ Same /\ NoFault

-----------------------------------------------------------------------------
(* rmtree() goes through the directory in any order, in which the objects   *)
(* are one pack.  A tree of which files are missing is None.                *)
Remains ==
  {[target EXCEPT !.head = h, !.objects = o, !.files = f, !.module = m] :
     h \in {target.head, None}, o \in {target.objects, {}},
     f \in {target.files, None}, m \in {target.module, NoFiles}} \cup {NoClone}

(* git clone sets HEAD when it has the objects, then writes the files, and   *)
(* then clones the submodules; if a request fails it removes the directory. *)
PartsOfClone ==
  {NoClone, [NoClone EXCEPT !.exists = TRUE, !.origin = request.url],
   [Cloned EXCEPT !.files = None, !.module = NoFiles], [Cloned EXCEPT !.module = NoFiles]}

(* What is left of the directory when a step is cut short.  git checkout     *)
(* sets HEAD when it has written the files.  (What Look and Reset remove    *)
(* has no sound HEAD, nor has a part of it.)                                *)
Left ==
  CASE pc = "remove" -> Remains
    [] pc = "system" -> PartsOfClone
    [] pc \in {"reset", "checkout"} -> {target, [target EXCEPT !.files = None]}
    [] pc = "moduleFiles" -> {target, [target EXCEPT !.module.files = None]}
    [] OTHER -> {target}

NotWhole(t) ==
  {part \in {"files", "module"} :
     \/ part = "files" /\ t.files # t.head
     \/ part = "module" /\ t.module.files # t.module.head
     \/ part = "module" /\ t.head # None /\ setting.pin[t.head] \notin {None, t.module.head}}

IsCutShort == Fault /\ target' \in Left /\ torn' = NotWhole(target') /\ Same

(* No connection; a reference that another process has locked (FileLocked); *)
(* a file that cannot be written.                                          *)
RequestFails ==
  /\ pc \in {"fetch", "resolve", "references", "reset", "module", "moduleFiles"}
  /\ pc' = "failed" /\ IsCutShort

(* A file cannot be removed; the system's git fails.                        *)
SystemFails ==
  /\ pc \in {"remove", "system", "checkout"}
  /\ pc' = "failed" /\ IsCutShort

(* The process dies at any step, or in the middle of it.                    *)
Crash ==
  /\ pc \notin {"idle", "returned", "failed"}
  /\ pc' = "idle" /\ IsCutShort

Next ==
  \/ \E r \in Request : Call(r)
  \/ Look \/ UseSystemGit \/ InitRepo \/ AddRemote \/ Fetch \/ Unauthorized \/ SetHead
  \/ ImportRefs \/ Reset \/ CloneSubmodules \/ ResetSubmodule
  \/ Remove \/ SystemClone \/ Checkout
  \/ RequestFails \/ SystemFails \/ Crash

Spec == Init /\ [][Next]_vars
-----------------------------------------------------------------------------
TypeOK ==
  /\ pc \in {"idle", "look", "client", "remote", "fetch", "resolve", "references", "reset", "module",
            "moduleFiles", "remove", "system", "checkout", "returned", "failed"}
  /\ target.exists \in BOOLEAN /\ target.objects \subseteq Commits
  /\ {target.head, target.files} \subseteq Commits \cup {None}
  /\ {target.module.head, target.module.files} \subseteq Pins \cup {None}
  /\ torn \subseteq {"files", "module"} /\ disturbed \in BOOLEAN

(* What the request means, whatever the directory has been used for before. *)
Meaning(r) ==
  CASE IsSha(r) -> r.name
    [] r.kind = "branch" -> IF Heads(r)[r.name] # None THEN Heads(r)[r.name] ELSE Tags(r)[r.name]
    [] r.kind = "tag" -> Tags(r)[r.name]
    [] r.kind = "revision" -> IF Tags(r)[r.name] # None THEN Tags(r)[r.name] ELSE Heads(r)[r.name]

ViaSystem == setting.system \/ setting.private

(* The system's git is given a name without its kind.                       *)
Meanings(r) ==
  IF ViaSystem /\ ~ IsSha(r) THEN {Heads(r)[r.name], Tags(r)[r.name]} ELSE {Meaning(r)}

(* The commit that was asked for is provided, and its files are there and   *)
(* its submodule, whatever earlier calls have left.  Two exceptions: a call  *)
(* for the commit that is HEAD takes the files as an interrupted call has    *)
(* left them (so does the one for the submodule), and the system's git has   *)
(* the submodule of another commit.                                         *)
IsAsAsked ==
  pc = "returned" =>
    /\ target.head \in Meanings(request) /\ target.head \in target.objects
    /\ ("files" \in torn /\ IsSha(request)) \/ target.files = target.head
    /\ "module" \notin torn /\ Pin # None /\ ~ ViaSystem =>
         target.module.head = Pin /\ target.module.files = Pin

(* Without a fault in the call itself it fails only if the server does not  *)
(* have what was asked for: no state that was left behind makes it fail.    *)
FailsWithReason ==
  pc = "failed" /\ ~ disturbed =>
    Meaning(request) = None \/ Meaning(request) \notin setting.sent[request.url]

CloneIsAsAsked == TypeOK /\ IsAsAsked /\ FailsWithReason
==============================================================================
