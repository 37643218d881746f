--------------------------- MODULE Packages_proofs ---------------------------
(***************************************************************************)
(* Where packages come from, and what is found of them, for every value of *)
(* the constants: a directory in which git repositories of one name are     *)
(* cloned, the package sources of a project, and what is installed of a     *)
(* dependency and of the project itself, whatever has failed or was cut     *)
(* short before.                                                           *)
(***************************************************************************)
EXTENDS MCCommands, Sequences, FiniteSetTheorems, WellFoundedInduction, TLAPS

-----------------------------------------------------------------------------
(* Git *)

Clone ==
  [exists : BOOLEAN, origin : Urls \cup {None}, head : Commits \cup {None},
   objects : SUBSET Commits, files : Commits \cup {None},
   module : [head : Pins \cup {None}, files : Pins \cup {None}, from : Urls \cup {None}]]

Within == {"references", "reset", "module", "moduleFiles"}
BySystem == {"remove", "system", "checkout"}
Outside == {"idle", "look", "client", "returned", "failed"}

GitTypes ==
  /\ setting \in Settings
  /\ cloning \in {"remote", "fetch", "resolve"} \cup Within \cup BySystem \cup Outside
  /\ cloning # "idle" => request \in G!Request
  /\ target \in Clone
  /\ halfDone \subseteq {"files", "module"} /\ disturbed \in BOOLEAN

(* What is on the disk belongs together, or is known to be half done.      *)
FilesBelong ==
  "files" \notin halfDone /\ cloning \notin {"references", "reset"} => target.files = target.head

ModuleBelongs ==
  /\ "module" \notin halfDone /\ cloning # "moduleFiles" => target.module.files = target.module.head
  /\ "module" \notin halfDone /\ cloning \notin Within /\ ~ G!ViaSystem /\ target.head # None =>
       G!Pin = None \/ target.module.head = G!Pin

(* What each step works on.                                                *)
StepIsRight ==
  /\ cloning \in {"remote", "fetch"} => ~ setting.system
  /\ cloning \in {"resolve"} \cup Within => ~ G!ViaSystem
  /\ cloning \in BySystem => G!ViaSystem
  /\ cloning \in Within => target.head = G!Meaning(request) /\ target.head # None
  /\ cloning \in {"resolve", "references", "reset"} => setting.sent[request.url] \subseteq target.objects
  /\ cloning \in {"module", "moduleFiles"} => target.head \in target.objects
  /\ cloning = "moduleFiles" => target.module.head = G!Pin
  /\ cloning = "checkout" => target.objects = setting.sent[request.url]
  /\ cloning \in {"module", "moduleFiles", "system", "checkout"} => "files" \notin halfDone
  /\ cloning = "returned" =>
       /\ target.head \in G!Meanings(request) /\ target.head \in target.objects
       /\ "files" \in halfDone => G!IsSha(request)

GitInv == GitTypes /\ FilesBelong /\ ModuleBelongs /\ StepIsRight /\ G!FailsWithReason

(* What the servers have, as far as a request is concerned.                *)
LEMMA ServersAreSound ==
  ASSUME setting \in Settings, NEW r \in G!Request
  PROVE  /\ r.url \in Urls /\ setting.sent[r.url] \subseteq Commits /\ None \notin Commits
         /\ r.kind \in {"branch", "tag", "revision", "sha", "short"}
         /\ G!IsSha(r) => r.name \in Commits
         /\ ~ G!IsSha(r) => /\ r.name \in Refs
                            /\ G!Heads(r)[r.name] \in setting.sent[r.url] \cup {None}
                            /\ G!Tags(r)[r.name] \in setting.sent[r.url] \cup {None}
         /\ G!Heads(r)[setting.default] \in setting.sent[r.url]
         /\ \A c \in Commits : setting.pin[c] \in Pins \cup {None}
<1>1. setting \in G!Setting /\ None \notin Commits
  BY OneOfGit DEF G!GitAssumption
<1>2. r.url \in Urls /\ r.kind \in {"branch", "tag", "revision", "sha", "short"}
      /\ (r.kind \in {"sha", "short"} => r.name \in Commits)
      /\ (r.kind \notin {"sha", "short"} => r.name \in Refs)
  BY DEF G!Request
<1>3. /\ setting.heads[r.url][setting.default] # None
      /\ \A n \in Refs : {setting.heads[r.url][n], setting.tags[r.url][n]}
                            \subseteq setting.sent[r.url] \cup {None}
  BY <1>2, OneOfGit DEF G!GitAssumption
<1>4. /\ setting.default \in Refs /\ setting.sent[r.url] \subseteq Commits
      /\ \A c \in Commits : setting.pin[c] \in Pins \cup {None}
  BY <1>1, <1>2 DEF G!Setting
<1>5. QED
  BY <1>1, <1>2, <1>3, <1>4 DEF G!IsSha, G!Heads, G!Tags

LEMMA GitStarts == G!Init => GitInv
<1>. SUFFICES ASSUME G!Init PROVE GitInv
  OBVIOUS
<1>1. target = G!NoClone /\ cloning = "idle" /\ halfDone = {} /\ disturbed = FALSE
      /\ setting \in Settings
  BY DEF G!Init
<1>2. GitTypes
  BY <1>1 DEF GitTypes, Outside, G!NoClone, G!NoFiles, Clone
<1>3. FilesBelong /\ ModuleBelongs
  BY <1>1 DEF FilesBelong, ModuleBelongs, G!NoClone, G!NoFiles
<1>4. StepIsRight /\ G!FailsWithReason
  BY <1>1 DEF StepIsRight, Within, BySystem, G!FailsWithReason
<1>5. QED
  BY <1>2, <1>3, <1>4 DEF GitInv

(* An empty directory belongs together.                                    *)
LEMMA EmptyBelongs ==
  ASSUME target' = G!NoClone, halfDone' = {}
  PROVE  target' \in Clone /\ halfDone' \subseteq {"files", "module"} /\ FilesBelong' /\ ModuleBelongs'
BY DEF FilesBelong, ModuleBelongs, G!NoClone, G!NoFiles, Clone

LEMMA CallIsRight ==
  ASSUME GitInv, NEW r \in G!Request, G!Call(r)
  PROVE  GitInv'
<1>1. /\ cloning \in {"idle", "returned", "failed"} /\ cloning' = "look" /\ request' = r
      /\ disturbed' = FALSE /\ UNCHANGED <<setting, target, halfDone>>
  BY DEF G!Call
<1>2. GitTypes'
  BY <1>1 DEF GitInv, GitTypes, Outside
<1>3. FilesBelong' /\ ModuleBelongs'
  BY <1>1 DEF GitInv, FilesBelong, ModuleBelongs, Within, G!ViaSystem, G!Pin
<1>4. StepIsRight' /\ G!FailsWithReason'
  BY <1>1 DEF StepIsRight, Within, BySystem, G!FailsWithReason
<1>5. QED
  BY <1>2, <1>3, <1>4 DEF GitInv

LEMMA LookIsRight ==
  ASSUME GitInv, G!Look
  PROVE  GitInv'
<1>1. cloning = "look" /\ UNCHANGED <<setting, request, disturbed>> /\ request \in G!Request
      /\ setting \in Settings
  BY DEF G!Look, G!Same, G!NoFault, GitInv, GitTypes
<1>2. CASE target' = G!NoClone /\ cloning' = "client" /\ halfDone' = {}
  <2>1. GitTypes'
    BY <1>1, <1>2, EmptyBelongs DEF GitInv, GitTypes, Outside
  <2>2. StepIsRight' /\ G!FailsWithReason'
    BY <1>2 DEF StepIsRight, Within, BySystem, G!FailsWithReason
  <2>3. QED
    BY <1>2, <2>1, <2>2, EmptyBelongs DEF GitInv
<1>3. CASE /\ cloning' = IF target.exists /\ G!IsThere THEN "returned" ELSE "client"
           /\ UNCHANGED <<target, halfDone>>
           /\ target.exists => G!IsSound(target)
  <2>1. GitTypes'
    BY <1>1, <1>3 DEF GitInv, GitTypes, Outside
  <2>2. FilesBelong' /\ ModuleBelongs'
    BY <1>1, <1>3 DEF GitInv, FilesBelong, ModuleBelongs, Within, G!ViaSystem, G!Pin
  <2>3. cloning' = "returned" =>
          /\ target.head \in G!Meanings(request) /\ target.head \in target.objects
          /\ G!IsSha(request)
    BY <1>1, <1>3, ServersAreSound
       DEF G!IsThere, G!IsSound, G!Meanings, G!Meaning, G!IsSha
  <2>4. StepIsRight'
    <3>1. UNCHANGED <<G!Meanings(request), G!IsSha(request)>>
      BY <1>1 DEF G!Meanings, G!Meaning, G!ViaSystem, G!IsSha, G!Heads, G!Tags
    <3>2. cloning' \in {"returned", "client"} /\ UNCHANGED <<target, halfDone>>
      BY <1>3
    <3>3. QED
      BY <2>3, <3>1, <3>2 DEF StepIsRight, Within, BySystem
  <2>5. G!FailsWithReason'
    BY <1>3 DEF G!FailsWithReason
  <2>6. QED
    BY <2>1, <2>2, <2>4, <2>5 DEF GitInv
<1>4. QED
  BY <1>2, <1>3 DEF G!Look

LEMMA BeginningIsRight ==
  ASSUME GitInv, G!UseSystemGit \/ G!InitRepo \/ G!AddRemote \/ G!Unauthorized \/ G!Remove
  PROVE  GitInv'
<1>1. UNCHANGED <<setting, request, disturbed>> /\ request \in G!Request /\ setting \in Settings
      /\ cloning \in {"client", "remote", "fetch", "remove"}
  BY DEF G!UseSystemGit, G!InitRepo, G!AddRemote, G!Unauthorized, G!Remove, G!Goes, G!Same,
     G!NoFault, GitInv, GitTypes
<1>2. G!FailsWithReason'
  BY DEF G!UseSystemGit, G!InitRepo, G!AddRemote, G!Unauthorized, G!Remove, G!Goes,
     G!FailsWithReason
<1>3. CASE G!UseSystemGit \/ G!Unauthorized
  <2>1. cloning' = "remove" /\ UNCHANGED <<target, halfDone>> /\ G!ViaSystem
    BY <1>3 DEF G!UseSystemGit, G!Unauthorized, G!Goes, G!ViaSystem
  <2>2. GitTypes' /\ FilesBelong'
    BY <1>1, <2>1 DEF GitInv, GitTypes, FilesBelong, BySystem
  <2>3. ModuleBelongs' /\ StepIsRight'
    BY <1>1, <2>1 DEF GitInv, ModuleBelongs, StepIsRight, Within, BySystem, G!ViaSystem
  <2>4. QED
    BY <1>2, <2>2, <2>3 DEF GitInv
<1>4. CASE G!Remove
  <2>1. target' = G!NoClone /\ halfDone' = {} /\ cloning' = "system" /\ cloning = "remove"
    BY <1>4 DEF G!Remove, G!Goes
  <2>2. GitTypes'
    BY <1>1, <2>1, EmptyBelongs DEF GitInv, GitTypes, BySystem
  <2>3. StepIsRight'
    BY <1>1, <2>1 DEF GitInv, StepIsRight, Within, BySystem, G!ViaSystem
  <2>4. QED
    BY <1>2, <2>1, <2>2, <2>3, EmptyBelongs DEF GitInv
<1>5. CASE G!InitRepo
  <2>1. /\ cloning' = "remote" /\ ~ setting.system /\ UNCHANGED halfDone /\ cloning = "client"
        /\ target' = IF target.exists THEN target ELSE [G!NoClone EXCEPT !.exists = TRUE]
    BY <1>5 DEF G!InitRepo, G!Goes
  <2>2. target' \in Clone
    BY <2>1 DEF GitInv, GitTypes, Clone, G!NoClone, G!NoFiles
  <2>3. GitTypes'
    BY <1>1, <2>1, <2>2 DEF GitInv, GitTypes
  <2>4. FilesBelong' /\ ModuleBelongs'
    BY <1>1, <2>1
       DEF GitInv, FilesBelong, ModuleBelongs, Within, G!ViaSystem, G!Pin, G!NoClone, G!NoFiles
  <2>5. StepIsRight'
    BY <1>1, <2>1 DEF StepIsRight, Within, BySystem
  <2>6. QED
    BY <1>2, <2>3, <2>4, <2>5 DEF GitInv
<1>6. CASE G!AddRemote
  <2>1. /\ cloning' = "fetch" /\ UNCHANGED halfDone /\ cloning = "remote"
        /\ target' = IF target.head = None THEN [target EXCEPT !.origin = request.url] ELSE target
    BY <1>6 DEF G!AddRemote, G!Goes
  <2>2. /\ target' \in Clone /\ target'.head = target.head /\ target'.files = target.files
        /\ target'.module = target.module
    BY <1>1, <2>1, ServersAreSound DEF GitInv, GitTypes, Clone
  <2>3. GitTypes'
    BY <1>1, <2>1, <2>2 DEF GitInv, GitTypes
  <2>4. FilesBelong' /\ ModuleBelongs'
    BY <1>1, <2>1, <2>2 DEF GitInv, FilesBelong, ModuleBelongs, Within, G!ViaSystem, G!Pin
  <2>5. StepIsRight'
    BY <1>1, <2>1 DEF GitInv, StepIsRight, Within, BySystem
  <2>6. QED
    BY <1>2, <2>3, <2>4, <2>5 DEF GitInv
<1>7. QED
  BY <1>3, <1>4, <1>5, <1>6

(* What a reference or a hash resolves to is what the request means, unless *)
(* there is no such thing.                                                 *)
LEMMA ResolveIsMeaning ==
  ASSUME setting \in Settings, NEW r \in G!Request, NEW objects,
         setting.sent[r.url] \subseteq objects
  PROVE  /\ G!Resolve(r, objects) # None =>
              G!Resolve(r, objects) = G!Meaning(r) /\ G!Meaning(r) \in Commits
         /\ G!Resolve(r, objects) = None =>
              G!Meaning(r) = None \/ G!Meaning(r) \notin setting.sent[r.url]
<1>1. CASE G!IsSha(r)
  <2>1. G!Meaning(r) = r.name /\ r.name \in Commits /\ r.name # None /\ r.kind \in {"sha", "short"}
    BY <1>1, ServersAreSound DEF G!Meaning, G!IsSha
  <2>2. CASE r.kind = "sha"
    BY <2>1, <2>2 DEF G!Resolve
  <2>3. CASE r.kind = "short"
    BY <2>1, <2>3 DEF G!Resolve, G!IsFound
  <2>4. QED
    BY <2>1, <2>2, <2>3
<1>2. CASE ~ G!IsSha(r)
  <2>1. r.kind \in {"branch", "tag", "revision"}
    BY <1>2, ServersAreSound DEF G!IsSha
  <2>2. G!Resolve(r, objects) = G!Meaning(r)
    BY <2>1 DEF G!Resolve, G!Meaning, G!IsSha
  <2>3. G!Meaning(r) \in {G!Heads(r)[r.name], G!Tags(r)[r.name]}
    BY <2>1 DEF G!Meaning, G!IsSha
  <2>4. QED
    BY <1>2, <2>2, <2>3, ServersAreSound
<1>3. QED
  BY <1>1, <1>2

LEMMA FetchIsRight ==
  ASSUME GitInv, G!Fetch
  PROVE  GitInv'
<1>1. /\ cloning = "fetch" /\ cloning' = "resolve" /\ ~ setting.private
      /\ target' = [target EXCEPT !.objects = @ \cup setting.sent[request.url]]
      /\ UNCHANGED <<setting, request, disturbed, halfDone>>
      /\ request \in G!Request /\ setting \in Settings
  BY DEF G!Fetch, G!Goes, G!Same, G!NoFault, GitInv, GitTypes
<1>2. /\ target' \in Clone /\ target'.objects = target.objects \cup setting.sent[request.url]
      /\ target'.head = target.head /\ target'.files = target.files
      /\ target'.module = target.module
  BY <1>1, ServersAreSound DEF GitInv, GitTypes, Clone
<1>3. GitTypes'
  BY <1>1, <1>2 DEF GitInv, GitTypes
<1>4. FilesBelong' /\ ModuleBelongs'
  BY <1>1, <1>2 DEF GitInv, FilesBelong, ModuleBelongs, Within, G!ViaSystem, G!Pin
<1>5. StepIsRight' /\ G!FailsWithReason'
  BY <1>1, <1>2 DEF GitInv, StepIsRight, Within, BySystem, G!ViaSystem, G!FailsWithReason
<1>6. QED
  BY <1>3, <1>4, <1>5 DEF GitInv

LEMMA SetHeadIsRight ==
  ASSUME GitInv, G!SetHead
  PROVE  GitInv'
<1>1. /\ cloning = "resolve" /\ UNCHANGED <<setting, request, disturbed, halfDone>>
      /\ request \in G!Request /\ setting \in Settings
      /\ setting.sent[request.url] \subseteq target.objects /\ ~ G!ViaSystem
  BY DEF G!SetHead, G!Same, G!NoFault, GitInv, GitTypes, StepIsRight
<1>2. CASE G!Wanted = None /\ cloning' = "failed" /\ UNCHANGED target
  <2>1. GitTypes'
    BY <1>1, <1>2 DEF GitInv, GitTypes, Outside
  <2>2. FilesBelong' /\ ModuleBelongs'
    BY <1>1, <1>2 DEF GitInv, FilesBelong, ModuleBelongs, Within, G!ViaSystem, G!Pin
  <2>3. StepIsRight'
    BY <1>2 DEF StepIsRight, Within, BySystem
  <2>4. G!Meaning(request) = None \/ G!Meaning(request) \notin setting.sent[request.url]
    BY <1>1, <1>2, ResolveIsMeaning DEF G!Wanted
  <2>5. G!FailsWithReason'
    BY <1>1, <2>4 DEF G!FailsWithReason, G!Meaning, G!IsSha, G!Heads, G!Tags
  <2>6. QED
    BY <2>1, <2>2, <2>3, <2>5 DEF GitInv
<1>3. CASE G!Wanted # None /\ cloning' = "references" /\ target' = [target EXCEPT !.head = G!Wanted]
  <2>1. G!Wanted = G!Meaning(request) /\ G!Wanted \in Commits
    BY <1>1, <1>3, ResolveIsMeaning DEF G!Wanted
  <2>2. /\ target' \in Clone /\ target'.objects = target.objects
        /\ target'.head = G!Meaning(request) /\ target'.module = target.module
    BY <1>3, <2>1 DEF GitInv, GitTypes, Clone
  <2>3. GitTypes'
    BY <1>1, <1>3, <2>2 DEF GitInv, GitTypes, Within
  <2>4. FilesBelong' /\ ModuleBelongs'
    BY <1>1, <1>3, <2>2 DEF GitInv, FilesBelong, ModuleBelongs, Within
  <2>5. G!Meaning(request)' = G!Meaning(request)
    BY <1>1 DEF G!Meaning, G!IsSha, G!Heads, G!Tags
  <2>6. StepIsRight'
    BY <1>1, <1>3, <2>1, <2>2, <2>5 DEF StepIsRight, Within, BySystem, G!ViaSystem
  <2>7. G!FailsWithReason'
    BY <1>3 DEF G!FailsWithReason
  <2>8. QED
    BY <2>3, <2>4, <2>6, <2>7 DEF GitInv
<1>4. QED
  BY <1>2, <1>3 DEF G!SetHead

LEMMA ResetIsRight ==
  ASSUME GitInv, G!ImportRefs \/ G!Reset
  PROVE  GitInv'
<1>1. /\ cloning \in {"references", "reset"} /\ UNCHANGED <<setting, request, disturbed>>
      /\ request \in G!Request /\ setting \in Settings
      /\ setting.sent[request.url] \subseteq target.objects /\ ~ G!ViaSystem
      /\ target.head = G!Meaning(request) /\ target.head # None
  BY DEF G!ImportRefs, G!Reset, G!Goes, G!Same, G!NoFault, GitInv, GitTypes, StepIsRight, Within
<1>2. G!Meaning(request)' = G!Meaning(request)
  BY <1>1 DEF G!Meaning, G!IsSha, G!Heads, G!Tags
<1>3. CASE cloning' = "reset" /\ UNCHANGED <<target, halfDone>>
  <2>1. GitTypes'
    BY <1>1, <1>3 DEF GitInv, GitTypes, Within
  <2>2. FilesBelong' /\ ModuleBelongs'
    BY <1>1, <1>3 DEF GitInv, FilesBelong, ModuleBelongs, Within
  <2>3. StepIsRight' /\ G!FailsWithReason'
    BY <1>1, <1>2, <1>3 DEF StepIsRight, Within, BySystem, G!ViaSystem, G!FailsWithReason
  <2>4. QED
    BY <2>1, <2>2, <2>3 DEF GitInv
<1>4. CASE /\ target.head \in target.objects /\ target' = [target EXCEPT !.files = target.head]
           /\ cloning' = "module" /\ halfDone' = halfDone \ {"files"}
  <2>1. /\ target' \in Clone /\ target'.objects = target.objects /\ target'.head = target.head
        /\ target'.files = target.head /\ target'.module = target.module
    BY <1>4 DEF GitInv, GitTypes, Clone
  <2>2. GitTypes'
    BY <1>1, <1>4, <2>1 DEF GitInv, GitTypes, Within
  <2>3. FilesBelong' /\ ModuleBelongs'
    BY <1>1, <1>4, <2>1 DEF GitInv, FilesBelong, ModuleBelongs, Within
  <2>4. StepIsRight' /\ G!FailsWithReason'
    BY <1>1, <1>2, <1>4, <2>1 DEF StepIsRight, Within, BySystem, G!ViaSystem, G!FailsWithReason
  <2>5. QED
    BY <2>2, <2>3, <2>4 DEF GitInv
<1>5. CASE /\ target.head \notin target.objects /\ target' = G!NoClone
           /\ cloning' = "failed" /\ halfDone' = {}
  <2>1. GitTypes'
    BY <1>1, <1>5, EmptyBelongs DEF GitInv, GitTypes, Outside
  <2>2. StepIsRight'
    BY <1>5 DEF StepIsRight, Within, BySystem
  <2>3. G!FailsWithReason'
    BY <1>1, <1>2, <1>5 DEF G!FailsWithReason
  <2>4. QED
    BY <1>5, <2>1, <2>2, <2>3, EmptyBelongs DEF GitInv
<1>6. QED
  BY <1>3, <1>4, <1>5 DEF G!ImportRefs, G!Reset, G!Goes

LEMMA SubmoduleIsRight ==
  ASSUME GitInv, G!CloneSubmodules \/ G!ResetSubmodule
  PROVE  GitInv'
<1>1. /\ cloning \in {"module", "moduleFiles"} /\ UNCHANGED <<setting, request, disturbed>>
      /\ request \in G!Request /\ setting \in Settings /\ ~ G!ViaSystem
      /\ target.head = G!Meaning(request) /\ target.head \in Commits
      /\ target.head \in target.objects /\ "files" \notin halfDone
  BY DEF G!CloneSubmodules, G!ResetSubmodule, G!Goes, G!Same, G!NoFault, GitInv, GitTypes,
     StepIsRight, Within, Clone
<1>2. G!Meaning(request)' = G!Meaning(request) /\ G!Pin \in Pins \cup {None}
  <2>1. G!Meaning(request)' = G!Meaning(request)
    BY <1>1 DEF G!Meaning, G!IsSha, G!Heads, G!Tags
  <2>2. G!Pin \in Pins \cup {None}
    BY <1>1, ServersAreSound DEF G!Pin
  <2>3. QED
    BY <2>1, <2>2
<1>3. CASE /\ cloning = "module" /\ (G!Pin = None \/ target.module.head = G!Pin)
           /\ cloning' = "returned" /\ UNCHANGED <<target, halfDone>>
  <2>1. GitTypes'
    BY <1>1, <1>3 DEF GitInv, GitTypes, Outside
  <2>2. FilesBelong'
    BY <1>1, <1>3 DEF GitInv, FilesBelong
  <2>3. ModuleBelongs'
    <3>1. G!Pin' = G!Pin /\ ~ G!ViaSystem' /\ cloning' \notin Within
      BY <1>1, <1>3 DEF G!Pin, G!ViaSystem, Within
    <3>2. UNCHANGED <<target, halfDone>> /\ cloning # "moduleFiles"
      BY <1>3
    <3>3. G!Pin = None \/ target.module.head = G!Pin
      BY <1>3
    <3>4. "module" \notin halfDone => target.module.files = target.module.head
      BY <3>2 DEF GitInv, ModuleBelongs
    <3>5. QED
      BY <3>1, <3>2, <3>3, <3>4 DEF ModuleBelongs
  <2>4. StepIsRight' /\ G!FailsWithReason'
    BY <1>1, <1>2, <1>3 DEF StepIsRight, Within, BySystem, G!ViaSystem, G!Meanings,
       G!IsSha, G!FailsWithReason
  <2>5. QED
    BY <2>1, <2>2, <2>3, <2>4 DEF GitInv
<1>4. CASE /\ cloning = "module" /\ cloning' = "moduleFiles" /\ UNCHANGED halfDone
           /\ target' = [target EXCEPT !.module.head = G!Pin, !.module.from = target.origin]
  <2>1. /\ target' \in Clone /\ target'.objects = target.objects /\ target'.head = target.head
        /\ target'.files = target.files /\ target'.module.head = G!Pin
    BY <1>2, <1>4 DEF GitInv, GitTypes, Clone
  <2>2. GitTypes'
    BY <1>1, <1>4, <2>1 DEF GitInv, GitTypes, Within
  <2>3. FilesBelong' /\ ModuleBelongs'
    BY <1>1, <1>4, <2>1 DEF GitInv, FilesBelong, ModuleBelongs, Within
  <2>4. StepIsRight' /\ G!FailsWithReason'
    <3>1. G!Pin' = G!Pin /\ ~ G!ViaSystem'
      BY <1>1, <2>1 DEF G!Pin, G!ViaSystem
    <3>2. target'.module.head = G!Pin' /\ target'.head = G!Meaning(request)'
      BY <1>1, <1>2, <2>1, <3>1
    <3>3. target'.head # None /\ target'.head \in target'.objects
      BY <1>1, <2>1, ServersAreSound
    <3>4. StepIsRight'
      BY <1>1, <1>4, <3>1, <3>2, <3>3 DEF StepIsRight, Within, BySystem
    <3>5. QED
      BY <1>4, <3>4 DEF G!FailsWithReason
  <2>5. QED
    BY <2>2, <2>3, <2>4 DEF GitInv
<1>5. CASE /\ cloning = "moduleFiles" /\ cloning' = "returned"
           /\ target' = [target EXCEPT !.module.files = G!Pin]
           /\ halfDone' = halfDone \ {"module"}
  <2>1. /\ target' \in Clone /\ target'.objects = target.objects /\ target'.head = target.head
        /\ target'.files = target.files /\ target'.module.files = G!Pin
        /\ target'.module.head = target.module.head
    BY <1>2, <1>5 DEF GitInv, GitTypes, Clone
  <2>2. GitTypes'
    BY <1>1, <1>5, <2>1 DEF GitInv, GitTypes, Outside
  <2>3. target.module.head = G!Pin /\ G!Pin' = G!Pin
    BY <1>1, <1>5, <2>1 DEF GitInv, StepIsRight, G!Pin
  <2>4. FilesBelong' /\ ModuleBelongs'
    BY <1>1, <1>5, <2>1, <2>3 DEF GitInv, FilesBelong, ModuleBelongs, Within
  <2>5. StepIsRight' /\ G!FailsWithReason'
    BY <1>1, <1>2, <1>5, <2>1 DEF StepIsRight, Within, BySystem, G!ViaSystem, G!Meanings,
       G!IsSha, G!FailsWithReason
  <2>6. QED
    BY <2>2, <2>4, <2>5 DEF GitInv
<1>6. QED
  BY <1>3, <1>4, <1>5 DEF G!CloneSubmodules, G!ResetSubmodule, G!Goes

LEMMA SystemCloneIsRight ==
  ASSUME GitInv, G!SystemClone
  PROVE  GitInv'
<1>. DEFINE head == G!DefaultHead
            pin == setting.pin[head]
            module == IF pin = None THEN G!NoFiles
                      ELSE [head |-> pin, files |-> pin, from |-> request.url]
<1>1. /\ cloning = "system" /\ cloning' = "checkout"
      /\ UNCHANGED <<setting, request, disturbed, halfDone>>
      /\ request \in G!Request /\ setting \in Settings /\ G!ViaSystem /\ "files" \notin halfDone
      /\ target' = [exists |-> TRUE, origin |-> request.url, head |-> head, files |-> head,
                    objects |-> setting.sent[request.url], module |-> module]
  BY DEF G!SystemClone, G!Cloned, G!Goes, G!Same, G!NoFault, GitInv, GitTypes, StepIsRight,
     BySystem
<1>2. /\ head \in setting.sent[request.url] /\ setting.sent[request.url] \subseteq Commits
      /\ request.url \in Urls /\ pin \in Pins \cup {None}
  BY <1>1, ServersAreSound DEF G!DefaultHead
<1>. HIDE DEF head, pin
<1>3. module \in [head : Pins \cup {None}, files : Pins \cup {None}, from : Urls \cup {None}]
      /\ module.files = module.head
  BY <1>2 DEF G!NoFiles
<1>. HIDE DEF module
<1>4. target' \in Clone /\ target'.files = target'.head /\ target'.module.files = target'.module.head
      /\ target'.objects = setting.sent[request.url]
  BY <1>1, <1>2, <1>3 DEF Clone
<1>5. GitTypes'
  BY <1>1, <1>4 DEF GitInv, GitTypes, BySystem
<1>6. FilesBelong' /\ ModuleBelongs'
  BY <1>1, <1>4 DEF FilesBelong, ModuleBelongs, G!ViaSystem
<1>7. StepIsRight' /\ G!FailsWithReason'
  BY <1>1, <1>4 DEF StepIsRight, Within, BySystem, G!ViaSystem, G!FailsWithReason
<1>8. QED
  BY <1>5, <1>6, <1>7 DEF GitInv

LEMMA CheckoutIsRight ==
  ASSUME GitInv, G!Checkout
  PROVE  GitInv'
<1>. DEFINE c == G!SystemResolve(request)
<1>1. /\ cloning = "checkout" /\ UNCHANGED <<setting, request, disturbed, halfDone>>
      /\ request \in G!Request /\ setting \in Settings /\ G!ViaSystem
      /\ target.objects = setting.sent[request.url] /\ "files" \notin halfDone
      /\ \/ c = None /\ cloning' = "failed" /\ UNCHANGED target
         \/ c # None /\ cloning' = "returned" /\ target' = [target EXCEPT !.head = c, !.files = c]
  BY DEF G!Checkout, G!Same, G!NoFault, GitInv, GitTypes, StepIsRight, BySystem
<1>2. UNCHANGED <<G!Meaning(request), G!Meanings(request)>>
  BY <1>1 DEF G!Meaning, G!Meanings, G!ViaSystem, G!IsSha, G!Heads, G!Tags
<1>3. /\ c # None => c \in G!Meanings(request) /\ c \in setting.sent[request.url]
      /\ c = None => G!Meaning(request) = None \/ G!Meaning(request) \notin setting.sent[request.url]
  <2>1. CASE G!IsSha(request)
    <3>1. G!Meaning(request) = request.name /\ request.name # None
      BY <1>1, <2>1, ServersAreSound DEF G!Meaning, G!IsSha
    <3>2. QED
      BY <1>1, <2>1, <3>1 DEF G!SystemResolve, G!Meanings
  <2>2. CASE ~ G!IsSha(request)
    <3>1. request.kind \in {"branch", "tag", "revision"}
      BY <1>1, <2>2, ServersAreSound DEF G!IsSha
    <3>2. c = IF request.name = setting.default \/ G!Tags(request)[request.name] = None
              THEN G!Heads(request)[request.name] ELSE G!Tags(request)[request.name]
      BY <2>2 DEF G!SystemResolve
    <3>3. c # None => c \in G!Meanings(request) /\ c \in setting.sent[request.url]
      BY <1>1, <2>2, <3>2, ServersAreSound DEF G!Meanings
    <3>4. ASSUME c = None PROVE G!Meaning(request) = None
      <4>1. G!Heads(request)[setting.default] # None
        BY <1>1, ServersAreSound
      <4>2. G!Heads(request)[request.name] = None /\ G!Tags(request)[request.name] = None
        BY <3>2, <3>4, <4>1
      <4>3. QED
        BY <3>1, <4>2 DEF G!Meaning, G!IsSha
    <3>5. QED
      BY <3>3, <3>4
  <2>3. QED
    BY <2>1, <2>2
<1>4. c # None => c \in Commits
  BY <1>1, <1>3, ServersAreSound
<1>. HIDE DEF c
<1>5. CASE c = None /\ cloning' = "failed" /\ UNCHANGED target
  <2>1. GitTypes'
    BY <1>1, <1>5 DEF GitInv, GitTypes, Outside
  <2>2. FilesBelong' /\ ModuleBelongs'
    BY <1>1, <1>5 DEF GitInv, FilesBelong, ModuleBelongs, Within, G!ViaSystem, G!Pin
  <2>3. StepIsRight'
    BY <1>5 DEF StepIsRight, Within, BySystem
  <2>4. G!FailsWithReason'
    BY <1>1, <1>2, <1>3, <1>5 DEF G!FailsWithReason
  <2>5. QED
    BY <2>1, <2>2, <2>3, <2>4 DEF GitInv
<1>6. CASE c # None /\ cloning' = "returned" /\ target' = [target EXCEPT !.head = c, !.files = c]
  <2>1. /\ target' \in Clone /\ target'.objects = target.objects /\ target'.head = c
        /\ target'.files = c /\ target'.module = target.module
    BY <1>4, <1>6 DEF GitInv, GitTypes, Clone
  <2>2. GitTypes'
    BY <1>1, <1>6, <2>1 DEF GitInv, GitTypes, Outside
  <2>3. FilesBelong' /\ ModuleBelongs'
    BY <1>1, <1>6, <2>1 DEF GitInv, FilesBelong, ModuleBelongs, Within, G!ViaSystem
  <2>4. StepIsRight' /\ G!FailsWithReason'
    BY <1>1, <1>2, <1>3, <1>6, <2>1 DEF StepIsRight, Within, BySystem, G!FailsWithReason
  <2>5. QED
    BY <2>2, <2>3, <2>4 DEF GitInv
<1>7. QED
  BY <1>1, <1>5, <1>6

(* What is left of a directory when a step is cut short is a directory.     *)
LEMMA WhatIsLeft ==
  ASSUME GitInv, cloning # "idle", NEW t \in G!Left
  PROVE  t \in Clone
<1>1. target \in Clone /\ request \in G!Request /\ setting \in Settings
  BY DEF GitInv, GitTypes
<1>2. CASE cloning = "remove"
  <2>1. CASE t = G!NoClone
    BY <2>1 DEF Clone, G!NoClone, G!NoFiles
  <2>2. CASE \E h \in {target.head, None}, o \in {target.objects, {}},
                f \in {target.files, None}, m \in {target.module, G!NoFiles} :
               t = [target EXCEPT !.head = h, !.objects = o, !.files = f, !.module = m]
    <3>1. PICK h \in {target.head, None}, o \in {target.objects, {}},
               f \in {target.files, None}, m \in {target.module, G!NoFiles} :
                 t = [target EXCEPT !.head = h, !.objects = o, !.files = f, !.module = m]
      BY <2>2
    <3>2. /\ h \in Commits \cup {None} /\ o \in SUBSET Commits /\ f \in Commits \cup {None}
          /\ m \in [head : Pins \cup {None}, files : Pins \cup {None}, from : Urls \cup {None}]
      BY <1>1 DEF Clone, G!NoFiles
    <3>3. QED
      BY <1>1, <3>1, <3>2 DEF Clone
  <2>3. t \in G!Remains
    BY <1>2 DEF G!Left
  <2>4. QED
    BY <2>1, <2>2, <2>3 DEF G!Remains
<1>3. CASE cloning = "system"
  <2>1. /\ G!DefaultHead \in Commits /\ request.url \in Urls
        /\ setting.sent[request.url] \subseteq Commits
    BY <1>1, ServersAreSound DEF G!DefaultHead
  <2>2. t \in G!PartsOfClone
    BY <1>3 DEF G!Left
  <2>3. G!NoClone \in Clone /\ [G!NoClone EXCEPT !.exists = TRUE, !.origin = request.url] \in Clone
    BY <2>1 DEF G!NoClone, G!NoFiles, Clone
  <2>4. G!Cloned \in Clone
    <3>1. setting.pin[G!DefaultHead] \in Pins \cup {None}
      BY <1>1, <2>1, ServersAreSound
    <3>. DEFINE m == G!Cloned.module
    <3>2. m \in [head : Pins \cup {None}, files : Pins \cup {None}, from : Urls \cup {None}]
      BY <2>1, <3>1 DEF G!Cloned, G!NoFiles
    <3>3. G!Cloned = [exists |-> TRUE, origin |-> request.url, head |-> G!DefaultHead,
                      files |-> G!DefaultHead, objects |-> setting.sent[request.url], module |-> m]
      BY Zenon DEF G!Cloned
    <3>. HIDE DEF m
    <3>4. [exists |-> TRUE, origin |-> request.url, head |-> G!DefaultHead,
           files |-> G!DefaultHead, objects |-> setting.sent[request.url], module |-> m] \in Clone
      BY <2>1, <3>2 DEF Clone
    <3>5. QED
      BY <3>3, <3>4
  <2>5. /\ [G!Cloned EXCEPT !.files = None, !.module = G!NoFiles] \in Clone
        /\ [G!Cloned EXCEPT !.module = G!NoFiles] \in Clone
    BY <2>4 DEF Clone, G!NoFiles
  <2>6. QED
    BY <2>2, <2>3, <2>5 DEF G!PartsOfClone
<1>4. CASE cloning \in {"reset", "checkout"}
  BY <1>1, <1>4 DEF G!Left, Clone
<1>5. CASE cloning = "moduleFiles"
  BY <1>1, <1>5 DEF G!Left, Clone
<1>6. CASE cloning \notin {"remove", "system", "reset", "checkout", "moduleFiles"}
  BY <1>1, <1>6 DEF G!Left
<1>7. QED
  BY <1>2, <1>3, <1>4, <1>5, <1>6

(* Whatever an interrupted call has left, it is known what is not whole.   *)
LEMMA InterruptionIsKnown ==
  ASSUME GitInv, G!RequestFails \/ G!SystemFails \/ G!Crash
  PROVE  GitInv'
<1>1. /\ UNCHANGED <<setting, request>> /\ disturbed' = TRUE
      /\ cloning # "idle" /\ cloning' \in {"failed", "idle"}
      /\ target' \in G!Left /\ halfDone' = G!NotWhole(target')
  BY DEF G!RequestFails, G!SystemFails, G!Crash, G!IsCutShort, G!Fault, G!Same
<1>2. target' \in Clone
  BY <1>1, WhatIsLeft
<1>3. halfDone' \subseteq {"files", "module"}
  BY <1>1 DEF G!NotWhole
<1>4. GitTypes'
  BY <1>1, <1>2, <1>3 DEF GitInv, GitTypes, Outside
<1>5. FilesBelong'
  BY <1>1 DEF G!NotWhole, FilesBelong
<1>6. ModuleBelongs'
  <2>1. "module" \notin halfDone' =>
          /\ target'.module.files = target'.module.head
          /\ target'.head # None => setting.pin[target'.head] \in {None, target'.module.head}
    BY <1>1 DEF G!NotWhole
  <2>2. QED
    BY <1>1, <2>1 DEF ModuleBelongs, G!Pin
<1>7. StepIsRight' /\ G!FailsWithReason'
  BY <1>1 DEF StepIsRight, Within, BySystem, G!FailsWithReason
<1>8. QED
  BY <1>4, <1>5, <1>6, <1>7 DEF GitInv

LEMMA GitSteps == GitInv /\ [G!Next]_G!vars => GitInv'
<1>. SUFFICES ASSUME GitInv, [G!Next]_G!vars PROVE GitInv'
  OBVIOUS
<1>1. CASE UNCHANGED G!vars
  <2>1. UNCHANGED <<setting, request, cloning, target, disturbed, halfDone>>
    BY <1>1 DEF G!vars
  <2>2. UNCHANGED <<G!ViaSystem, G!Pin, G!Meaning(request), G!Meanings(request)>>
    BY <2>1 DEF G!ViaSystem, G!Pin, G!Meanings, G!Meaning, G!IsSha, G!Heads, G!Tags
  <2>3. GitTypes'
    BY <2>1 DEF GitInv, GitTypes
  <2>4. FilesBelong' /\ ModuleBelongs'
    BY <2>1, <2>2 DEF GitInv, FilesBelong, ModuleBelongs
  <2>5. StepIsRight'
    BY <2>1, <2>2 DEF GitInv, StepIsRight
  <2>6. G!FailsWithReason'
    BY <2>1, <2>2 DEF GitInv, G!FailsWithReason
  <2>7. QED
    BY <2>3, <2>4, <2>5, <2>6 DEF GitInv
<1>2. CASE G!Next
  BY <1>2, CallIsRight, LookIsRight, BeginningIsRight, FetchIsRight, SetHeadIsRight, ResetIsRight,
     SubmoduleIsRight, SystemCloneIsRight, CheckoutIsRight, InterruptionIsKnown DEF G!Next
<1>3. QED
  BY <1>1, <1>2

(* A call provides the commit that was asked for, with its files and its    *)
(* submodule, whatever earlier calls, for other repositories of the same    *)
(* name, failed or dead at any step and in the middle of it (a removal, a    *)
(* clone or a checkout by the system's git included), have left in the      *)
(* directory: only a call for the commit that is HEAD takes the files that  *)
(* an interrupted call has left half written.  It fails only if the server  *)
(* does not have the commit or in the call itself something went wrong; for *)
(* any servers, requests and number of calls.                               *)
THEOREM ClonesAreAsAsked == MCSpec => []CloneIsAsAsked
<1>1. GitInv => CloneIsAsAsked
  <2>. SUFFICES ASSUME GitInv PROVE G!CloneIsAsAsked
    BY DEF CloneIsAsAsked
  <2>1. G!TypeOK
    BY DEF GitInv, GitTypes, G!TypeOK, Within, BySystem, Outside, Clone
  <2>2. G!IsAsAsked
    <3>. SUFFICES ASSUME cloning = "returned" PROVE G!IsAsAsked
      BY DEF G!IsAsAsked
    <3>1. target.head \in G!Meanings(request) /\ target.head \in target.objects
      BY DEF GitInv, StepIsRight
    <3>2. target.head # None
      <4>1. target.head \in Commits /\ None \notin Commits
        BY <3>1, OneOfGit DEF GitInv, GitTypes, Clone, G!GitAssumption
      <4>2. QED
        BY <4>1
    <3>3. ("files" \in halfDone /\ G!IsSha(request)) \/ target.files = target.head
      BY DEF GitInv, FilesBelong, StepIsRight
    <3>4. "module" \notin halfDone /\ G!Pin # None /\ ~ G!ViaSystem =>
            target.module.head = G!Pin /\ target.module.files = G!Pin
      BY <3>2 DEF GitInv, ModuleBelongs, Within
    <3>5. QED
      BY <3>1, <3>3, <3>4 DEF G!IsAsAsked
  <2>3. QED
    BY <2>1, <2>2 DEF GitInv, G!CloneIsAsAsked
<1>2. MCInit => GitInv
  BY GitStarts DEF MCInit
<1>3. GitInv /\ [MCNext]_allvars => GitInv'
  <2>1. [MCNext]_allvars => [G!Next]_G!vars
    BY DEF MCNext, allvars, gitvars, G!vars
  <2>2. QED
    BY <2>1, GitSteps
<1>4. QED
  BY <1>1, <1>2, <1>3, PTL DEF MCSpec

-----------------------------------------------------------------------------
(* Sources *)

SourceIndex == [SourceNames -> [Versions -> SUBSET S!Link]]
SourceTypes ==
  /\ project \in Projects /\ index \in SourceIndex
  /\ \A n \in SourceNames, v \in Versions : \A l \in index[n][v] : S!HasNoBuild(l)
  /\ stage \in {"declared", "pooled", "locked", "installed", "failed"}
  /\ stage = "pooled" => pool = S!WithPyPI(project.declared)

(* What the index n had for the dependency.                                *)
HadIn(before, n) ==
  {v \in project.allowed : before[n][v] # {}
     /\ ((\A l \in before[n][v] : l.yanked) => S!Cardinality(project.allowed) = 1)}

DeclaredNames == {project.declared[i].name : i \in DOMAIN project.declared}
Primaries == {n \in DeclaredNames : S!PriorityOf(n) = "primary"}
PyPIOfDefault == IF Primaries = {} /\ "pypi" \notin DeclaredNames THEN {"pypi"} ELSE {}

(* S!SourcesAreAsked for one lock.                                         *)
AsksRight(l) ==
  IF project.source # None THEN l.source = project.source
  ELSE /\ l.source \in DeclaredNames \/ (l.source = "pypi" /\ Primaries = {})
       /\ S!PriorityOf(l.found) # "explicit"
       /\ S!PriorityOf(l.found) = "supplemental" =>
            \A n \in Primaries \cup PyPIOfDefault : ~ (HadIn(l.before, n) # {})
       /\ \A n \in DeclaredNames : S!PriorityOf(n) = S!PriorityOf(l.found) /\ S!PriorityOf(n) = "primary" =>
            \A v \in HadIn(l.before, n) : v <= l.version

IsLockOf(l) ==
  /\ l.version \in Versions /\ l.source \in SourceNames /\ l.before \in SourceIndex
  /\ l.digests \subseteq {S!Digest(x) : x \in l.before[l.source][l.version]}
  /\ AsksRight(l)

LockIsRight ==
  /\ stage \in {"declared", "pooled"} => locked = S!NotLocked
  /\ stage \in {"locked", "installed"} => locked # S!NotLocked
  /\ locked # S!NotLocked => IsLockOf(locked)

(* Between two changes of the index the choice stays the best.             *)
ChoiceIsRight ==
  /\ stage # "installed" => chosen = None
  /\ stage = "installed" =>
       /\ chosen \in S!Candidates
       /\ \A l \in S!Candidates : ~ S!IsLess(S!SortKey(chosen), S!SortKey(l))
  /\ stage = "failed" /\ locked # S!NotLocked => S!Candidates = {}

SourcesInv == SourceTypes /\ LockIsRight /\ ChoiceIsRight

LEMMA SourceKinds ==
  /\ "pypi" \in SourceNames /\ None \notin SourceNames /\ None \notin S!Link
  /\ \A v \in Versions : v \in Nat /\ v # 0
  /\ \A p \in Projects :
       /\ p.declared \in Seq(S!Source) /\ p.source \in SourceNames \cup {None} /\ p.allowed \subseteq Versions
       /\ p.noBinary \in {"none", "all", "named"} /\ p.onlyBinary \in {"none", "all", "named"}
       /\ \A i, j \in DOMAIN p.declared : p.declared[i].name = p.declared[j].name => i = j
  /\ \A x \in Indexes : x \in SourceIndex /\ \A n \in SourceNames, v \in Versions : \A l \in x[n][v] : S!HasNoBuild(l)
  /\ \A l \in Uploads : l \in S!Link /\ S!HasNoBuild(l)
BY OneOfSources DEF S!SourcesAssumption, S!Policies, SourceIndex

(* The pool has the sources that are declared, and PyPI where there is no   *)
(* primary one.                                                            *)
LEMMA PoolIsDeclared ==
  ASSUME project \in Projects, pool = S!WithPyPI(project.declared)
  PROVE  /\ \A i \in DOMAIN pool :
              /\ pool[i] \in S!Source /\ pool[i].priority = S!PriorityOf(pool[i].name)
              /\ pool[i].name \in DeclaredNames \/ (pool[i].name = "pypi" /\ Primaries = {})
         /\ \A n \in DeclaredNames \cup PyPIOfDefault : \E i \in DOMAIN pool : pool[i].name = n
<1>. PICK d : d = project.declared
  OBVIOUS
<1>1. /\ d \in Seq(S!Source)
      /\ \A i, j \in DOMAIN d : d[i].name = d[j].name => i = j
  BY SourceKinds
<1>2. \A i \in DOMAIN d : d[i] \in S!Source
  BY <1>1
<1>3. ASSUME NEW i \in DOMAIN d PROVE S!PriorityOf(d[i].name) = d[i].priority
  <2>1. S!IsIn(d[i].name, d)
    BY DEF S!IsIn
  <2>2. (CHOOSE s \in {d[j] : j \in DOMAIN d} : s.name = d[i].name) = d[i]
    BY <1>1
  <2>. QED
    BY <2>1, <2>2 DEF S!PriorityOf
<1>4. DeclaredNames = {d[i].name : i \in DOMAIN d}
  BY DEF DeclaredNames
<1>5. Primaries # {} <=> S!HasPrimary(d)
  BY <1>3, <1>4 DEF Primaries, S!HasPrimary
<1>6. \A n : n \in DeclaredNames <=> S!IsIn(n, d)
  BY <1>4 DEF S!IsIn
<1>7. CASE S!IsIn("pypi", d) \/ S!HasPrimary(d)
  <2>1. pool = d
    BY <1>7 DEF S!WithPyPI
  <2>2. PyPIOfDefault = {}
    BY <1>5, <1>6, <1>7 DEF PyPIOfDefault
  <2>. QED
    BY <1>2, <1>3, <1>4, <2>1, <2>2
<1>8. CASE ~ (S!IsIn("pypi", d) \/ S!HasPrimary(d))
  <2>. PICK added1 : added1 = [name |-> "pypi", priority |-> "primary"]
    OBVIOUS
  <2>1. pool = Append(d, added1) /\ added1 \in S!Source
    BY <1>8, SourceKinds DEF S!WithPyPI, S!Source
  <2>2. /\ DOMAIN pool = 1 .. Len(d) + 1 /\ DOMAIN d = 1 .. Len(d) /\ Len(d) \in Nat
        /\ \A i \in 1 .. Len(d) : pool[i] = d[i]
        /\ pool[Len(d) + 1] = added1
    <3>. HIDE DEF S!Source
    <3>. QED
      BY <1>1, <2>1
  <2>3. S!PriorityOf("pypi") = "primary"
    BY <1>8 DEF S!PriorityOf
  <2>4. Primaries = {} /\ PyPIOfDefault = {"pypi"}
    BY <1>5, <1>6, <1>8 DEF PyPIOfDefault
  <2>5. ASSUME NEW i \in DOMAIN pool
        PROVE  /\ pool[i] \in S!Source /\ pool[i].priority = S!PriorityOf(pool[i].name)
               /\ pool[i].name \in DeclaredNames \/ (pool[i].name = "pypi" /\ Primaries = {})
    <3>1. CASE i \in DOMAIN d
      BY <1>2, <1>3, <1>4, <2>2, <3>1
    <3>2. CASE i = Len(d) + 1
      BY <2>1, <2>2, <2>3, <2>4, <3>2
    <3>. QED
      BY <2>2, <3>1, <3>2
  <2>6. ASSUME NEW n \in DeclaredNames \cup PyPIOfDefault PROVE \E i \in DOMAIN pool : pool[i].name = n
    <3>1. CASE n \in DeclaredNames
      BY <1>4, <2>2, <3>1
    <3>2. CASE n = "pypi"
      BY <2>2, <3>2
    <3>. QED
      BY <2>4, <3>1, <3>2
  <2>. QED
    BY <2>5, <2>6
<1>. QED
  BY <1>7, <1>8

(* What is locked comes from where it should.                              *)
LEMMA LockAsksRight ==
  ASSUME SourcesInv, stage = "pooled", NEW f \in S!Found, NEW n \in SourceNames, S!IsFirst(f), S!IsSourceOf(f[2], n),
         NEW l, l = [version |-> f[2], source |-> n, found |-> pool[f[1]].name, digests |-> S!FilesOf(n, f[2]),
                     before |-> index]
  PROVE  IsLockOf(l)
<1>. PICK v, i : v = f[2] /\ i = f[1]
  OBVIOUS
<1>1. /\ project \in Projects /\ index \in SourceIndex /\ pool = S!WithPyPI(project.declared)
  BY DEF SourcesInv, SourceTypes
<1>2. /\ v \in Versions /\ i \in S!Asked /\ v \in S!FoundIn(pool[i].name)
  BY DEF S!Found
<1>3. l.version = v /\ l.source = n /\ l.found = pool[i].name /\ l.digests = S!FilesOf(n, v) /\ l.before = index
  OBVIOUS
<1>4. l.digests \subseteq {S!Digest(x) : x \in l.before[l.source][l.version]}
  BY <1>3 DEF S!FilesOf
<1>5. ASSUME NEW m \in SourceNames PROVE HadIn(index, m) = S!FoundIn(m)
  BY DEF HadIn, S!FoundIn, S!Has, S!IsYanked
<1>6. /\ \A j \in DOMAIN pool :
           /\ pool[j] \in S!Source /\ pool[j].priority = S!PriorityOf(pool[j].name)
           /\ pool[j].name \in DeclaredNames \/ (pool[j].name = "pypi" /\ Primaries = {})
      /\ \A m \in DeclaredNames \cup PyPIOfDefault : \E j \in DOMAIN pool : pool[j].name = m
  BY <1>1, PoolIsDeclared
<1>7. AsksRight(l)
  <2>1. CASE project.source # None
    BY <1>3, <2>1 DEF S!IsSourceOf, AsksRight
  <2>2. CASE project.source = None
    <3>1. /\ i \in DOMAIN pool /\ pool[i].priority # "explicit"
          /\ pool[i].priority = "supplemental" =>
               \A j \in S!Searched(pool) : S!IsBefore(pool, j, i) => S!FoundIn(pool[j].name) = {}
      BY <1>2, <2>2 DEF S!Asked, S!Searched, S!IsAsked
    <3>2. PICK k \in DOMAIN pool : pool[k].name = n
      BY <2>2 DEF S!IsSourceOf, S!Searched
    <3>3. l.source \in DeclaredNames \/ (l.source = "pypi" /\ Primaries = {})
      BY <1>3, <1>6, <3>2
    <3>4. S!PriorityOf(l.found) = pool[i].priority
      BY <1>3, <1>6, <3>1
    <3>5. \A j \in DOMAIN pool : pool[j].name \in SourceNames
      BY <1>6 DEF S!Source
    <3>6. ASSUME pool[i].priority = "supplemental", NEW m \in Primaries \cup PyPIOfDefault
          PROVE  HadIn(l.before, m) = {}
      <4>1. S!PriorityOf(m) = "primary"
        BY DEF Primaries, PyPIOfDefault, S!PriorityOf, S!IsIn, DeclaredNames
      <4>2. PICK j \in DOMAIN pool : pool[j].name = m
        BY <1>6 DEF Primaries
      <4>3. pool[j].priority = "primary"
        BY <1>6, <4>1, <4>2
      <4>4. j \in S!Searched(pool) /\ S!IsBefore(pool, j, i)
        BY <3>6, <4>3 DEF S!Searched, S!IsBefore, S!Rank
      <4>. QED
        BY <1>3, <1>5, <3>1, <3>5, <3>6, <4>2, <4>4
    <3>7. ASSUME pool[i].priority = "primary", NEW m \in DeclaredNames, S!PriorityOf(m) = "primary",
                 NEW w \in HadIn(l.before, m)
          PROVE  w <= l.version
      <4>1. PICK j \in DOMAIN pool : pool[j].name = m
        BY <1>6
      <4>2. pool[j].priority = "primary"
        BY <1>6, <3>7, <4>1
      <4>3. j \in S!Asked
        BY <2>2, <4>2 DEF S!Asked, S!Searched, S!IsAsked
      <4>4. w \in S!FoundIn(m) /\ w \in Versions
        BY <1>1, <1>3, <1>5, <3>5, <4>1, SourceKinds DEF HadIn
      <4>5. <<j, w>> \in S!Found
        BY <4>1, <4>3, <4>4 DEF S!Found
      <4>6. w < v \/ w = v
        BY <4>5 DEF S!IsFirst
      <4>7. w \in Nat /\ v \in Nat
        BY <1>2, <4>4, SourceKinds
      <4>. QED
        BY <1>3, <4>6, <4>7
    <3>. QED
      BY <2>2, <3>1, <3>3, <3>4, <3>6, <3>7 DEF AsksRight
  <2>. QED
    BY <2>1, <2>2
<1>. QED
  BY <1>1, <1>2, <1>3, <1>4, <1>7 DEF IsLockOf

(* What is locked stays right while the project is the same.               *)
LEMMA ConfirmedLock ==
  ASSUME UNCHANGED project, NEW l, IsLockOf(l), locked' = l
  PROVE  IsLockOf(locked)'
<1>1. /\ DeclaredNames' = DeclaredNames /\ \A n : S!PriorityOf(n)' = S!PriorityOf(n)
  BY DEF DeclaredNames, S!PriorityOf, S!IsIn
<1>2. Primaries' = Primaries
  BY <1>1 DEF Primaries
<1>3. PyPIOfDefault' = PyPIOfDefault
  BY <1>1, <1>2 DEF PyPIOfDefault
<1>4. \A before, n : HadIn(before, n)' = HadIn(before, n)
  BY DEF HadIn
<1>5. AsksRight(locked)'
  BY <1>1, <1>2, <1>3, <1>4 DEF IsLockOf, AsksRight
<1>. QED
  BY <1>5 DEF IsLockOf, S!Digest

LEMMA CreatePoolIsRight == ASSUME SourcesInv, S!CreatePool PROVE SourcesInv'
<1>1. /\ stage = "declared" /\ stage' \in {"failed", "pooled"} /\ pool' = S!WithPyPI(project.declared)
      /\ UNCHANGED <<project, index, locked, chosen>> /\ locked = S!NotLocked /\ chosen = None
  BY DEF S!CreatePool, SourcesInv, LockIsRight, ChoiceIsRight
<1>2. SourceTypes'
  BY <1>1 DEF SourcesInv, SourceTypes, S!WithPyPI, S!IsIn, S!HasPrimary
<1>3. LockIsRight'
  BY <1>1 DEF LockIsRight, S!NotLocked
<1>4. ChoiceIsRight'
  BY <1>1 DEF ChoiceIsRight, S!NotLocked
<1>. QED
  BY <1>2, <1>3, <1>4 DEF SourcesInv

LEMMA LockingIsRight == ASSUME SourcesInv, S!Lock PROVE SourcesInv'
<1>. PICK f \in S!Found, n \in SourceNames :
       /\ S!IsFirst(f) /\ S!IsSourceOf(f[2], n)
       /\ locked' = [version |-> f[2], source |-> n, found |-> pool[f[1]].name, digests |-> S!FilesOf(n, f[2]),
                     before |-> index]
  BY DEF S!Lock
<1>. PICK l : l = [version |-> f[2], source |-> n, found |-> pool[f[1]].name, digests |-> S!FilesOf(n, f[2]),
                   before |-> index]
  OBVIOUS
<1>1. /\ stage = "pooled" /\ stage' = "locked" /\ locked' = l
      /\ UNCHANGED <<project, index, pool, chosen>> /\ chosen = None
  BY DEF S!Lock, SourcesInv, ChoiceIsRight
<1>2. IsLockOf(l)
  BY <1>1, LockAsksRight
<1>3. l # S!NotLocked
  <2>1. l.version # 0
    BY <1>2, SourceKinds DEF IsLockOf
  <2>. QED
    BY <2>1 DEF S!NotLocked
<1>4. SourceTypes'
  BY <1>1 DEF SourcesInv, SourceTypes
<1>5. LockIsRight'
  <2>1. IsLockOf(locked)' 
    BY <1>1, <1>2, ConfirmedLock
  <2>. QED
    BY <1>1, <1>3, <2>1 DEF LockIsRight, S!NotLocked
<1>6. ChoiceIsRight'
  BY <1>1 DEF ChoiceIsRight
<1>. QED
  BY <1>4, <1>5, <1>6 DEF SourcesInv

LEMMA NotFoundIsRight == ASSUME SourcesInv, S!NotFound PROVE SourcesInv'
<1>1. /\ stage = "pooled" /\ stage' = "failed"
      /\ UNCHANGED <<project, index, pool, locked, chosen>> /\ locked = S!NotLocked /\ chosen = None
  BY DEF S!NotFound, SourcesInv, LockIsRight, ChoiceIsRight
<1>2. SourceTypes'
  BY <1>1 DEF SourcesInv, SourceTypes
<1>3. LockIsRight'
  BY <1>1 DEF LockIsRight, S!NotLocked
<1>4. ChoiceIsRight'
  BY <1>1 DEF ChoiceIsRight, S!NotLocked
<1>. QED
  BY <1>2, <1>3, <1>4 DEF SourcesInv

LEMMA IndexGoesOn ==
  ASSUME SourcesInv, NEW n \in SourceNames, NEW v \in Versions, NEW links, S!Changed(n, v, links),
         links \subseteq S!Link, \A l \in links : S!HasNoBuild(l)
  PROVE  SourcesInv'
<1>1. /\ locked # S!NotLocked /\ index' = [index EXCEPT ![n][v] = links]
      /\ stage' = "locked" /\ chosen' = None /\ UNCHANGED <<project, pool, locked>>
  BY DEF S!Changed
<1>2. index' \in SourceIndex
  BY <1>1 DEF SourcesInv, SourceTypes, SourceIndex
<1>3. \A m \in SourceNames, w \in Versions : index'[m][w] = IF m = n /\ w = v THEN links ELSE index[m][w]
  BY <1>1 DEF SourcesInv, SourceTypes, SourceIndex
<1>4. SourceTypes'
  <2>1. \A m \in SourceNames, w \in Versions : \A l \in index'[m][w] : S!HasNoBuild(l)
    BY <1>3 DEF SourcesInv, SourceTypes
  <2>. QED
    BY <1>1, <1>2, <2>1 DEF SourcesInv, SourceTypes, S!HasNoBuild
<1>5. LockIsRight'
  <2>. PICK l : l = locked
    OBVIOUS
  <2>1. IsLockOf(locked)'
    BY <1>1, ConfirmedLock DEF SourcesInv, LockIsRight
  <2>. QED
    BY <1>1, <2>1 DEF LockIsRight, S!NotLocked
<1>6. ChoiceIsRight'
  BY <1>1 DEF ChoiceIsRight
<1>. QED
  BY <1>4, <1>5, <1>6 DEF SourcesInv

LEMMA ChangeIsRight ==
  ASSUME SourcesInv, NEW n \in SourceNames, NEW v \in Versions,
         S!Yank(n, v) \/ S!Delete(n, v) \/ S!Replace(n, v) \/ S!Upload(n, v)
  PROVE  SourcesInv'
<1>1. index[n][v] \subseteq S!Link /\ \A l \in index[n][v] : S!HasNoBuild(l)
  BY DEF SourcesInv, SourceTypes, SourceIndex
<1>2. CASE S!Yank(n, v)
  <2>. PICK l \in index[n][v] : S!Changed(n, v, (index[n][v] \ {l}) \cup {[l EXCEPT !.yanked = TRUE]})
    BY <1>2 DEF S!Yank
  <2>. PICK m : m = [l EXCEPT !.yanked = TRUE]
    OBVIOUS
  <2>1. m \in S!Link /\ S!HasNoBuild(m)
    BY <1>1 DEF S!Link, S!HasNoBuild
  <2>. PICK links : links = (index[n][v] \ {l}) \cup {m}
    OBVIOUS
  <2>2. S!Changed(n, v, links)
    OBVIOUS
  <2>3. links \subseteq S!Link /\ \A x \in links : S!HasNoBuild(x)
    BY <1>1, <2>1
  <2>. QED
    BY <2>2, <2>3, IndexGoesOn
<1>3. CASE S!Delete(n, v)
  BY <1>1, <1>3, IndexGoesOn DEF S!Delete
<1>4. CASE S!Replace(n, v)
  <2>. PICK l \in index[n][v] : S!Changed(n, v, (index[n][v] \ {l}) \cup {[l EXCEPT !.content = 1 - l.content]})
    BY <1>4 DEF S!Replace
  <2>. PICK m : m = [l EXCEPT !.content = 1 - l.content]
    OBVIOUS
  <2>1. m \in S!Link /\ S!HasNoBuild(m)
    BY <1>1 DEF S!Link, S!HasNoBuild
  <2>. PICK links : links = (index[n][v] \ {l}) \cup {m}
    OBVIOUS
  <2>2. S!Changed(n, v, links)
    OBVIOUS
  <2>3. links \subseteq S!Link /\ \A x \in links : S!HasNoBuild(x)
    BY <1>1, <2>1
  <2>. QED
    BY <2>2, <2>3, IndexGoesOn
<1>5. CASE S!Upload(n, v)
  BY <1>1, <1>5, IndexGoesOn, SourceKinds DEF S!Upload
<1>. QED
  BY <1>2, <1>3, <1>4, <1>5

LEMMA ChoosingIsRight == ASSUME SourcesInv, S!ChooseFor \/ S!NothingToChoose PROVE SourcesInv'
<1>1. /\ stage = "locked" /\ stage' \in {"installed", "failed"} /\ UNCHANGED <<project, index, pool, locked>>
      /\ locked # S!NotLocked
  BY DEF S!ChooseFor, S!NothingToChoose, SourcesInv, LockIsRight
<1>2. SourceTypes'
  BY <1>1 DEF SourcesInv, SourceTypes
<1>3. LockIsRight'
  <2>. PICK l : l = locked
    OBVIOUS
  <2>1. IsLockOf(locked)'
    BY <1>1, ConfirmedLock DEF SourcesInv, LockIsRight
  <2>. QED
    BY <1>1, <2>1 DEF LockIsRight, S!NotLocked
<1>4. S!Candidates' = S!Candidates /\ \A l : S!SortKey(l)' = S!SortKey(l)
  BY <1>1 DEF S!Candidates, S!Links, S!IsLocked, S!IsCandidate, S!IsWheelAllowed, S!IsSdistAllowed,
     S!HasExactPackage, S!Allows, S!SortKey, S!HasAllowedHash, S!Number, S!Digest
<1>5. CASE S!ChooseFor
  <2>. PICK l \in S!Candidates :
         (\A m \in S!Candidates : ~ S!IsLess(S!SortKey(l), S!SortKey(m))) /\ chosen' = l
    BY <1>5 DEF S!ChooseFor
  <2>1. stage' = "installed"
    BY <1>5 DEF S!ChooseFor
  <2>2. ChoiceIsRight'
    <3>1. chosen' \in S!Candidates' /\ \A m \in S!Candidates' : ~ S!IsLess(S!SortKey(chosen), S!SortKey(m))'
      BY <1>1, <1>4 DEF S!IsLess, S!SortKey, S!HasAllowedHash, S!Number, S!Digest
    <3>. QED
      BY <2>1, <3>1 DEF ChoiceIsRight
  <2>. QED
    BY <1>2, <1>3, <2>2 DEF SourcesInv
<1>6. CASE S!NothingToChoose
  <2>1. stage' = "failed" /\ chosen' = None /\ S!Candidates = {}
    BY <1>6 DEF S!NothingToChoose
  <2>. QED
    BY <1>2, <1>3, <1>4, <2>1 DEF SourcesInv, ChoiceIsRight
<1>. QED
  BY <1>5, <1>6

LEMMA SourcesStart == S!Init => SourcesInv
<1>. SUFFICES ASSUME S!Init PROVE SourcesInv
  OBVIOUS
<1>1. /\ project \in Projects /\ index \in SourceIndex /\ stage = "declared" /\ locked = S!NotLocked /\ chosen = None
      /\ \A n \in SourceNames, v \in Versions : \A l \in index[n][v] : S!HasNoBuild(l)
  BY SourceKinds DEF S!Init
<1>. QED
  BY <1>1 DEF SourcesInv, SourceTypes, LockIsRight, ChoiceIsRight

LEMMA SourcesSteps == SourcesInv /\ [S!Next]_sourcevars => SourcesInv'
<1>. SUFFICES ASSUME SourcesInv, [S!Next]_sourcevars PROVE SourcesInv'
  OBVIOUS
<1>1. CASE UNCHANGED sourcevars
  <2>1. UNCHANGED <<project, index, stage, pool, locked, chosen>>
    BY <1>1 DEF sourcevars
  <2>2. SourceTypes'
    BY <2>1 DEF SourcesInv, SourceTypes, S!HasNoBuild, S!WithPyPI, S!IsIn, S!HasPrimary
  <2>3. LockIsRight'
    <3>. PICK l : l = locked
      OBVIOUS
    <3>1. locked # S!NotLocked => IsLockOf(locked)'
      BY <2>1, ConfirmedLock DEF SourcesInv, LockIsRight
    <3>. QED
      BY <2>1, <3>1 DEF SourcesInv, LockIsRight, S!NotLocked
  <2>4. S!Candidates' = S!Candidates
    BY <2>1 DEF S!Candidates, S!Links, S!IsLocked, S!IsCandidate, S!IsWheelAllowed, S!IsSdistAllowed,
       S!HasExactPackage, S!Allows, S!Digest
  <2>5. ChoiceIsRight'
    BY <2>1, <2>4 DEF SourcesInv, ChoiceIsRight, S!NotLocked, S!IsLess, S!SortKey, S!HasAllowedHash, S!Number, S!Digest
  <2>. QED
    BY <2>2, <2>3, <2>5 DEF SourcesInv
<1>2. CASE S!Next
  BY <1>2, CreatePoolIsRight, LockingIsRight, NotFoundIsRight, ChangeIsRight, ChoosingIsRight DEF S!Next
<1>. QED
  BY <1>1, <1>2

(* What the policies let through is what they should.                      *)
LEMMA CandidatesMay ==
  ASSUME project \in Projects, NEW l \in S!Link
  PROVE  S!IsLocked(l) /\ S!IsCandidate(l) <=> S!May(l)
<1>. PICK no, only : no = project.noBinary /\ only = project.onlyBinary
  OBVIOUS
<1>1. no \in {"none", "all", "named"} /\ only \in {"none", "all", "named"}
  BY SourceKinds
<1>2. l.kind \in {"wheel", "sdist", "egg"} /\ l.tags \in Nat
  BY DEF S!Link
<1>3. S!IsWheelAllowed <=> no # "named" /\ (no = "all" => only = "named")
  BY <1>1 DEF S!IsWheelAllowed, S!HasExactPackage, S!Allows
<1>4. S!IsSdistAllowed <=> only # "named" /\ (only = "all" => no = "named")
  BY <1>1 DEF S!IsSdistAllowed, S!HasExactPackage, S!Allows
<1>. QED
  BY <1>2, <1>3, <1>4 DEF S!IsCandidate, S!May, S!IsLocked

(* One key is less than another that is larger where they first differ.    *)
LEMMA LessKey ==
  ASSUME NEW a1, NEW a2, NEW a3, NEW a4, NEW b1, NEW b2, NEW b3, NEW b4,
         \/ a1 < b1
         \/ a1 = b1 /\ a2 < b2
         \/ a1 = b1 /\ a2 = b2 /\ a3 < b3
         \/ a1 = b1 /\ a2 = b2 /\ a3 = b3 /\ a4 < b4
  PROVE  S!IsLess(<<a1, a2, a3, a4>>, <<b1, b2, b3, b4>>)
<1>. PICK k, m : k = <<a1, a2, a3, a4>> /\ m = <<b1, b2, b3, b4>>
  OBVIOUS
<1>1. /\ DOMAIN k = 1 .. 4 /\ k[1] = a1 /\ k[2] = a2 /\ k[3] = a3 /\ k[4] = a4
      /\ m[1] = b1 /\ m[2] = b2 /\ m[3] = b3 /\ m[4] = b4
  OBVIOUS
<1>2. SUFFICES \E i \in 1 .. 4 : k[i] < m[i] /\ \A j \in 1 .. i - 1 : k[j] = m[j]
  BY <1>1 DEF S!IsLess
<1>. HIDE DEF S!IsLess
<1>3. /\ \A j \in 1 .. 1 - 1 : FALSE
      /\ \A j \in 1 .. 2 - 1 : j = 1
      /\ \A j \in 1 .. 3 - 1 : j = 1 \/ j = 2
      /\ \A j \in 1 .. 4 - 1 : j = 1 \/ j = 2 \/ j = 3
  OBVIOUS
<1>. QED
  BY <1>1, <1>3

(* No candidate that the key does not put before another is passed over.   *)
LEMMA BestOfCandidates ==
  ASSUME NEW shown \in SUBSET S!Link, \A l \in shown : S!May(l) /\ S!HasNoBuild(l), NEW c \in shown,
         \A l \in shown : ~ S!IsLess(S!SortKey(c), S!SortKey(l))
  PROVE  LET alike == {l \in shown : l.hash = c.hash /\ l.yanked = c.yanked} IN
         /\ c.yanked => \A l \in shown : l.yanked \/ l.hash = "md5"
         /\ c.kind = "sdist" => \A l \in alike : l.kind = "sdist"
         /\ \A l \in alike : l.kind = "wheel" /\ l.build = c.build => c.tags <= l.tags
<1>. DEFINE Hashed(l) == S!Number(S!HasAllowedHash(l))
            Kept(l) == S!Number(~ l.yanked)
            Fit(l) == IF l.kind = "wheel" THEN S!MoreTags - l.tags ELSE 0
<1>1. ASSUME NEW l \in shown
      PROVE  /\ Hashed(l) \in {0, 1} /\ Kept(l) \in {0, 1} /\ l.build \in Nat /\ Fit(l) \in Int
             /\ l.kind \in {"wheel", "sdist", "egg"} /\ l.tags \in Nat /\ l.tags < S!MoreTags /\ S!MoreTags = 100
             /\ l.hash \in {"sha256", "md5", "none"} /\ l.yanked \in BOOLEAN
             /\ l.kind \in {"wheel", "sdist"} /\ (l.kind = "sdist" => l.build = 0)
             /\ (l.hash # "none" => S!Digest(l) \in locked.digests)
  BY DEF S!Link, S!HasNoBuild, S!May, S!Number, S!MoreTags
<1>2. ASSUME NEW l \in shown PROVE Hashed(l) = IF l.hash = "md5" THEN 0 ELSE 1
  BY <1>1 DEF S!Number, S!HasAllowedHash
<1>3. ASSUME NEW l \in shown PROVE (l.yanked => Kept(l) = 0) /\ (~ l.yanked => Kept(l) = 1)
  BY DEF S!Number
<1>4. \A l \in shown : S!SortKey(l) = <<Hashed(l), Kept(l), l.build, Fit(l)>>
  BY DEF S!SortKey
<1>5. ASSUME NEW l \in shown
      PROVE  ~ \/ Hashed(c) < Hashed(l)
               \/ Hashed(c) = Hashed(l) /\ Kept(c) < Kept(l)
               \/ Hashed(c) = Hashed(l) /\ Kept(c) = Kept(l) /\ c.build < l.build
               \/ Hashed(c) = Hashed(l) /\ Kept(c) = Kept(l) /\ c.build = l.build /\ Fit(c) < Fit(l)
  <2>. HIDE DEF Hashed, Kept, Fit
  <2>. QED
    BY <1>4, LessKey
<1>6. ASSUME c.yanked, NEW l \in shown, l.hash # "md5", ~ l.yanked PROVE FALSE
  <2>1. Hashed(l) = 1 /\ Kept(l) = 1 /\ Kept(c) = 0 /\ Hashed(c) \in {0, 1}
    BY <1>1, <1>2, <1>3, <1>6
  <2>. HIDE DEF Hashed, Kept, Fit
  <2>. QED
    BY <1>5, <2>1
<1>7. ASSUME NEW l \in shown, l.hash = c.hash, l.yanked = c.yanked
      PROVE  /\ c.kind = "sdist" => l.kind = "sdist"
             /\ l.kind = "wheel" /\ l.build = c.build => c.tags <= l.tags
  <2>1. Hashed(l) = Hashed(c) /\ Kept(l) = Kept(c)
    BY <1>2, <1>7
  <2>2. l.build <= c.build /\ (l.build = c.build => Fit(l) <= Fit(c))
    <3>1. Fit(l) \in Int /\ Fit(c) \in Int /\ l.build \in Nat /\ c.build \in Nat
      BY <1>1
    <3>. HIDE DEF Hashed, Kept, Fit
    <3>. QED
      BY <1>5, <2>1, <3>1
  <2>. HIDE DEF Hashed, Kept
  <2>3. ASSUME c.kind = "sdist", l.kind = "wheel" PROVE FALSE
    <3>1. c.build = 0 /\ l.build = 0
      BY <1>1, <2>2, <2>3
    <3>. QED
      BY <1>1, <2>2, <2>3, <3>1
  <2>4. ASSUME l.kind = "wheel", l.build = c.build PROVE c.tags <= l.tags
    <3>1. c.kind = "wheel"
      BY <1>1, <2>3, <2>4
    <3>. QED
      BY <1>1, <2>2, <2>4, <3>1
  <2>. QED
    BY <1>1, <2>3, <2>4
<1>. QED
  BY <1>1, <1>6, <1>7

(* The right sources are asked for a dependency, whatever they have; and    *)
(* whatever the index does afterwards, the file that is installed is one of *)
(* the locked ones or of an index without hashes, and no file is passed over *)
(* without a reason; for any sources, priorities, releases, files, policies *)
(* and number of changes.                                                  *)
THEOREM TheRightFileIsChosen == MCSpec => []SourcesAreRight
<1>1. SourcesInv => SourcesAreRight
  <2>. SUFFICES ASSUME SourcesInv PROVE S!SourcesAreRight
    BY DEF SourcesAreRight
  <2>1. project \in Projects /\ index \in SourceIndex
    BY DEF SourcesInv, SourceTypes
  <2>2. /\ chosen # None => stage = "installed"
        /\ stage = "installed" =>
             /\ chosen \in S!Candidates /\ chosen \in index[locked.source][locked.version]
             /\ locked # S!NotLocked /\ IsLockOf(locked)
             /\ \A l \in S!Candidates : ~ S!IsLess(S!SortKey(chosen), S!SortKey(l))
    BY DEF SourcesInv, ChoiceIsRight, LockIsRight, S!Candidates, S!Links
  <2>3. stage = "installed" => chosen \in S!Link /\ S!HasNoBuild(chosen)
    BY <2>1, <2>2 DEF SourcesInv, SourceTypes, SourceIndex, IsLockOf
  <2>4. locked # S!NotLocked => index[locked.source][locked.version] \subseteq S!Link
    BY <2>1 DEF SourcesInv, LockIsRight, IsLockOf, SourceIndex
  <2>5. locked # S!NotLocked => S!Candidates = {l \in index[locked.source][locked.version] : S!May(l)}
    BY <2>1, <2>4, CandidatesMay DEF S!Candidates, S!Links
  <2>6. S!TypeOK
    <3>1. locked.version \in Versions \cup {0} /\ locked.source \in SourceNames \cup {None}
      BY DEF SourcesInv, LockIsRight, IsLockOf, S!NotLocked
    <3>. QED
      BY <2>1, <2>2, <2>3, <3>1 DEF S!TypeOK, SourcesInv, SourceTypes, SourceIndex
  <2>7. S!SourcesAreAsked
    <3>1. locked # S!NotLocked => AsksRight(locked)
      BY DEF SourcesInv, LockIsRight, IsLockOf
    <3>2. \A n : S!HadThen(n) = HadIn(locked.before, n)
      BY DEF S!HadThen, HadIn
    <3>. QED
      BY <3>1, <3>2 DEF S!SourcesAreAsked, AsksRight, DeclaredNames, Primaries, PyPIOfDefault
  <2>8. S!ChosenIsLocked
    <3>. SUFFICES ASSUME stage = "installed", chosen.hash # "none"
                  PROVE  \E l \in locked.before[locked.source][locked.version] : S!Digest(l) = S!Digest(chosen)
      BY <2>2 DEF S!ChosenIsLocked
    <3>1. S!Digest(chosen) \in locked.digests
      BY <2>2 DEF S!Candidates, S!Links, S!IsLocked
    <3>2. locked.digests \subseteq {S!Digest(x) : x \in locked.before[locked.source][locked.version]}
      BY <2>2 DEF IsLockOf
    <3>. QED
      BY <3>1, <3>2
  <2>9. S!ChoiceIsBest
    <3>. PICK shown : shown = {l \in index[locked.source][locked.version] : S!May(l)}
      OBVIOUS
    <3>1. ASSUME stage = "installed"
          PROVE  /\ S!May(chosen)
                 /\ LET alike == {l \in shown : l.hash = chosen.hash /\ l.yanked = chosen.yanked} IN
                    /\ chosen.yanked => \A l \in shown : l.yanked \/ l.hash = "md5"
                    /\ chosen.kind = "sdist" => \A l \in alike : l.kind = "sdist"
                    /\ \A l \in alike : l.kind = "wheel" /\ l.build = chosen.build => chosen.tags <= l.tags
      <4>1. /\ shown = S!Candidates /\ shown \in SUBSET S!Link /\ chosen \in shown
            /\ \A l \in shown : ~ S!IsLess(S!SortKey(chosen), S!SortKey(l))
        BY <2>2, <2>4, <2>5, <3>1
      <4>2. locked.source \in SourceNames /\ locked.version \in Versions
        BY <2>2, <3>1 DEF IsLockOf
      <4>3. \A l \in shown : S!May(l) /\ S!HasNoBuild(l)
        BY <4>2 DEF SourcesInv, SourceTypes
      <4>. QED
        BY <4>1, <4>3, BestOfCandidates
    <3>2. stage = "failed" /\ locked # S!NotLocked => shown = {}
      BY <2>5 DEF SourcesInv, ChoiceIsRight
    <3>. QED
      BY <3>1, <3>2 DEF S!ChoiceIsBest
  <2>. QED
    BY <2>6, <2>7, <2>8, <2>9 DEF S!SourcesAreRight
<1>2. MCInit => SourcesInv
  BY SourcesStart DEF MCInit
<1>3. SourcesInv /\ [MCNext]_allvars => SourcesInv'
  <2>1. [MCNext]_allvars => [S!Next]_sourcevars
    BY DEF MCNext, allvars
  <2>2. QED
    BY <2>1, SourcesSteps
<1>4. QED
  BY <1>1, <1>2, <1>3, PTL DEF MCSpec
-----------------------------------------------------------------------------
(* InstalledPackage *)

Dist ==
  [files : SUBSET {"metadata", "record", "url"}, url : D!Package \cup {None}, isRecorded : BOOLEAN,
   from : Dependencies \cup {None}]

InstallTypes ==
  /\ dependency \in Dependencies /\ system \in SystemVersions /\ dist \in [Versions -> Dist]
  /\ pth \in {"none", "here", "src"} /\ src \in {"none", "c1", "c2"}
  /\ installing \in {"idle", "prepare", "clean", "remove", "unpack", "describe", "record", "url", "append"}
  /\ initial \in D!Package \cup {None} /\ runs \in 0 .. 2 /\ todo \in Seq(Versions)
  /\ IsFiniteSet(D!Present)

(* What is locked was described last, and has said where it is from.       *)
IsInstalled ==
  /\ dependency.version \in D!HasMetadata /\ dist[dependency.version].from = dependency
  /\ "unmarked" \notin leftover
  /\ dependency.type # "index" =>
       "url" \in dist[dependency.version].files /\ dist[dependency.version].url = D!UrlReference(dependency)

(* There is one distribution, and only what a crash has torn is wrong about *)
(* where it is from.                                                       *)
DistsAreRight ==
  /\ \A v, w \in D!HasMetadata : v = w
  /\ \A v \in Versions :
       LET its == dist[v] IN
       /\ "record" \in its.files => "metadata" \in its.files
       /\ "metadata" \in its.files =>
            /\ its.from \in Dependencies /\ its.from.version = v
            /\ its.from.develop => pth = D!PlaceOf(its.from)
       /\ "url" \in its.files => its.url \in D!Package
       /\ "unrecorded" \notin leftover /\ "url" \in its.files =>
            /\ "metadata" \in its.files /\ its.from.type # "index" /\ its.url = D!UrlReference(its.from)
            /\ its.isRecorded \/ installing = "append"
       /\ leftover \cap {"unmarked", "unrecorded"} = {} /\ "metadata" \in its.files /\ its.from.type # "index"
          /\ installing \notin {"record", "url", "append"} => "url" \in its.files

PthIsOwned ==
  "pth" \notin leftover /\ pth # "none" =>
    (\E v \in D!HasMetadata : dist[v].from.develop) \/ (installing = "describe" /\ dependency.develop)

PhaseIsRight ==
  /\ installing \in {"unpack", "describe"} \/ (installing = "prepare" /\ initial = None) => D!HasMetadata = {}
  /\ installing = "clean" => initial # None
  /\ installing = "describe" /\ dependency.develop => pth = D!PlaceOf(dependency)
  /\ installing \in {"record", "url", "append"} =>
       dependency.version \in D!HasMetadata /\ dist[dependency.version].from = dependency
  /\ installing = "record" /\ "unrecorded" \notin leftover => "url" \notin dist[dependency.version].files
  /\ installing \in {"url", "append"} =>
       /\ dependency.type # "index" /\ "record" \in dist[dependency.version].files
       /\ todo # << >> /\ \A i \in 1 .. Len(todo) : todo[i] \in D!Present
       /\ \A v \in D!Present :
            \/ \E i \in 1 .. Len(todo) : todo[i] = v
            \/ "url" \in dist[v].files /\ dist[v].url = D!UrlReference(dependency)
  /\ installing = "append" =>
       "url" \in dist[todo[1]].files /\ dist[todo[1]].url = D!UrlReference(dependency)
  /\ installing # "idle" => runs \in 0 .. 1

IsTorn == leftover \cap {"pth", "unrecorded"} # {}

(* What the second install does about what the first one has not.          *)
SrcIsRepaired ==
  /\ dependency.type = "index" /\ ~ IsTorn => src = "none"
  /\ D!IsEditableGit => src = dependency.commit

RunsAreRight ==
  /\ installing = "idle" /\ runs >= 1 => D!InSync \/ IsInstalled
  /\ installing = "idle" /\ runs = 2 => D!InSync \/ SrcIsRepaired
  /\ installing \in {"prepare", "clean"} /\ runs = 1 =>
       /\ dependency.type = "index" /\ ~ IsTorn => initial # None /\ initial.type = "git"
       /\ D!IsEditableGit => initial # None /\ initial.type # "git"
  /\ installing = "clean" /\ runs = 1 /\ D!IsEditableGit => src = dependency.commit
  /\ installing \in {"remove", "unpack", "describe", "record", "url", "append"} /\ runs = 1 => SrcIsRepaired

InstallInv == InstallTypes /\ DistsAreRight /\ PthIsOwned /\ PhaseIsRight /\ RunsAreRight

LEMMA DependencyKinds ==
  /\ \A v \in Versions : v \in Nat /\ v # 0
  /\ \A v \in SystemVersions : v \in Versions \/ v = 0
  /\ None \notin D!Package
  /\ \A p \in Dependencies : p \in D!Package /\ D!IsLockable(p)
BY OneOfInstalledPackage DEF D!InstalledPackageAssumption

(* The parts of a package.                                                 *)
LEMMA PackageParts ==
  ASSUME NEW p \in D!Package
  PROVE  /\ p.version \in Versions /\ p.type \in {"index", "url", "file", "directory", "git"}
         /\ p.url \in {"none", "link", "file", "here", "repo", "src"} /\ p.reference \in {"none", "main", "c1", "c2"}
         /\ p.commit \in {"none", "c1", "c2"} /\ p.develop \in BOOLEAN
         /\ p = [version |-> p.version, type |-> p.type, url |-> p.url, reference |-> p.reference,
                 commit |-> p.commit, develop |-> p.develop]
         /\ \A v \in Versions : [p EXCEPT !.version = v] \in D!Package
BY DEF D!Package

LEMMA LockableParts ==
  ASSUME NEW p \in Dependencies
  PROVE  /\ p.url # "src" /\ (p.type # "git" => p.commit = "none" /\ p.reference = "none")
         /\ (p.type = "git" => p.commit # "none") /\ (p.type = "index" => p.url = "none" /\ ~ p.develop)
         /\ (p.url = "none" => p.type = "index") /\ (p.develop => p.type \in {"directory", "git"})
         /\ p.develop \in BOOLEAN
BY DependencyKinds, PackageParts DEF D!IsLockable

LEMMA UrlReferences ==
  ASSUME NEW p \in Dependencies
  PROVE  /\ D!UrlReference(p) \in D!Package
         /\ ~ (p.type = "git" /\ p.develop) => D!UrlReference(p) = p
         /\ p.type = "git" /\ p.develop =>
              D!UrlReference(p).type = "directory" /\ D!UrlReference(p).url = "src"
BY DependencyKinds, PackageParts DEF D!UrlReference, D!Of, D!Package

LEMMA StandardIsPackage == ASSUME NEW v \in Versions, src \in {"none", "c1", "c2"} PROVE D!Standard(v) \in D!Package
BY DEF D!Standard, D!Of, D!Package

(* What is found, by what there is.                                        *)
LEMMA FoundThere ==
  ASSUME InstallTypes, DistsAreRight, NEW v \in D!HasMetadata
  PROVE  /\ v \in Versions /\ D!HasMetadata = {v} /\ D!Min(D!HasMetadata) = v
         /\ D!Found = D!FromDistribution(v) /\ D!Found \in D!Package /\ D!Found # None /\ D!Found.version = v
         /\ "url" \in dist[v].files => D!Found = [dist[v].url EXCEPT !.version = v]
         /\ "url" \notin dist[v].files => D!Found = D!Standard(v)
         /\ D!LoadFails <=> "url" \notin dist[v].files /\ pth = "src" /\ src = "none"
<1>1. v \in Versions /\ "metadata" \in dist[v].files /\ D!HasMetadata = {v}
  BY DEF D!HasMetadata, DistsAreRight
<1>2. v \in Nat
  BY <1>1, DependencyKinds
<1>3. D!Min(D!HasMetadata) = v
  BY <1>1, <1>2 DEF D!Min
<1>4. D!Found = D!FromDistribution(v)
  BY <1>1, <1>3 DEF D!Found
<1>5. CASE "url" \in dist[v].files
  <2>. PICK u \in D!Package : u = dist[v].url
    BY <1>1, <1>5 DEF DistsAreRight
  <2>1. D!Found = [u EXCEPT !.version = v]
    BY <1>4, <1>5 DEF D!FromDistribution
  <2>2. [u EXCEPT !.version = v].version = v /\ [u EXCEPT !.version = v] \in D!Package
    BY <1>1, PackageParts
  <2>. QED
    BY <1>1, <1>3, <1>4, <1>5, <2>1, <2>2, DependencyKinds DEF D!LoadFails
<1>6. CASE "url" \notin dist[v].files
  <2>1. D!Found = D!Standard(v)
    BY <1>4, <1>6 DEF D!FromDistribution
  <2>2. D!Standard(v) \in D!Package /\ D!Standard(v).version = v
    BY <1>1, StandardIsPackage DEF InstallTypes, D!Standard, D!Of
  <2>. QED
    BY <1>1, <1>3, <1>4, <1>6, <2>1, <2>2, DependencyKinds DEF D!LoadFails
<1>. QED
  BY <1>5, <1>6

(* A package that is as it is locked needs no operation.                   *)
LEMMA SameIsSame ==
  ASSUME NEW p \in Dependencies
  PROVE  D!IsSameSource(p, p)
BY DependencyKinds, PackageParts, LockableParts DEF D!IsSameSource, D!IsSameRevision, D!Matches

(* What is installed is found as it is locked, unless it is an editable     *)
(* clone or a stray clone is taken for it.                                 *)
LEMMA InstalledIsFound ==
  ASSUME InstallInv, IsInstalled, ~ IsTorn, ~ D!IsEditableGit, dependency.type = "index" => src = "none",
         installing \notin {"record", "url", "append"}
  PROVE  D!InSync
<1>. PICK p, v : p = dependency /\ v = dependency.version
  OBVIOUS
<1>1. p \in Dependencies /\ p \in D!Package /\ v \in Versions /\ InstallTypes /\ DistsAreRight
  BY DependencyKinds, PackageParts DEF InstallInv, InstallTypes
<1>2. v \in D!HasMetadata /\ dist[v].from = p /\ "metadata" \in dist[v].files
  BY DEF IsInstalled, D!HasMetadata
<1>3. "unrecorded" \notin leftover /\ "pth" \notin leftover
  BY DEF IsTorn
<1>4. CASE p.type # "index"
  <2>1. "url" \in dist[v].files /\ dist[v].url = p
    BY <1>1, <1>4, UrlReferences DEF IsInstalled, D!IsEditableGit
  <2>2. D!Found = [p EXCEPT !.version = v] /\ D!Found # None /\ ~ D!LoadFails
    BY <1>1, <1>2, <2>1, FoundThere
  <2>3. [p EXCEPT !.version = v] = p
    BY <1>1, PackageParts
  <2>4. D!IsSameSource(p, p)
    BY <1>1, SameIsSame
  <2>. QED
    BY <2>2, <2>3, <2>4 DEF D!InSync, D!IsUpToDate
<1>5. CASE p.type = "index"
  <2>1. "url" \notin dist[v].files
    BY <1>1, <1>2, <1>3, <1>5 DEF DistsAreRight
  <2>2. src = "none"
    BY <1>5
  <2>3. pth = "none"
    <3>1. ~ p.develop
      BY <1>1, <1>5, LockableParts
    <3>2. D!HasMetadata = {v}
      BY <1>1, <1>2, FoundThere
    <3>. QED
      BY <1>2, <1>3, <3>1, <3>2 DEF InstallInv, PthIsOwned
  <2>4. D!Found = D!Standard(v) /\ D!Found # None /\ ~ D!LoadFails
    BY <1>1, <1>2, <2>1, <2>3, FoundThere
  <2>5. D!Standard(v) = D!Of("index", "none", "none", v)
    BY <2>2, <2>3 DEF D!Standard, D!Paths
  <2>6. D!IsSameSource(p, D!Of("index", "none", "none", v)) /\ D!Of("index", "none", "none", v).version = v
    BY <1>1, <1>5, LockableParts DEF D!IsSameSource, D!IsSameRevision, D!Matches, D!Of
  <2>. QED
    BY <2>4, <2>5, <2>6 DEF D!InSync, D!IsUpToDate
<1>. QED
  BY <1>4, <1>5

(* The same files under the same source are the locked ones.                *)
LEMMA SameSourceIsSame ==
  ASSUME NEW p \in Dependencies, NEW q \in Dependencies, D!IsSameSource(p, q), p.version = q.version
  PROVE  [q EXCEPT !.develop = p.develop, !.reference = p.reference] = p
<1>1. p \in D!Package /\ q \in D!Package
  BY DependencyKinds
<1>2. p.type = q.type /\ p.url = q.url
  BY DEF D!IsSameSource
<1>3. p.commit = q.commit
  BY <1>2, LockableParts DEF D!IsSameSource, D!IsSameRevision, D!Matches
<1>. PICK r : r = [q EXCEPT !.develop = p.develop, !.reference = p.reference]
  OBVIOUS
<1>4. r = [version |-> q.version, type |-> q.type, url |-> q.url, reference |-> p.reference,
           commit |-> q.commit, develop |-> p.develop]
  BY <1>1 DEF D!Package
<1>. QED
  BY <1>1, <1>2, <1>3, <1>4, PackageParts

LEMMA SkippedIsRight == InstallInv => D!SkippedIsLocked
<1>. SUFFICES ASSUME InstallInv, installing = "idle", D!InSync, D!HasMetadata # {}, leftover = {}, ~ D!IsStray
              PROVE  D!IsOf(dependency.version, dependency)
  BY DEF D!SkippedIsLocked
<1>. PICK p : p = dependency
  OBVIOUS
<1>. PICK v \in D!HasMetadata : TRUE
  OBVIOUS
<1>1. p \in Dependencies /\ InstallTypes /\ DistsAreRight
  BY DEF InstallInv, InstallTypes
<1>2. v \in Versions /\ D!HasMetadata = {v} /\ "metadata" \in dist[v].files
  BY <1>1, FoundThere DEF D!HasMetadata
<1>. PICK q : q = dist[v].from
  OBVIOUS
<1>3. q \in Dependencies /\ q.version = v
  BY <1>1, <1>2 DEF DistsAreRight
<1>4. p.version = D!Found.version /\ D!IsSameSource(p, D!Found) /\ ~ D!LoadFails
  BY DEF D!InSync, D!IsUpToDate
<1>5. p.version = v
  BY <1>1, <1>4, FoundThere
<1>6. D!IsSameSource(p, q)
  <2>1. CASE q.type # "index"
    <3>1. "url" \in dist[v].files /\ dist[v].url = D!UrlReference(q)
      BY <1>1, <1>2, <2>1 DEF DistsAreRight
    <3>2. D!Found = [D!UrlReference(q) EXCEPT !.version = v]
      BY <1>1, <3>1, FoundThere
    <3>3. D!UrlReference(q) = q
      <4>1. D!UrlReference(q) \in D!Package /\ p.url # "src"
        BY <1>1, <1>3, UrlReferences, LockableParts
      <4>2. D!Found.url = D!UrlReference(q).url
        BY <3>2, <4>1 DEF D!Package
      <4>. QED
        BY <1>3, <1>4, <4>1, <4>2, UrlReferences DEF D!IsSameSource
    <3>4. [q EXCEPT !.version = v] = q
      BY <1>3, DependencyKinds, PackageParts
    <3>. QED
      BY <1>4, <3>2, <3>3, <3>4
  <2>2. CASE q.type = "index"
    <3>1. "url" \notin dist[v].files
      BY <1>1, <1>2, <2>2 DEF DistsAreRight
    <3>2. src = "none"
      BY <1>1, <1>2, <3>1, FoundThere DEF D!IsStray
    <3>3. pth = "none"
      <4>1. ~ q.develop
        BY <1>3, <2>2, LockableParts
      <4>. QED
        BY <1>2, <4>1 DEF InstallInv, PthIsOwned
    <3>4. D!Found = D!Of("index", "none", "none", v)
      BY <1>1, <3>1, <3>2, <3>3, FoundThere DEF D!Standard, D!Paths
    <3>5. q.url = "none" /\ q.reference = "none" /\ q.commit = "none"
      BY <1>3, <2>2, LockableParts
    <3>. QED
      BY <1>4, <2>2, <3>4, <3>5 DEF D!IsSameSource, D!IsSameRevision, D!Matches, D!Of
  <2>. QED
    BY <2>1, <2>2
<1>7. [q EXCEPT !.develop = p.develop, !.reference = p.reference] = p
  BY <1>1, <1>3, <1>5, <1>6, SameSourceIsSame
<1>. QED
  BY <1>2, <1>5, <1>7 DEF D!IsOf

LEMMA InstallIsLasting == InstallInv => D!InstallLasts
<1>. SUFFICES ASSUME InstallInv, installing = "idle", leftover \cap {"pth", "unrecorded"} = {}, ~ D!IsEditableGit,
                     runs = 2 \/ (runs = 1 /\ ~ D!IsStray), ~ D!InSync
              PROVE  FALSE
  BY DEF D!InstallLasts
<1>1. IsInstalled /\ ~ IsTorn /\ (runs = 2 => SrcIsRepaired)
  BY DEF InstallInv, RunsAreRight, IsTorn
<1>. PICK p, v : p = dependency /\ v = dependency.version
  OBVIOUS
<1>2. p \in Dependencies /\ InstallTypes /\ DistsAreRight /\ v \in D!HasMetadata /\ dist[v].from = p
  BY <1>1 DEF InstallInv, InstallTypes, IsInstalled
<1>3. p.type = "index" => src = "none"
  <2>1. CASE runs = 2
    BY <1>1, <2>1 DEF SrcIsRepaired
  <2>2. CASE ~ D!IsStray
    <3>1. p.type = "index" => "url" \notin dist[v].files
      BY <1>1, <1>2 DEF DistsAreRight, IsTorn, D!HasMetadata
    <3>. QED
      BY <1>2, <2>2, <3>1, FoundThere DEF D!IsStray
  <2>. QED
    BY <2>1, <2>2
<1>. QED
  BY <1>1, <1>3, InstalledIsFound

LEMMA EditableIsRight == InstallInv => D!EditableIsRepaired
<1>. SUFFICES ASSUME InstallInv, installing = "idle", runs = 2, D!IsEditableGit, ~ D!InSync
              PROVE  pth = "src" /\ src = dependency.commit /\ D!IsOf(dependency.version, dependency)
  BY DEF D!EditableIsRepaired
<1>. PICK p, v : p = dependency /\ v = dependency.version
  OBVIOUS
<1>1. IsInstalled /\ SrcIsRepaired
  BY DEF InstallInv, RunsAreRight
<1>2. p \in Dependencies /\ InstallTypes /\ DistsAreRight /\ v \in D!HasMetadata /\ dist[v].from = p
  BY <1>1 DEF InstallInv, InstallTypes, IsInstalled
<1>3. v \in Versions /\ D!HasMetadata = {v} /\ "metadata" \in dist[v].files
  BY <1>2, FoundThere DEF D!HasMetadata
<1>4. pth = "src"
  BY <1>2, <1>3 DEF DistsAreRight, D!IsEditableGit, D!PlaceOf
<1>5. src = p.commit
  BY <1>1 DEF SrcIsRepaired
<1>6. [p EXCEPT !.develop = p.develop, !.reference = p.reference] = p
  BY <1>2, SameIsSame, SameSourceIsSame
<1>. QED
  BY <1>2, <1>3, <1>4, <1>5, <1>6 DEF D!IsOf

LEMMA InstallTypesHold == InstallInv => D!TypeOK
BY DEF InstallInv, InstallTypes, D!TypeOK, Dist

-----------------------------------------------------------------------------
(* What a step that leaves a part of the environment alone leaves.         *)
LEMMA InstallKept ==
  ASSUME UNCHANGED dist
  PROVE  D!HasMetadata' = D!HasMetadata /\ D!Present' = D!Present
BY DEF D!HasMetadata, D!Present, D!IsThere

LEMMA SyncKept ==
  ASSUME UNCHANGED <<dependency, dist, pth, src, system>>
  PROVE  D!InSync' = D!InSync
BY DEF D!InSync, D!LoadFails, D!Found, D!FromDistribution, D!Standard, D!Paths, D!Of, D!HasMetadata, D!Min,
   D!IsUpToDate, D!IsSameSource, D!IsSameRevision, D!Matches

LEMMA UrlKept == ASSUME UNCHANGED dependency PROVE D!UrlReference(dependency)' = D!UrlReference(dependency)
BY DEF D!UrlReference, D!Of

(* The distributions stay right while they stay the same.                  *)
LEMMA DistsKept ==
  ASSUME DistsAreRight, UNCHANGED <<dist, pth>>, leftover \subseteq leftover',
         installing = "append" => "unrecorded" \in leftover' \/ installing' = "append",
         installing \in {"record", "url", "append"} =>
           installing' \in {"record", "url", "append"} \/ leftover' \cap {"unmarked", "unrecorded"} # {}
  PROVE  DistsAreRight'
<1>1. D!HasMetadata' = D!HasMetadata
  BY InstallKept
<1>2. \A v, w \in D!HasMetadata' : v = w
  BY <1>1 DEF DistsAreRight
<1>. QED
  BY <1>2 DEF DistsAreRight, D!PlaceOf, D!UrlReference, D!Of

LEMMA SkipIsRight == ASSUME InstallInv, D!Skip PROVE InstallInv'
<1>1. /\ installing = "idle" /\ installing' = "idle" /\ runs \in 0 .. 1 /\ runs' = runs + 1 /\ D!InSync
      /\ UNCHANGED <<dependency, dist, pth, src, system, initial, todo, leftover>>
  BY DEF D!Skip, InstallInv, InstallTypes
<1>2. InstallTypes'
  BY <1>1, InstallKept DEF InstallInv, InstallTypes
<1>3. DistsAreRight'
  BY <1>1, DistsKept DEF InstallInv
<1>4. PthIsOwned'
  BY <1>1, InstallKept DEF InstallInv, PthIsOwned
<1>5. PhaseIsRight'
  BY <1>1 DEF PhaseIsRight
<1>6. RunsAreRight'
  BY <1>1, SyncKept DEF RunsAreRight
<1>. QED
  BY <1>2, <1>3, <1>4, <1>5, <1>6 DEF InstallInv

LEMMA BeginIsRight == ASSUME InstallInv, D!Begin PROVE InstallInv'
<1>1. /\ installing = "idle" /\ installing' = "prepare" /\ runs \in 0 .. 1 /\ ~ D!LoadFails /\ ~ D!InSync
      /\ initial' = D!Found
      /\ UNCHANGED <<dependency, dist, pth, src, system, todo, runs, leftover>>
  BY DEF D!Begin, InstallInv, InstallTypes
<1>2. InstallTypes /\ DistsAreRight /\ dependency \in Dependencies
  BY DEF InstallInv, InstallTypes
<1>3. D!Found \in D!Package \cup {None} /\ (D!HasMetadata # {} => D!Found # None)
  <2>1. CASE D!HasMetadata # {}
    BY <1>2, <2>1, FoundThere
  <2>2. CASE D!HasMetadata = {} /\ system # 0
    <3>1. system \in Versions /\ src \in {"none", "c1", "c2"}
      BY <1>2, <2>2, DependencyKinds DEF InstallTypes
    <3>. QED
      BY <2>2, <3>1, StandardIsPackage DEF D!Found
  <2>3. CASE D!HasMetadata = {} /\ system = 0
    BY <2>3 DEF D!Found
  <2>. QED
    BY <2>1, <2>2, <2>3
<1>4. InstallTypes'
  BY <1>1, <1>2, <1>3, InstallKept DEF InstallTypes
<1>5. DistsAreRight'
  BY <1>1, <1>2, DistsKept
<1>6. PthIsOwned'
  BY <1>1, InstallKept DEF InstallInv, PthIsOwned
<1>7. PhaseIsRight'
  BY <1>1, <1>3, InstallKept DEF PhaseIsRight
<1>8. RunsAreRight'
  <2>. SUFFICES ASSUME runs = 1
                PROVE  /\ dependency.type = "index" /\ ~ IsTorn => initial' # None /\ initial'.type = "git"
                       /\ D!IsEditableGit => initial' # None /\ initial'.type # "git"
    BY <1>1 DEF RunsAreRight, IsTorn, D!IsEditableGit
  <2>. PICK p, v : p = dependency /\ v = dependency.version
    OBVIOUS
  <2>1. IsInstalled
    BY <1>1 DEF InstallInv, RunsAreRight
  <2>2. v \in D!HasMetadata /\ dist[v].from = p /\ p \in Dependencies
    BY <1>2, <2>1 DEF IsInstalled
  <2>3. ASSUME p.type = "index", ~ IsTorn PROVE initial' # None /\ initial'.type = "git"
    <3>1. src # "none" /\ ~ p.develop
      BY <1>1, <2>1, <2>2, <2>3, InstalledIsFound, LockableParts DEF D!IsEditableGit
    <3>2. "url" \notin dist[v].files
      BY <1>2, <2>2, <2>3 DEF DistsAreRight, D!HasMetadata, IsTorn
    <3>3. pth = "none"
      <4>1. D!HasMetadata = {v}
        BY <1>2, <2>2, FoundThere
      <4>. QED
        BY <1>1, <2>2, <2>3, <3>1, <4>1 DEF InstallInv, PthIsOwned, IsTorn
    <3>4. D!Found = D!Standard(v) /\ D!Found # None
      BY <1>2, <2>2, <3>2, FoundThere
    <3>5. D!Standard(v) = D!Of("git", "repo", src, v)
      BY <3>1, <3>3 DEF D!Standard, D!Paths
    <3>. QED
      BY <1>1, <3>4, <3>5 DEF D!Of
  <2>4. ASSUME D!IsEditableGit PROVE initial' # None /\ initial'.type # "git"
    <3>1. p.type = "git" /\ p.develop
      BY <2>4 DEF D!IsEditableGit
    <3>2. "url" \in dist[v].files /\ dist[v].url = D!UrlReference(p)
      BY <2>1, <3>1 DEF IsInstalled
    <3>3. D!Found = [D!UrlReference(p) EXCEPT !.version = v] /\ D!Found # None
      BY <1>2, <2>2, <3>2, FoundThere
    <3>4. D!UrlReference(p) \in D!Package /\ D!UrlReference(p).type = "directory"
      BY <2>2, <3>1, UrlReferences
    <3>5. [D!UrlReference(p) EXCEPT !.version = v].type = "directory"
      BY <3>4 DEF D!Package
    <3>. QED
      BY <1>1, <3>3, <3>5
  <2>. QED
    BY <2>3, <2>4
<1>. QED
  BY <1>4, <1>5, <1>6, <1>7, <1>8 DEF InstallInv

LEMMA PrepareIsRight == ASSUME InstallInv, D!Prepare PROVE InstallInv'
<1>1. /\ installing = "prepare" /\ installing' = (IF initial = None THEN "unpack" ELSE "clean")
      /\ UNCHANGED <<dependency, dist, pth, system, initial, todo, runs, leftover>>
  BY DEF D!Prepare
<1>. PICK p : p = dependency
  OBVIOUS
<1>2. InstallTypes /\ DistsAreRight /\ p \in Dependencies
  BY DEF InstallInv, InstallTypes
<1>3. /\ src' \in {"none", "c1", "c2"} /\ (p.type # "git" => src' = src)
      /\ p.type = "git" /\ p.develop => src' = p.commit
  <2>1. p.commit \in {"none", "c1", "c2"} /\ src \in {"none", "c1", "c2"}
    BY <1>2, DependencyKinds, PackageParts DEF InstallTypes
  <2>. QED
    BY <2>1 DEF D!Prepare, D!IsCloned
<1>4. InstallTypes'
  BY <1>1, <1>2, <1>3, InstallKept DEF InstallTypes
<1>5. DistsAreRight'
  BY <1>1, <1>2, DistsKept
<1>6. PthIsOwned'
  BY <1>1, InstallKept DEF InstallInv, PthIsOwned
<1>7. PhaseIsRight'
  BY <1>1, InstallKept DEF InstallInv, PhaseIsRight
<1>8. RunsAreRight'
  BY <1>1, <1>3 DEF InstallInv, RunsAreRight, SrcIsRepaired, IsTorn, D!IsEditableGit
<1>. QED
  BY <1>4, <1>5, <1>6, <1>7, <1>8 DEF InstallInv

(* An installation ends early.                                             *)
LEMMA FailureIsRight ==
  ASSUME InstallInv, D!Fails, UNCHANGED <<dependency, dist, pth, system>>, src' \in {"none", "c1", "c2"},
         leftover \subseteq leftover', installing = "append" => "unrecorded" \in leftover',
         installing \in {"record", "url", "append"} =>
           leftover' \cap {"unmarked", "unrecorded"} # {} \/ dependency.type = "index",
         installing = "describe" /\ dependency.develop => "pth" \in leftover'
  PROVE  InstallInv'
<1>1. installing' = "idle" /\ runs' = 0 /\ initial' = None /\ todo' = << >>
  BY DEF D!Fails
<1>2. InstallTypes /\ DistsAreRight
  BY DEF InstallInv
<1>3. InstallTypes'
  BY <1>1, <1>2, InstallKept DEF InstallTypes
<1>4. DistsAreRight'
  <2>1. CASE installing \notin {"record", "url", "append"} \/ leftover' \cap {"unmarked", "unrecorded"} # {}
    BY <1>1, <1>2, <2>1, DistsKept
  <2>2. CASE installing \in {"record", "url", "append"} /\ dependency.type = "index"
    <3>1. /\ installing = "record" /\ dist[dependency.version].from = dependency
          /\ dependency.version \in D!HasMetadata /\ \A v \in D!HasMetadata : v = dependency.version
      BY <2>2 DEF InstallInv, PhaseIsRight, DistsAreRight
    <3>2. \A v \in D!HasMetadata : dist[v].from.type = "index"
      BY <2>2, <3>1
    <3>3. D!HasMetadata' = D!HasMetadata
      BY InstallKept
    <3>4. \A v \in Versions : "metadata" \in dist[v].files => v \in D!HasMetadata
      BY DEF D!HasMetadata
    <3>. QED
      BY <1>1, <1>2, <3>1, <3>2, <3>3, <3>4 DEF DistsAreRight, D!PlaceOf, D!UrlReference, D!Of
  <2>. QED
    BY <2>1, <2>2
<1>5. PthIsOwned'
  BY <1>1, InstallKept DEF InstallInv, PthIsOwned
<1>6. PhaseIsRight' /\ RunsAreRight'
  BY <1>1 DEF PhaseIsRight, RunsAreRight
<1>. QED
  BY <1>3, <1>4, <1>5, <1>6 DEF InstallInv

LEMMA PrepareFailsIsRight == ASSUME InstallInv, D!PrepareFails PROVE InstallInv'
<1>1. /\ installing = "prepare" /\ D!Fails /\ UNCHANGED <<dependency, dist, pth, system, leftover>>
      /\ src' \in {src, dependency.commit}
  BY DEF D!PrepareFails
<1>2. dependency.commit \in {"none", "c1", "c2"} /\ src \in {"none", "c1", "c2"}
  BY DependencyKinds, PackageParts DEF InstallInv, InstallTypes
<1>. QED
  BY <1>1, <1>2, FailureIsRight

LEMMA InstallCrashIsRight == ASSUME InstallInv, D!Crash PROVE InstallInv'
<1>1. /\ D!Fails /\ UNCHANGED <<dependency, dist, pth, src, system>> /\ leftover \subseteq leftover'
      /\ src \in {"none", "c1", "c2"}
  BY DEF D!Crash, InstallInv, InstallTypes
<1>2. /\ installing = "append" => "unrecorded" \in leftover'
      /\ installing = "describe" /\ dependency.develop => "pth" \in leftover'
      /\ installing \in {"record", "url"} => "unmarked" \in leftover' \/ dependency.type = "index"
  BY DEF D!Crash
<1>. QED
  BY <1>1, <1>2, FailureIsRight

LEMMA CleanIsRight == ASSUME InstallInv, D!Clean PROVE InstallInv'
<1>1. /\ installing = "clean" /\ installing' = "remove" /\ src' = (IF initial.type = "git" THEN "none" ELSE src)
      /\ UNCHANGED <<dependency, dist, pth, system, initial, todo, runs, leftover>>
  BY DEF D!Clean
<1>2. InstallTypes /\ DistsAreRight
  BY DEF InstallInv
<1>4. InstallTypes'
  BY <1>1, <1>2, InstallKept DEF InstallTypes
<1>5. DistsAreRight'
  BY <1>1, <1>2, DistsKept
<1>6. PthIsOwned'
  BY <1>1, InstallKept DEF InstallInv, PthIsOwned
<1>7. PhaseIsRight'
  BY <1>1 DEF InstallInv, PhaseIsRight
<1>8. RunsAreRight'
  BY <1>1 DEF InstallInv, RunsAreRight, SrcIsRepaired, IsTorn, D!IsEditableGit
<1>. QED
  BY <1>4, <1>5, <1>6, <1>7, <1>8 DEF InstallInv

LEMMA RelockIsRight == ASSUME InstallInv, D!Relock PROVE InstallInv'
<1>1. /\ installing = "idle" /\ installing' = "idle" /\ runs' = 0 /\ dependency' \in Dependencies
      /\ UNCHANGED <<dist, pth, src, system, initial, todo, leftover>>
  BY DEF D!Relock
<1>2. InstallTypes /\ DistsAreRight
  BY DEF InstallInv
<1>4. InstallTypes'
  BY <1>1, <1>2, InstallKept DEF InstallTypes
<1>5. DistsAreRight'
  BY <1>1, <1>2, DistsKept
<1>6. PthIsOwned'
  BY <1>1, InstallKept DEF InstallInv, PthIsOwned
<1>7. PhaseIsRight' /\ RunsAreRight'
  BY <1>1 DEF PhaseIsRight, RunsAreRight
<1>. QED
  BY <1>4, <1>5, <1>6, <1>7 DEF InstallInv

-----------------------------------------------------------------------------
LEMMA LeastNumber ==
  ASSUME NEW T \in SUBSET Nat, T # {}
  PROVE  D!Min(T) \in T
<1>. DEFINE R == OpToRel(<, Nat)
<1>1. IsWellFoundedOn(R, Nat)
  BY NatLessThanWellFounded
<1>2. \A x, y \in Nat : <<y, x>> \in R <=> y < x
  BY DEF OpToRel
<1>. HIDE DEF R
<1>3. PICK x \in T : \A y \in T : ~ (<<y, x>> \in R)
  BY <1>1, WFMin
<1>4. ASSUME NEW y \in T PROVE x <= y
  <2>1. x \in Nat /\ y \in Nat /\ ~ (y < x)
    BY <1>2, <1>3
  <2>. QED
    BY <2>1
<1>. QED
  BY <1>4 DEF D!Min

LEMMA PipUninstallIsRight == ASSUME InstallInv, D!PipUninstall PROVE InstallInv'
<1>. DEFINE Least == D!Min(D!Present)
<1>1. /\ installing = "remove" /\ UNCHANGED <<dependency, src, system, leftover>>
      /\ InstallTypes /\ DistsAreRight /\ PthIsOwned
  BY DEF D!PipUninstall, InstallInv
<1>2. ASSUME UNCHANGED <<dist, pth, initial, todo, runs>>, installing' = "unpack", D!Present = {} PROVE InstallInv'
  <2>1. D!HasMetadata = {} /\ D!HasMetadata' = {}
    BY <1>2, InstallKept DEF D!HasMetadata, D!Present, D!IsThere
  <2>2. InstallTypes'
    BY <1>1, <1>2, InstallKept DEF InstallTypes
  <2>3. DistsAreRight'
    BY <1>1, <1>2, DistsKept
  <2>4. PthIsOwned'
    BY <1>1, <1>2, InstallKept DEF PthIsOwned
  <2>5. PhaseIsRight'
    BY <1>1, <1>2, <2>1 DEF InstallInv, PhaseIsRight
  <2>6. RunsAreRight'
    BY <1>1, <1>2 DEF InstallInv, RunsAreRight, SrcIsRepaired, IsTorn, D!IsEditableGit
  <2>. QED
    BY <2>2, <2>3, <2>4, <2>5, <2>6 DEF InstallInv
<1>3. ASSUME D!Present # {}, D!Removable(Least), dist' = [dist EXCEPT ![Least] = D!Uninstalled(Least)],
             pth' = (IF dist[Least].from.develop THEN "none" ELSE pth), installing' = "unpack",
             UNCHANGED <<initial, todo, runs>>
      PROVE  InstallInv'
  <2>. PICK v : v = Least
    OBVIOUS
  <2>. HIDE DEF Least
  <2>1. v \in D!Present /\ v \in Versions
    <3>1. D!Present \in SUBSET Nat
      BY DependencyKinds DEF D!Present
    <3>. QED
      BY <1>3, <3>1, LeastNumber DEF Least, D!Present
  <2>2. "metadata" \in dist[v].files /\ v \in D!HasMetadata /\ D!HasMetadata = {v}
    BY <1>1, <1>3, <2>1 DEF DistsAreRight, D!Removable, D!HasMetadata
  <2>. PICK old, new : old = dist[v] /\ new = D!Uninstalled(v)
    OBVIOUS
  <2>3. old \in Dist /\ old.from \in Dependencies /\ old.from.develop \in BOOLEAN
    BY <1>1, <2>1, <2>2, LockableParts DEF InstallTypes, DistsAreRight
  <2>4. /\ new \in Dist /\ "metadata" \notin new.files /\ "record" \notin new.files
        /\ "url" \in new.files => "url" \in old.files /\ new.url = old.url /\ ~ old.isRecorded
    BY <2>3 DEF D!Uninstalled, D!NoDist, Dist
  <2>5. /\ dist' = [dist EXCEPT ![v] = new] /\ dist' \in [Versions -> Dist]
        /\ \A w \in Versions : dist'[w] = IF w = v THEN new ELSE dist[w]
    BY <1>1, <1>3, <2>1, <2>4 DEF InstallTypes
  <2>6. \A w \in Versions : "metadata" \notin dist'[w].files
    BY <2>2, <2>4, <2>5 DEF D!HasMetadata
  <2>7. D!HasMetadata' = {}
    BY <2>6 DEF D!HasMetadata
  <2>8. pth' = (IF old.from.develop THEN "none" ELSE pth)
    BY <1>3
  <2>9. InstallTypes'
    <3>1. D!Present' \subseteq D!Present
      BY <2>1, <2>5 DEF D!Present, D!IsThere
    <3>2. IsFiniteSet(D!Present')
      BY <1>1, <3>1, FS_Subset DEF InstallTypes
    <3>. QED
      BY <1>1, <1>3, <2>5, <2>8, <3>2 DEF InstallTypes
  <2>10. DistsAreRight'
    <3>1. ASSUME NEW w \in Versions
          PROVE  /\ "record" \notin dist'[w].files /\ "metadata" \notin dist'[w].files
                 /\ "url" \in dist'[w].files => dist'[w].url \in D!Package /\ "unrecorded" \in leftover'
      <4>1. "metadata" \notin dist'[w].files
        BY <2>6
      <4>2. CASE w = v
        BY <1>1, <2>1, <2>4, <2>5, <4>2 DEF DistsAreRight
      <4>3. CASE w # v
        <5>1. dist'[w] = dist[w]
          BY <2>5, <4>3
        <5>. QED
          BY <1>1, <4>1, <5>1 DEF DistsAreRight
      <4>. QED
        BY <4>1, <4>2, <4>3
    <3>. QED
      BY <2>7, <3>1 DEF DistsAreRight
  <2>11. PthIsOwned'
    BY <1>1, <2>2, <2>8 DEF PthIsOwned
  <2>12. PhaseIsRight'
    BY <1>1, <1>3, <2>7 DEF InstallInv, PhaseIsRight
  <2>13. RunsAreRight'
    BY <1>1, <1>3 DEF InstallInv, RunsAreRight, SrcIsRepaired, IsTorn, D!IsEditableGit
  <2>. QED
    BY <2>9, <2>10, <2>11, <2>12, <2>13 DEF InstallInv
<1>4. ASSUME D!Fails, UNCHANGED <<dist, pth>> PROVE InstallInv'
  BY <1>1, <1>4, FailureIsRight DEF InstallTypes
<1>. QED
  BY <1>2, <1>3, <1>4 DEF D!PipUninstall

LEMMA UnpackIsRight == ASSUME InstallInv, D!Unpack PROVE InstallInv'
<1>1. /\ installing = "unpack" /\ installing' = "describe"
      /\ pth' = (IF dependency.develop THEN D!PlaceOf(dependency) ELSE pth)
      /\ UNCHANGED <<dependency, dist, src, system, initial, todo, runs, leftover>>
  BY DEF D!Unpack
<1>2. InstallTypes /\ DistsAreRight /\ D!HasMetadata = {} /\ D!HasMetadata' = {}
  BY <1>1, InstallKept DEF InstallInv, PhaseIsRight
<1>3. \A v \in Versions : "metadata" \notin dist[v].files
  BY <1>2 DEF D!HasMetadata
<1>4. InstallTypes'
  BY <1>1, <1>2, InstallKept DEF InstallTypes, D!PlaceOf
<1>5. DistsAreRight'
  <2>1. \A v \in Versions : "record" \notin dist[v].files
    BY <1>2, <1>3 DEF DistsAreRight
  <2>2. \A v \in Versions : "url" \in dist[v].files => dist[v].url \in D!Package /\ "unrecorded" \in leftover
    BY <1>2, <1>3 DEF DistsAreRight
  <2>. QED
    BY <1>1, <1>2, <1>3, <2>1, <2>2 DEF DistsAreRight
<1>6. PthIsOwned'
  BY <1>1, <1>2 DEF InstallInv, PthIsOwned
<1>7. PhaseIsRight'
  BY <1>1, <1>2 DEF InstallInv, PhaseIsRight, D!PlaceOf
<1>8. RunsAreRight'
  BY <1>1 DEF InstallInv, RunsAreRight, SrcIsRepaired, IsTorn, D!IsEditableGit
<1>. QED
  BY <1>4, <1>5, <1>6, <1>7, <1>8 DEF InstallInv

LEMMA DescribeIsRight == ASSUME InstallInv, D!Describe PROVE InstallInv'
<1>. PICK p, v : p = dependency /\ v = dependency.version
  OBVIOUS
<1>1. /\ installing = "describe" /\ installing' = "record"
      /\ dist' = [dist EXCEPT ![v].files = @ \cup {"metadata"}, ![v].from = p]
      /\ UNCHANGED <<dependency, pth, src, system, initial, todo, runs, leftover>>
  BY DEF D!Describe
<1>2. InstallTypes /\ DistsAreRight /\ D!HasMetadata = {} /\ p \in Dependencies /\ v \in Versions
  BY <1>1, DependencyKinds, PackageParts DEF InstallInv, InstallTypes, PhaseIsRight
<1>3. \A w \in Versions : "metadata" \notin dist[w].files /\ "record" \notin dist[w].files
  BY <1>2 DEF D!HasMetadata, DistsAreRight
<1>. PICK old, new : old = dist[v] /\ new = [dist[v] EXCEPT !.files = @ \cup {"metadata"}, !.from = p]
  OBVIOUS
<1>4. old \in Dist
  BY <1>2 DEF InstallTypes
<1>5. /\ new \in Dist /\ new.files = old.files \cup {"metadata"} /\ new.from = p
      /\ new.url = old.url /\ new.isRecorded = old.isRecorded
  BY <1>2, <1>4 DEF Dist
<1>6. /\ dist' = [dist EXCEPT ![v] = new] /\ dist' \in [Versions -> Dist]
      /\ \A w \in Versions : dist'[w] = IF w = v THEN new ELSE dist[w]
  <2>1. dist' = [dist EXCEPT ![v] = new]
    BY <1>1, <1>2 DEF InstallTypes
  <2>. QED
    BY <1>2, <1>5, <2>1 DEF InstallTypes
<1>7. D!HasMetadata' = {v}
  BY <1>2, <1>3, <1>5, <1>6 DEF D!HasMetadata
<1>8. InstallTypes'
  <2>1. D!Present' \subseteq D!Present \cup {v}
    BY <1>6 DEF D!Present, D!IsThere
  <2>2. IsFiniteSet(D!Present')
    BY <1>2, <2>1, FS_Subset, FS_AddElement DEF InstallTypes
  <2>. QED
    BY <1>1, <1>2, <1>6, <2>2 DEF InstallTypes
<1>9. \A w \in Versions : "url" \in dist[w].files => dist[w].url \in D!Package /\ "unrecorded" \in leftover
  BY <1>2, <1>3 DEF DistsAreRight
<1>10. DistsAreRight'
  <2>1. ASSUME NEW w \in Versions
        PROVE  /\ "record" \notin dist'[w].files
               /\ "metadata" \in dist'[w].files =>
                    /\ dist'[w].from \in Dependencies /\ dist'[w].from.version = w
                    /\ dist'[w].from.develop => pth = D!PlaceOf(dist'[w].from)
               /\ "url" \in dist'[w].files => dist'[w].url \in D!Package /\ "unrecorded" \in leftover'
    <3>1. p.develop => pth = D!PlaceOf(p)
      BY <1>1 DEF InstallInv, PhaseIsRight
    <3>2. CASE w = v
      <4>1. dist'[w] = new /\ "record" \notin new.files /\ ("url" \in new.files => "url" \in old.files)
        BY <1>3, <1>5, <1>6, <3>2
      <4>. QED
        BY <1>1, <1>2, <1>5, <1>9, <3>1, <3>2, <4>1
    <3>3. CASE w # v
      <4>1. dist'[w] = dist[w]
        BY <1>6, <3>3
      <4>. QED
        BY <1>1, <1>3, <1>9, <4>1
    <3>. QED
      BY <3>2, <3>3
  <2>2. \A q : D!PlaceOf(q)' = D!PlaceOf(q)
    BY DEF D!PlaceOf
  <2>. QED
    BY <1>1, <1>7, <2>1, <2>2 DEF DistsAreRight, D!PlaceOf
<1>11. PthIsOwned'
  BY <1>1, <1>2, <1>5, <1>6, <1>7 DEF InstallInv, PthIsOwned
<1>12. PhaseIsRight'
  <2>1. "unrecorded" \notin leftover' => "url" \notin dist'[v].files
    BY <1>1, <1>2, <1>5, <1>6, <1>9
  <2>. QED
    BY <1>1, <1>2, <1>5, <1>6, <1>7, <2>1 DEF InstallInv, PhaseIsRight
<1>13. RunsAreRight'
  BY <1>1 DEF InstallInv, RunsAreRight, SrcIsRepaired, IsTorn, D!IsEditableGit
<1>. QED
  BY <1>8, <1>10, <1>11, <1>12, <1>13 DEF InstallInv

(* An installation comes to its end with what is locked installed.         *)
LEMMA EndIsRight ==
  ASSUME InstallTypes', DistsAreRight', PthIsOwned', IsInstalled', installing' = "idle",
         runs' \in 1 .. 2, runs' = 2 => SrcIsRepaired'
  PROVE  InstallInv'
BY DEF InstallInv, PhaseIsRight, RunsAreRight

LEMMA RecordIsRight == ASSUME InstallInv, D!Record PROVE InstallInv'
<1>. PICK p, v : p = dependency /\ v = dependency.version
  OBVIOUS
<1>1. /\ installing = "record" /\ runs \in 0 .. 1
      /\ dist' = [dist EXCEPT ![v].files = @ \cup {"record"}, ![v].isRecorded = FALSE]
      /\ UNCHANGED <<dependency, pth, src, system>>
  BY DEF D!Record, InstallInv, PhaseIsRight
<1>2. /\ InstallTypes /\ DistsAreRight /\ p \in Dependencies /\ v \in Versions /\ v \in D!HasMetadata
      /\ dist[v].from = p /\ D!HasMetadata = {v} /\ "metadata" \in dist[v].files
  BY <1>1, FoundThere DEF InstallInv, InstallTypes, PhaseIsRight, D!HasMetadata
<1>. PICK old, new : old = dist[v] /\ new = [dist[v] EXCEPT !.files = @ \cup {"record"}, !.isRecorded = FALSE]
  OBVIOUS
<1>3. old \in Dist
  BY <1>2 DEF InstallTypes
<1>4. /\ new \in Dist /\ new.files = old.files \cup {"record"} /\ new.from = p
      /\ new.url = old.url /\ new.isRecorded = FALSE
  BY <1>2, <1>3 DEF Dist
<1>5. /\ dist' = [dist EXCEPT ![v] = new] /\ dist' \in [Versions -> Dist]
      /\ \A w \in Versions : dist'[w] = IF w = v THEN new ELSE dist[w]
  <2>1. dist' = [dist EXCEPT ![v] = new]
    BY <1>1, <1>2 DEF InstallTypes
  <2>. QED
    BY <1>2, <1>4, <2>1 DEF InstallTypes
<1>6. D!HasMetadata' = {v} /\ D!Present' = D!Present
  BY <1>2, <1>4, <1>5 DEF D!HasMetadata, D!Present, D!IsThere
<1>7. /\ installing' \in {"idle", "url"} /\ leftover' \in {leftover, leftover \ {"unmarked"}}
      /\ installing' = "idle" <=> p.type = "index"
      /\ p.type = "index" => todo' = << >> /\ runs' = runs + 1 /\ initial' = None /\ leftover' = leftover \ {"unmarked"}
      /\ p.type # "index" => todo' \in D!Listings /\ UNCHANGED <<initial, runs, leftover>>
  BY DEF D!Record, D!Ends
<1>8. p.type # "index" =>
        /\ todo' \in Seq(D!Present) /\ \A w \in D!Present : \E i \in 1 .. Len(todo') : todo'[i] = w
  <2>. SUFFICES ASSUME p.type # "index"
                PROVE  /\ todo' \in Seq(D!Present)
                       /\ \A w \in D!Present : \E i \in 1 .. Len(todo') : todo'[i] = w
    OBVIOUS
  <2>. PICK order, n : order = todo' /\ n = D!Cardinality(D!Present)
    OBVIOUS
  <2>1. n \in Nat
    <3>1. D!Cardinality(D!Present) = Cardinality(D!Present)
      BY DEF D!Cardinality, Cardinality
    <3>. QED
      BY <1>2, <3>1, FS_CardinalityType DEF InstallTypes
  <2>2. order \in [1 .. n -> D!Present] /\ D!ToSet(order) = D!Present
    BY <1>7 DEF D!Listings
  <2>3. order \in Seq(D!Present) /\ DOMAIN order = 1 .. Len(order)
    BY <2>1, <2>2
  <2>. QED
    BY <2>2, <2>3 DEF D!ToSet
<1>9. InstallTypes'
  <2>1. p.type # "index" => todo' \in Seq(Versions)
    BY <1>8 DEF D!Present
  <2>2. << >> \in Seq(Versions)
    OBVIOUS
  <2>3. todo' \in Seq(Versions) /\ initial' \in D!Package \cup {None} /\ runs' \in 0 .. 2
    <3>1. todo' \in Seq(Versions)
      BY <1>7, <2>1, <2>2
    <3>2. initial' \in D!Package \cup {None}
      <4>1. initial' = None \/ initial' = initial
        BY <1>7
      <4>. QED
        BY <1>2, <4>1 DEF InstallTypes
    <3>3. runs' \in 0 .. 2
      BY <1>1, <1>7
    <3>. QED
      BY <3>1, <3>2, <3>3
  <2>4. installing' \in {"idle", "url"} /\ IsFiniteSet(D!Present')
    BY <1>2, <1>6, <1>7 DEF InstallTypes
  <2>. QED
    BY <1>1, <1>2, <1>5, <2>3, <2>4 DEF InstallTypes
<1>10. DistsAreRight'
  <2>1. \A q \in Dependencies : D!PlaceOf(q)' = D!PlaceOf(q) /\ D!UrlReference(q)' = D!UrlReference(q)
    BY DEF D!PlaceOf, D!UrlReference, D!Of
  <2>2. \A w \in Versions : "metadata" \in dist[w].files => w = v
    BY <1>2 DEF D!HasMetadata
  <2>3. "unrecorded" \notin leftover => \A w \in Versions : "url" \notin dist[w].files
    <3>1. "unrecorded" \notin leftover => "url" \notin dist[v].files
      BY <1>1 DEF InstallInv, PhaseIsRight
    <3>. QED
      BY <1>2, <2>2, <3>1 DEF DistsAreRight
  <2>4. ASSUME NEW w \in Versions
        PROVE  /\ "record" \in dist'[w].files => "metadata" \in dist'[w].files
               /\ "metadata" \in dist'[w].files =>
                    /\ w = v /\ dist'[w].from \in Dependencies /\ dist'[w].from.version = w
                    /\ dist'[w].from.develop => pth' = D!PlaceOf(dist'[w].from)
               /\ "url" \in dist'[w].files => dist'[w].url \in D!Package /\ "unrecorded" \in leftover'
    <3>1. CASE w = v
      <4>1. dist'[w] = new /\ ("url" \in new.files => "url" \in old.files)
        BY <1>4, <1>5, <3>1
      <4>2. p.version = v /\ (p.develop => pth = D!PlaceOf(p))
        BY <1>2 DEF DistsAreRight
      <4>. QED
        BY <1>1, <1>2, <1>4, <1>7, <2>3, <3>1, <4>1, <4>2 DEF DistsAreRight
    <3>2. CASE w # v
      <4>1. dist'[w] = dist[w]
        BY <1>5, <3>2
      <4>. QED
        BY <1>1, <1>2, <1>7, <2>2, <2>3, <3>2, <4>1 DEF DistsAreRight
    <3>. QED
      BY <3>1, <3>2
  <2>5. dist'[v].from = p /\ (p.type # "index" => installing' = "url")
    BY <1>2, <1>4, <1>5, <1>7
  <2>. QED
    BY <1>6, <2>1, <2>4, <2>5 DEF DistsAreRight, D!PlaceOf
<1>11. PthIsOwned'
  BY <1>1, <1>2, <1>4, <1>5, <1>6, <1>7 DEF InstallInv, PthIsOwned
<1>12. CASE p.type = "index"
  <2>1. IsInstalled'
    BY <1>1, <1>4, <1>5, <1>6, <1>7, <1>12, <1>2 DEF IsInstalled
  <2>2. runs' = 2 => SrcIsRepaired'
    BY <1>1, <1>7, <1>12 DEF InstallInv, RunsAreRight, SrcIsRepaired, IsTorn, D!IsEditableGit
  <2>. QED
    BY <1>1, <1>7, <1>9, <1>10, <1>11, <1>12, <2>1, <2>2, EndIsRight
<1>13. CASE p.type # "index"
  <2>. PICK order : order = todo'
    OBVIOUS
  <2>1. order # << >> /\ \A i \in 1 .. Len(order) : order[i] \in D!Present
    <3>1. v \in D!Present
      BY <1>2 DEF D!Present, D!IsThere
    <3>. QED
      BY <1>8, <1>13, <3>1
  <2>2. PhaseIsRight'
    BY <1>1, <1>2, <1>4, <1>5, <1>6, <1>7, <1>8, <1>13, <2>1 DEF PhaseIsRight
  <2>3. RunsAreRight'
    BY <1>1, <1>7, <1>13 DEF InstallInv, RunsAreRight, SrcIsRepaired, IsTorn, D!IsEditableGit
  <2>. QED
    BY <1>9, <1>10, <1>11, <2>2, <2>3 DEF InstallInv
<1>. QED
  BY <1>12, <1>13

LEMMA WriteUrlIsRight == ASSUME InstallInv, D!WriteUrl PROVE InstallInv'
<1>. PICK p, v : p = dependency /\ v = dependency.version
  OBVIOUS
<1>1. /\ installing = "url" /\ installing' = "append" /\ runs \in 0 .. 1
      /\ UNCHANGED <<dependency, pth, src, system, initial, todo, runs, leftover>>
      /\ p.type # "index" /\ todo # << >> /\ todo \in Seq(Versions)
      /\ \A i \in 1 .. Len(todo) : todo[i] \in D!Present
      /\ \A w \in D!Present :
           \/ \E i \in 1 .. Len(todo) : todo[i] = w
           \/ "url" \in dist[w].files /\ dist[w].url = D!UrlReference(p)
  BY DEF D!WriteUrl, InstallInv, PhaseIsRight, InstallTypes
<1>2. /\ InstallTypes /\ DistsAreRight /\ p \in Dependencies /\ v \in Versions /\ v \in D!HasMetadata
      /\ dist[v].from = p /\ D!HasMetadata = {v} /\ {"metadata", "record"} \subseteq dist[v].files
  BY <1>1, FoundThere DEF InstallInv, InstallTypes, PhaseIsRight, D!HasMetadata
<1>. PICK h : h = Head(todo)
  OBVIOUS
<1>3. h \in D!Present /\ h \in Versions /\ h = todo[1]
  <2>1. Len(todo) \in Nat /\ Len(todo) >= 1
    BY <1>1
  <2>. QED
    BY <1>1, <2>1 DEF D!Present
<1>. PICK old, new, u :
       /\ u = D!UrlReference(p) /\ old = dist[h] /\ new = [dist[h] EXCEPT !.files = @ \cup {"url"}, !.url = u]
  OBVIOUS
<1>4. old \in Dist /\ u \in D!Package
  BY <1>2, <1>3, UrlReferences DEF InstallTypes
<1>5. /\ new \in Dist /\ new.files = old.files \cup {"url"} /\ new.from = old.from
      /\ new.url = u /\ new.isRecorded = old.isRecorded
  BY <1>4 DEF Dist
<1>6. /\ dist' = [dist EXCEPT ![h] = new] /\ dist' \in [Versions -> Dist]
      /\ \A w \in Versions : dist'[w] = IF w = h THEN new ELSE dist[w]
  <2>1. dist' = [dist EXCEPT ![h] = new]
    BY <1>2, <1>3 DEF D!WriteUrl, InstallTypes
  <2>. QED
    BY <1>2, <1>5, <2>1 DEF InstallTypes
<1>7. D!HasMetadata' = {v} /\ D!Present' = D!Present
  BY <1>2, <1>3, <1>5, <1>6 DEF D!HasMetadata, D!Present, D!IsThere
<1>8. InstallTypes'
  BY <1>1, <1>2, <1>6, <1>7 DEF InstallTypes
<1>9. \A w \in D!Present : w \in Versions /\ ("unrecorded" \notin leftover => w = v)
  <2>1. ASSUME NEW w \in D!Present, "unrecorded" \notin leftover PROVE w \in D!HasMetadata
    <3>1. w \in Versions /\ dist[w] \in Dist /\ dist[w].files # {}
      BY <1>2 DEF D!Present, D!IsThere, InstallTypes
    <3>2. "metadata" \in dist[w].files
      BY <1>2, <2>1, <3>1 DEF DistsAreRight, Dist
    <3>. QED
      BY <3>1, <3>2 DEF D!HasMetadata
  <2>. QED
    BY <1>2, <2>1 DEF D!Present
<1>10. DistsAreRight'
  <2>1. \A q : D!PlaceOf(q)' = D!PlaceOf(q) /\ D!UrlReference(q)' = D!UrlReference(q)
    BY DEF D!PlaceOf, D!UrlReference, D!Of
  <2>2. ASSUME NEW w \in Versions
        PROVE  /\ "record" \in dist'[w].files => "metadata" \in dist'[w].files
               /\ "metadata" \in dist'[w].files =>
                    /\ dist'[w].from \in Dependencies /\ dist'[w].from.version = w
                    /\ dist'[w].from.develop => pth' = D!PlaceOf(dist'[w].from)
               /\ "url" \in dist'[w].files => dist'[w].url \in D!Package
               /\ "unrecorded" \notin leftover' /\ "url" \in dist'[w].files =>
                    /\ "metadata" \in dist'[w].files /\ dist'[w].from.type # "index"
                    /\ dist'[w].url = D!UrlReference(dist'[w].from)
    <3>1. CASE w = h
      <4>1. dist'[w] = new
        BY <1>6, <3>1
      <4>2. /\ "record" \in new.files => "metadata" \in new.files
            /\ "metadata" \in new.files =>
                 /\ new.from \in Dependencies /\ new.from.version = w
                 /\ new.from.develop => pth = D!PlaceOf(new.from)
        BY <1>2, <1>3, <1>5, <3>1 DEF DistsAreRight
      <4>3. "unrecorded" \notin leftover => "metadata" \in new.files /\ new.from = p
        BY <1>2, <1>3, <1>5, <1>9, <3>1
      <4>. QED
        BY <1>1, <1>4, <1>5, <4>1, <4>2, <4>3
    <3>2. CASE w # h
      <4>1. dist'[w] = dist[w]
        BY <1>6, <3>2
      <4>. QED
        BY <1>1, <1>2, <4>1 DEF DistsAreRight
    <3>. QED
      BY <3>1, <3>2
  <2>. QED
    BY <1>1, <1>7, <2>1, <2>2 DEF DistsAreRight
<1>11. dist'[v].from = p /\ "record" \in dist'[v].files
  BY <1>2, <1>5, <1>6
<1>12. PthIsOwned'
  BY <1>1, <1>2, <1>7, <1>11 DEF InstallInv, PthIsOwned
<1>13. PhaseIsRight'
  <2>1. \A w \in D!Present :
          \/ \E i \in 1 .. Len(todo) : todo[i] = w
          \/ "url" \in dist'[w].files /\ dist'[w].url = u
    BY <1>1, <1>5, <1>6, <1>9
  <2>2. "url" \in dist'[h].files /\ dist'[h].url = u
    BY <1>3, <1>5, <1>6
  <2>3. D!UrlReference(dependency)' = u
    BY <1>1, UrlKept
  <2>. QED
    BY <1>1, <1>3, <1>7, <1>11, <2>1, <2>2, <2>3 DEF PhaseIsRight
<1>14. RunsAreRight'
  BY <1>1 DEF InstallInv, RunsAreRight, SrcIsRepaired, IsTorn, D!IsEditableGit
<1>. QED
  BY <1>8, <1>10, <1>12, <1>13, <1>14 DEF InstallInv

LEMMA RemovableIsBoolean ==
  \A v : D!Removable(v) \in BOOLEAN /\ (D!Removable(v) <=> "record" \in dist[v].files)
BY DEF D!Removable

LEMMA AppendUrlIsRight == ASSUME InstallInv, D!AppendUrl PROVE InstallInv'
<1>. PICK p, v : p = dependency /\ v = dependency.version
  OBVIOUS
<1>1. /\ installing = "append" /\ runs \in 0 .. 1 /\ UNCHANGED <<dependency, pth, src, system>>
      /\ p.type # "index" /\ todo # << >> /\ todo \in Seq(Versions)
      /\ \A i \in 1 .. Len(todo) : todo[i] \in D!Present
      /\ \A w \in D!Present :
           \/ \E i \in 1 .. Len(todo) : todo[i] = w
           \/ "url" \in dist[w].files /\ dist[w].url = D!UrlReference(p)
      /\ "url" \in dist[todo[1]].files /\ dist[todo[1]].url = D!UrlReference(p)
  BY DEF D!AppendUrl, InstallInv, PhaseIsRight, InstallTypes
<1>2. /\ InstallTypes /\ DistsAreRight /\ p \in Dependencies /\ v \in Versions /\ v \in D!HasMetadata
      /\ dist[v].from = p /\ D!HasMetadata = {v} /\ {"metadata", "record"} \subseteq dist[v].files
  BY <1>1, FoundThere DEF InstallInv, InstallTypes, PhaseIsRight, D!HasMetadata
<1>. PICK h, rest : h = Head(todo) /\ rest = Tail(todo)
  OBVIOUS
<1>3. /\ h \in D!Present /\ h \in Versions /\ h = todo[1] /\ rest \in Seq(Versions)
      /\ \A i \in 1 .. Len(rest) : rest[i] \in D!Present
      /\ \A w : (\E i \in 1 .. Len(todo) : todo[i] = w) => w = h \/ \E i \in 1 .. Len(rest) : rest[i] = w
  <2>1. Len(todo) \in Nat /\ Len(todo) >= 1 /\ h = todo[1] /\ rest \in Seq(Versions)
    BY <1>1
  <2>2. Len(rest) = Len(todo) - 1 /\ \A i \in 1 .. Len(rest) : rest[i] = todo[i + 1]
    BY <1>1, <2>1
  <2>3. ASSUME NEW i \in 1 .. Len(todo) PROVE todo[i] = h \/ \E j \in 1 .. Len(rest) : rest[j] = todo[i]
    <3>1. CASE i = 1
      BY <2>1, <3>1
    <3>2. CASE i # 1
      <4>1. i - 1 \in 1 .. Len(rest) /\ i - 1 + 1 = i
        BY <2>1, <2>2, <3>2
      <4>. QED
        BY <2>2, <4>1
    <3>. QED
      BY <3>1, <3>2
  <2>4. \A i \in 1 .. Len(rest) : rest[i] \in D!Present
    BY <1>1, <2>1, <2>2
  <2>5. h \in D!Present
    BY <1>1, <2>1
  <2>. QED
    BY <2>1, <2>3, <2>4, <2>5 DEF D!Present
<1>. PICK old : old = dist[h]
  OBVIOUS
<1>. PICK removable \in BOOLEAN : removable = D!Removable(h) /\ (removable <=> "record" \in old.files)
  BY RemovableIsBoolean
<1>4. old \in Dist
  BY <1>2, <1>3 DEF InstallTypes
<1>. PICK new : new = [old EXCEPT !.isRecorded = removable]
  OBVIOUS
<1>5. /\ new \in Dist /\ new.files = old.files /\ new.from = old.from /\ new.url = old.url
      /\ new.isRecorded <=> "record" \in old.files
  BY <1>4 DEF Dist
<1>6. /\ dist' = [dist EXCEPT ![h] = new] /\ dist' \in [Versions -> Dist]
      /\ \A w \in Versions : dist'[w] = IF w = h THEN new ELSE dist[w]
  <2>1. dist' = [dist EXCEPT ![h] = new]
    BY <1>2, <1>3 DEF D!AppendUrl, InstallTypes
  <2>. QED
    BY <1>2, <1>5, <2>1 DEF InstallTypes
<1>7. D!HasMetadata' = {v} /\ D!Present' = D!Present
  BY <1>2, <1>3, <1>5, <1>6 DEF D!HasMetadata, D!Present, D!IsThere
<1>8. /\ todo' = rest /\ installing' \in {"idle", "url"} /\ (installing' = "idle" <=> rest = << >>)
      /\ rest = << >> => runs' = runs + 1 /\ initial' = None /\ leftover' = leftover \ {"unmarked"}
      /\ rest # << >> => UNCHANGED <<initial, runs, leftover>>
  BY DEF D!AppendUrl, D!Ends
<1>9. InstallTypes'
  <2>1. initial' = None \/ initial' = initial
    BY <1>8
  <2>2. initial' \in D!Package \cup {None}
    BY <1>2, <2>1 DEF InstallTypes
  <2>3. runs' \in 0 .. 2 /\ installing' \in {"idle", "url"} /\ todo' \in Seq(Versions) /\ IsFiniteSet(D!Present')
    BY <1>1, <1>2, <1>3, <1>7, <1>8 DEF InstallTypes
  <2>. QED
    BY <1>1, <1>2, <1>6, <2>2, <2>3 DEF InstallTypes
<1>10. \A w \in D!Present : w \in Versions /\ ("unrecorded" \notin leftover => w = v)
  <2>1. ASSUME NEW w \in D!Present, "unrecorded" \notin leftover PROVE w \in D!HasMetadata
    <3>1. w \in Versions /\ dist[w] \in Dist /\ dist[w].files # {}
      BY <1>2 DEF D!Present, D!IsThere, InstallTypes
    <3>2. "metadata" \in dist[w].files
      BY <1>2, <2>1, <3>1 DEF DistsAreRight, Dist
    <3>. QED
      BY <3>1, <3>2 DEF D!HasMetadata
  <2>. QED
    BY <1>2, <2>1 DEF D!Present
<1>11. \A w \in D!Present :
         \/ \E i \in 1 .. Len(rest) : rest[i] = w
         \/ "url" \in dist'[w].files /\ dist'[w].url = D!UrlReference(p)
  BY <1>1, <1>3, <1>5, <1>6, <1>10
<1>12. dist'[v].from = p /\ {"metadata", "record"} \subseteq dist'[v].files
  BY <1>2, <1>5, <1>6
<1>13. v \in D!Present
  BY <1>2 DEF D!Present, D!IsThere
<1>14. DistsAreRight'
  <2>1. \A q : D!PlaceOf(q)' = D!PlaceOf(q) /\ D!UrlReference(q)' = D!UrlReference(q)
    BY DEF D!PlaceOf, D!UrlReference, D!Of
  <2>2. ASSUME NEW w \in Versions
        PROVE  /\ "record" \in dist'[w].files => "metadata" \in dist'[w].files
               /\ "metadata" \in dist'[w].files =>
                    /\ dist'[w].from \in Dependencies /\ dist'[w].from.version = w
                    /\ dist'[w].from.develop => pth' = D!PlaceOf(dist'[w].from)
               /\ "url" \in dist'[w].files => dist'[w].url \in D!Package
               /\ "unrecorded" \notin leftover' /\ "url" \in dist'[w].files =>
                    /\ "metadata" \in dist'[w].files /\ dist'[w].from.type # "index"
                    /\ dist'[w].url = D!UrlReference(dist'[w].from)
    <3>1. dist'[w].files = dist[w].files /\ dist'[w].from = dist[w].from /\ dist'[w].url = dist[w].url
      BY <1>5, <1>6
    <3>2. "unrecorded" \in leftover' <=> "unrecorded" \in leftover
      BY <1>8
    <3>. QED
      BY <1>1, <1>2, <3>1, <3>2 DEF DistsAreRight
  <2>3. ASSUME NEW w \in Versions, "unrecorded" \notin leftover', "url" \in dist'[w].files PROVE dist'[w].isRecorded
    <3>1. "unrecorded" \notin leftover /\ w \in D!Present'
      BY <1>8, <2>3 DEF D!Present, D!IsThere
    <3>2. w = v /\ h = v
      BY <1>3, <1>7, <1>10, <3>1
    <3>. QED
      BY <1>2, <1>5, <1>6, <3>2
  <2>4. \A w \in Versions : "metadata" \in dist'[w].files => w = v
    BY <1>7 DEF D!HasMetadata
  <2>5. rest = << >> => "url" \in dist'[v].files
    BY <1>11, <1>13
  <2>. QED
    BY <1>7, <1>8, <2>1, <2>2, <2>3, <2>4, <2>5 DEF DistsAreRight
<1>15. PthIsOwned'
  BY <1>1, <1>2, <1>7, <1>8, <1>12 DEF InstallInv, PthIsOwned
<1>16. CASE rest = << >>
  <2>1. "url" \in dist'[v].files /\ dist'[v].url = D!UrlReference(p)
    BY <1>11, <1>13, <1>16
  <2>2. IsInstalled'
    BY <1>1, <1>7, <1>8, <1>12, <1>16, <2>1, UrlKept DEF IsInstalled
  <2>3. runs' = 2 => SrcIsRepaired'
    BY <1>1, <1>8, <1>16 DEF InstallInv, RunsAreRight, SrcIsRepaired, IsTorn, D!IsEditableGit
  <2>. QED
    BY <1>1, <1>8, <1>9, <1>14, <1>15, <1>16, <2>2, <2>3, EndIsRight
<1>17. CASE rest # << >>
  <2>1. D!UrlReference(dependency)' = D!UrlReference(p)
    BY <1>1, UrlKept
  <2>2. PhaseIsRight'
    BY <1>1, <1>3, <1>7, <1>8, <1>11, <1>12, <1>17, <2>1 DEF PhaseIsRight
  <2>3. RunsAreRight'
    BY <1>1, <1>8, <1>17 DEF InstallInv, RunsAreRight, SrcIsRepaired, IsTorn, D!IsEditableGit
  <2>. QED
    BY <1>9, <1>14, <1>15, <2>2, <2>3 DEF InstallInv
<1>. QED
  BY <1>16, <1>17

LEMMA InstallStarts == D!Init => InstallInv
<1>. SUFFICES ASSUME D!Init PROVE InstallInv
  OBVIOUS
<1>1. /\ dependency \in Dependencies /\ system \in SystemVersions /\ dist = [v \in Versions |-> D!NoDist]
      /\ pth = "none" /\ src = "none" /\ installing = "idle" /\ initial = None /\ todo = << >> /\ runs = 0
      /\ D!NoDist \in Dist /\ D!NoDist.files = {}
  BY DEF D!Init, D!NoDist, Dist
<1>2. \A v \in Versions : dist[v].files = {}
  BY <1>1
<1>3. D!HasMetadata = {} /\ D!Present = {}
  BY <1>2 DEF D!HasMetadata, D!Present, D!IsThere
<1>4. << >> \in Seq(Versions) /\ IsFiniteSet(D!Present)
  BY <1>3, FS_EmptySet
<1>5. InstallTypes
  BY <1>1, <1>4 DEF InstallTypes
<1>6. DistsAreRight
  BY <1>2, <1>3 DEF DistsAreRight
<1>. QED
  BY <1>1, <1>3, <1>5, <1>6 DEF InstallInv, PthIsOwned, PhaseIsRight, RunsAreRight

LEMMA InstallSteps == InstallInv /\ [D!Next]_dependencyvars => InstallInv'
<1>. SUFFICES ASSUME InstallInv, [D!Next]_dependencyvars PROVE InstallInv'
  OBVIOUS
<1>1. CASE UNCHANGED dependencyvars
  <2>1. UNCHANGED <<dependency, dist, pth, src, system, installing, initial, todo, runs, leftover>>
    BY <1>1 DEF dependencyvars
  <2>2. InstallTypes' /\ DistsAreRight' /\ PthIsOwned'
    BY <2>1, InstallKept, DistsKept DEF InstallInv, InstallTypes, PthIsOwned
  <2>3. PhaseIsRight'
    BY <2>1, InstallKept, UrlKept DEF InstallInv, PhaseIsRight, D!PlaceOf
  <2>4. IsInstalled' = IsInstalled
    BY <2>1, InstallKept, UrlKept DEF IsInstalled
  <2>5. RunsAreRight'
    BY <2>1, <2>4, SyncKept DEF InstallInv, RunsAreRight, SrcIsRepaired, IsTorn, D!IsEditableGit
  <2>. QED
    BY <2>2, <2>3, <2>5 DEF InstallInv
<1>2. CASE D!Next
  BY <1>2, SkipIsRight, BeginIsRight, PrepareIsRight, PrepareFailsIsRight, CleanIsRight, PipUninstallIsRight,
     UnpackIsRight, DescribeIsRight, RecordIsRight, WriteUrlIsRight, AppendUrlIsRight, InstallCrashIsRight,
     RelockIsRight DEF D!Next
<1>. QED
  BY <1>1, <1>2
-----------------------------------------------------------------------------
(* EditableInstall *)

ScriptNames == UNION {{q.name : q \in E!ToSet(p.scripts)} : p \in Layouts}
BuildFile == [dir : E!Dirs, name : ScriptNames \cup {"pth"}]
BuildDist == [has : SUBSET {"directory", "metadata", "direct_url", "record"}, files : SUBSET BuildFile]

BuildTypes ==
  /\ layout \in Layouts /\ writable \subseteq E!Dirs
  /\ layoutPth \in [E!ToSet(Sites) -> {None} \cup {p.layout : p \in Layouts}]
  /\ layoutDist \in [E!Spot -> BuildDist] /\ scripts \in [E!ToSet(ScriptDirs) -> SUBSET ScriptNames]
  /\ building \in {"idle", "remove", "rmdir", "pth", "scripts", "metadata", "url", "record"}
  /\ added \subseteq BuildFile /\ left \in Seq(E!ToSet(layout.scripts)) /\ cut \in BOOLEAN

(* A site has one distribution, and the .pth files of its RECORD are its.   *)
SitesAreRight ==
  \A d \in E!Spot :
    /\ E!Exists(d) => \A e \in E!Spot : E!Exists(e) /\ e[1] = d[1] => e = d
    /\ \A f \in layoutDist[d].files : f.name = "pth" /\ f.dir \in E!ToSet(Sites) => f.dir = d[1]
    /\ ~ cut /\ "metadata" \in layoutDist[d].has /\ ~ (building = "rmdir" /\ d = E!FirstDoomed) =>
         layoutPth[d[1]] # None

BuildFilesHaveOwners == \A f \in E!OnDisk : f \in lost \/ f \in added \/ \E d \in E!Spot : f \in E!Listed(d)

PthSite == E!FirstOf(Sites, writable)
ScriptDir == E!FirstOf(ScriptDirs, writable)

PthIsWritten ==
  /\ \A s \in E!ToSet(Sites) \cap writable : layoutPth[s] # None <=> s = PthSite
  /\ layoutPth[PthSite] = layout.layout
  /\ \A f \in added : f.name = "pth" /\ f.dir \in E!ToSet(Sites) => f.dir = PthSite

ScriptsAreWritten ==
  /\ left # << >> => E!CanWrite(ScriptDirs)
  /\ E!CanWrite(ScriptDirs) =>
       \A q \in E!ToSet(layout.scripts) : q.name \in scripts[ScriptDir] \/ q \in E!ToSet(left)

(* What the build has done so far.                                         *)
BuildIsOnItsWay ==
  /\ building \in {"idle", "remove", "rmdir", "pth"} => added = {} /\ left = << >>
  /\ building = "rmdir" => E!Doomed # {} /\ E!Listed(E!FirstDoomed) = {}
  /\ building \in {"pth", "scripts"} => E!Doomed = {}
  /\ building \in {"pth", "scripts", "metadata", "url", "record"} => layout.layout # None /\ E!CanWrite(Sites)
  /\ building = "pth" => \A s \in E!ToSet(Sites) \cap writable : layoutPth[s] = None
  /\ building \in {"scripts", "metadata", "url", "record"} => PthIsWritten /\ ScriptsAreWritten
  /\ building \in {"metadata", "url", "record"} =>
       left = << >> /\ E!Doomed = {<<PthSite, layout.version>>}
  /\ building \in {"metadata", "url", "record"} =>
       LET has == layoutDist[<<PthSite, layout.version>>].has IN
       /\ "directory" \in has /\ "record" \notin has
       /\ building # "metadata" => "metadata" \in has
       /\ building = "record" => "direct_url" \in has

BuildInv ==
  BuildTypes /\ SitesAreRight /\ BuildFilesHaveOwners /\ BuildIsOnItsWay /\ E!DoneIsInstalled

(* A set of numbers has a least one.                                       *)
LEMMA LeastIsThere ==
  ASSUME NEW T \in SUBSET Nat, T # {}
  PROVE  \E x \in T : \A y \in T : x <= y
<1>. DEFINE R == OpToRel(<, Nat)
<1>1. IsWellFoundedOn(R, Nat)
  BY NatLessThanWellFounded
<1>2. \A x, y \in Nat : <<y, x>> \in R <=> y < x
  BY DEF OpToRel
<1>. HIDE DEF R
<1>3. PICK x \in T : \A y \in T : ~ (<<y, x>> \in R)
  BY <1>1, WFMin
<1>4. ASSUME NEW y \in T PROVE x <= y
  <2>1. x \in Nat /\ y \in Nat /\ ~ (y < x)
    BY <1>2, <1>3
  <2>. QED
    BY <2>1
<1>. QED
  BY <1>4

LEMMA MinIsThere == ASSUME NEW T \in SUBSET Nat, T # {} PROVE E!Min(T) \in T
BY LeastIsThere DEF E!Min

(* The first of the directories that is one of these.                      *)
LEMMA FirstIsOne ==
  ASSUME NEW X, NEW dirs \in Seq(X), NEW these, E!ToSet(dirs) \cap these # {}
  PROVE  E!FirstOf(dirs, these) \in E!ToSet(dirs) /\ E!FirstOf(dirs, these) \in these
<1>. DEFINE places == {i \in DOMAIN dirs : dirs[i] \in these}
<1>1. places \in SUBSET Nat /\ places # {}
  BY DEF E!ToSet
<1>2. E!Min(places) \in places
  BY <1>1, MinIsThere
<1>. QED
  BY <1>2 DEF E!FirstOf, E!ToSet

LEMMA FirstIsTheSame ==
  ASSUME NEW dirs, NEW these, NEW those, \A d \in E!ToSet(dirs) : d \in these <=> d \in those
  PROVE  E!FirstOf(dirs, these) = E!FirstOf(dirs, those)
<1>1. {i \in DOMAIN dirs : dirs[i] \in these} = {i \in DOMAIN dirs : dirs[i] \in those}
  BY DEF E!ToSet
<1>. QED
  BY <1>1 DEF E!FirstOf

LEMMA BuildKinds ==
  /\ Sites \in Seq(E!ToSet(Sites)) /\ ScriptDirs \in Seq(E!ToSet(ScriptDirs)) /\ Versions \subseteq Nat
  /\ E!ToSet(Sites) \cap E!ToSet(ScriptDirs) = {}
  /\ \A path \in SysPaths : path \in Seq(E!ToSet(Sites)) /\ E!ToSet(path) = E!ToSet(Sites)
  /\ \A p \in Layouts : p.version \in Versions /\ p.scripts \in Seq(E!ToSet(p.scripts))
  /\ \A perms \in Permissions : perms \subseteq E!Dirs
BY OneOfEditableInstall DEF E!EditableInstallAssumption

LEMMA SpotParts ==
  /\ \A d \in E!Spot : d[1] \in E!ToSet(Sites) /\ d[2] \in Versions /\ d = <<d[1], d[2]>>
  /\ \A s \in E!ToSet(Sites), v \in Versions :
       <<s, v>> \in E!Spot /\ <<s, v>>[1] = s /\ <<s, v>>[2] = v
BY DEF E!Spot

LEMMA PthSiteIsWritable == ASSUME E!CanWrite(Sites) PROVE PthSite \in E!ToSet(Sites) /\ PthSite \in writable
BY BuildKinds, FirstIsOne DEF E!CanWrite, PthSite

LEMMA ScriptDirIsWritable ==
  ASSUME E!CanWrite(ScriptDirs) PROVE ScriptDir \in E!ToSet(ScriptDirs) /\ ScriptDir \in writable
BY BuildKinds, FirstIsOne DEF E!CanWrite, ScriptDir

LEMMA FirstDoomedIsDoomed ==
  ASSUME E!Doomed # {}
  PROVE  /\ E!FirstDoomed \in E!Doomed /\ E!FirstDoomed \in E!Spot /\ E!Exists(E!FirstDoomed)
         /\ E!FirstDoomed[1] \in writable
<1>. DEFINE theirs == {e[1] : e \in E!Doomed}
<1>1. \A e \in E!Doomed : e \in E!Spot /\ E!Exists(e) /\ e[1] \in writable
  BY DEF E!Doomed
<1>2. E!ToSet(Sites) \cap theirs # {}
  BY <1>1, SpotParts
<1>3. E!FirstOf(Sites, theirs) \in theirs
  BY <1>2, BuildKinds, FirstIsOne
<1>4. \E d \in E!Doomed : d[1] = E!FirstOf(Sites, theirs)
  BY <1>3
<1>. HIDE DEF theirs
<1>5. E!FirstDoomed = CHOOSE d \in E!Doomed : d[1] = E!FirstOf(Sites, theirs)
  BY DEF E!FirstDoomed, theirs
<1>6. E!FirstDoomed \in E!Doomed
  BY <1>4, <1>5
<1>. QED
  BY <1>1, <1>6

(* What the operators say stays, where what they are about stays.          *)
LEMMA PlacesKept ==
  ASSUME UNCHANGED writable
  PROVE  /\ PthSite' = PthSite /\ ScriptDir' = ScriptDir
         /\ E!CanWrite(Sites)' = E!CanWrite(Sites) /\ E!CanWrite(ScriptDirs)' = E!CanWrite(ScriptDirs)
BY DEF PthSite, ScriptDir, E!CanWrite, E!FirstOf

LEMMA DoomedKept ==
  ASSUME UNCHANGED <<layoutDist, writable>>
  PROVE  E!Doomed' = E!Doomed /\ E!FirstDoomed' = E!FirstDoomed
BY DEF E!Doomed, E!FirstDoomed, E!Exists

LEMMA DiskKept == ASSUME UNCHANGED <<layoutPth, scripts>> PROVE E!OnDisk' = E!OnDisk
BY DEF E!OnDisk, E!PthFiles, E!ScriptFiles

LEMMA OnDiskIs ==
  ASSUME BuildTypes
  PROVE  \A f : f \in E!OnDisk <=>
           \/ \E s \in E!ToSet(Sites) : layoutPth[s] # None /\ f = E!File(s, "pth")
           \/ \E s \in E!ToSet(ScriptDirs) : \E n \in scripts[s] : f = E!File(s, n)
<1>1. DOMAIN layoutPth = E!ToSet(Sites) /\ DOMAIN scripts = E!ToSet(ScriptDirs)
  BY DEF BuildTypes
<1>. QED
  BY <1>1 DEF E!OnDisk, E!PthFiles, E!ScriptFiles

(* Files are removed, and nothing else goes or comes.                      *)
LEMMA WithoutThem ==
  ASSUME BuildTypes, NEW gone, E!Without(gone)
  PROVE  /\ E!OnDisk' \subseteq E!OnDisk /\ E!OnDisk' \cap gone = {}
         /\ layoutPth' \in [E!ToSet(Sites) -> {None} \cup {p.layout : p \in Layouts}]
         /\ scripts' \in [E!ToSet(ScriptDirs) -> SUBSET ScriptNames]
         /\ \A s \in E!ToSet(Sites) : E!File(s, "pth") \notin gone => layoutPth'[s] = layoutPth[s]
<1>1. /\ DOMAIN layoutPth = E!ToSet(Sites) /\ DOMAIN scripts = E!ToSet(ScriptDirs)
      /\ \A s \in E!ToSet(Sites) : layoutPth[s] \in {None} \cup {p.layout : p \in Layouts}
      /\ \A s \in E!ToSet(ScriptDirs) : scripts[s] \subseteq ScriptNames
  BY DEF BuildTypes
<1>2. /\ layoutPth' = [s \in E!ToSet(Sites) |-> IF E!File(s, "pth") \in gone THEN None ELSE layoutPth[s]]
      /\ scripts' = [s \in E!ToSet(ScriptDirs) |-> {n \in scripts[s] : E!File(s, n) \notin gone}]
  BY <1>1 DEF E!Without
<1>3. /\ DOMAIN layoutPth' = E!ToSet(Sites) /\ DOMAIN scripts' = E!ToSet(ScriptDirs)
      /\ \A s \in E!ToSet(Sites) :
           layoutPth'[s] = IF E!File(s, "pth") \in gone THEN None ELSE layoutPth[s]
      /\ \A s \in E!ToSet(ScriptDirs) : \A n : n \in scripts'[s] <=> n \in scripts[s] /\ E!File(s, n) \notin gone
  BY <1>2
<1>4. E!PthFiles' \subseteq E!PthFiles /\ E!PthFiles' \cap gone = {}
  BY <1>1, <1>3 DEF E!PthFiles, E!File
<1>5. E!ScriptFiles' \subseteq E!ScriptFiles /\ E!ScriptFiles' \cap gone = {}
  BY <1>1, <1>3 DEF E!ScriptFiles, E!File
<1>. QED
  BY <1>1, <1>2, <1>3, <1>4, <1>5 DEF E!OnDisk

LEMMA ListedKept ==
  ASSUME NEW d, "record" \in layoutDist[d].has =>
           "record" \in layoutDist'[d].has /\ layoutDist'[d].files = layoutDist[d].files
  PROVE  E!Listed(d) \cap E!OnDisk' \subseteq E!Listed(d)'
BY DEF E!Listed

LEMMA OwnersAreKept ==
  ASSUME BuildFilesHaveOwners, E!OnDisk' \subseteq E!OnDisk \cup added',
         \A f \in E!OnDisk' : f \in lost \cup added =>
            f \in lost' \cup added' \/ \E d \in E!Spot : f \in E!Listed(d)',
         \A d \in E!Spot : E!Listed(d) \cap E!OnDisk' \subseteq E!Listed(d)'
  PROVE  BuildFilesHaveOwners'
BY DEF BuildFilesHaveOwners

LEMMA MineIsIt ==
  ASSUME NEW d \in E!Spot, E!Doomed = {d}, d[2] = layout.version
  PROVE  E!Mine = d
<1>1. \A e \in E!Spot : E!Exists(e) /\ e[1] \in writable <=> e = d
  BY DEF E!Doomed
<1>. QED
  BY <1>1 DEF E!Mine

LEMMA SitesKept ==
  ASSUME SitesAreRight, UNCHANGED layoutDist,
         \A d \in E!Spot :
           ~ cut' /\ "metadata" \in layoutDist[d].has /\ ~ (building' = "rmdir" /\ d = E!FirstDoomed') =>
             layoutPth'[d[1]] # None
  PROVE  SitesAreRight'
BY DEF SitesAreRight, E!Exists

LEMMA EmptyIsDone == << >> \in Seq(E!ToSet(layout.scripts)) /\ << >> \in Seq(E!ToSet(layout'.scripts))
OBVIOUS

(* A build that ends early leaves what was there, or some of it.            *)
LEMMA AbortIsRight ==
  ASSUME BuildInv, NEW how, E!Aborts(how), how # "done", UNCHANGED <<layout, writable, layoutDist>>,
         cut' \in BOOLEAN, layoutPth' \in [E!ToSet(Sites) -> {None} \cup {p.layout : p \in Layouts}],
         scripts' \in [E!ToSet(ScriptDirs) -> SUBSET ScriptNames], E!OnDisk' \subseteq E!OnDisk,
         \A d \in E!Spot : ~ cut' /\ "metadata" \in layoutDist[d].has => layoutPth'[d[1]] # None
  PROVE  BuildInv'
<1>1. building' = "idle" /\ last' = how /\ lost' = lost \cup added /\ added' = {} /\ left' = << >>
  BY DEF E!Aborts
<1>2. BuildTypes'
  BY <1>1, EmptyIsDone DEF BuildInv, BuildTypes
<1>3. SitesAreRight'
  BY SitesKept DEF BuildInv
<1>4. BuildFilesHaveOwners'
  BY <1>1, ListedKept, OwnersAreKept DEF BuildInv
<1>5. BuildIsOnItsWay'
  BY <1>1 DEF BuildIsOnItsWay
<1>6. E!DoneIsInstalled'
  BY <1>1 DEF E!DoneIsInstalled
<1>. QED
  BY <1>2, <1>3, <1>4, <1>5, <1>6 DEF BuildInv

LEMMA StartIsRight == ASSUME BuildInv, E!Start PROVE BuildInv'
<1>1. /\ building = "idle" /\ building' = "remove"
      /\ UNCHANGED <<layout, writable, layoutPth, layoutDist, scripts, added, left, last, lost, cut>>
  BY DEF E!Start
<1>2. BuildTypes'
  BY <1>1 DEF BuildInv, BuildTypes
<1>3. SitesAreRight'
  BY <1>1, SitesKept DEF BuildInv, SitesAreRight
<1>4. BuildFilesHaveOwners'
  BY <1>1, DiskKept, ListedKept, OwnersAreKept DEF BuildInv
<1>5. BuildIsOnItsWay' /\ E!DoneIsInstalled'
  BY <1>1 DEF BuildInv, BuildIsOnItsWay, E!DoneIsInstalled
<1>. QED
  BY <1>2, <1>3, <1>4, <1>5 DEF BuildInv

LEMMA BuildScriptFailsIsRight == ASSUME BuildInv, E!BuildScriptFails PROVE BuildInv'
<1>1. /\ building = "idle" /\ building' = "idle" /\ last' = "failed"
      /\ UNCHANGED <<layout, writable, layoutPth, layoutDist, scripts, added, left, lost, cut>>
  BY DEF E!BuildScriptFails
<1>2. BuildTypes'
  BY <1>1 DEF BuildInv, BuildTypes
<1>3. SitesAreRight'
  BY <1>1, SitesKept DEF BuildInv, SitesAreRight
<1>4. BuildFilesHaveOwners'
  BY <1>1, DiskKept, ListedKept, OwnersAreKept DEF BuildInv
<1>5. BuildIsOnItsWay' /\ E!DoneIsInstalled'
  BY <1>1 DEF BuildInv, BuildIsOnItsWay, E!DoneIsInstalled
<1>. QED
  BY <1>2, <1>3, <1>4, <1>5 DEF BuildInv

LEMMA AgainIsRight == ASSUME BuildInv, E!Again PROVE BuildInv'
<1>1. /\ building = "idle" /\ last' = "none" /\ layout' \in Layouts /\ writable' \in Permissions
      /\ UNCHANGED <<layoutPth, layoutDist, scripts, building, added, left, lost, cut>>
  BY DEF E!Again
<1>2. left = << >> /\ writable' \subseteq E!Dirs
  BY <1>1, BuildKinds DEF BuildInv, BuildIsOnItsWay
<1>3. BuildTypes'
  BY <1>1, <1>2, EmptyIsDone DEF BuildInv, BuildTypes
<1>4. SitesAreRight'
  BY <1>1, SitesKept DEF BuildInv, SitesAreRight
<1>5. BuildFilesHaveOwners'
  BY <1>1, DiskKept, ListedKept, OwnersAreKept DEF BuildInv
<1>6. BuildIsOnItsWay' /\ E!DoneIsInstalled'
  BY <1>1 DEF BuildInv, BuildIsOnItsWay, E!DoneIsInstalled
<1>. QED
  BY <1>3, <1>4, <1>5, <1>6 DEF BuildInv

LEMMA BuildCrashIsRight == ASSUME BuildInv, E!Crash PROVE BuildInv'
<1>1. /\ E!Aborts("crashed") /\ cut' = (cut \/ building = "rmdir")
      /\ UNCHANGED <<layout, writable, layoutPth, layoutDist, scripts>>
  BY DEF E!Crash
<1>2. cut' \in BOOLEAN /\ (~ cut' => ~ cut /\ building # "rmdir")
  BY <1>1 DEF BuildInv, BuildTypes
<1>3. \A d \in E!Spot : ~ cut' /\ "metadata" \in layoutDist[d].has => layoutPth'[d[1]] # None
  BY <1>1, <1>2 DEF BuildInv, SitesAreRight
<1>4. E!OnDisk' \subseteq E!OnDisk /\ BuildTypes
  BY <1>1, DiskKept DEF BuildInv
<1>. QED
  BY <1>1, <1>2, <1>3, <1>4, AbortIsRight DEF BuildTypes

LEMMA AddPthFailsIsRight == ASSUME BuildInv, E!AddPthFails PROVE BuildInv'
<1>1. /\ E!Aborts("failed") /\ building = "remove"
      /\ UNCHANGED <<layout, writable, layoutPth, layoutDist, scripts, cut>>
  BY DEF E!AddPthFails
<1>2. \A d \in E!Spot : ~ cut' /\ "metadata" \in layoutDist[d].has => layoutPth'[d[1]] # None
  BY <1>1 DEF BuildInv, SitesAreRight
<1>3. E!OnDisk' \subseteq E!OnDisk /\ BuildTypes
  BY <1>1, DiskKept DEF BuildInv
<1>. QED
  BY <1>1, <1>2, <1>3, AbortIsRight DEF BuildTypes

LEMMA BadScriptIsRight == ASSUME BuildInv, E!BadScript PROVE BuildInv'
<1>1. /\ E!Aborts("failed") /\ building = "scripts"
      /\ UNCHANGED <<layout, writable, layoutPth, layoutDist, scripts, cut>>
  BY DEF E!BadScript
<1>2. \A d \in E!Spot : ~ cut' /\ "metadata" \in layoutDist[d].has => layoutPth'[d[1]] # None
  BY <1>1 DEF BuildInv, SitesAreRight
<1>3. E!OnDisk' \subseteq E!OnDisk /\ BuildTypes
  BY <1>1, DiskKept DEF BuildInv
<1>. QED
  BY <1>1, <1>2, <1>3, AbortIsRight DEF BuildTypes

LEMMA RemoveStopsIsRight == ASSUME BuildInv, E!RemoveStops PROVE BuildInv'
<1>1. PICK gone : E!Without(gone)
  BY DEF E!RemoveStops
<1>2. PICK how \in {"crashed", "failed"} : E!Aborts(how)
  BY DEF E!RemoveStops
<1>3. cut' = TRUE /\ UNCHANGED <<layout, writable, layoutDist>>
  BY DEF E!RemoveStops
<1>4. BuildTypes
  BY DEF BuildInv
<1>. QED
  BY <1>1, <1>2, <1>3, <1>4, WithoutThem, AbortIsRight

LEMMA RemoveFilesIsRight == ASSUME BuildInv, E!RemoveFiles PROVE BuildInv'
<1>1. /\ building = "remove" /\ building' = "rmdir" /\ E!Doomed # {} /\ E!Without(E!Listed(E!FirstDoomed))
      /\ UNCHANGED <<layout, writable, layoutDist, added, left, last, lost, cut>>
  BY DEF E!RemoveFiles
<1>. PICK first : first = E!FirstDoomed
  OBVIOUS
<1>2. first \in E!Spot /\ E!Exists(first) /\ E!Doomed' # {} /\ E!FirstDoomed' = first
  BY <1>1, DoomedKept, FirstDoomedIsDoomed
<1>3. /\ E!OnDisk' \subseteq E!OnDisk /\ E!OnDisk' \cap E!Listed(first) = {}
      /\ layoutPth' \in [E!ToSet(Sites) -> {None} \cup {p.layout : p \in Layouts}]
      /\ scripts' \in [E!ToSet(ScriptDirs) -> SUBSET ScriptNames]
      /\ \A s \in E!ToSet(Sites) : E!File(s, "pth") \notin E!Listed(first) => layoutPth'[s] = layoutPth[s]
  BY <1>1, WithoutThem DEF BuildInv
<1>4. BuildTypes'
  BY <1>1, <1>3 DEF BuildInv, BuildTypes
<1>5. SitesAreRight'
  <2>. SUFFICES ASSUME NEW d \in E!Spot, ~ cut, "metadata" \in layoutDist[d].has, d # first
                PROVE  layoutPth'[d[1]] # None
    BY <1>1, <1>2, SitesKept DEF BuildInv
  <2>1. d[1] # first[1]
    BY <1>2 DEF BuildInv, SitesAreRight, E!Exists
  <2>2. E!File(d[1], "pth") \notin E!Listed(first)
    BY <1>2, <2>1, SpotParts DEF BuildInv, SitesAreRight, E!Listed, E!File
  <2>3. layoutPth[d[1]] # None
    BY <1>1 DEF BuildInv, SitesAreRight
  <2>. QED
    BY <1>3, <2>2, <2>3, SpotParts
<1>6. BuildFilesHaveOwners'
  BY <1>1, <1>3, ListedKept, OwnersAreKept DEF BuildInv
<1>7. E!Listed(first)' = {}
  BY <1>1, <1>3 DEF E!Listed
<1>8. BuildIsOnItsWay' /\ E!DoneIsInstalled'
  BY <1>1, <1>2, <1>7 DEF BuildInv, BuildIsOnItsWay, E!DoneIsInstalled
<1>. QED
  BY <1>4, <1>5, <1>6, <1>8 DEF BuildInv

LEMMA NoDistIsOne == E!NoDist \in BuildDist /\ E!NoDist.has = {} /\ E!NoDist.files = {}
BY DEF E!NoDist, BuildDist

LEMMA RemoveDirectoryIsRight == ASSUME BuildInv, E!RemoveDirectory PROVE BuildInv'
<1>. PICK first : first = E!FirstDoomed
  OBVIOUS
<1>1. /\ building = "rmdir" /\ building' = "remove" /\ layoutDist' = [layoutDist EXCEPT ![first] = E!NoDist]
      /\ UNCHANGED <<layout, writable, layoutPth, scripts, added, left, last, lost, cut>>
  BY DEF E!RemoveDirectory
<1>2. first \in E!Spot /\ E!Listed(first) = {}
  BY <1>1, FirstDoomedIsDoomed DEF BuildInv, BuildIsOnItsWay
<1>3. /\ layoutDist' \in [E!Spot -> BuildDist]
      /\ \A d \in E!Spot : layoutDist'[d] = IF d = first THEN E!NoDist ELSE layoutDist[d]
  BY <1>1, <1>2, NoDistIsOne DEF BuildInv, BuildTypes
<1>4. BuildTypes'
  BY <1>1, <1>3 DEF BuildInv, BuildTypes
<1>5. SitesAreRight'
  BY <1>1, <1>3, NoDistIsOne DEF BuildInv, SitesAreRight, E!Exists
<1>6. BuildFilesHaveOwners'
  <2>1. \A d \in E!Spot : E!Listed(d) \cap E!OnDisk' \subseteq E!Listed(d)'
    <3>. TAKE d \in E!Spot
    <3>1. CASE d = first
      BY <1>2, <3>1
    <3>2. CASE d # first
      BY <1>3, <3>2, ListedKept
    <3>. QED
      BY <3>1, <3>2
  <2>. QED
    BY <1>1, <2>1, DiskKept, OwnersAreKept DEF BuildInv
<1>7. BuildIsOnItsWay' /\ E!DoneIsInstalled'
  BY <1>1 DEF BuildInv, BuildIsOnItsWay, E!DoneIsInstalled
<1>. QED
  BY <1>4, <1>5, <1>6, <1>7 DEF BuildInv

LEMMA RemovePthIsRight == ASSUME BuildInv, E!RemovePth PROVE BuildInv'
<1>1. /\ building = "remove" /\ building' = "pth" /\ E!Doomed = {}
      /\ layout.layout # None /\ E!CanWrite(Sites)
      /\ UNCHANGED <<layout, writable, layoutDist, scripts, added, left, last, lost, cut>>
  BY DEF E!RemovePth, E!CanAddPth
<1>2. /\ DOMAIN layoutPth = E!ToSet(Sites) /\ DOMAIN scripts = E!ToSet(ScriptDirs)
      /\ \A s \in E!ToSet(Sites) : layoutPth[s] \in {None} \cup {p.layout : p \in Layouts}
  BY DEF BuildInv, BuildTypes
<1>3. layoutPth' = [s \in E!ToSet(Sites) |-> IF s \in writable THEN None ELSE layoutPth[s]]
  BY <1>2 DEF E!RemovePth, E!Cleared
<1>4. /\ \A s \in E!ToSet(Sites) : layoutPth'[s] = IF s \in writable THEN None ELSE layoutPth[s]
      /\ layoutPth' \in [E!ToSet(Sites) -> {None} \cup {p.layout : p \in Layouts}]
  BY <1>2, <1>3
<1>5. BuildTypes'
  BY <1>1, <1>4 DEF BuildInv, BuildTypes
<1>6. SitesAreRight'
  <2>. SUFFICES ASSUME NEW d \in E!Spot, ~ cut, "metadata" \in layoutDist[d].has
                PROVE  layoutPth'[d[1]] # None
    BY <1>1, SitesKept DEF BuildInv
  <2>1. d[1] \notin writable
    BY <1>1 DEF E!Doomed, E!Exists
  <2>. QED
    BY <1>1, <1>4, <2>1, SpotParts DEF BuildInv, SitesAreRight
<1>7. E!OnDisk' \subseteq E!OnDisk
  <2>1. DOMAIN layoutPth' = E!ToSet(Sites)
    BY <1>3
  <2>2. E!PthFiles' \subseteq E!PthFiles
    BY <1>2, <1>4, <2>1 DEF E!PthFiles, E!File
  <2>. QED
    BY <1>1, <2>2 DEF E!OnDisk, E!ScriptFiles
<1>8. BuildFilesHaveOwners'
  BY <1>1, <1>7, ListedKept, OwnersAreKept DEF BuildInv
<1>9. \A s \in E!ToSet(Sites) \cap writable : layoutPth'[s] = None
  BY <1>4
<1>10. BuildIsOnItsWay' /\ E!DoneIsInstalled'
  BY <1>1, <1>9, DoomedKept, PlacesKept DEF BuildInv, BuildIsOnItsWay, E!DoneIsInstalled
<1>. QED
  BY <1>5, <1>6, <1>8, <1>10 DEF BuildInv

LEMMA WritePthIsRight == ASSUME BuildInv, E!WritePth PROVE BuildInv'
<1>. PICK site, new : site = PthSite /\ new = E!File(site, "pth")
  OBVIOUS
<1>1. /\ building = "pth" /\ building' = "scripts" /\ layoutPth' = [layoutPth EXCEPT ![site] = layout.layout]
      /\ added' = {new} /\ UNCHANGED <<layout, writable, layoutDist, scripts, last, lost, cut>>
  BY DEF E!WritePth, PthSite
<1>2. left' \in Seq(E!ToSet(layout.scripts)) /\ (E!CanWrite(ScriptDirs) => left' = layout.scripts)
      /\ (~ E!CanWrite(ScriptDirs) => left' = << >>)
  <2>1. left' = IF E!CanWrite(ScriptDirs) THEN layout.scripts ELSE << >>
    BY DEF E!WritePth
  <2>2. layout.scripts \in Seq(E!ToSet(layout.scripts))
    BY BuildKinds DEF BuildInv, BuildTypes
  <2>3. CASE E!CanWrite(ScriptDirs)
    BY <2>1, <2>2, <2>3
  <2>4. CASE ~ E!CanWrite(ScriptDirs)
    BY <2>1, <2>4
  <2>. QED
    BY <2>3, <2>4
<1>3. /\ layout.layout # None /\ E!CanWrite(Sites) /\ E!Doomed = {} /\ added = {}
      /\ \A s \in E!ToSet(Sites) \cap writable : layoutPth[s] = None
      /\ site \in E!ToSet(Sites) /\ site \in writable
  BY <1>1, PthSiteIsWritable DEF BuildInv, BuildIsOnItsWay
<1>4. /\ \A s \in E!ToSet(Sites) : layoutPth'[s] = IF s = site THEN layout.layout ELSE layoutPth[s]
      /\ layoutPth' \in [E!ToSet(Sites) -> {None} \cup {p.layout : p \in Layouts}]
  <2>1. layout.layout \in {None} \cup {p.layout : p \in Layouts}
    BY DEF BuildInv, BuildTypes
  <2>. QED
    BY <1>1, <1>3, <2>1 DEF BuildInv, BuildTypes
<1>5. new \in BuildFile /\ new.name = "pth" /\ new.dir = site
  BY <1>3 DEF E!File, BuildFile, E!Dirs
<1>6. BuildTypes'
  BY <1>1, <1>2, <1>4, <1>5 DEF BuildInv, BuildTypes
<1>7. SitesAreRight'
  <2>1. \A d \in E!Spot : ~ cut /\ "metadata" \in layoutDist[d].has => layoutPth'[d[1]] # None
    BY <1>1, <1>3, <1>4, SpotParts DEF BuildInv, SitesAreRight
  <2>. QED
    BY <1>1, <2>1, SitesKept DEF BuildInv
<1>8. E!OnDisk' \subseteq E!OnDisk \cup {new}
  <2>1. DOMAIN layoutPth' = E!ToSet(Sites) /\ DOMAIN layoutPth = E!ToSet(Sites)
    BY <1>4 DEF BuildInv, BuildTypes
  <2>2. E!PthFiles' \subseteq E!PthFiles \cup {new}
    BY <1>4, <2>1 DEF E!PthFiles
  <2>. QED
    BY <1>1, <2>2 DEF E!OnDisk, E!ScriptFiles
<1>9. BuildFilesHaveOwners'
  BY <1>1, <1>3, <1>8, ListedKept, OwnersAreKept DEF BuildInv
<1>10. PthIsWritten'
  BY <1>1, <1>3, <1>4, <1>5, PlacesKept DEF PthIsWritten
<1>11. ScriptsAreWritten'
  BY <1>1, <1>2, PlacesKept DEF ScriptsAreWritten
<1>12. BuildIsOnItsWay' /\ E!DoneIsInstalled'
  BY <1>1, <1>3, <1>10, <1>11, DoomedKept, PlacesKept DEF BuildIsOnItsWay, E!DoneIsInstalled
<1>. QED
  BY <1>6, <1>7, <1>9, <1>12 DEF BuildInv

LEMMA AddScriptIsRight == ASSUME BuildInv, E!AddScript PROVE BuildInv'
<1>. PICK dir, script, rest : dir = ScriptDir /\ script = Head(left) /\ rest = Tail(left)
  OBVIOUS
<1>. PICK new : new = E!File(dir, script.name)
  OBVIOUS
<1>1. /\ building = "scripts" /\ building' = "scripts" /\ left # << >> /\ left' = rest
      /\ scripts' = [scripts EXCEPT ![dir] = @ \cup {script.name}] /\ added' = added \cup {new}
      /\ UNCHANGED <<layout, writable, layoutPth, layoutDist, last, lost, cut>>
  BY DEF E!AddScript, ScriptDir
<1>2. /\ script \in E!ToSet(layout.scripts) /\ rest \in Seq(E!ToSet(layout.scripts))
      /\ \A q \in E!ToSet(left) : q = script \/ q \in E!ToSet(rest)
  <2>1. left \in Seq(E!ToSet(layout.scripts)) /\ Len(left) \in Nat /\ Len(left) >= 1
    BY <1>1 DEF BuildInv, BuildTypes
  <2>2. script = left[1] /\ script \in E!ToSet(layout.scripts) /\ rest \in Seq(E!ToSet(layout.scripts))
    BY <1>1, <2>1
  <2>3. Len(rest) = Len(left) - 1 /\ \A i \in 1 .. Len(rest) : rest[i] = left[i + 1]
    BY <1>1, <2>1
  <2>4. ASSUME NEW i \in 1 .. Len(left) PROVE left[i] = script \/ \E j \in 1 .. Len(rest) : rest[j] = left[i]
    <3>1. CASE i = 1
      BY <2>2, <3>1
    <3>2. CASE i # 1
      <4>1. i - 1 \in 1 .. Len(rest) /\ i - 1 + 1 = i
        BY <2>1, <2>3, <3>2
      <4>. QED
        BY <2>3, <4>1
    <3>. QED
      BY <3>1, <3>2
  <2>5. DOMAIN left = 1 .. Len(left) /\ DOMAIN rest = 1 .. Len(rest)
    BY <2>1, <2>2
  <2>. QED
    BY <2>2, <2>4, <2>5 DEF E!ToSet
<1>3. /\ E!Doomed = {} /\ E!CanWrite(Sites) /\ E!CanWrite(ScriptDirs) /\ layout.layout # None
      /\ PthIsWritten /\ ScriptsAreWritten /\ dir \in E!ToSet(ScriptDirs)
  BY <1>1, ScriptDirIsWritable DEF BuildInv, BuildIsOnItsWay, ScriptsAreWritten
<1>4. script.name \in ScriptNames
  BY <1>2 DEF BuildInv, BuildTypes, ScriptNames
<1>5. /\ \A s \in E!ToSet(ScriptDirs) : scripts'[s] = IF s = dir THEN scripts[s] \cup {script.name} ELSE scripts[s]
      /\ scripts' \in [E!ToSet(ScriptDirs) -> SUBSET ScriptNames]
  BY <1>1, <1>3, <1>4 DEF BuildInv, BuildTypes
<1>6. new \in BuildFile /\ new.dir = dir /\ dir \notin E!ToSet(Sites)
  BY <1>3, <1>4, BuildKinds DEF E!File, BuildFile, E!Dirs
<1>7. BuildTypes'
  BY <1>1, <1>2, <1>5, <1>6 DEF BuildInv, BuildTypes
<1>8. SitesAreRight'
  BY <1>1, SitesKept DEF BuildInv, SitesAreRight
<1>9. E!OnDisk' \subseteq E!OnDisk \cup {new}
  <2>1. DOMAIN scripts' = E!ToSet(ScriptDirs) /\ DOMAIN scripts = E!ToSet(ScriptDirs)
    BY <1>5 DEF BuildInv, BuildTypes
  <2>2. E!ScriptFiles' \subseteq E!ScriptFiles \cup {new}
    BY <1>5, <2>1 DEF E!ScriptFiles
  <2>. QED
    BY <1>1, <2>2 DEF E!OnDisk, E!PthFiles
<1>10. BuildFilesHaveOwners'
  BY <1>1, <1>9, ListedKept, OwnersAreKept DEF BuildInv
<1>11. PthIsWritten'
  BY <1>1, <1>3, <1>6, PlacesKept DEF PthIsWritten
<1>12. ScriptsAreWritten'
  BY <1>1, <1>2, <1>3, <1>5, PlacesKept DEF ScriptsAreWritten
<1>13. BuildIsOnItsWay' /\ E!DoneIsInstalled'
  BY <1>1, <1>3, <1>11, <1>12, DoomedKept, PlacesKept DEF BuildIsOnItsWay, E!DoneIsInstalled
<1>. QED
  BY <1>7, <1>8, <1>10, <1>13 DEF BuildInv

(* A step of the build that writes into the directory it has made.          *)
LEMMA MineIsWritten ==
  ASSUME BuildInv, building \in {"metadata", "url", "record"}
  PROVE  LET m == <<PthSite, layout.version>> IN
         /\ m \in E!Spot /\ m[1] = PthSite /\ m[2] = layout.version
         /\ E!Mine = m /\ E!Doomed = {m} /\ E!Exists(m) /\ m[1] \in writable
         /\ layoutDist[m] \in BuildDist /\ layout.layout # None /\ layoutPth[m[1]] = layout.layout
         /\ \A e \in E!Spot : E!Exists(e) /\ e[1] \in writable => e = m
<1>. PICK m : m = <<PthSite, layout.version>>
  OBVIOUS
<1>1. E!CanWrite(Sites) /\ PthIsWritten /\ E!Doomed = {m} /\ layout.layout # None /\ BuildTypes
  BY DEF BuildInv, BuildIsOnItsWay
<1>2. layout.version \in Versions
  BY <1>1, BuildKinds DEF BuildTypes
<1>3. m \in E!Spot /\ m[1] = PthSite /\ m[2] = layout.version
  BY <1>1, <1>2, PthSiteIsWritable, SpotParts
<1>4. E!Mine = m
  BY <1>1, <1>3, MineIsIt
<1>5. m \in E!Doomed /\ \A e \in E!Spot : E!Exists(e) /\ e[1] \in writable => e \in E!Doomed
  BY <1>1 DEF E!Doomed
<1>6. E!Exists(m) /\ m[1] \in writable
  BY <1>5 DEF E!Doomed
<1>. QED
  BY <1>1, <1>3, <1>4, <1>5, <1>6 DEF BuildTypes, PthIsWritten

LEMMA MkdirIsRight == ASSUME BuildInv, E!Mkdir PROVE BuildInv'
<1>. PICK m : m = <<PthSite, layout.version>>
  OBVIOUS
<1>1. /\ building = "scripts" /\ left = << >> /\ UNCHANGED <<layout, writable, layoutPth, scripts, cut>>
      /\ layout.version \in Versions /\ E!Doomed = {} /\ E!CanWrite(Sites) /\ layout.layout # None
      /\ PthIsWritten /\ ScriptsAreWritten
  BY BuildKinds DEF E!Mkdir, BuildInv, BuildTypes, BuildIsOnItsWay
<1>2. \A s \in E!ToSet(Sites) : s \in E!Places <=> s \in writable
  BY <1>1, SpotParts DEF E!Places, E!Doomed
<1>3. E!FirstOf(Sites, E!Places) = PthSite /\ PthSite \in E!ToSet(Sites) /\ PthSite \in writable
  BY <1>1, <1>2, FirstIsTheSame, PthSiteIsWritable DEF PthSite
<1>4. E!Places # {}
  BY <1>2, <1>3
<1>5. /\ building' = "metadata" /\ UNCHANGED <<added, left, last, lost>>
      /\ layoutDist' = [layoutDist EXCEPT ![m].has = {"directory"}]
  BY <1>3, <1>4 DEF E!Mkdir
<1>6. m \in E!Spot /\ m[1] = PthSite /\ m[2] = layout.version
  BY <1>1, <1>3, SpotParts
<1>7. /\ layoutDist' \in [E!Spot -> BuildDist]
      /\ layoutDist'[m].has = {"directory"} /\ layoutDist'[m].files = layoutDist[m].files
      /\ \A d \in E!Spot : d # m => layoutDist'[d] = layoutDist[d]
  BY <1>5, <1>6 DEF BuildInv, BuildTypes, BuildDist
<1>8. BuildTypes'
  BY <1>1, <1>5, <1>7 DEF BuildInv, BuildTypes
<1>9. layoutDist[m].has = {}
  BY <1>1, <1>3, <1>6 DEF E!Doomed, E!Exists
<1>10. E!Doomed' = {m} /\ \A d \in E!Spot : E!Exists(d)' <=> d = m \/ E!Exists(d)
  <2>1. \A d \in E!Spot : E!Exists(d)' <=> d = m \/ E!Exists(d)
    BY <1>7 DEF E!Exists
  <2>. QED
    BY <1>1, <1>3, <1>6, <2>1 DEF E!Doomed
<1>11. SitesAreRight'
  <2>. SUFFICES ASSUME NEW d \in E!Spot
                PROVE  /\ E!Exists(d)' => \A e \in E!Spot : E!Exists(e)' /\ e[1] = d[1] => e = d
                       /\ \A f \in layoutDist'[d].files : f.name = "pth" /\ f.dir \in E!ToSet(Sites) => f.dir = d[1]
                       /\ ~ cut' /\ "metadata" \in layoutDist'[d].has => layoutPth'[d[1]] # None
    BY DEF SitesAreRight
  <2>1. ASSUME E!Exists(d)', NEW e \in E!Spot, E!Exists(e)', e[1] = d[1] PROVE e = d
    <3>1. d = m \/ (E!Exists(d) /\ d[1] # PthSite)
      BY <1>1, <1>3, <1>10, <2>1 DEF E!Doomed
    <3>2. e = m \/ (E!Exists(e) /\ e[1] # PthSite)
      BY <1>1, <1>3, <1>10, <2>1 DEF E!Doomed
    <3>. QED
      BY <1>6, <2>1, <3>1, <3>2 DEF BuildInv, SitesAreRight
  <2>2. \A f \in layoutDist'[d].files : f.name = "pth" /\ f.dir \in E!ToSet(Sites) => f.dir = d[1]
    BY <1>7 DEF BuildInv, SitesAreRight
  <2>3. ASSUME ~ cut, "metadata" \in layoutDist'[d].has PROVE layoutPth[d[1]] # None
    <3>1. d # m /\ layoutDist'[d] = layoutDist[d]
      BY <1>7, <2>3
    <3>. QED
      BY <1>1, <2>3, <3>1 DEF BuildInv, SitesAreRight
  <2>. QED
    BY <1>1, <2>1, <2>2, <2>3
<1>12. BuildFilesHaveOwners'
  <2>1. ASSUME NEW d \in E!Spot PROVE E!Listed(d) \cap E!OnDisk' \subseteq E!Listed(d)'
    BY <1>7, <1>9, ListedKept
  <2>. QED
    BY <1>1, <1>5, <2>1, DiskKept, OwnersAreKept DEF BuildInv
<1>13. PthIsWritten' /\ ScriptsAreWritten'
  BY <1>1, <1>5, PlacesKept DEF PthIsWritten, ScriptsAreWritten
<1>14. BuildIsOnItsWay' /\ E!DoneIsInstalled'
  BY <1>1, <1>5, <1>7, <1>10, <1>13, PlacesKept DEF BuildIsOnItsWay, E!DoneIsInstalled
<1>. QED
  BY <1>8, <1>11, <1>12, <1>14 DEF BuildInv

LEMMA HasGrows ==
  ASSUME BuildInv, building \in {"metadata", "url"}, NEW m, m = <<PthSite, layout.version>>,
         NEW what \in {"metadata", "direct_url"}, building = "metadata" => what = "metadata",
         layoutDist' = [layoutDist EXCEPT ![m].has = @ \cup {what}], building' \in {"url", "record"},
         building' = "url" => building = "metadata", building' = "record" => building = "url" /\ what = "direct_url",
         UNCHANGED <<layout, writable, layoutPth, scripts, added, left, last, lost, cut>>
  PROVE  BuildInv'
<1>1. /\ m \in E!Spot /\ m[1] = PthSite /\ E!Doomed = {m} /\ E!Exists(m) /\ layoutDist[m] \in BuildDist
      /\ layout.layout # None /\ layoutPth[m[1]] = layout.layout
  BY MineIsWritten
<1>2. /\ layoutDist' \in [E!Spot -> BuildDist]
      /\ layoutDist'[m].has = layoutDist[m].has \cup {what} /\ layoutDist'[m].files = layoutDist[m].files
      /\ \A d \in E!Spot : d # m => layoutDist'[d] = layoutDist[d]
  BY <1>1 DEF BuildInv, BuildTypes, BuildDist
<1>3. BuildTypes'
  BY <1>2 DEF BuildInv, BuildTypes
<1>4. \A d \in E!Spot : E!Exists(d)' <=> E!Exists(d)
  BY <1>1, <1>2 DEF E!Exists
<1>5. E!Doomed' = E!Doomed
  BY <1>4 DEF E!Doomed
<1>6. SitesAreRight'
  BY <1>1, <1>2, <1>4 DEF BuildInv, SitesAreRight
<1>7. BuildFilesHaveOwners'
  <2>1. ASSUME NEW d \in E!Spot PROVE E!Listed(d) \cap E!OnDisk' \subseteq E!Listed(d)'
    BY <1>2, ListedKept
  <2>. QED
    BY <2>1, DiskKept, OwnersAreKept DEF BuildInv
<1>8. PthIsWritten /\ ScriptsAreWritten /\ left = << >> /\ E!CanWrite(Sites) /\ E!Doomed = {m}
  BY DEF BuildInv, BuildIsOnItsWay
<1>9. PthIsWritten' /\ ScriptsAreWritten'
  BY <1>8, PlacesKept DEF PthIsWritten, ScriptsAreWritten
<1>10. /\ "directory" \in layoutDist[m].has /\ "record" \notin layoutDist[m].has
       /\ building # "metadata" => "metadata" \in layoutDist[m].has
  BY DEF BuildInv, BuildIsOnItsWay
<1>11. m = <<PthSite', layout'.version>> /\ E!CanWrite(Sites)'
  BY <1>8, PlacesKept
<1>12. BuildIsOnItsWay'
  BY <1>1, <1>2, <1>5, <1>8, <1>9, <1>10, <1>11 DEF BuildIsOnItsWay
<1>13. E!DoneIsInstalled'
  BY DEF E!DoneIsInstalled
<1>. QED
  BY <1>3, <1>6, <1>7, <1>12, <1>13 DEF BuildInv

LEMMA WriteMetadataIsRight == ASSUME BuildInv, E!WriteMetadata PROVE BuildInv'
<1>1. /\ building = "metadata" /\ building' = "url"
      /\ UNCHANGED <<layout, writable, layoutPth, scripts, added, left, last, lost, cut>>
  BY DEF E!WriteMetadata
<1>2. E!Mine = <<PthSite, layout.version>>
  BY <1>1, MineIsWritten
<1>3. layoutDist' = [layoutDist EXCEPT ![<<PthSite, layout.version>>].has = @ \cup {"metadata"}]
  BY <1>2 DEF E!WriteMetadata
<1>. QED
  BY <1>1, <1>3, HasGrows

LEMMA WriteDirectUrlIsRight == ASSUME BuildInv, E!WriteDirectUrl PROVE BuildInv'
<1>1. /\ building = "url" /\ building' = "record"
      /\ UNCHANGED <<layout, writable, layoutPth, scripts, added, left, last, lost, cut>>
  BY DEF E!WriteDirectUrl
<1>2. E!Mine = <<PthSite, layout.version>>
  BY <1>1, MineIsWritten
<1>3. layoutDist' = [layoutDist EXCEPT ![<<PthSite, layout.version>>].has = @ \cup {"direct_url"}]
  BY <1>2 DEF E!WriteDirectUrl
<1>. QED
  BY <1>1, <1>3, HasGrows

(* What Poetry finds first, where the sites are read in the order of a path. *)
LEMMA ReportedFirst ==
  ASSUME NEW path \in SysPaths, \E d \in E!Spot : "metadata" \in layoutDist'[d].has
  PROVE  \E s \in E!ToSet(Sites) : \E v \in Versions :
           /\ E!Reported(path)' = <<s, v>> /\ "metadata" \in layoutDist'[<<s, v>>].has
<1>. DEFINE places == {i \in DOMAIN path : \E v \in Versions : "metadata" \in layoutDist'[<<path[i], v>>].has}
            first == path[E!Min(places)]
            theirs == {v \in Versions : "metadata" \in layoutDist'[<<first, v>>].has}
<1>1. path \in Seq(E!ToSet(Sites)) /\ E!ToSet(path) = E!ToSet(Sites)
  BY BuildKinds
<1>2. PICK d \in E!Spot : "metadata" \in layoutDist'[d].has
  OBVIOUS
<1>3. d[1] \in E!ToSet(path) /\ d[2] \in Versions /\ d = <<d[1], d[2]>>
  BY <1>1, SpotParts
<1>4. \E i \in DOMAIN path : path[i] = d[1]
  BY <1>3 DEF E!ToSet
<1>5. places # {}
  BY <1>2, <1>3, <1>4
<1>6. places \in SUBSET Nat
  BY <1>1
<1>7. E!Min(places) \in places
  BY <1>5, <1>6, MinIsThere
<1>8. /\ first \in E!ToSet(Sites) /\ theirs \in SUBSET Nat
      /\ \E v \in Versions : "metadata" \in layoutDist'[<<first, v>>].has
  BY <1>1, <1>7, BuildKinds DEF E!ToSet
<1>9. E!Min(theirs) \in theirs
  <2>1. theirs # {}
    BY <1>8
  <2>. QED
    BY <1>8, <2>1, MinIsThere
<1>10. E!Reported(path)' = <<first, E!Min(theirs)>>
  BY <1>5 DEF E!Reported
<1>. HIDE DEF first, places
<1>. QED
  BY <1>8, <1>9, <1>10

LEMMA WriteRecordIsRight == ASSUME BuildInv, E!WriteRecord PROVE BuildInv'
<1>. PICK m : m = <<PthSite, layout.version>>
  OBVIOUS
<1>1. /\ building = "record" /\ building' = "idle" /\ last' = "done" /\ lost' = lost \ added /\ added' = {}
      /\ cut' = (cut /\ ~ E!ToSet(Sites) \subseteq writable)
      /\ UNCHANGED <<layout, writable, layoutPth, scripts, left>>
  BY DEF E!WriteRecord, E!Recorded
<1>2. /\ m \in E!Spot /\ m[1] = PthSite /\ m[2] = layout.version /\ E!Mine = m /\ E!Doomed = {m}
      /\ E!Exists(m) /\ m[1] \in writable /\ layoutDist[m] \in BuildDist
      /\ layout.layout # None /\ layoutPth[m[1]] = layout.layout
      /\ \A e \in E!Spot : E!Exists(e) /\ e[1] \in writable => e = m
  BY <1>1, MineIsWritten
<1>3. PthIsWritten /\ ScriptsAreWritten /\ left = << >>
  BY <1>1 DEF BuildInv, BuildIsOnItsWay
<1>4. {"directory", "metadata", "direct_url"} \subseteq layoutDist[m].has /\ "record" \notin layoutDist[m].has
  BY <1>1 DEF BuildInv, BuildIsOnItsWay
<1>5. layoutDist' = [layoutDist EXCEPT ![m] = [has |-> layoutDist[m].has \cup {"record"}, files |-> added]]
  BY <1>2 DEF E!WriteRecord, E!Recorded, BuildInv, BuildTypes
<1>6. added \subseteq BuildFile
  BY DEF BuildInv, BuildTypes
<1>7. /\ layoutDist' \in [E!Spot -> BuildDist]
      /\ layoutDist'[m].has = layoutDist[m].has \cup {"record"} /\ layoutDist'[m].files = added
      /\ \A d \in E!Spot : d # m => layoutDist'[d] = layoutDist[d]
  <2>1. [has |-> layoutDist[m].has \cup {"record"}, files |-> added] \in BuildDist
    BY <1>2, <1>6 DEF BuildDist
  <2>. QED
    BY <1>2, <1>5, <2>1 DEF BuildInv, BuildTypes
<1>8. BuildTypes'
  BY <1>1, <1>3, <1>7 DEF BuildInv, BuildTypes
<1>9. \A d \in E!Spot : E!Exists(d)' <=> E!Exists(d)
  BY <1>2, <1>7 DEF E!Exists
<1>10. E!Doomed' = {m}
  BY <1>1, <1>2, <1>9 DEF E!Doomed
<1>11. SitesAreRight'
  <2>. SUFFICES ASSUME NEW d \in E!Spot
                PROVE  /\ E!Exists(d)' => \A e \in E!Spot : E!Exists(e)' /\ e[1] = d[1] => e = d
                       /\ \A f \in layoutDist'[d].files : f.name = "pth" /\ f.dir \in E!ToSet(Sites) => f.dir = d[1]
                       /\ ~ cut' /\ "metadata" \in layoutDist'[d].has => layoutPth'[d[1]] # None
    BY DEF SitesAreRight
  <2>1. E!Exists(d)' => \A e \in E!Spot : E!Exists(e)' /\ e[1] = d[1] => e = d
    BY <1>9 DEF BuildInv, SitesAreRight
  <2>2. \A f \in layoutDist'[d].files : f.name = "pth" /\ f.dir \in E!ToSet(Sites) => f.dir = d[1]
    <3>1. CASE d = m
      BY <1>2, <1>3, <1>7, <3>1 DEF PthIsWritten
    <3>2. CASE d # m
      BY <1>7, <3>2 DEF BuildInv, SitesAreRight
    <3>. QED
      BY <3>1, <3>2
  <2>3. ASSUME ~ cut', "metadata" \in layoutDist'[d].has PROVE layoutPth[d[1]] # None
    <3>1. CASE d = m
      BY <1>2, <3>1
    <3>2. CASE d # m
      <4>1. "metadata" \in layoutDist[d].has /\ E!Exists(d)
        BY <1>7, <2>3, <3>2 DEF E!Exists
      <4>2. d[1] \notin writable
        BY <1>2, <3>2, <4>1
      <4>3. ~ E!ToSet(Sites) \subseteq writable
        BY <4>2, SpotParts
      <4>4. ~ cut
        BY <1>1, <2>3, <4>3
      <4>. QED
        BY <1>1, <4>1, <4>4 DEF BuildInv, SitesAreRight
    <3>. QED
      BY <3>1, <3>2
  <2>. QED
    BY <1>1, <2>1, <2>2, <2>3
<1>12. BuildFilesHaveOwners'
  <2>1. E!OnDisk' = E!OnDisk
    BY <1>1, DiskKept
  <2>2. \A f \in E!OnDisk : f \in added => f \in E!Listed(m)'
    BY <1>7, <2>1 DEF E!Listed
  <2>3. E!Listed(m) = {}
    BY <1>4 DEF E!Listed
  <2>4. ASSUME NEW d \in E!Spot PROVE E!Listed(d) \cap E!OnDisk' \subseteq E!Listed(d)'
    <3>1. CASE d = m
      BY <2>3, <3>1
    <3>2. CASE d # m
      BY <1>7, <3>2, ListedKept
    <3>. QED
      BY <3>1, <3>2
  <2>. QED
    BY <1>1, <1>2, <2>1, <2>2, <2>4, OwnersAreKept DEF BuildInv
<1>13. BuildIsOnItsWay'
  BY <1>1, <1>3 DEF BuildIsOnItsWay
<1>14. E!DoneIsInstalled'
  <2>1. E!Doomed' = {m} /\ m[2] = layout'.version
    BY <1>1, <1>2, <1>10
  <2>2. layoutDist'[m].has = {"directory", "metadata", "direct_url", "record"}
    BY <1>2, <1>4, <1>7 DEF BuildDist
  <2>3. /\ {s \in E!ToSet(Sites) \cap writable' : layoutPth'[s] # None} = {m[1]}
        /\ layoutPth'[m[1]] = layout'.layout
    BY <1>1, <1>2, <1>3, SpotParts DEF PthIsWritten
  <2>4. E!CanWrite(ScriptDirs)' =>
          \A q \in E!ToSet(layout'.scripts) : q.name \in scripts'[E!FirstOf(ScriptDirs, writable')]
    <3>1. E!ToSet(left) = {}
      BY <1>3 DEF E!ToSet
    <3>. QED
      BY <1>1, <1>3, <3>1, PlacesKept DEF ScriptsAreWritten, ScriptDir
  <2>5. ASSUME NEW path \in SysPaths PROVE E!Reported(path)' = m \/ E!Reported(path)'[1] \notin writable'
    <3>1. PICK s \in E!ToSet(Sites), v \in Versions :
            E!Reported(path)' = <<s, v>> /\ "metadata" \in layoutDist'[<<s, v>>].has
      <4>1. \E d \in E!Spot : "metadata" \in layoutDist'[d].has
        BY <1>2, <2>2
      <4>. QED
        BY <4>1, ReportedFirst
    <3>2. <<s, v>> \in E!Spot /\ <<s, v>>[1] = s
      BY SpotParts
    <3>3. E!Exists(<<s, v>>)
      BY <1>9, <3>1, <3>2 DEF E!Exists
    <3>4. CASE s \in writable
      BY <1>2, <3>1, <3>2, <3>3, <3>4
    <3>5. CASE s \notin writable
      BY <1>1, <3>1, <3>2, <3>5
    <3>. QED
      BY <3>4, <3>5
  <2>. QED
    BY <1>2, <2>1, <2>2, <2>3, <2>4, <2>5 DEF E!DoneIsInstalled
<1>. QED
  BY <1>8, <1>11, <1>12, <1>13, <1>14 DEF BuildInv

LEMMA BuildStarts == E!Init => BuildInv
<1>. SUFFICES ASSUME E!Init PROVE BuildInv
  OBVIOUS
<1>1. /\ layout \in Layouts /\ writable \in Permissions /\ layoutPth = [s \in E!ToSet(Sites) |-> None]
      /\ layoutDist = [d \in E!Spot |-> E!NoDist] /\ scripts = [s \in E!ToSet(ScriptDirs) |-> {}]
      /\ building = "idle" /\ added = {} /\ left = << >> /\ last = "none" /\ lost = {} /\ cut = FALSE
  BY DEF E!Init
<1>2. BuildTypes
  BY <1>1, BuildKinds, NoDistIsOne, EmptyIsDone DEF BuildTypes
<1>3. SitesAreRight
  BY <1>1, NoDistIsOne DEF SitesAreRight, E!Exists
<1>4. BuildFilesHaveOwners
  BY <1>1, <1>2, OnDiskIs DEF BuildFilesHaveOwners
<1>5. BuildIsOnItsWay /\ E!DoneIsInstalled
  BY <1>1 DEF BuildIsOnItsWay, E!DoneIsInstalled
<1>. QED
  BY <1>2, <1>3, <1>4, <1>5 DEF BuildInv

LEMMA BuildSteps == BuildInv /\ [E!Next]_layoutvars => BuildInv'
<1>. SUFFICES ASSUME BuildInv, [E!Next]_layoutvars PROVE BuildInv'
  OBVIOUS
<1>1. CASE UNCHANGED layoutvars
  <2>1. UNCHANGED <<layout, writable, layoutPth, layoutDist, scripts, building, added, left, last, lost, cut>>
    BY <1>1 DEF layoutvars
  <2>2. BuildTypes' /\ SitesAreRight'
    BY <2>1, DoomedKept DEF BuildInv, BuildTypes, SitesAreRight, E!Exists
  <2>3. BuildFilesHaveOwners'
    BY <2>1, DiskKept, ListedKept, OwnersAreKept DEF BuildInv
  <2>4. E!Doomed' = E!Doomed /\ E!FirstDoomed' = E!FirstDoomed /\ E!Listed(E!FirstDoomed)' = E!Listed(E!FirstDoomed)
    BY <2>1, DoomedKept, DiskKept DEF E!Listed
  <2>5. (PthIsWritten <=> PthIsWritten') /\ (ScriptsAreWritten <=> ScriptsAreWritten')
    BY <2>1, PlacesKept DEF PthIsWritten, ScriptsAreWritten
  <2>6. BuildIsOnItsWay'
    BY <2>1, <2>4, <2>5, PlacesKept DEF BuildInv, BuildIsOnItsWay
  <2>7. \A path : E!Reported(path)' = E!Reported(path)
    BY <2>1 DEF E!Reported
  <2>8. E!DoneIsInstalled'
    BY <2>1, <2>4, <2>7, PlacesKept DEF BuildInv, E!DoneIsInstalled, ScriptDir
  <2>. QED
    BY <2>2, <2>3, <2>6, <2>8 DEF BuildInv
<1>2. CASE E!Next
  BY <1>2, StartIsRight, BuildScriptFailsIsRight, RemoveFilesIsRight, RemoveStopsIsRight, RemoveDirectoryIsRight,
     RemovePthIsRight, AddPthFailsIsRight, WritePthIsRight, AddScriptIsRight, BadScriptIsRight, MkdirIsRight,
     WriteMetadataIsRight, WriteDirectUrlIsRight, WriteRecordIsRight, BuildCrashIsRight, AgainIsRight DEF E!Next
<1>. QED
  BY <1>1, <1>2

LEMMA BuildIsOwned == BuildInv => E!EditableIsOwned
<1>. SUFFICES ASSUME BuildInv PROVE E!EditableIsOwned
  OBVIOUS
<1>1. E!TypeOK
  BY DEF BuildInv, BuildTypes, BuildDist, ScriptNames, E!TypeOK
<1>2. E!FilesAreOwned
  BY DEF BuildInv, BuildFilesHaveOwners, BuildIsOnItsWay, E!FilesAreOwned
<1>3. E!ReportedIsImportable
  <2>. SUFFICES ASSUME building = "idle", NEW path \in SysPaths, E!Reported(path) # None, ~ cut
                PROVE  \E s \in E!ToSet(Sites) : layoutPth[s] # None
    BY DEF E!ReportedIsImportable
  <2>1. PICK i \in DOMAIN path : \E v \in Versions : "metadata" \in layoutDist[<<path[i], v>>].has
    BY DEF E!Reported
  <2>2. PICK v \in Versions : "metadata" \in layoutDist[<<path[i], v>>].has
    BY <2>1
  <2>3. path[i] \in E!ToSet(Sites)
    BY BuildKinds DEF E!ToSet
  <2>4. <<path[i], v>> \in E!Spot /\ <<path[i], v>>[1] = path[i]
    BY <2>3, SpotParts
  <2>. QED
    BY <2>2, <2>3, <2>4 DEF BuildInv, SitesAreRight
<1>. QED
  BY <1>1, <1>2, <1>3 DEF BuildInv, E!EditableIsOwned

(* Whatever was installed, changed, relocked or cut short before: what is    *)
(* skipped is what is locked, an install that ends lasts, and an editable    *)
(* clone is repaired by the next one; a build of the project that is done    *)
(* has left one distribution, .pth file and set of scripts, every file has a *)
(* RECORD or is of a build without one, and what is reported can be          *)
(* imported; for any packages, versions, sites, directories, layouts,        *)
(* permissions and number of builds and crashes.                            *)
THEOREM WhatIsInstalledIsRight == MCSpec => []InstalledIsRight
<1>1. InstallInv /\ BuildInv => InstalledIsRight
  <2>1. InstallInv => D!RoundTripIsTrue
    BY InstallTypesHold, SkippedIsRight, InstallIsLasting, EditableIsRight DEF D!RoundTripIsTrue
  <2>. QED
    BY <2>1, BuildIsOwned DEF InstalledIsRight
<1>2. MCInit => InstallInv /\ BuildInv
  BY InstallStarts, BuildStarts DEF MCInit
<1>3. InstallInv /\ BuildInv /\ [MCNext]_allvars => InstallInv' /\ BuildInv'
  <2>1. [MCNext]_allvars => [D!Next]_dependencyvars /\ [E!Next]_layoutvars
    BY DEF MCNext, allvars
  <2>. QED
    BY <2>1, InstallSteps, BuildSteps
<1>. QED
  BY <1>1, <1>2, <1>3, PTL DEF MCSpec
=============================================================================
