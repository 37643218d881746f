--------------------------- MODULE EditableInstall ---------------------------
(***************************************************************************)
(* masonry.builders.editable and utils.env.site_packages: the project itself *)
(* is installed in editable mode, again and again.  Between the builds the   *)
(* project is edited and directories become read-only or writable; a build   *)
(* may fail or crash at any step.                                           *)
(***************************************************************************)
EXTENDS Naturals, Sequences, FiniteSets, SequencesExt, FiniteSetsExt

CONSTANTS
  Sites,       \* SitePackages.candidates, in their order
  ScriptDirs,  \* Env.script_dirs, in their order
  SysPaths,    \* orders in which Python may have the sites
  Versions,    \* of the project
  Projects,    \* [version, layout, scripts]; layout is what the .pth file names
  Permissions, \* the sets of directories that may be writable
  None         \* no layout: there is no module to install

Dirs == ToSet(Sites) \cup ToSet(ScriptDirs)
Spot == ToSet(Sites) \X Versions

EditableInstallAssumption ==
  /\ Versions \subseteq Nat
  /\ Permissions \subseteq SUBSET Dirs
  /\ Sites \in Seq(ToSet(Sites)) /\ ScriptDirs \in Seq(ToSet(ScriptDirs))
  /\ ToSet(Sites) \cap ToSet(ScriptDirs) = {}
  /\ \A path \in SysPaths : path \in Seq(ToSet(Sites)) /\ ToSet(path) = ToSet(Sites)
  /\ \A p \in Projects : p.version \in Versions /\ p.scripts \in Seq(ToSet(p.scripts))

VARIABLES
  project,
  writable,  \* the directories that are writable now
  pth,       \* [sites -> what the .pth file of the project names, or None]
  dist,      \* [Spot -> the .dist-info directory]
  scripts,   \* [script directories -> names]
  pc,
  added,     \* added_files
  left,      \* scripts to be added
  last,      \* how the last build ended, for this project and these directories
  lost,      \* files of builds that never wrote their RECORD
  cut        \* a removal was cut short, and what it left may still be there

vars == <<project, writable, pth, dist, scripts, pc, added, left, last, lost, cut>>

NoDist == [has |-> {}, files |-> {}]
Exists(d) == dist[d].has # {}

Init ==
  /\ project \in Projects /\ writable \in Permissions
  /\ pth = [s \in ToSet(Sites) |-> None] /\ dist = [d \in Spot |-> NoDist]
  /\ scripts = [s \in ToSet(ScriptDirs) |-> {}]
  /\ pc = "idle" /\ added = {} /\ left = << >> /\ last = "none" /\ lost = {} /\ cut = FALSE

-----------------------------------------------------------------------------
File(dir, name) == [dir |-> dir, name |-> name]
PthFiles == {File(s, "pth") : s \in {t \in DOMAIN pth : pth[t] # None}}
ScriptFiles == UNION {{File(s, n) : n \in scripts[s]} : s \in DOMAIN scripts}
OnDisk == PthFiles \cup ScriptFiles

Without(files) ==
  /\ pth' = [s \in DOMAIN pth |-> IF File(s, "pth") \in files THEN None ELSE pth[s]]
  /\ scripts' = [s \in DOMAIN scripts |-> {n \in scripts[s] : File(s, n) \notin files}]

(* The first of the directories that is one of these.                        *)
FirstOf(dirs, these) == dirs[Min({i \in DOMAIN dirs : dirs[i] \in these})]

CanWrite(dirs) == ToSet(dirs) \cap writable # {}

(* A build that does not reach its end: its files belong to no RECORD.       *)
Aborts(how) ==
  /\ pc' = "idle" /\ last' = how /\ lost' = lost \cup added /\ added' = {} /\ left' = << >>

-----------------------------------------------------------------------------
(* build() *)
Start ==
  /\ pc = "idle" /\ last = "none"
  /\ pc' = "remove"
  /\ UNCHANGED <<project, writable, pth, dist, scripts, added, left, last, lost, cut>>

BuildScriptFails ==
  /\ pc = "idle" /\ last = "none"
  /\ last' = "failed"
  /\ UNCHANGED <<project, writable, pth, dist, scripts, pc, added, left, lost, cut>>

(* remove_distribution_files(): one distribution after the other. *)
(* Bug: only a distribution of this version is removed.                     *)
BugThisVersion == {d \in Spot : Exists(d) /\ d[1] \in writable /\ d[2] = project.version}
Doomed == {d \in Spot : Exists(d) /\ d[1] \in writable}
FirstDoomed == CHOOSE d \in Doomed : d[1] = FirstOf(Sites, {e[1] : e \in Doomed})

Listed(d) == IF "record" \in dist[d].has THEN dist[d].files \cap OnDisk ELSE {}
Removable(d) == {f \in Listed(d) : f.dir \in writable}

RemoveFiles ==
  /\ pc = "remove" /\ Doomed # {}
  /\ Removable(FirstDoomed) = Listed(FirstDoomed)
  /\ Without(Listed(FirstDoomed)) /\ pc' = "rmdir"
  /\ UNCHANGED <<project, writable, dist, added, left, last, lost, cut>>

(* A file is in a read-only directory, or the process is killed.             *)
RemoveStops ==
  /\ pc = "remove" /\ Doomed # {}
  /\ \E files \in SUBSET Removable(FirstDoomed) : Without(files)
  /\ \E how \in {"crashed"} \cup IF Removable(FirstDoomed) # Listed(FirstDoomed) THEN {"failed"} ELSE {} :
       Aborts(how)
  /\ cut' = TRUE
  /\ UNCHANGED <<project, writable, dist>>

RemoveDirectory ==
  /\ pc = "rmdir"
  /\ dist' = [dist EXCEPT ![FirstDoomed] = NoDist]
  /\ pc' = "remove"
  /\ UNCHANGED <<project, writable, pth, scripts, added, left, last, lost, cut>>

(* _add_pth() *)
(* Bug: an older .pth file in another directory is left.                    *)
BugHere == {FirstOf(Sites, writable)}
Cleared == ToSet(Sites) \cap writable

CanAddPth == project.layout # None /\ CanWrite(Sites)

RemovePth ==
  /\ pc = "remove" /\ Doomed = {} /\ CanAddPth
  /\ pth' = [s \in DOMAIN pth |-> IF s \in Cleared THEN None ELSE pth[s]]
  /\ pc' = "pth"
  /\ UNCHANGED <<project, writable, dist, scripts, added, left, last, lost, cut>>

AddPthFails ==
  /\ pc = "remove" /\ Doomed = {} /\ ~ CanAddPth
  /\ Aborts("failed")
  /\ UNCHANGED <<project, writable, pth, dist, scripts, cut>>

(* write_text() takes the first candidate that lets it.                      *)
WritePth ==
  /\ pc = "pth"
  /\ LET site == FirstOf(Sites, writable) IN
     /\ pth' = [pth EXCEPT ![site] = project.layout]
     /\ added' = {File(site, "pth")}
  /\ left' = IF CanWrite(ScriptDirs) THEN project.scripts ELSE << >>
  /\ pc' = "scripts"
  /\ UNCHANGED <<project, writable, dist, scripts, last, lost, cut>>

(* _add_scripts() *)
AddScript ==
  /\ pc = "scripts" /\ left # << >> /\ Head(left).isValid
  /\ LET dir == FirstOf(ScriptDirs, writable) IN
     /\ scripts' = [scripts EXCEPT ![dir] = @ \cup {Head(left).name}]
     /\ added' = added \cup {File(dir, Head(left).name)}
  /\ left' = Tail(left)
  /\ UNCHANGED <<project, writable, pth, dist, pc, last, lost, cut>>

BadScript ==
  /\ pc = "scripts" /\ left # << >> /\ ~ Head(left).isValid
  /\ Aborts("failed")
  /\ UNCHANGED <<project, writable, pth, dist, scripts, cut>>

(* _add_dist_info(): mkdir() takes the first candidate in which it can.      *)
Places == {s \in ToSet(Sites) \cap writable : ~ Exists(<<s, project.version>>)}

Mkdir ==
  /\ pc = "scripts" /\ left = << >>
  /\ IF Places = {} THEN Aborts("failed") /\ UNCHANGED dist
     ELSE /\ dist' = [dist EXCEPT ![<<FirstOf(Sites, Places), project.version>>].has = {"directory"}]
          /\ pc' = "metadata" /\ UNCHANGED <<added, left, last, lost>>
  /\ UNCHANGED <<project, writable, pth, scripts, cut>>

(* The directory that this build has made.                                  *)
Mine == CHOOSE d \in Spot : Exists(d) /\ d[1] \in writable /\ d[2] = project.version

WriteMetadata ==
  /\ pc = "metadata"
  /\ dist' = [dist EXCEPT ![Mine].has = @ \cup {"metadata"}]
  /\ pc' = "url"
  /\ UNCHANGED <<project, writable, pth, scripts, added, left, last, lost, cut>>

WriteDirectUrl ==
  /\ pc = "url"
  /\ dist' = [dist EXCEPT ![Mine].has = @ \cup {"direct_url"}]
  /\ pc' = "record"
  /\ UNCHANGED <<project, writable, pth, scripts, added, left, last, lost, cut>>

(* Bug: RECORD has the metadata and the .pth file only.                     *)
BugNoScripts == {f \in added : f.name = "pth"}
Recorded == added

WriteRecord ==
  /\ pc = "record"
  /\ dist' = [dist EXCEPT ![Mine] = [has |-> @.has \cup {"record"}, files |-> Recorded]]
  /\ pc' = "idle" /\ last' = "done" /\ lost' = lost \ Recorded /\ added' = {}
  /\ cut' = (cut /\ ~ ToSet(Sites) \subseteq writable)
  /\ UNCHANGED <<project, writable, pth, scripts, left>>

Crash ==
  /\ pc \notin {"idle", "remove"}
  /\ Aborts("crashed") /\ cut' = (cut \/ pc = "rmdir")
  /\ UNCHANGED <<project, writable, pth, dist, scripts>>

-----------------------------------------------------------------------------
(* Between two builds. *)
Again ==
  /\ pc = "idle" /\ last # "none"
  /\ last' = "none" /\ project' \in Projects /\ writable' \in Permissions
  /\ UNCHANGED <<pth, dist, scripts, pc, added, left, lost, cut>>

Next ==
  \/ Start \/ BuildScriptFails \/ RemoveFiles \/ RemoveStops \/ RemoveDirectory \/ RemovePth
  \/ AddPthFails \/ WritePth \/ AddScript \/ BadScript \/ Mkdir \/ WriteMetadata
  \/ WriteDirectUrl \/ WriteRecord \/ Crash \/ Again

Spec == Init /\ [][Next]_vars

-----------------------------------------------------------------------------
(* InstalledRepository.load(): the first distribution with metadata, and     *)
(* whether it is called an editable one.                                    *)
Reported(sysPath) ==
  LET site == {i \in DOMAIN sysPath : \E v \in Versions : "metadata" \in dist[<<sysPath[i], v>>].has}
  IN IF site = {} THEN None
     ELSE LET s == sysPath[Min(site)] IN <<s, Min({v \in Versions : "metadata" \in dist[<<s, v>>].has})>>

TypeOK ==
  /\ project \in Projects /\ writable \subseteq Dirs
  /\ \A d \in Spot : dist[d].has \subseteq {"directory", "metadata", "direct_url", "record"}
  /\ \A s \in DOMAIN scripts : scripts[s] \subseteq UNION {{q.name : q \in ToSet(p.scripts)} : p \in Projects}

(* A build that is done has left one distribution, one .pth file and the     *)
(* scripts where it can write, of this project and of no earlier one, and    *)
(* Poetry finds it, unless one it cannot remove comes before.                *)
DoneIsInstalled ==
  pc = "idle" /\ last = "done" =>
    \E d \in Spot :
      /\ Doomed = {d} /\ d[2] = project.version
      /\ dist[d].has = {"directory", "metadata", "direct_url", "record"}
      /\ {s \in ToSet(Sites) \cap writable : pth[s] # None} = {d[1]} /\ pth[d[1]] = project.layout
      /\ CanWrite(ScriptDirs) =>
           \A q \in ToSet(project.scripts) : q.name \in scripts[FirstOf(ScriptDirs, writable)]
      /\ \A path \in SysPaths : Reported(path) = d \/ Reported(path)[1] \notin writable

(* Every file that the builds have put anywhere is named by the RECORD of a   *)
(* distribution, which the next build or pip removes, except those of a      *)
(* build that never wrote one.                                              *)
FilesAreOwned ==
  pc = "idle" => \A f \in OnDisk : f \in lost \/ \E d \in Spot : f \in Listed(d)

(* Whatever went wrong, what is reported can be imported: the metadata comes *)
(* after the .pth file, and goes after it only in a removal cut short.        *)
ReportedIsImportable ==
  pc = "idle" /\ (\E path \in SysPaths : Reported(path) # None) /\ ~ cut =>
    \E s \in ToSet(Sites) : pth[s] # None

EditableIsOwned == TypeOK /\ DoneIsInstalled /\ FilesAreOwned /\ ReportedIsImportable
=============================================================================
