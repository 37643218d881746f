----------------------------- MODULE Publishing ------------------------------
(***************************************************************************)
(* poetry publish (console/commands/publish.py, poetry.publishing): files   *)
(* of dist/ are uploaded one after the other with the credentials of the    *)
(* repository, while dist/ is changed by others, requests get lost and the  *)
(* process dies.                                                            *)
(***************************************************************************)
EXTENDS Credentials

CONSTANTS
  Versions,       \* of the project, numbers
  OptionSets,     \* the options that are given
  ServerOf,       \* what the server of a setting is like
  MaxPublish,     \* bound: so many times poetry publish is called
  MaxFaults       \* bound: so many lost requests, crashes and changes of dist/

Kinds == {"sdist", "wheel"}
File == Versions \X Kinds
Builds == {"old", "new"}        \* what is in a file: as it was, or built by --build

(* version: of pyproject.toml; accepted: the credentials that are right.    *)
Server ==
  [version : Versions, old : SUBSET File, registered : BOOLEAN,
   accepted : [user : Users \cup {Token}, password : Passwords], overwrites : BOOLEAN]

(* skip is --skip-existing.                                                  *)
Options == [build : BOOLEAN, skip : BOOLEAN, dry : BOOLEAN]

ASSUME PublishingAssumption ==
  /\ OptionSets \subseteq Options
  /\ ServerOf \in [Settings -> Server]
  /\ None \notin Builds

VARIABLES
  server,       \* what it is like, the files it has, and whether it knows the project
  dist,         \* the files of dist/
  publish,      \* the command
  published,    \* so many commands so far
  faults

publishing == <<server, dist, publish, published, faults>>
vars == <<credentials, publishing>>

NotPublishing ==
  [pc |-> "idle", options |-> None, files |-> << >>, at |-> 0, credential |-> NoCredential,
   disturbed |-> FALSE]

Init ==
  /\ CredentialsInit
  /\ LET s == ServerOf[setting]
     IN /\ server = [is |-> s, files |-> [f \in File |-> None], registered |-> s.registered]
        /\ dist = [f \in File |-> IF f \in s.old THEN "old" ELSE None]
  /\ publish = NotPublishing /\ published = 0 /\ faults = 0

-----------------------------------------------------------------------------
In(d) == {f \in File : d[f] # None}

Latest(fs) == (CHOOSE f \in fs : \A g \in fs : f[1] >= g[1])[1]
IfThere(f, fs) == IF f \in fs THEN << f >> ELSE << >>

(* Bug: wheels first.                                                       *)
BugWheelsFirst(fs) ==
  IF fs = {} THEN << >> ELSE IfThere(<<Latest(fs), "wheel">>, fs) \o IfThere(<<Latest(fs), "sdist">>, fs)

(* Bug: all versions, one after the other.                                  *)
BugAllVersions(fs) ==
  SetToSortSeq(fs, LAMBDA f, g : f[1] < g[1] \/ (f[1] = g[1] /\ f[2] = "sdist"))

(* _files_and_version: the files of the latest version, sdist first.        *)
FilesToPublish(fs) ==
  IF fs = {} THEN << >> ELSE IfThere(<<Latest(fs), "sdist">>, fs) \o IfThere(<<Latest(fs), "wheel">>, fs)

(* publish(): the options have no user name and password here.              *)
CredentialToPublish ==
  IF GetPypiToken # None THEN [user |-> Token, password |-> GetPypiToken] ELSE OrNative(GetHttpAuth)

NoCommand == UNCHANGED credentials
To(pc) == publish' = [publish EXCEPT !.pc = pc]
NoFault == UNCHANGED faults
Disturbed(pc) ==
  /\ faults < MaxFaults /\ faults' = faults + 1
  /\ publish' = [publish EXCEPT !.pc = pc, !.disturbed = TRUE]

Publish(o) ==
  /\ publish.pc \in {"idle", "done", "failed"} /\ published < MaxPublish
  /\ command.pc = "idle" /\ setting.urls = {}    \* the other sessions have an authenticator of their own
  /\ publish' = [NotPublishing EXCEPT !.pc = IF o.build THEN "sdist" ELSE "list", !.options = o]
  /\ published' = published + 1
  /\ UNCHANGED <<server, dist>> /\ NoFault /\ NoCommand

(* "There are files ready for publishing. Build anyway?"                    *)
Decline ==
  /\ publish.pc = "sdist" /\ In(dist) # {}
  /\ To("failed")
  /\ UNCHANGED <<server, dist, published>> /\ NoFault /\ NoCommand

(* poetry build                                                             *)
Build(kind, next) ==
  /\ publish.pc = kind
  /\ dist' = [dist EXCEPT ![<<server.is.version, kind>>] = "new"]
  /\ To(next)
  /\ UNCHANGED <<server, published>> /\ NoFault /\ NoCommand

(* A new Publisher looks into dist/, and only once.                         *)
List ==
  /\ publish.pc = "list"
  /\ LET fs == FilesToPublish(In(dist))
     IN publish' = [publish EXCEPT !.pc = IF fs = << >> THEN "failed" ELSE "upload", !.files = fs, !.at = 1,
                                   !.credential = CredentialToPublish]
  /\ UNCHANGED <<server, dist, published>> /\ NoFault /\ NoCommand

-----------------------------------------------------------------------------
(* Uploader._upload_file() *)

Current == publish.files[publish.at]
Uploading == publish.pc = "upload"
IsDry == publish.options.dry

NextPc == IF publish.at = Len(publish.files) THEN "done" ELSE "upload"

(* Bug: the same file again.                                                *)
BugSameFile == publish' = publish

Proceed == publish' = [publish EXCEPT !.pc = NextPc, !.at = @ + 1]

NoFile ==
  /\ Uploading /\ dist[Current] = None
  /\ To("failed")
  /\ UNCHANGED <<server, dist, published>> /\ NoFault /\ NoCommand

DryRun ==
  /\ Uploading /\ dist[Current] # None /\ IsDry
  /\ Proceed
  /\ UNCHANGED <<server, dist, published>> /\ NoFault /\ NoCommand

(* What the server makes of the file.                                       *)
Exists == server.files[Current] # None /\ ~ server.is.overwrites
Response ==
  CASE publish.credential # server.is.accepted -> "forbidden"
    [] publish.credential = server.is.accepted /\ ~ server.registered -> "never registered"
    [] publish.credential = server.is.accepted /\ server.registered /\ Exists -> "exists"
    [] OTHER -> "stored"

Posts(r) == Uploading /\ dist[Current] # None /\ ~ IsDry /\ Response = r
Stored == server' = [server EXCEPT !.files[Current] = dist[Current]]

(* Bug: any file that is refused is passed over.                            *)
BugPassOver == TRUE

(* _is_file_exists_error() matters with --skip-existing only.               *)
IsSkipped == publish.options.skip /\ Response = "exists"

Upload ==
  /\ Posts("stored")
  /\ Stored /\ Proceed
  /\ UNCHANGED <<dist, published>> /\ NoFault /\ NoCommand

Refused ==
  /\ Posts("exists") \/ Posts("forbidden")
  /\ IF IsSkipped THEN Proceed ELSE To("failed")
  /\ UNCHANGED <<server, dist, published>> /\ NoFault /\ NoCommand

(* _register(); then the answer to the file is an error all the same.       *)
Register ==
  /\ Posts("never registered")
  /\ server' = [server EXCEPT !.registered = TRUE]
  /\ To("failed")
  /\ UNCHANGED <<dist, published>> /\ NoFault /\ NoCommand

(* The connection breaks before or after the server has stored the file.    *)
RequestIsLost ==
  /\ \E r \in {"stored", "exists"} : Posts(r)
  /\ Disturbed("failed")
  /\ IF Response = "stored" THEN Stored \/ UNCHANGED server ELSE UNCHANGED server
  /\ UNCHANGED <<dist, published>> /\ NoCommand

Crash ==
  /\ publish.pc \notin {"idle", "done", "failed"}
  /\ Disturbed("idle")
  /\ UNCHANGED <<server, dist, published>> /\ NoCommand

(* Someone else builds another version or cleans up.                        *)
DistIsChanged(f) ==
  /\ publish.pc \notin {"idle", "done", "failed"}
  /\ dist' = [dist EXCEPT ![f] = IF @ = None THEN "old" ELSE None]
  /\ Disturbed(publish.pc)
  /\ UNCHANGED <<server, published>> /\ NoCommand

PublishSteps ==
  \/ Decline \/ Build("sdist", "wheel") \/ Build("wheel", "list") \/ List
  \/ NoFile \/ DryRun \/ Upload \/ Refused \/ Register

(* Config commands and sessions are not looked at while publish is at work. *)
Next ==
  \/ publish.pc \in {"idle", "done", "failed"} /\ CredentialsNext /\ UNCHANGED publishing
  \/ \E o \in OptionSets : Publish(o)
  \/ PublishSteps \/ RequestIsLost \/ Crash
  \/ \E f \in File : DistIsChanged(f)

Spec == Init /\ [][Next]_vars /\ WF_vars(PublishSteps)
-----------------------------------------------------------------------------
TypeOK ==
  /\ CredentialsTypeOK
  /\ dist \in [File -> Builds \cup {None}] /\ server.files \in [File -> Builds \cup {None}]
  /\ publish.pc \in {"idle", "sdist", "wheel", "list", "upload", "done", "failed"}

(* The sdist goes first: a command that is interrupted does not leave the   *)
(* wheel without the sdist that it has found.                               *)
SourceFirst ==
  \A i, j \in DOMAIN publish.files :
    /\ i < publish.at /\ ~ IsDry
    /\ publish.files[i][2] = "wheel" /\ publish.files[j][2] = "sdist"
    => server.files[publish.files[j]] # None

(* One version is published, the latest one that was there.                 *)
OneVersion == \A i, j \in DOMAIN publish.files : publish.files[i][1] = publish.files[j][1]

(* A command that says it has published: all of its files are on the server.*)
DoneIsComplete ==
  publish.pc = "done" /\ ~ IsDry => \A i \in DOMAIN publish.files : server.files[publish.files[i]] # None

(* Whatever earlier commands have left half done, --skip-existing succeeds, *)
(* unless the server does not accept the credentials or the project.        *)
FailsWithReason ==
  publish.pc = "failed" /\ ~ publish.disturbed /\ publish.files # << >> /\ publish.options.skip =>
    publish.credential # server.is.accepted \/ ~ server.is.registered

CredentialsAreRight == CredentialsTypeOK /\ SetIsUsed /\ NoMixture /\ RequestIsOwn /\ ApartIsSpecific
PublishIsComplete == TypeOK /\ SourceFirst /\ OneVersion /\ DoneIsComplete /\ FailsWithReason

(* Every command comes to an end.                                           *)
PublishEnds == []<>(publish.pc \in {"idle", "done", "failed"})
==============================================================================
