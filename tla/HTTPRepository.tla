---------------------------- MODULE HTTPRepository ----------------------------
(***************************************************************************)
(* poetry.repositories.http_repository (with legacy_repository and          *)
(* pypi_repository): what a release requires is read from the metadata that *)
(* the index has, from wheels, lazily if the server allows it, or from a    *)
(* source distribution.                                                     *)
(***************************************************************************)
EXTENDS LazyWheel

CONSTANTS
  Requirements,
  Settings      \* sequences of releases that are asked for, and is solver.lazy-wheel set?

Pythons == {2, 3}

(* A file of a release.                                                     *)
Link ==
  [kind     : {"universal", "py2", "py3", "platform", "sdist"},
   yanked   : BOOLEAN,
   hash     : {"sha256", "md5", "broken", "none"},  \* that the index knows; md5, but of another file
   metadata : {"none", "right", "mismatch"},        \* PEP 658
   requires : SUBSET Requirements,
   file     : Wheel]

Release ==
  [links    : Seq(Link),
   json     : {"none", "complete", "lacking"},  \* the index is PyPI, and its JSON has requirements?
   declared : SUBSET Requirements]              \* the requirements in the JSON

(* A release is asked for, and a first chunk of a wheel has some bytes.     *)
HTTPRepositoryAssumption ==
  /\ InitialChunk \in Nat \ {0}
  /\ \A s \in Settings :
       /\ s.lazy \in BOOLEAN
       /\ s.releases \in Seq(Release) /\ s.releases # <<>>

VARIABLES
  setting,
  number,     \* of the release that is asked for
  step,
  queue,      \* links that are going to be read for it
  infos,      \* of those that were read: [kind, requires]
  supports,   \* _supports_range_requests of the domain, or "unknown"
  mayAbort,   \* raise_accepts_ranges
  answers     \* the answers so far: [failed : BOOLEAN, requires : [Pythons -> SUBSET Requirements]]

vars == <<setting, number, step, queue, infos, supports, mayAbort, answers, lazyVars>>

release == setting.releases[number]

NoWheel ==
  [length |-> 1, start |-> 0, end |-> 0, entries |-> 0, comment |-> FALSE, readable |-> FALSE,
   tail |-> "refused", ranges |-> FALSE, honored |-> FALSE]

Init ==
  /\ setting \in Settings
  /\ number = 1 /\ step = "ask" /\ queue = <<>> /\ infos = <<>>
  /\ supports = "unknown" /\ mayAbort = FALSE /\ answers = <<>>
  /\ wheel = NoWheel /\ at = "none" /\ todo = <<>> /\ length = 0
  /\ content = <<>> /\ fetched = <<>> /\ left = <<>> /\ right = <<>> /\ noTails = FALSE

-----------------------------------------------------------------------------
(* Which files are read, and what follows from them. *)

IsYanked(r) == \A k \in DOMAIN r.links : r.links[k].yanked

(* The places of the links that are looked at, and of those of a kind.      *)
Used(r) == {k \in DOMAIN r.links : ~ r.links[k].yanked \/ IsYanked(r)}

(* Bug: yanked files are looked at. *)
BugYanked(r, kind) == {k \in DOMAIN r.links : r.links[k].kind = kind}
OfKind(r, kind) == {k \in Used(r) : r.links[k].kind = kind}
LastOf(r, kind) == r.links[Max(OfKind(r, kind))]
FirstOf(r, kind) == r.links[Min(OfKind(r, kind))]

(* _get_info_from_links(): the first of these that is there.                *)
LinksToRead(r) ==
  LET Has(kind) == OfKind(r, kind) # {}
  IN CASE Has("universal") -> <<LastOf(r, "universal")>>
       [] ~ Has("universal") /\ Has("py2") /\ Has("py3") -> <<LastOf(r, "py2"), LastOf(r, "py3")>>
       [] ~ Has("universal") /\ ~ Has("py2") /\ Has("py3") -> <<LastOf(r, "py3")>>
       [] ~ Has("universal") /\ Has("py2") /\ ~ Has("py3") -> <<LastOf(r, "py2")>>
       [] OTHER -> IF Has("platform") THEN <<FirstOf(r, "platform")>>
                   ELSE IF Has("sdist") THEN <<FirstOf(r, "sdist")>> ELSE <<>>

(* The requirements of a wheel for Python 2 and one for Python 3 are        *)
(* combined: what both have, and the rest of each with a marker.  If the    *)
(* former has none those of the latter are taken as they are, and the other *)
(* way round.                                                               *)
(* Bug: what only one of them has gets no marker. *)
BugNoMarker(py2, py3) == [p \in Pythons |-> py2 \cup py3]
Combined(py2, py3) ==
  [p \in Pythons |->
     IF py3 = {} THEN py2
     ELSE IF py2 = {} THEN py3
     ELSE (py2 \cap py3) \cup (IF p = 2 THEN py2 \ py3 ELSE py3 \ py2)]

InfoOf(read) ==
  IF Len(read) = 2
  THEN Combined(read[1].requires, read[2].requires)
  ELSE [p \in Pythons |-> read[1].requires]

(* _links_to_data() needs a hash of every file, and downloads it if there   *)
(* is no good one; a file that contradicts its hash is left out.            *)
MustHash(r) == r.json = "none" /\ \E k \in Used(r) : r.links[k].hash # "sha256"
Files(r) == {k \in Used(r) : r.links[k].hash # "broken"}

-----------------------------------------------------------------------------
Answered(f) == [failed |-> FALSE, requires |-> f]

Answer(a) ==
  /\ answers' = Append(answers, a)
  /\ IF number < Len(setting.releases)
     THEN step' = "ask" /\ number' = number + 1
     ELSE step' = "over" /\ UNCHANGED number
  /\ UNCHANGED <<setting, supports, mayAbort>>

Fail ==
  /\ Answer([failed |-> TRUE, requires |-> [p \in Pythons |-> {}]])
  /\ queue' = <<>> /\ infos' = <<>>

(* _get_release_info(), of PyPI if its JSON has requirements.               *)
TakeJson ==
  /\ step = "ask" /\ release.json = "complete"
  /\ Answer(Answered([p \in Pythons |-> release.declared]))
  /\ UNCHANGED <<queue, infos, lazyVars>>

GetInfoFromLinks ==
  /\ step = "ask" /\ release.json # "complete"
  /\ Used(release) # {} /\ LinksToRead(release) # <<>>
  /\ release.json = "none" => Files(release) # {}
  /\ step' = "link" /\ queue' = LinksToRead(release) /\ infos' = <<>>
  /\ UNCHANGED <<setting, number, supports, mayAbort, answers, lazyVars>>

(* PackageNotFoundError: no file, or none with a hash.                      *)
NotFound ==
  /\ step = "ask" /\ release.json # "complete"
  /\ Used(release) = {} \/ (release.json = "none" /\ Files(release) = {})
  /\ Fail /\ UNCHANGED lazyVars

(* A download fails while a hash is calculated.                             *)
HashFails ==
  /\ step = "ask" /\ release.json # "complete" /\ MustHash(release)
  /\ Fail /\ UNCHANGED lazyVars

link == Head(queue)

Read1(read) ==
  /\ infos' = Append(infos, [kind |-> link.kind, requires |-> read])
  /\ queue' = Tail(queue) /\ step' = "link"

(* _get_info_from_metadata(): a file with another hash is not used.         *)
(* Bug: metadata with another hash are used. *)
BugAnyHash(l) == l.metadata # "none"
IsUsable(l) == l.metadata = "right"

GetInfoFromMetadata ==
  /\ step = "link" /\ queue # <<>> /\ link.metadata # "none"
  /\ IF IsUsable(link)
     THEN Read1(IF link.metadata = "mismatch" THEN Requirements \ link.requires ELSE link.requires)
     ELSE step' = "file" /\ UNCHANGED <<infos, queue>>
  /\ UNCHANGED <<setting, number, supports, mayAbort, answers, lazyVars>>

(* The metadata cannot be had now, or there never were any.                 *)
NoMetadata ==
  /\ step = "link" /\ queue # <<>>
  /\ step' = "file"
  /\ UNCHANGED <<setting, number, queue, infos, supports, mayAbort, answers, lazyVars>>

(* No connection, which is not an HTTPError.                                *)
MetadataFails ==
  /\ step = "link" /\ queue # <<>> /\ link.metadata # "none"
  /\ Fail /\ UNCHANGED lazyVars

IsTried == setting.lazy /\ supports # "no"

(* _get_info_from_wheel() *)
TryLazily ==
  /\ step = "file" /\ link.kind # "sdist" /\ IsTried
  /\ Begin(link.file, ReadMetadata(link.file))
  /\ step' = "lazy" /\ mayAbort' = TRUE
  /\ UNCHANGED <<setting, number, queue, infos, supports, answers>>

DoNotTry ==
  /\ step = "file" /\ (link.kind = "sdist" \/ ~ IsTried)
  /\ step' = "download" /\ mayAbort' = (setting.lazy /\ link.kind # "sdist")
  /\ UNCHANGED <<setting, number, queue, infos, supports, answers, lazyVars>>

ReadLazily ==
  /\ step = "lazy" /\ LazyStep
  /\ UNCHANGED <<setting, number, step, queue, infos, supports, mayAbort, answers>>

Succeeded ==
  /\ step = "lazy" /\ at = "metadata"
  /\ Read1(link.requires) /\ supports' = "yes" /\ at' = "none"
  /\ UNCHANGED <<setting, number, mayAbort, answers, wheel, todo, noTails, file>>

(* LazyWheelUnsupportedError *)
AfterFailure == IF supports = "unknown" THEN "no" ELSE supports

Unsupported ==
  /\ step = "lazy" /\ at = "unsupported"
  /\ supports' = AfterFailure
  /\ step' = "download" /\ mayAbort' = FALSE /\ at' = "none"
  /\ UNCHANGED <<setting, number, queue, infos, answers, wheel, todo, noTails, file>>

(* The server says that it has ranges: the wheel is read lazily after all.  *)
(* Bug: raise_accepts_ranges stays set after lazy reading has failed. *)
BugAbortAgain == setting.lazy /\ link.file.ranges
IsAborted == mayAbort /\ link.file.ranges

Abort ==
  /\ step = "download" /\ IsAborted
  /\ supports' = "yes" /\ step' = "file"
  /\ UNCHANGED <<setting, number, queue, infos, mayAbort, answers, lazyVars>>

Download ==
  /\ step = "download" /\ ~ IsAborted
  /\ \/ /\ link.kind = "sdist" \/ link.file.readable
        /\ Read1(link.requires)
        /\ UNCHANGED <<setting, number, supports, mayAbort, answers>>
     \/ Fail                             \* of the network, or of the archive
  /\ UNCHANGED lazyVars

Done ==
  /\ step = "link" /\ queue = <<>>
  /\ Answer(Answered(InfoOf(infos))) /\ infos' = <<>>
  /\ UNCHANGED <<queue, lazyVars>>

Next ==
  \/ TakeJson \/ GetInfoFromLinks \/ NotFound \/ HashFails
  \/ GetInfoFromMetadata \/ NoMetadata \/ MetadataFails
  \/ TryLazily \/ DoNotTry \/ ReadLazily \/ Succeeded \/ Unsupported
  \/ Abort \/ Download \/ Done

Spec == Init /\ [][Next]_vars /\ WF_vars(Next)

-----------------------------------------------------------------------------
(* The answer is the file's that was read.  Where a wheel for Python 2 and  *)
(* one for Python 3 were read, each Python gets the requirements of its own, *)
(* unless the other has none, which get those of the other.  A yanked file   *)
(* is not looked at as long as there are others.                            *)
Expected(read, p) ==
  IF Len(read) = 1 THEN read[1].requires
  ELSE IF {} \in {read[1].requires, read[2].requires}
       THEN read[1].requires \cup read[2].requires
       ELSE (CHOOSE l \in {read[1], read[2]} : l.kind = IF p = 2 THEN "py2" ELSE "py3").requires

AnswersAreRight ==
  \A k \in DOMAIN answers :
    LET r == setting.releases[k]
        read == LinksToRead(r)
    IN ~ answers[k].failed /\ r.json # "complete" =>
         /\ \A p \in Pythons : answers[k].requires[p] = Expected(read, p)
         /\ \A j \in DOMAIN read : read[j].yanked => \A i \in DOMAIN r.links : r.links[i].yanked

TypeOK ==
  /\ number \in DOMAIN setting.releases /\ Len(answers) \in {number - 1, number}
  /\ step \in {"ask", "link", "file", "lazy", "download", "over"}
  /\ at \in {"none", "tail", "head", "end", "read", "metadata", "unsupported"}
  /\ supports \in {"unknown", "yes", "no"} /\ mayAbort \in BOOLEAN /\ noTails \in BOOLEAN
  /\ \A k \in DOMAIN answers : answers[k].requires \in [Pythons -> SUBSET Requirements]

(* Whatever the server does, an answer is that of the files.  The sparse    *)
(* file that ZipFile reads has the wheel's bytes wherever it claims to, and *)
(* none was sent twice.                                                     *)
MetadataIsRight == TypeOK /\ BytesAreRight /\ NothingIsSentTwice /\ AnswersAreRight

(* Every release is answered, or found impossible: lazy reading, downloading *)
(* and giving up a download for lazy reading do not go on for ever.         *)
ReleasesAreAnswered == <>(step = "over")
=============================================================================
