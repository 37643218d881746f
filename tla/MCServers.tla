------------------------------ MODULE MCServers ------------------------------
(***************************************************************************)
(* Two components that talk to servers: publishing, with its credentials,   *)
(* and a package repository.  Each behaviour is about one of them, its       *)
(* subject, while the other stays where it starts.                          *)
(***************************************************************************)
EXTENDS Publishing, TLC

CONSTANTS
  Subjects,
  anna, bert, p1, p2,
  r1, r2, Requirements, InitialChunk, Unwritten, Releases     \* of HTTPRepository

VARIABLES
  subject,
  wheel, at, length, content, left, right, todo, fetched, noTails,
  asked, number, step, queue, infos, supports, mayAbort, answers

(* One repository with credentials in different places, and another one of  *)
(* the same host; a server that accepts the token or a password.            *)
NoEnvironment == [user |-> None, password |-> None, token |-> None]
At(name, host, path) == [name |-> name, host |-> host, path |-> path]

(* /a/ and /ab/, and the root of another host                               *)
Slashed ==
  <<At("other", "h1", <<"/", "a", "b", "/">>), At("foo", "h1", <<"/", "a", "/">>), At("other", "h2", << >>)>>
MCUrls ==
  {[host |-> "h1", path |-> <<"/", "a", "/", "x">>], [host |-> "h1", path |-> <<"/", "a", "b", "/", "x">>]}

Usual ==
  [env |-> NoEnvironment, native |-> NoCredential, repositories |-> Slashed, urls |-> MCUrls, usable |-> TRUE,
   commands |-> 2]

Publishes == [Usual EXCEPT !.urls = {}, !.commands = 1]

NewServer ==
  [version |-> 2, old |-> {<<1, "sdist">>, <<1, "wheel">>}, registered |-> TRUE,
   accepted |-> [user |-> anna, password |-> p1], overwrites |-> FALSE]

(* Files of a later version are left in dist/, and a server that needs to   *)
(* know the project before.                                                 *)
MCServerOf ==
  Usual :> NewServer
    @@ [Usual EXCEPT !.usable = FALSE, !.commands = 1] :> NewServer
    @@ Publishes :> NewServer
    @@ [Publishes EXCEPT !.usable = FALSE] :>
         [NewServer EXCEPT !.version = 1, !.old = {<<2, "wheel">>}, !.overwrites = TRUE]
    @@ [Publishes EXCEPT !.env = [user |-> anna, password |-> None, token |-> p2]] :>
         [NewServer EXCEPT !.accepted = [user |-> "__token__", password |-> p2], !.registered = FALSE]
    @@ [Publishes EXCEPT !.native = [user |-> anna, password |-> p2]] :>
         [NewServer EXCEPT !.accepted = [user |-> anna, password |-> p2]]
MCSettings == DOMAIN MCServerOf

Given(build, skip, dry) == [build |-> build, skip |-> skip, dry |-> dry]
MCOptionSets ==
  {Given(FALSE, FALSE, FALSE), Given(FALSE, TRUE, FALSE), Given(TRUE, TRUE, FALSE), Given(TRUE, FALSE, TRUE)}
-----------------------------------------------------------------------------
H == INSTANCE HTTPRepository WITH Settings <- Releases, setting <- asked
ASSUME OneOfHTTPRepository == H!HTTPRepositoryAssumption

hvars == <<wheel, at, length, content, left, right, todo, fetched, noTails,
           asked, number, step, queue, infos, supports, mayAbort, answers>>

(* Every wheel of up to six units; those of six only on servers that honour *)
(* ranges.                                                                  *)
Tails == {"served", "refused", "unsatisfiable", "whole", "fromStart", "unnamed"}

Wheels(lengths, readables) ==
  {w \in [length : lengths, start : 0 .. 4, end : 0 .. 5, entries : 0 .. 5, comment : BOOLEAN,
          readable : readables, tail : Tails, ranges : BOOLEAN, honored : BOOLEAN] :
     w.start < w.end /\ w.end <= w.entries /\ w.entries < w.length}

(* One release with one wheel.                                              *)
Simple(f, kind, metadata) ==
  [kind |-> kind, yanked |-> FALSE, hash |-> "sha256", metadata |-> metadata, requires |-> {r1},
   file |-> f]

OneWheel ==
  {[lazy |-> TRUE, releases |-> <<[links |-> <<Simple(w, "platform", "none")>>,
                                   json |-> "lacking", declared |-> {}]>>] :
     w \in Wheels({2, 3, 4}, {TRUE}) \cup Wheels({5}, {FALSE})
             \cup {v \in Wheels({6}, {TRUE}) : v.honored /\ v.ranges}}

(* A few servers.                                                           *)
AWheel == [length |-> 5, start |-> 0, end |-> 2, entries |-> 3, comment |-> FALSE,
           readable |-> TRUE, tail |-> "served", ranges |-> TRUE, honored |-> TRUE]
SomeWheels ==
  {AWheel, [AWheel EXCEPT !.tail = "refused"],
   [AWheel EXCEPT !.tail = "refused", !.ranges = FALSE, !.honored = FALSE],
   [AWheel EXCEPT !.honored = FALSE]}

(* Three releases from one domain, which treats them differently.           *)
Domains ==
  {[lazy |-> lazy,
    releases |-> [k \in 1 .. 3 |->
      [links |-> <<Simple(ws[k], "universal", "none")>>, json |-> "none", declared |-> {}]]] :
     lazy \in BOOLEAN, ws \in [1 .. 3 -> SomeWheels]}

(* One release with two files of any kind.                                  *)
Links(requires) ==
  {l \in [kind : {"universal", "py2", "py3", "platform", "sdist"}, yanked : BOOLEAN,
          hash : {"sha256", "broken"}, metadata : {"none", "right", "mismatch"},
          requires : {requires}, file : {AWheel}] :
     l.hash = "broken" => l.metadata = "none" /\ ~ l.yanked}
TwoFiles ==
  {[lazy |-> FALSE, releases |-> <<[links |-> <<k, l>>, json |-> json, declared |-> {r2}]>>] :
     k \in Links({r1, r2}), l \in Links({r2}), json \in {"none", "complete", "lacking"}}
BothPythons ==
  {[lazy |-> FALSE, releases |-> <<[links |-> <<l2, l3>>, json |-> "lacking", declared |-> {}]>>] :
     l2 \in {[Simple(AWheel, "py2", "none") EXCEPT !.requires = rs] : rs \in SUBSET {r1, r2}},
     l3 \in {[Simple(AWheel, "py3", "none") EXCEPT !.requires = rs] : rs \in SUBSET {r1, r2}}}

MCReleases == OneWheel \cup Domains \cup TwoFiles \cup BothPythons
-----------------------------------------------------------------------------
ASetting == CHOOSE s \in Settings : TRUE
ARelease == CHOOSE s \in Releases : TRUE

MCInit ==
  /\ subject \in Subjects
  /\ \/ subject = "publishing" /\ asked = ARelease
     \/ subject = "releases" /\ setting = ASetting
  /\ Init /\ H!Init

allvars == <<subject, vars, hvars>>

MCNext ==
  \/ subject = "publishing" /\ Next /\ UNCHANGED <<subject, hvars>>
  \/ subject = "releases" /\ H!Next /\ UNCHANGED <<subject, vars>>

(* The fairness of Publishing and that of HTTPRepository.                   *)
MCSpec ==
  /\ MCInit /\ [][MCNext]_allvars
  /\ WF_allvars(subject = "publishing" /\ PublishSteps /\ UNCHANGED <<subject, hvars>>)
  /\ WF_allvars(subject = "releases" /\ H!Next /\ UNCHANGED <<subject, vars>>)
-----------------------------------------------------------------------------
(* Whatever the server does, an answer is that of the files: see            *)
(* HTTPRepository.                                                          *)
MetadataIsRight == subject = "releases" => H!MetadataIsRight

(* Every release is answered: see HTTPRepository.                           *)
ReleasesAreAnswered == <>(subject = "releases" => step = "over")
===============================================================================
