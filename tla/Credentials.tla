----------------------------- MODULE Credentials -----------------------------
(***************************************************************************)
(* poetry.utils.password_manager and poetry.utils.authenticator: where the  *)
(* password and the token of a repository are kept (auth.toml, a keyring    *)
(* that comes and goes, the environment), which of them are used, and which *)
(* repository's credentials a request gets and how often it is sent.        *)
(***************************************************************************)
EXTENDS Integers, Sequences, SequencesExt, FiniteSets

CONSTANTS
  Names,        \* of users
  Empty,        \* the empty user name
  Passwords,
  None,
  Letters,      \* of which paths consist
  Settings

Users == Names \cup {Empty}
MaxAttempts == 5

Credential == [user : Users \cup {None}, password : Passwords \cup {None}]
NoCredential == [user |-> None, password |-> None]

(* A URL has one of two hosts; a source's name is its place in the list.    *)
Url == [host : {"h1", "h2"}, path : Seq(Letters)]

(* repositories are those of the configuration, in its order, with their    *)
(* credentials: one of them, "foo", is what the config commands are about.  *)
Setting ==
  [env          : [user : Users \cup {None}, password : Passwords \cup {None},
                   token : Passwords \cup {None}],
   native       : Credential,      \* what the keyring has for a host, whoever has put it there
   repositories : Seq([name : {"foo", "other"}, host : {"h1", "h2"}, path : Seq(Letters)]),
   urls         : SUBSET Url,      \* that are asked for
   usable       : BOOLEAN,         \* is the keyring there at first?
   commands     : Nat]             \* bound: so many config commands are given

Token == "__token__"

(* "other" is who the other repository's user is, and no one else.          *)
ASSUME CredentialsAssumption ==
  /\ Settings \subseteq Setting
  /\ None \notin Users \cup Passwords \cup Credential \cup {Token, "other"}
  /\ Users \cap {Token, "other"} = {}

VARIABLES
  setting,
  usable,     \* keyring.enabled and a keyring that works
  file,       \* auth.toml: http-basic.foo and pypi-token.foo
  ring,       \* what the keyring has for foo, by user
  command,    \* the config command that is at work
  commands,
  said,       \* what the last command about it has said, and all pairs that were set
  odd,        \* has something happened that the code does not care for?
  request,    \* the request of a session
  cache       \* _credentials of the session's authenticator

credentials == <<setting, usable, file, ring, command, commands, said, odd, request, cache>>

Idle == [pc |-> "idle", auth |-> None]
NoRequest == [pc |-> "idle", url |-> None, credential |-> NoCredential, attempt |-> 0]

CredentialsInit ==
  /\ setting \in Settings
  /\ usable = setting.usable
  /\ file = [auth |-> None, token |-> None]
  /\ ring = [u \in Users \cup {Token} |-> None]
  /\ command = Idle /\ commands = 0
  /\ said = [auth |-> None, token |-> None, all |-> {}]
  /\ odd = {}
  /\ request = NoRequest /\ cache = << >>

-----------------------------------------------------------------------------
(* Reading. *)

First(x, y) == IF x # None THEN x ELSE y

Username == First(setting.env.user, IF file.auth = None THEN None ELSE file.auth.user)
FilePassword == First(setting.env.password, IF file.auth = None THEN None ELSE file.auth.password)

RingEntry(u) == ring[IF u = None THEN Empty ELSE u]

(* get_http_auth(); an empty user name is answered as none.                 *)
GetHttpAuth ==
  [user |-> IF Username = Empty THEN None ELSE Username,
   password |-> IF FilePassword = None /\ usable THEN RingEntry(Username) ELSE FilePassword]

(* get_pypi_token() *)
GetPypiToken == First(First(setting.env.token, file.token), IF usable THEN ring[Token] ELSE None)

(* keyring.get_credential(), for a URL or its host.                         *)
Native(user) ==
  IF usable /\ setting.native # NoCredential /\ user \in {None, setting.native.user}
  THEN setting.native ELSE [user |-> user, password |-> None]

OrNative(c) == IF c.password # None THEN c ELSE Native(c.user)

-----------------------------------------------------------------------------
(* poetry config http-basic.foo and pypi-token.foo, with --unset or without. *)

Begin == command.pc = "idle" /\ commands < setting.commands /\ commands' = commands + 1
Others == UNCHANGED <<setting, usable, request, cache>>

(* set_http_password(): the keyring's entry first, and then the file's.     *)
SetHttpPassword(u, p) ==
  /\ Begin
  /\ ring' = IF usable THEN [ring EXCEPT ![u] = p] ELSE ring
  /\ command' = [pc |-> "write", auth |-> [user |-> u, password |-> IF usable THEN None ELSE p]]
  /\ said' = [said EXCEPT !.auth = [user |-> u, password |-> p], !.all = @ \cup {<<u, p>>}]
  /\ odd' = odd \cup (IF u = Empty THEN {"empty"} ELSE {})
  /\ UNCHANGED file /\ Others

(* delete_http_password(); an error of the keyring is passed over.          *)
DeleteHttpPassword(works) ==
  /\ Begin
  /\ works => usable
  /\ IF GetHttpAuth.user = None
     THEN UNCHANGED <<ring, command>>
     ELSE /\ ring' = IF works THEN [ring EXCEPT ![GetHttpAuth.user] = None] ELSE ring
          /\ command' = [pc |-> "write", auth |-> None]
  /\ said' = [said EXCEPT !.auth = None]
  /\ UNCHANGED <<file, odd>> /\ Others

(* The second half of both: add_property() or remove_property().            *)
WriteAuth ==
  /\ command.pc = "write"
  /\ file' = [file EXCEPT !.auth = command.auth] /\ command' = Idle
  /\ UNCHANGED <<ring, commands, said, odd>> /\ Others

(* The file cannot be written, or the process dies.                         *)
AuthIsLost ==
  /\ command.pc = "write"
  /\ command' = Idle /\ odd' = odd \cup {"lost"}
  /\ UNCHANGED <<file, ring, commands, said>> /\ Others

SetPypiToken(t) ==
  /\ Begin
  /\ IF usable THEN ring' = [ring EXCEPT ![Token] = t] /\ UNCHANGED file
     ELSE file' = [file EXCEPT !.token = t] /\ UNCHANGED ring
  /\ said' = [said EXCEPT !.token = t]
  /\ UNCHANGED <<command, odd>> /\ Others

(* delete_pypi_token() *)
DeletePypiToken ==
  /\ Begin
  /\ usable => ring[Token] # None       \* or the keyring raises an error
  /\ IF usable THEN ring' = [ring EXCEPT ![Token] = None] /\ UNCHANGED file
     ELSE file' = [file EXCEPT !.token = None] /\ UNCHANGED ring
  /\ said' = [said EXCEPT !.token = None]
  /\ UNCHANGED <<command, odd>> /\ Others

(* The keyring is locked, unlocked or disabled.                             *)
Switch ==
  /\ command.pc = "idle" /\ "switch" \notin odd
  /\ usable' = ~ usable /\ odd' = odd \cup {"switch"}
  /\ UNCHANGED <<setting, file, ring, command, commands, said, request, cache>>

-----------------------------------------------------------------------------
(* Authenticator *)

CommonPrefix(p, q) ==
  CHOOSE n \in 0..Len(p) :
    /\ n <= Len(q) /\ \A i \in 1..n : p[i] = q[i]
    /\ n < Len(p) /\ n < Len(q) => p[n + 1] # q[n + 1]

(* The first of some of the repositories.                                   *)
FirstOf(is) == setting.repositories[CHOOSE i \in is : \A j \in is : i <= j]

(* Bug: the first repository of the host.                                   *)
BugFirst(u) ==
  LET ofHost == {i \in DOMAIN setting.repositories : setting.repositories[i].host = u.host}
  IN IF ofHost = {} THEN None ELSE FirstOf(ofHost)

(* _get_repository_config_for_url(): of the repositories of this host whose *)
(* path has something in common, or else of all of this host, the first one *)
(* with the longest common prefix.                                          *)
RepositoryFor(u) ==
  LET Common(i) == CommonPrefix(u.path, setting.repositories[i].path)
      ofHost == {i \in DOMAIN setting.repositories : setting.repositories[i].host = u.host}
      matching == {i \in ofHost : setting.repositories[i].path = << >> \/ Common(i) > 0}
      candidates == IF matching # {} THEN matching ELSE ofHost
  IN IF candidates = {} THEN None
     ELSE FirstOf({i \in candidates : \A j \in candidates : Common(i) >= Common(j)})

(* get_http_credentials(); the other repository has the same user always.   *)
OfRepository(r) ==
  IF r.name = "foo" THEN OrNative(GetHttpAuth) ELSE [user |-> "other", password |-> "other"]

(* _get_credentials_for_url() *)
CredentialFor(u) ==
  IF RepositoryFor(u) = None THEN OrNative(NoCredential) ELSE OrNative(OfRepository(RepositoryFor(u)))

(* get_credentials_for_url(), which looks into the cache first.             *)
IsCached(u) == \E i \in DOMAIN cache : cache[i].url = u
Cached(u) == CHOOSE i \in DOMAIN cache : cache[i].url = u

(* Bug: the entry of any URL of the host answers.                           *)
BugHost(u) ==
  IF \E i \in DOMAIN cache : cache[i].url.host = u.host
  THEN cache[CHOOSE i \in DOMAIN cache : cache[i].url.host = u.host].credential ELSE CredentialFor(u)

GetCredentialsForUrl(u) == IF IsCached(u) THEN cache[Cached(u)].credential ELSE CredentialFor(u)

Session == UNCHANGED <<setting, usable, file, ring, command, commands, said, odd>>

Request(u) ==
  /\ request.pc # "send"
  /\ request' = [pc |-> "send", url |-> u, credential |-> GetCredentialsForUrl(u), attempt |-> 0]
  /\ cache' = IF IsCached(u) THEN cache ELSE Append(cache, [url |-> u, credential |-> GetCredentialsForUrl(u)])
  /\ Session

IsLastAttempt == request.attempt >= MaxAttempts

(* No connection, or one of STATUS_FORCELIST.                               *)
TryAgain ==
  /\ request.pc = "send" /\ ~ IsLastAttempt
  /\ request' = [request EXCEPT !.attempt = @ + 1]
  /\ UNCHANGED cache /\ Session

GiveUp ==
  /\ request.pc = "send" /\ IsLastAttempt
  /\ request' = [request EXCEPT !.pc = "failed"]
  /\ UNCHANGED cache /\ Session

Answer ==
  /\ request.pc = "send"
  /\ request' = [request EXCEPT !.pc = "answered"]
  /\ UNCHANGED cache /\ Session

(* The command ends and with it the session.                                *)
EndSession ==
  /\ request.pc \in {"answered", "failed"}
  /\ request' = NoRequest /\ cache' = << >>
  /\ Session

CredentialsNext ==
  \/ \E u \in Users, p \in Passwords : SetHttpPassword(u, p)
  \/ \E works \in BOOLEAN : DeleteHttpPassword(works)
  \/ WriteAuth \/ AuthIsLost
  \/ \E t \in Passwords : SetPypiToken(t)
  \/ DeletePypiToken \/ Switch
  \/ \E u \in setting.urls : Request(u)
  \/ TryAgain \/ GiveUp \/ Answer \/ EndSession
-----------------------------------------------------------------------------
CredentialsTypeOK ==
  /\ usable \in BOOLEAN
  /\ file.token \in Passwords \cup {None}
  /\ file.auth = None \/ file.auth \in Credential
  /\ ring \in [Users \cup {Token} -> Passwords \cup {None}]
  /\ odd \subseteq {"empty", "lost", "switch"}
  /\ request.attempt \in 0..MaxAttempts

NoEnv == setting.env = [user |-> None, password |-> None, token |-> None]

(* As long as the keyring is the same for all commands, the file is written *)
(* and no user name is empty, what was set is used, and what was unset is   *)
(* not, wherever it has been before.                                        *)
SetIsUsed ==
  command.pc = "idle" /\ odd = {} /\ NoEnv =>
    /\ GetHttpAuth = IF said.auth = None THEN NoCredential ELSE said.auth
    /\ GetPypiToken = said.token

(* Whatever happens, no password is used with another's name.               *)
NoMixture ==
  NoEnv /\ GetHttpAuth.user # None /\ GetHttpAuth.password # None =>
    <<GetHttpAuth.user, GetHttpAuth.password>> \in said.all

(* poetry config --unset "removes the configuration element".               *)
UnsetRemoves ==
  command.pc = "idle" /\ odd \subseteq {"empty"} /\ said.auth = None => file.auth = None

(* A request gets the credentials of the repository that its URL belongs to *)
(* although the session keeps those of others.                              *)
RequestIsOwn ==
  request.pc # "idle" /\ RepositoryFor(request.url) # None =>
    (request.credential.user = "other" <=> RepositoryFor(request.url).name = "other")

IsBelow(u, r) ==
  /\ r.host = u.host /\ IsPrefix(r.path, u.path)
  /\ \/ Len(r.path) \in {0, Len(u.path)} \/ Last(r.path) = "/"
     \/ u.path[Len(r.path) + 1] = "/"

Above(u) == {i \in DOMAIN setting.repositories : IsBelow(u, setting.repositories[i])}

(* "prefer the more specific path": a URL below the paths of repositories   *)
(* belongs to the one with the longest of them.                             *)
MostSpecificIsUsed ==
  LET u == request.url
  IN request.pc # "idle" /\ Above(u) # {} =>
       \E i \in Above(u) :
         /\ RepositoryFor(u) = setting.repositories[i]
         /\ \A j \in Above(u) : Len(setting.repositories[i].path) >= Len(setting.repositories[j].path)

(* It is true as long as no other repository's path begins with that of one *)
(* that the URL is below: not of /a next to /ab, nor of a URL below /a/bc    *)
(* when there are /a/ and /a/b/.                                            *)
AreApart(u) ==
  \A i \in Above(u), j \in DOMAIN setting.repositories \ Above(u) :
    LET r == setting.repositories[j]
    IN r.host = u.host => ~ IsPrefix(setting.repositories[i].path, r.path)
ApartIsSpecific == request.pc # "idle" /\ AreApart(request.url) => MostSpecificIsUsed
==============================================================================
