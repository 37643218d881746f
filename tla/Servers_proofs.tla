-------------------------- MODULE Servers_proofs ----------------------------
(***************************************************************************)
(* What poetry publish uploads, and with whose credentials: for every       *)
(* user, password, repository and option set, whatever the keyring, the     *)
(* server and other processes do.                                          *)
(***************************************************************************)
EXTENDS MCServers, WellFoundedInduction, FiniteSetTheorems, SequenceTheorems, TLAPS

-----------------------------------------------------------------------------
(* The repository of a URL *)

(* A set of numbers has a least one.                                       *)
LEMMA Least ==
  ASSUME NEW T \in SUBSET Nat, T # {}
  PROVE  \E x \in T : \A y \in T : x <= y
<1>. DEFINE R == OpToRel(<, Nat)
<1>1. IsWellFoundedOn(R, Nat)
  BY NatLessThanWellFounded
<1>2. \A x, y \in Nat : <<y, x>> \in R <=> y < x
  BY DEF OpToRel
<1>. HIDE DEF R
<1>3. PICK x \in T : \A y \in T : ~ (<<y, x>> \in R)
  BY <1>1, WFMin
<1>4. ASSUME NEW y \in T PROVE x <= y
  <2>1. x \in Nat /\ y \in Nat /\ ~ (y < x)
    BY <1>2, <1>3
  <2>2. QED
    BY <2>1
<1>5. QED
  BY <1>4

(* And one that is bounded has a greatest one.                             *)
LEMMA Greatest ==
  ASSUME NEW n \in Nat, NEW T \in SUBSET 0 .. n, T # {}
  PROVE  \E x \in T : \A y \in T : x >= y
<1>. DEFINE U == {n - x : x \in T}
<1>1. U \in SUBSET Nat /\ U # {}
  <2>1. ASSUME NEW x \in T PROVE n - x \in Nat
    OBVIOUS
  <2>2. QED
    BY <2>1
<1>2. PICK u \in U : \A v \in U : u <= v
  BY <1>1, Least
<1>3. PICK x \in T : u = n - x
  BY <1>2
<1>4. ASSUME NEW y \in T PROVE x >= y
  <2>1. n - y \in U
    OBVIOUS
  <2>2. n - x <= n - y
    BY <1>2, <1>3, <2>1
  <2>3. x \in Int /\ y \in Int
    OBVIOUS
  <2>4. QED
    BY <2>2, <2>3
<1>5. QED
  BY <1>4

IsCommon(p, q, n) ==
  /\ n <= Len(q) /\ \A i \in 1..n : p[i] = q[i]
  /\ n < Len(p) /\ n < Len(q) => p[n + 1] # q[n + 1]

LEMMA CommonPrefixIs ==
  ASSUME NEW p \in Seq(Letters), NEW q \in Seq(Letters)
  PROVE  CommonPrefix(p, q) \in 0..Len(p) /\ IsCommon(p, q, CommonPrefix(p, q))
<1>. DEFINE T == {n \in 0..Len(p) : n <= Len(q) /\ \A i \in 1..n : p[i] = q[i]}
<1>1. Len(p) \in Nat /\ Len(q) \in Nat
  OBVIOUS
<1>2. 0 \in T
  BY <1>1
<1>3. PICK n \in T : \A m \in T : n >= m
  BY <1>1, <1>2, Greatest
<1>4. n < Len(p) /\ n < Len(q) => p[n + 1] # q[n + 1]
  <2>. SUFFICES ASSUME n < Len(p), n < Len(q), p[n + 1] = q[n + 1] PROVE FALSE
    OBVIOUS
  <2>1. n \in Nat /\ n + 1 \in 0..Len(p) /\ n + 1 <= Len(q)
    BY <1>1
  <2>2. \A i \in 1..(n + 1) : p[i] = q[i]
    BY <2>1
  <2>3. n + 1 \in T
    BY <2>1, <2>2
  <2>4. n >= n + 1
    BY <1>3, <2>3
  <2>5. QED
    BY <2>1, <2>4
<1>5. \E m \in 0..Len(p) : IsCommon(p, q, m)
  BY <1>3, <1>4 DEF IsCommon
<1>6. QED
  BY <1>5 DEF CommonPrefix, IsCommon

Repositories == setting.repositories
Common(u, i) == CommonPrefix(u.path, Repositories[i].path)
IsMatching(u, i) ==
  Repositories[i].host = u.host /\ (Repositories[i].path = << >> \/ Common(u, i) > 0)

LEMMA RepositoryTypes ==
  ASSUME setting \in Settings, NEW u \in Url
  PROVE  /\ Repositories \in Seq([name : {"foo", "other"}, host : {"h1", "h2"}, path : Seq(Letters)])
         /\ DOMAIN Repositories \subseteq Nat
         /\ \A i \in DOMAIN Repositories :
              /\ Repositories[i].path \in Seq(Letters) /\ Repositories[i].name \in {"foo", "other"}
              /\ Common(u, i) \in 0..Len(u.path)
              /\ IsCommon(u.path, Repositories[i].path, Common(u, i))
         /\ u.path \in Seq(Letters) /\ Len(u.path) \in Nat
<1>1. Repositories \in Seq([name : {"foo", "other"}, host : {"h1", "h2"}, path : Seq(Letters)])
  BY CredentialsAssumption DEF Setting, Repositories
<1>2. u.path \in Seq(Letters)
  BY DEF Url
<1>. DEFINE R == [name : {"foo", "other"}, host : {"h1", "h2"}, path : Seq(Letters)]
<1>3. DOMAIN Repositories \subseteq Nat /\ \A i \in DOMAIN Repositories : Repositories[i] \in R
  <2>1. Repositories \in Seq(R)
    BY <1>1
  <2>. HIDE DEF R
  <2>2. QED
    BY <2>1
<1>4. \A i \in DOMAIN Repositories :
        Repositories[i].path \in Seq(Letters) /\ Repositories[i].name \in {"foo", "other"}
  BY <1>3
<1>5. \A i \in DOMAIN Repositories :
        Common(u, i) \in 0..Len(u.path) /\ IsCommon(u.path, Repositories[i].path, Common(u, i))
  BY <1>2, <1>4, CommonPrefixIs DEF Common
<1>6. Len(u.path) \in Nat
  BY <1>2
<1>7. QED
  BY <1>1, <1>2, <1>3, <1>4, <1>5, <1>6

(* The repository that is found has the most in common with the URL of      *)
(* those that match, and only its host where none does.                    *)
LEMMA RepositoryIs ==
  ASSUME setting \in Settings, NEW u \in Url
  PROVE  \/ RepositoryFor(u) = None /\ \A i \in DOMAIN Repositories : Repositories[i].host # u.host
         \/ \E i \in DOMAIN Repositories :
              /\ RepositoryFor(u) = Repositories[i] /\ Repositories[i].host = u.host
              /\ \A j \in DOMAIN Repositories : IsMatching(u, j) => Common(u, i) >= Common(u, j)
<1>. DEFINE ofHost == {i \in DOMAIN Repositories : Repositories[i].host = u.host}
            matching == {i \in ofHost : Repositories[i].path = << >> \/ Common(u, i) > 0}
            candidates == IF matching # {} THEN matching ELSE ofHost
            best == {i \in candidates : \A j \in candidates : Common(u, i) >= Common(u, j)}
<1>1. RepositoryFor(u) = IF candidates = {} THEN None ELSE FirstOf(best)
  BY DEF RepositoryFor, Repositories, Common
<1>2. candidates \subseteq ofHost /\ matching \subseteq ofHost /\ ofHost \subseteq DOMAIN Repositories
      /\ (candidates = {} => ofHost = {}) /\ (matching # {} => candidates = matching)
  OBVIOUS
<1>3. matching = {j \in DOMAIN Repositories : IsMatching(u, j)}
  BY DEF IsMatching
<1>. HIDE DEF candidates, matching
<1>4. CASE candidates = {}
  BY <1>1, <1>2, <1>4
<1>5. CASE candidates # {}
  <2>. DEFINE lengths == {Common(u, i) : i \in candidates}
  <2>1. lengths \in SUBSET (0..Len(u.path)) /\ lengths # {} /\ Len(u.path) \in Nat
    BY <1>2, <1>5, RepositoryTypes
  <2>2. PICK n \in lengths : \A m \in lengths : n >= m
    BY <2>1, Greatest
  <2>3. best # {}
    BY <2>2
  <2>4. best \in SUBSET Nat
    BY <1>2, RepositoryTypes
  <2>5. \E i \in best : \A j \in best : i <= j
    BY <2>3, <2>4, Least
  <2>. DEFINE i == CHOOSE i \in best : \A j \in best : i <= j
  <2>6. i \in best /\ FirstOf(best) = Repositories[i]
    BY <2>5 DEF FirstOf, Repositories
  <2>. HIDE DEF i
  <2>7. i \in candidates /\ \A j \in candidates : Common(u, i) >= Common(u, j)
    BY <2>6
  <2>8. \A j \in DOMAIN Repositories : IsMatching(u, j) => Common(u, i) >= Common(u, j)
    BY <1>2, <1>3, <2>7
  <2>9. QED
    BY <1>1, <1>2, <1>5, <2>6, <2>7, <2>8
<1>6. QED
  BY <1>4, <1>5

(* A path is a prefix of another one if it has all of itself in common.    *)
LEMMA PrefixIs ==
  ASSUME NEW p \in Seq(Letters), NEW q \in Seq(Letters)
  PROVE  IsPrefix(p, q) <=> Len(p) <= Len(q) /\ \A k \in 1..Len(p) : p[k] = q[k]
<1>1. Len(p) \in Nat /\ Len(q) \in Nat
  OBVIOUS
<1>2. SubSeq(p, 1, Len(p)) = p
  OBVIOUS
<1>3. ASSUME Len(p) <= Len(q)
      PROVE  SubSeq(q, 1, Len(p)) = [k \in 1..Len(p) |-> q[k]]
  BY <1>1, <1>3
<1>4. p = [k \in 1..Len(p) |-> p[k]]
  OBVIOUS
<1>5. QED
  BY <1>1, <1>2, <1>3, <1>4 DEF IsPrefix

(* The longest one wins, unless one that the URL is not below goes on where *)
(* another one ends.                                                       *)
LEMMA LongestIsUsed ==
  ASSUME setting \in Settings, NEW u \in Url, AreApart(u), Above(u) # {}
  PROVE  \E i \in Above(u) :
           /\ RepositoryFor(u) = Repositories[i]
           /\ \A j \in Above(u) : Len(Repositories[i].path) >= Len(Repositories[j].path)
<1>. DEFINE P(i) == Repositories[i].path
<1>1. \A i \in Above(u) :
        /\ i \in DOMAIN Repositories /\ Repositories[i].host = u.host
        /\ Len(P(i)) \in Nat /\ Len(P(i)) <= Len(u.path) /\ \A k \in 1..Len(P(i)) : P(i)[k] = u.path[k]
  <2>. SUFFICES ASSUME NEW i \in Above(u)
                PROVE  /\ i \in DOMAIN Repositories /\ Repositories[i].host = u.host
                       /\ Len(P(i)) \in Nat /\ Len(P(i)) <= Len(u.path)
                       /\ \A k \in 1..Len(P(i)) : P(i)[k] = u.path[k]
    OBVIOUS
  <2>1. i \in DOMAIN Repositories /\ IsBelow(u, Repositories[i])
    BY DEF Above, Repositories
  <2>2. P(i) \in Seq(Letters) /\ u.path \in Seq(Letters)
    BY <2>1, RepositoryTypes
  <2>3. IsPrefix(P(i), u.path) /\ Repositories[i].host = u.host
    BY <2>1 DEF IsBelow
  <2>4. QED
    BY <2>1, <2>2, <2>3, PrefixIs
<1>2. ASSUME NEW i \in Above(u) PROVE Common(u, i) = Len(P(i)) /\ IsMatching(u, i)
  <2>1. /\ Common(u, i) \in 0..Len(u.path) /\ IsCommon(u.path, P(i), Common(u, i))
        /\ P(i) \in Seq(Letters) /\ Len(u.path) \in Nat
    BY <1>1, RepositoryTypes
  <2>2. Common(u, i) <= Len(P(i)) /\ ~ (Common(u, i) < Len(P(i)))
    BY <1>1, <2>1 DEF IsCommon
  <2>3. Common(u, i) = Len(P(i))
    BY <1>1, <2>1, <2>2
  <2>4. P(i) = << >> \/ Len(P(i)) > 0
    BY <2>1
  <2>5. QED
    BY <1>1, <2>3, <2>4 DEF IsMatching
<1>3. PICK i \in DOMAIN Repositories :
        /\ RepositoryFor(u) = Repositories[i] /\ Repositories[i].host = u.host
        /\ \A j \in DOMAIN Repositories : IsMatching(u, j) => Common(u, i) >= Common(u, j)
  BY <1>1, RepositoryIs
<1>4. /\ Common(u, i) \in 0..Len(u.path) /\ IsCommon(u.path, P(i), Common(u, i))
      /\ P(i) \in Seq(Letters) /\ Len(P(i)) \in Nat
  BY <1>3, RepositoryTypes
<1>5. \A j \in Above(u) : Common(u, i) >= Len(P(j))
  BY <1>1, <1>2, <1>3
<1>6. i \in Above(u)
  <2>1. PICK j \in Above(u) : TRUE
    OBVIOUS
  <2>2. Len(P(j)) <= Len(P(i)) /\ \A k \in 1..Len(P(j)) : P(j)[k] = P(i)[k]
    <3>1. Len(P(j)) \in Nat /\ Len(P(j)) <= Common(u, i) /\ Common(u, i) <= Len(P(i))
      BY <1>1, <1>4, <1>5 DEF IsCommon
    <3>2. \A k \in 1..Len(P(j)) : u.path[k] = P(i)[k]
      BY <1>4, <3>1 DEF IsCommon
    <3>3. QED
      BY <1>1, <1>4, <3>1, <3>2
  <2>3. IsPrefix(P(j), P(i))
    BY <1>1, <1>4, <2>2, RepositoryTypes, PrefixIs
  <2>4. QED
    BY <1>3, <2>1, <2>3 DEF AreApart, Repositories
<1>7. \A j \in Above(u) : Len(P(i)) >= Len(P(j))
  BY <1>2, <1>5, <1>6
<1>8. QED
  BY <1>3, <1>6, <1>7
-----------------------------------------------------------------------------
(* Passwords and tokens *)

Entry == [user : Users, password : Passwords \cup {None}]
Said ==
  [auth : {None} \cup [user : Users, password : Passwords], token : Passwords \cup {None},
   all : SUBSET (Users \X Passwords)]

KeptTypes ==
  /\ setting \in Settings /\ usable \in BOOLEAN
  /\ file \in [auth : {None} \cup Entry, token : Passwords \cup {None}]
  /\ ring \in [Users \cup {Token} -> Passwords \cup {None}]
  /\ command \in [pc : {"idle", "write"}, auth : {None} \cup Entry]
  /\ said \in Said
  /\ odd \subseteq {"empty", "lost", "switch"}

(* What will be in the file when the command that is at work is done.       *)
Pending == IF command.pc = "write" THEN command.auth ELSE file.auth

(* The keyring and what the file will be tell what was said.                *)
SaidIsKept ==
  odd = {} /\ NoEnv =>
    /\ ring[Empty] = None
    /\ said.auth = None => Pending = None
    /\ said.auth # None =>
         /\ said.auth.user # Empty
         /\ Pending = [user |-> said.auth.user, password |-> IF usable THEN None ELSE said.auth.password]
         /\ usable => ring[said.auth.user] = said.auth.password
    /\ IF usable THEN ring[Token] = said.token /\ file.token = None ELSE file.token = said.token

(* Each password is with the name that it was set with.                     *)
HasPair(a) == a # None /\ a.password # None => <<a.user, a.password>> \in said.all
PairsAreKept ==
  /\ \A u \in Users : ring[u] # None => <<u, ring[u]>> \in said.all
  /\ HasPair(file.auth) /\ HasPair(command.auth)

Kept == KeptTypes /\ SaidIsKept /\ PairsAreKept

LEMMA CredentialKinds ==
  /\ None \notin Users \cup Passwords /\ None \notin Entry
  /\ None # Token /\ None # "other"
  /\ Token \notin Users /\ "other" \notin Users /\ Empty \in Users
<1>1. None \notin Entry
  BY CredentialsAssumption DEF Entry, Credential
<1>2. QED
  BY <1>1, CredentialsAssumption DEF Users

LEMMA AuthTypes ==
  ASSUME KeptTypes
  PROVE  /\ GetHttpAuth.user \in Users \cup {None}
         /\ GetHttpAuth.password \in Passwords \cup {None}
         /\ GetHttpAuth = [user |-> GetHttpAuth.user, password |-> GetHttpAuth.password]
<1>1. /\ setting.env.user \in Users \cup {None}
      /\ setting.env.password \in Passwords \cup {None}
  BY CredentialsAssumption DEF KeptTypes, Setting
<1>2. file.auth # None => file.auth.user \in Users /\ file.auth.password \in Passwords \cup {None}
  BY DEF KeptTypes, Entry
<1>3. Username \in Users \cup {None} /\ FilePassword \in Passwords \cup {None}
  BY <1>1, <1>2 DEF Username, FilePassword, First
<1>4. RingEntry(Username) \in Passwords \cup {None}
  BY <1>3, CredentialKinds DEF RingEntry, KeptTypes
<1>5. QED
  BY <1>3, <1>4 DEF GetHttpAuth

LEMMA KeptStarts == CredentialsInit => Kept
BY CredentialKinds, CredentialsAssumption DEF CredentialsInit, Kept, KeptTypes, SaidIsKept, PairsAreKept, HasPair,
   Pending, Idle, Said, Setting

LEMMA SetHttpPasswordStep ==
  ASSUME Kept, NEW u \in Users, NEW p \in Passwords, SetHttpPassword(u, p)
  PROVE  Kept'
<1>1. /\ setting' = setting /\ usable' = usable /\ file' = file /\ command.pc = "idle"
      /\ ring' = IF usable THEN [ring EXCEPT ![u] = p] ELSE ring
      /\ command' = [pc |-> "write", auth |-> [user |-> u, password |-> IF usable THEN None ELSE p]]
      /\ said' = [said EXCEPT !.auth = [user |-> u, password |-> p], !.all = @ \cup {<<u, p>>}]
      /\ odd' = odd \cup (IF u = Empty THEN {"empty"} ELSE {})
  BY DEF SetHttpPassword, Begin, Others
<1>2. /\ said' \in Said /\ said'.auth = [user |-> u, password |-> p] /\ said'.token = said.token
      /\ said'.all = said.all \cup {<<u, p>>} /\ said'.auth # None
  <2>1. [user |-> u, password |-> p] \in Entry
    BY DEF Entry
  <2>2. [user |-> u, password |-> p] # None
    BY <2>1, CredentialKinds
  <2>3. said \in Said
    BY DEF Kept, KeptTypes
  <2>. DEFINE all == said.all \cup {<<u, p>>}
  <2>4. all \in SUBSET (Users \X Passwords)
    BY <2>3 DEF Said
  <2>5. said' = [said EXCEPT !.auth = [user |-> u, password |-> p], !.all = all]
    BY <1>1
  <2>. HIDE DEF all
  <2>6. said' = [auth |-> [user |-> u, password |-> p], token |-> said.token, all |-> all]
    BY <2>3, <2>5 DEF Said
  <2>7. QED
    BY <2>2, <2>3, <2>4, <2>6 DEF Said, all
<1>3. /\ ring' \in [Users \cup {Token} -> Passwords \cup {None}]
      /\ ring'[u] = IF usable THEN p ELSE ring[u]
      /\ \A v \in (Users \cup {Token}) \ {u} : ring'[v] = ring[v]
  BY <1>1 DEF Kept, KeptTypes
<1>4. KeptTypes'
  BY <1>1, <1>2, <1>3 DEF Kept, KeptTypes, Entry
<1>5. SaidIsKept'
  BY <1>1, <1>2, <1>3, CredentialKinds DEF Kept, SaidIsKept, Pending, NoEnv
<1>6. PairsAreKept'
  BY <1>1, <1>2, <1>3 DEF Kept, PairsAreKept, HasPair
<1>7. QED
  BY <1>4, <1>5, <1>6 DEF Kept

LEMMA DeleteHttpPasswordStep ==
  ASSUME Kept, NEW works \in BOOLEAN, DeleteHttpPassword(works)
  PROVE  Kept'
<1>. DEFINE user == GetHttpAuth.user
<1>1. /\ setting' = setting /\ usable' = usable /\ file' = file /\ odd' = odd /\ command.pc = "idle"
      /\ said' = [said EXCEPT !.auth = None]
      /\ \/ user = None /\ ring' = ring /\ command' = command
         \/ /\ user # None /\ command' = [pc |-> "write", auth |-> None]
            /\ ring' = IF works THEN [ring EXCEPT ![user] = None] ELSE ring
  BY DEF DeleteHttpPassword, Begin, Others
<1>2. user \in Users \cup {None}
  BY AuthTypes DEF Kept
<1>3. said' \in Said /\ said'.auth = None /\ said'.token = said.token /\ said'.all = said.all
  BY <1>1 DEF Kept, KeptTypes, Said
<1>4. /\ ring' \in [Users \cup {Token} -> Passwords \cup {None}]
      /\ \A v \in Users : ring'[v] \in {ring[v], None}
      /\ ring'[Token] = ring[Token]
  BY <1>1, <1>2, CredentialKinds DEF Kept, KeptTypes
<1>5. command' \in [pc : {"idle", "write"}, auth : {None} \cup Entry]
      /\ command'.auth \in {command.auth, None}
  BY <1>1 DEF Kept, KeptTypes
<1>. HIDE DEF user
<1>6. KeptTypes'
  BY <1>1, <1>3, <1>4, <1>5 DEF Kept, KeptTypes
<1>7. SaidIsKept'
  <2>. SUFFICES ASSUME odd = {}, NoEnv
                PROVE  /\ ring'[Empty] = None /\ Pending' = None
                       /\ IF usable THEN ring'[Token] = said.token /\ file.token = None
                          ELSE file.token = said.token
    BY <1>1, <1>3 DEF SaidIsKept, NoEnv
  <2>1. ring[Empty] = None
        /\ IF usable THEN ring[Token] = said.token /\ file.token = None ELSE file.token = said.token
    BY DEF Kept, SaidIsKept
  <2>2. CASE user = None
    <3>1. command' = command /\ Pending = file.auth /\ Pending' = file.auth
      BY <1>1, <2>2 DEF Pending
    <3>2. file.auth = None
      <4>. SUFFICES ASSUME file.auth # None PROVE FALSE
        OBVIOUS
      <4>1. file.auth.user # Empty /\ file.auth.user \in Users
        BY <3>1, CredentialKinds DEF Kept, SaidIsKept, KeptTypes, Entry
      <4>2. Username = file.auth.user
        BY DEF Username, First, NoEnv
      <4>3. user = file.auth.user
        BY <4>1, <4>2 DEF user, GetHttpAuth
      <4>4. QED
        BY <2>2, <4>1, <4>3, CredentialKinds
    <3>3. QED
      BY <1>4, <2>1, <3>1, <3>2, CredentialKinds
  <2>3. CASE user # None
    <3>1. Pending' = None
      BY <1>1, <2>3 DEF Pending
    <3>2. QED
      BY <1>4, <2>1, <3>1, CredentialKinds
  <2>4. QED
    BY <2>2, <2>3
<1>8. PairsAreKept'
  <2>1. \A v \in Users : ring'[v] # None => ring'[v] = ring[v]
    BY <1>4
  <2>2. QED
    BY <1>1, <1>3, <1>5, <2>1 DEF Kept, PairsAreKept, HasPair
<1>9. QED
  BY <1>6, <1>7, <1>8 DEF Kept

LEMMA WriteAuthStep ==
  ASSUME Kept, WriteAuth
  PROVE  Kept'
<1>1. /\ setting' = setting /\ usable' = usable /\ ring' = ring /\ said' = said /\ odd' = odd
      /\ command.pc = "write" /\ command' = [pc |-> "idle", auth |-> None]
      /\ file' = [file EXCEPT !.auth = command.auth]
  BY DEF WriteAuth, Others, Idle
<1>2. /\ file' \in [auth : {None} \cup Entry, token : Passwords \cup {None}]
      /\ file'.auth = command.auth /\ file'.token = file.token /\ command'.auth = None
  BY <1>1 DEF Kept, KeptTypes
<1>3. Pending' = Pending
  BY <1>1, <1>2 DEF Pending
<1>4. KeptTypes' /\ PairsAreKept'
  BY <1>1, <1>2 DEF Kept, KeptTypes, PairsAreKept, HasPair
<1>5. SaidIsKept'
  BY <1>1, <1>2, <1>3 DEF Kept, SaidIsKept, NoEnv
<1>6. QED
  BY <1>4, <1>5 DEF Kept

LEMMA AuthIsLostStep ==
  ASSUME Kept, AuthIsLost
  PROVE  Kept'
<1>1. /\ UNCHANGED <<setting, usable, ring, said, file>> /\ "lost" \in odd'
      /\ odd' \subseteq {"empty", "lost", "switch"} /\ command' = [pc |-> "idle", auth |-> None]
  BY DEF AuthIsLost, Others, Idle, Kept, KeptTypes
<1>2. KeptTypes' /\ PairsAreKept' /\ SaidIsKept'
  BY <1>1 DEF Kept, KeptTypes, PairsAreKept, HasPair, SaidIsKept
<1>3. QED
  BY <1>2 DEF Kept

LEMMA TokenStep ==
  ASSUME Kept, UNCHANGED <<setting, usable, command, odd>>,
         NEW t \in Passwords \cup {None}, said' = [said EXCEPT !.token = t],
         IF usable THEN ring' = [ring EXCEPT ![Token] = t] /\ UNCHANGED file
         ELSE file' = [file EXCEPT !.token = t] /\ UNCHANGED ring
  PROVE  Kept'
<1>1. said' \in Said /\ said'.auth = said.auth /\ said'.token = t /\ said'.all = said.all
  BY DEF Kept, KeptTypes, Said
<1>2. /\ ring' \in [Users \cup {Token} -> Passwords \cup {None}]
      /\ ring'[Token] = IF usable THEN t ELSE ring[Token]
      /\ \A v \in Users : ring'[v] = ring[v]
  BY CredentialKinds DEF Kept, KeptTypes
<1>3. /\ file' \in [auth : {None} \cup Entry, token : Passwords \cup {None}]
      /\ file'.token = (IF usable THEN file.token ELSE t) /\ file'.auth = file.auth
  BY DEF Kept, KeptTypes
<1>4. Pending' = Pending
  BY <1>3 DEF Pending
<1>5. KeptTypes' /\ PairsAreKept'
  BY <1>1, <1>2, <1>3 DEF Kept, KeptTypes, PairsAreKept, HasPair
<1>6. SaidIsKept'
  <2>1. said.auth # None => said.auth.user \in Users
    BY DEF Kept, KeptTypes, Said
  <2>2. QED
    BY <1>1, <1>2, <1>3, <1>4, <2>1, CredentialKinds DEF Kept, SaidIsKept, NoEnv
<1>7. QED
  BY <1>5, <1>6 DEF Kept

LEMMA SwitchStep ==
  ASSUME Kept, Switch
  PROVE  Kept'
<1>1. /\ UNCHANGED <<setting, ring, said, file, command>> /\ "switch" \in odd' /\ usable' \in BOOLEAN
      /\ odd' \subseteq {"empty", "lost", "switch"}
  BY DEF Switch, Kept, KeptTypes
<1>2. QED
  BY <1>1 DEF Kept, KeptTypes, PairsAreKept, HasPair, SaidIsKept

LEMMA KeptStep ==
  ASSUME Kept, CredentialsNext \/ UNCHANGED credentials
  PROVE  Kept' /\ setting' = setting
<1>1. CASE \E u \in Users, p \in Passwords : SetHttpPassword(u, p)
  BY <1>1, SetHttpPasswordStep DEF SetHttpPassword, Others
<1>2. CASE \E works \in BOOLEAN : DeleteHttpPassword(works)
  BY <1>2, DeleteHttpPasswordStep DEF DeleteHttpPassword, Others
<1>3. CASE WriteAuth \/ AuthIsLost \/ Switch
  BY <1>3, WriteAuthStep, AuthIsLostStep, SwitchStep DEF WriteAuth, AuthIsLost, Switch, Others
<1>4. CASE \E t \in Passwords : SetPypiToken(t)
  BY <1>4, TokenStep DEF SetPypiToken, Others
<1>5. CASE DeletePypiToken
  BY <1>5, TokenStep DEF DeletePypiToken, Others
<1>6. CASE \/ \E u \in setting.urls : Request(u)
           \/ TryAgain \/ GiveUp \/ Answer \/ EndSession \/ UNCHANGED credentials
  <2>1. UNCHANGED <<setting, usable, file, ring, command, said, odd>>
    BY <1>6 DEF Request, TryAgain, GiveUp, Answer, EndSession, Session, credentials
  <2>2. QED
    BY <2>1 DEF Kept, KeptTypes, SaidIsKept, Pending, NoEnv, PairsAreKept, HasPair
<1>7. QED
  BY <1>1, <1>2, <1>3, <1>4, <1>5, <1>6 DEF CredentialsNext
-----------------------------------------------------------------------------
(* Requests *)

AnyCredential == [user : Users \cup {None, "other"}, password : Passwords \cup {None, "other"}]
Entries == [url : Url, credential : AnyCredential]

IsOwn(u, c) ==
  RepositoryFor(u) # None => (c.user = "other" <=> RepositoryFor(u).name = "other")

Asked ==
  /\ cache \in Seq(Entries)
  /\ request \in [pc : {"idle", "send", "answered", "failed"}, url : Url \cup {None},
                 credential : AnyCredential, attempt : 0..MaxAttempts]
  /\ request.pc # "idle" => request.url \in Url /\ IsOwn(request.url, request.credential)
  /\ \A i \in DOMAIN cache : IsOwn(cache[i].url, cache[i].credential)

LEMMA OrNativeIs ==
  ASSUME setting \in Settings, NEW c \in AnyCredential
  PROVE  /\ OrNative(c) \in AnyCredential
         /\ c.user # "other" => OrNative(c).user # "other"
         /\ c.password # None => OrNative(c) = c
<1>1. setting.native \in Credential
  BY CredentialsAssumption DEF Setting
<1>2. setting.native \in AnyCredential /\ setting.native.user # "other"
  BY <1>1, CredentialKinds DEF Credential, AnyCredential
<1>3. [user |-> c.user, password |-> None] \in AnyCredential
  BY DEF AnyCredential
<1>4. QED
  BY <1>2, <1>3 DEF OrNative, Native

LEMMA CredentialForIs ==
  ASSUME KeptTypes, NEW u \in Url
  PROVE  CredentialFor(u) \in AnyCredential /\ IsOwn(u, CredentialFor(u))
<1>0. setting \in Settings
  BY DEF KeptTypes
<1>1. GetHttpAuth \in AnyCredential /\ GetHttpAuth.user # "other"
  BY AuthTypes, CredentialKinds DEF AnyCredential
<1>2. NoCredential \in AnyCredential
  BY DEF NoCredential, AnyCredential
<1>3. CASE RepositoryFor(u) = None
  BY <1>0, <1>2, <1>3, OrNativeIs DEF CredentialFor, IsOwn
<1>4. CASE RepositoryFor(u) # None
  <2>. DEFINE r == RepositoryFor(u)
              c == OfRepository(r)
  <2>1. r.name \in {"foo", "other"}
    BY <1>0, <1>4, RepositoryIs, RepositoryTypes
  <2>2. c \in AnyCredential /\ (c.user = "other" <=> r.name = "other") /\ (c.user = "other" => c.password # None)
    <3>1. CASE r.name = "foo"
      <4>1. c = OrNative(GetHttpAuth)
        BY <3>1 DEF OfRepository
      <4>2. QED
        BY <1>0, <1>1, <3>1, <4>1, OrNativeIs
    <3>2. CASE r.name = "other"
      <4>1. c = [user |-> "other", password |-> "other"]
        BY <3>2 DEF OfRepository
      <4>2. QED
        BY <3>2, <4>1, CredentialKinds DEF AnyCredential
    <3>3. QED
      BY <2>1, <3>1, <3>2
  <2>3. CredentialFor(u) = OrNative(c)
    BY <1>4 DEF CredentialFor
  <2>. HIDE DEF c
  <2>4. QED
    BY <1>0, <2>2, <2>3, OrNativeIs DEF IsOwn
<1>5. QED
  BY <1>3, <1>4

LEMMA CredentialsForUrlIs ==
  ASSUME KeptTypes, Asked, NEW u \in Url
  PROVE  GetCredentialsForUrl(u) \in AnyCredential /\ IsOwn(u, GetCredentialsForUrl(u))
<1>1. CASE IsCached(u)
  <2>1. Cached(u) \in DOMAIN cache /\ cache[Cached(u)].url = u
    BY <1>1 DEF IsCached, Cached
  <2>2. cache[Cached(u)] \in Entries
    BY <2>1 DEF Asked
  <2>3. QED
    BY <1>1, <2>1, <2>2 DEF GetCredentialsForUrl, Asked, Entries
<1>2. CASE ~ IsCached(u)
  BY <1>2, CredentialForIs DEF GetCredentialsForUrl
<1>3. QED
  BY <1>1, <1>2

(* Whose a credential is depends on the repositories alone.                *)
LEMMA OwnStays ==
  ASSUME setting' = setting, NEW u, NEW c
  PROVE  IsOwn(u, c)' <=> IsOwn(u, c)
BY DEF IsOwn, RepositoryFor, FirstOf

LEMMA AskedStarts == CredentialsInit => Asked
BY CredentialKinds DEF CredentialsInit, Asked, NoRequest, NoCredential, AnyCredential, MaxAttempts

LEMMA AskedStep ==
  ASSUME KeptTypes, Asked, setting' = setting, CredentialsNext \/ UNCHANGED credentials
  PROVE  Asked'
<1>1. CASE UNCHANGED <<request, cache>>
  BY <1>1, OwnStays DEF Asked
<1>2. ASSUME NEW u \in setting.urls, Request(u)
      PROVE  Asked'
  <2>. DEFINE c == GetCredentialsForUrl(u)
              entry == [url |-> u, credential |-> c]
  <2>1. u \in Url
    BY CredentialsAssumption DEF KeptTypes, Setting
  <2>2. c \in AnyCredential /\ IsOwn(u, c)
    BY <2>1, CredentialsForUrlIs
  <2>3. entry \in Entries /\ entry.url = u /\ entry.credential = c
    BY <2>1, <2>2 DEF Entries
  <2>4. request' = [pc |-> "send", url |-> u, credential |-> c, attempt |-> 0]
        /\ cache' \in {cache, Append(cache, entry)}
    BY <1>2 DEF Request
  <2>. HIDE DEF c, entry
  <2>5. cache' \in Seq(Entries) /\ \A i \in DOMAIN cache' : cache'[i] = entry \/ (i \in DOMAIN cache /\ cache'[i] = cache[i])
    BY <2>3, <2>4, SMTT(30) DEF Asked
  <2>6. \A i \in DOMAIN cache' : IsOwn(cache'[i].url, cache'[i].credential)
    BY <2>2, <2>3, <2>5 DEF Asked
  <2>7. request' \in [pc : {"idle", "send", "answered", "failed"}, url : Url \cup {None},
                    credential : AnyCredential, attempt : 0..MaxAttempts]
    BY <2>1, <2>2, <2>4 DEF MaxAttempts
  <2>8. IsOwn(request'.url, request'.credential) /\ request'.url \in Url
    BY <2>1, <2>2, <2>4
  <2>9. QED
    BY <2>5, <2>6, <2>7, <2>8, OwnStays DEF Asked
<1>3. CASE TryAgain
  <2>1. /\ request.pc = "send" /\ ~ (request.attempt >= MaxAttempts) /\ cache' = cache
        /\ request' = [request EXCEPT !.attempt = @ + 1]
    BY <1>3 DEF TryAgain, IsLastAttempt
  <2>2. /\ request' \in [pc : {"idle", "send", "answered", "failed"}, url : Url \cup {None},
                       credential : AnyCredential, attempt : 0..MaxAttempts]
        /\ request'.url = request.url /\ request'.credential = request.credential
    BY <2>1 DEF Asked, MaxAttempts
  <2>3. QED
    BY <2>1, <2>2, OwnStays DEF Asked
<1>4. CASE GiveUp \/ Answer
  <2>1. /\ request.pc = "send" /\ cache' = cache
        /\ \E pc \in {"failed", "answered"} : request' = [request EXCEPT !.pc = pc]
    BY <1>4 DEF GiveUp, Answer
  <2>2. /\ request' \in [pc : {"idle", "send", "answered", "failed"}, url : Url \cup {None},
                       credential : AnyCredential, attempt : 0..MaxAttempts]
        /\ request'.url = request.url /\ request'.credential = request.credential
    BY <2>1 DEF Asked
  <2>3. QED
    BY <2>1, <2>2, OwnStays DEF Asked
<1>5. CASE EndSession
  <2>1. request' = NoRequest /\ cache' = << >>
    BY <1>5 DEF EndSession
  <2>2. QED
    BY <2>1, CredentialKinds DEF Asked, NoRequest, NoCredential, AnyCredential, MaxAttempts
<1>6. QED
  BY <1>1, <1>2, <1>3, <1>4, <1>5 DEF CredentialsNext, SetHttpPassword, DeleteHttpPassword, WriteAuth,
     AuthIsLost, SetPypiToken, DeletePypiToken, Switch, Others, credentials
-----------------------------------------------------------------------------
(* Credentials are theirs *)

LEMMA SetIsUsedThen ==
  ASSUME Kept
  PROVE  SetIsUsed /\ NoMixture
<1>. USE CredentialKinds
<1>1. /\ said.auth # None => /\ said.auth.user \in Users /\ said.auth.password \in Passwords
                             /\ said.auth = [user |-> said.auth.user, password |-> said.auth.password]
      /\ file.auth # None => file.auth.user \in Users
      /\ setting.env.token \in Passwords \cup {None} /\ file.token \in Passwords \cup {None}
  BY CredentialsAssumption DEF Kept, KeptTypes, Said, Entry, Setting
<1>2. SetIsUsed
  <2>. SUFFICES ASSUME command.pc = "idle", odd = {}, NoEnv
                PROVE  /\ GetHttpAuth = IF said.auth = None THEN NoCredential ELSE said.auth
                       /\ GetPypiToken = said.token
    BY DEF SetIsUsed
  <2>1. setting.env.user = None /\ setting.env.password = None /\ setting.env.token = None
    BY DEF NoEnv
  <2>2. GetPypiToken = said.token
    BY <2>1 DEF GetPypiToken, First, Kept, SaidIsKept
  <2>3. Pending = file.auth
    BY DEF Pending
  <2>4. CASE said.auth = None
    <3>1. file.auth = None /\ ring[Empty] = None
      BY <2>3, <2>4 DEF Kept, SaidIsKept
    <3>2. Username = None /\ FilePassword = None /\ RingEntry(Username) = None
      BY <2>1, <3>1 DEF Username, FilePassword, First, RingEntry
    <3>3. GetHttpAuth = [user |-> None, password |-> None]
      BY <3>2 DEF GetHttpAuth
    <3>4. QED
      BY <2>4, <2>2, <3>3 DEF NoCredential
  <2>5. CASE said.auth # None
    <3>1. /\ said.auth.user # Empty
          /\ file.auth = [user |-> said.auth.user, password |-> IF usable THEN None ELSE said.auth.password]
          /\ usable => ring[said.auth.user] = said.auth.password
      BY <2>3, <2>5 DEF Kept, SaidIsKept
    <3>2. file.auth # None
      <4>1. file.auth \in Entry
        BY <1>1, <2>5, <3>1 DEF Entry
      <4>2. QED
        BY <4>1
    <3>3. Username = said.auth.user /\ FilePassword = IF usable THEN None ELSE said.auth.password
      BY <2>1, <3>1, <3>2 DEF Username, FilePassword, First
    <3>4. said.auth.user # None /\ said.auth.password # None
      BY <1>1, <2>5
    <3>5. GetHttpAuth = [user |-> said.auth.user, password |-> said.auth.password]
      BY <3>1, <3>3, <3>4 DEF GetHttpAuth, RingEntry
    <3>6. QED
      BY <1>1, <2>5, <2>2, <3>5
  <2>6. QED
    BY <2>4, <2>5
<1>3. NoMixture
  <2>. SUFFICES ASSUME NoEnv, GetHttpAuth.user # None, GetHttpAuth.password # None
                PROVE  <<GetHttpAuth.user, GetHttpAuth.password>> \in said.all
    BY DEF NoMixture
  <2>1. setting.env.user = None /\ setting.env.password = None
    BY DEF NoEnv
  <2>2. GetHttpAuth.user = Username /\ Username # None
    BY DEF GetHttpAuth
  <2>3. file.auth # None /\ Username = file.auth.user /\ FilePassword = file.auth.password
    BY <2>1, <2>2 DEF Username, FilePassword, First
  <2>4. CASE FilePassword # None
    <3>1. GetHttpAuth.password = FilePassword
      BY <2>4 DEF GetHttpAuth
    <3>2. QED
      BY <2>2, <2>3, <2>4, <3>1 DEF Kept, PairsAreKept, HasPair
  <2>5. CASE FilePassword = None
    <3>1. usable /\ GetHttpAuth.password = ring[Username]
      BY <2>2, <2>5 DEF GetHttpAuth, RingEntry
    <3>2. QED
      BY <1>1, <2>2, <2>3, <3>1 DEF Kept, PairsAreKept
  <2>6. QED
    BY <2>4, <2>5
<1>4. QED
  BY <1>2, <1>3

LEMMA CredentialsAreRightThen ==
  ASSUME Kept, Asked
  PROVE  CredentialsAreRight
<1>1. CredentialsTypeOK
  <2>1. file.token \in Passwords \cup {None} /\ (file.auth = None \/ file.auth \in Credential)
    BY DEF Kept, KeptTypes, Entry, Credential
  <2>2. request.attempt \in 0..MaxAttempts
    BY DEF Asked
  <2>3. QED
    BY <2>1, <2>2 DEF Kept, KeptTypes, CredentialsTypeOK
<1>2. RequestIsOwn
  BY DEF Asked, IsOwn, RequestIsOwn
<1>3. ApartIsSpecific
  <2>. SUFFICES ASSUME request.pc # "idle", AreApart(request.url), Above(request.url) # {}
                PROVE  \E i \in Above(request.url) :
                         /\ RepositoryFor(request.url) = setting.repositories[i]
                         /\ \A j \in Above(request.url) :
                              Len(setting.repositories[i].path) >= Len(setting.repositories[j].path)
    BY DEF ApartIsSpecific, MostSpecificIsUsed
  <2>1. setting \in Settings /\ request.url \in Url
    BY DEF Kept, KeptTypes, Asked
  <2>2. QED
    BY <2>1, LongestIsUsed DEF Repositories
<1>4. QED
  BY <1>1, <1>2, <1>3, SetIsUsedThen DEF CredentialsAreRight

LEMMA PublishingAsksNothing ==
  ASSUME [Next]_vars
  PROVE  CredentialsNext \/ UNCHANGED credentials
BY DEF Next, vars, Publish, PublishSteps, Decline, Build, List, NoFile, DryRun, Upload, Refused, Register,
   RequestIsLost, Crash, DistIsChanged, NoCommand

(* Whatever poetry config is told, however often the keyring comes and goes  *)
(* and writing auth.toml fails: no password is used with another's name,     *)
(* what was set is used as long as nothing of that happens, and a request,   *)
(* the cache of the session asked or not, gets the credentials of its own    *)
(* repository, the one with the longest path if the others are apart from    *)
(* those that the URL is below.                                              *)
THEOREM CredentialsAreTheirs == Spec => []CredentialsAreRight
<1>1. Init => Kept /\ Asked
  BY KeptStarts, AskedStarts DEF Init
<1>2. Kept /\ Asked /\ [Next]_vars => (Kept /\ Asked)'
  BY PublishingAsksNothing, KeptStep, AskedStep DEF Kept
<1>3. Kept /\ Asked => CredentialsAreRight
  BY CredentialsAreRightThen
<1>4. QED
  BY <1>1, <1>2, <1>3, PTL DEF Spec
-----------------------------------------------------------------------------
(* The files that are uploaded *)

Lists ==
  {<< >>} \cup {<<f>> : f \in File}
          \cup {<< <<v, "sdist">>, <<v, "wheel">> >> : v \in Versions}

Pcs == {"idle", "sdist", "wheel", "list", "upload", "done", "failed"}
Commands(c) ==
  [pc : Pcs, options : OptionSets \cup {None}, files : Lists, at : Nat, credential : {c}, disturbed : BOOLEAN]

PublishTypes ==
  /\ server \in [is : Server, files : [File -> Builds \cup {None}], registered : BOOLEAN]
  /\ dist \in [File -> Builds \cup {None}]
  /\ publish \in Commands(publish.credential)

(* The list is made once, from what is in dist/, and gone through in order.  *)
ListIsFollowed ==
  /\ publish.files # << >> \/ publish.pc # "idle" => publish.options \in OptionSets
  /\ publish.pc \in {"sdist", "wheel", "list"} => publish.files = << >>
  /\ publish.pc = "upload" =>
       /\ publish.at \in 1..Len(publish.files)
       /\ ~ publish.disturbed => \A i \in DOMAIN publish.files : dist[publish.files[i]] # None
  /\ publish.pc = "done" => publish.at = Len(publish.files) + 1

(* What has been gone through is on the server, which keeps what it has.    *)
PassedIsThere ==
  \A i \in DOMAIN publish.files :
    i < publish.at /\ ~ IsDry => server.files[publish.files[i]] # None

RegisteredStays == server.is.registered => server.registered

Followed == PublishTypes /\ ListIsFollowed /\ PassedIsThere /\ RegisteredStays /\ FailsWithReason

LEMMA ListsAre ==
  ASSUME NEW fs \in Lists
  PROVE  /\ fs \in Seq(File) /\ DOMAIN fs = 1..Len(fs) /\ Len(fs) \in {0, 1, 2}
         /\ \A i \in DOMAIN fs : fs[i] \in File
         /\ \A i, j \in DOMAIN fs : fs[i][1] = fs[j][1]
         /\ \A i, j \in DOMAIN fs : fs[i][2] = "wheel" /\ fs[j][2] = "sdist" => j < i
<1>1. CASE fs = << >>
  BY <1>1
<1>2. ASSUME NEW f \in File, fs = <<f>>
      PROVE  /\ fs \in Seq(File) /\ DOMAIN fs = 1..1 /\ Len(fs) = 1 /\ fs[1] = f
  BY <1>2
<1>3. ASSUME NEW v \in Versions, fs = << <<v, "sdist">>, <<v, "wheel">> >>
      PROVE  /\ fs \in Seq(File) /\ DOMAIN fs = 1..2 /\ Len(fs) = 2
             /\ fs[1] = <<v, "sdist">> /\ fs[2] = <<v, "wheel">>
             /\ fs[1] \in File /\ fs[2] \in File
  <2>1. <<v, "sdist">> \in File /\ <<v, "wheel">> \in File
    BY DEF File, Kinds
  <2>2. QED
    BY <1>3, <2>1
<1>4. CASE \E f \in File : fs = <<f>>
  BY <1>2, <1>4
<1>5. CASE \E v \in Versions : fs = << <<v, "sdist">>, <<v, "wheel">> >>
  <2>1. PICK v \in Versions : fs = << <<v, "sdist">>, <<v, "wheel">> >>
    BY <1>5
  <2>2. /\ fs \in Seq(File) /\ DOMAIN fs = 1..2 /\ Len(fs) = 2
        /\ fs[1] \in File /\ fs[2] \in File
        /\ fs[1][1] = v /\ fs[2][1] = v /\ fs[1][2] = "sdist" /\ fs[2][2] = "wheel"
    BY <1>3, <2>1
  <2>3. QED
    BY <2>2
<1>6. QED
  BY <1>1, <1>4, <1>5 DEF Lists

LEMMA TwoInARow ==
  ASSUME NEW a, NEW b
  PROVE  <<a>> \o <<b>> = <<a, b>>
<1>. DEFINE s == <<a>> \o <<b>>
            t == <<a, b>>
<1>1. /\ <<a>> \in Seq({a, b}) /\ <<b>> \in Seq({a, b})
      /\ t \in Seq({a, b}) /\ Len(t) = 2 /\ t[1] = a /\ t[2] = b
  OBVIOUS
<1>2. s \in Seq({a, b}) /\ Len(s) = 2 /\ s[1] = t[1] /\ s[2] = t[2]
  BY <1>1
<1>. HIDE DEF s, t
<1>3. s = [i \in 1..2 |-> s[i]] /\ t = [i \in 1..2 |-> t[i]]
  BY <1>1, <1>2
<1>4. \A i \in 1..2 : s[i] = t[i]
  BY <1>2
<1>5. s = t
  BY <1>3, <1>4
<1>6. QED
  BY <1>5 DEF s, t

LEMMA FilesToPublishAre ==
  ASSUME NEW fs \in SUBSET File
  PROVE  FilesToPublish(fs) \in Lists /\ \A i \in DOMAIN FilesToPublish(fs) : FilesToPublish(fs)[i] \in fs
<1>. DEFINE v == Latest(fs)
            sdist == <<v, "sdist">>
            binary == <<v, "wheel">>
<1>1. CASE fs = {}
  BY <1>1 DEF FilesToPublish, Lists
<1>2. CASE fs # {}
  <2>1. FilesToPublish(fs) = IfThere(sdist, fs) \o IfThere(binary, fs)
    BY <1>2 DEF FilesToPublish
  <2>2. sdist \in fs => v \in Versions
    BY DEF File
  <2>3. /\ IfThere(sdist, fs) = IF sdist \in fs THEN <<sdist>> ELSE << >>
        /\ IfThere(binary, fs) = IF binary \in fs THEN <<binary>> ELSE << >>
    BY DEF IfThere
  <2>4. \/ FilesToPublish(fs) = << >>
        \/ FilesToPublish(fs) = <<sdist>> /\ sdist \in fs
        \/ FilesToPublish(fs) = <<binary>> /\ binary \in fs
        \/ FilesToPublish(fs) = <<sdist, binary>> /\ sdist \in fs /\ binary \in fs
    <3>. HIDE DEF sdist, binary
    <3>1. <<sdist>> \o <<binary>> = <<sdist, binary>>
      BY TwoInARow
    <3>2. <<sdist>> \in Seq({sdist}) /\ <<binary>> \in Seq({binary}) /\ << >> \in Seq({sdist})
      OBVIOUS
    <3>3. << >> \o <<binary>> = <<binary>> /\ <<sdist>> \o << >> = <<sdist>> /\ << >> \o << >> = << >>
      BY <3>2
    <3>4. QED
      BY <2>1, <2>3, <3>1, <3>3
  <2>5. FilesToPublish(fs) \in Lists
    BY <2>2, <2>4 DEF Lists
  <2>6. QED
    <3>. HIDE DEF sdist, binary
    <3>1. QED
      BY <2>4, <2>5
<1>3. QED
  BY <1>1, <1>2

LEMMA CurrentIs ==
  ASSUME PublishTypes, ListIsFollowed, Uploading
  PROVE  /\ publish.at \in DOMAIN publish.files /\ Current \in File /\ Current = publish.files[publish.at]
         /\ publish.files # << >> /\ publish.options \in OptionSets
<1>1. publish.at \in 1..Len(publish.files) /\ publish.files \in Lists /\ DOMAIN publish.files = 1..Len(publish.files)
  BY ListsAre DEF PublishTypes, Commands, ListIsFollowed, Uploading
<1>2. publish.files # << >>
  BY <1>1
<1>3. QED
  BY <1>1, <1>2, ListsAre DEF Current, ListIsFollowed

LEMMA ResponseIs ==
  /\ Response = "forbidden" => publish.credential # server.is.accepted
  /\ Response = "never registered" => ~ server.registered
  /\ Response = "exists" => server.files[Current] # None
  /\ Response \in {"forbidden", "never registered", "exists", "stored"}
BY DEF Response, Exists

(* The command is at another point: the rest of it is as before.            *)
LEMMA ToIs ==
  ASSUME PublishTypes, NEW pc \in Pcs, NEW k \in Nat, NEW disturbed \in BOOLEAN,
         publish' = [publish EXCEPT !.pc = pc, !.at = k, !.disturbed = disturbed]
  PROVE  /\ publish' \in Commands(publish'.credential)
         /\ publish'.pc = pc /\ publish'.files = publish.files /\ publish'.at = k
         /\ publish'.credential = publish.credential
         /\ publish'.disturbed = disturbed /\ publish'.options = publish.options
<1>1. publish \in Commands(publish.credential)
  BY DEF PublishTypes
<1>2. /\ publish'.pc = pc /\ publish'.files = publish.files /\ publish'.at = k
      /\ publish'.credential = publish.credential
      /\ publish'.disturbed = disturbed /\ publish'.options = publish.options
  BY <1>1 DEF Commands
<1>3. publish' \in Commands(publish'.credential)
  BY <1>1, <1>2 DEF Commands
<1>4. QED
  BY <1>2, <1>3

(* Without a list there is nothing to follow.                               *)
LEMMA NothingIsListed ==
  ASSUME Followed, PublishTypes', publish'.files = << >>, publish'.pc \notin {"upload", "done"},
         publish'.options \in OptionSets, server' = server
  PROVE  Followed'
<1>1. DOMAIN publish'.files = {}
  OBVIOUS
<1>2. QED
  BY <1>1 DEF Followed, ListIsFollowed, PassedIsThere, RegisteredStays, FailsWithReason

LEMMA PublishStep ==
  ASSUME Followed, NEW o \in OptionSets, Publish(o)
  PROVE  Followed'
<1>1. /\ publish' = [pc |-> IF o.build THEN "sdist" ELSE "list", options |-> o, files |-> << >>, at |-> 0,
                     credential |-> NoCredential, disturbed |-> FALSE]
      /\ UNCHANGED <<server, dist>>
  BY DEF Publish, NotPublishing
<1>2. PublishTypes'
  BY <1>1 DEF Followed, PublishTypes, Commands, Pcs, Lists
<1>3. QED
  BY <1>1, <1>2, NothingIsListed

LEMMA BuildStep ==
  ASSUME Followed, Decline \/ Build("sdist", "wheel") \/ Build("wheel", "list")
  PROVE  Followed'
<1>1. PICK pc \in {"failed", "wheel", "list"} : publish' = [publish EXCEPT !.pc = pc]
  BY DEF Decline, Build, To
<1>2. publish.pc \in {"sdist", "wheel"} /\ server' = server
  BY DEF Decline, Build
<1>3. publish' = [publish EXCEPT !.pc = pc, !.at = publish.at, !.disturbed = publish.disturbed]
  BY <1>1 DEF Followed, PublishTypes, Commands
<1>4. publish.at \in Nat /\ publish.disturbed \in BOOLEAN /\ PublishTypes
  BY DEF Followed, PublishTypes, Commands
<1>5. publish' \in Commands(publish'.credential) /\ publish'.pc = pc /\ publish'.files = publish.files
      /\ publish'.options = publish.options
  BY <1>1, <1>3, <1>4, ToIs DEF Pcs
<1>6. dist' \in [File -> Builds \cup {None}]
  BY DEF Followed, PublishTypes, Decline, Build, Builds
<1>7. PublishTypes'
  BY <1>2, <1>5, <1>6 DEF Followed, PublishTypes
<1>8. publish.files = << >> /\ publish'.options \in OptionSets
  BY <1>2, <1>5 DEF Followed, ListIsFollowed
<1>9. QED
  BY <1>1, <1>2, <1>5, <1>7, <1>8, NothingIsListed

LEMMA ListStep ==
  ASSUME Followed, List
  PROVE  Followed'
<1>. DEFINE fs == FilesToPublish(In(dist))
            pc == IF fs = << >> THEN "failed" ELSE "upload"
<1>1. /\ publish' = [publish EXCEPT !.pc = pc, !.files = fs, !.at = 1, !.credential = CredentialToPublish]
      /\ UNCHANGED <<server, dist>> /\ publish.pc = "list"
  BY DEF List
<1>2. fs \in Lists /\ \A i \in DOMAIN fs : fs[i] \in In(dist)
  BY FilesToPublishAre DEF In
<1>3. fs # << >> => 1 \in 1..Len(fs)
  BY <1>2, ListsAre DEF Lists
<1>4. \A i \in DOMAIN fs : dist[fs[i]] # None
  BY <1>2 DEF In
<1>5. pc \in Pcs /\ (pc = "upload" <=> fs # << >>) /\ pc \in {"failed", "upload"}
  BY DEF Pcs
<1>. HIDE DEF fs, pc
<1>6. publish \in Commands(publish.credential) /\ publish.disturbed \in BOOLEAN
  BY DEF Followed, PublishTypes, Commands
<1>7. /\ publish'.pc = pc /\ publish'.files = fs /\ publish'.at = 1
      /\ publish'.disturbed = publish.disturbed /\ publish'.options = publish.options
  BY <1>1, <1>6 DEF Commands
<1>8. publish' \in Commands(publish'.credential)
  BY <1>1, <1>2, <1>5, <1>6, <1>7 DEF Commands
<1>9. PublishTypes'
  BY <1>1, <1>8 DEF Followed, PublishTypes
<1>10. publish.options \in OptionSets
  BY <1>1 DEF Followed, ListIsFollowed
<1>11. ListIsFollowed'
  BY <1>1, <1>3, <1>4, <1>5, <1>7, <1>10 DEF ListIsFollowed
<1>12. PassedIsThere'
  <2>1. \A i \in DOMAIN fs : ~ i < 1
    BY <1>2, ListsAre
  <2>2. QED
    BY <1>7, <2>1 DEF PassedIsThere
<1>13. RegisteredStays' /\ FailsWithReason'
  BY <1>1, <1>5, <1>7 DEF Followed, RegisteredStays, FailsWithReason
<1>14. QED
  BY <1>9, <1>11, <1>12, <1>13 DEF Followed

(* A file that is on the server after all, or need not be, is gone past.    *)
LEMMA ProceedStep ==
  ASSUME Followed, Uploading, Proceed, dist' = dist,
         server' = server \/ Stored, dist[Current] # None,
         IsDry \/ server'.files[Current] # None
  PROVE  Followed'
<1>1. PublishTypes /\ ListIsFollowed
  BY DEF Followed
<1>2. /\ publish.at \in DOMAIN publish.files /\ Current \in File /\ Current = publish.files[publish.at]
      /\ publish.files # << >> /\ publish.options \in OptionSets
  BY <1>1, CurrentIs
<1>3. publish.at \in Nat /\ publish.files \in Lists /\ publish.disturbed \in BOOLEAN
      /\ publish' = [publish EXCEPT !.pc = NextPc, !.at = publish.at + 1, !.disturbed = publish.disturbed]
  BY <1>1 DEF PublishTypes, Commands, Proceed
<1>4. NextPc \in Pcs
  BY DEF NextPc, Pcs
<1>5. /\ publish' \in Commands(publish'.credential)
      /\ publish'.pc = NextPc /\ publish'.files = publish.files /\ publish'.at = publish.at + 1
      /\ publish'.disturbed = publish.disturbed /\ publish'.options = publish.options
  <2>. HIDE DEF NextPc
  <2>1. publish.at + 1 \in Nat
    BY <1>3
  <2>2. QED
    BY ONLY <1>1, <1>3, <1>4, <2>1, ToIs, Zenon
<1>6. /\ server' \in [is : Server, files : [File -> Builds \cup {None}], registered : BOOLEAN]
      /\ server'.is = server.is /\ server'.registered = server.registered
      /\ \A f \in File : server.files[f] # None => server'.files[f] # None
  BY <1>1, <1>2 DEF PublishTypes, Stored
<1>7. DOMAIN publish.files = 1..Len(publish.files) /\ Len(publish.files) \in Nat
      /\ \A i \in DOMAIN publish.files : publish.files[i] \in File
  BY <1>3, ListsAre
<1>8. PublishTypes'
  BY <1>1, <1>5, <1>6 DEF PublishTypes
<1>9. ListIsFollowed'
  <2>1. publish.pc = "upload"
    BY DEF Uploading
  <2>2. CASE publish.at = Len(publish.files)
    BY <1>2, <1>5, <2>2 DEF NextPc, ListIsFollowed
  <2>3. CASE publish.at # Len(publish.files)
    <3>1. publish'.pc = "upload" /\ publish.at + 1 \in 1..Len(publish.files)
      BY <1>2, <1>3, <1>5, <1>7, <2>3 DEF NextPc
    <3>2. QED
      BY <1>1, <1>2, <1>5, <2>1, <3>1 DEF ListIsFollowed
  <2>4. QED
    BY <2>2, <2>3
<1>10. PassedIsThere'
  <2>. SUFFICES ASSUME NEW i \in DOMAIN publish.files, i < publish.at + 1, ~ IsDry
                PROVE  server'.files[publish.files[i]] # None
    BY <1>5 DEF PassedIsThere, IsDry
  <2>1. i = publish.at \/ i < publish.at
    BY <1>3, <1>7
  <2>2. QED
    BY <1>2, <1>6, <1>7, <2>1 DEF Followed, PassedIsThere
<1>11. RegisteredStays' /\ FailsWithReason'
  BY <1>5, <1>6 DEF Followed, RegisteredStays, FailsWithReason, NextPc
<1>12. QED
  BY <1>8, <1>9, <1>10, <1>11 DEF Followed

(* The command stops, or goes on with another dist/.                        *)
LEMMA StopStep ==
  ASSUME Followed, NEW pc \in Pcs, NEW disturbed \in BOOLEAN,
         publish' = [publish EXCEPT !.pc = pc, !.disturbed = disturbed],
         publish.pc \notin {"idle", "done", "failed"},
         pc \in {"idle", "failed"} \/ (disturbed /\ pc = publish.pc),
         dist' \in [File -> Builds \cup {None}],
         server' \in [is : Server, files : [File -> Builds \cup {None}], registered : BOOLEAN],
         server'.is = server.is, server.registered => server'.registered,
         \A f \in File : server.files[f] # None => server'.files[f] # None,
         disturbed \/ (pc = "failed" /\ (\/ publish.credential # server.is.accepted
                                         \/ ~ server.is.registered \/ ~ publish.options.skip))
  PROVE  Followed'
<1>1. PublishTypes /\ ListIsFollowed
  BY DEF Followed
<1>2. publish.at \in Nat /\ publish.files \in Lists
      /\ publish' = [publish EXCEPT !.pc = pc, !.at = publish.at, !.disturbed = disturbed]
  BY <1>1 DEF PublishTypes, Commands
<1>3. /\ publish' \in Commands(publish'.credential)
      /\ publish'.pc = pc /\ publish'.files = publish.files /\ publish'.at = publish.at
      /\ publish'.credential = publish.credential
      /\ publish'.disturbed = disturbed /\ publish'.options = publish.options
  <2>1. pc \in Pcs /\ disturbed \in BOOLEAN
    OBVIOUS
  <2>2. QED
    BY ONLY <1>1, <1>2, <2>1, ToIs, Zenon
<1>4. PublishTypes'
  BY <1>3 DEF PublishTypes
<1>5. ListIsFollowed'
  BY <1>1, <1>3 DEF ListIsFollowed
<1>6. PassedIsThere'
  <2>1. \A i \in DOMAIN publish.files : publish.files[i] \in File
    BY <1>2, ListsAre
  <2>2. QED
    BY <1>3, <2>1 DEF Followed, PassedIsThere, IsDry
<1>7. RegisteredStays'
  BY DEF Followed, RegisteredStays
<1>8. FailsWithReason'
  BY <1>3 DEF FailsWithReason
<1>9. QED
  BY <1>4, <1>5, <1>6, <1>7, <1>8 DEF Followed

LEMMA UploadStep ==
  ASSUME Followed, NoFile \/ DryRun \/ Upload \/ Refused \/ Register
  PROVE  Followed'
<1>1. Uploading /\ publish.pc = "upload"
  BY DEF NoFile, DryRun, Upload, Refused, Register, Posts, Uploading
<1>2. PublishTypes /\ ListIsFollowed
  BY DEF Followed
<1>3. /\ publish.at \in DOMAIN publish.files /\ Current \in File /\ Current = publish.files[publish.at]
      /\ publish.disturbed \in BOOLEAN
  BY <1>1, <1>2, CurrentIs DEF PublishTypes, Commands
<1>4. /\ server \in [is : Server, files : [File -> Builds \cup {None}], registered : BOOLEAN]
      /\ dist \in [File -> Builds \cup {None}]
  BY <1>2 DEF PublishTypes
<1>5. ASSUME publish' = [publish EXCEPT !.pc = "failed"], dist' = dist,
             server' \in {server, [server EXCEPT !.registered = TRUE]},
             \/ publish.disturbed \/ publish.credential # server.is.accepted
             \/ ~ server.is.registered \/ ~ publish.options.skip
      PROVE  Followed'
  <2>1. publish' = [publish EXCEPT !.pc = "failed", !.disturbed = publish.disturbed]
    BY <1>2, <1>5 DEF PublishTypes, Commands
  <2>2. /\ server' \in [is : Server, files : [File -> Builds \cup {None}], registered : BOOLEAN]
        /\ server'.is = server.is /\ server'.files = server.files /\ server.registered => server'.registered
    BY <1>4, <1>5
  <2>3. "failed" \in Pcs
    BY DEF Pcs
  <2>4. QED
    BY <1>1, <1>3, <1>4, <1>5, <2>1, <2>2, <2>3, StopStep
<1>6. CASE NoFile
  <2>1. publish.disturbed
    BY <1>1, <1>2, <1>3, <1>6 DEF NoFile, ListIsFollowed
  <2>2. QED
    BY <1>5, <1>6, <2>1 DEF NoFile, To
<1>7. CASE DryRun
  BY <1>1, <1>7, ProceedStep DEF DryRun
<1>8. CASE Upload
  <2>1. server'.files[Current] = dist[Current]
    BY <1>3, <1>4, <1>8 DEF Upload, Stored
  <2>2. QED
    BY <1>1, <1>8, <2>1, ProceedStep DEF Upload, Posts
<1>9. CASE Refused /\ IsSkipped
  BY <1>1, <1>9, ResponseIs, ProceedStep DEF Refused, Posts, IsSkipped
<1>10. CASE Refused /\ ~ IsSkipped
  <2>1. publish' = [publish EXCEPT !.pc = "failed"] /\ dist' = dist /\ server' = server
    BY <1>10 DEF Refused, To
  <2>2. publish.credential # server.is.accepted \/ ~ publish.options.skip
    BY <1>10, ResponseIs DEF Refused, Posts, IsSkipped
  <2>3. QED
    BY <1>5, <2>1, <2>2
<1>11. CASE Register
  <2>1. ~ server.is.registered
    BY <1>11, ResponseIs DEF Register, Posts, Followed, RegisteredStays
  <2>2. QED
    BY <1>5, <1>11, <2>1 DEF Register, To
<1>12. QED
  BY <1>6, <1>7, <1>8, <1>9, <1>10, <1>11

LEMMA FaultStep ==
  ASSUME Followed, RequestIsLost \/ Crash \/ \E f \in File : DistIsChanged(f)
  PROVE  Followed'
<1>1. publish.pc \notin {"idle", "done", "failed"}
  BY DEF RequestIsLost, Crash, DistIsChanged, Posts, Uploading
<1>2. PublishTypes /\ ListIsFollowed
  BY DEF Followed
<1>3. /\ server \in [is : Server, files : [File -> Builds \cup {None}], registered : BOOLEAN]
      /\ dist \in [File -> Builds \cup {None}] /\ publish.pc \in Pcs
  BY <1>2 DEF PublishTypes, Commands
<1>4. PICK pc \in {"failed", "idle", publish.pc} : Disturbed(pc) /\ (pc = publish.pc \/ dist' = dist)
  BY DEF RequestIsLost, Crash, DistIsChanged
<1>5. publish' = [publish EXCEPT !.pc = pc, !.disturbed = TRUE] /\ pc \in Pcs
  BY <1>3, <1>4 DEF Disturbed, Pcs
<1>6. dist' \in [File -> Builds \cup {None}]
  <2>1. CASE RequestIsLost \/ Crash
    BY <1>3, <2>1 DEF RequestIsLost, Crash
  <2>2. ASSUME NEW f \in File, DistIsChanged(f) PROVE dist' \in [File -> Builds \cup {None}]
    BY <1>3, <2>2 DEF DistIsChanged, Builds
  <2>3. QED
    BY <2>1, <2>2
<1>7. server' = server \/ (Uploading /\ dist[Current] # None /\ Stored)
  BY DEF RequestIsLost, Crash, DistIsChanged, Posts
<1>8. /\ server' \in [is : Server, files : [File -> Builds \cup {None}], registered : BOOLEAN]
      /\ server'.is = server.is /\ server'.registered = server.registered
      /\ \A f \in File : server.files[f] # None => server'.files[f] # None
  <2>1. CASE server' = server
    BY <1>3, <2>1
  <2>2. CASE Uploading /\ dist[Current] # None /\ Stored
    <3>1. Current \in File
      BY <1>2, <2>2, CurrentIs
    <3>2. QED
      BY <1>3, <2>2, <3>1 DEF Stored
  <2>3. QED
    BY <1>7, <2>1, <2>2
<1>9. QED
  BY <1>1, <1>5, <1>6, <1>8, StopStep

LEMMA FollowedStep ==
  ASSUME Followed, [Next]_vars
  PROVE  Followed'
<1>1. CASE UNCHANGED publishing
  BY <1>1 DEF publishing, Followed, PublishTypes, ListIsFollowed, PassedIsThere, IsDry, RegisteredStays,
     FailsWithReason
<1>2. CASE \E o \in OptionSets : Publish(o)
  BY <1>2, PublishStep
<1>3. CASE PublishSteps
  BY <1>3, BuildStep, ListStep, UploadStep DEF PublishSteps
<1>4. CASE RequestIsLost \/ Crash \/ \E f \in File : DistIsChanged(f)
  BY <1>4, FaultStep
<1>5. QED
  BY <1>1, <1>2, <1>3, <1>4 DEF Next, vars

LEMMA FollowedStarts == Init => Followed
<1>. SUFFICES ASSUME Init PROVE Followed
  OBVIOUS
<1>1. setting \in Settings /\ ServerOf[setting] \in Server
  BY PublishingAssumption DEF Init, CredentialsInit
<1>2. /\ server = [is |-> ServerOf[setting], files |-> [f \in File |-> None],
                   registered |-> ServerOf[setting].registered]
      /\ dist = [f \in File |-> IF f \in ServerOf[setting].old THEN "old" ELSE None]
      /\ publish = NotPublishing
  BY DEF Init
<1>3. ServerOf[setting].registered \in BOOLEAN
  BY <1>1 DEF Server
<1>4. PublishTypes
  BY <1>1, <1>2, <1>3 DEF PublishTypes, Commands, Pcs, Lists, NotPublishing, Builds
<1>5. publish.files = << >> /\ publish.pc = "idle" /\ DOMAIN publish.files = {}
  BY <1>2 DEF NotPublishing
<1>6. QED
  BY <1>2, <1>4, <1>5 DEF Followed, ListIsFollowed, PassedIsThere, RegisteredStays, FailsWithReason

LEMMA PublishIsCompleteThen ==
  ASSUME Followed, CredentialsTypeOK
  PROVE  PublishIsComplete
<1>1. TypeOK
  BY DEF Followed, PublishTypes, Commands, Pcs, TypeOK
<1>2. publish.files \in Lists /\ publish.at \in Nat
  BY DEF Followed, PublishTypes, Commands
<1>3. DOMAIN publish.files = 1..Len(publish.files) /\ Len(publish.files) \in Nat
  BY <1>2, ListsAre
<1>4. SourceFirst
  <2>. SUFFICES ASSUME NEW i \in DOMAIN publish.files, NEW j \in DOMAIN publish.files,
                       i < publish.at, ~ IsDry,
                       publish.files[i][2] = "wheel", publish.files[j][2] = "sdist"
                PROVE  server.files[publish.files[j]] # None
    BY DEF SourceFirst
  <2>1. j < i
    BY <1>2, ListsAre
  <2>2. j < publish.at
    BY <1>2, <1>3, <2>1
  <2>3. QED
    BY <2>2 DEF Followed, PassedIsThere
<1>5. OneVersion
  BY <1>2, ListsAre DEF OneVersion
<1>6. DoneIsComplete
  <2>. SUFFICES ASSUME publish.pc = "done", ~ IsDry, NEW i \in DOMAIN publish.files
                PROVE  server.files[publish.files[i]] # None
    BY DEF DoneIsComplete
  <2>1. i < publish.at
    BY <1>3 DEF Followed, ListIsFollowed
  <2>2. QED
    BY <2>1 DEF Followed, PassedIsThere
<1>7. QED
  BY <1>1, <1>4, <1>5, <1>6 DEF PublishIsComplete, Followed

(* Whatever is in dist/ and on the server, and whatever is lost, changed or  *)
(* killed: the sdist that was found is on the server before the wheel is,    *)
(* the files are those of one version, a command that ends well has all of   *)
(* its files there, and with --skip-existing one that nothing disturbed      *)
(* fails because of the credentials or the project only.                     *)
THEOREM PublishingIsComplete == Spec => []PublishIsComplete
<1>1. Init => Followed
  BY FollowedStarts
<1>2. Followed /\ [Next]_vars => Followed'
  BY FollowedStep
<1>3. CredentialsAreRight /\ Followed => PublishIsComplete
  BY PublishIsCompleteThen DEF CredentialsAreRight
<1>4. QED
  BY <1>1, <1>2, <1>3, CredentialsAreTheirs, PTL DEF Spec
-----------------------------------------------------------------------------
(* The metadata of releases *)

(* Intervals from l[k] to r[k] that are in order and do not meet.           *)
Apart(l, r) ==
  /\ l \in Seq(Nat) /\ r \in Seq(Nat) /\ Len(l) = Len(r)
  /\ \A k \in 1 .. Len(l) : l[k] <= r[k]
  /\ \A j, k \in 1 .. Len(l) : j < k => r[j] < l[k]

(* A set of the first numbers up to n has as many elements as its last.     *)
LEMMA CountIs ==
  ASSUME NEW n \in Nat, NEW S \in SUBSET 1 .. n,
         \A j, k \in 1 .. n : k \in S /\ j < k => j \in S
  PROVE  /\ Cardinality(S) \in 0 .. n
         /\ \A k \in 1 .. n : k \in S <=> k <= Cardinality(S)
<1>1. CASE S = {}
  BY <1>1, FS_EmptySet
<1>2. CASE S # {}
  <2>1. PICK m \in S : \A k \in S : m >= k
    <3>1. S \in SUBSET (0 .. n)
      OBVIOUS
    <3>2. QED
      BY <1>2, <3>1, Greatest
  <2>2. S = 1 .. m /\ m \in 1 .. n
    <3>1. m \in 1 .. n /\ S \subseteq 1 .. m
      BY <2>1
    <3>2. \A j \in 1 .. m : j \in S
      BY <3>1
    <3>3. QED
      BY <3>1, <3>2
  <2>3. Cardinality(1 .. m) = m
    BY <2>2, FS_Interval
  <2>4. QED
    BY <2>2, <2>3
<1>3. QED
  BY <1>1, <1>2

(* The operators of the library that HTTPRepository uses are the library's. *)
LEMMA SameCardinality == ASSUME NEW S PROVE H!Cardinality(S) = Cardinality(S)
BY DEF H!Cardinality, Cardinality

LEMMA SameBounds ==
  ASSUME NEW a \in Int, NEW b \in Int
  PROVE  /\ H!Min({a, b}) = IF a <= b THEN a ELSE b
         /\ H!Max({a, b}) = IF a <= b THEN b ELSE a
BY DEF H!Min, H!Max

LEMMA SameSequences ==
  ASSUME NEW s, NEW t, NEW a, NEW b
  PROVE  /\ H!Len(s) = Len(s) /\ H!SubSeq(s, a, b) = SubSeq(s, a, b) /\ H!Head(s) = Head(s)
         /\ H!Tail(s) = Tail(s) /\ H!Last(s) = s[Len(s)]
BY DEF H!Last, Last

(* bisect_left() and bisect_right() on what is in order.                   *)
LEMMA BisectIsRight ==
  ASSUME NEW s \in Seq(Nat), NEW x \in Nat, \A j, k \in 1 .. Len(s) : j < k => s[j] < s[k]
  PROVE  /\ H!BisectLeft(s, x) \in 0 .. Len(s)
         /\ \A k \in 1 .. Len(s) : s[k] < x <=> k <= H!BisectLeft(s, x)
         /\ H!BisectRight(s, x) \in 0 .. Len(s)
         /\ \A k \in 1 .. Len(s) : s[k] <= x <=> k <= H!BisectRight(s, x)
<1>. DEFINE Below == {k \in DOMAIN s : s[k] < x}
            Upto == {k \in DOMAIN s : s[k] <= x}
<1>1. Len(s) \in Nat /\ DOMAIN s = 1 .. Len(s) /\ \A k \in 1 .. Len(s) : s[k] \in Nat
  OBVIOUS
<1>2. /\ Below \in SUBSET (1 .. Len(s)) /\ \A j, k \in 1 .. Len(s) : k \in Below /\ j < k => j \in Below
      /\ Upto \in SUBSET (1 .. Len(s)) /\ \A j, k \in 1 .. Len(s) : k \in Upto /\ j < k => j \in Upto
  BY <1>1
<1>3. \A k \in 1 .. Len(s) : (s[k] < x <=> k \in Below) /\ (s[k] <= x <=> k \in Upto)
  BY <1>1
<1>4. H!BisectLeft(s, x) = Cardinality(Below) /\ H!BisectRight(s, x) = Cardinality(Upto)
  BY SameCardinality DEF H!BisectLeft, H!BisectRight
<1>. HIDE DEF Below, Upto
<1>5. Cardinality(Below) \in 0 .. Len(s) /\ \A k \in 1 .. Len(s) : k \in Below <=> k <= Cardinality(Below)
  BY <1>1, <1>2, CountIs
<1>6. Cardinality(Upto) \in 0 .. Len(s) /\ \A k \in 1 .. Len(s) : k \in Upto <=> k <= Cardinality(Upto)
  BY <1>1, <1>2, CountIs
<1>7. QED
  BY <1>3, <1>4, <1>5, <1>6

(* The n intervals from l to r, of which those from lo + 1 to hi overlap    *)
(* that from start to end; together they go from first to last.            *)
Overlap(l, r, n, start, end, lo, hi, first, last) ==
  /\ n \in Nat /\ start \in Nat /\ end \in Nat /\ start <= end
  /\ lo \in Nat /\ hi \in Nat /\ lo <= hi /\ hi <= n
  /\ \A k \in 1 .. n : l[k] \in Nat /\ r[k] \in Nat /\ l[k] <= r[k]
  /\ \A j, k \in 1 .. n : j < k => r[j] < l[k]
  /\ \A k \in 1 .. n : (r[k] < start <=> k <= lo) /\ (l[k] <= end <=> k <= hi)
  /\ first \in Nat /\ last \in Nat
  /\ lo = hi => first = start /\ last = end
  /\ lo < hi => first = IF start <= l[lo + 1] THEN start ELSE l[lo + 1]
  /\ lo < hi => last = IF end <= r[hi] THEN r[hi] ELSE end

(* What is between those that overlap is from .. to.                        *)
Gapped(l, r, lo, hi, first, last, from, to) ==
  \A j \in lo .. hi : /\ from[j] = IF j = lo THEN first ELSE r[j] + 1
                      /\ to[j] = IF j = hi THEN last ELSE l[j + 1] - 1

(* What is missing is between those that overlap, and nothing else is.      *)
LEMMA GapsAreRight ==
  ASSUME NEW l, NEW r, NEW n, NEW start, NEW end, NEW lo, NEW hi, NEW first, NEW last,
         Overlap(l, r, n, start, end, lo, hi, first, last),
         NEW from, NEW to, Gapped(l, r, lo, hi, first, last, from, to)
  PROVE  /\ \A j \in lo .. hi : from[j] \in Nat /\ to[j] \in Int
         /\ \A j \in lo .. hi, b \in Nat : from[j] <= b /\ b <= to[j] =>
              b \in start .. end /\ \A k \in 1 .. n : r[k] < b \/ b < l[k]
         /\ \A b \in start .. end : (\A k \in 1 .. n : r[k] < b \/ b < l[k]) =>
              \E j \in lo .. hi : from[j] <= b /\ b <= to[j]
         /\ \A i, j \in lo .. hi : i < j => \E k \in 1 .. n : to[i] < l[k] /\ l[k] < from[j]
<1>0. \A j \in lo .. hi : /\ from[j] = IF j = lo THEN first ELSE r[j] + 1
                          /\ to[j] = IF j = hi THEN last ELSE l[j + 1] - 1
  BY DEF Gapped
<1>1. /\ n \in Nat /\ start \in Nat /\ end \in Nat /\ start <= end
      /\ lo \in Nat /\ hi \in Nat /\ lo <= hi /\ hi <= n
      /\ \A k \in 1 .. n : l[k] \in Nat /\ r[k] \in Nat /\ l[k] <= r[k]
      /\ first \in Nat /\ last \in Nat
  BY DEF Overlap
<1>2. \A j, k \in 1 .. n : j < k => r[j] < l[k]
  BY DEF Overlap
<1>3. \A k \in 1 .. n : (r[k] < start <=> k <= lo) /\ (l[k] <= end <=> k <= hi)
  BY DEF Overlap
<1>4. /\ lo = hi => first = start /\ last = end
      /\ lo < hi => first = IF start <= l[lo + 1] THEN start ELSE l[lo + 1]
      /\ lo < hi => last = IF end <= r[hi] THEN r[hi] ELSE end
  BY DEF Overlap
<1>5. /\ first <= start /\ end <= last
      /\ lo < hi => lo + 1 \in 1 .. n /\ hi \in 1 .. n
  BY <1>0, <1>1, <1>4
<1>6. \A j \in lo .. hi : from[j] \in Nat /\ to[j] \in Int
  <2>1. SUFFICES ASSUME NEW j \in lo .. hi PROVE from[j] \in Nat /\ to[j] \in Int
    OBVIOUS
  <2>2. j # lo => j \in 1 .. n
    BY <1>0, <1>1
  <2>3. j # hi => j + 1 \in 1 .. n
    BY <1>0, <1>1
  <2>4. QED
    BY <1>0, <1>1, <2>2, <2>3
<1>7. ASSUME NEW j \in lo .. hi, NEW b \in Nat, from[j] <= b, b <= to[j]
      PROVE  b \in start .. end /\ \A k \in 1 .. n : r[k] < b \/ b < l[k]
  <2>1. j = lo => start <= b
    BY <1>0, <1>1, <1>4, <1>5, <1>7
  <2>2. j = hi => b <= end
    BY <1>0, <1>1, <1>4, <1>5, <1>7
  <2>3. j # lo => j \in 1 .. n /\ ~ j <= lo /\ r[j] + 1 <= b
    BY <1>0, <1>1, <1>7
  <2>4. j # hi => j + 1 \in 1 .. n /\ j + 1 <= hi /\ b <= l[j + 1] - 1
    BY <1>0, <1>1, <1>7
  <2>5. start <= b
    BY <1>0, <1>1, <1>3, <2>1, <2>3
  <2>6. b <= end
    BY <1>0, <1>1, <1>3, <2>2, <2>4
  <2>7. ASSUME NEW k \in 1 .. n, k <= j PROVE r[k] < b
    <3>1. CASE j = lo
      BY <1>0, <1>1, <1>3, <2>5, <2>7, <3>1
    <3>2. CASE j # lo /\ k = j
      BY <1>0, <1>1, <2>3, <3>2
    <3>3. CASE j # lo /\ k # j
      <4>1. r[k] < l[j] /\ l[j] <= r[j]
        BY <1>0, <1>1, <1>2, <2>3, <2>7, <3>3
      <4>2. QED
        BY <1>0, <1>1, <2>3, <3>3, <4>1
    <3>4. QED
      BY <3>1, <3>2, <3>3
  <2>8. ASSUME NEW k \in 1 .. n, ~ k <= j PROVE b < l[k]
    <3>1. CASE j = hi
      BY <1>0, <1>1, <1>3, <2>6, <2>8, <3>1
    <3>2. CASE j # hi /\ k = j + 1
      BY <1>0, <1>1, <2>4, <3>2
    <3>3. CASE j # hi /\ k # j + 1
      <4>1. r[j + 1] < l[k] /\ l[j + 1] <= r[j + 1]
        BY <1>0, <1>1, <1>2, <2>4, <2>8, <3>3
      <4>2. QED
        BY <1>0, <1>1, <2>4, <3>3, <4>1
    <3>4. QED
      BY <3>1, <3>2, <3>3
  <2>9. QED
    BY <1>0, <1>1, <2>5, <2>6, <2>7, <2>8
<1>8. ASSUME NEW b \in start .. end, \A k \in 1 .. n : r[k] < b \/ b < l[k]
      PROVE  \E j \in lo .. hi : from[j] <= b /\ b <= to[j]
  <2>. DEFINE S == {k \in 1 .. n : r[k] < b}
              j == Cardinality(S)
  <2>1. S \in SUBSET (1 .. n) /\ \A i, k \in 1 .. n : k \in S /\ i < k => i \in S
    BY <1>0, <1>1, <1>2
  <2>2. j \in 0 .. n /\ \A k \in 1 .. n : k \in S <=> k <= j
    <3>. HIDE DEF S
    <3>1. QED
      BY <1>0, <1>1, <2>1, CountIs
  <2>3. \A k \in 1 .. n : r[k] < b <=> k <= j
    <3>. HIDE DEF j
    <3>1. QED
      BY <2>2
  <2>. HIDE DEF j
  <2>4. j \in Nat /\ j <= n /\ b \in Nat /\ start <= b /\ b <= end
    BY <1>0, <1>1, <2>2
  <2>5. lo <= j
    <3>1. CASE lo = 0
      BY <2>4, <3>1
    <3>2. CASE lo # 0
      <4>1. lo \in 1 .. n /\ r[lo] < start
        BY <1>0, <1>1, <1>3, <3>2
      <4>2. QED
        BY <1>0, <1>1, <2>3, <2>4, <4>1
    <3>3. QED
      BY <3>1, <3>2
  <2>6. j <= hi
    <3>1. CASE j = 0
      BY <1>0, <1>1, <3>1
    <3>2. CASE j # 0
      <4>1. j \in 1 .. n /\ r[j] < b
        BY <2>3, <2>4, <3>2
      <4>2. l[j] <= end
        BY <1>0, <1>1, <2>4, <4>1
      <4>3. QED
        BY <1>3, <4>1, <4>2
    <3>3. QED
      BY <3>1, <3>2
  <2>7. from[j] <= b
    <3>1. CASE j = lo
      BY <1>0, <1>1, <1>5, <2>4, <2>6, <3>1
    <3>2. CASE j # lo
      <4>1. j \in 1 .. n /\ r[j] < b /\ from[j] = r[j] + 1
        BY <1>0, <1>1, <2>3, <2>4, <2>5, <2>6, <3>2
      <4>2. QED
        BY <1>0, <1>1, <2>4, <4>1
    <3>3. QED
      BY <3>1, <3>2
  <2>8. b <= to[j]
    <3>1. CASE j = hi
      BY <1>0, <1>1, <1>5, <2>4, <2>5, <3>1
    <3>2. CASE j # hi
      <4>1. j + 1 \in 1 .. n /\ ~ j + 1 <= j /\ to[j] = l[j + 1] - 1
        BY <1>0, <1>1, <2>4, <2>5, <2>6, <3>2
      <4>2. b < l[j + 1]
        BY <1>8, <2>3, <4>1
      <4>3. QED
        BY <1>0, <1>1, <2>4, <4>1, <4>2
    <3>3. QED
      BY <3>1, <3>2
  <2>9. QED
    BY <1>0, <1>1, <2>4, <2>5, <2>6, <2>7, <2>8
<1>9. ASSUME NEW i \in lo .. hi, NEW j \in lo .. hi, i < j
      PROVE  \E k \in 1 .. n : to[i] < l[k] /\ l[k] < from[j]
  <2>1. /\ i + 1 \in 1 .. n /\ j \in 1 .. n /\ (i + 1 = j \/ i + 1 < j)
        /\ to[i] = l[i + 1] - 1 /\ from[j] = r[j] + 1
    BY <1>0, <1>1, <1>9
  <2>2. l[i + 1] <= r[i + 1] /\ (i + 1 < j => r[i + 1] < l[j]) /\ l[j] <= r[j]
        /\ l[i + 1] \in Nat /\ r[i + 1] \in Nat /\ l[j] \in Nat /\ r[j] \in Nat
    BY <1>0, <1>1, <1>2, <2>1
  <2>3. to[i] < l[i + 1] /\ l[i + 1] < from[j]
    BY <2>1, <2>2
  <2>4. QED
    BY <2>1, <2>3
<1>10. QED
  BY <1>6, <1>7, <1>8, <1>9

(* The overlapped intervals are replaced by one.                           *)
LEMMA SpliceIsRight ==
  ASSUME NEW l, NEW r, NEW n, NEW start, NEW end, NEW lo, NEW hi, NEW first, NEW last,
         Overlap(l, r, n, start, end, lo, hi, first, last),
         NEW p, NEW q, NEW size, size = n - hi + lo + 1,
         \A k \in 1 .. size :
           /\ p[k] = IF k <= lo THEN l[k] ELSE IF k = lo + 1 THEN first ELSE l[k - lo - 1 + hi]
           /\ q[k] = IF k <= lo THEN r[k] ELSE IF k = lo + 1 THEN last ELSE r[k - lo - 1 + hi]
  PROVE  /\ \A k \in 1 .. size : p[k] \in Nat /\ q[k] \in Nat /\ p[k] <= q[k]
         /\ \A j, k \in 1 .. size : j < k => q[j] < p[k]
         /\ \A b \in Nat : (\E k \in 1 .. size : p[k] <= b /\ b <= q[k]) <=>
              b \in start .. end \/ \E k \in 1 .. n : l[k] <= b /\ b <= r[k]
<1>1. /\ n \in Nat /\ start \in Nat /\ end \in Nat /\ start <= end
      /\ lo \in Nat /\ hi \in Nat /\ lo <= hi /\ hi <= n
      /\ \A k \in 1 .. n : l[k] \in Nat /\ r[k] \in Nat /\ l[k] <= r[k]
      /\ first \in Nat /\ last \in Nat
  BY DEF Overlap
<1>2. \A j, k \in 1 .. n : j < k => r[j] < l[k]
  BY DEF Overlap
<1>3. \A k \in 1 .. n : (r[k] < start <=> k <= lo) /\ (l[k] <= end <=> k <= hi)
  BY DEF Overlap
<1>4. /\ lo = hi => first = start /\ last = end
      /\ lo < hi => first = IF start <= l[lo + 1] THEN start ELSE l[lo + 1]
      /\ lo < hi => last = IF end <= r[hi] THEN r[hi] ELSE end
  BY DEF Overlap
<1>5. /\ first <= start /\ end <= last
      /\ lo < hi => lo + 1 \in 1 .. n /\ hi \in 1 .. n
  BY <1>1, <1>4
<1>6. size \in Nat /\ lo + 1 \in 1 .. size
  BY <1>1
<1>7. /\ \A k \in 1 .. size : k <= lo => k \in 1 .. n /\ p[k] = l[k] /\ q[k] = r[k]
      /\ p[lo + 1] = first /\ q[lo + 1] = last
      /\ \A k \in 1 .. size : lo + 1 < k =>
           /\ k - lo - 1 + hi \in 1 .. n /\ hi < k - lo - 1 + hi
           /\ p[k] = l[k - lo - 1 + hi] /\ q[k] = r[k - lo - 1 + hi]
  BY <1>1, <1>6
<1>8. \A k \in 1 .. n : k <= lo => r[k] < first
  <2>1. SUFFICES ASSUME NEW k \in 1 .. n, k <= lo PROVE r[k] < first
    OBVIOUS
  <2>2. r[k] < start
    BY <1>3, <2>1
  <2>3. lo < hi => r[k] < l[lo + 1]
    BY <1>1, <1>2, <1>5, <2>1
  <2>4. QED
    BY <1>1, <1>4, <2>2, <2>3
<1>9. \A k \in 1 .. n : hi < k => last < l[k]
  <2>1. SUFFICES ASSUME NEW k \in 1 .. n, hi < k PROVE last < l[k]
    OBVIOUS
  <2>2. end < l[k]
    BY <1>1, <1>3, <2>1
  <2>3. lo < hi => r[hi] < l[k]
    BY <1>1, <1>2, <1>5, <2>1
  <2>4. QED
    BY <1>1, <1>4, <2>2, <2>3
<1>10. \A k \in 1 .. size : p[k] \in Nat /\ q[k] \in Nat /\ p[k] <= q[k]
  <2>1. SUFFICES ASSUME NEW k \in 1 .. size PROVE p[k] \in Nat /\ q[k] \in Nat /\ p[k] <= q[k]
    OBVIOUS
  <2>2. k <= lo \/ k = lo + 1 \/ lo + 1 < k
    BY <1>1
  <2>3. QED
    BY <1>1, <1>5, <1>7, <2>2
<1>11. ASSUME NEW j \in 1 .. size, NEW k \in 1 .. size, j < k PROVE q[j] < p[k]
  <2>1. CASE k <= lo
    <3>1. j <= lo
      BY <1>1, <1>11, <2>1
    <3>2. QED
      BY <1>2, <1>7, <1>11, <2>1, <3>1
  <2>2. CASE k = lo + 1
    <3>1. j <= lo
      BY <1>1, <1>11, <2>2
    <3>2. QED
      BY <1>7, <1>8, <2>2, <3>1
  <2>3. CASE lo + 1 < k
    <3>. DEFINE i == k - lo - 1 + hi
    <3>1. i \in 1 .. n /\ hi < i /\ p[k] = l[i]
      BY <1>7, <2>3
    <3>2. CASE j <= lo
      <4>1. j \in 1 .. n /\ j < i /\ q[j] = r[j]
        BY <1>1, <1>7, <3>1, <3>2
      <4>2. QED
        BY <1>2, <3>1, <4>1
    <3>3. CASE j = lo + 1
      BY <1>7, <1>9, <3>1, <3>3
    <3>4. CASE lo + 1 < j
      <4>1. j - lo - 1 + hi \in 1 .. n /\ q[j] = r[j - lo - 1 + hi]
        BY <1>7, <3>4
      <4>2. j - lo - 1 + hi < i
        BY <1>1, <1>11
      <4>3. QED
        BY <1>2, <3>1, <4>1, <4>2
    <3>5. QED
      BY <1>1, <3>2, <3>3, <3>4
  <2>4. QED
    BY <1>1, <2>1, <2>2, <2>3
<1>12. ASSUME NEW b \in Nat, NEW k \in 1 .. size, p[k] <= b, b <= q[k]
       PROVE  b \in start .. end \/ \E i \in 1 .. n : l[i] <= b /\ b <= r[i]
  <2>1. CASE k <= lo
    BY <1>7, <1>12, <2>1
  <2>2. CASE lo + 1 < k
    BY <1>7, <1>12, <2>2
  <2>3. CASE k = lo + 1
    <3>1. first <= b /\ b <= last
      BY <1>7, <1>12, <2>3
    <3>2. CASE b < start
      <4>1. lo < hi /\ first = l[lo + 1]
        BY <1>1, <1>4, <3>1, <3>2
      <4>2. lo + 1 \in 1 .. n /\ ~ lo + 1 <= lo
        BY <1>1, <1>5, <4>1
      <4>3. start <= r[lo + 1]
        BY <1>1, <1>3, <4>2
      <4>4. QED
        BY <1>1, <3>1, <3>2, <4>1, <4>2, <4>3
    <3>3. CASE end < b
      <4>1. lo < hi /\ last = r[hi]
        BY <1>1, <1>4, <3>1, <3>3
      <4>2. hi \in 1 .. n
        BY <1>5, <4>1
      <4>3. l[hi] <= end
        BY <1>1, <1>3, <4>2
      <4>4. QED
        BY <1>1, <3>1, <3>3, <4>1, <4>2, <4>3
    <3>4. QED
      BY <1>1, <3>2, <3>3
  <2>4. QED
    BY <1>1, <2>1, <2>2, <2>3
<1>13. ASSUME NEW b \in start .. end PROVE \E k \in 1 .. size : p[k] <= b /\ b <= q[k]
  BY <1>1, <1>5, <1>6, <1>7
<1>14. ASSUME NEW b \in Nat, NEW i \in 1 .. n, l[i] <= b, b <= r[i]
       PROVE  \E k \in 1 .. size : p[k] <= b /\ b <= q[k]
  <2>1. CASE i <= lo
    <3>1. i \in 1 .. size
      BY <1>1, <2>1
    <3>2. QED
      BY <1>7, <1>14, <2>1, <3>1
  <2>2. CASE hi < i
    <3>. DEFINE k == i - hi + lo + 1
    <3>1. k \in 1 .. size /\ lo + 1 < k /\ k - lo - 1 + hi = i
      BY <1>1, <2>2
    <3>2. p[k] = l[i] /\ q[k] = r[i]
      BY <1>7, <3>1
    <3>3. QED
      BY <1>14, <3>1, <3>2
  <2>3. CASE lo < i /\ i <= hi
    <3>1. lo < hi /\ lo + 1 \in 1 .. n /\ hi \in 1 .. n
      BY <1>1, <1>5, <2>3
    <3>2. l[lo + 1] <= l[i]
      <4>1. CASE i = lo + 1
        BY <1>1, <4>1
      <4>2. CASE i # lo + 1
        <5>1. r[lo + 1] < l[i] /\ l[lo + 1] <= r[lo + 1]
          BY <1>1, <1>2, <2>3, <3>1, <4>2
        <5>2. QED
          BY <1>1, <3>1, <5>1
      <4>3. QED
        BY <4>1, <4>2
    <3>3. r[i] <= r[hi]
      <4>1. CASE i = hi
        BY <1>1, <4>1
      <4>2. CASE i # hi
        <5>1. r[i] < l[hi] /\ l[hi] <= r[hi]
          BY <1>1, <1>2, <2>3, <3>1, <4>2
        <5>2. QED
          BY <1>1, <3>1, <5>1
      <4>3. QED
        BY <4>1, <4>2
    <3>4. first <= b
      BY <1>1, <1>4, <1>5, <1>14, <3>1, <3>2
    <3>5. b <= last
      BY <1>1, <1>4, <1>5, <1>14, <3>1, <3>3
    <3>6. QED
      BY <1>6, <1>7, <3>4, <3>5
  <2>4. QED
    BY <1>1, <2>1, <2>2, <2>3
<1>15. QED
  BY <1>10, <1>11, <1>12, <1>13, <1>14

(* All that the intervals have.                                             *)
Between(l, r) == {b \in Nat : \E k \in 1 .. Len(l) : l[k] <= b /\ b <= r[k]}

(* A part of a sequence.                                                    *)
LEMMA PartIsRight ==
  ASSUME NEW s \in Seq(Nat), NEW lo \in Nat, NEW hi \in Nat, lo <= hi, hi <= Len(s)
  PROVE  /\ SubSeq(s, lo + 1, hi) \in Seq(Nat) /\ Len(SubSeq(s, lo + 1, hi)) = hi - lo
         /\ \A k \in 1 .. hi - lo : SubSeq(s, lo + 1, hi)[k] = s[lo + k]
         /\ lo = 0 => /\ SubSeq(s, 1, hi) \in Seq(Nat) /\ Len(SubSeq(s, 1, hi)) = hi
                      /\ \A k \in 1 .. hi : SubSeq(s, 1, hi)[k] = s[k]
<1>. DEFINE t == SubSeq(s, lo + 1, hi)
<1>1. Len(t) = hi - lo
  OBVIOUS
<1>2. \A k \in 1 .. hi - lo : t[k] = s[lo + k]
  OBVIOUS
<1>3. t \in Seq(Nat)
  OBVIOUS
<1>4. lo = 0 => lo + 1 = 1 /\ hi - lo = hi
  OBVIOUS
<1>5. \A k \in 1 .. hi : lo = 0 => lo + k = k
  OBVIOUS
<1>6. QED
  BY <1>1, <1>2, <1>3, <1>4, <1>5

(* minimal_intervals_covering(): what was missing is fetched, nothing is    *)
(* fetched twice, and the intervals are in order again.                     *)
LEMMA MergeIsRight ==
  ASSUME Apart(left, right), NEW start \in Nat, NEW end \in Nat, start <= end,
         NEW m, m = H!MinimalIntervalsCovering(start, end)
  PROVE  /\ Apart(m.left, m.right)
         /\ Between(m.left, m.right) = Between(left, right) \cup (start .. end)
         /\ \A g \in m.fetch : g[1] \in Nat /\ g[2] \in Nat /\ g[1] <= g[2]
         /\ \A b \in Nat : b \in (start .. end) \ Between(left, right) <=> \E g \in m.fetch : b \in g[1] .. g[2]
         /\ \A g, h \in m.fetch : g # h =>
              \E b \in Between(left, right) : (g[2] < b /\ b < h[1]) \/ (h[2] < b /\ b < g[1])
<1>. DEFINE n == Len(left)
            lo == H!BisectLeft(right, start)
            hi == H!BisectRight(left, end)
            lslice == SubSeq(left, lo + 1, hi)
            rslice == SubSeq(right, lo + 1, hi)
            first == IF lslice = <<>> THEN start ELSE H!Min({start, Head(lslice)})
            last == IF rslice = <<>> THEN end ELSE H!Max({end, H!Last(rslice)})
            Lower(k) == IF k = 1 THEN first ELSE rslice[k - 1] + 1
            Upper(k) == IF k = Len(lslice) + 1 THEN last ELSE lslice[k] - 1
            gaps == [k \in 1 .. Len(lslice) + 1 |-> <<Lower(k), Upper(k)>>]
            Spliced(s, x) == SubSeq(s, 1, lo) \o <<x>> \o SubSeq(s, H!Max({lo, hi}) + 1, Len(s))
<1>1. /\ n \in Nat /\ Len(right) = n /\ left \in Seq(Nat) /\ right \in Seq(Nat)
      /\ \A k \in 1 .. n : left[k] \in Nat /\ right[k] \in Nat /\ left[k] <= right[k]
      /\ \A j, k \in 1 .. n : j < k => right[j] < left[k]
  BY DEF Apart
<1>2. /\ lo \in 0 .. n /\ hi \in 0 .. n
      /\ \A k \in 1 .. n : (right[k] < start <=> k <= lo) /\ (left[k] <= end <=> k <= hi)
  <2>1. /\ \A j, k \in 1 .. Len(left) : j < k => left[j] < left[k]
        /\ \A j, k \in 1 .. Len(right) : j < k => right[j] < right[k]
    <3>. HIDE DEF n
    <3>1. ASSUME NEW j \in 1 .. n, NEW k \in 1 .. n, j < k
          PROVE  left[j] < left[k] /\ right[j] < right[k]
      <4>1. /\ left[j] \in Nat /\ right[j] \in Nat /\ left[j] <= right[j]
            /\ left[k] \in Nat /\ right[k] \in Nat /\ left[k] <= right[k]
        BY <1>1
      <4>2. right[j] < left[k]
        BY <1>1, <3>1
      <4>3. QED
        BY <4>1, <4>2
    <3>2. n = Len(left) /\ n = Len(right)
      BY <1>1 DEF n
    <3>3. QED
      BY <3>1, <3>2
  <2>2. /\ lo \in 0 .. Len(right) /\ \A k \in 1 .. Len(right) : right[k] < start <=> k <= lo
    BY <1>1, <2>1, BisectIsRight
  <2>3. /\ hi \in 0 .. Len(left) /\ \A k \in 1 .. Len(left) : left[k] <= end <=> k <= hi
    BY <1>1, <2>1, BisectIsRight
  <2>. HIDE DEF lo, hi
  <2>4. QED
    BY <1>1, <2>2, <2>3
<1>3. /\ m.fetch = {g \in {gaps[k] : k \in DOMAIN gaps} : g[1] <= g[2]}
      /\ m.left = Spliced(left, first)
      /\ m.right = Spliced(right, last)
  BY DEF H!Merge, H!MinimalIntervalsCovering
<1>. HIDE DEF n, lo, hi
<1>4. n = Len(left) /\ lo \in Nat /\ hi \in Nat /\ hi <= n /\ lo <= hi
  <2>1. n = Len(left) /\ lo \in Nat /\ hi \in Nat /\ lo <= n /\ hi <= n
    BY <1>1, <1>2 DEF n
  <2>2. CASE lo = 0
    BY <2>1, <2>2
  <2>3. CASE lo # 0
    <3>1. lo \in 1 .. n
      BY <1>1, <2>1, <2>3
    <3>2. right[lo] < start /\ left[lo] <= right[lo] /\ left[lo] \in Nat /\ right[lo] \in Nat
      BY <1>1, <1>2, <2>1, <3>1
    <3>3. left[lo] <= end
      BY <3>2
    <3>4. lo <= hi
      BY <1>2, <2>1, <3>1, <3>3
    <3>5. QED
      BY <2>1, <3>4
  <2>4. QED
    BY <2>2, <2>3
<1>5. H!Max({lo, hi}) = hi
  <2>1. lo \in Int /\ hi \in Int
    BY <1>4
  <2>2. H!Max({lo, hi}) = IF lo <= hi THEN hi ELSE lo
    BY <2>1, SameBounds
  <2>3. QED
    BY <1>4, <2>2
<1>6. /\ lslice \in Seq(Nat) /\ rslice \in Seq(Nat)
      /\ Len(lslice) = hi - lo /\ Len(rslice) = hi - lo
      /\ \A k \in 1 .. hi - lo : lslice[k] = left[lo + k] /\ rslice[k] = right[lo + k]
  <2>1. ASSUME NEW s \in Seq(Nat), Len(s) = n
        PROVE  /\ SubSeq(s, lo + 1, hi) \in Seq(Nat) /\ Len(SubSeq(s, lo + 1, hi)) = hi - lo
               /\ \A k \in 1 .. hi - lo : SubSeq(s, lo + 1, hi)[k] = s[lo + k]
    <3>1. lo <= hi /\ hi <= Len(s) /\ lo \in Nat /\ hi \in Nat
      BY <1>4, <2>1
    <3>. HIDE DEF n
    <3>2. QED
      BY <2>1, <3>1, PartIsRight
  <2>2. QED
    BY <1>1, <1>4, <2>1
<1>. HIDE DEF lslice, rslice
<1>7. (lslice = <<>> <=> lo = hi) /\ (rslice = <<>> <=> lo = hi)
  <2>1. \A s \in Seq(Nat) : s = <<>> <=> Len(s) = 0
    OBVIOUS
  <2>2. QED
    BY <1>4, <1>6, <2>1
<1>8. Overlap(left, right, n, start, end, lo, hi, first, last)
  <2>1. lo = hi => first = start /\ last = end
    BY <1>7
  <2>2. ASSUME lo < hi
        PROVE  /\ first = IF start <= left[lo + 1] THEN start ELSE left[lo + 1]
               /\ last = IF end <= right[hi] THEN right[hi] ELSE end
               /\ left[lo + 1] \in Nat /\ right[hi] \in Nat
    <3>1. lslice # <<>> /\ rslice # <<>> /\ 1 \in 1 .. hi - lo /\ hi - lo \in 1 .. hi - lo
          /\ lo + 1 \in 1 .. n /\ hi \in 1 .. n /\ lo + (hi - lo) = hi
      BY <1>1, <1>4, <1>7, <2>2
    <3>2. Head(lslice) = left[lo + 1]
      BY <1>6, <3>1
    <3>3. H!Last(rslice) = right[hi]
      <4>1. H!Last(rslice) = rslice[Len(rslice)]
        BY SameSequences
      <4>2. QED
        BY <1>6, <3>1, <4>1
    <3>4. left[lo + 1] \in Nat /\ right[hi] \in Nat
      BY <1>1, <3>1
    <3>5. H!Min({start, left[lo + 1]}) = IF start <= left[lo + 1] THEN start ELSE left[lo + 1]
      BY <3>4, SameBounds
    <3>6. H!Max({end, right[hi]}) = IF end <= right[hi] THEN right[hi] ELSE end
      <4>1. end \in Int /\ right[hi] \in Int
        BY <3>4
      <4>2. QED
        BY <4>1, SameBounds
    <3>7. QED
      BY <3>1, <3>2, <3>3, <3>4, <3>5, <3>6
  <2>3. first \in Nat /\ last \in Nat
    <3>. HIDE DEF first, last
    <3>1. QED
      BY <1>4, <2>1, <2>2
  <2>. HIDE DEF first, last
  <2>4. QED
    BY <1>1, <1>2, <1>4, <2>1, <2>2, <2>3 DEF Overlap
<1>. HIDE DEF first, last
<1>. DEFINE from == [j \in lo .. hi |-> IF j = lo THEN first ELSE right[j] + 1]
            to == [j \in lo .. hi |-> IF j = hi THEN last ELSE left[j + 1] - 1]
<1>9. \A j \in lo .. hi : from[j] = (IF j = lo THEN first ELSE right[j] + 1)
                          /\ to[j] = (IF j = hi THEN last ELSE left[j + 1] - 1)
  OBVIOUS
<1>10. ASSUME NEW k \in 1 .. hi - lo + 1
       PROVE  lo + k - 1 \in lo .. hi /\ gaps[k] = <<from[lo + k - 1], to[lo + k - 1]>>
  <2>1. lo + k - 1 \in lo .. hi
    BY <1>4
  <2>2. Lower(k) = from[lo + k - 1]
    <3>1. k # 1 => k - 1 \in 1 .. hi - lo /\ lo + (k - 1) = lo + k - 1 /\ lo + k - 1 # lo
      BY <1>4
    <3>2. k = 1 => lo + k - 1 = lo
      BY <1>4
    <3>3. k # 1 => rslice[k - 1] = right[lo + k - 1]
      BY <1>6, <3>1
    <3>4. QED
      BY <1>9, <2>1, <3>1, <3>2, <3>3
  <2>3. Upper(k) = to[lo + k - 1]
    <3>1. k # hi - lo + 1 => k \in 1 .. hi - lo /\ lo + k - 1 # hi /\ lo + k - 1 + 1 = lo + k
      BY <1>4
    <3>2. k = hi - lo + 1 => lo + k - 1 = hi
      BY <1>4
    <3>3. k # hi - lo + 1 => lslice[k] = left[lo + k]
      BY <1>6, <3>1
    <3>4. QED
      BY <1>6, <1>9, <2>1, <3>1, <3>2, <3>3
  <2>4. gaps[k] = <<Lower(k), Upper(k)>>
    BY <1>6
  <2>5. QED
    BY <2>1, <2>2, <2>3, <2>4
<1>11. DOMAIN gaps = 1 .. hi - lo + 1
  BY <1>6
<1>. HIDE DEF from, to, gaps
<1>12. /\ \A g \in m.fetch : \E j \in lo .. hi : g = <<from[j], to[j]>> /\ from[j] <= to[j]
       /\ \A j \in lo .. hi : from[j] <= to[j] => <<from[j], to[j]>> \in m.fetch
  <2>1. ASSUME NEW g \in m.fetch PROVE \E j \in lo .. hi : g = <<from[j], to[j]>> /\ from[j] <= to[j]
    <3>1. PICK k \in 1 .. hi - lo + 1 : g = gaps[k] /\ g[1] <= g[2]
      BY <1>3, <1>11
    <3>2. QED
      BY <1>10, <3>1
  <2>2. ASSUME NEW j \in lo .. hi, from[j] <= to[j] PROVE <<from[j], to[j]>> \in m.fetch
    <3>1. j - lo + 1 \in 1 .. hi - lo + 1 /\ lo + (j - lo + 1) - 1 = j
      BY <1>4
    <3>2. gaps[j - lo + 1] = <<from[j], to[j]>>
      BY <1>10, <3>1
    <3>3. QED
      BY <1>3, <1>11, <2>2, <3>1, <3>2
  <2>3. QED
    BY <2>1, <2>2
<1>13. /\ \A j \in lo .. hi : from[j] \in Nat /\ to[j] \in Int
       /\ \A j \in lo .. hi, b \in Nat : from[j] <= b /\ b <= to[j] =>
              b \in start .. end /\ \A k \in 1 .. n : right[k] < b \/ b < left[k]
       /\ \A b \in start .. end : (\A k \in 1 .. n : right[k] < b \/ b < left[k]) =>
              \E j \in lo .. hi : from[j] <= b /\ b <= to[j]
       /\ \A i, j \in lo .. hi : i < j => \E k \in 1 .. n : to[i] < left[k] /\ left[k] < from[j]
  <2>1. Gapped(left, right, lo, hi, first, last, from, to)
    BY <1>9 DEF Gapped
  <2>2. QED
    BY <1>8, <2>1, GapsAreRight
<1>14. \A b \in Nat : b \notin Between(left, right) <=> \A k \in 1 .. n : right[k] < b \/ b < left[k]
  <2>1. SUFFICES ASSUME NEW b \in Nat
                 PROVE  (\E k \in 1 .. n : left[k] <= b /\ b <= right[k])
                          <=> ~ \A k \in 1 .. n : right[k] < b \/ b < left[k]
    BY <1>4 DEF Between
  <2>2. \A k \in 1 .. n : left[k] \in Nat /\ right[k] \in Nat
    BY <1>1
  <2>3. QED
    BY <2>2
<1>15. \A g \in m.fetch : g[1] \in Nat /\ g[2] \in Nat /\ g[1] <= g[2]
  BY <1>12, <1>13
<1>16. ASSUME NEW b \in Nat
       PROVE  b \in (start .. end) \ Between(left, right) <=> \E g \in m.fetch : b \in g[1] .. g[2]
  <2>1. ASSUME b \in (start .. end) \ Between(left, right) PROVE \E g \in m.fetch : b \in g[1] .. g[2]
    <3>1. PICK j \in lo .. hi : from[j] <= b /\ b <= to[j]
      BY <1>13, <1>14, <2>1
    <3>2. from[j] <= to[j] /\ b \in from[j] .. to[j]
      BY <1>13, <3>1
    <3>3. <<from[j], to[j]>> \in m.fetch
      BY <1>12, <3>2
    <3>4. QED
      BY <3>2, <3>3
  <2>2. ASSUME NEW g \in m.fetch, b \in g[1] .. g[2] PROVE b \in (start .. end) \ Between(left, right)
    <3>1. PICK j \in lo .. hi : g = <<from[j], to[j]>>
      BY <1>12
    <3>2. from[j] <= b /\ b <= to[j]
      BY <1>13, <2>2, <3>1
    <3>3. b \in start .. end /\ \A k \in 1 .. n : right[k] < b \/ b < left[k]
      BY <1>13, <3>2
    <3>4. QED
      BY <1>14, <3>3
  <2>3. QED
    BY <2>1, <2>2
<1>17. ASSUME NEW g \in m.fetch, NEW h \in m.fetch, g # h
       PROVE  \E b \in Between(left, right) : (g[2] < b /\ b < h[1]) \/ (h[2] < b /\ b < g[1])
  <2>1. PICK i \in lo .. hi, j \in lo .. hi : g = <<from[i], to[i]>> /\ h = <<from[j], to[j]>>
    BY <1>12
  <2>2. i < j \/ j < i
    BY <1>4, <1>17, <2>1
  <2>3. PICK k \in 1 .. n : (to[i] < left[k] /\ left[k] < from[j]) \/ (to[j] < left[k] /\ left[k] < from[i])
    BY <1>13, <2>2
  <2>4. left[k] \in Between(left, right)
    <3>1. left[k] \in Nat /\ left[k] <= left[k] /\ left[k] <= right[k]
      BY <1>1
    <3>2. QED
      BY <1>4, <3>1 DEF Between
  <2>5. QED
    BY <2>1, <2>3, <2>4
<1>. DEFINE size == n - hi + lo + 1
<1>18. /\ m.left \in Seq(Nat) /\ m.right \in Seq(Nat) /\ Len(m.left) = size /\ Len(m.right) = size
       /\ \A k \in 1 .. size :
            /\ m.left[k] = IF k <= lo THEN left[k] ELSE IF k = lo + 1 THEN first ELSE left[k - lo - 1 + hi]
            /\ m.right[k] = IF k <= lo THEN right[k] ELSE IF k = lo + 1 THEN last ELSE right[k - lo - 1 + hi]
  <2>1. ASSUME NEW s \in Seq(Nat), Len(s) = n, NEW x \in Nat
        PROVE  /\ Spliced(s, x) \in Seq(Nat) /\ Len(Spliced(s, x)) = size
               /\ \A k \in 1 .. size :
                    Spliced(s, x)[k] = IF k <= lo THEN s[k] ELSE IF k = lo + 1 THEN x ELSE s[k - lo - 1 + hi]
    <3>. DEFINE a == SubSeq(s, 1, lo)
                c == SubSeq(s, hi + 1, n)
                t == a \o <<x>>
    <3>1. a \in Seq(Nat) /\ Len(a) = lo /\ \A k \in 1 .. lo : a[k] = s[k]
      BY <1>1, <1>4, <2>1, PartIsRight
    <3>2. c \in Seq(Nat) /\ Len(c) = n - hi /\ \A k \in 1 .. n - hi : c[k] = s[hi + k]
      <4>1. hi \in Nat /\ n \in Nat /\ hi <= n /\ n <= Len(s)
        BY <1>1, <1>4, <2>1
      <4>2. QED
        BY <2>1, <4>1, PartIsRight
    <3>3. Spliced(s, x) = t \o c
      BY <1>5, <2>1
    <3>. HIDE DEF a, c
    <3>4. t \in Seq(Nat) /\ Len(t) = lo + 1 /\ \A k \in 1 .. lo + 1 : t[k] = IF k <= lo THEN a[k] ELSE x
      BY <1>4, <3>1
    <3>. HIDE DEF t
    <3>5. t \o c \in Seq(Nat) /\ Len(t \o c) = lo + 1 + (n - hi)
          /\ \A k \in 1 .. lo + 1 + (n - hi) : (t \o c)[k] = IF k <= lo + 1 THEN t[k] ELSE c[k - (lo + 1)]
      <4>1. t \in Seq(Nat) /\ c \in Seq(Nat)
        BY <3>2, <3>4
      <4>2. /\ t \o c \in Seq(Nat)
            /\ Len(t \o c) = Len(t) + Len(c)
            /\ \A i \in 1 .. Len(t) + Len(c) : (t \o c)[i] = IF i <= Len(t) THEN t[i] ELSE c[i - Len(t)]
        BY ONLY <4>1, ConcatProperties
      <4>3. Len(t) = lo + 1 /\ Len(c) = n - hi
        BY <3>2, <3>4
      <4>4. QED
        BY ONLY <4>2, <4>3
    <3>6. ASSUME NEW k \in 1 .. size
          PROVE  (t \o c)[k] = IF k <= lo THEN s[k] ELSE IF k = lo + 1 THEN x ELSE s[k - lo - 1 + hi]
      <4>1. k \in 1 .. lo + 1 + (n - hi)
        BY <1>1, <1>4
      <4>2. CASE k <= lo
        <5>1. k \in 1 .. lo /\ k \in 1 .. lo + 1 /\ k <= lo + 1
          BY <1>4, <4>1, <4>2
        <5>2. QED
          BY <3>1, <3>4, <3>5, <4>1, <4>2, <5>1
      <4>3. CASE k = lo + 1
        <5>1. k \in 1 .. lo + 1 /\ k <= lo + 1 /\ ~ k <= lo
          BY <1>4, <4>3
        <5>2. QED
          BY <3>4, <3>5, <4>1, <4>3, <5>1
      <4>4. CASE lo + 1 < k
        <5>1. k - (lo + 1) \in 1 .. n - hi /\ hi + (k - (lo + 1)) = k - lo - 1 + hi /\ ~ k <= lo + 1 /\ ~ k <= lo
          BY <1>1, <1>4, <4>1, <4>4
        <5>2. QED
          BY <3>2, <3>5, <4>1, <4>4, <5>1
      <4>5. k \in Int /\ lo \in Int
        BY <1>4, <4>1
      <4>6. k <= lo \/ k = lo + 1 \/ lo + 1 < k
        BY <4>5
      <4>7. QED
        BY <4>2, <4>3, <4>4, <4>6
    <3>7. lo + 1 + (n - hi) = size
      BY <1>1, <1>4
    <3>8. QED
      BY <3>3, <3>5, <3>6, <3>7
  <2>2. first \in Nat /\ last \in Nat
    BY <1>8 DEF Overlap
  <2>. HIDE DEF Spliced, size
  <2>3. Len(left) = n /\ Len(right) = n
    BY <1>1, <1>4
  <2>4. m.left \in Seq(Nat) /\ Len(m.left) = size
        /\ \A k \in 1 .. size :
             m.left[k] = IF k <= lo THEN left[k] ELSE IF k = lo + 1 THEN first ELSE left[k - lo - 1 + hi]
    <3>1. /\ Spliced(left, first) \in Seq(Nat) /\ Len(Spliced(left, first)) = size
          /\ \A k \in 1 .. size :
               Spliced(left, first)[k] = IF k <= lo THEN left[k] ELSE IF k = lo + 1 THEN first ELSE left[k - lo - 1 + hi]
      BY <1>1, <2>1, <2>2, <2>3
    <3>2. QED
      BY <1>3, <3>1
  <2>5. m.right \in Seq(Nat) /\ Len(m.right) = size
        /\ \A k \in 1 .. size :
             m.right[k] = IF k <= lo THEN right[k] ELSE IF k = lo + 1 THEN last ELSE right[k - lo - 1 + hi]
    <3>1. /\ Spliced(right, last) \in Seq(Nat) /\ Len(Spliced(right, last)) = size
          /\ \A k \in 1 .. size :
               Spliced(right, last)[k] = IF k <= lo THEN right[k] ELSE IF k = lo + 1 THEN last ELSE right[k - lo - 1 + hi]
      BY <1>1, <2>1, <2>2, <2>3
    <3>2. QED
      BY <1>3, <3>1
  <2>6. QED
    BY <2>4, <2>5
<1>. HIDE DEF size
<1>19. /\ \A k \in 1 .. size : m.left[k] \in Nat /\ m.right[k] \in Nat /\ m.left[k] <= m.right[k]
       /\ \A j, k \in 1 .. size : j < k => m.right[j] < m.left[k]
       /\ \A b \in Nat : (\E k \in 1 .. size : m.left[k] <= b /\ b <= m.right[k]) <=>
            b \in start .. end \/ \E k \in 1 .. n : left[k] <= b /\ b <= right[k]
  <2>1. size = n - hi + lo + 1
    BY DEF size
  <2>. DEFINE p == m.left
              q == m.right
  <2>2. \A k \in 1 .. size :
           /\ p[k] = IF k <= lo THEN left[k] ELSE IF k = lo + 1 THEN first ELSE left[k - lo - 1 + hi]
           /\ q[k] = IF k <= lo THEN right[k] ELSE IF k = lo + 1 THEN last ELSE right[k - lo - 1 + hi]
    BY <1>18
  <2>3. p = m.left /\ q = m.right
    OBVIOUS
  <2>. HIDE DEF p, q
  <2>4. /\ \A k \in 1 .. size : p[k] \in Nat /\ q[k] \in Nat /\ p[k] <= q[k]
        /\ \A j, k \in 1 .. size : j < k => q[j] < p[k]
        /\ \A b \in Nat : (\E k \in 1 .. size : p[k] <= b /\ b <= q[k]) <=>
             b \in start .. end \/ \E k \in 1 .. n : left[k] <= b /\ b <= right[k]
    BY <1>8, <2>1, <2>2, SpliceIsRight
  <2>5. QED
    BY <2>3, <2>4
<1>20. Apart(m.left, m.right)
  BY <1>18, <1>19 DEF Apart
<1>21. Between(m.left, m.right) = Between(left, right) \cup (start .. end)
  <2>1. start .. end \subseteq Nat
    OBVIOUS
  <2>2. QED
    BY <1>4, <1>18, <1>19, <2>1 DEF Between
<1>22. QED
  BY <1>15, <1>16, <1>17, <1>20, <1>21

Got == Between(left, right)

(* What was fetched is in the sparse file at its place, and was fetched     *)
(* once.                                                                    *)
Sparse ==
  /\ Apart(left, right)
  /\ DOMAIN content = 0 .. wheel.length - 1 /\ DOMAIN fetched = 0 .. wheel.length - 1
  /\ \A b \in Got : b < wheel.length
  /\ \A b \in 0 .. wheel.length - 1 :
       /\ b \in Got => content[b] = b
       /\ fetched[b] = IF b \in Got THEN 1 ELSE 0

(* _ensure_downloaded(): right if what it has of a range is the end of it,  *)
(* since every part is written where the range begins.                      *)
LEMMA EnsureDownloadedIsRight ==
  ASSUME wheel \in H!Wheel, wheel' = wheel, Sparse,
         NEW start \in Nat, NEW stop \in Nat, start < stop, stop <= wheel.length, NEW next,
         \A b, c \in start .. stop - 1 : b \in Got /\ b <= c => c \in Got,
         H!EnsureDownloaded(start, stop, next)
  PROVE  /\ Sparse'
         /\ \/ at' = next /\ Got' = Got \cup (start .. stop - 1)
            \/ at' = "unsupported" /\ UNCHANGED <<left, right>>
<1>. DEFINE m == H!MinimalIntervalsCovering(start, stop - 1)
            L == wheel.length
<1>1. L \in Nat /\ Apart(left, right) /\ stop - 1 \in Nat /\ start <= stop - 1 /\ Got \subseteq Nat
  BY DEF H!Wheel, Sparse, Got, Between
<1>2. CASE \A g \in m.fetch : H!IsRespected(g)
  <2>1. H!FetchedParts(start, stop, m.fetch) /\ left' = m.left /\ right' = m.right /\ at' = next
    BY <1>2 DEF H!EnsureDownloaded
  <2>2. /\ Apart(m.left, m.right)
        /\ Between(m.left, m.right) = Got \cup (start .. stop - 1)
        /\ \A g \in m.fetch : g[1] \in Nat /\ g[2] \in Nat /\ g[1] <= g[2]
        /\ \A b \in Nat : b \in (start .. stop - 1) \ Got <=> \E g \in m.fetch : b \in g[1] .. g[2]
        /\ \A g, h \in m.fetch : g # h =>
             \E b \in Got : (g[2] < b /\ b < h[1]) \/ (h[2] < b /\ b < g[1])
    <3>. HIDE DEF m
    <3>1. m = H!MinimalIntervalsCovering(start, stop - 1)
      BY DEF m
    <3>2. QED
      BY <1>1, <3>1, MergeIsRight DEF Got
  <2>. HIDE DEF m
  <2>3. Apart(left, right)' /\ Got' = Got \cup (start .. stop - 1)
    BY <2>1, <2>2 DEF Apart, Got, Between
  <2>4. ASSUME NEW g \in m.fetch, NEW b \in Nat, g[1] <= b, b <= g[2]
        PROVE  start <= b /\ b <= stop - 1 /\ b \notin Got
    <3>1. b \in g[1] .. g[2]
      BY <2>2, <2>4
    <3>2. QED
      BY <2>2, <3>1
  <2>5. ASSUME NEW g \in m.fetch, NEW h \in m.fetch PROVE g = h
    <3>1. SUFFICES ASSUME g # h PROVE FALSE
      OBVIOUS
    <3>2. PICK b \in Got : (g[2] < b /\ b < h[1]) \/ (h[2] < b /\ b < g[1])
      BY <2>2, <3>1
    <3>3. PICK x \in m.fetch, y \in m.fetch : x[2] < b /\ b < y[1]
      BY <3>2
    <3>4. x[2] \in Nat /\ y[1] \in Nat /\ b \in Nat /\ x[1] <= x[2] /\ y[1] <= y[2] /\ y[2] \in Nat /\ x[1] \in Nat
      BY <1>1, <2>2
    <3>5. start <= x[2] /\ y[1] <= stop - 1 /\ y[1] \notin Got
      BY <2>4, <3>4
    <3>6. b \in start .. stop - 1 /\ y[1] \in start .. stop - 1 /\ b <= y[1]
      BY <1>1, <3>3, <3>4, <3>5
    <3>7. QED
      BY <3>5, <3>6
  <2>6. ASSUME NEW g \in m.fetch PROVE g[1] = start
    <3>1. g[1] \in Nat /\ g[2] \in Nat /\ start <= g[1] /\ g[1] <= stop - 1 /\ g[1] \notin Got
      BY <2>2, <2>4
    <3>2. start \notin Got
      BY <1>1, <3>1
    <3>3. PICK h \in m.fetch : start \in h[1] .. h[2]
      BY <1>1, <2>2, <3>2
    <3>4. QED
      BY <2>2, <2>5, <3>1, <3>3
  <2>7. ASSUME NEW b \in 0 .. L - 1
        PROVE  /\ content'[b] = IF b \in (start .. stop - 1) \ Got THEN b ELSE content[b]
               /\ fetched'[b] = fetched[b] + IF b \in (start .. stop - 1) \ Got THEN 1 ELSE 0
    <3>. DEFINE writers == {g \in m.fetch : b \in H!PlaceOf(start, g) .. H!PlaceOf(start, g) + g[2] - g[1]}
                senders == {g \in m.fetch : b \in g[1] .. g[2]}
                last == CHOOSE g \in writers : \A h \in writers : h[1] <= g[1]
    <3>1. /\ content'[b] = IF writers = {} THEN content[b] ELSE last[1] + b - H!PlaceOf(start, last)
          /\ fetched'[b] = fetched[b] + Cardinality(senders)
      BY <2>1, SameCardinality DEF H!FetchedParts, Sparse
    <3>2. writers = senders
      BY <2>2, <2>6 DEF H!PlaceOf
    <3>. HIDE DEF writers
    <3>3. CASE b \in (start .. stop - 1) \ Got
      <4>1. PICK g \in m.fetch : b \in g[1] .. g[2]
        BY <2>2, <3>3
      <4>2. senders = {g}
        BY <2>5, <4>1
      <4>3. Cardinality(senders) = 1
        BY <4>2, FS_Singleton
      <4>4. g[1] \in Nat /\ writers = {g}
        BY <2>2, <3>2, <4>2
      <4>5. last = g
        BY <4>4
      <4>6. last[1] + b - H!PlaceOf(start, last) = b
        BY <2>6, <4>4, <4>5 DEF H!PlaceOf
      <4>7. QED
        BY <3>1, <3>3, <4>3, <4>4, <4>6
    <3>4. CASE b \notin (start .. stop - 1) \ Got
      <4>1. senders = {}
        BY <2>2, <3>4
      <4>2. Cardinality(senders) = 0
        BY <4>1, FS_EmptySet
      <4>3. QED
        BY <3>1, <3>2, <3>4, <4>1, <4>2
    <3>5. QED
      BY <3>3, <3>4
  <2>8. DOMAIN content' = 0 .. L - 1 /\ DOMAIN fetched' = 0 .. L - 1
    BY <2>1 DEF H!FetchedParts, Sparse
  <2>9. \A b \in Got' : b < L
    BY <1>1, <2>3 DEF Sparse
  <2>10. ASSUME NEW b \in 0 .. L - 1
         PROVE  /\ b \in Got' => content'[b] = b
                /\ fetched'[b] = IF b \in Got' THEN 1 ELSE 0
    <3>1. /\ b \in Got => content[b] = b
          /\ fetched[b] = IF b \in Got THEN 1 ELSE 0
      BY DEF Sparse
    <3>2. QED
      BY <2>3, <2>7, <3>1
  <2>11. QED
    BY <2>1, <2>3, <2>8, <2>9, <2>10 DEF Sparse
<1>3. CASE ~ \A g \in m.fetch : H!IsRespected(g)
  <2>1. at' = "unsupported" /\ UNCHANGED <<content, fetched, left, right>>
    BY <1>3 DEF H!EnsureDownloaded
  <2>2. QED
    BY <2>1 DEF Sparse, Apart, Got, Between
<1>4. QED
  BY <1>2, <1>3

(* What ZipFile reads is the end of the wheel or what is before its last    *)
(* unit, and then METADATA.                                                 *)
IsEnd(w, x) == x[1] < x[2] /\ x[2] \in {w.length - 1, w.length} /\ x # <<w.start, w.end>>
Ends(w, s) == s \in Seq(Nat \X Nat) /\ \A k \in 1 .. Len(s) : IsEnd(w, s[k])
Reads(w, s) ==
  /\ s \in Seq(Nat \X Nat)
  /\ \A k \in 1 .. Len(s) : s[k] = <<w.start, w.end>> \/ IsEnd(w, s[k])
  /\ \A j, k \in 1 .. Len(s) : j < k /\ s[j] = <<w.start, w.end>> => s[k] = <<w.start, w.end>>

(* Two such lists after each other are one.                                 *)
LEMMA EndsFollowEnds ==
  ASSUME NEW w, NEW s, NEW t, Ends(w, s), Ends(w, t)
  PROVE  Ends(w, s \o t)
<1>1. s \in Seq(Nat \X Nat) /\ t \in Seq(Nat \X Nat)
  BY DEF Ends
<1>2. /\ s \o t \in Seq(Nat \X Nat)
      /\ Len(s \o t) = Len(s) + Len(t)
      /\ \A i \in 1 .. Len(s) + Len(t) : (s \o t)[i] = IF i <= Len(s) THEN s[i] ELSE t[i - Len(s)]
  BY ONLY <1>1, ConcatProperties
<1>3. Len(s) \in Nat /\ Len(t) \in Nat
  BY <1>1
<1>4. ASSUME NEW k \in 1 .. Len(s \o t) PROVE IsEnd(w, (s \o t)[k])
  <2>1. k <= Len(s) => k \in 1 .. Len(s)
    BY <1>2, <1>3
  <2>2. ~ k <= Len(s) => k - Len(s) \in 1 .. Len(t)
    BY <1>2, <1>3
  <2>3. (s \o t)[k] = IF k <= Len(s) THEN s[k] ELSE t[k - Len(s)]
    BY <1>2
  <2>4. QED
    BY <2>1, <2>2, <2>3 DEF Ends
<1>5. QED
  BY <1>2, <1>4 DEF Ends

(* read_metadata() reads METADATA last.                                     *)
LEMMA ReadMetadataIsRight ==
  ASSUME NEW w \in H!Wheel
  PROVE  Reads(w, H!ReadMetadata(w))
<1>. DEFINE L == w.length
            A == <<<<L - 1, L>>>>
            B == IF w.comment THEN <<<<H!Max({L - 3, 0}), L>>>> ELSE <<>>
            C == IF w.entries < L - 1 THEN <<<<w.entries, L - 1>>>> ELSE <<>>
            M == IF w.readable THEN <<<<w.start, w.end>>, <<w.start, w.end>>>> ELSE <<>>
            E == H!Opened(w) \o H!Opened(w)
<1>1. /\ w.start \in Nat /\ w.end \in Nat /\ w.entries \in Nat /\ L \in Nat
      /\ w.start < w.end /\ w.end <= w.entries /\ w.entries < L
  BY DEF H!Wheel
<1>2. ASSUME NEW x \in Nat \X Nat, IsEnd(w, x) PROVE Ends(w, <<x>>)
  BY <1>2 DEF Ends
<1>3. Ends(w, <<>>)
  BY DEF Ends
<1>4. Ends(w, A)
  BY <1>1, <1>2 DEF IsEnd
<1>5. Ends(w, B)
  <2>1. H!Max({L - 3, 0}) = IF L - 3 <= 0 THEN 0 ELSE L - 3
    <3>1. L - 3 \in Int /\ 0 \in Int
      BY <1>1
    <3>2. QED
      BY <3>1, SameBounds
  <2>2. IsEnd(w, <<H!Max({L - 3, 0}), L>>) /\ <<H!Max({L - 3, 0}), L>> \in Nat \X Nat
    BY <1>1, <2>1 DEF IsEnd
  <2>3. QED
    BY <1>2, <1>3, <2>2
<1>6. Ends(w, C)
  <2>1. w.entries < L - 1 => IsEnd(w, <<w.entries, L - 1>>) /\ <<w.entries, L - 1>> \in Nat \X Nat
    BY <1>1 DEF IsEnd
  <2>2. QED
    BY <1>2, <1>3, <2>1
<1>7. H!Opened(w) = A \o B \o C
  BY DEF H!Opened
<1>. HIDE DEF A, B, C
<1>8. Ends(w, E)
  BY <1>4, <1>5, <1>6, <1>7, EndsFollowEnds
<1>9. H!ReadMetadata(w) = E \o M
  BY DEF H!ReadMetadata
<1>. HIDE DEF E
<1>10. M \in Seq(Nat \X Nat) /\ \A k \in 1 .. Len(M) : M[k] = <<w.start, w.end>>
  <2>1. ASSUME NEW x \in Nat \X Nat
        PROVE  <<x, x>> \in Seq(Nat \X Nat) /\ \A k \in 1 .. Len(<<x, x>>) : <<x, x>>[k] = x
    OBVIOUS
  <2>2. <<>> \in Seq(Nat \X Nat) /\ \A k \in 1 .. Len(<<>>) : <<>>[k] = <<w.start, w.end>>
    OBVIOUS
  <2>3. <<w.start, w.end>> \in Nat \X Nat
    BY <1>1
  <2>4. CASE w.readable
    BY <2>1, <2>3, <2>4
  <2>5. CASE ~ w.readable
    BY <2>2, <2>5
  <2>6. QED
    BY <2>4, <2>5
<1>. HIDE DEF M
<1>11. E \in Seq(Nat \X Nat) /\ \A k \in 1 .. Len(E) : IsEnd(w, E[k])
  BY <1>8 DEF Ends
<1>12. /\ E \o M \in Seq(Nat \X Nat)
       /\ Len(E \o M) = Len(E) + Len(M)
       /\ \A i \in 1 .. Len(E) + Len(M) : (E \o M)[i] = IF i <= Len(E) THEN E[i] ELSE M[i - Len(E)]
  BY ONLY <1>10, <1>11, ConcatProperties
<1>13. Len(E) \in Nat /\ Len(M) \in Nat
  BY <1>10, <1>11
<1>14. ASSUME NEW k \in 1 .. Len(E \o M)
       PROVE  IF k <= Len(E) THEN IsEnd(w, (E \o M)[k]) ELSE (E \o M)[k] = <<w.start, w.end>>
  <2>1. k <= Len(E) => k \in 1 .. Len(E)
    BY <1>12, <1>13
  <2>2. ~ k <= Len(E) => k - Len(E) \in 1 .. Len(M)
    BY <1>12, <1>13
  <2>3. QED
    BY <1>10, <1>11, <1>12, <2>1, <2>2
<1>15. ASSUME NEW j \in 1 .. Len(E \o M), NEW k \in 1 .. Len(E \o M), j < k,
              (E \o M)[j] = <<w.start, w.end>>
       PROVE  (E \o M)[k] = <<w.start, w.end>>
  <2>1. ~ j <= Len(E)
    BY <1>14, <1>15 DEF IsEnd
  <2>2. ~ k <= Len(E)
    BY <1>12, <1>13, <1>15, <2>1
  <2>3. QED
    BY <1>14, <2>2
<1>16. QED
  BY <1>9, <1>12, <1>14, <1>15 DEF Reads

(* So does the rest of what is read.                                        *)
LEMMA TailIsRead ==
  ASSUME NEW w, NEW s, Reads(w, s), s # <<>>
  PROVE  /\ Reads(w, Tail(s))
         /\ Head(s) \in Nat \X Nat
         /\ Head(s) = <<w.start, w.end>> \/ IsEnd(w, Head(s))
         /\ Head(s) = <<w.start, w.end>> =>
              \A k \in 1 .. Len(Tail(s)) : Tail(s)[k] = <<w.start, w.end>>
<1>1. s \in Seq(Nat \X Nat)
  BY DEF Reads
<1>2. /\ Tail(s) \in Seq(Nat \X Nat) /\ Len(Tail(s)) = Len(s) - 1
      /\ \A k \in 1 .. Len(Tail(s)) : Tail(s)[k] = s[k + 1]
      /\ Head(s) = s[1] /\ Head(s) \in Nat \X Nat /\ Len(s) \in Nat /\ Len(s) >= 1
  BY <1>1
<1>3. \A k \in 1 .. Len(Tail(s)) : k + 1 \in 1 .. Len(s) /\ 1 < k + 1
  BY <1>2
<1>4. 1 \in 1 .. Len(s)
  BY <1>2
<1>5. \A j, k \in 1 .. Len(Tail(s)) : j < k => j + 1 < k + 1
  BY <1>2
<1>6. QED
  BY <1>2, <1>3, <1>4, <1>5 DEF Reads

(* While a wheel is read lazily: what was fetched is the end of the wheel,  *)
(* or that and METADATA when nothing else is going to be read.              *)
Lazily ==
  /\ wheel \in H!Wheel /\ Sparse /\ Reads(wheel, todo)
  /\ at \in {"tail", "head", "end", "read", "metadata", "unsupported"} /\ noTails \in BOOLEAN
  /\ at \in {"tail", "head", "end"} => left = <<>> /\ right = <<>>
  /\ at \in {"end", "read"} => length = wheel.length
  /\ at = "read" =>
       \E t \in 0 .. wheel.length - 1 :
         \/ Got = t .. wheel.length - 1
         \/ /\ Got = (wheel.start .. wheel.end - 1) \cup (t .. wheel.length - 1)
            /\ \A k \in 1 .. Len(todo) : todo[k] = <<wheel.start, wheel.end>>

(* Without intervals nothing was fetched.                                   *)
LEMMA NothingYet ==
  ASSUME left = <<>>, right = <<>>
  PROVE  Apart(left, right) /\ Got = {}
BY DEF Apart, Got, Between

(* _try_initial_chunk_request(): when bytes are taken they are the last     *)
(* ones of the wheel.                                                       *)
LEMMA TailIsTaken ==
  ASSUME Lazily, at = "tail", H!HTTPRepositoryAssumption, NEW first \in Int, H!TakeTail(first),
         UNCHANGED <<wheel, todo>>
  PROVE  Lazily'
<1>. DEFINE L == wheel.length
            n == L - first
<1>1. L \in Nat /\ L > 0 /\ left = <<>> /\ right = <<>> /\ Got = {} /\ Sparse /\ Reads(wheel, todo)
      /\ wheel \in H!Wheel /\ noTails \in BOOLEAN
  BY NothingYet DEF Lazily, H!Wheel
<1>2. CASE n = H!SentTail(wheel)
  <2>1. /\ length' = L
        /\ content' = H!Written(content, L - n, first, L - 1)
        /\ fetched' = H!Sent(first, L - 1)
        /\ left' = <<first>> /\ right' = <<L - 1>>
        /\ at' = "read" /\ noTails' = noTails /\ first >= 0
    BY <1>2 DEF H!TakeTail
  <2>2. first \in 0 .. L - 1 /\ L - n = first
    <3>1. InitialChunk \in Int /\ L \in Int /\ InitialChunk > 0
      BY <1>1 DEF H!HTTPRepositoryAssumption
    <3>2. H!SentTail(wheel) = IF InitialChunk <= L THEN InitialChunk ELSE L
      BY <3>1, SameBounds DEF H!SentTail
    <3>3. QED
      BY <1>1, <1>2, <2>1, <3>1, <3>2
  <2>. HIDE DEF n
  <2>3. Apart(left', right') /\ Got' = first .. L - 1
    <3>1. /\ left' \in Seq(Nat) /\ right' \in Seq(Nat) /\ Len(left') = 1 /\ Len(right') = 1
          /\ left'[1] = first /\ right'[1] = L - 1
      BY <1>1, <2>1, <2>2
    <3>2. 1 .. 1 = {1}
      OBVIOUS
    <3>3. Apart(left', right')
      BY <1>1, <2>2, <3>1, <3>2 DEF Apart
    <3>4. Got' = {b \in Nat : first <= b /\ b <= L - 1}
      BY <3>1, <3>2 DEF Got, Between
    <3>5. QED
      BY <1>1, <2>2, <3>3, <3>4
  <2>4. ASSUME NEW b \in 0 .. L - 1
        PROVE  /\ b \in Got' => content'[b] = b
               /\ fetched'[b] = IF b \in Got' THEN 1 ELSE 0
    <3>1. b \in DOMAIN content /\ b \in DOMAIN fetched /\ fetched[b] = 0
      BY <1>1 DEF Sparse
    <3>2. b \in Got' => content'[b] = b
      BY <1>1, <2>1, <2>2, <2>3, <3>1 DEF H!Written
    <3>3. fetched'[b] = IF b \in Got' THEN 1 ELSE 0
      BY <1>1, <2>1, <2>2, <2>3, <3>1 DEF H!Sent
    <3>4. QED
      BY <3>2, <3>3
  <2>5. Sparse'
    <3>1. DOMAIN content' = 0 .. L - 1 /\ DOMAIN fetched' = 0 .. L - 1
      BY <1>1, <2>1 DEF Sparse, H!Written, H!Sent
    <3>2. \A b \in Got' : b < L
      BY <1>1, <2>2, <2>3
    <3>3. QED
      BY <2>3, <2>4, <3>1, <3>2 DEF Sparse
  <2>6. QED
    BY <1>1, <2>1, <2>2, <2>3, <2>5 DEF Lazily
<1>3. CASE n # H!SentTail(wheel)
  <2>1. at' = "unsupported" /\ UNCHANGED <<length, content, left, right, fetched, noTails>>
    BY <1>3 DEF H!TakeTail, H!file
  <2>2. QED
    BY <1>1, <2>1 DEF Lazily, Sparse, Got
<1>4. QED
  BY <1>2, <1>3

(* Every step of reading a wheel lazily.                                    *)
LEMMA LazyStepIsRight ==
  ASSUME Lazily, H!HTTPRepositoryAssumption, H!LazyStep
  PROVE  Lazily'
<1>. DEFINE L == wheel.length
<1>1. /\ wheel \in H!Wheel /\ Sparse /\ Reads(wheel, todo) /\ noTails \in BOOLEAN
      /\ L \in Nat /\ L > 0 /\ wheel.start \in Nat /\ wheel.end \in Nat
      /\ wheel.start < wheel.end /\ wheel.end < L
  BY DEF Lazily, H!Wheel
<1>2. CASE H!TryInitialChunkRequest
  <2>1. at = "tail" /\ UNCHANGED <<wheel, todo>> /\ left = <<>> /\ right = <<>>
    BY <1>2 DEF H!TryInitialChunkRequest, Lazily
  <2>2. ASSUME NEW first \in Int, H!TakeTail(first) PROVE Lazily'
    BY <2>1, <2>2, TailIsTaken
  <2>3. CASE H!ServedTail
    <3>1. H!SentTail(wheel) \in Int
      <4>1. InitialChunk \in Int /\ L \in Int
        BY <1>1 DEF H!HTTPRepositoryAssumption
      <4>2. QED
        BY <4>1, SameBounds DEF H!SentTail
    <3>2. wheel.length - H!SentTail(wheel) \in Int
      BY <1>1, <3>1
    <3>3. QED
      BY <2>2, <2>3, <3>2 DEF H!ServedTail
  <2>4. ASSUME at' = "unsupported", UNCHANGED <<length, content, left, right, fetched>>, noTails' \in BOOLEAN
        PROVE  Lazily'
    BY <1>1, <2>1, <2>4 DEF Lazily, Sparse, Got
  <2>5. ASSUME length' = wheel.length, at' = "end", UNCHANGED <<content, left, right, fetched>>,
               noTails' \in BOOLEAN
        PROVE  Lazily'
    BY <1>1, <2>1, <2>5 DEF Lazily, Sparse, Got
  <2>6. CASE H!Unsatisfiable
    BY <1>1, <2>5, <2>6 DEF H!Unsatisfiable, H!OnlyLength
  <2>7. CASE H!WholeWheel
    BY <1>1, <2>2, <2>4, <2>7 DEF H!WholeWheel, H!file
  <2>8. CASE H!FromStart
    <3>1. CASE wheel.length > InitialChunk
      <4>1. length' = wheel.length /\ at' = "end" /\ UNCHANGED <<content, left, right, fetched>>
            /\ noTails' = TRUE
        BY <2>8, <3>1 DEF H!FromStart, H!OnlyLength
      <4>2. QED
        BY <2>5, <4>1
    <3>2. CASE ~ wheel.length > InitialChunk
      BY <2>2, <2>8, <3>2 DEF H!FromStart
    <3>3. QED
      BY <3>1, <3>2
  <2>9. CASE H!Unnamed
    BY <1>1, <2>4, <2>9 DEF H!Unnamed, H!file
  <2>10. CASE H!Refused
    <3>1. at' = "head" /\ noTails' = TRUE /\ UNCHANGED <<length, content, left, right, fetched>>
      BY <2>10 DEF H!Refused, H!file
    <3>2. QED
      BY <1>1, <2>1, <3>1 DEF Lazily, Sparse, Got
  <2>11. QED
    BY <1>2, <2>3, <2>6, <2>7, <2>8, <2>9, <2>10 DEF H!TryInitialChunkRequest
<1>3. CASE H!ContentLengthFromHead
  <2>1. /\ UNCHANGED <<wheel, todo, noTails, content, left, right, fetched>> /\ left = <<>> /\ right = <<>>
        /\ \/ at' = "end" /\ length' = wheel.length
           \/ at' = "unsupported"
    BY <1>3 DEF H!ContentLengthFromHead, H!OnlyLength, H!file, Lazily
  <2>2. QED
    BY <1>1, <2>1 DEF Lazily, Sparse, Got
<1>4. CASE H!FetchEnd
  <2>. DEFINE start == H!Max({0, length - InitialChunk})
  <2>1. /\ length = L /\ Got = {} /\ UNCHANGED <<wheel, todo, noTails, length>>
        /\ H!EnsureDownloaded(start, length, "read")
    BY <1>4, NothingYet DEF H!FetchEnd, Lazily
  <2>2. start \in 0 .. L - 1
    <3>1. InitialChunk \in Nat /\ InitialChunk > 0
      BY DEF H!HTTPRepositoryAssumption
    <3>2. 0 \in Int /\ length - InitialChunk \in Int
      BY <1>1, <2>1, <3>1
    <3>3. start = IF 0 <= length - InitialChunk THEN length - InitialChunk ELSE 0
      BY <3>2, SameBounds
    <3>4. QED
      BY <1>1, <2>1, <3>1, <3>3
  <2>. HIDE DEF start
  <2>3. Sparse' /\ (at' = "unsupported" \/ (at' = "read" /\ Got' = start .. L - 1))
    <3>1. start \in Nat /\ L \in Nat /\ start < L /\ L <= L
      BY <1>1, <2>2
    <3>2. \A b, c \in start .. L - 1 : b \in Got /\ b <= c => c \in Got
      BY <2>1
    <3>3. H!EnsureDownloaded(start, L, "read")
      BY <2>1
    <3>4. /\ Sparse'
          /\ \/ at' = "read" /\ Got' = Got \cup (start .. L - 1)
             \/ at' = "unsupported" /\ UNCHANGED <<left, right>>
      BY <1>1, <2>1, <3>1, <3>2, <3>3, EnsureDownloadedIsRight
    <3>5. QED
      BY <2>1, <3>4
  <2>4. QED
    BY <1>1, <2>1, <2>2, <2>3 DEF Lazily
<1>5. CASE H!Read
  <2>. DEFINE start == Head(todo)[1]
              stop == H!Min({Head(todo)[2], length})
              METADATA == <<wheel.start, wheel.end>>
  <2>1. /\ at = "read" /\ todo # <<>> /\ length = L /\ todo' = Tail(todo)
        /\ UNCHANGED <<wheel, noTails, length>>
        /\ H!EnsureDownloaded(start, stop, "read")
    BY <1>5 DEF H!Read, Lazily
  <2>2. /\ Reads(wheel, Tail(todo)) /\ Head(todo) \in Nat \X Nat
        /\ Head(todo) = METADATA \/ IsEnd(wheel, Head(todo))
        /\ Head(todo) = METADATA => \A k \in 1 .. Len(Tail(todo)) : Tail(todo)[k] = METADATA
    BY <1>1, <2>1, TailIsRead
  <2>3. /\ start \in Nat /\ stop = Head(todo)[2] /\ stop \in Nat /\ start < stop /\ stop <= L
    <3>1. start \in Nat /\ Head(todo)[2] \in Nat /\ start < Head(todo)[2] /\ Head(todo)[2] <= L
      BY <1>1, <2>2 DEF IsEnd
    <3>2. stop = IF Head(todo)[2] <= L THEN Head(todo)[2] ELSE L
      <4>1. Head(todo)[2] \in Int /\ L \in Int
        BY <1>1, <3>1
      <4>2. stop = H!Min({Head(todo)[2], L})
        BY <2>1
      <4>3. QED
        BY <4>1, <4>2, SameBounds
    <3>3. QED
      BY <3>1, <3>2
  <2>. HIDE DEF start, stop
  <2>4. PICK t \in 0 .. L - 1 :
          \/ Got = t .. L - 1
          \/ /\ Got = (wheel.start .. wheel.end - 1) \cup (t .. L - 1)
             /\ \A k \in 1 .. Len(todo) : todo[k] = METADATA
    BY <2>1 DEF Lazily
  <2>5. (\A k \in 1 .. Len(todo) : todo[k] = METADATA) => Head(todo) = METADATA
    <3>1. todo \in Seq(Nat \X Nat)
      BY <1>1 DEF Reads
    <3>2. 1 \in 1 .. Len(todo) /\ Head(todo) = todo[1]
      BY <2>1, <3>1
    <3>3. QED
      BY <3>2
  <2>6. Head(todo) = METADATA => start = wheel.start /\ stop = wheel.end
    BY <2>3 DEF start
  <2>7. /\ Sparse'
        /\ \/ at' = "unsupported"
           \/ at' = "read" /\ Got' = Got \cup (start .. stop - 1)
    <3>1. \A b, c \in start .. stop - 1 : b \in Got /\ b <= c => c \in Got
      <4>1. CASE Got = t .. L - 1
        <5>1. SUFFICES ASSUME NEW b \in start .. stop - 1, NEW c \in start .. stop - 1, t <= b, b <= c
                       PROVE  t <= c /\ c <= L - 1
          BY <4>1
        <5>2. QED
          BY <1>1, <2>3, <5>1
      <4>2. CASE Got = (wheel.start .. wheel.end - 1) \cup (t .. L - 1) /\ Head(todo) = METADATA
        BY <2>6, <4>2
      <4>3. QED
        BY <2>4, <2>5, <4>1, <4>2
    <3>2. QED
      BY <1>1, <2>1, <2>3, <3>1, EnsureDownloadedIsRight
  <2>8. ASSUME at' = "read"
        PROVE  \E u \in 0 .. L - 1 :
                 \/ Got' = u .. L - 1
                 \/ /\ Got' = (wheel.start .. wheel.end - 1) \cup (u .. L - 1)
                    /\ \A k \in 1 .. Len(todo') : todo'[k] = METADATA
    <3>1. Got' = Got \cup (start .. stop - 1)
      BY <2>7, <2>8
    <3>2. CASE Head(todo) = METADATA
      <4>1. Got' = (wheel.start .. wheel.end - 1) \cup (t .. L - 1)
        BY <2>4, <2>6, <3>1, <3>2
      <4>2. QED
        BY <2>1, <2>2, <3>2, <4>1
    <3>3. CASE Head(todo) # METADATA
      <4>1. Got = t .. L - 1 /\ stop \in {L - 1, L}
        BY <2>2, <2>3, <2>4, <2>5, <3>3 DEF IsEnd
      <4>2. CASE start <= t
        <5>1. Got' = start .. L - 1
          BY <1>1, <2>3, <3>1, <4>1, <4>2
        <5>2. start \in 0 .. L - 1
          BY <1>1, <2>3
        <5>3. QED
          BY <5>1, <5>2
      <4>3. CASE t < start
        <5>1. start .. stop - 1 \subseteq t .. L - 1
          BY <1>1, <2>3, <4>3
        <5>2. Got' = t .. L - 1
          BY <3>1, <4>1, <5>1
        <5>3. QED
          BY <5>2
      <4>4. start <= t \/ t < start
        BY <2>3
      <4>5. QED
        BY <4>2, <4>3, <4>4
    <3>4. QED
      BY <3>2, <3>3
  <2>9. QED
    BY <1>1, <2>1, <2>2, <2>7, <2>8 DEF Lazily
<1>6. CASE H!Parse \/ H!Broken
  <2>1. /\ at' \in {"metadata", "unsupported"}
        /\ UNCHANGED <<wheel, todo, noTails, length, content, left, right, fetched>>
    BY <1>6 DEF H!Parse, H!Broken, H!file
  <2>2. QED
    BY <1>1, <2>1 DEF Lazily, Sparse, Got
<1>7. QED
  BY <1>2, <1>3, <1>4, <1>5, <1>6 DEF H!LazyStep

(* What MetadataIsRight says of the file.                                   *)
LEMMA LazilyIsRight ==
  ASSUME Lazily
  PROVE  H!BytesAreRight /\ H!NothingIsSentTwice
<1>1. Apart(left, right) /\ DOMAIN left = 1 .. Len(left) /\ Len(left) \in Nat
  BY DEF Lazily, Sparse, Apart
<1>2. H!Covered = Got
  <2>1. \A k \in 1 .. Len(left) : left[k] \in Nat /\ right[k] \in Nat
    BY <1>1 DEF Apart
  <2>2. \A b : b \in H!Covered <=> \E k \in 1 .. Len(left) : b \in left[k] .. right[k]
    BY <1>1 DEF H!Covered
  <2>3. \A b : b \in Got <=> b \in Nat /\ \E k \in 1 .. Len(left) : left[k] <= b /\ b <= right[k]
    BY DEF Got, Between
  <2>4. \A b, k : k \in 1 .. Len(left) =>
          (b \in left[k] .. right[k] <=> b \in Nat /\ left[k] <= b /\ b <= right[k])
    BY <2>1
  <2>5. \A b : b \in H!Covered <=> b \in Got
    BY <2>2, <2>3, <2>4
  <2>6. QED
    BY <2>5
<1>3. wheel.length \in Nat
  BY DEF Lazily, H!Wheel
<1>4. H!BytesAreRight
  <2>1. \A b \in Got : b \in 0 .. wheel.length - 1
    BY <1>3 DEF Got, Between, Lazily, Sparse
  <2>2. QED
    BY <1>2, <2>1 DEF Lazily, Sparse, H!BytesAreRight
<1>5. H!NothingIsSentTwice
  <2>1. \A k \in DOMAIN left : left[k] <= right[k]
    BY <1>1 DEF Apart
  <2>2. \A k \in DOMAIN left : k + 1 \in DOMAIN left => right[k] < left[k + 1]
    <3>1. \A k \in DOMAIN left : k < k + 1
      BY <1>1
    <3>2. QED
      BY <1>1, <3>1 DEF Apart
  <2>3. Len(left) = Len(right)
    BY <1>1 DEF Apart
  <2>4. \A b \in H!Bytes : fetched[b] = IF b \in H!Covered THEN 1 ELSE 0
    BY <1>2 DEF Lazily, Sparse, H!Bytes
  <2>5. QED
    BY <2>1, <2>2, <2>3, <2>4, SameSequences DEF H!NothingIsSentTwice
<1>6. QED
  BY <1>4, <1>5

(* _get_info_from_wheel() makes a new file.                                 *)
LEMMA BeginsLazily ==
  ASSUME NEW w \in H!Wheel, noTails \in BOOLEAN, H!Begin(w, H!ReadMetadata(w))
  PROVE  Lazily'
<1>1. /\ wheel' = w /\ at' \in {"head", "tail"} /\ todo' = H!ReadMetadata(w) /\ noTails' = noTails
      /\ DOMAIN content' = 0 .. w.length - 1 /\ fetched' = [b \in 0 .. w.length - 1 |-> 0]
      /\ left' = <<>> /\ right' = <<>>
  BY DEF H!Begin
<1>2. Got' = {} /\ Apart(left, right)'
  BY <1>1 DEF Got, Between, Apart
<1>3. Sparse'
  BY <1>1, <1>2 DEF Sparse
<1>4. Reads(wheel', todo')
  BY <1>1, ReadMetadataIsRight
<1>5. QED
  BY <1>1, <1>3, <1>4 DEF Lazily

-----------------------------------------------------------------------------
(* The least and the greatest place of a link.                              *)
LEMMA LastAndFirst ==
  ASSUME NEW n \in Nat, NEW S \in SUBSET (1 .. n), S # {}
  PROVE  H!Max(S) \in S /\ H!Min(S) \in S
<1>1. S \in SUBSET (0 .. n)
  OBVIOUS
<1>2. \E x \in S : \A y \in S : x >= y
  BY <1>1, Greatest
<1>3. \E x \in S : \A y \in S : x <= y
  <2>1. S \in SUBSET Nat
    OBVIOUS
  <2>2. QED
    BY <2>1, Least
<1>4. QED
  BY <1>2, <1>3 DEF H!Max, H!Min

(* A file that is looked at is a link, and yanked only if all of them are.  *)
LEMMA KindIsRight ==
  ASSUME NEW r \in H!Release, NEW kind, H!OfKind(r, kind) # {}
  PROVE  \A l \in {H!LastOf(r, kind), H!FirstOf(r, kind)} :
           l \in H!Link /\ l.kind = kind /\ (l.yanked => \A i \in DOMAIN r.links : r.links[i].yanked)
<1>1. r.links \in Seq(H!Link)
  BY DEF H!Release
<1>2. Len(r.links) \in Nat /\ DOMAIN r.links = 1 .. Len(r.links)
      /\ \A k \in 1 .. Len(r.links) : r.links[k] \in H!Link
  BY <1>1
<1>3. H!OfKind(r, kind) \in SUBSET (1 .. Len(r.links))
  BY <1>2 DEF H!OfKind, H!Used
<1>4. H!Max(H!OfKind(r, kind)) \in H!OfKind(r, kind) /\ H!Min(H!OfKind(r, kind)) \in H!OfKind(r, kind)
  BY <1>2, <1>3, LastAndFirst
<1>5. \A k \in H!OfKind(r, kind) :
        /\ r.links[k] \in H!Link /\ r.links[k].kind = kind
        /\ r.links[k].yanked => \A i \in DOMAIN r.links : r.links[i].yanked
  BY <1>2 DEF H!OfKind, H!Used, H!IsYanked
<1>6. QED
  BY <1>4, <1>5 DEF H!LastOf, H!FirstOf

(* _get_info_from_links(): one file is read, or a wheel for Python 2 and    *)
(* one for Python 3.                                                        *)
LEMMA LinksAreRight ==
  ASSUME NEW r \in H!Release, NEW read, read = H!LinksToRead(r)
  PROVE  /\ read \in Seq(H!Link) /\ Len(read) \in {0, 1, 2} /\ (read # <<>> => Len(read) # 0)
         /\ Len(read) = 2 => read[1].kind = "py2" /\ read[2].kind = "py3"
         /\ \A j \in DOMAIN read : read[j].yanked => \A i \in DOMAIN r.links : r.links[i].yanked
<1>. DEFINE Has(kind) == H!OfKind(r, kind) # {}
            Good(s) == /\ s \in Seq(H!Link) /\ Len(s) \in {0, 1, 2} /\ (s # <<>> => Len(s) # 0)
                       /\ Len(s) = 2 => s[1].kind = "py2" /\ s[2].kind = "py3"
                       /\ \A j \in DOMAIN s : s[j].yanked => \A i \in DOMAIN r.links : r.links[i].yanked
            IsRight(l) == l.yanked => \A i \in DOMAIN r.links : r.links[i].yanked
<1>1. ASSUME NEW l \in H!Link, IsRight(l) PROVE Good(<<l>>)
  BY <1>1
<1>2. ASSUME NEW l \in H!Link, NEW k \in H!Link, IsRight(l), IsRight(k), l.kind = "py2", k.kind = "py3"
      PROVE  Good(<<l, k>>)
  BY <1>2
<1>3. Good(<<>>)
  OBVIOUS
<1>4. ASSUME NEW kind, Has(kind)
      PROVE  \A l \in {H!LastOf(r, kind), H!FirstOf(r, kind)} : l \in H!Link /\ l.kind = kind /\ IsRight(l)
  BY <1>4, KindIsRight
<1>. HIDE DEF Good, IsRight
<1>5. CASE Has("universal")
  <2>1. read = <<H!LastOf(r, "universal")>>
    BY <1>5 DEF H!LinksToRead
  <2>2. QED
    BY <1>1, <1>4, <1>5, <2>1 DEF Good
<1>6. CASE ~ Has("universal") /\ Has("py2") /\ Has("py3")
  <2>1. read = <<H!LastOf(r, "py2"), H!LastOf(r, "py3")>>
    BY <1>6 DEF H!LinksToRead
  <2>2. Good(<<H!LastOf(r, "py2"), H!LastOf(r, "py3")>>)
    BY <1>2, <1>4, <1>6
  <2>3. QED
    BY <2>1, <2>2 DEF Good
<1>7. CASE ~ Has("universal") /\ ~ Has("py2") /\ Has("py3")
  <2>1. read = <<H!LastOf(r, "py3")>>
    BY <1>7 DEF H!LinksToRead
  <2>2. QED
    BY <1>1, <1>4, <1>7, <2>1 DEF Good
<1>8. CASE ~ Has("universal") /\ Has("py2") /\ ~ Has("py3")
  <2>1. read = <<H!LastOf(r, "py2")>>
    BY <1>8 DEF H!LinksToRead
  <2>2. QED
    BY <1>1, <1>4, <1>8, <2>1 DEF Good
<1>9. CASE ~ Has("universal") /\ ~ Has("py2") /\ ~ Has("py3")
  <2>1. read = IF Has("platform") THEN <<H!FirstOf(r, "platform")>>
               ELSE IF Has("sdist") THEN <<H!FirstOf(r, "sdist")>> ELSE <<>>
    BY <1>9 DEF H!LinksToRead
  <2>2. QED
    BY <1>1, <1>3, <1>4, <2>1 DEF Good
<1>10. QED
  BY <1>5, <1>6, <1>7, <1>8, <1>9

(* _merge_requirements(): what is answered is what is expected.             *)
LEMMA InfoIsRight ==
  ASSUME NEW read \in Seq(H!Link), Len(read) \in {1, 2},
         Len(read) = 2 => read[1].kind = "py2" /\ read[2].kind = "py3",
         NEW got, Len(got) = Len(read), \A k \in 1 .. Len(read) : got[k].requires = read[k].requires
  PROVE  /\ H!InfoOf(got) \in [H!Pythons -> SUBSET Requirements]
         /\ \A p \in H!Pythons : H!InfoOf(got)[p] = H!Expected(read, p)
<1>1. \A k \in 1 .. Len(read) : read[k].requires \in SUBSET Requirements
  <2>1. \A k \in 1 .. Len(read) : read[k] \in H!Link
    OBVIOUS
  <2>2. QED
    BY <2>1 DEF H!Link
<1>2. CASE Len(read) = 1
  <2>1. H!InfoOf(got) = [p \in H!Pythons |-> read[1].requires]
    BY <1>2 DEF H!InfoOf
  <2>2. QED
    BY <1>1, <1>2, <2>1 DEF H!Expected
<1>3. CASE Len(read) = 2
  <2>. DEFINE a == read[1].requires
              b == read[2].requires
  <2>1. H!InfoOf(got) = H!Combined(a, b)
    BY <1>3 DEF H!InfoOf
  <2>2. a \in SUBSET Requirements /\ b \in SUBSET Requirements
    BY <1>1, <1>3
  <2>3. ASSUME NEW p \in H!Pythons
        PROVE  H!Expected(read, p) = IF a = {} \/ b = {} THEN a \cup b ELSE IF p = 2 THEN a ELSE b
    <3>. DEFINE kind == IF p = 2 THEN "py2" ELSE "py3"
                chosen == CHOOSE l \in {read[1], read[2]} : l.kind = kind
    <3>1. read[1].kind = "py2" /\ read[2].kind = "py3"
      BY <1>3
    <3>2. chosen = IF p = 2 THEN read[1] ELSE read[2]
      <4>1. CASE p = 2
        <5>1. \A l \in {read[1], read[2]} : l.kind = kind <=> l = read[1]
          BY <3>1, <4>1
        <5>2. QED
          BY <4>1, <5>1
      <4>2. CASE p # 2
        <5>1. \A l \in {read[1], read[2]} : l.kind = kind <=> l = read[2]
          BY <3>1, <4>2
        <5>2. QED
          BY <4>2, <5>1
      <4>3. QED
        BY <4>1, <4>2
    <3>3. H!Expected(read, p) = IF {} \in {a, b} THEN a \cup b ELSE chosen.requires
      BY <1>3 DEF H!Expected
    <3>4. QED
      BY <3>2, <3>3
  <2>. HIDE DEF a, b
  <2>4. ASSUME NEW p \in H!Pythons
        PROVE  H!Combined(a, b)[p] = IF a = {} \/ b = {} THEN a \cup b ELSE IF p = 2 THEN a ELSE b
    <3>1. H!Combined(a, b)[p] = IF b = {} THEN a ELSE IF a = {} THEN b
                                ELSE (a \cap b) \cup (IF p = 2 THEN a \ b ELSE b \ a)
      BY DEF H!Combined
    <3>2. (a \cap b) \cup (a \ b) = a /\ (a \cap b) \cup (b \ a) = b
      OBVIOUS
    <3>3. b = {} => a \cup b = a
      OBVIOUS
    <3>4. a = {} => a \cup b = b
      OBVIOUS
    <3>5. QED
      BY <3>1, <3>2, <3>3, <3>4
  <2>5. H!Combined(a, b) \in [H!Pythons -> SUBSET Requirements]
    BY <2>2 DEF H!Combined
  <2>6. QED
    BY <2>1, <2>3, <2>4, <2>5
<1>4. QED
  BY <1>2, <1>3

(* The links of a release that are going to be read follow those that were. *)
Infos == [kind : {"universal", "py2", "py3", "platform", "sdist"}, requires : SUBSET Requirements]
Progress ==
  LET read == H!LinksToRead(H!release)
  IN /\ read # <<>>
     /\ queue \in Seq(H!Link) /\ infos \in Seq(Infos)
     /\ Len(infos) + Len(queue) = Len(read)
     /\ \A k \in 1 .. Len(infos) : infos[k].requires = read[k].requires
     /\ \A k \in 1 .. Len(queue) : queue[k] = read[Len(infos) + k]

(* What is asked, how far it has got, and what was answered.                *)
AnAnswer == [failed : BOOLEAN, requires : [H!Pythons -> SUBSET Requirements]]

Served ==
  /\ asked \in Releases /\ number \in 1 .. Len(asked.releases)
  /\ step \in {"ask", "link", "file", "lazy", "download", "over"}
  /\ answers \in Seq(AnAnswer) /\ Len(answers) = IF step = "over" THEN number ELSE number - 1
  /\ supports \in {"unknown", "yes", "no"} /\ mayAbort \in BOOLEAN /\ noTails \in BOOLEAN
  /\ at = "none" <=> step # "lazy"
  /\ step = "lazy" => Lazily
  /\ step \in {"file", "lazy", "download"} => queue # <<>>
  /\ step \in {"link", "file", "lazy", "download"} => Progress
  /\ H!AnswersAreRight

(* The release that is asked for.                                           *)
LEMMA ReleaseIsRight ==
  ASSUME H!HTTPRepositoryAssumption, Served
  PROVE  /\ asked.releases \in Seq(H!Release) /\ Len(asked.releases) \in Nat
         /\ H!release = asked.releases[number] /\ H!release \in H!Release
<1>1. asked \in Releases /\ number \in 1 .. Len(asked.releases)
  BY DEF Served
<1>2. asked.releases \in Seq(H!Release)
  BY <1>1 DEF H!HTTPRepositoryAssumption
<1>3. QED
  BY <1>1, <1>2 DEF H!release

(* An answer that is right keeps all of them right.                         *)
LEMMA AnswerIsRight ==
  ASSUME H!HTTPRepositoryAssumption, Served, step \in {"ask", "link", "download"},
         NEW a \in AnAnswer, H!Answer(a), UNCHANGED <<at, noTails>>,
         ~ a.failed /\ H!release.json # "complete" =>
           \A p \in H!Pythons : a.requires[p] = H!Expected(H!LinksToRead(H!release), p)
  PROVE  Served'
<1>1. /\ asked.releases \in Seq(H!Release) /\ Len(asked.releases) \in Nat
      /\ H!release = asked.releases[number] /\ H!release \in H!Release
  BY ReleaseIsRight
<1>2. /\ number \in 1 .. Len(asked.releases) /\ answers \in Seq(AnAnswer) /\ Len(answers) = number - 1
  BY DEF Served
<1>3. /\ answers' = Append(answers, a) /\ UNCHANGED <<asked, supports, mayAbort>>
      /\ \/ number < Len(asked.releases) /\ step' = "ask" /\ number' = number + 1
         \/ step' = "over" /\ number' = number
  BY DEF H!Answer
<1>4. /\ answers' \in Seq(AnAnswer) /\ Len(answers') = number
      /\ answers'[number] = a /\ \A k \in 1 .. number - 1 : answers'[k] = answers[k]
  BY <1>1, <1>2, <1>3
<1>5. number' \in 1 .. Len(asked.releases) /\ Len(answers') = IF step' = "over" THEN number' ELSE number' - 1
  BY <1>1, <1>2, <1>3, <1>4
<1>6. H!AnswersAreRight'
  <2>1. SUFFICES ASSUME NEW k \in 1 .. number
                 PROVE  LET r == asked.releases[k]
                            read == H!LinksToRead(r)
                        IN ~ answers'[k].failed /\ r.json # "complete" =>
                             /\ \A p \in H!Pythons : answers'[k].requires[p] = H!Expected(read, p)
                             /\ \A j \in DOMAIN read : read[j].yanked => \A i \in DOMAIN r.links : r.links[i].yanked
    <3>1. DOMAIN answers' = 1 .. number
      BY <1>4
    <3>2. QED
      BY <1>3, <3>1 DEF H!AnswersAreRight
  <2>2. CASE k = number
    BY <1>1, <1>4, <2>2, LinksAreRight
  <2>3. CASE k # number
    <3>1. k \in 1 .. number - 1 /\ k \in DOMAIN answers
      BY <1>1, <1>2, <2>3
    <3>2. H!AnswersAreRight
      BY DEF Served
    <3>3. QED
      BY <1>4, <3>1, <3>2 DEF H!AnswersAreRight
  <2>4. QED
    BY <2>2, <2>3
<1>7. QED
  BY <1>3, <1>4, <1>5, <1>6 DEF Served

(* A link was read: the next one is going to be.                            *)
LEMMA ReadIsRight ==
  ASSUME H!HTTPRepositoryAssumption, Served, Progress, queue # <<>>,
         H!Read1(H!link.requires), UNCHANGED asked, UNCHANGED number
  PROVE  step' = "link" /\ Progress'
<1>. DEFINE read == H!LinksToRead(H!release)
            i == [kind |-> H!link.kind, requires |-> H!link.requires]
<1>1. /\ read # <<>> /\ queue \in Seq(H!Link) /\ infos \in Seq(Infos)
      /\ Len(infos) + Len(queue) = Len(read)
      /\ \A k \in 1 .. Len(infos) : infos[k].requires = read[k].requires
      /\ \A k \in 1 .. Len(queue) : queue[k] = read[Len(infos) + k]
  BY DEF Progress
<1>2. read' = read
  BY DEF H!release
<1>3. infos' = Append(infos, i) /\ queue' = Tail(queue) /\ step' = "link"
  BY DEF H!Read1
<1>. HIDE DEF read
<1>4. H!link = queue[1] /\ H!link \in H!Link /\ Len(queue) \in Nat /\ Len(queue) >= 1
  BY <1>1 DEF H!link
<1>5. i \in Infos /\ i.requires = queue[1].requires
  BY <1>4 DEF H!Link, Infos
<1>. HIDE DEF i
<1>6. /\ infos' \in Seq(Infos) /\ Len(infos') = Len(infos) + 1 /\ Len(infos) \in Nat
      /\ infos'[Len(infos) + 1] = i /\ \A k \in 1 .. Len(infos) : infos'[k] = infos[k]
  BY <1>1, <1>3, <1>5
<1>7. /\ queue' \in Seq(H!Link) /\ Len(queue') = Len(queue) - 1
      /\ \A k \in 1 .. Len(queue) - 1 : queue'[k] = queue[k + 1]
  BY <1>1, <1>3, <1>4
<1>8. 1 \in 1 .. Len(queue) /\ queue[1] = read[Len(infos) + 1]
  BY <1>1, <1>4
<1>9. ASSUME NEW k \in 1 .. Len(infos') PROVE infos'[k].requires = read[k].requires
  <2>1. k = Len(infos) + 1 \/ k \in 1 .. Len(infos)
    BY <1>6
  <2>2. QED
    BY <1>1, <1>5, <1>6, <1>8, <2>1
<1>10. ASSUME NEW k \in 1 .. Len(queue') PROVE queue'[k] = read[Len(infos') + k]
  <2>1. k \in 1 .. Len(queue) - 1 /\ k + 1 \in 1 .. Len(queue) /\ Len(infos) + (k + 1) = Len(infos') + k
    BY <1>4, <1>6, <1>7
  <2>2. QED
    BY <1>1, <1>7, <2>1
<1>11. Len(infos') + Len(queue') = Len(read)
  <2>1. Len(infos) \in Nat /\ Len(queue) \in Nat
    BY <1>4, <1>6
  <2>2. Len(infos) + 1 + (Len(queue) - 1) = Len(infos) + Len(queue)
    BY <2>1
  <2>3. QED
    BY <1>1, <1>6, <1>7, <2>2
<1>12. QED
  BY <1>1, <1>2, <1>3, <1>6, <1>7, <1>9, <1>10, <1>11 DEF Progress, read

(* So does a failure.                                                       *)
LEMMA FailIsRight ==
  ASSUME H!HTTPRepositoryAssumption, Served, step \in {"ask", "link", "download"},
         H!Fail, UNCHANGED <<at, noTails>>
  PROVE  Served'
<1>. DEFINE a == [failed |-> TRUE, requires |-> [p \in H!Pythons |-> {}]]
<1>1. a \in AnAnswer /\ a.failed
  BY DEF AnAnswer
<1>2. H!Answer(a)
  BY DEF H!Fail
<1>. HIDE DEF a
<1>3. QED
  BY <1>1, <1>2, AnswerIsRight

(* Every step of HTTPRepository.                                            *)
LEMMA ServedIsKept ==
  ASSUME H!HTTPRepositoryAssumption, Served, [H!Next]_hvars
  PROVE  Served'
<1>. DEFINE read == H!LinksToRead(H!release)
<1>0. H!release \in H!Release
  BY ReleaseIsRight
<1>1. ASSUME UNCHANGED <<asked, number, step, answers>>, UNCHANGED <<queue, infos>>,
             step = "lazy", at' # "none", Lazily', supports' \in {"unknown", "yes", "no"}, mayAbort' \in BOOLEAN
      PROVE  Served'
  BY <1>1 DEF Served, Lazily, Progress, H!release, H!AnswersAreRight
<1>2. ASSUME UNCHANGED <<asked, number, answers>>,
             step' \in {"link", "file", "download"}, at' = "none", noTails' \in BOOLEAN, step # "over",
             supports' \in {"unknown", "yes", "no"}, mayAbort' \in BOOLEAN,
             Progress', step' = "link" \/ queue' # <<>>
      PROVE  Served'
  BY <1>2 DEF Served, H!AnswersAreRight
<1>3. UNCHANGED <<asked, number, queue, infos>> /\ Progress => Progress'
  BY DEF Progress, H!release
<1>4. /\ supports \in {"unknown", "yes", "no"} /\ mayAbort \in BOOLEAN /\ noTails \in BOOLEAN
      /\ step # "lazy" => at = "none"
      /\ step \in {"link", "file", "lazy", "download"} => Progress
      /\ step \in {"file", "lazy", "download"} => queue # <<>>
      /\ step = "lazy" => Lazily
  BY DEF Served
<1>5. ASSUME H!lazyVars' = H!lazyVars PROVE UNCHANGED <<at, noTails>>
  BY <1>5 DEF H!lazyVars
<1>6. CASE H!TakeJson
  <2>. DEFINE a == H!Answered([p \in H!Pythons |-> H!release.declared])
  <2>1. step = "ask" /\ H!release.json = "complete" /\ H!Answer(a) /\ UNCHANGED <<at, noTails>>
    BY <1>5, <1>6 DEF H!TakeJson
  <2>2. a \in AnAnswer
    BY <1>0 DEF AnAnswer, H!Answered, H!Release
  <2>. HIDE DEF a
  <2>3. QED
    BY <2>1, <2>2, AnswerIsRight
<1>7. CASE H!GetInfoFromLinks
  <2>1. /\ step = "ask" /\ read # <<>> /\ step' = "link" /\ queue' = read /\ infos' = <<>>
        /\ UNCHANGED <<asked, number, supports, mayAbort, answers>> /\ UNCHANGED <<at, noTails>>
    BY <1>5, <1>7 DEF H!GetInfoFromLinks
  <2>2. read \in Seq(H!Link) /\ read' = read
    BY <1>0, <2>1, LinksAreRight DEF H!release
  <2>3. Progress'
    <3>. HIDE DEF read
    <3>1. /\ <<>> \in Seq(Infos) /\ Len(<<>>) = 0
          /\ Len(read) \in Nat /\ \A k \in 1 .. Len(read) : 0 + k = k
      BY <2>2
    <3>2. 0 + Len(read) = Len(read) /\ 1 .. 0 = {}
      BY <3>1
    <3>3. QED
      BY <2>1, <2>2, <3>1, <3>2 DEF Progress, read
  <2>4. QED
    BY <1>2, <1>4, <2>1, <2>3
<1>8. CASE H!NotFound \/ H!HashFails
  <2>1. step = "ask" /\ H!Fail /\ UNCHANGED <<at, noTails>>
    BY <1>5, <1>8 DEF H!NotFound, H!HashFails
  <2>2. QED
    BY <2>1, FailIsRight
<1>9. CASE H!GetInfoFromMetadata
  <2>1. /\ step = "link" /\ queue # <<>> /\ UNCHANGED <<asked, number, supports, mayAbort, answers>>
        /\ UNCHANGED <<at, noTails>>
    BY <1>5, <1>9 DEF H!GetInfoFromMetadata
  <2>2. CASE H!IsUsable(H!link)
    <3>1. H!Read1(H!link.requires)
      BY <1>9, <2>2 DEF H!GetInfoFromMetadata, H!IsUsable
    <3>2. step' = "link" /\ Progress'
      BY <1>4, <2>1, <3>1, ReadIsRight
    <3>3. QED
      BY <1>2, <1>4, <2>1, <3>2
  <2>3. CASE ~ H!IsUsable(H!link)
    <3>1. step' = "file" /\ UNCHANGED <<infos, queue>>
      BY <1>9, <2>3 DEF H!GetInfoFromMetadata
    <3>2. QED
      BY <1>2, <1>3, <1>4, <2>1, <3>1
  <2>4. QED
    BY <2>2, <2>3
<1>10. CASE H!NoMetadata
  <2>1. /\ step = "link" /\ queue # <<>> /\ step' = "file"
        /\ UNCHANGED <<asked, number, queue, infos, supports, mayAbort, answers>> /\ UNCHANGED <<at, noTails>>
    BY <1>5, <1>10 DEF H!NoMetadata
  <2>2. QED
    BY <1>2, <1>3, <1>4, <2>1
<1>11. CASE H!MetadataFails
  <2>1. step = "link" /\ H!Fail /\ UNCHANGED <<at, noTails>>
    BY <1>5, <1>11 DEF H!MetadataFails
  <2>2. QED
    BY <2>1, FailIsRight
<1>12. CASE H!TryLazily
  <2>1. /\ step = "file" /\ step' = "lazy" /\ mayAbort' = TRUE
        /\ H!Begin(H!link.file, H!ReadMetadata(H!link.file))
        /\ UNCHANGED <<asked, number, queue, infos, supports, answers>>
    BY <1>12 DEF H!TryLazily
  <2>2. H!link.file \in H!Wheel
    <3>1. queue \in Seq(H!Link) /\ queue # <<>>
      BY <1>4, <2>1 DEF Progress
    <3>2. H!link \in H!Link
      BY <3>1 DEF H!link
    <3>3. QED
      BY <3>2 DEF H!Link
  <2>3. Lazily'
    BY <1>4, <2>1, <2>2, BeginsLazily
  <2>4. Progress'
    BY <1>3, <1>4, <2>1
  <2>5. QED
    BY <1>4, <2>1, <2>3, <2>4 DEF Served, Lazily, H!AnswersAreRight
<1>13. CASE H!DoNotTry
  <2>1. /\ step = "file" /\ step' = "download" /\ mayAbort' \in BOOLEAN
        /\ UNCHANGED <<asked, number, queue, infos, supports, answers>> /\ UNCHANGED <<at, noTails>>
    <3>1. asked.lazy \in BOOLEAN
      BY DEF Served, H!HTTPRepositoryAssumption
    <3>2. (asked.lazy /\ H!link.kind # "sdist") \in BOOLEAN
      OBVIOUS
    <3>3. QED
      BY <1>5, <1>13, <3>2 DEF H!DoNotTry
  <2>2. QED
    BY <1>2, <1>3, <1>4, <2>1
<1>14. CASE H!ReadLazily
  <2>1. /\ step = "lazy" /\ H!LazyStep
        /\ UNCHANGED <<asked, number, step, queue, infos, supports, mayAbort, answers>>
    BY <1>14 DEF H!ReadLazily
  <2>2. Lazily'
    BY <1>4, <2>1, LazyStepIsRight
  <2>3. at' # "none"
    BY <2>2 DEF Lazily
  <2>4. QED
    BY <1>1, <1>4, <2>1, <2>2, <2>3
<1>15. CASE H!Succeeded
  <2>1. /\ step = "lazy" /\ H!Read1(H!link.requires) /\ supports' = "yes" /\ at' = "none"
        /\ UNCHANGED <<asked, number, mayAbort, answers, noTails>>
    BY <1>15 DEF H!Succeeded
  <2>2. step' = "link" /\ Progress'
    BY <1>4, <2>1, ReadIsRight
  <2>3. QED
    BY <1>2, <1>4, <2>1, <2>2
<1>16. CASE H!Unsupported
  <2>1. /\ step = "lazy" /\ supports' = H!AfterFailure /\ step' = "download" /\ mayAbort' = FALSE
        /\ at' = "none" /\ UNCHANGED <<asked, number, queue, infos, answers, noTails>>
    BY <1>16 DEF H!Unsupported
  <2>2. supports' \in {"unknown", "yes", "no"}
    BY <1>4, <2>1 DEF H!AfterFailure
  <2>3. QED
    BY <1>2, <1>3, <1>4, <2>1, <2>2
<1>17. CASE H!Abort
  <2>1. /\ step = "download" /\ supports' = "yes" /\ step' = "file"
        /\ UNCHANGED <<asked, number, queue, infos, mayAbort, answers>> /\ UNCHANGED <<at, noTails>>
    BY <1>5, <1>17 DEF H!Abort
  <2>2. QED
    BY <1>2, <1>3, <1>4, <2>1
<1>18. CASE H!Download
  <2>1. step = "download" /\ UNCHANGED <<at, noTails>>
    BY <1>5, <1>18 DEF H!Download
  <2>2. CASE H!Fail
    BY <2>1, <2>2, FailIsRight
  <2>3. CASE H!Read1(H!link.requires) /\ UNCHANGED <<asked, number, supports, mayAbort, answers>>
    <3>1. step' = "link" /\ Progress'
      BY <1>4, <2>1, <2>3, ReadIsRight
    <3>2. QED
      BY <1>2, <1>4, <2>1, <2>3, <3>1
  <2>4. QED
    BY <1>18, <2>2, <2>3 DEF H!Download
<1>19. CASE H!Done
  <2>. DEFINE a == H!Answered(H!InfoOf(infos))
  <2>1. step = "link" /\ queue = <<>> /\ H!Answer(a) /\ UNCHANGED <<at, noTails>>
    BY <1>5, <1>19 DEF H!Done
  <2>2. /\ read # <<>> /\ infos \in Seq(Infos)
        /\ Len(infos) = Len(read) /\ \A k \in 1 .. Len(infos) : infos[k].requires = read[k].requires
    <3>1. Len(queue) = 0
      BY <2>1
    <3>2. /\ read # <<>> /\ infos \in Seq(Infos)
          /\ Len(infos) + Len(queue) = Len(read) /\ \A k \in 1 .. Len(infos) : infos[k].requires = read[k].requires
      BY <1>4, <2>1 DEF Progress
    <3>3. QED
      BY <3>1, <3>2
  <2>3. /\ read \in Seq(H!Link) /\ Len(read) \in {1, 2}
        /\ Len(read) = 2 => read[1].kind = "py2" /\ read[2].kind = "py3"
    BY <1>0, <2>2, LinksAreRight
  <2>4. /\ H!InfoOf(infos) \in [H!Pythons -> SUBSET Requirements]
        /\ \A p \in H!Pythons : H!InfoOf(infos)[p] = H!Expected(read, p)
    <3>. HIDE DEF read
    <3>1. QED
      BY <2>2, <2>3, InfoIsRight
  <2>5. a \in AnAnswer /\ \A p \in H!Pythons : a.requires[p] = H!Expected(read, p)
    BY <2>4 DEF AnAnswer, H!Answered
  <2>. HIDE DEF a
  <2>6. QED
    BY <2>1, <2>5, AnswerIsRight
<1>20. CASE UNCHANGED hvars
  BY <1>20 DEF hvars, Served, Lazily, Sparse, Got, Progress, H!release, H!AnswersAreRight
<1>21. QED
  BY <1>6, <1>7, <1>8, <1>9, <1>10, <1>11, <1>12, <1>13, <1>14, <1>15, <1>16, <1>17, <1>18, <1>19, <1>20
     DEF H!Next

(* Where the subject are releases.                                          *)
Released == subject = "releases" => Served

(* Whatever the servers do, an answer is that of the files: a wheel that is *)
(* read lazily is read as it is, and no byte of it is sent twice.           *)
THEOREM MetadataAreRight == MCSpec => []MetadataIsRight
<1>1. H!HTTPRepositoryAssumption
  BY OneOfHTTPRepository
<1>2. MCInit => Released
  <2>1. SUFFICES ASSUME MCInit, subject = "releases" PROVE Served
    BY DEF Released
  <2>2. H!Init /\ asked \in Releases
    <3>1. MCInit
      BY <2>1
    <3>2. H!Init
      BY <3>1 DEF MCInit
    <3>3. QED
      BY <3>2 DEF H!Init
  <2>3. asked.releases \in Seq(H!Release) /\ asked.releases # <<>>
    BY <1>1, <2>2 DEF H!HTTPRepositoryAssumption
  <2>4. 1 \in 1 .. Len(asked.releases)
    BY <2>3
  <2>5. answers \in Seq(AnAnswer) /\ Len(answers) = 0 /\ H!AnswersAreRight
    BY <2>2 DEF H!Init, H!AnswersAreRight
  <2>6. /\ number = 1 /\ step = "ask" /\ at = "none" /\ supports = "unknown"
        /\ mayAbort \in BOOLEAN /\ noTails \in BOOLEAN
    BY <2>2 DEF H!Init
  <2>7. /\ number \in 1 .. Len(asked.releases)
        /\ Len(answers) = IF step = "over" THEN number ELSE number - 1
    BY <2>4, <2>5, <2>6
  <2>8. QED
    BY <2>2, <2>5, <2>6, <2>7 DEF Served
<1>3. Released /\ [MCNext]_allvars => Released'
  <2>1. SUFFICES ASSUME Released, [MCNext]_allvars, subject' = "releases" PROVE Served'
    BY DEF Released
  <2>2. subject' = subject /\ [H!Next]_hvars
    BY <2>1 DEF MCNext, allvars, hvars
  <2>3. Served
    BY <2>1, <2>2 DEF Released
  <2>4. QED
    BY <1>1, <2>2, <2>3, ServedIsKept
<1>4. Released => MetadataIsRight
  <2>1. SUFFICES ASSUME Released, subject = "releases" PROVE H!MetadataIsRight
    BY DEF MetadataIsRight
  <2>2. Served
    BY <2>1 DEF Released
  <2>3. H!TypeOK
    <3>1. asked.releases \in Seq(H!Release)
      BY <1>1, <2>2, ReleaseIsRight
    <3>2. number \in DOMAIN asked.releases /\ Len(answers) \in {number - 1, number}
      BY <2>2, <3>1 DEF Served
    <3>3. at \in {"none", "tail", "head", "end", "read", "metadata", "unsupported"}
      BY <2>2 DEF Served, Lazily
    <3>4. \A k \in DOMAIN answers : answers[k].requires \in [H!Pythons -> SUBSET Requirements]
      <4>1. answers \in Seq(AnAnswer)
        BY <2>2 DEF Served
      <4>2. \A k \in DOMAIN answers : answers[k] \in AnAnswer
        BY <4>1
      <4>3. QED
        BY <4>2 DEF AnAnswer
    <3>5. QED
      BY <2>2, <3>2, <3>3, <3>4, SameSequences DEF Served, H!TypeOK
  <2>4. H!BytesAreRight /\ H!NothingIsSentTwice
    <3>1. CASE step = "lazy"
      BY <2>2, <3>1, LazilyIsRight DEF Served
    <3>2. CASE step # "lazy"
      BY <2>2, <3>2 DEF Served, H!BytesAreRight, H!NothingIsSentTwice, H!IsLazy
    <3>3. QED
      BY <3>1, <3>2
  <2>5. QED
    BY <2>2, <2>3, <2>4 DEF Served, H!MetadataIsRight
<1>5. QED
  BY <1>2, <1>3, <1>4, PTL DEF MCSpec
=============================================================================
