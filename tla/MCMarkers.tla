------------------------------ MODULE MCMarkers ------------------------------
(***************************************************************************)
(* Two components that calculate with markers: each behaviour is about one  *)
(* of them, its subject, while the other stays where it starts.             *)
(* First the groups and markers of what was solved, on small graphs.  A     *)
(* package's dependencies are listed in either order.                       *)
(***************************************************************************)
EXTENDS SolvedMarkers, TLC

CONSTANTS
  Subjects,
  a, b, c, root, main, dev,
  Names, Versions, Sources, Places, NoEnv, Problems  \* of Overrides

VARIABLES subject, problem, phase, override, decided, frames, solution

(* One choice per pair: no dependency, or one with these groups and marker. *)
None == [groups |-> {}, marker |-> {}, isThere |-> FALSE]
Edges(gs) ==
  {None} \cup [groups : gs, marker : SUBSET Environments, isThere : {TRUE}]

(* The dependencies of a package, by the choice for each of the packages.   *)
Listed(packages, choice) ==
  LET there == SelectSeq(packages, LAMBDA p : choice[p].isThere)
  IN [k \in DOMAIN there |->
        [to |-> there[k], groups |-> choice[there[k]].groups, marker |-> choice[there[k]].marker]]

GraphOf(packages, own, top) ==
  [p \in Packages \cup {Root} |->
     Listed(packages, [q \in Packages |->
       IF <<p, q>> \in DOMAIN own THEN own[<<p, q>>] ELSE IF p = Root THEN top[q] ELSE None])]

GraphsOf(sorted, orders, pairs, rootGroups) ==
  {GraphOf(packages, own, top) :
     packages \in orders,
     own \in [pairs -> Edges({{}})],
     top \in {f \in [Packages -> Edges(rootGroups)] :
               \A q \in Packages \ ToSet(sorted) : f[q] = None}}

(* Two packages that may require each other, and three without a cycle.    *)
MCGraphs ==
  GraphsOf(<<a, b>>, {<<a, b>>, <<b, a>>}, {<<a, b>>, <<b, a>>}, (SUBSET Groups) \ {{}})
    \cup GraphsOf(<<a, b, c>>, {<<c, b, a>>}, {<<a, b>>, <<a, c>>, <<b, c>>}, {{main}, {dev}})
-----------------------------------------------------------------------------
(* Then the overrides: app, foo and bar in two versions each, for two        *)
(* versions of Python, two platforms and one extra of the root project.     *)

O == INSTANCE Overrides
       WITH pc <- phase, packages <- solution, Root <- "root", Environments <- Places
ovars == <<problem, phase, override, decided, frames, solution>>

Dep(n, vs, m) ==
  [name |-> n, extras |-> {}, constraint |-> vs, source |-> "any", marker |-> m, inExtras |-> {}]
From(s, d) == [d EXCEPT !.source = s]
WithX(d) == [d EXCEPT !.extras = {"x"}]
ForX(d) == [d EXCEPT !.inExtras = {"x"}]
MCPlaces == [python : {1, 2}, platform : {"linux", "windows"}, extras : SUBSET {"x"}]
Always == Places
Linux == {e \in Always : e.platform = "linux"}
Windows == Always \ Linux
OldPython == {e \in Always : e.python = 1}
NewPython == Always \ OldPython
WithExtra == {e \in Always : "x" \in e.extras}
Either == {1, 2}

(* x stands for all of it: it includes y.                                  *)
Including == [n \in Names |-> [x \in {"x"} |-> {"y"}]]
Problem(top, of, env) ==
  [root |-> top, includes |-> Including, env |-> env,
   requires |-> [nv \in Names \X Versions |-> IF nv \in DOMAIN of THEN of[nv] ELSE {}]]
NoDependencies == [nv \in {} |-> {}]
Both(n, ds) == [nv \in {n} \X Versions |-> ds]

Duplicates(n, ms, others) ==
  {{Dep(n, {1}, m), Dep(n, vs, k)} : m \in ms, k \in others, vs \in {Either, {2}}}
Bars == {Dep("bar", {1}, OldPython), Dep("bar", {2}, NewPython)}

(* Duplicates in the project, in a package of it, and in one version of a  *)
(* package that is itself there for some of the environments.              *)
AtRoot ==
  {Problem(ds \cup bars, NoDependencies, NoEnv) :
     ds \in Duplicates("foo", {Always, Linux, NewPython}, {Windows, OldPython, NewPython \cap Linux}), bars \in {{}, Bars}}
Below ==
  {Problem({Dep("app", Either, m)} \cup bars, Both("app", ds), NoEnv) :
     ds \in Duplicates("foo", {Linux}, {Windows, NewPython}), m \in {Always, Linux}, bars \in {{}, Bars}}
Nested ==
  {Problem({Dep("foo", {1}, OldPython), Dep("foo", {2}, NewPython)},
           (<<"foo", 1>> :> {Dep("bar", {1}, k)}) @@ (<<"foo", 2>> :> {Dep("bar", {1}, Linux), Dep("bar", {2}, m)}),
           NoEnv) : m \in {Windows, NewPython \cap Windows, Always}, k \in {Always, Linux}}

(* Extras of packages and of the project, sources, and an environment.     *)
Features ==
  {Problem({WithX(Dep("foo", Either, m))} \cup more, Both("foo", {[ForX(Dep("bar", {1}, Always)) EXCEPT !.inExtras = {"y"}]}), NoEnv) :
     m \in {Always, Windows}, more \in {{}, {Dep("foo", {1}, Linux)}, Bars}}
ProjectExtras ==
  {Problem({ForX(Dep("foo", {1}, Always)), Dep("foo", {2}, m)}, NoDependencies, env) :
     m \in {Always \ WithExtra, Linux \ WithExtra},
     env \in {NoEnv} \cup {e \in Always : e.platform = "linux" /\ e.python = 1}}
OfSources ==
  {Problem({From("s", Dep("foo", Either, Linux)), From(s, Dep("foo", {2}, m))}, NoDependencies, NoEnv) :
     m \in {Windows, NewPython}, s \in {"s", "t"}}

MCProblems == AtRoot \cup Below \cup Nested \cup Features \cup ProjectExtras \cup OfSources

(* foo is there for Linux, and for all that app requires it; bar is for    *)
(* Windows.                                                                *)
Shared ==
  {Problem({Dep("foo", {1}, Linux), Dep("app", {1}, Always)},
           (<<"app", 1>> :> {Dep("foo", Either, Always)}) @@ (<<"foo", 1>> :> {Dep("bar", {1}, Windows)}), NoEnv)}
Shared2 ==
  {Problem({WithX(Dep("foo", {1}, Linux)), Dep("app", {1}, Always)},
           (<<"app", 1>> :> {WithX(Dep("foo", Either, Always))}), NoEnv)}
-----------------------------------------------------------------------------
AGraph == CHOOSE g \in Graphs : TRUE
AProblem == CHOOSE p \in Problems : TRUE

MCInit ==
  /\ subject \in Subjects
  /\ \/ subject = "markers" /\ Init /\ problem = AProblem /\ O!Init
     \/ subject = "overrides" /\ O!Init /\ requires = AGraph /\ Init

Calculate == subject = "markers" /\ Next /\ UNCHANGED <<subject, ovars>>

MCNext ==
  \/ Calculate
  \/ subject = "overrides" /\ O!Next /\ UNCHANGED <<subject, vars>>

MCSpec == MCInit /\ [][MCNext]_<<subject, vars, ovars>> /\ WF_<<subject, vars, ovars>>(Calculate)

(* The overrides are a partition of the environments: see Overrides.        *)
OverridesArePartition == subject = "overrides" => O!OverridesArePartition

(* Every environment gets what it needs, and nothing else: see Overrides.   *)
EveryEnvironmentIsServed == subject = "overrides" => O!EveryEnvironmentIsServed

(* The iteration over groups and markers ends: see SolvedMarkers.           *)
IterationEnds == subject = "markers" => Terminates
==============================================================================
