--------------------------- MODULE MCVersionSolver ---------------------------
(* Registries with up to three packages besides the root project.          *)
EXTENDS VersionSolver

FourPackages == {"root", "a", "b", "c"}

(* A list of requirements, one for every name with a constraint that is    *)
(* not empty, in the order of names.                                       *)
Requirements(choice, names) ==
  SelectSeq([k \in 1 .. Len(names) |->
               [name |-> names[k], constraint |-> choice[names[k]]]],
            LAMBDA dep : dep.constraint # {})

Always(seq) == [v \in Versions |-> seq]
Nowhere == [p \in Packages |-> {}]
NotLocked == [p \in Packages |-> Absent]
FromTwo(choices) == {f \in [Versions -> choices] : f[3] = f[2]}
Unrequiring == [v \in Versions |-> {}]

(* The root project has one version, a and b have these, and c those. *)
Available(ab, c) ==
  [p \in Packages |-> CASE p = Root -> {RootVersion} [] p = "c" -> c [] OTHER -> ab]

(* The root project requires a and b, a and b may require each other and c. *)
RequiresOf(root, fab, fac, fba, fbc) ==
  [root |-> Always(Requirements(root, <<"a", "b">>)),
   a    |-> [v \in Versions |->
               Requirements([b |-> fab[v], c |-> fac[v]], <<"b", "c">>)],
   b    |-> [v \in Versions |->
               Requirements([a |-> fba[v], c |-> fbc[v]], <<"a", "c">>)],
   c    |-> Always(<< >>)]

Both == [a |-> {1, 2}, b |-> {1, 2}]
OneOrNone == {{}, {1}, {2}}

(* a and b require each other, whatever the versions. *)
Mutual ==
  {[available |-> Available({1, 2}, {}), unusable |-> Nowhere, locked |-> NotLocked,
    requires |-> RequiresOf(root, fab, Unrequiring, fba, Unrequiring)] :
     root \in [{"a", "b"} -> {{}, {1}, {1, 2}}],
     fab \in FromTwo(OneOrNone), fba \in FromTwo(OneOrNone)}

(* Versions that the sources do not have, or that the supported python     *)
(* versions rule out, and versions the lock file prefers.                  *)
Missing ==
  {[available |-> [Available({1, 2}, {}) EXCEPT !["b"] = ab],
    unusable  |-> [Nowhere EXCEPT !["a"] = ua, !["b"] = ub],
    locked    |-> [NotLocked EXCEPT !["a"] = la,
                                    !["b"] = IF lb \in ab THEN lb ELSE Absent],
    requires  |-> RequiresOf([a |-> {1, 2}, b |-> rb], fab, Unrequiring,
                           Unrequiring, Unrequiring)] :
     ab \in {{}, {1}, {1, 2}}, ua \in {{}, {2}}, ub \in {{}, {1}},
     rb \in OneOrNone, fab \in FromTwo({{1}, {2}}),
     la \in {Absent, 1}, lb \in {Absent, 1}}

(* A chain with a shortcut: a requires b and c, b requires c. *)
Shortcut ==
  {[available |-> Available({1, 2}, {1, 2}), unusable |-> Nowhere,
    locked |-> NotLocked,
    requires |-> RequiresOf(Both, fab, fac, Unrequiring, fbc)] :
     fab \in FromTwo(OneOrNone), fac \in FromTwo({{1}, {2}}),
     fbc \in FromTwo({{1}, {2}})}

(* Two packages that require overlapping versions of a third one, so that  *)
(* two assignments can make a term true that neither makes true alone.     *)
Diamond ==
  {[available |-> Available({1, 2}, {1, 2, 3}),
    unusable  |-> [Nowhere EXCEPT !["c"] = uc], locked |-> NotLocked,
    requires  |-> RequiresOf(Both, Unrequiring, fac, Unrequiring, fbc)] :
     fac \in FromTwo({{1, 2}, {2, 3}, {3}}), fbc \in FromTwo({{1, 2}, {2, 3}}),
     uc \in {{}, {2}}}

SmallRegistries == Mutual \cup Missing \cup Shortcut \cup Diamond
=============================================================================
