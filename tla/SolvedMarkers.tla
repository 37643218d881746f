---------------------------- MODULE SolvedMarkers ----------------------------
(***************************************************************************)
(* What poetry.puzzle.solver makes of a solution for the lock file: the    *)
(* groups and the marker, per group, of every package.  A marker is the    *)
(* set of environments in which it holds.                                  *)
(***************************************************************************)
EXTENDS Integers, Sequences, FiniteSets, SequencesExt, FiniteSetsExt

CONSTANTS
  Packages,      \* of the solution
  Root,
  Groups,
  Environments,
  Graphs         \* what may be solved: requires, for every package and the root

Dependency == [to : Packages, groups : SUBSET Groups, marker : SUBSET Environments]
(* Only the root's dependencies have groups, and they have some.           *)
Graph ==
  {r \in [Packages \cup {Root} -> Seq(Dependency)] :
     \A p \in DOMAIN r : \A k \in DOMAIN r[p] : r[p][k].groups = {} <=> p # Root}

ASSUME SolvedMarkersAssumption == Root \notin Packages /\ Graphs \subseteq Graph

VARIABLES
  requires,    \* the graph
  order,       \* the packages by depth, <<>> before the search
  groups,      \* [Packages -> SUBSET Groups]
  pc,          \* "search", "pass", "done"
  visited,     \* how many packages of order this pass has visited
  known,       \* the packages whose marker is there
  markers,     \* [Packages -> [Groups -> SUBSET Environments]]
  incomplete   \* has_incomplete_markers

vars == <<requires, order, groups, pc, visited, known, markers, incomplete>>

NoMarkers == [p \in Packages |-> [g \in Groups |-> {}]]

Init ==
  /\ requires \in Graphs
  /\ order = <<>>
  /\ groups = [p \in Packages |-> {}]
  /\ pc = "search"
  /\ visited = 0
  /\ known = {}
  /\ markers = NoMarkers
  /\ incomplete = FALSE
-----------------------------------------------------------------------------
(* The depth first search.  A node is a package and the groups of the      *)
(* root's dependency that led to it.                                       *)

RootNode == [package |-> Root, groups |-> {}]

(* Bug: the groups of the dependency itself, not of the first on the way. *)
BugOwnGroups(node, dep) == [package |-> dep.to, groups |-> dep.groups]
Neighbor(node, dep) ==
  [package |-> dep.to, groups |-> IF node = RootNode THEN dep.groups ELSE node.groups]

Insert(node, sorted) == <<node>> \o sorted

(* back: the edges by which nodes were reached.                            *)
RECURSIVE DfsVisit(_, _)
DfsVisit(node, found) ==
  IF node \in found.visited THEN found
  ELSE LET Follow(before, dep) ==
             LET out == Neighbor(node, dep)
             IN DfsVisit(out, [before EXCEPT !.back = @ \cup {<<node, out>>}])
           after == FoldLeft(Follow, [found EXCEPT !.visited = @ \cup {node}], requires[node.package])
       IN [after EXCEPT !.sorted = Insert(node, @)]

Search == DfsVisit(RootNode, [visited |-> {}, sorted |-> <<>>, back |-> {}])

(* The depth of the nodes, one after the other; a node that was not visited *)
(* yet, in a cycle, counts as one of depth -1.                             *)
DepthsIn(search) ==
  LET Parents(node) == {e[1] : e \in {e \in search.back : e[2] = node}}
      Visit(depth, node) ==
        [depth EXCEPT ![node] = 1 + Max({depth[parent] : parent \in Parents(node)} \cup {-2})]
  IN FoldLeft(Visit, [node \in Range(search.sorted) |-> -1], search.sorted)

NodesOf(search, p) == {node \in search.visited : node.package = p}

GroupsIn(search) == [p \in Packages |-> UNION {node.groups : node \in NodesOf(search, p)}]

(* Bug: the nodes are not combined by package. *)
BugEveryNode(search) == [k \in 1 .. Len(search.sorted) - 1 |-> search.sorted[k + 1].package]
(* By the largest depth of its nodes; in the order of the first ones.      *)
OrderIn(search) ==
  LET depths == DepthsIn(search)
      Depth(p) == Max({depths[node] : node \in NodesOf(search, p)})
      Position(p) == Min({k \in DOMAIN search.sorted : search.sorted[k].package = p})
      Before(p, q) ==
        \/ Depth(p) < Depth(q)
        \/ Depth(p) = Depth(q) /\ Position(p) < Position(q)
  IN SetToSortSeq({p \in Packages : NodesOf(search, p) # {}}, Before)

DepthFirstSearch ==
  /\ pc = "search"
  /\ order' = OrderIn(Search)
  /\ groups' = GroupsIn(Search)
  /\ pc' = "pass"
  /\ UNCHANGED <<requires, visited, known, markers, incomplete>>
-----------------------------------------------------------------------------
(* calculate_markers                                                       *)

DependenciesOn(p, parent) == {dep \in Range(requires[parent]) : dep.to = p}
EdgeMarker(p, parent) == UNION {dep.marker : dep \in DependenciesOn(p, parent)}

ParentsOf(p) == {q \in Range(order) : DependenciesOn(p, q) # {}}

FromRoot(p, g) ==
  UNION {dep.marker : dep \in {dep \in DependenciesOn(p, Root) : g \in dep.groups}}

(* Bug: the marker of the edge counts for every group. *)
BugEveryGroup(p, g) ==
  UNION {(IF q \in known THEN UNION {markers[q][h] : h \in Groups} ELSE {}) \cap EdgeMarker(p, q) :
           q \in ParentsOf(p)}
FromParents(p, g) ==
  UNION {markers[q][g] \cap EdgeMarker(p, q) : q \in {q \in ParentsOf(p) \cap known : g \in groups[q]}}

TransitiveMarker(p) ==
  [g \in Groups |-> IF g \in groups[p] THEN FromRoot(p, g) \cup FromParents(p, g) ELSE {}]

(* Bug: a parent without markers is passed over. *)
BugNeverIncomplete(p) == FALSE
IsIncomplete(p) == ParentsOf(p) \ known # {}

CalculateMarkers ==
  /\ pc = "pass" /\ visited < Len(order)
  /\ LET p == order[visited + 1]
     IN /\ markers' = [markers EXCEPT ![p] = TransitiveMarker(p)]
        /\ incomplete' = (incomplete \/ IsIncomplete(p))
        /\ known' = known \cup {p}
  /\ visited' = visited + 1
  /\ UNCHANGED <<requires, order, groups, pc>>

(* Bug: has_incomplete_markers is not reset. *)
BugNotReset == incomplete
Reset == FALSE

NextPass ==
  /\ pc = "pass" /\ visited = Len(order)
  /\ \/ incomplete /\ visited' = 0 /\ UNCHANGED pc
     \/ ~ incomplete /\ pc' = "done" /\ UNCHANGED visited
  /\ incomplete' = Reset
  /\ UNCHANGED <<requires, order, groups, known, markers>>

Done == pc = "done" /\ UNCHANGED vars

Next == DepthFirstSearch \/ CalculateMarkers \/ NextPass \/ Done

Spec == Init /\ [][Next]_vars
FairSpec == Spec /\ WF_vars(Next)
-----------------------------------------------------------------------------
(* What is to be calculated: a package is needed, for a group and in an     *)
(* environment, if dependencies lead to it from one of the root's in the    *)
(* group, all of whose markers hold.                                        *)

NeededIn(g, e) ==
  LET wanted[n \in 0 .. Cardinality(Packages)] ==
        IF n = 0 THEN {p \in Packages : e \in FromRoot(p, g)}
        ELSE wanted[n - 1] \cup
             {p \in Packages : \E q \in wanted[n - 1] : e \in EdgeMarker(p, q)}
  IN wanted[Cardinality(Packages)]

MarkedIn(g, e) == {p \in Packages : e \in markers[p][g]}
-----------------------------------------------------------------------------
(* Properties *)

TypeOK ==
  /\ requires \in Graph
  /\ order \in Seq(Packages) /\ IsInjective(order)
  /\ groups \in [Packages -> SUBSET Groups]
  /\ pc \in {"search", "pass", "done"}
  /\ visited \in 0 .. Len(order)
  /\ known \in SUBSET Packages
  /\ markers \in [Packages -> [Groups -> SUBSET Environments]]
  /\ incomplete \in BOOLEAN

(* A package has the groups of whatever requires it, or the look-up of the  *)
(* group in calculate_markers would raise KeyError.                         *)
GroupsArePassedOn ==
  pc # "search" => \A p \in Packages : \A q \in ParentsOf(p) : groups[q] \subseteq groups[p]

(* At no moment a marker holds where the package is not needed.             *)
OnlyWhereNeeded == \A g \in Groups, e \in Environments : MarkedIn(g, e) \subseteq NeededIn(g, e)

(* In the end it holds wherever the package is needed: what is locked is    *)
(* installed where it is needed.  "there is a cycle -> we need one more     *)
(* iteration": one is not always enough.                                    *)
WhereverNeeded ==
  pc = "done" => \A g \in Groups, e \in Environments : NeededIn(g, e) \subseteq MarkedIn(g, e)

(* What has been calculated so far is right, and complete in the end.       *)
MarkersAreRight == TypeOK /\ GroupsArePassedOn /\ OnlyWhereNeeded /\ WhereverNeeded

(* The iteration over the packages comes to an end, with cycles too.        *)
Terminates == <>(pc = "done")
=============================================================================
