-------------------------- MODULE PackageTerm_proofs --------------------------
(***************************************************************************)
(* The relations and intersections that the code computes on terms are     *)
(* those of the sets they mean, as long as no two sources exclude each     *)
(* other; then the one term that is kept for a package is right, and the   *)
(* assertion of _register() holds.  Whatever the sources, satisfier() finds *)
(* the assignment that first made a term true.  And the cache in front of   *)
(* the provider answers as the provider does, as long as the names of the  *)
(* package agree about prereleases.                                        *)
(***************************************************************************)
EXTENDS MCOnePackage, FiniteSetTheorems, SequenceTheorems, WellFoundedInduction, TLAPS

(* No package has two direct origins, or two indexes, among its sources.   *)
SourcesAgree == \A t, u \in Term : Compatible(t, u)

(* A term that the solver takes for satisfied is implied, one it takes for *)
(* contradicted is excluded, and an open one is neither: term.py:53-119.   *)
LEMMA RelationIsRight ==
  ASSUME NEW t \in Term, NEW u \in Term, Compatible(t, u)
  PROVE  /\ Relation(t, u) = "subset" <=> Meaning(t) \subseteq Meaning(u)
         /\ Relation(t, u) = "disjoint" => Meaning(t) \cap Meaning(u) = {}
<1>1. /\ t.constraint \subseteq Versions /\ t.constraint # {} /\ t.positive \in BOOLEAN
      /\ u.constraint \subseteq Versions /\ u.constraint # {} /\ u.positive \in BOOLEAN
      /\ Absent \notin Versions
  BY TermAssumption DEF Term
<1>2. IsSubset(t, u) <=> Meaning(t) \subseteq Meaning(u)
  <2>1. CASE t.positive /\ u.positive
    BY <1>1, <2>1 DEF IsSubset, Meaning, Choices
  <2>2. CASE t.positive /\ ~ u.positive
    BY <1>1, <2>2 DEF IsSubset, Meaning, Choices
  <2>3. CASE ~ t.positive /\ u.positive
    BY <1>1, <2>3 DEF IsSubset, Meaning, Choices
  <2>4. CASE ~ t.positive /\ ~ u.positive
    BY <1>1, <2>4 DEF IsSubset, Meaning, Choices
  <2> QED
    BY <1>1, <2>1, <2>2, <2>3, <2>4
<1>3. IsDisjoint(t, u) => Meaning(t) \cap Meaning(u) = {}
  BY <1>1 DEF IsDisjoint, Meaning, Choices
<1> QED
  BY <1>2, <1>3 DEF Relation

(* The inverse of a term means all other choices: term.py:30.              *)
LEMMA InverseIsRight ==
  ASSUME NEW t \in Term
  PROVE  InverseOf(t) \in Term /\ Meaning(InverseOf(t)) = Choices \ Meaning(t)
<1>1. t.constraint \subseteq Versions /\ t.positive \in BOOLEAN
  BY DEF Term
<1>2. InverseOf(t) = [t EXCEPT !.positive = ~ t.positive]
  BY DEF InverseOf
<1>3. /\ InverseOf(t) \in Term
      /\ InverseOf(t).positive = ~ t.positive
      /\ InverseOf(t).constraint = t.constraint
  BY <1>2 DEF Term
<1> QED
  BY <1>1, <1>3 DEF Meaning, Choices

(* The intersection of two terms means what both allow, and it is no term  *)
(* exactly when they allow nothing together: term.py:121-151.              *)
LEMMA IntersectIsRight ==
  ASSUME NEW t \in Term, NEW u \in Term, Compatible(t, u)
  PROVE  /\ Intersect(t, u) = None <=> Meaning(t) \cap Meaning(u) = {}
         /\ Intersect(t, u) # None =>
              /\ Intersect(t, u) \in Term
              /\ Meaning(Intersect(t, u)) = Meaning(t) \cap Meaning(u)
              /\ t.positive \/ u.positive => Intersect(t, u).positive = TRUE
              /\ ~ t.positive /\ ~ u.positive => Intersect(t, u).positive = FALSE
<1>1. /\ t.constraint \subseteq Versions /\ t.constraint # {} /\ t.positive \in BOOLEAN
      /\ u.constraint \subseteq Versions /\ u.constraint # {} /\ u.positive \in BOOLEAN
      /\ t.source \in Sources /\ t.marker \subseteq Environments
      /\ u.source \in Sources /\ u.marker \subseteq Environments
      /\ Absent \notin Versions /\ None \notin Term
  BY TermAssumption DEF Term
<1> DEFINE Positive(c) == NonEmptyTerm(c, TRUE, t, u)
           Negative(c) == NonEmptyTerm(c, FALSE, t, u)
           IsIntersection(x) ==
             /\ x = None <=> Meaning(t) \cap Meaning(u) = {}
             /\ x # None => /\ x \in Term
                            /\ Meaning(x) = Meaning(t) \cap Meaning(u)
                            /\ t.positive \/ u.positive => x.positive = TRUE
                            /\ ~ t.positive /\ ~ u.positive => x.positive = FALSE
<1>2. ASSUME NEW c \in SUBSET Versions
      PROVE  /\ c = {} => Positive(c) = None
             /\ c # {} => /\ Positive(c) \in Term
                          /\ Meaning(Positive(c)) = c
                          /\ Positive(c).positive = TRUE
             /\ c # {} => /\ Negative(c) \in Term
                          /\ Meaning(Negative(c)) = Choices \ c
                          /\ Negative(c).positive = FALSE
  <2>1. /\ MergedMarker(t, u, TRUE) \in SUBSET Environments
        /\ MergedMarker(t, u, FALSE) \in SUBSET Environments
    BY <1>1 DEF MergedMarker
  <2>2. c = {} => Positive(c) = None
    BY DEF NonEmptyTerm
  <2>3. ASSUME c # {}
        PROVE  /\ Positive(c) \in Term
               /\ Positive(c).constraint = c /\ Positive(c).positive = TRUE
               /\ Negative(c) \in Term
               /\ Negative(c).constraint = c /\ Negative(c).positive = FALSE
    BY <1>1, <2>1, <2>3 DEF NonEmptyTerm, Term
  <2> QED
    BY <2>2, <2>3 DEF Meaning
<1> HIDE DEF Positive, Negative
<1>3. CASE t.positive /\ u.positive
  <2> DEFINE d == t.constraint \cap u.constraint
  <2>1. Intersect(t, u) = Positive(d)
    BY <1>3 DEF Intersect, Positive
  <2>2. d = Meaning(t) \cap Meaning(u)
    BY <1>3 DEF Meaning
  <2>3. d \in SUBSET Versions
    BY <1>1
  <2>4. /\ d = {} => Positive(d) = None
        /\ d # {} => Positive(d) \in Term /\ Meaning(Positive(d)) = d
        /\ d # {} => Positive(d).positive = TRUE
    BY <2>3, <1>2
  <2> HIDE DEF d
  <2>5. IsIntersection(Positive(d))
    BY <2>2, <2>4, <1>1, <1>3
  <2> QED
    BY <2>1, <2>5 DEF d
<1>4. CASE t.positive /\ ~ u.positive
  <2> DEFINE d == t.constraint \ u.constraint
  <2>1. Intersect(t, u) = Positive(d)
    BY <1>4 DEF Intersect, Positive
  <2>2. d = Meaning(t) \cap Meaning(u)
    BY <1>1, <1>4 DEF Meaning, Choices
  <2>3. d \in SUBSET Versions
    BY <1>1
  <2>4. /\ d = {} => Positive(d) = None
        /\ d # {} => Positive(d) \in Term /\ Meaning(Positive(d)) = d
        /\ d # {} => Positive(d).positive = TRUE
    BY <2>3, <1>2
  <2> HIDE DEF d
  <2>5. IsIntersection(Positive(d))
    BY <2>2, <2>4, <1>1, <1>4
  <2> QED
    BY <2>1, <2>5 DEF d
<1>5. CASE ~ t.positive /\ u.positive
  <2> DEFINE d == u.constraint \ t.constraint
  <2>1. Intersect(t, u) = Positive(d)
    BY <1>5 DEF Intersect, Positive
  <2>2. d = Meaning(t) \cap Meaning(u)
    BY <1>1, <1>5 DEF Meaning, Choices
  <2>3. d \in SUBSET Versions
    BY <1>1
  <2>4. /\ d = {} => Positive(d) = None
        /\ d # {} => Positive(d) \in Term /\ Meaning(Positive(d)) = d
        /\ d # {} => Positive(d).positive = TRUE
    BY <2>3, <1>2
  <2> HIDE DEF d
  <2>5. IsIntersection(Positive(d))
    BY <2>2, <2>4, <1>1, <1>5
  <2> QED
    BY <2>1, <2>5 DEF d
<1>6. CASE ~ t.positive /\ ~ u.positive
  <2> DEFINE d == t.constraint \cup u.constraint
  <2>1. Intersect(t, u) = Negative(d)
    BY <1>6 DEF Intersect, Negative
  <2>2. /\ d # {}
        /\ Choices \ d = Meaning(t) \cap Meaning(u)
        /\ Absent \in Meaning(t) \cap Meaning(u)
    BY <1>1, <1>6 DEF Meaning, Choices
  <2>3. d \in SUBSET Versions
    BY <1>1
  <2>4. /\ d # {} => Negative(d) \in Term /\ Meaning(Negative(d)) = Choices \ d
        /\ d # {} => Negative(d).positive = FALSE
    BY <2>3, <1>2
  <2> HIDE DEF d
  <2>5. IsIntersection(Negative(d))
    BY <2>2, <2>4, <1>1, <1>6
  <2> QED
    BY <2>1, <2>5 DEF d
<1> QED
  BY <1>1, <1>3, <1>4, <1>5, <1>6

(* _register() makes the term mean what one assignment more leaves:        *)
(* partial_solution.py:143-168.                                            *)
LEMMA RegisterIsRight ==
  ASSUME SourcesAgree, TermIsSound, NEW a \in Term, Register(a),
         Left(registered) \cap Meaning(a) # {}
  PROVE  /\ failed' = FALSE
         /\ positive' \in {t \in Term : t.positive} \cup {None}
         /\ negative' \in {t \in Term : ~ t.positive} \cup {None}
         /\ positive' = None \/ negative' = None
         /\ Current' # None
         /\ Meaning(Current') = Left(registered) \cap Meaning(a)
<1> DEFINE c == Combined(a)
<1>1. /\ positive = None \/ negative = None
      /\ Left(registered) = IF Current = None THEN Choices ELSE Meaning(Current)
      /\ positive # None => positive \in Term /\ positive.positive
      /\ negative # None => negative \in Term /\ ~ negative.positive
      /\ None \notin Term
  BY TermAssumption DEF TermIsSound, TypeOK, TermIsKept
<1>2. Meaning(a) \subseteq Choices
  BY DEF Meaning, Choices, Term
<1>3. /\ c # None
      /\ c \in Term
      /\ Meaning(c) = Left(registered) \cap Meaning(a)
      /\ positive # None => c.positive
  <2>1. CASE positive # None
    <3>1. c = Intersect(positive, a) /\ Left(registered) = Meaning(positive)
      BY <1>1, <2>1 DEF Combined, Current
    <3>2. positive \in Term /\ Compatible(positive, a) /\ positive.positive
      BY <1>1, <2>1 DEF SourcesAgree
    <3>3. /\ c = None <=> Left(registered) \cap Meaning(a) = {}
          /\ c # None => /\ c \in Term
                         /\ Meaning(c) = Left(registered) \cap Meaning(a)
                         /\ positive.positive \/ a.positive => c.positive = TRUE
      BY <3>1, <3>2, IntersectIsRight, ZenonT(30)
    <3> QED
      BY <3>2, <3>3
  <2>2. CASE positive = None /\ negative # None
    <3>1. c = Intersect(a, negative) /\ Left(registered) = Meaning(negative)
      BY <1>1, <2>2 DEF Combined, Current
    <3>2. negative \in Term /\ Compatible(a, negative)
      BY <1>1, <2>2 DEF SourcesAgree
    <3> DEFINE d == Intersect(a, negative)
    <3>3. /\ d = None <=> Meaning(a) \cap Meaning(negative) = {}
          /\ d # None => /\ d \in Term
                         /\ Meaning(d) = Meaning(a) \cap Meaning(negative)
      BY <3>2, IntersectIsRight
    <3> HIDE DEF d
    <3>4. Meaning(a) \cap Left(registered) = Left(registered) \cap Meaning(a)
      OBVIOUS
    <3> QED
      BY <2>2, <3>1, <3>3, <3>4 DEF d
  <2>3. CASE positive = None /\ negative = None
    <3>1. c = a /\ Left(registered) = Choices
      BY <1>1, <2>3 DEF Combined, Current
    <3> QED
      BY <1>1, <1>2, <2>3, <3>1
  <2> QED
    BY <2>1, <2>2, <2>3
<1>4. /\ failed' = FALSE
      /\ positive' = IF c.positive THEN c ELSE positive
      /\ negative' = IF c.positive THEN None ELSE c
  BY <1>3 DEF Register
<1>5. CASE c.positive
  <2>1. positive' = c /\ negative' = None
    BY <1>4, <1>5
  <2> QED
    BY <1>3, <1>4, <1>5, <2>1 DEF Current
<1>6. CASE ~ c.positive
  <2>1. positive' = None /\ negative' = c
    BY <1>3, <1>4, <1>6
  <2> QED
    BY <1>3, <1>4, <1>6, <2>1 DEF Current
<1> QED
  BY <1>5, <1>6

(* What an open term leaves when it is denied is not empty.                *)
LEMMA OpenTermLeaves ==
  ASSUME SourcesAgree, TermIsSound, IsRegistered, NEW u \in Term,
         RelationTo(u) = "overlapping"
  PROVE  Left(registered) \cap Meaning(InverseOf(u)) # {}
<1>1. /\ Meaning(InverseOf(u)) = Choices \ Meaning(u)
      /\ positive # None => positive \in Term
      /\ negative # None => negative \in Term
      /\ positive = None \/ negative = None
      /\ Left(registered) = IF Current = None THEN Choices ELSE Meaning(Current)
  BY InverseIsRight DEF TermIsSound, TypeOK, TermIsKept
<1>2. CASE Current # None
  <2>1. Current \in Term /\ Relation(Current, u) = "overlapping"
    BY <1>1, <1>2 DEF Current, RelationTo
  <2>2. ~ Meaning(Current) \subseteq Meaning(u) /\ Meaning(Current) \subseteq Choices
    <3>1. Meaning(Current) \subseteq Choices
      BY <2>1 DEF Meaning, Choices, Term
    <3> QED
      BY <2>1, <3>1, RelationIsRight DEF SourcesAgree
  <2> QED
    BY <1>1, <1>2, <2>2
<1>3. CASE Current = None
  <2>1. Choices \ Meaning(u) # {}
    BY TermAssumption DEF Meaning, Choices, Term
  <2> QED
    BY <1>1, <1>3, <2>1
<1> QED
  BY <1>2, <1>3

(* An assignment more leaves what it and those before it allow.            *)
LEMMA LeftAppend ==
  ASSUME assignments \in Seq(Assignment), NEW t \in Term, NEW l \in Nat, NEW d \in BOOLEAN,
         assignments' = Append(assignments, [term |-> t, level |-> l, decision |-> d])
  PROVE  /\ assignments' \in Seq(Assignment)
         /\ Len(assignments') = Len(assignments) + 1
         /\ Left(Len(assignments))' = Left(Len(assignments)) \cap Meaning(t)
<1> DEFINE a == [term |-> t, level |-> l, decision |-> d]
<1>1. assignments \in Seq(Assignment) /\ a \in Assignment
  BY DEF Assignment
<1>2. /\ assignments' \in Seq(Assignment)
      /\ Len(assignments') = Len(assignments) + 1
      /\ assignments'[Len(assignments) + 1] = a
      /\ \A k \in 1 .. Len(assignments) : assignments'[k] = assignments[k]
  BY <1>1
<1>3. /\ Len(assignments) \in Nat
      /\ 1 .. Len(assignments) + 1 = (1 .. Len(assignments)) \cup {Len(assignments) + 1}
  BY <1>1
<1>4. Left(Len(assignments))' =
        {c \in Choices : \A k \in 1 .. Len(assignments) + 1 :
                           c \in Meaning(assignments'[k].term)}
  BY <1>2 DEF Left, Choices, Meaning
<1>5. Left(Len(assignments)) =
        {c \in Choices : \A k \in 1 .. Len(assignments) :
                           c \in Meaning(assignments[k].term)}
  BY DEF Left
<1>6. assignments'[Len(assignments) + 1].term = t
  BY <1>2
<1>7. \A k \in 1 .. Len(assignments) : assignments'[k].term = assignments[k].term
  BY <1>2
<1>8. ASSUME NEW c \in Choices
      PROVE  (\A k \in 1 .. Len(assignments) + 1 : c \in Meaning(assignments'[k].term))
             <=> /\ \A k \in 1 .. Len(assignments) : c \in Meaning(assignments[k].term)
                 /\ c \in Meaning(t)
  BY <1>3, <1>6, <1>7
<1> QED
  BY <1>2, <1>4, <1>5, <1>8

LEMMA InitHolds == Init => TermIsSound
<1> SUFFICES ASSUME Init PROVE TermIsSound
  OBVIOUS
<1>1. TypeOK /\ ~ failed
  <2>1. << >> \in Seq(Assignment) /\ Len(<< >>) = 0 /\ 0 \in 0 .. 0
    OBVIOUS
  <2> QED
    BY <2>1 DEF Init, TypeOK
<1>2. Left(0) = Choices /\ Choices # {}
  BY DEF Left, Choices
<1> QED
  BY <1>1, <1>2 DEF Init, TermIsSound, TermIsKept, Current

LEMMA StepHolds == ASSUME SourcesAgree PROVE TermIsSound /\ [Next]_vars => TermIsSound'
<1> SUFFICES ASSUME TermIsSound, [Next]_vars PROVE TermIsSound'
  OBVIOUS
<1> USE PackageTermAssumption
<1>1. ASSUME NEW t \in Term, NEW d \in BOOLEAN, IsRegistered, Assign(t, d),
             level' \in Nat, Left(registered) \cap Meaning(t) # {}
      PROVE  TermIsSound'
  <2>1. /\ assignments' = Append(assignments, [term |-> t, level |-> level', decision |-> d])
        /\ Register(t)
    BY <1>1 DEF Assign
  <2>2. /\ assignments' \in Seq(Assignment)
        /\ Len(assignments') = Len(assignments) + 1
        /\ Left(Len(assignments))' = Left(Len(assignments)) \cap Meaning(t)
    BY <1>1, <2>1, LeftAppend DEF TermIsSound, TypeOK
  <2>3. /\ failed' = FALSE
        /\ positive' \in {x \in Term : x.positive} \cup {None}
        /\ negative' \in {x \in Term : ~ x.positive} \cup {None}
        /\ positive' = None \/ negative' = None
        /\ Current' # None
        /\ Meaning(Current') = Left(registered) \cap Meaning(t)
    BY <1>1, <2>1, RegisterIsRight
  <2>4. registered' = Len(assignments') /\ Len(assignments) \in Nat
        /\ registered = Len(assignments)
    BY <1>1, <2>1, <2>2 DEF Register, IsRegistered, TermIsSound, TypeOK
  <2>5. registered' \in 0 .. Len(assignments')
    BY <2>2, <2>4
  <2>6. TypeOK'
    BY <1>1, <2>2, <2>3, <2>5 DEF TypeOK
  <2>7. /\ Left(registered)' = Left(Len(assignments))'
        /\ Left(Len(assignments))' = Left(registered) \cap Meaning(t)
    BY <2>2, <2>4 DEF Left
  <2>8. Left(registered)' = Meaning(Current)' /\ Left(Len(assignments))' # {}
    BY <1>1, <2>3, <2>7 DEF Meaning, Choices
  <2>9. TermIsKept'
    BY <2>3, <2>8 DEF TermIsKept
  <2> QED
    BY <2>3, <2>6, <2>8, <2>9 DEF TermIsSound
<1>2. ASSUME NEW u \in Term, Derive(u) PROVE TermIsSound'
  <2>1. InverseOf(u) \in Term /\ level' \in Nat /\ FALSE \in BOOLEAN
    BY <1>2, InverseIsRight DEF Derive, TermIsSound, TypeOK
  <2>2. Left(registered) \cap Meaning(InverseOf(u)) # {}
    BY <1>2, OpenTermLeaves DEF Derive
  <2> QED
    BY <1>1, <1>2, <2>1, <2>2 DEF Derive
<1>3. ASSUME NEW v \in Versions, Decide(v) PROVE TermIsSound'
  <2> DEFINE t == [positive |-> TRUE, source |-> positive.source, constraint |-> {v},
                   marker |-> Environments]
  <2>1. positive \in Term /\ positive # None /\ positive.positive
    BY <1>3 DEF Decide, TermIsSound, TypeOK
  <2>2. t \in Term /\ Meaning(t) = {v}
    BY <2>1 DEF Term, Meaning
  <2>3. Left(registered) = Meaning(positive) /\ Meaning(positive) = positive.constraint
    BY <2>1 DEF TermIsSound, TermIsKept, Current, Meaning
  <2>4. IsRegistered /\ Assign(t, TRUE) /\ v \in positive.constraint
    BY <1>3 DEF Decide
  <2>5. level' \in Nat /\ TRUE \in BOOLEAN
    BY <1>3 DEF Decide, TermIsSound, TypeOK
  <2>6. Left(registered) \cap Meaning(t) # {}
    BY <2>2, <2>3, <2>4
  <2> HIDE DEF t
  <2> QED
    BY <1>1, <2>2, <2>4, <2>5, <2>6
<1>4. CASE DecideOther
  BY <1>4 DEF DecideOther, TermIsSound, TypeOK, TermIsKept, Current, Left, Meaning, Choices
<1>5. ASSUME NEW l \in 0 .. level, Backtrack(l) PROVE TermIsSound'
  <2>1. PICK n \in 0 .. Len(assignments) :
          /\ assignments' = SubSeq(assignments, 1, n)
          /\ IF n < Len(assignments)
             THEN registered' = 0 /\ positive' = None /\ negative' = None
             ELSE UNCHANGED <<registered, positive, negative>>
    BY <1>5 DEF Backtrack, Cleared
  <2>2. assignments \in Seq(Assignment) /\ Len(assignments) \in Nat /\ n \in Nat
        /\ n <= Len(assignments)
    BY DEF TermIsSound, TypeOK
  <2>3. /\ assignments' \in Seq(Assignment)
        /\ Len(assignments') = n
        /\ \A k \in 1 .. n : assignments'[k] = assignments[k]
    BY <2>1, <2>2
  <2>4. Left(Len(assignments)) \subseteq Left(Len(assignments))'
    <3>1. 1 .. n \subseteq 1 .. Len(assignments)
      BY <2>2
    <3> QED
      BY <2>3, <3>1 DEF Left, Choices, Meaning
  <2>5. level' \in Nat /\ failed' = failed /\ registered = Len(assignments)
    BY <1>5 DEF Backtrack, TermIsSound, TypeOK, IsRegistered
  <2>6. CASE n < Len(assignments)
    <3>1. Left(registered)' = Choices
      BY <2>1, <2>6 DEF Left, Choices
    <3>2. TermIsKept'
      BY <2>1, <2>6, <3>1 DEF TermIsKept, Current, Choices
    <3>3. TypeOK'
      BY <2>1, <2>2, <2>3, <2>5, <2>6 DEF TypeOK, TermIsSound
    <3> QED
      BY <2>4, <2>5, <3>2, <3>3 DEF TermIsSound
  <2>7. CASE n = Len(assignments)
    <3>1. assignments' = assignments
      BY <2>1, <2>2, <2>7
    <3>2. registered' = registered /\ positive' = positive /\ negative' = negative
      BY <2>1, <2>7
    <3>3. /\ Left(registered)' = Left(registered)
          /\ Left(Len(assignments))' = Left(Len(assignments))
          /\ Current' = Current
      BY <3>1, <3>2 DEF Left, Meaning, Choices, Current
    <3>4. TermIsKept'
      BY <2>5, <3>2, <3>3 DEF TermIsSound, TermIsKept, Meaning, Choices
    <3>5. TypeOK'
      BY <2>5, <3>1, <3>2 DEF TermIsSound, TypeOK
    <3> QED
      BY <2>5, <3>3, <3>4, <3>5 DEF TermIsSound
  <2> QED
    BY <2>2, <2>6, <2>7
<1>6. CASE RegisterAgain
  <2> DEFINE k == registered + 1
             a == assignments[k].term
  <2>1. /\ registered \in Nat /\ Len(assignments) \in Nat
        /\ k \in 1 .. Len(assignments) /\ a \in Term
        /\ 1 .. k = (1 .. registered) \cup {k}
    <3>1. /\ assignments \in Seq(Assignment) /\ registered \in 0 .. Len(assignments)
          /\ registered < Len(assignments)
      BY <1>6 DEF RegisterAgain, TermIsSound, TypeOK
    <3>2. Len(assignments) \in Nat /\ registered \in Nat /\ k \in 1 .. Len(assignments)
      BY <3>1
    <3>3. assignments[k] \in Assignment
      BY <3>1, <3>2
    <3>4. a \in Term
      BY <3>3 DEF Assignment
    <3> QED
      BY <3>2, <3>4
  <2>2. Left(k) = Left(registered) \cap Meaning(a)
    BY <2>1 DEF Left
  <2>3. Left(Len(assignments)) \subseteq Left(k)
    BY <2>1 DEF Left
  <2>4. Register(a) /\ assignments' = assignments /\ level' = level
    BY <1>6 DEF RegisterAgain
  <2>5. Left(registered) \cap Meaning(a) # {}
    BY <2>2, <2>3 DEF TermIsSound
  <2>6. /\ failed' = FALSE
        /\ positive' \in {t \in Term : t.positive} \cup {None}
        /\ negative' \in {t \in Term : ~ t.positive} \cup {None}
        /\ positive' = None \/ negative' = None
        /\ Current' # None
        /\ Meaning(Current') = Left(registered) \cap Meaning(a)
    BY <2>1, <2>4, <2>5, RegisterIsRight
  <2>7. registered' = k
    BY <2>4 DEF Register
  <2>8. Left(registered)' = Left(k) /\ Left(Len(assignments))' = Left(Len(assignments))
    BY <2>4, <2>7 DEF Left, Choices, Meaning
  <2>9. TypeOK'
    <3>1. registered' \in 0 .. Len(assignments')
      BY <2>1, <2>4, <2>7
    <3> QED
      BY <2>4, <2>6, <3>1 DEF TypeOK, TermIsSound
  <2>10. TermIsKept'
    BY <2>2, <2>6, <2>8 DEF TermIsKept, Meaning, Choices
  <2> QED
    BY <2>6, <2>8, <2>9, <2>10 DEF TermIsSound
<1>7. CASE UNCHANGED vars
  BY <1>7 DEF vars, TermIsSound, TypeOK, TermIsKept, Current, Left, Meaning, Choices
<1> QED
  BY <1>2, <1>3, <1>4, <1>5, <1>6, <1>7 DEF Next

(* For any versions, environments and number of assignments: the term that *)
(* is kept for a package means what all assignments about it mean, through *)
(* any backtracking.                                                       *)
THEOREM KeptTermIsRight == ASSUME SourcesAgree PROVE Spec => []TermIsSound
<1>1. TermIsSound /\ [Next]_vars => TermIsSound'
  BY StepHolds
<1> QED
  BY InitHolds, <1>1, PTL DEF Spec

(* With one source, or an index and one direct origin, the assertion in    *)
(* _register() never fails.                                                *)
THEOREM RegisterNeverFails == ASSUME SourcesAgree PROVE Spec => []AssertionHolds
<1>1. TermIsSound => AssertionHolds
  BY DEF TermIsSound, AssertionHolds
<1>2. TermIsSound /\ [Next]_vars => TermIsSound'
  BY StepHolds
<1> QED
  BY InitHolds, <1>1, <1>2, PTL DEF Spec

(* What relation() tells the solver follows from the assignments.          *)
THEOREM RelationsAreKnown == ASSUME SourcesAgree PROVE Spec => []RelationIsKnown
<1>1. TermIsSound => RelationIsKnown
  <2> SUFFICES ASSUME TermIsSound, IsRegistered, NEW u \in Term
               PROVE  /\ RelationTo(u) = "subset" =>
                           Left(Len(assignments)) \subseteq Meaning(u)
                      /\ RelationTo(u) = "disjoint" =>
                           Left(Len(assignments)) \cap Meaning(u) = {}
    BY DEF RelationIsKnown
  <2>1. Left(Len(assignments)) = IF Current = None THEN Choices ELSE Meaning(Current)
    BY DEF TermIsSound, TermIsKept, IsRegistered
  <2>2. CASE Current = None
    BY <2>2 DEF Current, RelationTo
  <2>3. CASE Current # None
    <3>1. Current \in Term /\ RelationTo(u) = Relation(Current, u)
      BY <2>3 DEF Current, RelationTo, TermIsSound, TypeOK
    <3>2. Left(Len(assignments)) = Meaning(Current)
      BY <2>1, <2>3
    <3> QED
      BY <3>1, <3>2, RelationIsRight DEF SourcesAgree
  <2> QED
    BY <2>2, <2>3
<1>2. TermIsSound /\ [Next]_vars => TermIsSound'
  BY StepHolds
<1> QED
  BY InitHolds, <1>1, <1>2, PTL DEF Spec
-----------------------------------------------------------------------------
(* The assignment that conflict resolution blames *)

Typed ==
  /\ assignments \in Seq(Assignment)
  /\ positive \in {t \in Term : t.positive} \cup {None}
  /\ negative \in {t \in Term : ~ t.positive} \cup {None}
  /\ level \in Nat
  /\ registered \in 0 .. Len(assignments)

(* As long as all that was said is about one source, something is left.    *)
OnlyTo(s, n) == \A k \in 1 .. n : assignments[k].term.source = s
PrefixesLeave ==
  \A s \in Sources, n \in 0 .. Len(assignments) : OnlyTo(s, n) => Left(n) # {}

PositiveMarkers(n) ==
  UNION {assignments[k].term.marker : k \in {j \in 1 .. n : assignments[j].term.positive}}

(* And then the term that is kept is about that source, means what all     *)
(* of them mean, and has their markers.                                    *)
KeptOf(s) ==
  /\ failed = FALSE
  /\ Left(registered) = IF Current = None THEN Choices ELSE Meaning(Current)
  /\ Current # None => Current.source = s
  /\ positive = None \/ negative = None
  /\ IF positive # None THEN positive.marker = PositiveMarkers(registered)
     ELSE \A k \in 1 .. registered : ~ assignments[k].term.positive

Traced == Typed /\ PrefixesLeave /\ \A s \in Sources : FromOnly(s) => KeptOf(s)

LEMMA IntersectTypes ==
  ASSUME NEW t \in Term, NEW u \in Term
  PROVE  /\ Intersect(t, u) \in Term \cup {None}
         /\ Intersect(t, u) # None => Intersect(t, u).positive = (t.positive \/ u.positive)
<1>1. t.positive \in BOOLEAN /\ u.positive \in BOOLEAN
  BY DEF Term
<1>2. CASE Compatible(t, u)
  BY <1>1, <1>2, IntersectIsRight
<1>3. CASE ~ Compatible(t, u)
  <2>1. CASE t.positive /\ ~ u.positive
    BY <1>1, <1>3, <2>1 DEF Intersect
  <2>2. CASE ~ t.positive /\ u.positive
    BY <1>1, <1>3, <2>2 DEF Intersect
  <2>3. CASE t.positive = u.positive
    <3>1. Intersect(t, u) = None
      BY <1>1, <1>3, <2>3 DEF Intersect
    <3>2. QED
      BY <3>1
  <2>4. QED
    BY <1>1, <2>1, <2>2, <2>3
<1>4. QED
  BY <1>2, <1>3

(* Terms about one source have an intersection about it, and environments  *)
(* are added where both require the package: term.py:190-214.              *)
LEMMA IntersectOfOneSource ==
  ASSUME NEW t \in Term, NEW u \in Term, t.source = u.source, Intersect(t, u) # None
  PROVE  /\ Intersect(t, u).source = t.source
         /\ t.positive /\ u.positive => Intersect(t, u).marker = t.marker \cup u.marker
         /\ t.positive /\ ~ u.positive => Intersect(t, u).marker = t.marker
<1>1. t.positive \in BOOLEAN /\ u.positive \in BOOLEAN /\ Compatible(t, u) /\ IsDirect(t) = IsDirect(u)
  BY DEF Term, Compatible, IsDirect
<1>2. ASSUME NEW c, NEW p \in BOOLEAN, NonEmptyTerm(c, p, t, u) # None
      PROVE  /\ NonEmptyTerm(c, p, t, u).source = t.source
             /\ NonEmptyTerm(c, p, t, u).marker = IF p /\ u.positive THEN t.marker \cup u.marker ELSE t.marker
  BY <1>1, <1>2 DEF NonEmptyTerm, MergedMarker
<1>3. CASE t.positive /\ u.positive
  <2>1. Intersect(t, u) = NonEmptyTerm(t.constraint \cap u.constraint, TRUE, t, u)
    BY <1>1, <1>3 DEF Intersect
  <2>2. QED
    BY <1>2, <1>3, <2>1
<1>4. CASE t.positive /\ ~ u.positive
  <2>1. Intersect(t, u) = NonEmptyTerm(t.constraint \ u.constraint, TRUE, t, u)
    BY <1>1, <1>4 DEF Intersect
  <2>2. QED
    BY <1>2, <1>4, <2>1
<1>5. CASE ~ t.positive /\ u.positive
  <2>1. Intersect(t, u) = NonEmptyTerm(u.constraint \ t.constraint, TRUE, t, u)
    BY <1>1, <1>5 DEF Intersect
  <2>2. QED
    BY <1>2, <1>5, <2>1
<1>6. CASE ~ t.positive /\ ~ u.positive
  <2>1. Intersect(t, u) = NonEmptyTerm(t.constraint \cup u.constraint, FALSE, t, u)
    BY <1>1, <1>6 DEF Intersect
  <2>2. QED
    BY <1>2, <1>6, <2>1
<1>7. QED
  BY <1>1, <1>3, <1>4, <1>5, <1>6

(* _register() keeps the dictionaries what they are.                       *)
LEMMA RegisterTypes ==
  ASSUME Typed, NEW a \in Term, Register(a)
  PROVE  /\ positive' \in {t \in Term : t.positive} \cup {None}
         /\ negative' \in {t \in Term : ~ t.positive} \cup {None}
<1>1. Combined(a) \in Term \cup {None}
  BY IntersectTypes DEF Combined, Typed
<1>2. /\ positive' = IF Combined(a) # None /\ Combined(a).positive THEN Combined(a) ELSE positive
      /\ negative' = IF Combined(a) = None THEN negative
                     ELSE IF Combined(a).positive THEN None ELSE Combined(a)
  BY DEF Register
<1>3. QED
  BY <1>1, <1>2 DEF Typed

LEMMA RegisterOfOneSource ==
  ASSUME Typed, NEW s \in Sources, KeptOf(s), NEW a \in Term, a.source = s, Register(a),
         Left(registered) \cap Meaning(a) # {}
  PROVE  /\ failed' = FALSE
         /\ positive' = None \/ negative' = None
         /\ Current' # None /\ Current'.source = s
         /\ Meaning(Current') = Left(registered) \cap Meaning(a)
         /\ positive' = None <=> positive = None /\ ~ a.positive
         /\ positive' # None =>
              positive'.marker = (IF positive = None THEN {} ELSE positive.marker)
                                   \cup (IF a.positive THEN a.marker ELSE {})
<1>. DEFINE c == Combined(a)
<1>1. /\ positive # None => positive \in Term /\ positive.positive /\ negative = None /\ positive.source = s
      /\ negative # None => negative \in Term /\ ~ negative.positive
      /\ positive = None /\ negative # None => negative.source = s
      /\ Left(registered) = IF Current = None THEN Choices ELSE Meaning(Current)
      /\ None \notin Term /\ a.positive \in BOOLEAN /\ Meaning(a) \subseteq Choices
  BY TermAssumption DEF Typed, KeptOf, Current, Term, Meaning, Choices
<1>2. /\ c \in Term /\ c # None /\ c.source = s
      /\ Meaning(c) = Left(registered) \cap Meaning(a)
      /\ c.positive <=> positive # None \/ a.positive
      /\ c.positive => c.marker = (IF positive = None THEN {} ELSE positive.marker)
                                    \cup (IF a.positive THEN a.marker ELSE {})
  <2>1. CASE positive # None
    <3>1. c = Intersect(positive, a) /\ Left(registered) = Meaning(positive) /\ Compatible(positive, a)
      BY <1>1, <2>1 DEF Combined, Current, Compatible
    <3>2. c # None /\ c \in Term /\ Meaning(c) = Left(registered) \cap Meaning(a) /\ c.positive = TRUE
      <4>. HIDE DEF c
      <4>1. QED
        BY <1>1, <2>1, <3>1, IntersectIsRight
    <3>3. c.source = s /\ c.marker = positive.marker \cup (IF a.positive THEN a.marker ELSE {})
      <4>. HIDE DEF c
      <4>1. /\ Intersect(positive, a).source = positive.source
            /\ positive.positive /\ a.positive => Intersect(positive, a).marker = positive.marker \cup a.marker
            /\ positive.positive /\ ~ a.positive => Intersect(positive, a).marker = positive.marker
        BY <1>1, <2>1, <3>1, <3>2, IntersectOfOneSource
      <4>2. QED
        BY <1>1, <2>1, <3>1, <4>1
    <3>4. QED
      BY <1>1, <2>1, <3>2, <3>3
  <2>2. CASE positive = None /\ negative # None
    <3>1. c = Intersect(a, negative) /\ Left(registered) = Meaning(negative) /\ Compatible(a, negative)
      BY <1>1, <2>2 DEF Combined, Current, Compatible
    <3>2. /\ c # None /\ c \in Term /\ Meaning(c) = Meaning(a) \cap Meaning(negative)
          /\ c.positive = a.positive
      <4>. HIDE DEF c
      <4>1. /\ c = None <=> Meaning(a) \cap Meaning(negative) = {}
            /\ c # None => c \in Term /\ Meaning(c) = Meaning(a) \cap Meaning(negative)
            /\ a.positive => (c # None => c.positive = TRUE)
            /\ ~ a.positive => (c # None => c.positive = FALSE)
        BY <1>1, <2>2, <3>1, IntersectIsRight, ZenonT(30)
      <4>2. Meaning(a) \cap Meaning(negative) # {}
        BY <3>1
      <4>3. QED
        BY <1>1, <4>1, <4>2
    <3>3. c.source = s /\ (a.positive => c.marker = a.marker)
      <4>. HIDE DEF c
      <4>1. QED
        BY <1>1, <2>2, <3>1, <3>2, IntersectOfOneSource
    <3>4. Meaning(c) = Left(registered) \cap Meaning(a)
      BY <3>1, <3>2
    <3>5. QED
      BY <1>1, <2>2, <3>2, <3>3, <3>4
  <2>3. CASE positive = None /\ negative = None
    <3>1. c = a /\ Left(registered) = Choices
      BY <1>1, <2>3 DEF Combined, Current
    <3>2. QED
      BY <1>1, <2>3, <3>1
  <2>4. QED
    BY <2>1, <2>2, <2>3
<1>3. /\ failed' = FALSE
      /\ positive' = IF c.positive THEN c ELSE positive
      /\ negative' = IF c.positive THEN None ELSE c
  BY <1>2 DEF Register
<1>. HIDE DEF c
<1>4. CASE c.positive
  <2>1. positive' = c /\ negative' = None /\ Current' = c
    BY <1>2, <1>3, <1>4 DEF Current
  <2>2. QED
    BY <1>2, <1>3, <1>4, <2>1
<1>5. CASE ~ c.positive
  <2>1. positive' = None /\ negative' = c /\ Current' = c
    BY <1>2, <1>3, <1>5 DEF Current
  <2>2. QED
    BY <1>2, <1>3, <1>5, <2>1
<1>6. QED
  BY <1>4, <1>5

LEMMA OpenTermOfOneSource ==
  ASSUME Typed, NEW s \in Sources, KeptOf(s), NEW u \in Term, u.source = s,
         RelationTo(u) = "overlapping"
  PROVE  Left(registered) \cap Meaning(InverseOf(u)) # {}
<1>1. /\ Meaning(InverseOf(u)) = Choices \ Meaning(u)
      /\ Current \in Term \cup {None}
      /\ Left(registered) = IF Current = None THEN Choices ELSE Meaning(Current)
  BY InverseIsRight DEF Typed, KeptOf, Current
<1>2. CASE Current # None
  <2>1. Current \in Term /\ Relation(Current, u) = "overlapping" /\ Compatible(Current, u)
    BY <1>1, <1>2 DEF Current, RelationTo, KeptOf, Compatible
  <2>2. Meaning(Current) \subseteq Choices
    BY <2>1 DEF Meaning, Choices, Term
  <2>3. ~ Meaning(Current) \subseteq Meaning(u)
    BY <2>1, RelationIsRight
  <2>4. QED
    BY <1>1, <1>2, <2>2, <2>3
<1>3. CASE Current = None
  <2>1. Choices \ Meaning(u) # {}
    BY TermAssumption DEF Meaning, Choices, Term
  <2>2. QED
    BY <1>1, <1>3, <2>1
<1>4. QED
  BY <1>2, <1>3

(* The next registered assignment: what is kept goes on to be right.       *)
LEMMA KeptOneMore ==
  ASSUME Typed, NEW s \in Sources, KeptOf(s), NEW a \in Term, a.source = s, Register(a),
         Left(registered) \cap Meaning(a) # {},
         assignments'[registered + 1].term = a,
         \A k \in 1 .. registered : assignments'[k].term = assignments[k].term
  PROVE  KeptOf(s)'
<1>1. registered \in Nat /\ registered' = registered + 1
      /\ 1 .. registered' = (1 .. registered) \cup {registered + 1}
  BY DEF Typed, Register
<1>2. /\ failed' = FALSE
      /\ positive' = None \/ negative' = None
      /\ Current' # None /\ Current'.source = s
      /\ Meaning(Current') = Left(registered) \cap Meaning(a)
      /\ positive' = None <=> positive = None /\ ~ a.positive
      /\ positive' # None =>
           positive'.marker = (IF positive = None THEN {} ELSE positive.marker)
                                \cup (IF a.positive THEN a.marker ELSE {})
  BY RegisterOfOneSource
<1>3. Left(registered)' = Left(registered) \cap Meaning(a)
  BY <1>1 DEF Left, Choices, Meaning
<1>4. PositiveMarkers(registered)' =
        PositiveMarkers(registered) \cup (IF a.positive THEN a.marker ELSE {})
  <2>1. ASSUME NEW x
        PROVE  x \in PositiveMarkers(registered)' <=>
                 x \in PositiveMarkers(registered) \/ (a.positive /\ x \in a.marker)
    BY <1>1 DEF PositiveMarkers
  <2>2. QED
    BY <2>1
<1>5. CASE positive' # None
  <2>1. positive = None => PositiveMarkers(registered) = {}
    BY DEF KeptOf, PositiveMarkers
  <2>2. positive'.marker = PositiveMarkers(registered)'
    BY <1>2, <1>4, <1>5, <2>1 DEF KeptOf
  <2>3. QED
    BY <1>2, <1>3, <1>5, <2>2 DEF KeptOf, Meaning, Choices
<1>6. CASE positive' = None
  <2>1. \A k \in 1 .. registered' : ~ assignments'[k].term.positive
    BY <1>1, <1>2, <1>6 DEF KeptOf
  <2>2. QED
    BY <1>2, <1>3, <1>6, <2>1 DEF KeptOf, Meaning, Choices
<1>7. QED
  BY <1>5, <1>6

(* An assignment that leaves something, whenever those before it are about *)
(* its source, is traced: a derived one and a decision alike.              *)
LEMMA AssignIsTraced ==
  ASSUME Traced, IsRegistered, NEW t \in Term, NEW d \in BOOLEAN, level' \in Nat,
         FromOnly(t.source) => Left(registered) \cap Meaning(t) # {},
         Assign(t, d)
  PROVE  Traced'
<1>1. /\ assignments \in Seq(Assignment) /\ registered = Len(assignments) /\ Len(assignments) \in Nat
      /\ assignments' = Append(assignments, [term |-> t, level |-> level', decision |-> d])
      /\ Register(t) /\ t.source \in Sources
  BY DEF Traced, Typed, IsRegistered, Assign, Term
<1>2. /\ assignments' \in Seq(Assignment)
      /\ Len(assignments') = Len(assignments) + 1
      /\ Left(Len(assignments))' = Left(Len(assignments)) \cap Meaning(t)
  BY <1>1, LeftAppend
<1>3. /\ assignments'[registered + 1].term = t
      /\ \A k \in 1 .. registered : assignments'[k].term = assignments[k].term
      /\ 1 .. Len(assignments') = (1 .. Len(assignments)) \cup {Len(assignments) + 1}
  BY <1>1
<1>4. Typed'
  <2>1. registered' \in 0 .. Len(assignments')
    BY <1>1, <1>2 DEF Register
  <2>2. QED
    BY <1>1, <1>2, <2>1, RegisterTypes DEF Traced, Typed
<1>5. ASSUME NEW s \in Sources, FromOnly(s)' PROVE t.source = s /\ FromOnly(s)
  BY <1>1, <1>3, <1>5 DEF FromOnly
<1>6. PrefixesLeave'
  <2>1. SUFFICES ASSUME NEW s \in Sources, NEW n \in 0 .. Len(assignments'), OnlyTo(s, n)'
                 PROVE  Left(n)' # {}
    BY DEF PrefixesLeave
  <2>2. CASE n = Len(assignments')
    <3>1. FromOnly(s)'
      BY <2>1, <2>2 DEF OnlyTo, FromOnly
    <3>2. Left(Len(assignments)) \cap Meaning(t) # {}
      BY <1>1, <1>5, <3>1
    <3>3. QED
      BY <1>2, <2>2, <3>2 DEF Left, Choices, Meaning
  <2>3. CASE n # Len(assignments')
    <3>1. n \in 0 .. Len(assignments) /\ \A k \in 1 .. n : assignments'[k].term = assignments[k].term
      BY <1>1, <1>2, <1>3, <2>3
    <3>2. OnlyTo(s, n) /\ Left(n)' = Left(n)
      BY <2>1, <3>1 DEF OnlyTo, Left, Choices, Meaning
    <3>3. QED
      BY <3>1, <3>2 DEF Traced, PrefixesLeave
  <2>4. QED
    BY <2>2, <2>3
<1>7. ASSUME NEW s \in Sources, FromOnly(s)' PROVE KeptOf(s)'
  <2>1. t.source = s /\ FromOnly(s) /\ KeptOf(s)
    BY <1>5, <1>7 DEF Traced
  <2>2. QED
    BY <1>1, <1>3, <2>1, KeptOneMore DEF Traced
<1>8. QED
  BY <1>4, <1>6, <1>7 DEF Traced

LEMMA InitIsTraced == Init => Traced
<1>1. SUFFICES ASSUME Init PROVE Traced
  OBVIOUS
<1>2. Typed
  <2>1. << >> \in Seq(Assignment) /\ Len(<< >>) = 0 /\ 0 \in 0 .. 0
    OBVIOUS
  <2>2. QED
    BY <1>1, <2>1 DEF Init, Typed
<1>3. Left(0) = Choices /\ Choices # {}
  BY DEF Left, Choices
<1>4. PrefixesLeave
  BY <1>1, <1>3 DEF Init, PrefixesLeave
<1>5. QED
  BY <1>1, <1>2, <1>3, <1>4 DEF Init, Traced, KeptOf, Current

LEMMA StepIsTraced == Traced /\ [Next]_vars => Traced'
<1>1. SUFFICES ASSUME Traced, [Next]_vars PROVE Traced'
  OBVIOUS
<1>2. /\ assignments \in Seq(Assignment) /\ Len(assignments) \in Nat
      /\ registered \in 0 .. Len(assignments) /\ level \in Nat
  BY <1>1 DEF Traced, Typed
<1>3. ASSUME NEW u \in Term, Derive(u) PROVE Traced'
  <2>1. /\ InverseOf(u) \in Term /\ InverseOf(u).source = u.source
        /\ IsRegistered /\ RelationTo(u) = "overlapping"
        /\ Assign(InverseOf(u), FALSE) /\ level' \in Nat
    BY <1>2, <1>3, InverseIsRight DEF Derive, InverseOf, Term
  <2>2. FromOnly(u.source) => Left(registered) \cap Meaning(InverseOf(u)) # {}
    <3>1. u.source \in Sources
      BY DEF Term
    <3>2. QED
      BY <1>1, <2>1, <3>1, OpenTermOfOneSource DEF Traced
  <2>3. QED
    BY <1>1, <2>1, <2>2, AssignIsTraced
<1>4. ASSUME NEW v \in Versions, Decide(v) PROVE Traced'
  <2>. DEFINE t == [positive |-> TRUE, source |-> positive.source, constraint |-> {v},
                    marker |-> Environments]
  <2>1. /\ positive \in Term /\ positive # None /\ positive.positive
        /\ IsRegistered /\ v \in positive.constraint /\ Assign(t, TRUE) /\ level' \in Nat
    <3>. HIDE DEF t
    <3>1. positive # None /\ IsRegistered /\ v \in positive.constraint /\ level' = level + 1
      BY <1>4 DEF Decide
    <3>2. Assign(t, TRUE)
      BY <1>4 DEF Decide, t
    <3>3. positive \in Term /\ positive.positive
      BY <1>1, <3>1 DEF Traced, Typed
    <3>4. level' \in Nat
      BY <1>2, <3>1
    <3>5. QED
      BY <3>1, <3>2, <3>3, <3>4
  <2>2. t \in Term /\ Meaning(t) = {v} /\ t.source = positive.source /\ t.source \in Sources
    BY <2>1 DEF Term, Meaning
  <2>. HIDE DEF t
  <2>3. FromOnly(t.source) => Left(registered) \cap Meaning(t) # {}
    <3>1. SUFFICES ASSUME FromOnly(t.source) PROVE v \in Left(registered)
      BY <2>2
    <3>2. Left(registered) = Meaning(positive)
      BY <1>1, <2>1, <2>2, <3>1 DEF Traced, KeptOf, Current
    <3>3. QED
      BY <2>1, <3>2 DEF Meaning
  <2>4. QED
    BY <1>1, <2>1, <2>2, <2>3, AssignIsTraced
<1>5. CASE UNCHANGED <<assignments, positive, negative, registered, failed>> /\ level' \in Nat
  <2>1. Typed'
    BY <1>1, <1>5 DEF Traced, Typed
  <2>2. PrefixesLeave'
    BY <1>1, <1>5 DEF Traced, PrefixesLeave, OnlyTo, Left, Choices, Meaning
  <2>3. ASSUME NEW s \in Sources, FromOnly(s)' PROVE KeptOf(s)'
    <3>1. KeptOf(s)
      BY <1>1, <1>5, <2>3 DEF Traced, FromOnly
    <3>2. /\ Left(registered)' = Left(registered) /\ Current' = Current
          /\ PositiveMarkers(registered)' = PositiveMarkers(registered)
      BY <1>5 DEF Left, Choices, Meaning, Current, PositiveMarkers
    <3>3. QED
      BY <1>5, <3>1, <3>2 DEF KeptOf, Meaning, Choices
  <2>4. QED
    BY <2>1, <2>2, <2>3 DEF Traced
<1>6. CASE DecideOther
  BY <1>2, <1>5, <1>6 DEF DecideOther
<1>7. ASSUME NEW l \in 0 .. level, Backtrack(l) PROVE Traced'
  <2>1. PICK n \in 0 .. Len(assignments) :
          /\ assignments' = SubSeq(assignments, 1, n)
          /\ IF n < Len(assignments)
             THEN registered' = 0 /\ positive' = None /\ negative' = None
             ELSE UNCHANGED <<registered, positive, negative>>
    BY <1>7 DEF Backtrack, Cleared
  <2>2. level' \in Nat /\ failed' = failed /\ failed = FALSE
    BY <1>1, <1>2, <1>7 DEF Backtrack, Traced, Typed, KeptOf
  <2>3. CASE n = Len(assignments)
    <3>1. assignments' = assignments
      BY <1>2, <2>1, <2>3
    <3>2. UNCHANGED <<registered, positive, negative>>
      BY <1>2, <2>1, <2>3
    <3>3. QED
      BY <1>5, <2>2, <3>1, <3>2
  <2>4. CASE n < Len(assignments)
    <3>1. /\ assignments' \in Seq(Assignment) /\ Len(assignments') = n /\ n \in Nat
          /\ \A k \in 1 .. n : assignments'[k] = assignments[k]
      BY <1>2, <2>1
    <3>2. Typed'
      BY <2>1, <2>2, <2>4, <3>1 DEF Typed
    <3>3. ASSUME NEW s \in Sources, NEW m \in 0 .. n, OnlyTo(s, m)' PROVE Left(m)' # {}
      <4>1. m \in 0 .. Len(assignments) /\ \A k \in 1 .. m : assignments'[k] = assignments[k]
        BY <1>2, <2>4, <3>1
      <4>2. OnlyTo(s, m) /\ Left(m)' = Left(m)
        BY <3>3, <4>1 DEF OnlyTo, Left, Choices, Meaning
      <4>3. QED
        BY <1>1, <4>1, <4>2 DEF Traced, PrefixesLeave
    <3>4. Left(0)' = Choices
      BY DEF Left, Choices
    <3>5. \A s \in Sources : KeptOf(s)'
      BY <2>1, <2>2, <2>4, <3>4 DEF KeptOf, Current, Choices
    <3>6. QED
      BY <3>1, <3>2, <3>3, <3>5 DEF Traced, PrefixesLeave
  <2>5. QED
    BY <1>2, <2>3, <2>4
<1>8. CASE RegisterAgain
  <2>. DEFINE k == registered + 1
              a == assignments[k].term
  <2>1. k \in 1 .. Len(assignments) /\ registered \in Nat /\ assignments[k] \in Assignment
    BY <1>2, <1>8 DEF RegisterAgain
  <2>2. /\ a \in Term /\ Register(a) /\ assignments' = assignments /\ level' = level
        /\ registered' = k
    BY <1>8, <2>1 DEF RegisterAgain, Assignment, Register
  <2>3. Typed'
    <3>1. /\ positive' \in {t \in Term : t.positive} \cup {None}
          /\ negative' \in {t \in Term : ~ t.positive} \cup {None}
      BY <1>1, <2>2, RegisterTypes DEF Traced
    <3>2. QED
      BY <1>2, <2>1, <2>2, <3>1 DEF Typed
  <2>4. PrefixesLeave'
    BY <1>1, <2>2 DEF Traced, PrefixesLeave, OnlyTo, Left, Choices, Meaning
  <2>5. ASSUME NEW s \in Sources, FromOnly(s)' PROVE KeptOf(s)'
    <3>1. FromOnly(s) /\ KeptOf(s) /\ a.source = s
      BY <1>1, <2>1, <2>2, <2>5 DEF Traced, FromOnly
    <3>2. Left(k) # {}
      <4>1. OnlyTo(s, k) /\ k \in 0 .. Len(assignments)
        BY <1>2, <2>1, <3>1 DEF FromOnly, OnlyTo
      <4>2. QED
        BY <1>1, <4>1 DEF Traced, PrefixesLeave
    <3>3. Left(k) \subseteq Left(registered) \cap Meaning(a)
      BY <2>1 DEF Left
    <3>4. assignments'[k].term = a /\ \A j \in 1 .. registered : assignments'[j].term = assignments[j].term
      BY <2>2
    <3>5. QED
      BY <1>1, <2>2, <3>1, <3>2, <3>3, <3>4, KeptOneMore DEF Traced
  <2>6. QED
    BY <2>3, <2>4, <2>5 DEF Traced
<1>9. CASE UNCHANGED vars
  BY <1>2, <1>5, <1>9 DEF vars
<1>10. QED
  BY <1>1, <1>3, <1>4, <1>6, <1>7, <1>8, <1>9 DEF Next

(* A set of numbers that is not empty has a least element.                 *)
LEMMA Least ==
  ASSUME NEW T \in SUBSET Nat, T # {}
  PROVE  \E x \in T : \A y \in T : x <= y
<1>. DEFINE R == OpToRel(<, Nat)
<1>1. IsWellFoundedOn(R, Nat)
  BY NatLessThanWellFounded
<1>2. \A x, y \in Nat : <<y, x>> \in R <=> y < x
  BY DEF OpToRel
<1>. HIDE DEF R
<1>3. PICK x \in T : \A y \in T : ~ (<<y, x>> \in R)
  BY <1>1, WFMin
<1>4. ASSUME NEW y \in T PROVE x <= y
  <2>1. x \in Nat /\ y \in Nat /\ ~ (y < x)
    BY <1>2, <1>3
  <2>2. QED
    BY <2>1
<1>5. QED
  BY <1>4

(* The function that satisfier() computes from the first assignment on is  *)
(* there, however many assignments there are.                              *)
LEMMA AssignedTermIsDefined ==
  ASSUME assignments \in Seq(Assignment)
  PROVE  AssignedTerm = [n \in 1 .. Len(assignments) |->
           IF n = 1 THEN assignments[1].term
                    ELSE Intersect(AssignedTerm[n - 1], assignments[n].term)]
<1>. DEFINE Next_(f, n) == IF n = 1 THEN assignments[1].term
                           ELSE Intersect(f[n - 1], assignments[n].term)
            IsUpTo(f, m) == f = [n \in 1 .. m |-> Next_(f, n)]
            T == {m \in Nat : ~ \E f : IsUpTo(f, m)}
<1>1. T = {}
  <2>1. SUFFICES ASSUME T # {} PROVE FALSE
    OBVIOUS
  <2>2. PICK m \in T : \A k \in T : m <= k
    BY <2>1, Least
  <2>3. m # 0
    <3>. DEFINE e == [n \in 1 .. 0 |-> None]
    <3>1. IsUpTo(e, 0)
      OBVIOUS
    <3>2. QED
      BY <3>1
  <2>4. m - 1 \in Nat /\ m - 1 \notin T /\ m \in Nat
    <3>. HIDE DEF IsUpTo
    <3>1. m \in Nat /\ m - 1 \in Nat /\ ~ (m <= m - 1)
      BY <2>3
    <3>. HIDE DEF T
    <3>2. QED
      BY <2>2, <3>1
  <2>5. PICK f : IsUpTo(f, m - 1)
    BY <2>4
  <2>. DEFINE g == [n \in 1 .. m |-> Next_(f, n)]
  <2>6. \A n \in 1 .. m - 1 : f[n] = Next_(f, n)
    <3>. HIDE DEF Next_
    <3>1. QED
      BY <2>5
  <2>7. ASSUME NEW n \in 1 .. m PROVE Next_(g, n) = Next_(f, n)
    <3>1. CASE n = 1
      BY <3>1
    <3>2. CASE n # 1
      <4>1. n - 1 \in 1 .. m - 1 /\ n - 1 \in 1 .. m
        BY <2>4, <3>2
      <4>2. g[n - 1] = f[n - 1]
        <5>. HIDE DEF Next_
        <5>1. g[n - 1] = Next_(f, n - 1)
          BY <4>1
        <5>2. QED
          BY <2>6, <4>1, <5>1
      <4>3. QED
        BY <4>2
    <3>3. QED
      BY <3>1, <3>2
  <2>8. IsUpTo(g, m)
    <3>. HIDE DEF Next_
    <3>1. [n \in 1 .. m |-> Next_(g, n)] = [n \in 1 .. m |-> Next_(f, n)]
      BY <2>7
    <3>2. QED
      BY <3>1
  <2>9. QED
    BY <2>2, <2>8
<1>2. Len(assignments) \in Nat
  OBVIOUS
<1>3. \E f : IsUpTo(f, Len(assignments))
  BY <1>1, <1>2
<1>4. AssignedTerm = CHOOSE f : IsUpTo(f, Len(assignments))
  BY DEF AssignedTerm
<1>5. IsUpTo(AssignedTerm, Len(assignments))
  <2>. HIDE DEF IsUpTo
  <2>1. QED
    BY <1>3, <1>4
<1>6. QED
  BY <1>5

(* What satisfier() has after the n-th assignment means what the first n   *)
(* assignments mean together, if they are about one source.                *)
LEMMA AssignedTermIsRight ==
  ASSUME Traced, NEW s \in Sources, FromOnly(s), NEW n \in 1 .. Len(assignments)
  PROVE  AssignedTerm[n] \in Term /\ AssignedTerm[n].source = s /\ Meaning(AssignedTerm[n]) = Left(n)
<1>. DEFINE f == AssignedTerm
            IsRight(k) == f[k] \in Term /\ f[k].source = s /\ Meaning(f[k]) = Left(k)
            T == {k \in 1 .. Len(assignments) : ~ IsRight(k)}
<1>1. assignments \in Seq(Assignment) /\ Len(assignments) \in Nat
  BY DEF Traced, Typed
<1>2. \A k \in 1 .. Len(assignments) :
        f[k] = IF k = 1 THEN assignments[1].term ELSE Intersect(f[k - 1], assignments[k].term)
  <2>1. AssignedTerm = [k \in 1 .. Len(assignments) |->
           IF k = 1 THEN assignments[1].term
                    ELSE Intersect(AssignedTerm[k - 1], assignments[k].term)]
    BY <1>1, AssignedTermIsDefined
  <2>. HIDE DEF f
  <2>2. f = [k \in 1 .. Len(assignments) |->
           IF k = 1 THEN assignments[1].term ELSE Intersect(f[k - 1], assignments[k].term)]
    BY <2>1 DEF f
  <2>3. QED
    BY <2>2
<1>3. \A k \in 1 .. Len(assignments) :
        /\ assignments[k].term \in Term /\ assignments[k].term.source = s
        /\ Meaning(assignments[k].term) \subseteq Choices
        /\ Left(k) # {}
  <2>1. ASSUME NEW k \in 1 .. Len(assignments)
        PROVE  assignments[k].term \in Term /\ assignments[k].term.source = s /\ Left(k) # {}
    <3>1. assignments[k] \in Assignment
      BY <1>1
    <3>2. k \in 0 .. Len(assignments) /\ OnlyTo(s, k)
      BY <1>1 DEF FromOnly, OnlyTo
    <3>3. QED
      BY <3>1, <3>2 DEF FromOnly, Assignment, Traced, PrefixesLeave
  <2>2. \A t \in Term : Meaning(t) \subseteq Choices
    BY DEF Meaning, Choices, Term
  <2>3. QED
    BY <2>1, <2>2
<1>. HIDE DEF f
<1>4. T = {}
  <2>1. SUFFICES ASSUME T # {} PROVE FALSE
    OBVIOUS
  <2>2. PICK k \in T : \A j \in T : k <= j
    <3>1. T \in SUBSET Nat
      BY <1>1
    <3>2. QED
      BY <2>1, <3>1, Least
  <2>3. k \in 1 .. Len(assignments) /\ ~ IsRight(k)
    OBVIOUS
  <2>4. CASE k = 1
    <3>1. Left(1) = Meaning(assignments[1].term)
      BY <1>3, <2>3, <2>4 DEF Left
    <3>2. QED
      BY <1>2, <1>3, <2>3, <2>4, <3>1
  <2>5. CASE k # 1
    <3>1. k - 1 \in 1 .. Len(assignments) /\ ~ (k <= k - 1)
          /\ 1 .. k = (1 .. k - 1) \cup {k}
      BY <1>1, <2>3, <2>5
    <3>2. IsRight(k - 1)
      BY <2>2, <3>1
    <3>. DEFINE t == f[k - 1]
                a == assignments[k].term
    <3>3. /\ t \in Term /\ t.source = s /\ Meaning(t) = Left(k - 1)
          /\ a \in Term /\ a.source = s /\ f[k] = Intersect(t, a)
      BY <1>2, <1>3, <2>3, <2>5, <3>2
    <3>4. Left(k) = Left(k - 1) \cap Meaning(a) /\ Left(k) # {}
      BY <1>3, <2>3, <3>1 DEF Left
    <3>. HIDE DEF t, a
    <3>5. Compatible(t, a)
      BY <3>3 DEF Compatible
    <3>6. Intersect(t, a) # None /\ Intersect(t, a) \in Term
          /\ Meaning(Intersect(t, a)) = Meaning(t) \cap Meaning(a)
      BY <3>3, <3>4, <3>5, IntersectIsRight
    <3>7. Intersect(t, a).source = s
      BY <3>3, <3>6, IntersectOfOneSource
    <3>8. QED
      BY <2>3, <3>3, <3>4, <3>6, <3>7
  <2>6. QED
    BY <2>4, <2>5
<1>5. QED
  BY <1>4 DEF f

LEMMA SatisfiersAreFirst == Traced => SatisfierIsFirst
<1>. DEFINE left == [n \in 0 .. Len(assignments) |-> Left(n)]
            first(u) == {n \in 1 .. Len(assignments) :
                           left[n] \subseteq Meaning(u) /\ ~ left[n - 1] \subseteq Meaning(u)}
<1>1. SUFFICES ASSUME Traced, NEW u \in Term, FromOnly(u.source)
               PROVE  SatisfierOf(u, AssignedTerm) = first(u)
  BY DEF SatisfierIsFirst
<1>2. Len(assignments) \in Nat /\ assignments \in Seq(Assignment) /\ u.source \in Sources
  BY <1>1 DEF Traced, Typed, Term
<1>3. DOMAIN AssignedTerm = 1 .. Len(assignments)
  BY <1>2, AssignedTermIsDefined
<1>4. ASSUME NEW n \in 1 .. Len(assignments)
      PROVE  Satisfies(AssignedTerm[n], u) <=> Left(n) \subseteq Meaning(u)
  <2>1. AssignedTerm[n] \in Term /\ AssignedTerm[n].source = u.source
        /\ Meaning(AssignedTerm[n]) = Left(n)
    BY <1>1, <1>2, AssignedTermIsRight
  <2>2. QED
    BY <2>1, RelationIsRight DEF Satisfies, Compatible
<1>5. ~ Left(0) \subseteq Meaning(u)
  <2>1. Left(0) = Choices
    BY DEF Left
  <2>2. Choices \ Meaning(u) # {}
    BY TermAssumption DEF Meaning, Choices, Term
  <2>3. QED
    BY <2>1, <2>2
<1>6. \A m, n \in Nat : m <= n => Left(n) \subseteq Left(m)
  BY DEF Left
<1>7. \A n \in 0 .. Len(assignments) : left[n] = Left(n)
  OBVIOUS
<1>. HIDE DEF left
<1>8. ASSUME NEW n \in 1 .. Len(assignments)
      PROVE  n \in SatisfierOf(u, AssignedTerm) <=> n \in first(u)
  <2>1. n \in SatisfierOf(u, AssignedTerm) <=>
          /\ Left(n) \subseteq Meaning(u)
          /\ \A m \in 1 .. n - 1 : ~ Left(m) \subseteq Meaning(u)
    <3>1. 1 .. n - 1 \subseteq 1 .. Len(assignments)
      BY <1>2
    <3>2. QED
      BY <1>3, <1>4, <3>1 DEF SatisfierOf
  <2>2. n \in first(u) <=> Left(n) \subseteq Meaning(u) /\ ~ Left(n - 1) \subseteq Meaning(u)
    BY <1>2, <1>7
  <2>3. (\A m \in 1 .. n - 1 : ~ Left(m) \subseteq Meaning(u)) <=> ~ Left(n - 1) \subseteq Meaning(u)
    <3>1. CASE n = 1
      BY <1>5, <3>1
    <3>2. CASE n # 1
      <4>1. n - 1 \in 1 .. n - 1 /\ \A m \in 1 .. n - 1 : Left(n - 1) \subseteq Left(m)
        BY <1>2, <1>6, <3>2
      <4>2. QED
        BY <4>1
    <3>3. QED
      BY <3>1, <3>2
  <2>4. QED
    BY <2>1, <2>2, <2>3
<1>9. SatisfierOf(u, AssignedTerm) \subseteq 1 .. Len(assignments) /\ first(u) \subseteq 1 .. Len(assignments)
  BY <1>3 DEF SatisfierOf
<1>10. QED
  BY <1>8, <1>9

(* For any versions, sources and environments, also where two sources       *)
(* exclude each other: what is said of one source of a package is blamed   *)
(* on the assignment that first made it true, and the package is required  *)
(* for every environment that an assignment requires it for.               *)
THEOREM AssignmentsTraced == Spec => []AssignmentsAreTraced
<1>1. Traced => AssignmentsAreTraced
  <2>1. SUFFICES ASSUME Traced PROVE MarkersAreMerged
    BY SatisfiersAreFirst DEF AssignmentsAreTraced
  <2>2. ASSUME positive # None, FromOnly(positive.source)
        PROVE  positive.marker = PositiveMarkers(registered)
    <3>1. positive.source \in Sources
      BY <2>1, <2>2 DEF Traced, Typed, Term
    <3>2. QED
      BY <2>1, <2>2, <3>1 DEF Traced, KeptOf
  <2>3. QED
    BY <2>2 DEF MarkersAreMerged, PositiveMarkers
<1>2. QED
  BY <1>1, InitIsTraced, StepIsTraced, PTL DEF Spec
-----------------------------------------------------------------------------
(* The cache in front of the provider: DependencyCache.                    *)

(* Two names of the package disagree about prereleases nowhere.            *)
PrereleasesAgree ==
  \A s \in Settings : s.oneName \/ \A d, e \in s.dependencies : d.pre = e.pre

WantedAt(k) == {n \in Names : terms[k][n] # None}
CommonAt(k) == {v \in Releases : \A n \in WantedAt(k) : v \in terms[k][n].allowed}

(* What is wanted at a level: under one name, or with one attitude.        *)
WantedAgree ==
  \A k \in 0 .. decisions : \A n, m \in WantedAt(k) :
    /\ terms[k][n] \in setting.dependencies
    /\ terms[k][n].pre = terms[k][m].pre
    /\ setting.oneName => n = m

(* From one level to the next, terms are kept or become narrower.          *)
TermsNarrow ==
  \A j \in 0 .. decisions : \A k \in 0 .. j : \A n \in WantedAt(k) :
    /\ n \in WantedAt(j)
    /\ terms[j][n].allowed \subseteq terms[k][n].allowed
    /\ terms[j][n].pre = terms[k][n].pre

(* An entry may answer for the terms of level k: it has whatever all of     *)
(* them allow, but for prereleases, of which it then has none.             *)
IsComplete(e, k) == e.pre # "no" /\ CommonAt(k) \subseteq e.packages
IsStable(e, k) ==
  /\ e.pre # "yes" /\ e.packages \cap Prereleases = {}
  /\ CommonAt(k) \ Prereleases \subseteq e.packages
IsValid(e, k) ==
  /\ e.packages \subseteq e.for
  /\ e.packages = {} => e.pre = "no" /\ e.for \subseteq Prereleases
  /\ WantedAt(k) # {} /\ \A n \in WantedAt(k) : e.pre = terms[k][n].pre
  /\ IsComplete(e, k) \/ IsStable(e, k)

(* What was added at a level, or below it, is valid there; a search is       *)
(* remembered as long as a list is there that came with it.                *)
StackIsValid == \A k \in 0 .. decisions : \A i \in 1 .. D!Kept(k) : IsValid(stack[i], k)
MemoIsValid == \A m \in memo : \E j \in 0 .. decisions : added[j] > 0 /\ IsValid(m, j)

NoneAbove == \A l \in D!Levels : l > decisions => added[l] = 0

DependencyCacheInv ==
  /\ D!TypeOK /\ Len(stack) <= MaxEntries /\ \A l \in D!Levels : added[l] <= MaxEntries
  /\ NoneAbove /\ WantedAgree /\ TermsNarrow /\ StackIsValid /\ MemoIsValid
-----------------------------------------------------------------------------
(* The sum of additions: _cached_dependencies_by_level.                    *)
Pairs(f, k) == {e \in (0 .. k) \X (1 .. MaxEntries) : e[2] <= f[e[1]]}
(* g is what is left of f when the levels above k are cleared.             *)
IsCut(f, g, k) == \A l \in D!Levels : f[l] \in Nat /\ g[l] = IF l <= k THEN f[l] ELSE 0
AddedType == added \in [D!Levels -> 0 .. MaxEntries]

LEMMA PairsAreFinite ==
  ASSUME NEW f, NEW k \in Nat
  PROVE  IsFiniteSet(Pairs(f, k)) /\ Cardinality(Pairs(f, k)) \in Nat
<1>1. MaxEntries \in Nat
  BY OneDependencyCache DEF D!DependencyCacheAssumption
<1>2. IsFiniteSet(0 .. k) /\ IsFiniteSet(1 .. MaxEntries)
  BY <1>1, FS_Interval
<1>3. IsFiniteSet((0 .. k) \X (1 .. MaxEntries))
  BY <1>2, FS_Product
<1>4. Pairs(f, k) \in SUBSET ((0 .. k) \X (1 .. MaxEntries))
  BY DEF Pairs
<1>5. IsFiniteSet(Pairs(f, k))
  BY <1>3, <1>4, FS_Subset
<1> QED
  BY <1>5, FS_CardinalityType

(* Higher levels keep more.                                                *)
LEMMA PairsGrow ==
  ASSUME NEW f, NEW j \in Nat, NEW k \in Nat, j <= k
  PROVE  Cardinality(Pairs(f, j)) <= Cardinality(Pairs(f, k))
<1>1. Pairs(f, j) \in SUBSET Pairs(f, k)
  BY DEF Pairs
<1> QED
  BY <1>1, PairsAreFinite, FS_Subset

(* A level has added no more than all of them.                             *)
LEMMA PairsOfOne ==
  ASSUME NEW f \in [D!Levels -> 0 .. MaxEntries], NEW l \in D!Levels, NEW k \in D!Levels, l <= k
  PROVE  f[l] <= Cardinality(Pairs(f, k))
<1>1. MaxEntries \in Nat /\ MaxLevel \in Nat
  BY OneDependencyCache DEF D!DependencyCacheAssumption
<1>2. f[l] \in 0 .. MaxEntries /\ l \in Nat /\ k \in Nat
  BY <1>1 DEF D!Levels
<1>. DEFINE g == [i \in 1 .. f[l] |-> <<l, i>>]
<1>3. ASSUME NEW i \in 1 .. f[l]
      PROVE  <<l, i>> \in Pairs(f, k)
  BY <1>1, <1>2, <1>3 DEF Pairs
<1>4. g \in [1 .. f[l] -> Pairs(f, k)]
  BY <1>3
<1>5. \A i, j \in 1 .. f[l] : g[i] = g[j] => i = j
  OBVIOUS
<1>6. g \in Injection(1 .. f[l], Pairs(f, k))
  BY <1>4, <1>5 DEF Injection, IsInjective
<1>7. Cardinality(1 .. f[l]) <= Cardinality(Pairs(f, k))
  <2>1. IsFiniteSet(Pairs(f, k))
    BY <1>2, PairsAreFinite
  <2> HIDE DEF g
  <2> QED
    BY <1>6, <2>1, FS_Injection
<1>8. Cardinality(1 .. f[l]) = f[l]
  BY <1>1, <1>2, FS_Interval
<1> QED
  BY <1>7, <1>8

(* One more at a level.                                                    *)
LEMMA PairsAddOne ==
  ASSUME NEW f \in [D!Levels -> 0 .. MaxEntries], NEW l \in D!Levels, f[l] < MaxEntries,
         NEW k \in D!Levels
  PROVE  LET g == [f EXCEPT ![l] = @ + 1]
         IN  /\ l <= k => Cardinality(Pairs(g, k)) = Cardinality(Pairs(f, k)) + 1
             /\ k < l => Cardinality(Pairs(g, k)) = Cardinality(Pairs(f, k))
<1>. DEFINE g == [f EXCEPT ![l] = @ + 1]
<1>1. MaxEntries \in Nat /\ MaxLevel \in Nat
  BY OneDependencyCache DEF D!DependencyCacheAssumption
<1>2. f[l] \in 0 .. MaxEntries /\ l \in Nat /\ k \in Nat /\ k <= MaxLevel
  BY <1>1 DEF D!Levels
<1>3. \A j \in 0 .. k : j \in D!Levels /\ f[j] \in 0 .. MaxEntries
  BY <1>1, <1>2 DEF D!Levels
<1>4. CASE l <= k
  <2>1. Pairs(g, k) = Pairs(f, k) \cup {<<l, f[l] + 1>>}
    <3>1. ASSUME NEW e \in (0 .. k) \X (1 .. MaxEntries)
          PROVE  e[2] <= g[e[1]] <=> e[2] <= f[e[1]] \/ e = <<l, f[l] + 1>>
      <4>1. PICK x \in 0 .. k, y \in 1 .. MaxEntries : e = <<x, y>>
        OBVIOUS
      <4>2. e[1] = x /\ e[2] = y /\ x \in D!Levels /\ f[x] \in 0 .. MaxEntries
        BY <4>1, <1>3
      <4>3. g[x] = IF x = l THEN f[l] + 1 ELSE f[x]
        BY <4>2
      <4>4. (e = <<l, f[l] + 1>>) <=> (x = l /\ y = f[l] + 1)
        BY <4>1
      <4>5. x \in Nat /\ y \in Nat /\ f[l] \in Nat /\ f[x] \in Nat
        BY <1>1, <1>2, <4>2
      <4> HIDE DEF g
      <4>6. y <= g[x] <=> y <= f[x] \/ (x = l /\ y = f[l] + 1)
        <5>1. CASE x = l
          BY <4>3, <4>5, <5>1
        <5>2. CASE x # l
          BY <4>3, <4>5, <5>2
        <5> QED
          BY <5>1, <5>2
      <4> QED
        BY <4>2, <4>4, <4>6
    <3>2. <<l, f[l] + 1>> \in (0 .. k) \X (1 .. MaxEntries)
      BY <1>1, <1>2, <1>4
    <3> HIDE DEF g
    <3> QED
      BY <3>1, <3>2 DEF Pairs
  <2>2. <<l, f[l] + 1>> \notin Pairs(f, k)
    BY <1>2 DEF Pairs
  <2>3. IsFiniteSet(Pairs(f, k))
    BY <1>2, PairsAreFinite
  <2>4. Cardinality(Pairs(f, k) \cup {<<l, f[l] + 1>>}) = Cardinality(Pairs(f, k)) + 1
    BY <2>2, <2>3, FS_AddElement
  <2> HIDE DEF g
  <2>5. Cardinality(Pairs(g, k)) = Cardinality(Pairs(f, k)) + 1
    BY <2>1, <2>4
  <2>6. ~ (k < l)
    BY <1>2, <1>4
  <2> QED
    BY <2>5, <2>6 DEF g
<1>5. CASE k < l
  <2>1. \A j \in 0 .. k : g[j] = f[j]
    BY <1>2, <1>3, <1>5
  <2> HIDE DEF g
  <2>2. Pairs(g, k) = Pairs(f, k)
    BY <2>1 DEF Pairs
  <2>3. ~ (l <= k)
    BY <1>2, <1>5
  <2> QED
    BY <2>2, <2>3 DEF g
<1> QED
  BY <1>2, <1>4, <1>5

(* What is left when the levels above k are cleared.                       *)
LEMMA PairsCut ==
  ASSUME NEW f, NEW g, NEW k \in D!Levels, NEW j \in D!Levels, IsCut(f, g, k)
  PROVE  /\ j <= k => Pairs(g, j) = Pairs(f, j)
         /\ k <= j => Pairs(g, j) = Pairs(f, k)
<1>1. MaxEntries \in Nat /\ MaxLevel \in Nat
  BY OneDependencyCache DEF D!DependencyCacheAssumption
<1>2. j \in Nat /\ k \in Nat /\ j <= MaxLevel /\ k <= MaxLevel
  BY <1>1 DEF D!Levels
<1>3. /\ \A i \in Nat : i <= MaxLevel => g[i] = IF i <= k THEN f[i] ELSE 0
      /\ \A i \in 0 .. MaxLevel : f[i] \in Nat
  BY <1>1 DEF D!Levels, IsCut
<1>4. ASSUME j <= k
      PROVE  Pairs(g, j) = Pairs(f, j)
  <2>1. \A i \in 0 .. j : g[i] = f[i]
    BY <1>1, <1>2, <1>3, <1>4
  <2> QED
    BY <2>1 DEF Pairs
<1>5. ASSUME k <= j
      PROVE  Pairs(g, j) = Pairs(f, k)
  <2>1. ASSUME NEW e \in (0 .. j) \X (1 .. MaxEntries)
        PROVE  e[2] <= g[e[1]] <=> e[1] <= k /\ e[2] <= f[e[1]]
    <3>1. e[1] \in Nat /\ e[1] <= MaxLevel /\ e[2] \in Nat /\ e[2] >= 1
      BY <1>1, <1>2
    <3>2. g[e[1]] = IF e[1] <= k THEN f[e[1]] ELSE 0
      BY <3>1, <1>3
    <3> QED
      BY <3>1, <3>2, <1>2
  <2>2. Pairs(g, j) \subseteq Pairs(f, k)
    BY <2>1, <1>2 DEF Pairs
  <2>3. Pairs(f, k) \subseteq Pairs(g, j)
    <3>1. (0 .. k) \X (1 .. MaxEntries) \subseteq (0 .. j) \X (1 .. MaxEntries)
      BY <1>2, <1>5
    <3>2. \A e \in (0 .. k) \X (1 .. MaxEntries) : e[1] <= k
      BY <1>2
    <3> QED
      BY <2>1, <3>1, <3>2 DEF Pairs
  <2> QED
    BY <2>2, <2>3
<1> QED
  BY <1>4, <1>5
-----------------------------------------------------------------------------
(* The operators of the library that DependencyCache uses are the library's.*)
LEMMA SameOperators ==
  ASSUME NEW s, NEW t, NEW u
  PROVE  /\ D!Len(s) = Len(s) /\ D!Append(s, t) = Append(s, t) /\ D!SubSeq(s, t, u) = SubSeq(s, t, u)
         /\ D!Last(s) = s[Len(s)] /\ D!Seq(s) = Seq(s) /\ D!Cardinality(s) = Cardinality(s)
BY DEF D!Last, D!Cardinality, Cardinality

LEMMA KeptIsSum == ASSUME NEW k PROVE D!Kept(k) = Cardinality(Pairs(added, k))
BY SameOperators DEF D!Kept, D!Additions, Pairs

(* What the lemmas below assume of a state.                                *)
LEMMA StateFacts ==
  ASSUME DependencyCacheInv
  PROVE  /\ MaxLevel \in Nat /\ MaxEntries \in Nat /\ None \notin D!Dependencies
         /\ Releases \subseteq Nat /\ Prereleases \subseteq Releases
         /\ decisions \in D!Levels /\ decisions \in Nat /\ decisions <= MaxLevel
         /\ D!Levels = 0 .. MaxLevel /\ 0 .. decisions \subseteq D!Levels
         /\ terms \in [D!Levels -> [Names -> D!Dependencies \cup {None}]]
         /\ setting \in Settings /\ setting.dependencies \subseteq D!Dependencies
         /\ stack \in Seq(D!Lists) /\ Len(stack) \in Nat /\ Len(stack) <= MaxEntries
         /\ memo \subseteq D!Lists
         /\ added \in [D!Levels -> 0 .. MaxEntries]
         /\ \A k \in D!Levels : D!Kept(k) \in Nat /\ D!Kept(k) <= Len(stack)
         /\ D!Kept(decisions) = Len(stack) /\ D!Kept(MaxLevel) = Len(stack)
<1>1. /\ MaxLevel \in Nat /\ MaxEntries \in Nat /\ None \notin D!Dependencies
      /\ Releases \subseteq Nat /\ Prereleases \subseteq Releases
      /\ \A s \in Settings : s.dependencies \subseteq D!Dependencies
  BY OneDependencyCache DEF D!DependencyCacheAssumption
<1>2. /\ decisions \in D!Levels /\ setting \in Settings /\ memo \subseteq D!Lists
      /\ terms \in [D!Levels -> [Names -> D!Dependencies \cup {None}]]
      /\ stack \in Seq(D!Lists) /\ Len(stack) <= MaxEntries /\ D!Kept(MaxLevel) = Len(stack)
      /\ added \in [D!Levels -> Nat] /\ \A l \in D!Levels : added[l] <= MaxEntries
  BY SameOperators DEF DependencyCacheInv, D!TypeOK
<1>3. D!Levels = 0 .. MaxLevel /\ added \in [D!Levels -> 0 .. MaxEntries]
  BY <1>1, <1>2 DEF D!Levels
<1>4. ASSUME NEW k \in D!Levels
      PROVE  D!Kept(k) \in Nat /\ D!Kept(k) <= Len(stack)
  <2>1. k \in Nat /\ k <= MaxLevel
    BY <1>1, <1>3, <1>4
  <2>2. Cardinality(Pairs(added, k)) \in Nat
    BY <2>1, PairsAreFinite
  <2>3. Cardinality(Pairs(added, k)) <= Cardinality(Pairs(added, MaxLevel))
    BY <1>1, <2>1, PairsGrow
  <2> QED
    BY <1>2, <2>2, <2>3, KeptIsSum
<1>5. D!Kept(decisions) = Len(stack)
  <2>1. \A l \in D!Levels : l > decisions => added[l] = 0
    BY DEF DependencyCacheInv, NoneAbove
  <2>2. IsCut(added, added, decisions)
    BY <1>1, <1>2, <1>3, <2>1 DEF IsCut
  <2>3. MaxLevel \in D!Levels /\ decisions <= MaxLevel
    BY <1>1, <1>2, <1>3
  <2>4. Pairs(added, MaxLevel) = Pairs(added, decisions)
    BY <1>2, <2>2, <2>3, PairsCut
  <2> QED
    BY <1>2, <2>4, KeptIsSum
<1> QED
  BY <1>1, <1>2, <1>3, <1>4, <1>5, SMT

(* What is valid at a level is so at those above it.                       *)
LEMMA ValidAbove ==
  ASSUME DependencyCacheInv, NEW e, NEW j \in 0 .. decisions, NEW k \in 0 .. j, IsValid(e, k)
  PROVE  IsValid(e, j)
<1>1. WantedAgree /\ TermsNarrow /\ 0 .. decisions \subseteq D!Levels /\ k \in 0 .. decisions
  BY StateFacts DEF DependencyCacheInv
<1>2. \A n \in WantedAt(k) :
        /\ n \in WantedAt(j) /\ terms[j][n].allowed \subseteq terms[k][n].allowed
        /\ terms[j][n].pre = terms[k][n].pre
  BY <1>1 DEF TermsNarrow
<1>3. WantedAt(j) # {} /\ \A n \in WantedAt(j) : e.pre = terms[j][n].pre
  <2>1. PICK m \in WantedAt(k) : e.pre = terms[k][m].pre
    BY DEF IsValid
  <2>2. m \in WantedAt(j) /\ e.pre = terms[j][m].pre
    BY <1>2, <2>1
  <2>3. \A n \in WantedAt(j) : terms[j][n].pre = terms[j][m].pre
    BY <1>1, <2>2 DEF WantedAgree
  <2> QED
    BY <2>2, <2>3
<1>4. CommonAt(j) \subseteq CommonAt(k)
  BY <1>2 DEF CommonAt
<1> QED
  BY <1>3, <1>4 DEF IsValid, IsComplete, IsStable

(* The answer to a term is valid at the level of the term, and for it.      *)
LEMMA AnswerIsValid ==
  ASSUME DependencyCacheInv, NEW n \in Names, n \in D!Wanted
  PROVE  LET d == terms[decisions][n] IN
         /\ d \in D!Dependencies /\ D!Answer(d) \in D!Lists
         /\ D!Answer(d).for = d.allowed /\ IsValid(D!Answer(d), decisions)
<1>. DEFINE d == terms[decisions][n]
            top == stack[Len(stack)]
            filtered == IF stack = << >> THEN {} ELSE top.packages \cap d.allowed
            fresh == [packages |-> D!Offer(d), pre |-> d.pre, for |-> d.allowed]
            kept == [packages |-> filtered, pre |-> top.pre, for |-> d.allowed]
<1>1. /\ n \in WantedAt(decisions) /\ decisions \in 0 .. decisions
      /\ d \in D!Dependencies
      /\ 0 .. decisions \subseteq D!Levels /\ decisions \in Nat
  <2>1. d # None /\ d \in D!Dependencies \cup {None}
    BY StateFacts DEF D!Wanted
  <2> QED
    BY <2>1, StateFacts DEF WantedAt
<1>2. d.allowed \subseteq Releases /\ d.allowed # {} /\ d.pre \in {"yes", "no", "unset"}
  BY <1>1 DEF D!Dependencies
<1>3. CommonAt(decisions) \subseteq d.allowed
  BY <1>1 DEF CommonAt
<1>4. \A m \in WantedAt(decisions) : terms[decisions][m].pre = d.pre
  BY <1>1 DEF DependencyCacheInv, WantedAgree
<1>5. D!SearchFor(d) = IF filtered # {} THEN kept ELSE fresh
  <2>1. D!Last(stack) = top
    BY SameOperators
  <2> HIDE DEF top, d
  <2> QED
    BY <2>1 DEF D!SearchFor
<1>6. CASE D!Known(d) # {}
  <2>1. D!Answer(d) \in memo /\ D!Answer(d).for = d.allowed
    BY <1>6 DEF D!Answer, D!Known
  <2>2. PICK j \in 0 .. decisions : IsValid(D!Answer(d), j)
    BY <2>1 DEF DependencyCacheInv, MemoIsValid
  <2>3. IsValid(D!Answer(d), decisions)
    BY <1>1, <2>2, ValidAbove
  <2> QED
    BY <1>1, <2>1, <2>3, StateFacts
<1>7. CASE D!Known(d) = {} /\ filtered # {}
  <2>1. D!Answer(d) = kept
    BY <1>5, <1>7 DEF D!Answer
  <2>2. stack # << >> /\ Len(stack) \in 1 .. D!Kept(decisions) /\ top \in D!Lists
    BY <1>7, StateFacts
  <2>3. IsValid(top, decisions)
    BY <1>1, <2>2 DEF DependencyCacheInv, StackIsValid
  <2>4. filtered = top.packages \cap d.allowed
    BY <2>2
  <2> HIDE DEF top, filtered
  <2>5. kept \in D!Lists
    BY <1>2, <2>2, <2>4 DEF D!Lists
  <2>6. /\ kept.packages = filtered /\ kept.pre = top.pre /\ kept.for = d.allowed
    OBVIOUS
  <2>7. IsValid(kept, decisions)
    <3> HIDE DEF kept, d
    <3>1. top.pre = d.pre
      BY <1>1, <2>3 DEF IsValid, d
    <3>2. IsComplete(kept, decisions) \/ IsStable(kept, decisions)
      BY <1>3, <2>3, <2>4, <2>6 DEF IsValid, IsComplete, IsStable
    <3>3. WantedAt(decisions) # {} /\ \A m \in WantedAt(decisions) : kept.pre = terms[decisions][m].pre
      BY <2>3, <2>6 DEF IsValid
    <3> QED
      BY <1>7, <2>4, <2>6, <3>2, <3>3 DEF IsValid
  <2> QED
    BY <1>1, <2>1, <2>5, <2>6, <2>7
<1>8. CASE D!Known(d) = {} /\ filtered = {}
  <2>1. D!Answer(d) = fresh
    BY <1>5, <1>8 DEF D!Answer
  <2>2. D!Offer(d) = IF d.pre = "yes" \/ (d.pre = "unset" /\ d.allowed \ Prereleases = {})
                     THEN d.allowed ELSE d.allowed \ Prereleases
    BY DEF D!Offer
  <2>3. D!Offer(d) \subseteq d.allowed
    BY <2>2
  <2>4. fresh \in D!Lists
    BY <1>2, <2>3 DEF D!Lists
  <2>5. fresh.packages = D!Offer(d) /\ fresh.pre = d.pre /\ fresh.for = d.allowed
    OBVIOUS
  <2>6. IsValid(fresh, decisions)
    <3> HIDE DEF fresh, d
    <3>1. IsComplete(fresh, decisions) \/ IsStable(fresh, decisions)
      <4>1. CASE d.pre = "yes" \/ (d.pre = "unset" /\ d.allowed \ Prereleases = {})
        BY <1>3, <2>2, <2>5, <4>1 DEF IsComplete
      <4>2. CASE ~ (d.pre = "yes" \/ (d.pre = "unset" /\ d.allowed \ Prereleases = {}))
        BY <1>3, <2>2, <2>5, <4>2 DEF IsStable
      <4> QED
        BY <4>1, <4>2
    <3>2. fresh.packages = {} => fresh.pre = "no" /\ fresh.for \subseteq Prereleases
      BY <1>2, <2>2, <2>5
    <3>3. WantedAt(decisions) # {} /\ \A m \in WantedAt(decisions) : fresh.pre = terms[decisions][m].pre
      BY <1>1, <1>4, <2>5 DEF d
    <3> QED
      BY <2>3, <2>5, <3>1, <3>2, <3>3 DEF IsValid
  <2> QED
    BY <1>1, <2>1, <2>4, <2>5, <2>6
<1> QED
  BY <1>6, <1>7, <1>8

(* A search adds what is valid here.                                       *)
LEMMA SearchKeeps ==
  ASSUME DependencyCacheInv, NEW n \in Names, D!Search(n)
  PROVE  DependencyCacheInv'
<1>. DEFINE d == terms[decisions][n]
            m == D!Answer(d)
<1>1. /\ n \in D!Wanted /\ memo' = memo \cup {m}
      /\ setting' = setting /\ decisions' = decisions /\ terms' = terms
  BY DEF D!Search
<1>2. m \in D!Lists /\ IsValid(m, decisions)
  BY <1>1, AnswerIsValid
<1>3. WantedAgree' /\ TermsNarrow' /\ \A e, k : IsValid(e, k)' <=> IsValid(e, k)
  BY <1>1 DEF DependencyCacheInv, WantedAgree, TermsNarrow, WantedAt, IsValid, IsComplete, IsStable, CommonAt
<1>4. /\ MaxLevel \in Nat /\ MaxEntries \in Nat /\ decisions \in D!Levels /\ decisions \in Nat
      /\ D!Levels = 0 .. MaxLevel
      /\ stack \in Seq(D!Lists) /\ Len(stack) \in Nat /\ added \in [D!Levels -> 0 .. MaxEntries]
  BY StateFacts
<1> HIDE DEF m
<1>5. CASE D!IsTop(d)
  <2>1. stack' = stack /\ added' = added
    BY <1>5 DEF D!Search
  <2>2. D!Known(d) # {} /\ m \in memo
    BY <1>5 DEF D!IsTop, m, D!Answer, D!Known
  <2>3. memo' = memo
    BY <1>1, <2>2
  <2>4. D!TypeOK'
    BY <1>1, <2>1, <2>3 DEF DependencyCacheInv, D!TypeOK, D!Kept, D!Additions, D!Levels
  <2>5. MemoIsValid'
    BY <1>1, <1>3, <2>1, <2>3 DEF DependencyCacheInv, MemoIsValid
  <2>6. StackIsValid'
    BY <1>1, <1>3, <2>1 DEF DependencyCacheInv, StackIsValid, D!Kept, D!Additions
  <2>7. NoneAbove'
    BY <1>1, <2>1 DEF DependencyCacheInv, NoneAbove, D!Levels
  <2> QED
    BY <1>3, <2>1, <2>4, <2>5, <2>6, <2>7 DEF DependencyCacheInv
<1>6. CASE ~ D!IsTop(d)
  <2>1. /\ Len(stack) < MaxEntries /\ stack' = Append(stack, m)
        /\ added' = [added EXCEPT ![decisions] = @ + 1]
    <3>1. D!Append(stack, m) = Append(stack, m) /\ D!Len(stack) = Len(stack)
      BY SameOperators
    <3>2. D!Len(stack) < MaxEntries /\ stack' = D!Append(stack, m) /\ added' = [added EXCEPT ![decisions] = @ + 1]
      BY <1>6 DEF D!Search, m, D!LevelOfEntry
    <3> QED
      BY <3>1, <3>2
  <2>2. Len(stack') = Len(stack) + 1 /\ stack' \in Seq(D!Lists) /\ stack'[Len(stack) + 1] = m
        /\ \A i \in 1 .. Len(stack) : stack'[i] = stack[i]
    BY <1>2, <1>4, <2>1
  <2>3. added[decisions] \in 0 .. MaxEntries /\ added[decisions] < MaxEntries
    <3>1. added[decisions] <= Cardinality(Pairs(added, decisions))
      BY <1>4, PairsOfOne
    <3>2. Cardinality(Pairs(added, decisions)) = Len(stack)
      BY StateFacts, KeptIsSum
    <3> QED
      BY <1>4, <2>1, <3>1, <3>2
  <2>4. added' \in [D!Levels -> 0 .. MaxEntries] /\ added'[decisions] > 0
        /\ \A l \in D!Levels : added'[l] <= MaxEntries
        /\ \A k \in D!Levels : k # decisions => added'[k] = added[k]
        /\ \A j \in D!Levels : added[j] > 0 => added'[j] > 0
    BY <1>4, <2>1, <2>3
  <2>5. ASSUME NEW k \in D!Levels
        PROVE  D!Kept(k)' = IF decisions <= k THEN D!Kept(k) + 1 ELSE D!Kept(k)
    <3>1. D!Kept(k)' = Cardinality(Pairs(added', k))
      BY SameOperators DEF D!Kept, D!Additions, Pairs
    <3>2. /\ decisions <= k => Cardinality(Pairs(added', k)) = Cardinality(Pairs(added, k)) + 1
          /\ k < decisions => Cardinality(Pairs(added', k)) = Cardinality(Pairs(added, k))
      BY <1>4, <2>1, <2>3, PairsAddOne
    <3> QED
      BY <1>4, <3>1, <3>2, KeptIsSum
  <2>6. D!Kept(MaxLevel)' = Len(stack')
    <3>1. MaxLevel \in D!Levels /\ decisions <= MaxLevel
      BY <1>4
    <3> QED
      BY <2>2, <2>5, <3>1, StateFacts
  <2>7. D!TypeOK'
    <3>1. added' \in [D!Levels -> Nat]
      BY <1>4, <2>4
    <3>2. memo' \subseteq D!Lists
      BY <1>1, <1>2, StateFacts
    <3>3. D!Seq(D!Lists) = Seq(D!Lists) /\ D!Len(stack') = Len(stack')
      BY SameOperators
    <3> QED
      BY <1>1, <2>2, <2>6, <3>1, <3>2, <3>3 DEF DependencyCacheInv, D!TypeOK, D!Levels, D!Lists, D!Dependencies
  <2>8. StackIsValid'
    <3> SUFFICES ASSUME NEW k \in 0 .. decisions, NEW i \in 1 .. D!Kept(k)'
                 PROVE  IsValid(stack'[i], k)
      BY <1>1, <1>3 DEF StackIsValid
    <3>1. k \in D!Levels /\ k \in Nat /\ k <= decisions
      BY <1>4
    <3>2. D!Kept(k) \in Nat /\ D!Kept(k) <= Len(stack) /\ D!Kept(decisions) = Len(stack)
      BY <3>1, StateFacts
    <3>3. CASE i <= D!Kept(k)
      <4>1. i \in 1 .. D!Kept(k) /\ i \in 1 .. Len(stack)
        BY <3>2, <3>3, <2>5, <3>1
      <4> QED
        BY <2>2, <4>1 DEF DependencyCacheInv, StackIsValid
    <3>4. CASE ~ (i <= D!Kept(k))
      <4>1. k = decisions /\ i = Len(stack) + 1
        BY <1>4, <2>5, <3>1, <3>2, <3>4
      <4> QED
        BY <1>2, <2>2, <4>1
    <3> QED
      BY <3>3, <3>4
  <2>9. MemoIsValid'
    <3> SUFFICES ASSUME NEW e \in memo'
                 PROVE  \E j \in 0 .. decisions : added'[j] > 0 /\ IsValid(e, j)
      BY <1>1, <1>3 DEF MemoIsValid
    <3>1. CASE e = m
      BY <1>2, <1>4, <2>4, <3>1
    <3>2. CASE e \in memo
      <4>1. PICK j \in 0 .. decisions : added[j] > 0 /\ IsValid(e, j)
        BY <3>2 DEF DependencyCacheInv, MemoIsValid
      <4>2. j \in D!Levels
        BY <1>4
      <4> QED
        BY <2>4, <4>1, <4>2
    <3> QED
      BY <1>1, <3>1, <3>2
  <2>10. NoneAbove'
    BY <1>1, <1>4, <2>4 DEF DependencyCacheInv, NoneAbove, D!Levels
  <2>11. Len(stack') <= MaxEntries
    BY <1>4, <2>1, <2>2
  <2> QED
    BY <1>3, <2>4, <2>7, <2>8, <2>9, <2>10, <2>11 DEF DependencyCacheInv, D!Levels
<1> QED
  BY <1>5, <1>6

(* What the memo forgets is asked for again.                               *)
LEMMA EvictKeeps ==
  ASSUME DependencyCacheInv, D!Evict
  PROVE  DependencyCacheInv'
<1>1. memo' \subseteq memo /\ UNCHANGED <<setting, decisions, terms, stack, added>>
  BY DEF D!Evict
<1>2. D!TypeOK'
  BY <1>1 DEF DependencyCacheInv, D!TypeOK, D!Kept, D!Additions, D!Levels
<1>3. /\ NoneAbove' /\ WantedAgree' /\ TermsNarrow' /\ StackIsValid'
      /\ Len(stack') <= MaxEntries /\ \A l \in D!Levels : added'[l] <= MaxEntries
  BY <1>1 DEF DependencyCacheInv, NoneAbove, WantedAgree, TermsNarrow, StackIsValid, D!Kept, D!Additions,
     D!Levels, IsValid, IsComplete, IsStable, WantedAt, CommonAt
<1>4. MemoIsValid'
  BY <1>1 DEF DependencyCacheInv, MemoIsValid, IsValid, IsComplete, IsStable, WantedAt, CommonAt
<1> QED
  BY <1>2, <1>3, <1>4 DEF DependencyCacheInv, D!Levels

(* A narrower term, or one more that agrees with the others, leaves valid   *)
(* what is valid.                                                          *)
LEMMA DeriveKeeps ==
  ASSUME PrereleasesAgree, DependencyCacheInv, NEW n \in Names, D!Derive(n)
  PROVE  DependencyCacheInv'
<1>1. PICK d \in setting.dependencies :
        /\ terms[decisions][n] # None =>
             d.pre = terms[decisions][n].pre /\ d.allowed \subseteq terms[decisions][n].allowed
        /\ terms' = [terms EXCEPT ![decisions][n] = d]
  BY DEF D!Derive
<1>. PICK c : c = decisions
  OBVIOUS
<1>2. /\ setting.oneName => \A m \in Names : terms[decisions][m] # None => m = n
      /\ UNCHANGED <<setting, decisions, stack, added, memo>> /\ decisions' = c
  BY DEF D!Derive, D!Wanted
<1>3. /\ decisions \in D!Levels /\ decisions \in Nat /\ D!Levels = 0 .. MaxLevel /\ 0 .. decisions \subseteq D!Levels
      /\ terms \in [D!Levels -> [Names -> D!Dependencies \cup {None}]]
      /\ d \in D!Dependencies /\ d # None /\ setting \in Settings
  BY <1>1, StateFacts
<1>4. \A k \in D!Levels, m \in Names :
        terms'[k][m] = IF k = decisions /\ m = n THEN d ELSE terms[k][m]
  BY <1>1, <1>3
<1>5. /\ \A k \in 0 .. decisions - 1 : WantedAt(k)' = WantedAt(k) /\ CommonAt(k)' = CommonAt(k)
      /\ WantedAt(c)' = WantedAt(c) \cup {n}
  <2>1. \A k \in 0 .. decisions - 1 : k \in D!Levels /\ k # decisions
    BY <1>3
  <2>2. \A k \in 0 .. decisions - 1 : WantedAt(k)' = WantedAt(k)
    BY <1>4, <2>1 DEF WantedAt
  <2>3. \A k \in 0 .. decisions - 1 : \A m \in WantedAt(k) : terms'[k][m] = terms[k][m]
    BY <1>4, <2>1 DEF WantedAt
  <2>4. \A k \in 0 .. decisions - 1 : CommonAt(k)' = CommonAt(k)
    BY <2>2, <2>3 DEF CommonAt
  <2> QED
    BY <1>3, <1>4, <2>2, <2>4 DEF WantedAt
<1>6. CommonAt(c)' \subseteq CommonAt(c)
  <2>1. \A m \in WantedAt(decisions) : terms'[decisions][m].allowed \subseteq terms[decisions][m].allowed
    BY <1>1, <1>3, <1>4 DEF WantedAt
  <2>2. \A m \in WantedAt(decisions) : m \in WantedAt(c)'
    BY <1>5
  <2> QED
    BY <2>1, <2>2 DEF CommonAt
<1>7. \A m \in WantedAt(decisions) : terms[decisions][m].pre = d.pre /\ (setting.oneName => m = n)
  <2> SUFFICES ASSUME NEW m \in WantedAt(decisions)
               PROVE  terms[decisions][m].pre = d.pre /\ (setting.oneName => m = n)
    OBVIOUS
  <2>1. m \in Names /\ terms[decisions][m] # None /\ terms[decisions][m] \in setting.dependencies
    BY <1>3 DEF WantedAt, DependencyCacheInv, WantedAgree
  <2>2. CASE setting.oneName
    BY <1>1, <1>2, <2>1, <2>2
  <2>3. CASE ~ setting.oneName
    BY <1>3, <2>1, <2>3 DEF PrereleasesAgree
  <2> QED
    BY <2>2, <2>3
<1>8. ASSUME NEW e, NEW k \in 0 .. decisions, IsValid(e, k)
      PROVE  IsValid(e, k)'
  <2>1. CASE k # decisions
    <3>1. k \in 0 .. decisions - 1 /\ k \in D!Levels
      BY <1>3, <2>1
    <3>2. \A m \in WantedAt(k) : terms'[k][m] = terms[k][m]
      BY <1>4, <2>1, <3>1 DEF WantedAt
    <3> QED
      BY <1>5, <1>8, <3>1, <3>2 DEF IsValid, IsComplete, IsStable
  <2>2. CASE k = decisions
    <3>1. \A m \in WantedAt(c)' : terms'[decisions][m].pre = d.pre
      BY <1>3, <1>4, <1>5, <1>7 DEF WantedAt
    <3>2. e.pre = d.pre
      BY <1>7, <1>8, <2>2 DEF IsValid
    <3> QED
      BY <1>5, <1>6, <1>8, <2>2, <3>1, <3>2 DEF IsValid, IsComplete, IsStable
  <2> QED
    BY <2>1, <2>2
<1>9. WantedAgree'
  <2> SUFFICES ASSUME NEW k \in 0 .. decisions, NEW m \in WantedAt(k)', NEW q \in WantedAt(k)'
               PROVE  /\ terms'[k][m] \in setting.dependencies
                      /\ terms'[k][m].pre = terms'[k][q].pre
                      /\ setting.oneName => m = q
    BY <1>2 DEF WantedAgree
  <2>1. CASE k # decisions
    <3>1. k \in 0 .. decisions - 1 /\ k \in D!Levels
      BY <1>3, <2>1
    <3>2. m \in WantedAt(k) /\ q \in WantedAt(k) /\ m \in Names /\ q \in Names
      BY <1>5, <3>1 DEF WantedAt
    <3>3. terms'[k][m] = terms[k][m] /\ terms'[k][q] = terms[k][q]
      BY <1>4, <2>1, <3>1, <3>2
    <3> QED
      BY <3>2, <3>3 DEF DependencyCacheInv, WantedAgree
  <2>2. CASE k = decisions
    <3>1. \A x \in WantedAt(decisions) \cup {n} :
            /\ terms'[decisions][x] \in setting.dependencies /\ terms'[decisions][x].pre = d.pre
            /\ setting.oneName => x = n
      BY <1>3, <1>4, <1>7 DEF WantedAt, DependencyCacheInv, WantedAgree
    <3> QED
      BY <1>5, <2>2, <3>1 DEF WantedAt
  <2> QED
    BY <2>1, <2>2
<1>10. TermsNarrow'
  <2> SUFFICES ASSUME NEW j \in 0 .. decisions, NEW k \in 0 .. j, NEW m \in WantedAt(k)'
               PROVE  /\ m \in WantedAt(j)'
                      /\ terms'[j][m].allowed \subseteq terms'[k][m].allowed
                      /\ terms'[j][m].pre = terms'[k][m].pre
    BY <1>2 DEF TermsNarrow
  <2>1. j \in D!Levels /\ k \in D!Levels /\ j \in Nat /\ k \in Nat /\ k <= j /\ j <= decisions
    BY <1>3
  <2>2. CASE k = decisions
    BY <1>3, <2>1, <2>2
  <2>3. CASE k # decisions
    <3>1. k \in 0 .. decisions - 1 /\ m \in WantedAt(k) /\ m \in Names /\ terms'[k][m] = terms[k][m]
      BY <1>3, <1>4, <1>5, <2>1, <2>3 DEF WantedAt
    <3>2. /\ m \in WantedAt(j) /\ terms[j][m].allowed \subseteq terms[k][m].allowed
          /\ terms[j][m].pre = terms[k][m].pre
      BY <3>1 DEF DependencyCacheInv, TermsNarrow
    <3>3. CASE j = decisions /\ m = n
      <4>1. terms'[j][m] = d /\ terms[j][m] # None
        BY <1>4, <2>1, <3>1, <3>2, <3>3 DEF WantedAt
      <4> QED
        BY <1>1, <1>5, <3>1, <3>2, <3>3, <4>1
    <3>4. CASE ~ (j = decisions /\ m = n)
      <4>1. terms'[j][m] = terms[j][m]
        BY <1>4, <2>1, <3>1, <3>4
      <4>2. m \in WantedAt(j)'
        BY <3>2, <4>1 DEF WantedAt
      <4> QED
        BY <3>1, <3>2, <4>1, <4>2
    <3> QED
      BY <3>3, <3>4
  <2> QED
    BY <2>2, <2>3
<1>11. D!TypeOK'
  <2>1. terms' \in [D!Levels -> [Names -> D!Dependencies \cup {None}]]
    BY <1>1, <1>3
  <2> QED
    BY <1>2, <2>1 DEF DependencyCacheInv, D!TypeOK, D!Kept, D!Additions, D!Levels
<1>12. StackIsValid'
  BY <1>2, <1>8 DEF DependencyCacheInv, StackIsValid, D!Kept, D!Additions
<1>13. MemoIsValid'
  BY <1>2, <1>8 DEF DependencyCacheInv, MemoIsValid
<1>14. NoneAbove'
  BY <1>2 DEF DependencyCacheInv, NoneAbove, D!Levels
<1> QED
  BY <1>2, <1>9, <1>10, <1>11, <1>12, <1>13, <1>14 DEF DependencyCacheInv, D!Levels

(* A new level starts with the terms of the one before.                    *)
LEMMA DecideKeeps ==
  ASSUME DependencyCacheInv, D!Decide
  PROVE  DependencyCacheInv'
<1>1. /\ decisions < MaxLevel /\ decisions' = decisions + 1
      /\ terms' = [terms EXCEPT ![decisions + 1] = terms[decisions]]
      /\ UNCHANGED <<setting, stack, added, memo>>
  BY DEF D!Decide
<1>. PICK c : c = decisions
  OBVIOUS
<1>2. /\ decisions \in Nat /\ MaxLevel \in Nat /\ D!Levels = 0 .. MaxLevel /\ decisions + 1 \in D!Levels
      /\ terms \in [D!Levels -> [Names -> D!Dependencies \cup {None}]]
      /\ 0 .. decisions \subseteq D!Levels /\ decisions \in 0 .. decisions
      /\ 0 .. decisions + 1 = 0 .. decisions \cup {decisions + 1}
      /\ decisions + 1 \notin 0 .. decisions
  BY <1>1, StateFacts
<1>3. \A k \in 0 .. c : terms'[k] = terms[k]
  BY <1>1, <1>2
<1>4. terms'[c + 1] = terms[c]
  BY <1>1, <1>2
<1>5. \A k \in 0 .. c : WantedAt(k)' = WantedAt(k) /\ CommonAt(k)' = CommonAt(k)
  BY <1>3 DEF WantedAt, CommonAt
<1>6. WantedAt(c + 1)' = WantedAt(c) /\ CommonAt(c + 1)' = CommonAt(c)
  BY <1>4 DEF WantedAt, CommonAt
<1>7. ASSUME NEW e
      PROVE  /\ \A k \in 0 .. c : IsValid(e, k) => IsValid(e, k)'
             /\ IsValid(e, c) => IsValid(e, c + 1)'
  BY <1>3, <1>4, <1>5, <1>6 DEF IsValid, IsComplete, IsStable
<1>8. WantedAgree'
  BY <1>1, <1>2, <1>3, <1>4, <1>5, <1>6 DEF DependencyCacheInv, WantedAgree
<1>9. TermsNarrow'
  <2> SUFFICES ASSUME NEW j \in 0 .. c + 1, NEW k \in 0 .. j, NEW m \in WantedAt(k)'
               PROVE  /\ m \in WantedAt(j)'
                      /\ terms'[j][m].allowed \subseteq terms'[k][m].allowed
                      /\ terms'[j][m].pre = terms'[k][m].pre
    BY <1>1 DEF TermsNarrow
  <2>1. CASE j \in 0 .. c
    <3>1. k \in 0 .. c
      BY <1>2, <2>1
    <3> QED
      BY <1>3, <1>5, <2>1, <3>1 DEF DependencyCacheInv, TermsNarrow
  <2>2. CASE j = c + 1 /\ k \in 0 .. c
    <3>1. m \in WantedAt(k) /\ k \in 0 .. c
      BY <1>5, <2>2
    <3> QED
      BY <1>2, <1>3, <1>4, <1>6, <2>2, <3>1 DEF DependencyCacheInv, TermsNarrow
  <2>3. CASE j = c + 1 /\ k = c + 1
    BY <1>6, <2>3
  <2> QED
    BY <1>2, <2>1, <2>2, <2>3
<1>10. D!TypeOK'
  <2>1. terms' \in [D!Levels -> [Names -> D!Dependencies \cup {None}]] /\ c' \in D!Levels
    BY <1>1, <1>2
  <2> QED
    BY <1>1, <2>1 DEF DependencyCacheInv, D!TypeOK, D!Kept, D!Additions, D!Levels
<1>11. NoneAbove'
  <2>1. \A l \in D!Levels : l > c + 1 => l > c
    BY <1>2
  <2> QED
    BY <1>1, <2>1 DEF DependencyCacheInv, NoneAbove, D!Levels
<1>12. D!Kept(c + 1) = D!Kept(c)
  <2>1. D!Kept(c) <= D!Kept(c + 1)
    BY <1>2, PairsGrow, KeptIsSum
  <2>2. D!Kept(c + 1) <= Len(stack) /\ D!Kept(c + 1) \in Nat /\ D!Kept(c) = Len(stack)
        /\ Len(stack) \in Nat
    BY <1>2, StateFacts
  <2> QED
    BY <2>1, <2>2
<1>13. StackIsValid'
  <2> SUFFICES ASSUME NEW k \in 0 .. c + 1, NEW i \in 1 .. D!Kept(k),
                      NEW e, e = stack[i]
               PROVE  IsValid(e, k)'
    BY <1>1 DEF StackIsValid, D!Kept, D!Additions
  <2>1. CASE k \in 0 .. c
    BY <1>7, <2>1 DEF DependencyCacheInv, StackIsValid
  <2>2. CASE k = c + 1
    BY <1>2, <1>7, <1>12, <2>2 DEF DependencyCacheInv, StackIsValid
  <2> QED
    BY <1>2, <2>1, <2>2
<1>14. MemoIsValid'
  <2> SUFFICES ASSUME NEW m \in memo
               PROVE  \E j \in 0 .. c + 1 : added[j] > 0 /\ IsValid(m, j)'
    BY <1>1 DEF MemoIsValid
  <2>1. PICK j \in 0 .. c : added[j] > 0 /\ IsValid(m, j)
    BY DEF DependencyCacheInv, MemoIsValid
  <2> QED
    BY <1>2, <1>7, <2>1
<1> QED
  BY <1>1, <1>8, <1>9, <1>10, <1>11, <1>13, <1>14 DEF DependencyCacheInv, D!Levels

(* What is left after going back to level k was added there or below it.   *)
LEMMA BacktrackKeeps ==
  ASSUME DependencyCacheInv, D!Backtrack
  PROVE  DependencyCacheInv'
<1>. PICK c : c = decisions
  OBVIOUS
<1>1. PICK k \in 0 .. c :
        /\ k < c /\ decisions' = k /\ setting' = setting
        /\ stack' = SubSeq(stack, 1, D!Kept(k))
        /\ added' = [l \in D!Levels |-> IF l <= k THEN added[l] ELSE 0]
        /\ memo' = D!MemoAfter(k)
        /\ terms' = [l \in D!Levels |-> IF l <= k THEN terms[l] ELSE [n \in Names |-> None]]
  BY SameOperators DEF D!Backtrack
<1>2. /\ c \in Nat /\ k \in Nat /\ MaxLevel \in Nat /\ MaxEntries \in Nat
      /\ D!Levels = 0 .. MaxLevel /\ c \in D!Levels /\ k \in D!Levels
      /\ stack \in Seq(D!Lists) /\ Len(stack) \in Nat /\ Len(stack) <= MaxEntries
      /\ D!Kept(k) \in Nat /\ D!Kept(k) <= Len(stack)
      /\ added \in [D!Levels -> 0 .. MaxEntries] /\ memo \subseteq D!Lists
      /\ terms \in [D!Levels -> [Names -> D!Dependencies \cup {None}]]
  BY <1>1, StateFacts
<1>3. \A j \in 0 .. k : /\ j \in D!Levels /\ j \in 0 .. c
                        /\ terms'[j] = terms[j] /\ added'[j] = added[j]
  BY <1>1, <1>2
<1>4. \A j \in 0 .. k : WantedAt(j)' = WantedAt(j) /\ CommonAt(j)' = CommonAt(j)
  BY <1>3 DEF WantedAt, CommonAt
<1>5. ASSUME NEW e, NEW j \in 0 .. k, IsValid(e, j)
      PROVE  IsValid(e, j)'
  BY <1>3, <1>4, <1>5 DEF IsValid, IsComplete, IsStable
<1>6. /\ stack' \in Seq(D!Lists) /\ Len(stack') = D!Kept(k)
      /\ \A i \in 1 .. D!Kept(k) : stack'[i] = stack[i]
  <2>. PICK m : m = D!Kept(k)
    OBVIOUS
  <2> QED
    BY <1>1, <1>2, SubSeqProperties
<1>7. ASSUME NEW j \in D!Levels
      PROVE  /\ j <= k => D!Kept(j)' = D!Kept(j)
             /\ k <= j => D!Kept(j)' = D!Kept(k)
  <2>1. D!Kept(j)' = Cardinality(Pairs(added', j))
    BY SameOperators DEF D!Kept, D!Additions, Pairs
  <2>2. /\ j <= k => Pairs(added', j) = Pairs(added, j)
        /\ k <= j => Pairs(added', j) = Pairs(added, k)
    <3>1. IsCut(added, added', k)
      BY <1>1, <1>2 DEF IsCut
    <3>2. \A f, g : IsCut(f, g, k) =>
            /\ j <= k => Pairs(g, j) = Pairs(f, j)
            /\ k <= j => Pairs(g, j) = Pairs(f, k)
      BY <1>2, <1>7, PairsCut
    <3> QED
      BY <3>1, <3>2
  <2>3. D!Kept(j) = Cardinality(Pairs(added, j)) /\ D!Kept(k) = Cardinality(Pairs(added, k))
    BY KeptIsSum
  <2>4. ASSUME j <= k PROVE D!Kept(j)' = D!Kept(j)
    BY <2>1, <2>2, <2>3, <2>4, Zenon
  <2>5. ASSUME k <= j PROVE D!Kept(j)' = D!Kept(k)
    BY <2>1, <2>2, <2>3, <2>5, Zenon
  <2> QED
    BY <2>4, <2>5
<1>8. D!TypeOK'
  <2>1. terms' \in [D!Levels -> [Names -> D!Dependencies \cup {None}]]
    BY <1>1, <1>2
  <2>2. added' \in [D!Levels -> Nat]
    BY <1>1, <1>2
  <2>3. memo' \subseteq D!Lists
    BY <1>1, <1>2 DEF D!MemoAfter
  <2>4. D!Kept(MaxLevel)' = Len(stack')
    BY <1>2, <1>6, <1>7
  <2>5. D!Seq(D!Lists) = Seq(D!Lists) /\ D!Len(stack') = Len(stack')
    BY SameOperators
  <2> QED
    BY <1>1, <1>2, <1>6, <2>1, <2>2, <2>3, <2>4, <2>5 DEF DependencyCacheInv, D!TypeOK, D!Levels, D!Lists, D!Dependencies
<1>9. WantedAgree'
  <2> SUFFICES ASSUME NEW j \in 0 .. k, NEW n \in WantedAt(j)', NEW m \in WantedAt(j)'
               PROVE  /\ terms'[j][n] \in setting.dependencies
                      /\ terms'[j][n].pre = terms'[j][m].pre
                      /\ setting.oneName => n = m
    BY <1>1 DEF WantedAgree
  <2> QED
    BY <1>3, <1>4 DEF DependencyCacheInv, WantedAgree
<1>10. TermsNarrow'
  <2> SUFFICES ASSUME NEW j \in 0 .. k, NEW i \in 0 .. j, NEW n \in WantedAt(i)'
               PROVE  /\ n \in WantedAt(j)'
                      /\ terms'[j][n].allowed \subseteq terms'[i][n].allowed
                      /\ terms'[j][n].pre = terms'[i][n].pre
    BY <1>1 DEF TermsNarrow
  <2>1. i \in 0 .. k
    BY <1>2
  <2> QED
    BY <1>3, <1>4, <2>1 DEF DependencyCacheInv, TermsNarrow
<1>11. StackIsValid'
  <2> SUFFICES ASSUME NEW j \in 0 .. k, NEW i \in 1 .. D!Kept(j)', NEW e, e = stack'[i]
               PROVE  IsValid(e, j)'
    BY <1>1 DEF StackIsValid
  <2>1. D!Kept(j)' = D!Kept(j) /\ D!Kept(j) <= D!Kept(k) /\ D!Kept(j) \in Nat
    BY <1>2, <1>3, <1>7, PairsGrow, KeptIsSum, StateFacts
  <2>2. i \in 1 .. D!Kept(j) /\ e = stack[i]
    BY <1>2, <1>6, <2>1
  <2>3. IsValid(e, j)
    BY <1>3, <2>2 DEF DependencyCacheInv, StackIsValid
  <2> QED
    BY <1>5, <2>3
<1>12. MemoIsValid'
  <2> SUFFICES ASSUME NEW m \in memo'
               PROVE  \E j \in 0 .. k : added'[j] > 0 /\ IsValid(m, j)'
    BY <1>1 DEF MemoIsValid
  <2>1. m \in memo /\ \A l \in k + 1 .. c : ~ (added[l] > 0)
    BY <1>1 DEF D!MemoAfter
  <2>2. PICK j \in 0 .. c : added[j] > 0 /\ IsValid(m, j)
    BY <2>1 DEF DependencyCacheInv, MemoIsValid
  <2>3. j \in 0 .. k
    BY <1>2, <2>1, <2>2
  <2> QED
    BY <1>3, <1>5, <2>2, <2>3
<1>13. NoneAbove' /\ \A l \in D!Levels : added'[l] <= MaxEntries
  BY <1>1, <1>2 DEF NoneAbove, D!Levels
<1>14. Len(stack') <= MaxEntries
  BY <1>2, <1>6
<1> QED
  BY <1>8, <1>9, <1>10, <1>11, <1>12, <1>13, <1>14 DEF DependencyCacheInv, D!Levels

LEMMA DependencyCacheInit ==
  ASSUME D!Init
  PROVE  DependencyCacheInv
<1>1. /\ setting \in Settings /\ decisions = 0 /\ terms = [k \in D!Levels |-> [n \in Names |-> None]]
      /\ stack = << >> /\ memo = {} /\ added = [k \in D!Levels |-> 0]
  BY DEF D!Init
<1>2. MaxLevel \in Nat /\ MaxEntries \in Nat /\ D!Levels = 0 .. MaxLevel /\ 0 \in D!Levels
  BY OneDependencyCache DEF D!DependencyCacheAssumption, D!Levels
<1>3. Len(stack) = 0 /\ stack \in Seq(D!Lists)
  BY <1>1
<1>4. \A k \in D!Levels : D!Kept(k) = 0
  <2> SUFFICES ASSUME NEW k \in D!Levels
               PROVE  Cardinality(Pairs(added, k)) = 0
    BY KeptIsSum
  <2>1. \A e \in (0 .. k) \X (1 .. MaxEntries) : ~ (e[2] <= added[e[1]])
    BY <1>1, <1>2
  <2>2. Pairs(added, k) = {}
    BY <2>1 DEF Pairs
  <2> QED
    BY <2>2, FS_EmptySet
<1>5. D!TypeOK
  <2>1. D!Seq(D!Lists) = Seq(D!Lists) /\ D!Len(stack) = Len(stack)
    BY SameOperators
  <2>2. D!Kept(MaxLevel) = Len(stack)
    BY <1>2, <1>3, <1>4
  <2>3. /\ terms \in [D!Levels -> [Names -> D!Dependencies \cup {None}]]
        /\ added \in [D!Levels -> Nat] /\ decisions \in D!Levels
    BY <1>1, <1>2
  <2> QED
    BY <1>1, <1>3, <2>1, <2>2, <2>3 DEF D!TypeOK
<1>6. \A k \in 0 .. decisions : k \in D!Levels /\ WantedAt(k) = {} /\ D!Kept(k) = 0
  BY <1>1, <1>2, <1>4 DEF WantedAt
<1> QED
  BY <1>1, <1>2, <1>3, <1>5, <1>6 DEF DependencyCacheInv, NoneAbove, WantedAgree, TermsNarrow, StackIsValid, MemoIsValid

LEMMA DependencyCacheStep ==
  ASSUME PrereleasesAgree, DependencyCacheInv, [D!Next]_dvars
  PROVE  DependencyCacheInv'
<1>1. CASE UNCHANGED dvars
  <2>1. UNCHANGED <<setting, decisions, terms, stack, added, memo>>
    BY <1>1 DEF dvars
  <2>2. D!TypeOK'
    BY <2>1 DEF DependencyCacheInv, D!TypeOK, D!Kept, D!Additions, D!Levels
  <2>3. \A e, k : IsValid(e, k)' <=> IsValid(e, k)
    BY <2>1 DEF IsValid, IsComplete, IsStable, WantedAt, CommonAt
  <2>4. StackIsValid' /\ MemoIsValid'
    BY <2>1, <2>3 DEF DependencyCacheInv, StackIsValid, MemoIsValid, D!Kept, D!Additions
  <2>5. NoneAbove' /\ WantedAgree' /\ TermsNarrow'
    BY <2>1 DEF DependencyCacheInv, NoneAbove, WantedAgree, TermsNarrow, WantedAt, D!Levels
  <2> QED
    BY <2>1, <2>2, <2>4, <2>5 DEF DependencyCacheInv, D!Levels
<1>2. CASE D!Next
  BY <1>2, SearchKeeps, EvictKeeps, DeriveKeeps, DecideKeeps, BacktrackKeeps DEF D!Next
<1> QED
  BY <1>1, <1>2

(* Valid answers are right: version_solver.py:86-150.                      *)
LEMMA ValidIsRight ==
  ASSUME DependencyCacheInv
  PROVE  D!AnswersAreAllowed /\ D!NothingIsLost /\ D!FirstIsSame
<1>1. ASSUME NEW n \in D!Wanted, NEW d, d = terms[decisions][n]
      PROVE  /\ D!Answer(d).packages = {} <=> D!Offer(d) = {}
             /\ D!Answer(d).packages \subseteq d.allowed
             /\ D!Offer(d) \cap CommonAt(decisions) \subseteq D!Answer(d).packages
             /\ setting.oneName /\ D!Offer(d) # {} =>
                  D!First(D!Answer(d)) = D!First([packages |-> D!Offer(d), pre |-> d.pre, for |-> {}])
  <2>. DEFINE answer == D!Answer(d)
  <2>1. /\ d \in D!Dependencies /\ answer \in D!Lists
        /\ answer.for = d.allowed /\ IsValid(answer, decisions) /\ n \in Names
    BY <1>1, AnswerIsValid DEF D!Wanted
  <2>2. n \in WantedAt(decisions)
    BY DEF D!Wanted, WantedAt
  <2>3. d.allowed # {} /\ d.pre \in {"yes", "no", "unset"}
    BY <2>1 DEF D!Dependencies
  <2>4. answer.pre = d.pre
    BY <1>1, <2>1, <2>2 DEF IsValid
  <2>5. D!Offer(d) = IF d.pre = "yes" \/ (d.pre = "unset" /\ d.allowed \ Prereleases = {})
                     THEN d.allowed ELSE d.allowed \ Prereleases
    BY DEF D!Offer
  <2>. HIDE DEF answer
  <2>6. CommonAt(decisions) \subseteq d.allowed
    BY <1>1, <2>2 DEF CommonAt
  <2>7. answer.packages \subseteq d.allowed
    BY <2>1 DEF IsValid
  <2>8. answer.packages = {} => D!Offer(d) = {}
    BY <2>1, <2>4, <2>5 DEF IsValid
  <2>9. IsComplete(answer, decisions) \/ IsStable(answer, decisions)
    BY <2>1 DEF IsValid
  <2>10. D!Offer(d) = {} => answer.packages = {}
    <3>1. D!Offer(d) = {} => d.pre = "no" /\ d.allowed \subseteq Prereleases
      BY <2>3, <2>5
    <3> QED
      BY <2>4, <2>7, <2>9, <3>1 DEF IsComplete, IsStable
  <2>11. D!Offer(d) \cap CommonAt(decisions) \subseteq answer.packages
    <3>1. CASE IsComplete(answer, decisions)
      BY <3>1 DEF IsComplete
    <3>2. CASE IsStable(answer, decisions)
      <4>1. CASE d.pre = "unset" /\ d.allowed \ Prereleases = {}
        <5>1. answer.packages = {}
          BY <2>7, <3>2, <4>1 DEF IsStable
        <5> QED
          BY <2>8, <5>1
      <4>2. CASE ~ (d.pre = "unset" /\ d.allowed \ Prereleases = {})
        BY <2>4, <2>5, <3>2, <4>2 DEF IsStable
      <4> QED
        BY <4>1, <4>2
    <3> QED
      BY <2>9, <3>1, <3>2
  <2>12. ASSUME setting.oneName, D!Offer(d) # {}
         PROVE  D!First(answer) = D!First([packages |-> D!Offer(d), pre |-> d.pre, for |-> {}])
    <3>1. \A m \in WantedAt(decisions) : m = n
      <4>1. decisions \in 0 .. decisions
        BY StateFacts
      <4> QED
        BY <2>2, <2>12, <4>1 DEF DependencyCacheInv, WantedAgree
    <3>2. CommonAt(decisions) = d.allowed
      <4>1. d.allowed \subseteq Releases
        BY <2>1 DEF D!Dependencies
      <4> QED
        BY <1>1, <2>6, <3>1, <4>1 DEF CommonAt
    <3>3. answer.packages = d.allowed \/ (d.pre # "yes" /\ answer.packages = d.allowed \ Prereleases)
      BY <2>4, <2>7, <2>9, <3>2 DEF IsComplete, IsStable
    <3>. DEFINE asked == [packages |-> D!Offer(d), pre |-> d.pre, for |-> {}]
                From(ps, pre) == IF pre = "yes" \/ ps \ Prereleases = {} THEN ps ELSE ps \ Prereleases
                Best(ps) == CHOOSE v \in ps : \A w \in ps : w <= v
    <3>4. D!First(answer) = Best(From(answer.packages, d.pre))
      BY <2>4 DEF D!First
    <3>5. D!First(asked) = Best(From(D!Offer(d), d.pre))
      BY DEF D!First
    <3>6. From(answer.packages, d.pre) = From(D!Offer(d), d.pre)
      <4>1. answer.packages # {}
        BY <2>8, <2>12
      <4> QED
        BY <2>3, <2>4, <2>5, <2>9, <2>12, <3>3, <4>1 DEF IsComplete, IsStable
    <3> HIDE DEF Best, From
    <3> QED
      BY <3>4, <3>5, <3>6
  <2> QED
    BY <2>7, <2>8, <2>10, <2>11, <2>12 DEF answer
<1>2. D!AnswersAreAllowed
  BY <1>1 DEF D!AnswersAreAllowed, D!NoneMeansNone, D!OnlyAllowed, DependencyCacheInv
<1>3. D!NothingIsLost
  <2>1. CommonAt(decisions) = {v \in Releases : \A m \in D!Wanted : v \in terms[decisions][m].allowed}
    BY DEF CommonAt, WantedAt, D!Wanted
  <2> QED
    BY <1>1, <2>1 DEF D!NothingIsLost
<1>4. D!FirstIsSame
  BY <1>1 DEF D!FirstIsSame
<1> QED
  BY <1>2, <1>3, <1>4

(* As long as the names under which the package is wanted agree about       *)
(* prereleases, the cache gives the answers of the provider: it says that   *)
(* there is none only if there is none, offers nothing that was not asked   *)
(* for, loses nothing that every name allows, and with one name the solver  *)
(* takes the version that it would take without it, through any decisions,  *)
(* backtracking and evictions: version_solver.py:86-150.                    *)
THEOREM CacheAnswersAreRight == ASSUME PrereleasesAgree PROVE MCSpec => []CacheIsTransparent
<1>. DEFINE Inv == subject = "versions" => DependencyCacheInv
<1>1. MCInit => Inv
  BY DependencyCacheInit DEF MCInit
<1>2. Inv /\ [MCNext]_<<subject, vars, dvars>> => Inv'
  <2> SUFFICES ASSUME Inv, [MCNext]_<<subject, vars, dvars>>, subject' = "versions"
               PROVE  DependencyCacheInv'
    OBVIOUS
  <2>1. subject = "versions" /\ [D!Next]_dvars
    BY DEF MCNext
  <2> QED
    BY <2>1, DependencyCacheStep
<1>3. Inv => CacheIsTransparent
  BY ValidIsRight DEF CacheIsTransparent
<1> QED
  BY <1>1, <1>2, <1>3, PTL DEF MCSpec
=============================================================================
