------------------------------ MODULE MCThreads ------------------------------
(***************************************************************************)
(* Threads that share something: an archive that all of them want, and a    *)
(* property that is computed once.  A specification is about one of these,  *)
(* while the other stays where it starts.                                   *)
(***************************************************************************)
EXTENDS ArtifactCache

CONSTANTS
  t1, t2, t3, p1, p2, first, by1, by2, i1,
  Askers, Instances, NoThread, NoInstance  \* of AtomicCachedProperty

VARIABLES made, semaphore, under, cached, asking, asks, mine
-----------------------------------------------------------------------------
(* Two threads, of one process or of two, and an archive of two chunks.    *)
TwoThreads == {t1, t2}
MCLocks == {first, by1, by2}
MCLockBy == [t \in TwoThreads |-> IF t = t1 THEN by1 ELSE by2]
OneProcess == [t \in TwoThreads |-> p1]
TwoProcesses == [t \in TwoThreads |-> IF t = t1 THEN p1 ELSE p2]

Usual ==
  [processOf |-> OneProcess, warm |-> TRUE, acceptsRanges |-> TRUE, honorsRanges |-> TRUE,
   knowsLength |-> TRUE, isWheel |-> FALSE, hashKnown |-> TRUE]
(* A server that sends the archive from the beginning whatever was asked   *)
(* for, and does not say how long it is.                                   *)
Careless == [Usual EXCEPT !.honorsRanges = FALSE, !.knowsLength = FALSE]

MCSettings ==
  {Usual, [Usual EXCEPT !.warm = FALSE],
   [Usual EXCEPT !.warm = FALSE, !.processOf = TwoProcesses],
   [Usual EXCEPT !.acceptsRanges = FALSE],
   Careless, [Careless EXCEPT !.isWheel = TRUE]}
-----------------------------------------------------------------------------
A == INSTANCE AtomicCachedProperty
       WITH Threads <- Askers, locks <- made, holder <- under, pc <- asking
propertyvars == <<made, semaphore, under, cached, asking, asks, mine>>

ASSUME OneOfAtomicCachedProperty == A!ThreadAssumption
-----------------------------------------------------------------------------
allvars == <<vars, propertyvars>>

MCInit == Init /\ A!Init

(* Next and the fairness of ArtifactCache.                                 *)
ArchiveSpec ==
  /\ MCInit /\ [][Next /\ UNCHANGED propertyvars]_allvars
  /\ \A t \in Threads :
       /\ WF_allvars(Step(t) /\ UNCHANGED propertyvars)
       /\ SF_allvars(UNCHANGED setting /\ TakeLock(t) /\ UNCHANGED propertyvars)

(* Next and the fairness of AtomicCachedProperty.                          *)
PropertySpec ==
  /\ MCInit /\ [][A!Next /\ UNCHANGED vars]_allvars
  /\ \A t \in Askers :
       /\ WF_allvars(A!Proceed(t) /\ UNCHANGED vars)
       /\ SF_allvars(A!TakeSemaphore(t) /\ UNCHANGED vars)
       /\ SF_allvars(A!TakeLock(t) /\ UNCHANGED vars)
-----------------------------------------------------------------------------
(* One thread computes at a time, under one lock: see AtomicCachedProperty. *)
ComputedAlone == A!ComputedAlone

(* Whoever asks for the property is answered: see AtomicCachedProperty.     *)
AskersAreAnswered == A!Answered
=============================================================================
