------------------------ MODULE SolverWrapperProofs ------------------------
(***************************************************************************)
(* Proofs about SolverWrapper, for every set of solvers, every number of   *)
(* repetitions and every queue cap.                                        *)
(***************************************************************************)
EXTENDS SolverWrapper, SequenceTheorems, TLAPS

-----------------------------------------------------------------------------
(***************************************************************************)
(* The inductive invariant behind type correctness.                        *)
(***************************************************************************)

(* The collector exists only while spawn does. *)
StartedTogether == spawnPc = "idle" => collPc = "idle"

(* What the loops of spawn guarantee about their counters: the number of
   repetitions launched and left is constant, and inside the range-for there
   is a repetition left to launch and a solver to launch it on. *)
LoopBounds ==
    /\ remaining + seed = NumReps
    /\ spawnPc \in {"lock", "insert", "push"} => remaining > 0
    /\ spawnPc = "for" /\ spawnIdx <= Len(solverIds) => remaining > 0
    /\ spawnPc \in {"insert", "push"} => spawnIdx <= Len(solverIds)

(* While the collector works on a solver it is on the list, and between get()
   and pop() its queue is not empty, whatever spawn pushes and callers register
   meanwhile. *)
PopWindow ==
    /\ collPc \in {"insert", "for", "pop"} => collIdx <= Len(solverIds)
    /\ collPc = "pop" => asyncResults[CollSolver] # <<>>

TypeInv == TypeOK /\ StartedTogether /\ LoopBounds /\ PopWindow

(* The initial state satisfies the invariant. *)
LEMMA TypeInvInit == Init => TypeInv
<1> SUFFICES ASSUME Init PROVE TypeInv
    OBVIOUS
<1>1. TypeOK
  <2>1. <<>> \in Seq(Solvers) /\ <<>> \in Seq(Repetitions)
      BY EmptySeq
  <2>2. remaining \in 0 .. NumReps /\ seed \in 0 .. NumReps
      BY NumRepsAssumption DEF Init
  <2>3. /\ asyncResults \in [Solvers -> Seq(Repetitions)]
        /\ entries \subseteq Solvers /\ corrupt \in BOOLEAN
        /\ \A s \in Solvers \ entries : asyncResults[s] = <<>>
      BY <2>1 DEF Init
  <2>4. /\ home \in [Repetitions -> Solvers \cup {NoSolver}]
        /\ outcome \in [Repetitions -> {"none", "value", "exception"}]
      BY DEF Init
  <2>5. /\ solverIds \in Seq(Solvers) /\ results \in Seq(Repetitions)
        /\ totalCompleted \in Nat
        /\ spawnIdx \in Nat \ {0} /\ collIdx \in Nat \ {0}
      BY <2>1 DEF Init
  <2>6. /\ abort \in BOOLEAN /\ enough \in BOOLEAN
        /\ writerWaits \in BOOLEAN
        /\ spawnPc = "idle" /\ collPc = "idle"
      BY DEF Init
  <2> QED
      BY <2>2, <2>3, <2>4, <2>5, <2>6 DEF TypeOK
<1>2. StartedTogether /\ PopWindow
    BY DEF Init, StartedTogether, PopWindow
<1>3. LoopBounds
    BY NumRepsAssumption DEF Init, LoopBounds
<1> QED
    BY <1>1, <1>2, <1>3 DEF TypeInv

(* What a damaged map leaves of a queue. *)
LEMMA PartFacts ==
    ASSUME NEW q \in Seq(Repetitions),
           NEW i \in 0 .. Len(q), NEW j \in 0 .. Len(q)
    PROVE  /\ SubSeq(q, i + 1, j) \in Seq(Repetitions)
           /\ i = 0 /\ j > 0 => SubSeq(q, i + 1, j) # <<>>
           /\ Len(SubSeq(q, i + 1, j)) <= Len(q)
<1>1. Len(q) \in Nat
    BY LenProperties
<1>2. /\ SubSeq(q, i + 1, j) \in Seq(Repetitions)
      /\ Len(SubSeq(q, i + 1, j)) = IF i + 1 <= j THEN j - (i + 1) + 1 ELSE 0
    BY <1>1, SubSeqProperties
<1>3. Len(SubSeq(q, i + 1, j)) <= Len(q)
    BY <1>1, <1>2
<1>4. i = 0 /\ j > 0 => Len(SubSeq(q, i + 1, j)) # 0
    BY <1>1, <1>2
<1> QED
    BY <1>2, <1>3, <1>4, EmptySeq

(* Every step of the callers, of the two threads and of the solvers preserves
   the invariant. *)
LEMMA TypeInvStep == TypeInv /\ [Next]_vars => TypeInv'
<1> SUFFICES ASSUME TypeInv, [Next]_vars PROVE TypeInv'
    OBVIOUS
<1> USE NumRepsAssumption, QueueCapAssumption, SolversAssumption
    DEF TypeInv, TypeOK, StartedTogether, LoopBounds, PopWindow, Repetitions,
        mapVars, taskVars, spawnVars, collVars
<1>1. ASSUME NEW id \in Solvers, AddSolverId(id) PROVE TypeInv'
    BY <1>1 DEF AddSolverId, SpawnReads, CollReads
<1>2. ASSUME SetSolverIds(<<>>) PROVE TypeInv'
    BY <1>2 DEF SetSolverIds
<1>3. ASSUME SpawnBegin PROVE TypeInv'
    BY <1>3 DEF SpawnBegin, CollSolver
<1>4. ASSUME Abort PROVE TypeInv'
    BY <1>4 DEF Abort, CollSolver
<1>5. ASSUME SpawnLoop PROVE TypeInv'
    BY <1>5 DEF SpawnLoop, CollSolver
<1>6. ASSUME SpawnLock PROVE TypeInv'
    BY <1>6 DEF SpawnLock, CollSolver
<1>7. ASSUME SpawnLaunch PROVE TypeInv'
    BY <1>7 DEF SpawnLaunch, CollSolver, SpawnSolver
<1>8. ASSUME SpawnSkip PROVE TypeInv'
    BY <1>8 DEF SpawnSkip, CollSolver
<1>9. ASSUME SpawnPush PROVE TypeInv'
  <2>1. SpawnSolver \in Solvers /\ seed \in Repetitions
      BY <1>9, ElementOfSeq DEF SpawnPush, SpawnSolver
  <2> DEFINE q == Append(asyncResults[SpawnSolver], seed)
  <2>2. q \in Seq(Repetitions) /\ q # <<>>
    <3>1. asyncResults[SpawnSolver] \in Seq(Repetitions)
        BY <2>1
    <3> HIDE DEF TypeInv
    <3> QED
        BY <2>1, <3>1, AppendProperties
  <2>3. /\ asyncResults' \in [Solvers -> Seq(Repetitions)]
        /\ \A s \in Solvers : asyncResults[s] # <<>> => asyncResults'[s] # <<>>
        /\ entries' \subseteq Solvers
        /\ \A s \in Solvers \ entries' : asyncResults'[s] = <<>>
    <3>1. /\ asyncResults' = [asyncResults EXCEPT ![SpawnSolver] = q]
          /\ entries' = entries \cup {SpawnSolver}
        BY <1>9 DEF SpawnPush
    <3> HIDE DEF q
    <3> QED
        BY <2>1, <2>2, <3>1
  <2>4. TypeOK'
    <3>1. /\ seed' \in 0 .. NumReps /\ remaining' \in 0 .. NumReps
          /\ spawnIdx' \in Nat \ {0}
        BY <1>9, ElementOfSeq DEF SpawnPush
    <3>2. enough' \in BOOLEAN /\ spawnPc' = "for"
        BY <1>9 DEF SpawnPush
    <3>3. UNCHANGED <<abort, solverIds, results, totalCompleted, home, outcome,
                      writerWaits, corrupt, collPc, collIdx>>
        BY <1>9 DEF SpawnPush
    <3> QED
        BY <2>3, <3>1, <3>2, <3>3
  <2>5. PopWindow'
    <3> SUFFICES ASSUME collPc = "pop" PROVE asyncResults'[CollSolver] # <<>>
        BY <1>9 DEF SpawnPush, CollSolver
    <3> QED
        BY <2>3, ElementOfSeq DEF CollSolver
  <2>6. (StartedTogether /\ LoopBounds)'
      BY <1>9 DEF SpawnPush
  <2> QED
      BY <2>4, <2>5, <2>6
<1>10. ASSUME SpawnUnlock PROVE TypeInv'
    BY <1>10 DEF SpawnUnlock, CollSolver, LeaveRead
<1>11. ASSUME SpawnJoin PROVE TypeInv'
    BY <1>11 DEF SpawnJoin, CollSolver
<1>12. ASSUME CollLoop PROVE TypeInv'
    BY <1>12 DEF CollLoop
<1>13. ASSUME CollLock PROVE TypeInv'
    BY <1>13 DEF CollLock
<1>14. ASSUME CollTake PROVE TypeInv'
  <2>1. CollSolver \in Solvers /\ asyncResults[CollSolver] # <<>>
      BY <1>14, ElementOfSeq DEF CollTake, CollSolver, Front
  <2>2. /\ Head(asyncResults[CollSolver]) \in Repetitions
        /\ results \in Seq(Repetitions)
      BY <2>1, HeadTailProperties
  <2>3. results' \in Seq(Repetitions)
      BY <1>14, <2>2, AppendProperties DEF CollTake
  <2> QED
      BY <1>14, <2>1, <2>3 DEF CollTake, CollSolver
<1>15. ASSUME CollThrow PROVE TypeInv'
    BY <1>15 DEF CollThrow, LeaveRead
<1>16. ASSUME CollPop PROVE TypeInv'
  <2>1. CollSolver \in Solvers /\ asyncResults[CollSolver] # <<>>
      BY <1>16, ElementOfSeq DEF CollPop, CollSolver
  <2>2. /\ asyncResults' \in [Solvers -> Seq(Repetitions)]
        /\ \A s \in Solvers \ entries : asyncResults'[s] = <<>>
      BY <1>16, <2>1, HeadTailProperties DEF CollPop
  <2> QED
      BY <1>16, <2>2 DEF CollPop
<1>17. ASSUME CollNext PROVE TypeInv'
    BY <1>17 DEF CollNext
<1>18. ASSUME CollUnlock PROVE TypeInv'
    BY <1>18 DEF CollUnlock, LeaveRead
<1>19. ASSUME Crash PROVE TypeInv'
    BY <1>19 DEF Crash
<1>20. ASSUME NEW k \in Repetitions, RunOne(k) PROVE TypeInv'
    BY <1>20 DEF RunOne, CollSolver
<1>21. ASSUME NEW id \in Solvers, WaitToAdd(id) PROVE TypeInv'
    BY <1>21 DEF WaitToAdd, CollSolver
<1>22. ASSUME UNCHANGED vars PROVE TypeInv'
    BY <1>22 DEF vars, CollSolver
<1>23. ASSUME SpawnMiss PROVE TypeInv'
    BY <1>23 DEF SpawnMiss, CollSolver
<1>24. ASSUME SpawnInsert PROVE TypeInv'
  <2>1. SpawnSolver \in Solvers
      BY <1>24, ElementOfSeq DEF SpawnInsert, SpawnSolver
  <2> QED
      BY <1>24, <2>1 DEF SpawnInsert, CollSolver
<1>25. ASSUME CollFind PROVE TypeInv'
    BY <1>25 DEF CollFind
<1>26. ASSUME CollInsert PROVE TypeInv'
  <2>1. CollSolver \in Solvers
      BY <1>26, ElementOfSeq DEF CollInsert, CollSolver
  <2> QED
      BY <1>26, <2>1 DEF CollInsert
<1>27. ASSUME CorruptMap PROVE TypeInv'
    BY <1>27 DEF CorruptMap, CollSolver
<1>28. ASSUME NEW s \in Solvers, LosePart(s) PROVE TypeInv'
  <2>1. PICK p : /\ p \in Seq(Repetitions)
                 /\ collPc = "pop" /\ s = CollSolver => p # <<>>
                 /\ asyncResults' = [asyncResults EXCEPT ![s] = p]
                 /\ entries' = IF p = <<>> THEN entries \ {s} ELSE entries
                 /\ s \in entries
      BY <1>28, PartFacts DEF LosePart
  <2>2. /\ asyncResults' \in [Solvers -> Seq(Repetitions)]
        /\ entries' \subseteq Solvers
        /\ \A r \in Solvers \ entries' : asyncResults'[r] = <<>>
        /\ asyncResults'[s] = p
        /\ \A r \in Solvers \ {s} : asyncResults'[r] = asyncResults[r]
      BY <2>1
  <2>3. UNCHANGED <<abort, solverIds, corrupt, results, totalCompleted, taskVars,
                    writerWaits, spawnVars, collVars>>
      BY <1>28 DEF LosePart
  <2>4. collPc = "pop" => CollSolver \in Solvers /\ CollSolver' = CollSolver
      BY <2>3, ElementOfSeq DEF CollSolver
  <2>5. collPc = "pop" => asyncResults'[CollSolver] # <<>>
      BY <2>1, <2>2, <2>4
  <2> QED
      BY <2>2, <2>3, <2>4, <2>5
<1> QED
    BY <1>1, <1>2, <1>3, <1>4, <1>5, <1>6, <1>7, <1>8, <1>9, <1>10, <1>11,
       <1>12, <1>13, <1>14, <1>15, <1>16, <1>17, <1>18, <1>19, <1>20, <1>21,
       <1>22, <1>23, <1>24, <1>25, <1>26, <1>27, <1>28
       DEF Next, Callers, Spawn, Collector, Races, Terminating

(* Type correctness of the wrapper: in particular the range-for and pop() of
   lines 124-134 never touch a queue that is missing or empty, and the counters
   of spawn never underflow (remaining is a uint64_t). *)
THEOREM TypeCorrect == Spec => []TypeOK
<1>1. Init => TypeInv
    BY TypeInvInit
<1>2. TypeInv /\ [Next]_vars => TypeInv'
    BY TypeInvStep
<1>3. TypeInv => TypeOK
    BY DEF TypeInv
<1> QED
    BY <1>1, <1>2, <1>3, PTL DEF Spec

-----------------------------------------------------------------------------
(***************************************************************************)
(* The cap on the queues.                                                  *)
(***************************************************************************)

(* Between the test of the cap and the push only the collector can change the
   queue, and it only shortens it. *)
RoomToPush ==
    ~RaceHarmful =>
        /\ \A s \in Solvers : Len(asyncResults[s]) <= QueueCap
        /\ spawnPc = "push" => Len(asyncResults[SpawnSolver]) < QueueCap

(* A step that leaves the queues and spawn's position alone keeps the cap. *)
LEMMA RoomFrame ==
    ASSUME TypeInv, RoomToPush, UNCHANGED asyncResults,
           spawnPc' = "push" => spawnPc = "push" /\ SpawnSolver' = SpawnSolver
    PROVE  RoomToPush'
BY DEF RoomToPush

LEMMA RoomStep == TypeInv /\ RoomToPush /\ [Next]_vars => RoomToPush'
<1> SUFFICES ASSUME TypeInv, RoomToPush, [Next]_vars PROVE RoomToPush'
    OBVIOUS
<1>1. ASSUME SpawnLaunch PROVE RoomToPush'
    BY <1>1 DEF SpawnLaunch, RoomToPush, SpawnSolver
<1>2. ASSUME SpawnPush PROVE RoomToPush'
  <2>1. /\ SpawnSolver \in Solvers /\ seed \in Repetitions
        /\ asyncResults \in [Solvers -> Seq(Repetitions)]
      BY <1>2, ElementOfSeq, NumRepsAssumption
         DEF SpawnPush, SpawnSolver, TypeInv, TypeOK, LoopBounds, Repetitions
  <2> DEFINE q == Append(asyncResults[SpawnSolver], seed)
  <2>2. Len(q) = Len(asyncResults[SpawnSolver]) + 1
    <3>1. asyncResults[SpawnSolver] \in Seq(Repetitions)
        BY <2>1
    <3> QED
        BY <2>1, <3>1, AppendProperties
  <2>3. /\ asyncResults' = [asyncResults EXCEPT ![SpawnSolver] = q]
        /\ spawnPc = "push" /\ spawnPc' = "for"
      BY <1>2 DEF SpawnPush
  <2>4. Len(asyncResults[SpawnSolver]) \in Nat
      BY <2>1, LenProperties
  <2> HIDE DEF q
  <2> QED
      BY <2>1, <2>2, <2>3, <2>4, QueueCapAssumption DEF RoomToPush
<1>3. ASSUME CollPop PROVE RoomToPush'
  <2>1. /\ CollSolver \in Solvers /\ asyncResults[CollSolver] # <<>>
        /\ asyncResults \in [Solvers -> Seq(Repetitions)]
      BY <1>3, ElementOfSeq
         DEF CollPop, CollSolver, TypeInv, TypeOK, PopWindow
  <2> DEFINE q == Tail(asyncResults[CollSolver])
  <2>2. Len(q) = Len(asyncResults[CollSolver]) - 1
    <3>1. asyncResults[CollSolver] \in Seq(Repetitions)
        BY <2>1
    <3> QED
        BY <2>1, <3>1, HeadTailProperties
  <2>3. /\ asyncResults' = [asyncResults EXCEPT ![CollSolver] = q]
        /\ spawnPc' = spawnPc /\ SpawnSolver' = SpawnSolver
      BY <1>3 DEF CollPop, spawnVars, SpawnSolver
  <2>4. \A s \in Solvers : /\ Len(asyncResults[s]) \in Nat
                          /\ Len(asyncResults'[s]) <= Len(asyncResults[s])
    <3> HIDE DEF q
    <3>1. \A s \in Solvers : Len(asyncResults[s]) \in Nat
        BY <2>1, LenProperties
    <3> QED
        BY <2>1, <2>2, <2>3, <3>1
  <2>5. spawnPc = "push" => SpawnSolver \in Solvers
      BY ElementOfSeq DEF TypeInv, TypeOK, LoopBounds, SpawnSolver
  <2>6. \A s \in Solvers : Len(asyncResults'[s]) \in Nat
    <3>1. asyncResults' \in [Solvers -> Seq(Repetitions)]
        BY <2>1, <2>3, HeadTailProperties
    <3> QED
        BY <3>1, LenProperties
  <2> QED
      BY <2>3, <2>4, <2>5, <2>6, QueueCapAssumption DEF RoomToPush
<1>4. ASSUME Callers PROVE RoomToPush'
    BY <1>4, RoomFrame
       DEF Callers, AddSolverId, WaitToAdd, SetSolverIds, SpawnBegin, Abort,
           SpawnReads, SpawnSolver, spawnVars
<1>5. ASSUME SpawnLoop \/ SpawnLock \/ SpawnMiss \/ SpawnInsert \/ SpawnSkip
             \/ SpawnUnlock \/ SpawnJoin \/ CorruptMap \/ Crash
      PROVE  RoomToPush'
    BY <1>5, RoomFrame
       DEF SpawnLoop, SpawnLock, SpawnMiss, SpawnInsert, SpawnSkip,
           SpawnUnlock, SpawnJoin, CorruptMap, Crash, spawnVars, SpawnSolver
<1>6. ASSUME CollLoop \/ CollLock \/ CollFind \/ CollInsert \/ CollTake
             \/ CollThrow \/ CollNext \/ CollUnlock
      PROVE  RoomToPush'
    BY <1>6, RoomFrame
       DEF CollLoop, CollLock, CollFind, CollInsert, CollTake, CollThrow,
           CollNext, CollUnlock, spawnVars, SpawnSolver
<1>7. ASSUME NEW k \in Repetitions, RunOne(k) PROVE RoomToPush'
    BY <1>7, RoomFrame DEF RunOne, spawnVars, SpawnSolver
<1>8. ASSUME UNCHANGED vars PROVE RoomToPush'
    BY <1>8, RoomFrame DEF vars, spawnVars, SpawnSolver
<1>9. ASSUME NEW s \in Solvers, LosePart(s) PROVE RoomToPush'
  <2>1. /\ asyncResults \in [Solvers -> Seq(Repetitions)]
        /\ \A r \in Solvers : Len(asyncResults[r]) \in Nat
      BY LenProperties DEF TypeInv, TypeOK
  <2>2. PICK p : /\ p \in Seq(Repetitions)
                 /\ Len(p) <= Len(asyncResults[s])
                 /\ asyncResults' = [asyncResults EXCEPT ![s] = p]
      BY <1>9, <2>1, PartFacts DEF LosePart
  <2>3. spawnPc' = spawnPc /\ SpawnSolver' = SpawnSolver
      BY <1>9 DEF LosePart, spawnVars, SpawnSolver
  <2>4. \A r \in Solvers : Len(asyncResults'[r]) <= Len(asyncResults[r])
      BY <2>1, <2>2
  <2>5. spawnPc = "push" => SpawnSolver \in Solvers
      BY ElementOfSeq DEF TypeInv, TypeOK, LoopBounds, SpawnSolver
  <2>6. \A r \in Solvers : Len(asyncResults'[r]) \in Nat
    <3>1. asyncResults' \in [Solvers -> Seq(Repetitions)]
        BY <2>1, <2>2
    <3> QED
        BY <3>1, LenProperties
  <2> QED
      BY <2>1, <2>3, <2>4, <2>5, <2>6, QueueCapAssumption DEF RoomToPush
<1> QED
    BY <1>1, <1>2, <1>3, <1>4, <1>5, <1>6, <1>7, <1>8, <1>9
       DEF Next, Spawn, Collector, Races, Terminating

(* No solver ever has more futures queued than the cap of line 201 allows,
   whatever the collector pops and callers register between the test and the
   push: for every number of solvers and repetitions, provided the data race on
   the queue does no harm. *)
THEOREM QueueBounded == Spec => []QueueBound
<1>1. Init => RoomToPush
    BY EmptySeq, QueueCapAssumption DEF Init, RoomToPush
<1>2. TypeInv /\ RoomToPush /\ [Next]_vars => RoomToPush'
    BY RoomStep
<1>3. RoomToPush => QueueBound
    BY DEF RoomToPush, QueueBound
<1> QED
    BY <1>1, <1>2, <1>3, TypeInvInit, TypeInvStep, PTL DEF Spec

-----------------------------------------------------------------------------
(***************************************************************************)
(* The shared lock.                                                        *)
(***************************************************************************)

(* The vector both threads iterate over is never changed under them: the
   unique_lock of addSolverId excludes them, and setSolverIds runs before
   either of them does. *)
THEOREM ListStable == Spec => IteratedListStable
<1>1. TypeInv /\ [Next]_vars
          => [SpawnReads \/ CollReads => UNCHANGED solverIds]_vars
  <2> SUFFICES ASSUME TypeInv, Next, SpawnReads \/ CollReads
               PROVE  UNCHANGED solverIds
      BY DEF vars
  <2>1. ~(\E id \in Solvers : AddSolverId(id))
      BY DEF AddSolverId
  <2>2. ~SetSolverIds(<<>>)
      BY DEF SetSolverIds, SpawnReads, CollReads, TypeInv, StartedTogether
  <2> QED
      BY <2>1, <2>2
         DEF Next, Callers, Spawn, Collector, WaitToAdd, SpawnBegin, Abort,
             SpawnLoop, SpawnLock, SpawnMiss, SpawnInsert, SpawnLaunch,
             SpawnSkip, SpawnPush, SpawnUnlock, SpawnJoin, CollLoop, CollLock,
             CollFind, CollInsert, CollTake, CollThrow, CollPop, CollNext,
             CollUnlock, Races, CorruptMap, LosePart, Crash, RunOne,
             Terminating, vars
<1> QED
    BY <1>1, TypeInvInit, TypeInvStep, PTL DEF Spec, IteratedListStable

=============================================================================
