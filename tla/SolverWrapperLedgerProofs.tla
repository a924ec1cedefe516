--------------------- MODULE SolverWrapperLedgerProofs ---------------------
(***************************************************************************)
(* No repetition is lost or reported twice, each solver's results appear   *)
(* in launch order, and SolverWrapper implements RepetitionLedger: for     *)
(* every set of solvers, every number of repetitions and every queue cap,  *)
(* with failing repetitions and with the data race on the queues.          *)
(***************************************************************************)
EXTENDS SolverWrapperProofs

-----------------------------------------------------------------------------
(***************************************************************************)
(* Sequences of repetitions.                                               *)
(***************************************************************************)

Increasing(q) == \A i, j \in DOMAIN q : i < j => q[i] < q[j]

(* What push does to a queue of increasing repetitions. *)
LEMMA PushFacts ==
    ASSUME NEW q \in Seq(Repetitions), NEW k \in Repetitions
    PROVE  /\ Append(q, k) \in Seq(Repetitions)
           /\ Range(Append(q, k)) = Range(q) \cup {k}
           /\ Increasing(q) /\ (\A m \in Range(q) : m < k)
                  => Increasing(Append(q, k))
<1> DEFINE a == Append(q, k)
<1>1. /\ a \in Seq(Repetitions) /\ Len(a) = Len(q) + 1
      /\ \A i \in 1 .. Len(q) : a[i] = q[i]
      /\ a[Len(q) + 1] = k
    BY AppendProperties
<1>2. /\ DOMAIN q = 1 .. Len(q) /\ Len(q) \in Nat
      /\ DOMAIN a = 1 .. Len(q) + 1
    BY <1>1, LenProperties
<1> HIDE DEF a
<1>3. Range(a) = Range(q) \cup {k}
    BY <1>1, <1>2 DEF Range
<1>4. ASSUME Increasing(q), \A m \in Range(q) : m < k
      PROVE  Increasing(a)
    BY <1>1, <1>2, <1>4 DEF Increasing, Range
<1> QED
    BY <1>1, <1>3, <1>4 DEF a

(* What pop does to it. *)
LEMMA PopFacts ==
    ASSUME NEW q \in Seq(Repetitions), q # <<>>
    PROVE  /\ Head(q) \in Repetitions
           /\ Tail(q) \in Seq(Repetitions)
           /\ Range(q) = {Head(q)} \cup Range(Tail(q))
           /\ Increasing(q) => /\ Increasing(Tail(q))
                               /\ \A m \in Range(Tail(q)) : Head(q) < m
<1> DEFINE t == Tail(q)
<1>1. /\ Head(q) \in Repetitions /\ t \in Seq(Repetitions)
      /\ Len(t) = Len(q) - 1
      /\ \A i \in 1 .. Len(t) : t[i] = q[i + 1]
    BY HeadTailProperties
<1>2. /\ DOMAIN q = 1 .. Len(q) /\ Len(q) \in Nat /\ Len(q) # 0
      /\ DOMAIN t = 1 .. Len(q) - 1
    BY <1>1, LenProperties, EmptySeq
<1>3. Head(q) = q[1]
    OBVIOUS
<1> HIDE DEF t
<1>4. Range(q) = {q[1]} \cup Range(t)
  <2>1. ASSUME NEW i \in DOMAIN q PROVE q[i] \in {q[1]} \cup Range(t)
    <3>1. CASE i = 1
        BY <3>1
    <3>2. CASE i # 1
      <4>1. i - 1 \in 1 .. Len(t) /\ i - 1 \in DOMAIN t /\ t[i - 1] = q[i]
          BY <1>1, <1>2, <3>2
      <4> QED
          BY <4>1 DEF Range
    <3> QED
        BY <3>1, <3>2
  <2>2. \A i \in DOMAIN t : t[i] \in Range(q)
    <3> TAKE i \in DOMAIN t
    <3>1. i + 1 \in DOMAIN q /\ t[i] = q[i + 1]
        BY <1>1, <1>2
    <3> QED
        BY <3>1 DEF Range
  <2>3. 1 \in DOMAIN q
      BY <1>2
  <2> QED
      BY <2>1, <2>2, <2>3 DEF Range
<1>5. ASSUME Increasing(q)
      PROVE  Increasing(t) /\ \A m \in Range(t) : q[1] < m
  <2>1. \A i \in DOMAIN t : /\ i \in Int /\ i + 1 \in DOMAIN q /\ 1 < i + 1
                            /\ t[i] = q[i + 1]
      BY <1>1, <1>2
  <2>2. Increasing(t)
      BY <1>5, <2>1 DEF Increasing
  <2>3. 1 \in DOMAIN q
      BY <1>2
  <2> QED
      BY <1>5, <2>1, <2>2, <2>3 DEF Increasing, Range
<1> QED
    BY <1>1, <1>3, <1>4, <1>5 DEF t

(* An increasing sequence holds nothing twice. *)
LEMMA IncreasingIsInjective ==
    ASSUME NEW q \in Seq(Repetitions), Increasing(q)
    PROVE  IsInjective(q)
<1>1. DOMAIN q = 1 .. Len(q) /\ Len(q) \in Nat
    BY LenProperties
<1>2. \A i \in DOMAIN q : q[i] \in Int
    BY <1>1, ElementOfSeq, NumRepsAssumption DEF Repetitions
<1> QED
    BY <1>1, <1>2 DEF Increasing, IsInjective

-----------------------------------------------------------------------------
(***************************************************************************)
(* The inductive invariant.                                                *)
(***************************************************************************)

(* A queue is in launch order and holds repetitions that were launched. *)
QueuesInOrder ==
    \A s \in Solvers :
        /\ Increasing(asyncResults[s])
        /\ \A k \in Range(asyncResults[s]) : k < seed

(* Exactly the repetitions below seed have a solver, and the one spawn is about
   to push. *)
LaunchedBelowSeed ==
    /\ \A k \in Repetitions :
          /\ k < seed => home[k] # NoSolver
          /\ home[k] # NoSolver
                 => k < seed \/ (k = seed /\ spawnPc \in {"push", "crashed"})
    /\ spawnPc = "idle" => seed = 0

(* A repetition that was collected was launched before all those its solver's
   queue still owns. *)
CollectedBeforeOwned ==
    spawnPc # "crashed" =>
        \A k \in Range(results) : \A s \in Solvers :
            home[k] = s => \A m \in Range(Owned(s)) : k < m

(* A repetition that was pushed is missing only if the race on the map has done
   harm. *)
NoneLost ==
    spawnPc # "crashed" /\ ~corrupt =>
        \A k \in Repetitions :
            k < seed => \/ k \in Range(results)
                        \/ k \in Range(Owned(home[k]))

CollectedOnce ==
    /\ IsInjective(results)
    /\ \A k \in Range(results) : k < seed

(* When spawn has left, the collector has. *)
EndsTogether ==
    spawnPc \in {"returned", "threw", "crashed"}
        => collPc \in {"ended", "threw", "crashed"}

LedgerInv ==
    /\ EndsTogether
    /\ QueuesInOrder /\ QueueMatchesHome /\ LaunchedBelowSeed
    /\ CollectedBeforeOwned /\ NoneLost
    /\ CollectedOnce /\ CollectedInLaunchOrder

(* The types the proofs below need, apart from the rest of TypeInv. *)
LEMMA Types ==
    ASSUME TypeInv
    PROVE  /\ asyncResults \in [Solvers -> Seq(Repetitions)]
           /\ results \in Seq(Repetitions)
           /\ home \in [Repetitions -> Solvers \cup {NoSolver}]
           /\ seed \in Nat
           /\ Repetitions \subseteq Nat
           /\ spawnPc = "push" => /\ SpawnSolver \in Solvers
                                  /\ seed \in Repetitions
           /\ collPc \in {"for", "pop"} => CollSolver \in Solvers
           /\ collPc = "pop" => /\ CollSolver \in Solvers
                                /\ asyncResults[CollSolver] # <<>>
<1> USE NumRepsAssumption
<1>1. /\ seed \in Nat /\ Repetitions \subseteq Nat
      /\ asyncResults \in [Solvers -> Seq(Repetitions)]
      /\ results \in Seq(Repetitions)
      /\ home \in [Repetitions -> Solvers \cup {NoSolver}]
    BY DEF TypeInv, TypeOK, Repetitions
<1>2. spawnPc = "push" => SpawnSolver \in Solvers /\ seed \in Repetitions
    BY ElementOfSeq
       DEF TypeInv, TypeOK, LoopBounds, Repetitions, SpawnSolver
<1>3. collPc \in {"for", "pop"} => CollSolver \in Solvers
    BY ElementOfSeq DEF TypeInv, TypeOK, PopWindow, CollSolver
<1>4. collPc = "pop" => /\ CollSolver \in Solvers
                        /\ asyncResults[CollSolver] # <<>>
    BY <1>3 DEF TypeInv, PopWindow
<1> QED
    BY <1>1, <1>2, <1>3, <1>4

(* What a queue still owns is part of it. *)
LEMMA OwnedFacts ==
    ASSUME TypeInv, NEW s \in Solvers
    PROVE  /\ Owned(s) \in Seq(Repetitions)
           /\ Range(Owned(s)) \subseteq Range(asyncResults[s])
           /\ Increasing(asyncResults[s]) => Increasing(Owned(s))
<1>1. asyncResults[s] \in Seq(Repetitions)
    BY Types
<1>2. CASE collPc = "pop" /\ s = CollSolver
    BY <1>1, <1>2, Types, PopFacts DEF Owned
<1>3. CASE ~(collPc = "pop" /\ s = CollSolver)
    BY <1>1, <1>3 DEF Owned
<1> QED
    BY <1>2, <1>3

(* What the invariant says of the places a repetition can be in. *)
LEMMA OnePlace == TypeInv /\ LedgerInv => EachRepetitionInOnePlace
<1> SUFFICES ASSUME TypeInv, LedgerInv, spawnPc # "crashed"
             PROVE  /\ IsInjective(results)
                    /\ \A s \in Solvers :
                          /\ IsInjective(Owned(s))
                          /\ Range(Owned(s)) \cap Range(results) = {}
                          /\ \A t \in Solvers \ {s} :
                                Range(Owned(s)) \cap Range(Owned(t)) = {}
                    /\ Range(results) \subseteq 0 .. (seed - 1)
                    /\ \A s \in Solvers :
                          Range(Owned(s)) \subseteq 0 .. (seed - 1)
                    /\ ~corrupt =>
                          \A k \in 0 .. (seed - 1) \ Range(results) :
                             \E s \in Solvers : k \in Range(Owned(s))
    BY DEF EachRepetitionInOnePlace
<1>1. IsInjective(results)
    BY DEF LedgerInv, CollectedOnce
<1>2. \A s \in Solvers : /\ Range(Owned(s)) \subseteq Range(asyncResults[s])
                         /\ Range(Owned(s)) \subseteq Repetitions
                         /\ IsInjective(Owned(s))
    BY OwnedFacts, RangeOfSeq, IncreasingIsInjective
       DEF LedgerInv, QueuesInOrder
<1>3. \A s \in Solvers : \A k \in Range(Owned(s)) : home[k] = s /\ k < seed
    BY <1>2 DEF LedgerInv, QueueMatchesHome, QueuesInOrder
<1>4. ASSUME NEW s \in Solvers, NEW k \in Range(Owned(s)), k \in Range(results)
      PROVE  FALSE
  <2>1. home[k] = s /\ k \in Nat
      BY <1>2, <1>3, Types
  <2> QED
      BY <1>4, <2>1 DEF LedgerInv, CollectedBeforeOwned
<1>5. \A s \in Solvers : \A t \in Solvers \ {s} :
          Range(Owned(s)) \cap Range(Owned(t)) = {}
    BY <1>3
<1>6. /\ Range(results) \subseteq Repetitions
      /\ \A k \in Repetitions : k < seed <=> k \in 0 .. (seed - 1)
      /\ 0 .. (seed - 1) \subseteq Repetitions
    BY Types, RangeOfSeq, NumRepsAssumption
       DEF Repetitions, TypeInv, TypeOK
<1>7. Range(results) \subseteq 0 .. (seed - 1)
    BY <1>6 DEF LedgerInv, CollectedOnce
<1>8. ASSUME NEW s \in Solvers PROVE Range(Owned(s)) \subseteq 0 .. (seed - 1)
    BY <1>2, <1>3, <1>6
<1>9. ASSUME NEW k \in 0 .. (seed - 1), k \notin Range(results), ~corrupt
      PROVE  \E s \in Solvers : k \in Range(Owned(s))
  <2>1. k \in Repetitions /\ k < seed
      BY <1>6
  <2>2. home[k] \in Solvers /\ k \in Range(Owned(home[k]))
      BY <1>9, <2>1, Types DEF LedgerInv, NoneLost, LaunchedBelowSeed
  <2> QED
      BY <2>2
<1> QED
    BY <1>1, <1>2, <1>4, <1>5, <1>7, <1>8, <1>9

(* A step that leaves the books alone, and the position of whoever is about to
   write into them. *)
LEMMA LedgerFrame ==
    ASSUME LedgerInv,
           UNCHANGED <<asyncResults, results, home, seed>>,
           collPc' = "pop" <=> collPc = "pop",
           collPc = "pop" => CollSolver' = CollSolver,
           spawnPc' = "push" => spawnPc = "push" /\ SpawnSolver' = SpawnSolver,
           spawnPc = "push" => spawnPc' = "push",
           spawnPc' = "crashed" <=> spawnPc = "crashed",
           corrupt => corrupt',
           EndsTogether',
           spawnPc' = "idle" => spawnPc = "idle"
    PROVE  LedgerInv'
<1>1. ASSUME NEW s \in Solvers PROVE Owned(s)' = Owned(s)
    BY DEF Owned
<1>2. (/\ EndsTogether /\ QueuesInOrder
       /\ CollectedOnce /\ CollectedInLaunchOrder)'
    BY DEF LedgerInv, EndsTogether, QueuesInOrder, CollectedOnce,
           CollectedInLaunchOrder
<1>3. QueueMatchesHome' /\ LaunchedBelowSeed'
    BY DEF LedgerInv, QueueMatchesHome, LaunchedBelowSeed
<1>4. CollectedBeforeOwned'
    BY <1>1 DEF LedgerInv, CollectedBeforeOwned
<1>5. NoneLost'
  <2> SUFFICES ASSUME spawnPc # "crashed", ~corrupt,
                      NEW k \in Repetitions, k < seed
               PROVE  k \in Range(results) \/ k \in Range(Owned(home[k])')
      BY DEF NoneLost
  <2>1. Owned(home[k])' = Owned(home[k])
      BY DEF Owned
  <2> QED
      BY <2>1 DEF LedgerInv, NoneLost
<1> QED
    BY <1>2, <1>3, <1>4, <1>5 DEF LedgerInv

-----------------------------------------------------------------------------
(***************************************************************************)
(* The four steps that write into the books.                               *)
(***************************************************************************)

(* The future spawn gets for repetition `seed` is not queued yet. *)
LEMMA LaunchKeeps == TypeInv /\ LedgerInv /\ SpawnLaunch => LedgerInv'
<1> SUFFICES ASSUME TypeInv, LedgerInv, SpawnLaunch PROVE LedgerInv'
    OBVIOUS
<1>1. /\ spawnPc = "for" /\ spawnPc' = "push"
      /\ home' = [home EXCEPT ![seed] = SpawnSolver]
      /\ UNCHANGED <<asyncResults, results, seed, solverIds, collPc, collIdx>>
      /\ UNCHANGED corrupt
      /\ SpawnSolver' = SpawnSolver /\ CollSolver' = CollSolver
    BY DEF SpawnLaunch, mapVars, collVars, SpawnSolver, CollSolver
<1>2. SpawnSolver \in Solvers /\ seed \in Repetitions
    BY <1>1, ElementOfSeq, NumRepsAssumption
       DEF SpawnLaunch, SpawnSolver, TypeInv, TypeOK, LoopBounds, Repetitions
<1>3. \A s \in Solvers : Owned(s)' = Owned(s)
    BY <1>1 DEF Owned
<1>4. \A k \in Repetitions : k < seed => home'[k] = home[k]
    BY <1>1, <1>2, Types
<1>5. /\ \A s \in Solvers : Range(asyncResults[s]) \subseteq Repetitions
      /\ Range(results) \subseteq Repetitions
    BY Types, RangeOfSeq
<1>6. /\ \A s \in Solvers :
            \A k \in Range(asyncResults[s]) : home'[k] = home[k]
      /\ \A k \in Range(results) : home'[k] = home[k]
    BY <1>4, <1>5 DEF LedgerInv, QueuesInOrder, CollectedOnce
<1>7. (QueuesInOrder /\ CollectedOnce)'
    BY <1>1 DEF LedgerInv, QueuesInOrder, CollectedOnce
<1>8. CollectedInLaunchOrder'
    BY <1>1, <1>6 DEF LedgerInv, CollectedInLaunchOrder, Range
<1>9. home'[seed] = SpawnSolver
    BY <1>1, <1>2, Types
<1>10. QueueMatchesHome'
    BY <1>1, <1>6, <1>9 DEF LedgerInv, QueueMatchesHome
<1>11. LaunchedBelowSeed'
  <2>1. \A k \in Repetitions \ {seed} : home'[k] = home[k]
      BY <1>1, Types
  <2> QED
      BY <1>1, <1>2, <1>9, <2>1, SolversAssumption
         DEF LedgerInv, LaunchedBelowSeed
<1>12. CollectedBeforeOwned'
    BY <1>1, <1>3, <1>6 DEF LedgerInv, CollectedBeforeOwned
<1>13. NoneLost'
  <2> SUFFICES ASSUME NEW k \in Repetitions, k < seed, ~corrupt
               PROVE  (k \in Range(results) \/ k \in Range(Owned(home[k])))'
      BY <1>1 DEF NoneLost
  <2>1. Owned(home[k])' = Owned(home[k])
      BY <1>1, <1>4 DEF Owned
  <2> QED
      BY <1>1, <2>1 DEF LedgerInv, NoneLost
<1> QED
    BY <1>1, <1>7, <1>8, <1>10, <1>11, <1>12, <1>13 DEF LedgerInv, EndsTogether

(* It goes to the end of the queue of the solver that runs it. *)
LEMMA PushKeeps == TypeInv /\ LedgerInv /\ SpawnPush => LedgerInv'
<1> SUFFICES ASSUME TypeInv, LedgerInv, SpawnPush PROVE LedgerInv'
    OBVIOUS
<1> DEFINE q == Append(asyncResults[SpawnSolver], seed)
<1>1. /\ spawnPc = "push" /\ spawnPc' = "for" /\ seed' = seed + 1
      /\ asyncResults' = [asyncResults EXCEPT ![SpawnSolver] = q]
      /\ UNCHANGED <<results, home, solverIds, corrupt, collPc, collIdx>>
      /\ CollSolver' = CollSolver
    BY DEF SpawnPush, taskVars, collVars, CollSolver
<1>2. /\ SpawnSolver \in Solvers /\ seed \in Repetitions /\ seed \in Nat
      /\ Repetitions \subseteq Nat
      /\ asyncResults \in [Solvers -> Seq(Repetitions)]
      /\ home[seed] = SpawnSolver
    BY <1>1, Types DEF LedgerInv, QueueMatchesHome
<1>3. /\ Range(q) = Range(asyncResults[SpawnSolver]) \cup {seed}
      /\ Increasing(q)
    BY <1>2, PushFacts DEF LedgerInv, QueuesInOrder
<1>4. ASSUME NEW s \in Solvers
      PROVE  Range(Owned(s)') = Range(Owned(s))
                 \cup (IF s = SpawnSolver THEN {seed} ELSE {})
  <2>1. CASE s # SpawnSolver
      BY <1>1, <1>2, <2>1 DEF Owned
  <2>2. CASE s = SpawnSolver /\ ~(collPc = "pop" /\ s = CollSolver)
      BY <1>1, <1>2, <1>3, <2>2 DEF Owned
  <2>3. CASE s = SpawnSolver /\ collPc = "pop" /\ s = CollSolver
    <3>1. asyncResults[s] \in Seq(Repetitions) /\ asyncResults[s] # <<>>
        BY <1>2, <2>3, Types
    <3>2. Tail(q) = Append(Tail(asyncResults[s]), seed)
        BY <1>2, <2>3, <3>1, HeadTailAppend
    <3>3. Range(Tail(q)) = Range(Tail(asyncResults[s])) \cup {seed}
        BY <1>2, <3>1, <3>2, PopFacts, PushFacts
    <3>4. Owned(s) = Tail(asyncResults[s]) /\ Owned(s)' = Tail(q)
        BY <1>1, <1>2, <2>3 DEF Owned
    <3> QED
        BY <2>3, <3>3, <3>4
  <2> QED
      BY <2>1, <2>2, <2>3
<1> HIDE DEF q
<1>5. QueuesInOrder' /\ QueueMatchesHome'
  <2>1. ASSUME NEW s \in Solvers
        PROVE  Range(asyncResults'[s]) = Range(asyncResults[s])
                   \cup (IF s = SpawnSolver THEN {seed} ELSE {})
      BY <1>1, <1>2, <1>3
  <2>2. ASSUME NEW s \in Solvers PROVE Increasing(asyncResults'[s])
      BY <1>1, <1>2, <1>3 DEF LedgerInv, QueuesInOrder
  <2>3. \A s \in Solvers : Range(asyncResults[s]) \subseteq Nat
      BY <1>2, RangeOfSeq
  <2>4. QueueMatchesHome'
      BY <1>1, <1>2, <2>1 DEF LedgerInv, QueueMatchesHome
  <2>5. ASSUME NEW s \in Solvers, NEW k \in Range(asyncResults'[s])
        PROVE  k < seed'
    <3>1. k = seed \/ k \in Range(asyncResults[s])
        BY <2>1
    <3>2. k \in Nat /\ (k = seed \/ k < seed)
        BY <1>2, <2>3, <3>1 DEF LedgerInv, QueuesInOrder
    <3> QED
        BY <1>1, <1>2, <3>2
  <2> QED
      BY <2>2, <2>4, <2>5 DEF QueuesInOrder
<1>6. Range(results) \subseteq Nat
    BY Types, RangeOfSeq
<1>7. CollectedOnce' /\ CollectedInLaunchOrder'
    BY <1>1, <1>2, <1>6
       DEF LedgerInv, CollectedOnce, CollectedInLaunchOrder
<1>8. LaunchedBelowSeed'
    BY <1>1, <1>2, SolversAssumption DEF LedgerInv, LaunchedBelowSeed
<1>9. CollectedBeforeOwned'
    BY <1>1, <1>4, <1>6
       DEF LedgerInv, CollectedBeforeOwned, CollectedOnce
<1>10. NoneLost'
  <2> SUFFICES ASSUME NEW k \in Repetitions, k < seed + 1, ~corrupt
               PROVE  (k \in Range(results) \/ k \in Range(Owned(home[k])))'
      BY <1>1 DEF NoneLost
  <2>1. CASE k = seed
    <3>1. PICK s \in Solvers : s = SpawnSolver /\ home'[k] = s
        BY <1>1, <1>2, <2>1
    <3>2. seed \in Range(Owned(s)')
        BY <1>4, <3>1
    <3>3. Owned(home[k])' = Owned(s)'
        BY <3>1 DEF Owned
    <3> QED
        BY <2>1, <3>2, <3>3
  <2>2. CASE k # seed
    <3>1. k < seed /\ home[k] \in Solvers
        BY <1>2, <2>2, Types DEF LedgerInv, LaunchedBelowSeed
    <3> QED
        BY <1>1, <1>4, <3>1 DEF LedgerInv, NoneLost
  <2> QED
      BY <2>1, <2>2
<1> QED
    BY <1>1, <1>5, <1>7, <1>8, <1>9, <1>10 DEF LedgerInv, EndsTogether

(* The collector moves the front result out: the queue does not own it any
   more, and no later one of that solver was collected before it. *)
LEMMA TakeKeeps == TypeInv /\ LedgerInv /\ CollTake => LedgerInv'
<1> SUFFICES ASSUME TypeInv, LedgerInv, CollTake PROVE LedgerInv'
    OBVIOUS
<1>1. PICK c \in Solvers : c = CollSolver
    BY Types DEF CollTake
<1> DEFINE q == asyncResults[c]
           k == Head(q)
<1>2. /\ collPc = "for" /\ collPc' = "pop" /\ results' = Append(results, k)
      /\ UNCHANGED <<asyncResults, home, seed, spawnPc, solverIds, spawnIdx>>
      /\ UNCHANGED corrupt
      /\ q # <<>> /\ CollSolver' = c /\ SpawnSolver' = SpawnSolver
    BY <1>1
       DEF CollTake, Front, mapVars, taskVars, spawnVars, SpawnSolver,
           CollSolver
<1>3. /\ q \in Seq(Repetitions) /\ results \in Seq(Repetitions)
      /\ Repetitions \subseteq Nat
    BY Types
<1>4. /\ k \in Repetitions /\ Range(q) = {k} \cup Range(Tail(q))
      /\ \A m \in Range(Tail(q)) : k < m
    BY <1>2, <1>3, PopFacts DEF LedgerInv, QueuesInOrder
<1>5. Owned(c) = q /\ Owned(c)' = Tail(q)
    BY <1>1, <1>2 DEF Owned
<1>6. \A s \in Solvers \ {c} : Owned(s)' = Owned(s)
    BY <1>2 DEF Owned
<1>7. \A m \in Range(q) : home[m] = c /\ m < seed
    BY DEF LedgerInv, QueueMatchesHome, QueuesInOrder
<1> HIDE DEF q, k
<1>8. /\ home[k] = c /\ k < seed
      /\ spawnPc # "crashed" => k \notin Range(results)
  <2>1. k \in Range(q)
      BY <1>4
  <2>2. home[k] = c /\ k < seed /\ k \in Nat
      BY <1>7, <1>3, <1>4, <2>1
  <2>3. ASSUME spawnPc # "crashed", k \in Range(results) PROVE FALSE
      BY <1>5, <2>1, <2>2, <2>3 DEF LedgerInv, CollectedBeforeOwned
  <2> QED
      BY <2>2, <2>3
<1>9. /\ results' \in Seq(Repetitions) /\ Len(results') = Len(results) + 1
      /\ \A i \in 1 .. Len(results) : results'[i] = results[i]
      /\ results'[Len(results) + 1] = k
      /\ DOMAIN results = 1 .. Len(results) /\ Len(results) \in Nat
      /\ DOMAIN results' = 1 .. Len(results) + 1
      /\ Range(results') = Range(results) \cup {k}
  <2>1. /\ Append(results, k) \in Seq(Repetitions)
        /\ Len(Append(results, k)) = Len(results) + 1
        /\ \A i \in 1 .. Len(results) : Append(results, k)[i] = results[i]
        /\ Append(results, k)[Len(results) + 1] = k
      BY <1>3, <1>4, AppendProperties
  <2>2. Range(Append(results, k)) = Range(results) \cup {k}
      BY <1>3, <1>4, PushFacts
  <2>3. DOMAIN results = 1 .. Len(results) /\ Len(results) \in Nat
      BY <1>3, LenProperties
  <2>4. DOMAIN results' = 1 .. Len(results')
      BY <1>2, <2>1, LenProperties
  <2> QED
      BY <1>2, <2>1, <2>2, <2>3, <2>4
<1>10. spawnPc # "crashed"
    BY <1>2 DEF LedgerInv, EndsTogether
<1>11. CollectedOnce'
  <2>1. IsInjective(results')
      BY <1>8, <1>9, <1>10
         DEF LedgerInv, CollectedOnce, IsInjective, Range
  <2> QED
      BY <1>2, <1>8, <1>9, <2>1 DEF LedgerInv, CollectedOnce
<1>12. CollectedInLaunchOrder'
  <2> SUFFICES ASSUME NEW i \in DOMAIN results', NEW j \in DOMAIN results',
                      i < j, home[results'[i]] = home[results'[j]]
               PROVE  results'[i] < results'[j]
      BY <1>2 DEF CollectedInLaunchOrder
  <2>1. i \in DOMAIN results /\ results'[i] = results[i]
      BY <1>9
  <2>2. CASE j = Len(results) + 1
    <3>1. /\ results'[j] = k /\ results[i] \in Range(results)
          /\ home[results[i]] = c
        BY <1>8, <1>9, <2>1, <2>2 DEF Range
    <3>2. k \in Range(Owned(c))
        BY <1>4, <1>5
    <3> QED
        BY <1>10, <2>1, <3>1, <3>2 DEF LedgerInv, CollectedBeforeOwned
  <2>3. CASE j # Len(results) + 1
    <3>1. j \in DOMAIN results /\ results'[j] = results[j]
        BY <1>9, <2>3
    <3> QED
        BY <2>1, <3>1 DEF LedgerInv, CollectedInLaunchOrder
  <2> QED
      BY <2>2, <2>3
<1>13. CollectedBeforeOwned'
  <2> SUFFICES ASSUME NEW r \in Range(results'), NEW s \in Solvers,
                      home[r] = s, NEW m \in Range(Owned(s)')
               PROVE  r < m
      BY <1>2 DEF CollectedBeforeOwned
  <2>1. CASE s = c
      BY <1>4, <1>5, <1>9, <1>10, <2>1
         DEF LedgerInv, CollectedBeforeOwned
  <2>2. CASE s # c
      BY <1>6, <1>8, <1>9, <1>10, <2>2
         DEF LedgerInv, CollectedBeforeOwned
  <2> QED
      BY <2>1, <2>2
<1>14. NoneLost'
  <2> SUFFICES ASSUME NEW r \in Repetitions, r < seed, ~corrupt
               PROVE  (r \in Range(results) \/ r \in Range(Owned(home[r])))'
      BY <1>2 DEF NoneLost
  <2>1. PICK s \in Solvers : s = home[r] /\ s = home'[r]
      BY <1>2, Types DEF LedgerInv, LaunchedBelowSeed
  <2>2. r \in Range(results) \/ r \in Range(Owned(s))
      BY <1>10, <2>1, ~corrupt DEF LedgerInv, NoneLost
  <2>3. Owned(home[r])' = Owned(s)'
      BY <2>1 DEF Owned
  <2>4. r \in Range(results') \/ r \in Range(Owned(s)')
      BY <1>4, <1>5, <1>6, <1>9, <2>2
  <2> QED
      BY <2>3, <2>4
<1>15. (QueuesInOrder /\ QueueMatchesHome /\ LaunchedBelowSeed)'
    BY <1>2
       DEF LedgerInv, QueuesInOrder, QueueMatchesHome, LaunchedBelowSeed
<1> QED
    BY <1>2, <1>10, <1>11, <1>12, <1>13, <1>14, <1>15
       DEF LedgerInv, EndsTogether

(* pop() removes the future the queue no longer owned. *)
LEMMA PopKeeps == TypeInv /\ LedgerInv /\ CollPop => LedgerInv'
<1> SUFFICES ASSUME TypeInv, LedgerInv, CollPop PROVE LedgerInv'
    OBVIOUS
<1>1. PICK c \in Solvers : c = CollSolver /\ asyncResults[c] # <<>>
    BY Types DEF CollPop
<1> DEFINE t == Tail(asyncResults[c])
<1>2. /\ collPc = "pop" /\ collPc' = "for"
      /\ asyncResults' = [asyncResults EXCEPT ![c] = t]
      /\ UNCHANGED <<results, home, seed, spawnPc, solverIds, spawnIdx>>
      /\ UNCHANGED corrupt /\ SpawnSolver' = SpawnSolver
    BY <1>1 DEF CollPop, mapVars, taskVars, spawnVars, SpawnSolver
<1>3. asyncResults \in [Solvers -> Seq(Repetitions)]
    BY Types
<1>4. \A s \in Solvers : Owned(s)' = Owned(s)
    BY <1>1, <1>2, <1>3 DEF Owned
<1>5. Increasing(t) /\ Range(t) \subseteq Range(asyncResults[c])
    BY <1>1, <1>3, PopFacts DEF LedgerInv, QueuesInOrder
<1> HIDE DEF t
<1>6. (QueuesInOrder /\ QueueMatchesHome)'
    BY <1>2, <1>3, <1>5 DEF LedgerInv, QueuesInOrder, QueueMatchesHome
<1>7. (LaunchedBelowSeed /\ CollectedOnce /\ CollectedInLaunchOrder)'
    BY <1>2
       DEF LedgerInv, LaunchedBelowSeed, CollectedOnce, CollectedInLaunchOrder
<1>8. CollectedBeforeOwned'
    BY <1>2, <1>4 DEF LedgerInv, CollectedBeforeOwned
<1>9. NoneLost'
  <2> SUFFICES ASSUME NEW r \in Repetitions, r < seed, spawnPc # "crashed",
                      ~corrupt
               PROVE  (r \in Range(results) \/ r \in Range(Owned(home[r])))'
      BY <1>2 DEF NoneLost
  <2>1. PICK s \in Solvers : s = home[r] /\ s = home'[r]
      BY <1>2, Types DEF LedgerInv, LaunchedBelowSeed
  <2>2. Owned(home[r])' = Owned(s)'
      BY <2>1 DEF Owned
  <2> QED
      BY <1>2, <1>4, <2>1, <2>2 DEF LedgerInv, NoneLost
<1> QED
    BY <1>2, <1>6, <1>7, <1>8, <1>9 DEF LedgerInv, EndsTogether

(* What any part of a queue is in order with, when the queue is. *)
LEMMA PartOrder ==
    ASSUME NEW q \in Seq(Repetitions),
           NEW i \in 0 .. Len(q), NEW j \in 0 .. Len(q)
    PROVE  LET p == SubSeq(q, i + 1, j) IN
           /\ p \in Seq(Repetitions)
           /\ Range(p) \subseteq Range(q)
           /\ Increasing(q) => Increasing(p)
           /\ i = 0 /\ j > 0 =>
                  /\ p # <<>> /\ q # <<>>
                  /\ Range(Tail(p)) \subseteq Range(Tail(q))
<1> DEFINE p == SubSeq(q, i + 1, j)
<1>1. DOMAIN q = 1 .. Len(q) /\ Len(q) \in Nat
    BY LenProperties
<1>2. /\ p \in Seq(Repetitions)
      /\ Len(p) = IF i + 1 <= j THEN j - (i + 1) + 1 ELSE 0
      /\ \A n \in 1 .. j - (i + 1) + 1 : p[n] = q[n + i]
  <2>1. \A n \in 1 .. j - (i + 1) + 1 : (i + 1) + n - 1 = n + i
      BY <1>1
  <2> QED
      BY <1>1, <2>1, SubSeqProperties
<1>3. DOMAIN p = 1 .. Len(p)
    BY <1>2, LenProperties
<1> HIDE DEF p
<1>4. \A n \in DOMAIN p : n \in Int /\ n + i \in DOMAIN q /\ p[n] = q[n + i]
    BY <1>1, <1>2, <1>3
<1>5. Range(p) \subseteq Range(q)
    BY <1>4 DEF Range
<1>6. Increasing(q) => Increasing(p)
    BY <1>4 DEF Increasing
<1>7. ASSUME i = 0, j > 0
      PROVE  p # <<>> /\ q # <<>> /\ Range(Tail(p)) \subseteq Range(Tail(q))
  <2>1. p # <<>> /\ q # <<>>
      BY <1>1, <1>2, <1>7, EmptySeq
  <2>2. /\ Tail(p) \in Seq(Repetitions) /\ Len(Tail(p)) = Len(p) - 1
        /\ \A n \in 1 .. Len(Tail(p)) : Tail(p)[n] = p[n + 1]
        /\ Tail(q) \in Seq(Repetitions) /\ Len(Tail(q)) = Len(q) - 1
        /\ \A n \in 1 .. Len(Tail(q)) : Tail(q)[n] = q[n + 1]
      BY <1>2, <2>1, HeadTailProperties
  <2>3. /\ DOMAIN Tail(p) = 1 .. Len(p) - 1
        /\ DOMAIN Tail(q) = 1 .. Len(q) - 1
      BY <2>2, LenProperties
  <2>4. \A n \in DOMAIN Tail(p) : n \in DOMAIN Tail(q) /\ Tail(p)[n] = Tail(q)[n]
      BY <1>1, <1>2, <1>3, <1>4, <1>7, <2>2, <2>3
  <2> QED
      BY <2>1, <2>4 DEF Range
<1> QED
    BY <1>2, <1>5, <1>6, <1>7 DEF p

(* What is lost from a damaged map leaves the rest of the books as it was. *)
LEMMA LoseKeeps ==
    ASSUME TypeInv, LedgerInv, NEW c \in Solvers, LosePart(c)
    PROVE  LedgerInv'
<1> DEFINE q == asyncResults[c]
<1>1. asyncResults \in [Solvers -> Seq(Repetitions)] /\ q \in Seq(Repetitions)
    BY Types
<1>2. PICK p : /\ p \in Seq(Repetitions)
               /\ Range(p) \subseteq Range(q)
               /\ Increasing(q) => Increasing(p)
               /\ collPc = "pop" /\ c = CollSolver
                      => Range(Tail(p)) \subseteq Range(Tail(q))
               /\ asyncResults' = [asyncResults EXCEPT ![c] = p]
    BY <1>1, PartOrder DEF LosePart
<1>3. /\ corrupt /\ corrupt' = corrupt
      /\ UNCHANGED <<results, home, seed, spawnPc, collPc, solverIds>>
      /\ SpawnSolver' = SpawnSolver /\ CollSolver' = CollSolver
    BY DEF LosePart, taskVars, spawnVars, collVars, SpawnSolver, CollSolver
<1>4. \A s \in Solvers : asyncResults'[s] = IF s = c THEN p ELSE asyncResults[s]
    BY <1>1, <1>2
<1>5. \A s \in Solvers : Range(Owned(s)') \subseteq Range(Owned(s))
    BY <1>2, <1>3, <1>4 DEF Owned
<1>6. (QueuesInOrder /\ QueueMatchesHome)'
    BY <1>2, <1>3, <1>4 DEF LedgerInv, QueuesInOrder, QueueMatchesHome
<1>7. (/\ LaunchedBelowSeed /\ CollectedOnce /\ CollectedInLaunchOrder
       /\ NoneLost /\ EndsTogether)'
    BY <1>3
       DEF LedgerInv, LaunchedBelowSeed, CollectedOnce, CollectedInLaunchOrder,
           NoneLost, EndsTogether
<1>8. CollectedBeforeOwned'
    BY <1>3, <1>5 DEF LedgerInv, CollectedBeforeOwned
<1> QED
    BY <1>6, <1>7, <1>8 DEF LedgerInv

-----------------------------------------------------------------------------
(***************************************************************************)
(* The theorems.                                                           *)
(***************************************************************************)

LEMMA LedgerInvInit == Init => LedgerInv
<1> SUFFICES ASSUME Init PROVE LedgerInv
    OBVIOUS
<1>1. /\ \A s \in Solvers : asyncResults[s] = <<>>
      /\ results = <<>> /\ seed = 0 /\ spawnPc = "idle" /\ collPc = "idle"
      /\ \A k \in Repetitions : home[k] = NoSolver
    BY DEF Init
<1>2. DOMAIN <<>> = {} /\ Range(<<>>) = {}
    BY DEF Range
<1>3. \A k \in Repetitions : ~(k < seed)
    BY <1>1, NumRepsAssumption DEF Repetitions
<1>4. QueuesInOrder /\ QueueMatchesHome
    BY <1>1, <1>2 DEF QueuesInOrder, Increasing, QueueMatchesHome
<1>5. LaunchedBelowSeed /\ NoneLost /\ EndsTogether
    BY <1>1, <1>3 DEF LaunchedBelowSeed, NoneLost, EndsTogether
<1>6. CollectedOnce /\ CollectedInLaunchOrder /\ CollectedBeforeOwned
    BY <1>1, <1>2
       DEF CollectedOnce, IsInjective, CollectedInLaunchOrder,
           CollectedBeforeOwned
<1> QED
    BY <1>4, <1>5, <1>6 DEF LedgerInv

(* After the heap is corrupted only the books written before it count. *)
LEMMA CrashKeeps == TypeInv /\ LedgerInv /\ Crash => LedgerInv'
<1> SUFFICES ASSUME TypeInv, LedgerInv, Crash PROVE LedgerInv'
    OBVIOUS
<1>1. /\ spawnPc' = "crashed" /\ collPc' = "crashed"
      /\ UNCHANGED <<asyncResults, results, home, seed>>
    BY DEF Crash, taskVars
<1> QED
    BY <1>1
       DEF LedgerInv, QueuesInOrder, QueueMatchesHome, LaunchedBelowSeed,
           CollectedBeforeOwned, NoneLost, EndsTogether, CollectedOnce,
           CollectedInLaunchOrder

LEMMA LedgerInvStep == TypeInv /\ LedgerInv /\ [Next]_vars => LedgerInv'
<1> SUFFICES ASSUME TypeInv, LedgerInv, [Next]_vars PROVE LedgerInv'
    OBVIOUS
<1>1. ASSUME NEW id \in Solvers, AddSolverId(id) \/ WaitToAdd(id)
      PROVE  LedgerInv'
    BY <1>1, LedgerFrame
       DEF AddSolverId, WaitToAdd, SpawnReads, CollReads, mapVars, taskVars,
           spawnVars, collVars, CollSolver, SpawnSolver, LedgerInv, EndsTogether
<1>2. ASSUME SetSolverIds(<<>>) PROVE LedgerInv'
  <2>1. collPc = "idle"
      BY <1>2 DEF SetSolverIds, TypeInv, StartedTogether
  <2> QED
      BY <1>2, <2>1, LedgerFrame
         DEF SetSolverIds, mapVars, taskVars, spawnVars, collVars, EndsTogether
<1>3. ASSUME SpawnBegin PROVE LedgerInv'
  <2>1. seed = 0 /\ collPc = "idle"
      BY <1>3 DEF SpawnBegin, LedgerInv, LaunchedBelowSeed, TypeInv,
                  StartedTogether
  <2> QED
      BY <1>3, <2>1, LedgerFrame DEF SpawnBegin, mapVars, taskVars, EndsTogether
<1>4. ASSUME \/ Abort \/ SpawnLoop \/ SpawnLock \/ SpawnMiss \/ SpawnInsert
             \/ SpawnSkip \/ SpawnUnlock \/ SpawnJoin \/ CorruptMap
      PROVE  LedgerInv'
    BY <1>4, LedgerFrame
       DEF Abort, SpawnLoop, SpawnLock, SpawnMiss, SpawnInsert, SpawnSkip,
           SpawnUnlock, SpawnJoin, CorruptMap, mapVars, taskVars, spawnVars,
           collVars, CollSolver, SpawnSolver, LedgerInv, EndsTogether
<1>5. ASSUME CollLoop \/ CollLock \/ CollFind \/ CollInsert \/ CollThrow
             \/ CollNext \/ CollUnlock
      PROVE  LedgerInv'
    BY <1>5, LedgerFrame
       DEF CollLoop, CollLock, CollFind, CollInsert, CollThrow, CollNext,
           CollUnlock, mapVars, taskVars, spawnVars, SpawnSolver, LedgerInv,
           EndsTogether
<1>6. ASSUME NEW k \in Repetitions, RunOne(k) PROVE LedgerInv'
    BY <1>6, LedgerFrame
       DEF RunOne, mapVars, spawnVars, collVars, CollSolver, SpawnSolver,
           LedgerInv, EndsTogether
<1>7. ASSUME UNCHANGED vars PROVE LedgerInv'
    BY <1>7, LedgerFrame
       DEF vars, mapVars, taskVars, spawnVars, collVars, CollSolver,
           SpawnSolver, LedgerInv, EndsTogether
<1> QED
    BY <1>1, <1>2, <1>3, <1>4, <1>5, <1>6, <1>7, LaunchKeeps, PushKeeps,
       TakeKeeps, PopKeeps, LoseKeeps, CrashKeeps
       DEF Next, Callers, Spawn, Collector, Races, Terminating

(* No repetition is lost between the queues and the result vector unless the
   insertions into the map have raced, and none is ever reported twice, in
   whatever order spawn, the collector and the callers take their steps (lines
   124-134 against 200-204) and whatever a damaged map lets go of. *)
THEOREM OnePlaceEach == Spec => []EachRepetitionInOnePlace
<1>1. TypeInv /\ LedgerInv => EachRepetitionInOnePlace
    BY OnePlace
<1> QED
    BY <1>1, TypeInvInit, TypeInvStep, LedgerInvInit, LedgerInvStep, PTL
       DEF Spec

(* A future is queued with the solver that runs its repetition, even though
   solvers are added between its launch and its push. *)
THEOREM QueueIsHome == Spec => []QueueMatchesHome
<1>1. LedgerInv => QueueMatchesHome
    BY DEF LedgerInv
<1> QED
    BY <1>1, TypeInvInit, TypeInvStep, LedgerInvInit, LedgerInvStep, PTL
       DEF Spec

(* The result vector lists each solver's repetitions in launch order. *)
THEOREM LaunchOrderKept == Spec => []CollectedInLaunchOrder
<1>1. LedgerInv => CollectedInLaunchOrder
    BY DEF LedgerInv
<1> QED
    BY <1>1, TypeInvInit, TypeInvStep, LedgerInvInit, LedgerInvStep, PTL
       DEF Spec

-----------------------------------------------------------------------------
(***************************************************************************)
(* Refinement.                                                             *)
(***************************************************************************)

Closed == spawnPc \in {"returned", "threw", "crashed"}

(* The four steps of the ledger, and what else a step may be. *)
LEMMA LaunchRefines ==
    ASSUME TypeInv, LedgerInv, SpawnLaunch
    PROVE  \E k \in Repetitions : Ledger!Launch(k)
<1>1. /\ spawnPc = "for" /\ spawnPc' = "push"
      /\ home' = [home EXCEPT ![seed] = SpawnSolver]
      /\ UNCHANGED <<outcome, results>>
    BY DEF SpawnLaunch
<1>2. SpawnSolver \in Solvers /\ seed \in Repetitions
    BY <1>1, ElementOfSeq, NumRepsAssumption
       DEF SpawnLaunch, SpawnSolver, TypeInv, TypeOK, LoopBounds, Repetitions
<1>3. PICK k \in Repetitions : k = seed
    BY <1>2
<1>4. /\ k \in Nat /\ \A j \in Repetitions : j \in Nat
      /\ 0 .. (k - 1) \subseteq Repetitions /\ 0 .. k \subseteq Repetitions
    BY <1>3, NumRepsAssumption DEF Repetitions
<1>5. {j \in Repetitions : home[j] # NoSolver} = 0 .. (k - 1)
  <2>1. \A j \in Repetitions : home[j] # NoSolver <=> j \in 0 .. (k - 1)
      BY <1>1, <1>3, <1>4 DEF LedgerInv, LaunchedBelowSeed
  <2> QED
      BY <1>4, <2>1
<1>6. {j \in Repetitions : home'[j] # NoSolver} = 0 .. k
  <2>1. \A j \in Repetitions :
            home'[j] = IF j = k THEN SpawnSolver ELSE home[j]
      BY <1>1, <1>3, Types
  <2>2. \A j \in Repetitions : home'[j] # NoSolver <=> j \in 0 .. k
      BY <1>1, <1>2, <1>3, <1>4, <2>1, SolversAssumption
         DEF LedgerInv, LaunchedBelowSeed
  <2> QED
      BY <1>4, <2>2
<1>7. Ledger!Launch(k)
    BY <1>1, <1>5, <1>6 DEF Ledger!Launch
<1> QED
    BY <1>7

LEMMA RunRefines ==
    ASSUME TypeInv, NEW k \in Repetitions, RunOne(k)
    PROVE  Ledger!Finish(k) \/ UNCHANGED Ledger!vars
<1>1. /\ home[k] # NoSolver /\ outcome[k] = "none"
      /\ UNCHANGED <<home, results, spawnPc>>
    BY DEF RunOne, spawnVars
<1>2. outcome \in [Repetitions -> {"none", "value", "exception"}]
    BY DEF TypeInv, TypeOK
<1>3. PICK o \in {"value", "exception"} : outcome' = [outcome EXCEPT ![k] = o]
    BY DEF RunOne
<1>4. CASE o = "value"
  <2>1. {j \in Repetitions : outcome'[j] = "value"}
            = {j \in Repetitions : outcome[j] = "value"} \cup {k}
      BY <1>2, <1>3, <1>4
  <2> QED
      BY <1>1, <2>1 DEF Ledger!Finish
<1>5. CASE o = "exception"
  <2>1. {j \in Repetitions : outcome'[j] = "value"}
            = {j \in Repetitions : outcome[j] = "value"}
      BY <1>1, <1>2, <1>3, <1>5
  <2> QED
      BY <1>1, <2>1 DEF Ledger!vars
<1> QED
    BY <1>3, <1>4, <1>5

LEMMA TakeRefines ==
    ASSUME TypeInv, LedgerInv, CollTake
    PROVE  \E k \in Repetitions : Ledger!Collect(k)
<1>1. PICK c \in Solvers : c = CollSolver
    BY Types DEF CollTake
<1> DEFINE q == asyncResults[c]
           k == Head(q)
<1>2. /\ collPc = "for" /\ results' = Append(results, k)
      /\ UNCHANGED <<home, outcome, spawnPc>>
      /\ q # <<>> /\ outcome[k] = "value"
    BY <1>1 DEF CollTake, Front, taskVars, spawnVars
<1>3. q \in Seq(Repetitions)
    BY Types
<1>4. k \in Repetitions /\ k \in Range(q)
    BY <1>2, <1>3, PopFacts
<1>5. /\ spawnPc \notin {"returned", "threw", "crashed"}
      /\ Owned(c) = q
    BY <1>1, <1>2 DEF LedgerInv, EndsTogether, Owned
<1>6. k \notin Range(results)
    BY <1>4, <1>5, OnePlace DEF EachRepetitionInOnePlace
<1> HIDE DEF q, k
<1> QED
    BY <1>2, <1>4, <1>5, <1>6 DEF Ledger!Collect, Ledger!Range, Range

(* spawn leaves with the result, with an exception, or in a crash: nobody is at
   the queues or in the map any more when it has left. *)
LEMMA CloseRefines ==
    ASSUME LedgerInv, SpawnJoin \/ Crash
    PROVE  Ledger!Close
<1>1. /\ spawnPc \notin {"returned", "threw", "crashed"}
      /\ spawnPc' \in {"returned", "threw", "crashed"}
      /\ UNCHANGED <<home, outcome, results>>
    BY DEF SpawnJoin, Crash, PopOverlaps, MapOverlaps, SpawnUsesMap,
           CollUsesMap, taskVars, LedgerInv, EndsTogether
<1> QED
    BY <1>1 DEF Ledger!Close

LEMMA LedgerStep ==
    TypeInv /\ LedgerInv /\ [Next]_vars => [Ledger!Next]_(Ledger!vars)
<1> SUFFICES ASSUME TypeInv, LedgerInv, [Next]_vars
             PROVE  Ledger!Next \/ UNCHANGED Ledger!vars
    OBVIOUS
<1>1. ASSUME UNCHANGED <<home, outcome, results, Closed>>
      PROVE  UNCHANGED Ledger!vars
    BY <1>1 DEF Ledger!vars, Closed
<1>2. ASSUME Callers PROVE UNCHANGED Ledger!vars
    BY <1>1, <1>2
       DEF Callers, AddSolverId, WaitToAdd, SetSolverIds, SpawnBegin, Abort,
           taskVars, spawnVars, Closed
<1>3. ASSUME SpawnLoop \/ SpawnLock \/ SpawnMiss \/ SpawnInsert \/ SpawnSkip
             \/ SpawnPush \/ SpawnUnlock
      PROVE  UNCHANGED Ledger!vars
    BY <1>1, <1>3
       DEF SpawnLoop, SpawnLock, SpawnMiss, SpawnInsert, SpawnSkip, SpawnPush,
           SpawnUnlock, taskVars, Closed
<1>4. ASSUME CollLoop \/ CollLock \/ CollFind \/ CollInsert \/ CollThrow
             \/ CollPop \/ CollNext \/ CollUnlock
      PROVE  UNCHANGED Ledger!vars
    BY <1>1, <1>4
       DEF CollLoop, CollLock, CollFind, CollInsert, CollThrow, CollPop,
           CollNext, CollUnlock, taskVars, spawnVars, Closed
<1>10. ASSUME CorruptMap \/ \E s \in Solvers : LosePart(s)
       PROVE  UNCHANGED Ledger!vars
    BY <1>1, <1>10 DEF CorruptMap, LosePart, taskVars, spawnVars, Closed
<1>5. ASSUME UNCHANGED vars PROVE UNCHANGED Ledger!vars
    BY <1>1, <1>5 DEF vars, taskVars, spawnVars, Closed
<1>6. ASSUME NEW k \in Repetitions, RunOne(k)
      PROVE  Ledger!Next \/ UNCHANGED Ledger!vars
    BY <1>6, RunRefines DEF Ledger!Next, Repetitions
<1>7. ASSUME SpawnLaunch PROVE Ledger!Next
    BY <1>7, LaunchRefines DEF Ledger!Next, Repetitions
<1>8. ASSUME CollTake PROVE Ledger!Next
    BY <1>8, TakeRefines DEF Ledger!Next, Repetitions
<1>9. ASSUME SpawnJoin \/ Crash PROVE Ledger!Next
    BY <1>9, CloseRefines DEF Ledger!Next
<1> QED
    BY <1>2, <1>3, <1>4, <1>5, <1>6, <1>7, <1>8, <1>9, <1>10
       DEF Next, Spawn, Collector, Races, Terminating

LEMMA LedgerInit == Init => Ledger!Init
<1> SUFFICES ASSUME Init PROVE Ledger!Init
    OBVIOUS
<1>1. /\ \A k \in Repetitions : home[k] = NoSolver /\ outcome[k] = "none"
      /\ results = <<>> /\ spawnPc = "idle"
    BY DEF Init
<1> QED
    BY <1>1 DEF Ledger!Init

(* Towards its caller spawn is a ledger: repetitions are launched in order, a
   result is collected once and only after run_one returned it, and nothing is
   added to the vector that spawn has returned. *)
THEOREM LedgerImplemented == Spec => ImplementsLedger
    BY LedgerInit, LedgerStep, TypeInvInit, TypeInvStep, LedgerInvInit,
       LedgerInvStep, PTL
       DEF Spec, ImplementsLedger, Ledger!Spec

=============================================================================
