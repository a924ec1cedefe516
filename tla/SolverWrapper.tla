--------------------------- MODULE SolverWrapper ---------------------------
(***************************************************************************)
(* wrapped_solver_class of async/solver_wrapper.hpp on the console         *)
(* locality: the spawn loop that turns repetitions into futures, the       *)
(* collector thread (remove_completed_solver_steps) that pulls completed   *)
(* futures off the per-solver queues, and the callers that run beside      *)
(* them (addSolverId, setSolverIds, abort).                                *)
(*                                                                         *)
(* A repetition is named by the loop counter `seed` it was launched with.  *)
(* Its future is in state "none" until the remote run_one ends with a      *)
(* value or an exception.  _solver_id_mutex is a shared_mutex: who reads   *)
(* under it follows from the program counters; a writer that finds readers *)
(* waits and keeps new ones out until the last reader leaves; a writer's   *)
(* critical section is one step that needs no reader.  What the emitted    *)
(* seed numbers are is the subject of module SeedArithmetic; here seeds    *)
(* are just distinct names.                                                *)
(***************************************************************************)
EXTENDS Integers, Sequences, FiniteSets, Functions

CONSTANTS
    Solvers,       (* Ids of the wrapped solvers, one per locality.         *)
    NoSolver,      (* Not a solver id: the repetition was not launched.     *)
    NumReps,       (* num_reps, the argument of spawn.                      *)
    QueueCap,      (* _os_threads*5, the cap on one solver's task queue.    *)
    MayFail,       (* TRUE: run_one may end with an exception.              *)
    RaceHarmful    (* TRUE: the data races on the task queues (RaceFree)    *)
                   (* and on the map that holds them (MapOverlaps) may      *)
                   (* show: a torn size(), lost queues, heap corruption.    *)

ASSUME SolversAssumption == NoSolver \notin Solvers
ASSUME NumRepsAssumption == NumReps \in Nat
ASSUME QueueCapAssumption == QueueCap \in Nat \ {0}
ASSUME SwitchAssumption == MayFail \in BOOLEAN /\ RaceHarmful \in BOOLEAN

Repetitions == 0 .. (NumReps - 1)

VARIABLES
    abort,          (* _abort                                              *)
    solverIds,      (* _solver_ids                                         *)
    asyncResults,   (* the queues in _async_results, <<>> where none is    *)
    entries,        (* the keys of _async_results: operator[] inserts      *)
    corrupt,        (* a race has damaged the tree of that map             *)
    results,        (* _repetition_results_vector                          *)
    totalCompleted, (* _total_completed                                    *)
    home,           (* the solver a repetition was sent to                 *)
    outcome,        (* shared state of each repetition's future            *)
    writerWaits,    (* _solver_id_mutex admits no new reader               *)
    spawnPc, spawnIdx, remaining, seed, enough,    (* spawn's locals       *)
    collPc, collIdx                                (* collector's locals   *)

mapVars   == <<entries, corrupt>>
taskVars  == <<home, outcome>>
spawnVars == <<spawnPc, spawnIdx, remaining, seed, enough>>
collVars  == <<collPc, collIdx>>
vars == <<abort, solverIds, asyncResults, mapVars, results, totalCompleted,
          taskVars, writerWaits, spawnVars, collVars>>

-----------------------------------------------------------------------------

(* The solver the range-for of each thread stands at. *)
SpawnSolver == solverIds[spawnIdx]
CollSolver  == solverIds[collIdx]

(* Threads inside the scope of their shared_lock on _solver_id_mutex. *)
SpawnReads == spawnPc \in {"for", "insert", "push"}
CollReads  == collPc \in {"find", "insert", "for", "pop"}

(* unlock_shared: the last reader to leave lets everybody compete again. *)
LeaveRead(othersRead) == writerWaits' = (writerWaits /\ othersRead)

(* std::queue::pop and ::push change the same deque without exclusion: the
   collector is about to pop the queue that spawn is measuring or extending. *)
PopOverlaps(pcs) ==
    /\ spawnPc \in pcs /\ collPc = "pop"
    /\ SpawnSolver = CollSolver

(* The next step of a thread applies operator[] to the map: it looks its solver
   up, or links the node it found missing. *)
SpawnUsesMap ==
    \/ spawnPc \in {"insert", "push"}
    \/ spawnPc = "for" /\ spawnIdx <= Len(solverIds)
CollUsesMap ==
    \/ collPc = "insert"
    \/ collPc = "find" /\ collIdx <= Len(solverIds)

(* One of them inserts while the other is in the map too, both under the shared
   lock "for read access" (lines 121 and 194): a second data race beside the one
   of RaceFree. *)
MapOverlaps ==
    \/ spawnPc = "insert" /\ CollUsesMap
    \/ collPc = "insert" /\ SpawnUsesMap

(* The futures a queue still owns: while the collector stands between get()
   and pop() the front one is moved-from. *)
Owned(s) ==
    IF collPc = "pop" /\ s = CollSolver THEN Tail(asyncResults[s])
                                        ELSE asyncResults[s]

(* The shared state of the future at the front of the queue the collector stands
   at; an empty queue has nothing to wait for. *)
Front ==
    LET tasks == asyncResults[CollSolver] IN
    IF tasks = <<>> THEN "none" ELSE outcome[Head(tasks)]

-----------------------------------------------------------------------------

Init ==
    /\ abort = FALSE
    /\ solverIds = <<>>
    /\ asyncResults = [s \in Solvers |-> <<>>]
    /\ entries = {} /\ corrupt = FALSE
    /\ results = <<>>
    /\ totalCompleted = 0
    /\ home = [k \in Repetitions |-> NoSolver]
    /\ outcome = [k \in Repetitions |-> "none"]
    /\ writerWaits = FALSE
    /\ spawnPc = "idle" /\ spawnIdx = 1
    /\ remaining = NumReps /\ seed = 0 /\ enough = TRUE
    /\ collPc = "idle" /\ collIdx = 1

(***************************************************************************)
(* Mutations.  Each is a plausible slip in one action below; putting it in *)
(* that action's place must break a property, which is how the runs are    *)
(* known to be able to fail.  No specification uses them.                  *)
(***************************************************************************)

MAddSolverIdUnlocked(id) ==             \* addSolverId without its unique_lock
    /\ id \notin Range(solverIds)
    /\ solverIds' = Append(solverIds, id)
    /\ UNCHANGED <<abort, asyncResults, mapVars, results, totalCompleted,
                   taskVars, writerWaits, spawnVars, collVars>>

MSpawnLoopDeaf ==                       \* the loop test forgets _abort
    /\ spawnPc = "loop"
    /\ spawnPc' = IF remaining > 0 THEN "lock" ELSE "join"
    /\ UNCHANGED <<abort, solverIds, asyncResults, mapVars, results,
                   totalCompleted, taskVars, writerWaits, spawnIdx, remaining,
                   seed, enough, collVars>>

MSpawnLaunchOneMore ==                  \* <= for < in the cap test
    /\ spawnPc = "for" /\ spawnIdx <= Len(solverIds)
    /\ SpawnSolver \in entries
    /\ Len(asyncResults[SpawnSolver]) <= QueueCap
    /\ home' = [home EXCEPT ![seed] = SpawnSolver]
    /\ spawnPc' = "push"
    /\ UNCHANGED <<abort, solverIds, asyncResults, mapVars, results,
                   totalCompleted, outcome, writerWaits, spawnIdx, remaining,
                   seed, enough, collVars>>

(* spawn's push with the queue and position it leaves as parameters. *)
PushVariant(queues, idx) ==
    /\ spawnPc = "push"
    /\ asyncResults' = queues
    /\ seed' = seed + 1 /\ remaining' = remaining - 1 /\ enough' = FALSE
    /\ spawnIdx' = idx
    /\ spawnPc' = "for"
    /\ UNCHANGED <<abort, solverIds, mapVars, results, totalCompleted, taskVars,
                   writerWaits, collVars>>

MSpawnPushNoBreak ==                    \* no `if (remaining==0) break`
    PushVariant([asyncResults EXCEPT ![SpawnSolver] = Append(@, seed)],
                spawnIdx + 1)

MSpawnPushWrongQueue ==                 \* every future on the first queue
    PushVariant([asyncResults EXCEPT ![solverIds[1]] = Append(@, seed)],
                IF remaining = 1 THEN Len(solverIds) + 1 ELSE spawnIdx + 1)

MSpawnPushStack ==                      \* a stack where a queue is meant
    PushVariant([asyncResults EXCEPT ![SpawnSolver] = <<seed>> \o @],
                IF remaining = 1 THEN Len(solverIds) + 1 ELSE spawnIdx + 1)

MSpawnJoinNoWait ==                     \* future_completed is not waited for
    /\ spawnPc = "join"
    /\ spawnPc' = "returned"
    /\ UNCHANGED <<abort, solverIds, asyncResults, mapVars, results,
                   totalCompleted, taskVars, writerWaits, spawnIdx, remaining,
                   seed, enough, collVars>>

MCollLoopUntilEmpty ==                  \* the collector stops when idle
    /\ collPc = "loop"
    /\ collPc' = IF abort \/ \A s \in Solvers : asyncResults[s] = <<>>
                 THEN "ended" ELSE "lock"
    /\ UNCHANGED <<abort, solverIds, asyncResults, mapVars, results,
                   totalCompleted, taskVars, writerWaits, spawnVars, collIdx>>

MCollPopForgotten ==                    \* the future is not popped
    /\ collPc = "pop"
    /\ totalCompleted' = totalCompleted + 1
    /\ collPc' = "for"
    /\ UNCHANGED <<abort, solverIds, asyncResults, mapVars, results, taskVars,
                   writerWaits, spawnVars, collIdx>>

(***************************************************************************)
(* Callers.                                                                *)
(***************************************************************************)

(* addSolverId: a unique_lock, so no reader is inside its scope.  A wrapper
   is registered once, by the single init_node of its locality. *)
AddSolverId(id) ==
    /\ ~SpawnReads /\ ~CollReads
    /\ id \notin Range(solverIds)
    /\ solverIds' = Append(solverIds, id)
    /\ UNCHANGED <<abort, asyncResults, mapVars, results, totalCompleted,
                   taskVars, writerWaits, spawnVars, collVars>>

(* addSolverId finds readers in and waits for _solver_id_mutex. *)
WaitToAdd(id) ==
    /\ SpawnReads \/ CollReads
    /\ id \notin Range(solverIds)
    /\ ~writerWaits /\ writerWaits' = TRUE
    /\ UNCHANGED <<abort, solverIds, asyncResults, mapVars, results,
                   totalCompleted, taskVars, spawnVars, collVars>>

(* setSolverIds: same lock.  hpx_main is the only caller; it runs before spawn
   and always passes an empty vector. *)
SetSolverIds(ids) ==
    /\ spawnPc = "idle"
    /\ solverIds' = ids
    /\ UNCHANGED <<abort, asyncResults, mapVars, results, totalCompleted,
                   taskVars, writerWaits, spawnVars, collVars>>

(* abort: sets the flag, holding no lock. *)
Abort ==
    /\ ~abort
    /\ abort' = TRUE
    /\ UNCHANGED <<solverIds, asyncResults, mapVars, results, totalCompleted,
                   taskVars, writerWaits, spawnVars, collVars>>

(***************************************************************************)
(* run_one on the locality a repetition was sent to: it returns a result,  *)
(* or an exception travels back into the future.                           *)
(***************************************************************************)
RunOne(k) ==
    /\ home[k] # NoSolver /\ outcome[k] = "none"
    /\ \E o \in {"value"} \cup (IF MayFail THEN {"exception"} ELSE {}) :
           outcome' = [outcome EXCEPT ![k] = o]
    /\ UNCHANGED <<abort, solverIds, asyncResults, mapVars, results,
                   totalCompleted, home, writerWaits, spawnVars, collVars>>

(***************************************************************************)
(* spawn.                                                                  *)
(***************************************************************************)

(* Entry: counters reset, the collector started with hpx::async. *)
SpawnBegin ==
    /\ spawnPc = "idle"
    /\ spawnPc' = "loop"
    /\ totalCompleted' = 0
    /\ remaining' = NumReps /\ seed' = 0
    /\ collPc' = "loop"
    /\ UNCHANGED <<abort, solverIds, asyncResults, mapVars, results, taskVars,
                   writerWaits, spawnIdx, enough, collIdx>>

(* while (!_abort && (futures_waiting || remaining>0)): futures_waiting is
   never set. *)
SpawnLoop ==
    /\ spawnPc = "loop"
    /\ spawnPc' = IF ~abort /\ remaining > 0 THEN "lock" ELSE "join"
    /\ UNCHANGED <<abort, solverIds, asyncResults, mapVars, results,
                   totalCompleted, taskVars, writerWaits, spawnIdx, remaining,
                   seed, enough, collVars>>

(* Head of the do-while: enough = true, shared_lock, range-for begins. *)
SpawnLock ==
    /\ spawnPc = "lock" /\ ~writerWaits
    /\ spawnPc' = "for"
    /\ enough' = TRUE /\ spawnIdx' = 1
    /\ UNCHANGED <<abort, solverIds, asyncResults, mapVars, results,
                   totalCompleted, taskVars, writerWaits, remaining, seed,
                   collVars>>

(* _async_results[s] of the cap test does not find s. *)
SpawnMiss ==
    /\ spawnPc = "for" /\ spawnIdx <= Len(solverIds)
    /\ SpawnSolver \notin entries
    /\ spawnPc' = "insert"
    /\ UNCHANGED <<abort, solverIds, asyncResults, mapVars, results,
                   totalCompleted, taskVars, writerWaits, spawnIdx, remaining,
                   seed, enough, collVars>>

(* It links an empty queue, under the shared lock only. *)
SpawnInsert ==
    /\ spawnPc = "insert"
    /\ entries' = entries \cup {SpawnSolver}
    /\ spawnPc' = "for"
    /\ UNCHANGED <<abort, solverIds, asyncResults, corrupt, results,
                   totalCompleted, taskVars, writerWaits, spawnIdx, remaining,
                   seed, enough, collVars>>

(* The queue is below its cap: hpx::async sends the repetition to the solver.
   A torn size() may say so of a full queue. *)
SpawnLaunch ==
    /\ spawnPc = "for" /\ spawnIdx <= Len(solverIds)
    /\ SpawnSolver \in entries
    /\ \/ Len(asyncResults[SpawnSolver]) < QueueCap
       \/ RaceHarmful /\ PopOverlaps({"for"})
    /\ home' = [home EXCEPT ![seed] = SpawnSolver]
    /\ spawnPc' = "push"
    /\ UNCHANGED <<abort, solverIds, asyncResults, mapVars, results,
                   totalCompleted, outcome, writerWaits, spawnIdx, remaining,
                   seed, enough, collVars>>

(* The queue is full (or a torn size() says so): next solver. *)
SpawnSkip ==
    /\ spawnPc = "for" /\ spawnIdx <= Len(solverIds)
    /\ SpawnSolver \in entries
    /\ \/ Len(asyncResults[SpawnSolver]) >= QueueCap
       \/ RaceHarmful /\ PopOverlaps({"for"})
    /\ spawnIdx' = spawnIdx + 1
    /\ UNCHANGED <<abort, solverIds, asyncResults, mapVars, results,
                   totalCompleted, taskVars, writerWaits, spawnPc, remaining,
                   seed, enough, collVars>>

(* push, seed++, remaining--; `if (remaining==0) break` leaves the range-for.
   This _async_results[s] inserts again if the first one's node was lost. *)
SpawnPush ==
    /\ spawnPc = "push"
    /\ asyncResults' = [asyncResults EXCEPT ![SpawnSolver] = Append(@, seed)]
    /\ entries' = entries \cup {SpawnSolver}
    /\ seed' = seed + 1 /\ remaining' = remaining - 1 /\ enough' = FALSE
    /\ spawnIdx' = IF remaining = 1 THEN Len(solverIds) + 1 ELSE spawnIdx + 1
    /\ spawnPc' = "for"
    /\ UNCHANGED <<abort, solverIds, corrupt, results, totalCompleted, taskVars,
                   writerWaits, collVars>>

(* End of the range-for: the lock's scope ends, then `while (!enough &&
   remaining>0)`; after it spawn sleeps a second and tests the outer loop. *)
SpawnUnlock ==
    /\ spawnPc = "for" /\ spawnIdx > Len(solverIds)
    /\ spawnPc' = IF ~enough /\ remaining > 0 THEN "lock" ELSE "loop"
    /\ LeaveRead(CollReads)
    /\ UNCHANGED <<abort, solverIds, asyncResults, mapVars, results,
                   totalCompleted, taskVars, spawnIdx, remaining, seed, enough,
                   collVars>>

(* future_completed.get(): waits for the collector, rethrows what it threw. *)
SpawnJoin ==
    /\ spawnPc = "join"
    /\ \/ collPc = "ended" /\ spawnPc' = "returned"
       \/ collPc = "threw" /\ spawnPc' = "threw"
    /\ UNCHANGED <<abort, solverIds, asyncResults, mapVars, results,
                   totalCompleted, taskVars, writerWaits, spawnIdx, remaining,
                   seed, enough, collVars>>

(***************************************************************************)
(* remove_completed_solver_steps.  The runtime is taken to be running      *)
(* while spawn is active (hpx::finalize comes after it).                   *)
(***************************************************************************)

(* while (hpx::is_running() && !self->_abort) *)
CollLoop ==
    /\ collPc = "loop"
    /\ collPc' = IF abort THEN "ended" ELSE "lock"
    /\ UNCHANGED <<abort, solverIds, asyncResults, mapVars, results,
                   totalCompleted, taskVars, writerWaits, spawnVars, collIdx>>

CollLock ==
    /\ collPc = "lock" /\ ~writerWaits
    /\ collPc' = "find" /\ collIdx' = 1
    /\ UNCHANGED <<abort, solverIds, asyncResults, mapVars, results,
                   totalCompleted, taskVars, writerWaits, spawnVars>>

(* `tasks` becomes a reference to the queue of s in the map. *)
CollFind ==
    /\ collPc = "find" /\ collIdx <= Len(solverIds)
    /\ collPc' = IF CollSolver \in entries THEN "for" ELSE "insert"
    /\ UNCHANGED <<abort, solverIds, asyncResults, mapVars, results,
                   totalCompleted, taskVars, writerWaits, spawnVars, collIdx>>

(* ... which operator[] links first where there is none. *)
CollInsert ==
    /\ collPc = "insert"
    /\ entries' = entries \cup {CollSolver}
    /\ collPc' = "for"
    /\ UNCHANGED <<abort, solverIds, asyncResults, corrupt, results,
                   totalCompleted, taskVars, writerWaits, spawnVars, collIdx>>

(* The front future is ready with a value: get() moves the result out. *)
CollTake ==
    /\ collPc = "for"
    /\ Front = "value"
    /\ results' = Append(results, Head(asyncResults[CollSolver]))
    /\ collPc' = "pop"
    /\ UNCHANGED <<abort, solverIds, asyncResults, mapVars, totalCompleted,
                   taskVars, writerWaits, spawnVars, collIdx>>

(* The front future holds an exception: is_ready() is true, get() rethrows and
   unwinds the collector; the shared_lock is released on the way. *)
CollThrow ==
    /\ collPc = "for"
    /\ Front = "exception"
    /\ collPc' = "threw"
    /\ LeaveRead(SpawnReads)
    /\ UNCHANGED <<abort, solverIds, asyncResults, mapVars, results,
                   totalCompleted, taskVars, spawnVars, collIdx>>

CollPop ==
    /\ collPc = "pop"
    /\ asyncResults' = [asyncResults EXCEPT ![CollSolver] = Tail(@)]
    /\ totalCompleted' = totalCompleted + 1
    /\ collPc' = "for"
    /\ UNCHANGED <<abort, solverIds, mapVars, results, taskVars, writerWaits,
                   spawnVars, collIdx>>

(* The queue is empty, or its front is not ready: next solver. *)
CollNext ==
    /\ collPc = "for"
    /\ Front = "none"
    /\ collPc' = "find" /\ collIdx' = collIdx + 1
    /\ UNCHANGED <<abort, solverIds, asyncResults, mapVars, results,
                   totalCompleted, taskVars, writerWaits, spawnVars>>

(* lock.unlock(), a quarter of a second's sleep, next round. *)
CollUnlock ==
    /\ collPc = "find" /\ collIdx > Len(solverIds)
    /\ collPc' = "loop"
    /\ LeaveRead(SpawnReads)
    /\ UNCHANGED <<abort, solverIds, asyncResults, mapVars, results,
                   totalCompleted, taskVars, spawnVars, collIdx>>

(***************************************************************************)
(* What the races may do.                                                  *)
(***************************************************************************)

(* An insertion beside another access to the map: parent pointers and rotations
   are based on a tree that is no longer there. *)
CorruptMap ==
    /\ RaceHarmful /\ MapOverlaps /\ ~corrupt
    /\ corrupt' = TRUE
    /\ UNCHANGED <<abort, solverIds, asyncResults, entries, results,
                   totalCompleted, taskVars, writerWaits, spawnVars, collVars>>

(* From then on a node may be out of reach, or a key have two of them: any part
   of a queue may be gone, but for the future the collector has in hand. *)
LosePart(s) ==
    /\ corrupt /\ s \in entries
    /\ \E i, j \in 0 .. Len(asyncResults[s]) :
          LET part == SubSeq(asyncResults[s], i + 1, j) IN
          /\ collPc = "pop" /\ s = CollSolver => i = 0 /\ j > 0
          /\ asyncResults' = [asyncResults EXCEPT ![s] = part]
          /\ entries' = IF part = <<>> THEN entries \ {s} ELSE entries
    /\ UNCHANGED <<abort, solverIds, corrupt, results, totalCompleted, taskVars,
                   writerWaits, spawnVars, collVars>>

(* A push that reallocates the deque's map while the collector pops the same
   queue corrupts the heap, and a walk through a tree that is changed or damaged
   may lead anywhere; the process does not survive. *)
Crash ==
    /\ RaceHarmful
    /\ \/ PopOverlaps({"push"}) \/ MapOverlaps
       \/ corrupt /\ (SpawnUsesMap \/ CollUsesMap)
    /\ spawnPc' = "crashed" /\ collPc' = "crashed"
    /\ UNCHANGED <<abort, solverIds, asyncResults, mapVars, results,
                   totalCompleted, taskVars, writerWaits, spawnIdx, remaining,
                   seed, enough, collIdx>>

Terminating ==
    /\ spawnPc \in {"returned", "threw", "crashed"}
    /\ UNCHANGED vars

-----------------------------------------------------------------------------

Callers ==
    /\ spawnPc # "crashed"
    /\ \/ \E id \in Solvers : AddSolverId(id) \/ WaitToAdd(id)
       \/ SetSolverIds(<<>>)
       \/ SpawnBegin
       \/ Abort

Spawn ==
    \/ SpawnLoop \/ SpawnLock \/ SpawnMiss \/ SpawnInsert \/ SpawnLaunch
    \/ SpawnSkip \/ SpawnPush \/ SpawnUnlock \/ SpawnJoin

Collector ==
    \/ CollLoop \/ CollLock \/ CollFind \/ CollInsert \/ CollTake
    \/ CollThrow \/ CollPop \/ CollNext \/ CollUnlock

Races == CorruptMap \/ Crash \/ \E s \in Solvers : LosePart(s)

Next ==
    \/ Callers \/ Spawn \/ Collector \/ Races \/ Terminating
    \/ \E k \in Repetitions : RunOne(k)

(* Both threads are HPX threads that keep being scheduled, and a repetition
   that runs ends.  The last reader to leave wakes everybody who waits for
   _solver_id_mutex, so nobody loses that competition forever.  Nobody promises
   that a solver is ever added, that spawn is called, or that the user quits. *)
Fairness ==
    /\ WF_vars(Spawn) /\ SF_vars(SpawnLock)
    /\ WF_vars(Collector) /\ SF_vars(CollLock)
    /\ \A k \in Repetitions : WF_vars(RunOne(k))

Spec == Init /\ [][Next]_vars /\ Fairness

-----------------------------------------------------------------------------
(***************************************************************************)
(* Safety.                                                                 *)
(***************************************************************************)

TypeOK ==
    /\ abort \in BOOLEAN
    /\ solverIds \in Seq(Solvers)
    /\ asyncResults \in [Solvers -> Seq(Repetitions)]
    /\ entries \subseteq Solvers
    /\ \A s \in Solvers \ entries : asyncResults[s] = <<>>
    /\ corrupt \in BOOLEAN
    /\ results \in Seq(Repetitions)
    /\ totalCompleted \in Nat
    /\ home \in [Repetitions -> Solvers \cup {NoSolver}]
    /\ outcome \in [Repetitions -> {"none", "value", "exception"}]
    /\ spawnPc \in {"idle", "loop", "lock", "for", "insert", "push", "join",
                    "returned", "threw", "crashed"}
    /\ spawnIdx \in Nat \ {0}
    /\ remaining \in 0 .. NumReps /\ seed \in 0 .. NumReps
    /\ enough \in BOOLEAN
    /\ writerWaits \in BOOLEAN
    /\ collPc \in {"idle", "loop", "lock", "find", "insert", "for", "pop",
                   "ended", "threw", "crashed"}
    /\ collIdx \in Nat \ {0}

(* Every repetition spawn has pushed is in exactly one place, the result
   vector or one solver's queue, and it is there once: none is lost and none is
   reported twice, whatever the two threads and the callers interleave.  The
   window between the collector's get() and its pop() (lines 132-134) is the
   delicate point.  The race on the map (MapOverlaps) can lose repetitions, and
   only that; even then none is reported twice.  A process whose heap a race has
   corrupted is excluded. *)
EachRepetitionInOnePlace ==
    spawnPc # "crashed" =>
        /\ IsInjective(results)
        /\ \A s \in Solvers :
              /\ IsInjective(Owned(s))
              /\ Range(Owned(s)) \cap Range(results) = {}
              /\ \A t \in Solvers \ {s} :
                    Range(Owned(s)) \cap Range(Owned(t)) = {}
        /\ LET queued == UNION {Range(Owned(s)) : s \in Solvers}
               kept == Range(results) \cup queued IN
           /\ kept \subseteq 0 .. (seed - 1)
           /\ ~corrupt => kept = 0 .. (seed - 1)

(* The futures in a solver's queue are those of repetitions sent to it, and the
   future spawn is about to push goes to the queue of the solver that runs it.
   The cap on a queue is the cap on the load of one locality only because of
   this. *)
QueueMatchesHome ==
    /\ \A s \in Solvers : \A k \in Range(asyncResults[s]) : home[k] = s
    /\ spawnPc = "push" => home[seed] = SpawnSolver

(* One solver's results appear in the order its repetitions were launched:
   each queue is first-in first-out across every launch, collection and
   re-scan (the @todo at line 115 accepts head-of-line waiting for it). *)
CollectedInLaunchOrder ==
    \A i, j \in DOMAIN results :
        i < j /\ home[results[i]] = home[results[j]] => results[i] < results[j]

(* No solver ever has more than _os_threads*5 futures outstanding (line 201);
   only a torn size() read in the race could break this. *)
QueueBound ==
    ~RaceHarmful => \A s \in Solvers : Len(asyncResults[s]) <= QueueCap

(* While a thread iterates over _solver_ids, no caller changes the vector: its
   range-for iterators stay valid (lines 124, 200 against 92, 106). *)
IteratedListStable == [][SpawnReads \/ CollReads => UNCHANGED solverIds]_vars

(* The comments at lines 117, 121 and 194 say both threads take the shared
   lock "for read access"; then no two accesses to one queue, one of them a
   write, may be next at the same time. *)
RaceFree ==
    /\ ~PopOverlaps({"push"})
    /\ ~(spawnPc = "for" /\ spawnIdx <= Len(solverIds) /\ PopOverlaps({"for"}))
    /\ ~(spawnPc = "push" /\ collPc = "for" /\ SpawnSolver = CollSolver)

(***************************************************************************)
(* Refinement: towards its caller spawn is a ledger of repetitions.        *)
(***************************************************************************)

Ledger == INSTANCE RepetitionLedger WITH
    launched  <- {k \in Repetitions : home[k] # NoSolver},
    finished  <- {k \in Repetitions : outcome[k] = "value"},
    collected <- results,
    closed    <- spawnPc \in {"returned", "threw", "crashed"}

(* Repetition numbers are handed out consecutively, each result is collected at
   most once and only after run_one returned it, and the vector spawn returned
   never changes again although the runtime and the callers go on. *)
ImplementsLedger == Ledger!Spec

(***************************************************************************)
(* Liveness.                                                               *)
(***************************************************************************)

Working == spawnPc # "idle"

(* Once a solver is registered every result is collected, unless the user quits
   or a repetition fails: its exception ends the collector (line 132), and what
   completes behind it stays queued. *)
AllCollected ==
    (solverIds # <<>> /\ Working)
        ~> \/ abort \/ Len(results) = NumReps
           \/ \E k \in Repetitions : outcome[k] = "exception"

(* quit ends spawn, even when the queues are full, the solvers hang on to their
   work, or the collector already died of an exception. *)
AbortReturns == (abort /\ Working) ~> spawnPc \in {"returned", "threw"}

(* main.cpp:447 promises that the results of every repetition are written to the
   output file, which hpx_main does after spawn returns. *)
SpawnReturns ==
    (spawnPc = "join" /\ Len(results) = NumReps) ~> spawnPc = "returned"

=============================================================================
