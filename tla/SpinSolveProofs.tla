-------------------------- MODULE SpinSolveProofs --------------------------
(***************************************************************************)
(* Proofs about the composition: what SolverWrapper promises it also       *)
(* promises inside the program, for every set of localities, and the       *)
(* bring-up keeps its promises although the console's entry is written     *)
(* without state_mutex and a bring-up may fail.                            *)
(***************************************************************************)
EXTENDS SpinSolve, SolverWrapperLedgerProofs

LEMMA LocalitiesAreSolvers == B!Localities = Solvers
    BY ConsoleAssumption DEF B!Localities, Remotes

LEMMA SameOperators ==
    ASSUME NEW f
    PROVE  B!Range(f) = Range(f) /\ (B!IsInjective(f) <=> IsInjective(f))
BY DEF B!Range, Range, B!IsInjective, IsInjective

-----------------------------------------------------------------------------
(***************************************************************************)
(* The wrapper in the program.                                             *)
(***************************************************************************)

(* What hpx_main, the monitor and the continuations do is, for the wrapper, a
   call or nothing. *)
LEMMA ProgramStepsWrapper == [ProgramNext]_programVars => [Next]_vars
<1> SUFFICES ASSUME ProgramNext PROVE Next \/ UNCHANGED vars
    BY DEF programVars, vars, wrapperOnly, taskVars, spawnVars, collVars
<1>1. ASSUME BringupStep PROVE UNCHANGED vars
  <2>1. UNCHANGED solverIds
      BY <1>1
         DEF BringupStep, B!InternalStep, B!BeginHereReady, B!SetHereReady,
             B!InitHere, B!InitHereDone, B!InitHereThrows, B!MonitorLoop,
             B!MonitorScan, B!AddSolverState, B!RacedInsert,
             B!InitializeWrapper, B!InitializeFails, B!ResolveWrapper,
             B!SetSolverStateData
  <2> QED
      BY <1>1, <2>1
         DEF BringupStep, vars, wrapperOnly, taskVars, spawnVars, collVars
<1>2. ASSUME NEW l \in Solvers, ListWrapper(l) \/ WaitToList(l) PROVE Next
    BY <1>2 DEF ListWrapper, WaitToList, Next, Callers, Alive
<1>3. ASSUME ClearSolverIds \/ CallSpawn \/ Quit PROVE Next
    BY <1>3
       DEF ClearSolverIds, CallSpawn, Quit, Next, Callers, Alive, SetSolverIds,
           SpawnBegin
<1>4. ASSUME WriteResults PROVE UNCHANGED vars
    BY <1>4
       DEF WriteResults, B!WriteResults, vars, wrapperOnly, taskVars, spawnVars,
           collVars
<1>5. ASSUME WrapperStep PROVE Next
    BY <1>5 DEF WrapperStep, Next
<1>6. ASSUME NEW k \in Repetitions, RunRepetition(k) PROVE Next
    BY <1>6 DEF RunRepetition, Next
<1>7. ASSUME ProgramTerminating PROVE UNCHANGED vars
    BY <1>7
       DEF ProgramTerminating, programVars, vars, wrapperOnly, taskVars,
           spawnVars, collVars
<1> QED
    BY <1>1, <1>2, <1>3, <1>4, <1>5, <1>6, <1>7 DEF ProgramNext

(* The program runs the wrapper as its specification allows: nothing that
   connects, fails or races during the bring-up makes a call the wrapper is not
   prepared for (lines 267, 733-750 of main.cpp). *)
THEOREM ProgramRunsWrapper == ProgramSpec => Init /\ [][Next]_vars
<1>1. ProgramInit => Init
    BY DEF ProgramInit
<1> QED
    BY <1>1, ProgramStepsWrapper, PTL DEF ProgramSpec

(* So the wrapper's invariants hold in the program. *)
LEMMA WrapperInvInProgram == ProgramSpec => [](TypeInv /\ LedgerInv)
    BY ProgramRunsWrapper, TypeInvInit, TypeInvStep, LedgerInvInit,
       LedgerInvStep, PTL

(* In the program too every repetition is in one place, the results or a queue,
   once, with localities joining while spawn runs; the race on the map may lose
   some and never doubles one. *)
THEOREM OnePlaceInProgram == ProgramSpec => []EachRepetitionInOnePlace
<1>1. TypeInv /\ LedgerInv => EachRepetitionInOnePlace
    BY OnePlace
<1> QED
    BY <1>1, WrapperInvInProgram, PTL

-----------------------------------------------------------------------------
(***************************************************************************)
(* The inductive invariant of the bring-up.                                *)
(***************************************************************************)

(* A locality that has not told the console of itself is unknown to it. *)
UntoldIsUnknown ==
    \A l \in Remotes \ told : status[l] = "absent" /\ initPc[l] = "none"

(* Nobody but the continuations sets a remote READY, and they set its counter
   with it; hpx_main starts the monitor after the console has its counter. *)
CountersSet ==
    /\ \A l \in Remotes : status[l] = "READY" => hasCounter[l]
    /\ initPc[Console] \in {"listing", "done"} => hasCounter[Console]
    /\ monitorPc # "off" => hasCounter[Console]

(* The console is not initialised before hpx_main does it, and never seen
   CONNECTING. *)
ConsoleByMain ==
    /\ mainPc \in {"start", "inserting", "load"} => initPc[Console] = "none"
    /\ status[Console] \in {"absent", "READY"}

(* Who is CONNECTING has not been initialised; who is being listed or has been
   is READY. *)
StatusFitsInit ==
    \A l \in Solvers :
        /\ status[l] = "CONNECTING" => initPc[l] = "none"
        /\ initPc[l] \in {"listing", "done"} => status[l] = "READY"

(* The wrapper's own conditions on its callers hold where the program calls it,
   so that stating them in the model hides nothing: a wrapper that is about to be
   listed is not on the list, and the list is cleared before spawn is called. *)
CallsFit ==
    /\ \A l \in Solvers : initPc[l] = "listing" => l \notin Range(solverIds)
    /\ mainPc \in {"solving", "done"} <=> spawnPc # "idle"

BringupInv ==
    /\ B!TypeOK /\ MonitorNeverThrows
    /\ UntoldIsUnknown /\ CountersSet /\ ConsoleByMain /\ StatusFitsInit
    /\ CallsFit /\ WorkGoesToReady

LEMMA BringupInvInit == ProgramInit => BringupInv
<1> SUFFICES ASSUME ProgramInit PROVE BringupInv
    OBVIOUS
<1> USE LocalitiesAreSolvers, ConsoleAssumption DEF ProgramInit, B!Init, Init
<1>1. B!TypeOK /\ MonitorNeverThrows
    BY DEF B!TypeOK, MonitorNeverThrows, B!MonitorNeverThrows
<1>2. UntoldIsUnknown /\ CountersSet /\ ConsoleByMain /\ StatusFitsInit
    BY DEF UntoldIsUnknown, CountersSet, ConsoleByMain, StatusFitsInit, Remotes
<1>3. CallsFit /\ WorkGoesToReady
  <2>1. Range(solverIds) = {} /\ IsInjective(solverIds)
      BY DEF IsInjective, Range
  <2> QED
      BY <2>1, SameOperators DEF CallsFit, WorkGoesToReady, B!ListedAreReady
<1> QED
    BY <1>1, <1>2, <1>3 DEF BringupInv

(* Steps that leave the list and the sent repetitions alone. *)
LEMMA BringupStepKeeps ==
    ASSUME BringupInv, TypeInv, BringupStep
    PROVE  BringupInv'
<1> USE LocalitiesAreSolvers, ConsoleAssumption
<1>1. /\ solverIds \in Seq(Solvers)
      /\ UNCHANGED <<home, spawnPc>>
      /\ \A s \in Range(solverIds) : s \in Solvers
      /\ \A k \in Repetitions : home[k] # NoSolver => home[k] \in Solvers
    BY ElementOfSeq, LenProperties
       DEF TypeInv, TypeOK, BringupStep, wrapperOnly, taskVars, spawnVars, Range
<1> DEFINE Keeps == /\ B!TypeOK' /\ MonitorNeverThrows'
                    /\ UntoldIsUnknown' /\ CountersSet'
                    /\ ConsoleByMain' /\ StatusFitsInit'
           Same == /\ UNCHANGED solverIds
                   /\ mainPc' \in {"solving", "done"} <=>
                          mainPc \in {"solving", "done"}
                   /\ \A l \in Solvers :
                         /\ initPc'[l] = "listing" => initPc[l] \in {"listing", "resolved"}
                         /\ initPc[l] = "done" => initPc'[l] = "done"
                         /\ initPc[l] = "done" => status'[l] = "READY"
<1> USE DEF BringupInv, B!TypeOK, MonitorNeverThrows, B!MonitorNeverThrows,
            UntoldIsUnknown, CountersSet, ConsoleByMain, StatusFitsInit,
            Remotes, B!entries, B!remote, B!SetSolverState, B!StateMutexFree
<1>2. ASSUME B!BeginHereReady \/ B!SetHereReady PROVE Keeps /\ Same
    BY <1>2 DEF B!BeginHereReady, B!SetHereReady
<1>3. ASSUME B!InitHere \/ B!InitHereDone \/ B!InitHereThrows PROVE Keeps /\ Same
    BY <1>3 DEF B!InitHere, B!InitHereDone, B!InitHereThrows
<1>4. ASSUME B!MonitorLoop PROVE Keeps /\ Same
    BY <1>4 DEF B!MonitorLoop
<1>5. ASSUME B!MonitorScan PROVE Keeps /\ Same
    BY <1>5 DEF B!MonitorScan
<1>6. ASSUME NEW l \in Remotes, B!AddSolverState(l) \/ B!RacedInsert(l)
      PROVE  Keeps /\ Same
    BY <1>6 DEF B!AddSolverState, B!RacedInsert
<1>7. ASSUME NEW l \in Solvers,
             \/ B!InitializeWrapper(l) \/ B!InitializeFails(l)
             \/ B!ResolveWrapper(l)
      PROVE  Keeps /\ Same
    BY <1>7 DEF B!InitializeWrapper, B!InitializeFails, B!ResolveWrapper
<1>8. ASSUME NEW l \in Solvers, B!SetSolverStateData(l) PROVE Keeps /\ Same
    BY <1>8 DEF B!SetSolverStateData
<1>9. Keeps /\ Same
    BY <1>2, <1>3, <1>4, <1>5, <1>6, <1>7, <1>8
       DEF BringupStep, B!InternalStep
<1>10. WorkGoesToReady'
    BY <1>1, <1>9, SameOperators DEF WorkGoesToReady, B!ListedAreReady
<1>11. CallsFit'
    BY <1>1, <1>9, SameOperators DEF CallsFit, WorkGoesToReady, B!ListedAreReady
<1> QED
    BY <1>9, <1>10, <1>11
(* The continuation puts the new wrapper on the list. *)
LEMMA ListKeeps ==
    ASSUME BringupInv, TypeInv, NEW l \in Solvers, ListWrapper(l)
    PROVE  BringupInv'
<1> USE LocalitiesAreSolvers, ConsoleAssumption
<1>1. /\ initPc[l] = "listing" /\ l \notin Range(solverIds)
      /\ solverIds' = Append(solverIds, l)
      /\ initPc' = [initPc EXCEPT ![l] = "done"]
      /\ UNCHANGED <<status, hasCounter, mainPc, monitorPc, told, broken>>
      /\ UNCHANGED <<home, spawnPc>>
    BY DEF ListWrapper, B!ListWrapper, AddSolverId, B!entries, B!remote,
           taskVars, spawnVars
<1>2. /\ solverIds \in Seq(Solvers) /\ solverIds' \in Seq(Solvers)
      /\ Range(solverIds') = Range(solverIds) \cup {l}
      /\ IsInjective(solverIds) => IsInjective(solverIds')
  <2>1. solverIds \in Seq(Solvers)
      BY DEF TypeInv, TypeOK
  <2>2. /\ solverIds' \in Seq(Solvers)
        /\ Len(solverIds') = Len(solverIds) + 1
        /\ \A i \in 1 .. Len(solverIds) : solverIds'[i] = solverIds[i]
        /\ solverIds'[Len(solverIds) + 1] = l
      BY <1>1, <2>1, AppendProperties
  <2>3. /\ DOMAIN solverIds = 1 .. Len(solverIds) /\ Len(solverIds) \in Nat
        /\ DOMAIN solverIds' = 1 .. Len(solverIds) + 1
      BY <2>1, <2>2, LenProperties
  <2>4. \A i \in 1 .. Len(solverIds) : solverIds[i] # l
      BY <1>1, <2>3 DEF Range
  <2> QED
      BY <2>1, <2>2, <2>3, <2>4 DEF Range, IsInjective
<1>3. \A k \in Repetitions : home[k] # NoSolver => home[k] \in Solvers
    BY DEF TypeInv, TypeOK
<1>4. \A s \in Range(solverIds) : s \in Solvers
    BY <1>2, ElementOfSeq, LenProperties DEF Range
<1>5. B!TypeOK' /\ MonitorNeverThrows'
    BY <1>1, <1>2
       DEF BringupInv, B!TypeOK, MonitorNeverThrows, B!MonitorNeverThrows
<1>6. UntoldIsUnknown' /\ CountersSet' /\ ConsoleByMain' /\ StatusFitsInit'
    BY <1>1
       DEF BringupInv, B!TypeOK, UntoldIsUnknown, CountersSet, ConsoleByMain,
           StatusFitsInit, Remotes
<1>7. WorkGoesToReady'
    BY <1>1, <1>2, <1>3, <1>4, SameOperators
       DEF BringupInv, B!TypeOK, StatusFitsInit, WorkGoesToReady,
           B!ListedAreReady
<1>8. CallsFit'
  <2>1. \A s \in Range(solverIds') : initPc'[s] = "done"
      BY <1>7, SameOperators DEF WorkGoesToReady, B!ListedAreReady
  <2> QED
      BY <1>1, <2>1 DEF BringupInv, CallsFit
<1> QED
    BY <1>5, <1>6, <1>7, <1>8 DEF BringupInv

(* spawn sends a repetition to a solver that is on the list. *)
LEMMA LaunchKeepsWork ==
    ASSUME BringupInv, TypeInv, SpawnLaunch, UNCHANGED bringupOnly
    PROVE  WorkGoesToReady'
<1>1. /\ spawnIdx \in 1 .. Len(solverIds) /\ solverIds \in Seq(Solvers)
      /\ home' = [home EXCEPT ![seed] = SpawnSolver]
      /\ home \in [Repetitions -> Solvers \cup {NoSolver}]
    BY DEF SpawnLaunch, TypeInv, TypeOK
<1>2. SpawnSolver \in Range(solverIds)
    BY <1>1, LenProperties DEF SpawnSolver, Range
<1>3. UNCHANGED <<solverIds, status, initPc>>
    BY DEF SpawnLaunch, bringupOnly
<1>4. status[SpawnSolver] = "READY" /\ initPc[SpawnSolver] = "done"
    BY <1>2, SameOperators DEF BringupInv, WorkGoesToReady, B!ListedAreReady
<1> QED
    BY <1>1, <1>3, <1>4 DEF BringupInv, WorkGoesToReady, B!ListedAreReady

LEMMA BringupInvStep ==
    BringupInv /\ TypeInv /\ [ProgramNext]_programVars => BringupInv'
<1> SUFFICES ASSUME BringupInv, TypeInv, [ProgramNext]_programVars
             PROVE  BringupInv'
    OBVIOUS
<1> DEFINE Rest == /\ B!TypeOK /\ MonitorNeverThrows
                   /\ UntoldIsUnknown /\ CountersSet /\ ConsoleByMain
                   /\ StatusFitsInit
<1>1. ASSUME UNCHANGED <<bringupOnly, solverIds>>
      PROVE  Rest'
    BY <1>1
       DEF BringupInv, bringupOnly, B!TypeOK, MonitorNeverThrows,
           B!MonitorNeverThrows, UntoldIsUnknown, CountersSet, ConsoleByMain,
           StatusFitsInit
<1>2. ASSUME UNCHANGED <<bringupOnly, solverIds, home>>,
             spawnPc' # "idle" <=> spawnPc # "idle"
      PROVE  BringupInv'
  <2>1. WorkGoesToReady' /\ CallsFit'
      BY <1>2
         DEF BringupInv, bringupOnly, WorkGoesToReady, B!ListedAreReady, CallsFit
  <2> QED
      BY <1>1, <1>2, <2>1 DEF BringupInv
<1>3. ASSUME NEW l \in Solvers, WaitToList(l) PROVE BringupInv'
    BY <1>2, <1>3 DEF WaitToList, WaitToAdd, taskVars, spawnVars
<1>4. ASSUME ClearSolverIds PROVE BringupInv'
  <2>1. /\ solverIds' = <<>> /\ mainPc = "clear" /\ mainPc' = "spawn"
        /\ UNCHANGED <<status, hasCounter, monitorPc, initPc, told, broken>>
        /\ UNCHANGED <<home, spawnPc>>
      BY <1>4
         DEF ClearSolverIds, B!ClearSolverIds, SetSolverIds, B!entries,
             B!remote, taskVars, spawnVars
  <2>2. Range(<<>>) = {} /\ IsInjective(<<>>)
      BY DEF Range, IsInjective
  <2>3. Rest'
      BY <2>1, EmptySeq
         DEF BringupInv, B!TypeOK, MonitorNeverThrows,
             B!MonitorNeverThrows, UntoldIsUnknown, CountersSet, ConsoleByMain,
             StatusFitsInit
  <2>4. WorkGoesToReady' /\ CallsFit'
      BY <2>1, <2>2, SameOperators
         DEF BringupInv, WorkGoesToReady, B!ListedAreReady, CallsFit
  <2> QED
      BY <2>3, <2>4 DEF BringupInv
<1>5. ASSUME CallSpawn \/ WriteResults PROVE BringupInv'
  <2>1. \/ /\ mainPc = "spawn" /\ mainPc' = "solving"
           /\ spawnPc = "idle" /\ spawnPc' = "loop"
        \/ mainPc = "solving" /\ mainPc' = "done" /\ spawnPc' = spawnPc
    <3>1. CASE CallSpawn
        BY <3>1 DEF CallSpawn, B!CallSpawn, SpawnBegin
    <3>2. CASE WriteResults
        BY <3>2 DEF WriteResults, B!WriteResults, wrapperOnly, spawnVars
    <3> QED
        BY <1>5, <3>1, <3>2
  <2>2. /\ UNCHANGED <<status, hasCounter, monitorPc, initPc, told, broken>>
        /\ UNCHANGED <<solverIds, home>>
      BY <1>5
         DEF CallSpawn, B!CallSpawn, SpawnBegin, WriteResults, B!WriteResults,
             wrapperOnly, B!entries, B!remote, taskVars
  <2>3. Rest'
      BY <2>1, <2>2
         DEF BringupInv, B!TypeOK, MonitorNeverThrows,
             B!MonitorNeverThrows, UntoldIsUnknown, CountersSet, ConsoleByMain,
             StatusFitsInit
  <2>4. WorkGoesToReady' /\ CallsFit'
      BY <2>1, <2>2
         DEF BringupInv, WorkGoesToReady, B!ListedAreReady, CallsFit
  <2> QED
      BY <2>3, <2>4 DEF BringupInv
<1>6. ASSUME Quit PROVE BringupInv'
    BY <1>2, <1>6 DEF Quit, Abort, taskVars, spawnVars
<1>7. ASSUME SpawnLaunch, UNCHANGED bringupOnly PROVE BringupInv'
  <2>1. UNCHANGED solverIds /\ spawnPc = "for" /\ spawnPc' = "push"
      BY <1>7 DEF SpawnLaunch
  <2>2. CallsFit'
      BY <1>7, <2>1 DEF BringupInv, CallsFit, bringupOnly
  <2> QED
      BY <1>1, <1>7, <2>1, <2>2, LaunchKeepsWork DEF BringupInv
<1>8. ASSUME Spawn \/ Collector \/ Races, ~SpawnLaunch, UNCHANGED bringupOnly
      PROVE  BringupInv'
  <2> DEFINE Goal == /\ UNCHANGED <<solverIds, home>>
                     /\ spawnPc' # "idle" <=> spawnPc # "idle"
  <2>1. ASSUME Spawn \/ Collector PROVE Goal
      BY <1>8, <2>1
         DEF Spawn, SpawnLoop, SpawnLock, SpawnMiss, SpawnInsert, SpawnSkip,
             SpawnPush, SpawnUnlock, SpawnJoin, Collector, CollLoop, CollLock,
             CollFind, CollInsert, CollTake, CollThrow, CollPop, CollNext,
             CollUnlock, taskVars, spawnVars
  <2>2. ASSUME Races PROVE Goal
      BY <2>2
         DEF Races, CorruptMap, LosePart, Crash, PopOverlaps, MapOverlaps,
             SpawnUsesMap, CollUsesMap, TypeInv, StartedTogether, taskVars,
             spawnVars
  <2> QED
      BY <1>2, <1>8, <2>1, <2>2
<1>9. ASSUME NEW k \in Repetitions, RunRepetition(k) PROVE BringupInv'
    BY <1>2, <1>9 DEF RunRepetition, RunOne, spawnVars
<1>10. ASSUME UNCHANGED programVars PROVE BringupInv'
    BY <1>2, <1>10 DEF programVars, wrapperOnly, taskVars, spawnVars
<1> QED
    BY <1>3, <1>4, <1>5, <1>6, <1>7, <1>8, <1>9, <1>10, BringupStepKeeps,
       ListKeeps
       DEF ProgramNext, WrapperStep, ProgramTerminating

LEMMA BringupInvInProgram == ProgramSpec => [](BringupInv /\ TypeInv)
<1>1. ProgramSpec => []TypeInv
    BY WrapperInvInProgram, PTL
<1>2. BringupInv /\ TypeInv /\ [ProgramNext]_programVars => BringupInv'
    BY BringupInvStep
<1> QED
    BY <1>1, <1>2, BringupInvInit, PTL DEF ProgramSpec

(* The composition is type correct, for every set of localities. *)
THEOREM ProgramTypeCorrect == ProgramSpec => []ProgramTypeOK
<1>1. BringupInv /\ TypeInv => ProgramTypeOK
    BY DEF BringupInv, TypeInv, ProgramTypeOK
<1> QED
    BY <1>1, BringupInvInProgram, PTL

(* Line 630 of main.cpp marks the console READY without a counter, and the
   monitor throws when it meets such an entry (line 392); it is only started
   after the console's counter is set, and no remote's entry is ever READY without
   one, even when the race on the map loses an entry. *)
THEOREM MonitorSafe == ProgramSpec => []MonitorNeverThrows
<1>1. BringupInv => MonitorNeverThrows
    BY DEF BringupInv
<1> QED
    BY <1>1, BringupInvInProgram, PTL

(* A repetition is only sent to a locality that is READY and whose bring-up is
   over, and such a locality is listed once (lines 267, 733-750). *)
THEOREM WorkOnlyToReady == ProgramSpec => []WorkGoesToReady
<1>1. BringupInv => WorkGoesToReady
    BY DEF BringupInv
<1> QED
    BY <1>1, BringupInvInProgram, PTL

(* The guards the wrapper's model puts on its callers exclude no behaviour of the
   program: whenever a wrapper is about to be listed it is not on the list, and
   spawn runs exactly when hpx_main has called it. *)
THEOREM CallsWelcome == ProgramSpec => []CallsFit
<1>1. BringupInv => CallsFit
    BY DEF BringupInv
<1> QED
    BY <1>1, BringupInvInProgram, PTL

-----------------------------------------------------------------------------
(***************************************************************************)
(* What a step may never do.                                               *)
(***************************************************************************)

LEMMA RankIs ==
    /\ B!Rank("absent") = 0 /\ B!Rank("CONNECTING") = 1
    /\ B!Rank("INITIALIZING") = 2 /\ B!Rank("READY") = 3
<1>1. \A n \in 0 .. 3 : n = 0 \/ n = 1 \/ n = 2 \/ n = 3
    OBVIOUS
<1> DEFINE S == <<"absent", "CONNECTING", "INITIALIZING", "READY">>
<1>2. S[1] = "absent" /\ S[2] = "CONNECTING" /\ S[3] = "INITIALIZING" /\ S[4] = "READY"
    OBVIOUS
<1>3. S[0+1] = S[1] /\ S[1+1] = S[2] /\ S[2+1] = S[3] /\ S[3+1] = S[4]
    OBVIOUS
<1> HIDE DEF S
<1>4. \A n \in 0 .. 3 : /\ S[n+1] = "absent" <=> n = 0
                        /\ S[n+1] = "CONNECTING" <=> n = 1
                        /\ S[n+1] = "INITIALIZING" <=> n = 2
                        /\ S[n+1] = "READY" <=> n = 3
    BY <1>1, <1>2, <1>3
<1>5. B!Rank("absent") = CHOOSE n \in 0 .. 3 : S[n+1] = "absent"
    BY DEF B!Rank, S
<1>6. B!Rank("CONNECTING") = CHOOSE n \in 0 .. 3 : S[n+1] = "CONNECTING"
    BY DEF B!Rank, S
<1>7. B!Rank("INITIALIZING") = CHOOSE n \in 0 .. 3 : S[n+1] = "INITIALIZING"
    BY DEF B!Rank, S
<1>8. B!Rank("READY") = CHOOSE n \in 0 .. 3 : S[n+1] = "READY"
    BY DEF B!Rank, S
<1> QED
    BY <1>4, <1>5, <1>6, <1>7, <1>8

(* How a step may change what the console knows of a locality. *)
LEMMA LocalityStep ==
    ASSUME BringupInv, TypeInv, [ProgramNext]_programVars,
           NEW l \in B!Localities
    PROVE  /\ initPc[l] # "none" => /\ initPc'[l] # "none"
                                    /\ initPc'[l] = "called" => initPc[l] = "called"
           /\ \/ status'[l] = status[l] \/ status'[l] = "READY"
              \/ status[l] = "absent" /\ status'[l] = "CONNECTING"
              \/ status[l] = "CONNECTING" /\ status'[l] = "INITIALIZING"
<1> USE LocalitiesAreSolvers, ConsoleAssumption
<1> DEFINE Fits == /\ initPc[l] # "none" =>
                          /\ initPc'[l] # "none"
                          /\ initPc'[l] = "called" => initPc[l] = "called"
                   /\ \/ status'[l] = status[l] \/ status'[l] = "READY"
                      \/ status[l] = "absent" /\ status'[l] = "CONNECTING"
                      \/ status[l] = "CONNECTING" /\ status'[l] = "INITIALIZING"
<1>1. ASSUME UNCHANGED <<status, initPc>> PROVE Fits
    BY <1>1
<1>2. ASSUME BringupStep PROVE Fits
  <2> USE DEF BringupInv, B!TypeOK, UntoldIsUnknown, ConsoleByMain,
              StatusFitsInit, Remotes, B!entries, B!SetSolverState
  <2>1. ASSUME \/ B!BeginHereReady \/ B!SetHereReady \/ B!InitHere
               \/ B!InitHereDone \/ B!InitHereThrows \/ B!MonitorLoop
        PROVE  Fits
      BY <2>1
         DEF B!BeginHereReady, B!SetHereReady, B!InitHere, B!InitHereDone,
             B!InitHereThrows, B!MonitorLoop
  <2>2. ASSUME B!MonitorScan PROVE Fits
      BY <2>2 DEF B!MonitorScan
  <2>3. ASSUME NEW r \in Remotes, B!AddSolverState(r) \/ B!RacedInsert(r)
        PROVE  Fits
      BY <2>3 DEF B!AddSolverState, B!RacedInsert
  <2>4. ASSUME NEW r \in Solvers,
               \/ B!InitializeWrapper(r) \/ B!InitializeFails(r)
               \/ B!ResolveWrapper(r) \/ B!SetSolverStateData(r)
        PROVE  Fits
      BY <2>4
         DEF B!InitializeWrapper, B!InitializeFails, B!ResolveWrapper,
             B!SetSolverStateData
  <2> QED
      BY <1>2, <2>1, <2>2, <2>3, <2>4 DEF BringupStep, B!InternalStep
<1>3. ASSUME NEW r \in Solvers, ListWrapper(r) PROVE Fits
    BY <1>3 DEF ListWrapper, B!ListWrapper, B!entries, BringupInv, B!TypeOK
<1>4. CASE ~BringupStep /\ \A r \in Solvers : ~ListWrapper(r)
  <2>1. UNCHANGED <<status, initPc>>
      BY <1>4
         DEF ProgramNext, ProgramTerminating, WrapperStep, RunRepetition,
             WaitToList, ClearSolverIds, B!ClearSolverIds, CallSpawn,
             B!CallSpawn, WriteResults, B!WriteResults, Quit, bringupOnly,
             programVars, B!entries
  <2> QED
      BY <1>1, <2>1
<1> QED
    BY <1>2, <1>3, <1>4

(* init_node is called once for a locality, although the monitor meets it in
   every pass while its initialisation is under way (lines 383-404). *)
THEOREM InitOnce == ProgramSpec => InitialisedOnce
<1>1. BringupInv /\ TypeInv /\ [ProgramNext]_programVars =>
          [\A l \in B!Localities :
              initPc[l] # "none" =>
                  /\ initPc'[l] # "none"
                  /\ initPc'[l] = "called" => initPc[l] = "called"]_(B!vars)
    BY LocalityStep
<1> QED
    BY <1>1, BringupInvInProgram, PTL
       DEF ProgramSpec, InitialisedOnce, B!InitialisedOnce

(* What the console knows of a locality only moves forward, although hpx_main,
   the locality, the monitor and the continuations write its entry (lines
   136-173, 397-400, 630). *)
THEOREM StatusForward == ProgramSpec => StatusAdvances
<1>1. ASSUME BringupInv, TypeInv, [ProgramNext]_programVars,
             NEW l \in B!Localities
      PROVE  B!Rank(status[l]) <= B!Rank(status'[l])
  <2>1. status[l] \in {"absent", "CONNECTING", "INITIALIZING", "READY"}
      BY <1>1 DEF BringupInv, B!TypeOK
  <2> QED
      BY <1>1, <2>1, LocalityStep, RankIs
<1>2. BringupInv /\ TypeInv /\ [ProgramNext]_programVars =>
          [\A l \in B!Localities :
              B!Rank(status[l]) <= B!Rank(status'[l])]_(B!vars)
    BY <1>1
<1> QED
    BY <1>2, BringupInvInProgram, PTL
       DEF ProgramSpec, StatusAdvances, B!StatusAdvances

=============================================================================
