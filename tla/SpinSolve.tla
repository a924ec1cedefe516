----------------------------- MODULE SpinSolve -----------------------------
(***************************************************************************)
(* The whole program on the console: SolverWrapper and LocalityBringup,    *)
(* joined where main.cpp calls the wrapper.  They share _solver_ids, and a *)
(* solver is its locality.  A continuation that lists a new solver holds   *)
(* state_mutex while it waits for the readers of _solver_id_mutex; hpx_main*)
(* clears the list, calls spawn, and writes the results after it returned. *)
(***************************************************************************)
EXTENDS SolverWrapper

CONSTANTS Console, MapRace, InitMayFail     (* see LocalityBringup *)

ASSUME ConsoleAssumption == Console \in Solvers
ASSUME BringupAssumption ==
    MapRace \in BOOLEAN /\ InitMayFail \in {FALSE, MayFail}

Remotes == Solvers \ {Console}

VARIABLES status, hasCounter, mainPc, monitorPc, initPc, told, broken

B == INSTANCE LocalityBringup

bringupOnly == <<status, hasCounter, mainPc, monitorPc, initPc, told, broken>>
wrapperOnly == <<abort, asyncResults, mapVars, results, totalCompleted,
                 taskVars, writerWaits, spawnVars, collVars>>
programVars == <<bringupOnly, solverIds, wrapperOnly>>

ProgramInit == B!Init /\ Init

(* The races have not ended the process. *)
Alive == mainPc # "crashed" /\ spawnPc # "crashed"

(* init_node's continuation lists the wrapper it resolved. *)
ListWrapper(l) == Alive /\ B!ListWrapper(l) /\ AddSolverId(l)

(* It finds readers of _solver_id_mutex in: it waits, holding state_mutex. *)
WaitToList(l) ==
    /\ Alive /\ initPc[l] = "listing"
    /\ WaitToAdd(l)
    /\ UNCHANGED bringupOnly

ClearSolverIds == B!ClearSolverIds /\ SetSolverIds(<<>>)

CallSpawn == B!CallSpawn /\ SpawnBegin

(* x = spawn(...) is copied to the output file.  An exception out of spawn
   leaves hpx_main. *)
WriteResults ==
    /\ spawnPc = "returned"
    /\ B!WriteResults
    /\ UNCHANGED wrapperOnly

(* `quit` on stdin; poll_stdin runs once hpx_main has applied it. *)
Quit ==
    /\ Alive /\ mainPc \in {"clear", "spawn", "solving"}
    /\ Abort
    /\ UNCHANGED bringupOnly

BringupStep == Alive /\ B!InternalStep /\ UNCHANGED wrapperOnly

WrapperStep ==
    /\ Spawn \/ Collector \/ Races
    /\ UNCHANGED bringupOnly

(* A run on a wrapper that does not exist can only end with an exception. *)
RunRepetition(k) ==
    /\ RunOne(k)
    /\ home[k] \in broken => outcome'[k] = "exception"
    /\ UNCHANGED bringupOnly

ProgramTerminating ==
    /\ \/ mainPc = "done" /\ monitorPc = "stopped"
       \/ mainPc \in {"threw", "crashed"} \/ spawnPc \in {"threw", "crashed"}
    /\ UNCHANGED programVars

ProgramNext ==
    \/ BringupStep
    \/ \E l \in Solvers : ListWrapper(l) \/ WaitToList(l)
    \/ ClearSolverIds \/ CallSpawn \/ WriteResults \/ Quit
    \/ WrapperStep
    \/ \E k \in Repetitions : RunRepetition(k)
    \/ ProgramTerminating

(* HPX schedules every thread it has, and nobody who waits for state_mutex or
   _solver_id_mutex loses the competition for it forever (strong fairness).
   Remotes that never connect and a user who never quits are allowed. *)
ProgramFairness ==
    /\ WF_programVars(/\ BringupStep
                      /\ \/ B!BeginHereReady \/ B!SetHereReady
                         \/ B!InitHere \/ B!InitHereDone \/ B!InitHereThrows)
    /\ WF_programVars(ClearSolverIds \/ CallSpawn \/ WriteResults)
    /\ WF_programVars(BringupStep /\ B!MonitorLoop)
    /\ SF_programVars(BringupStep /\ B!MonitorScan)
    /\ \A l \in Solvers :
          /\ SF_programVars(/\ BringupStep
                            /\ \/ B!InitializeWrapper(l) \/ B!ResolveWrapper(l)
                               \/ B!SetSolverStateData(l))
          /\ SF_programVars(ListWrapper(l)) /\ SF_programVars(WaitToList(l))
    /\ WF_programVars(Spawn /\ UNCHANGED bringupOnly)
    /\ SF_programVars(SpawnLock /\ UNCHANGED bringupOnly)
    /\ WF_programVars(Collector /\ UNCHANGED bringupOnly)
    /\ SF_programVars(CollLock /\ UNCHANGED bringupOnly)
    /\ \A k \in Repetitions : WF_programVars(RunRepetition(k))

ProgramSpec == ProgramInit /\ [][ProgramNext]_programVars /\ ProgramFairness

-----------------------------------------------------------------------------

(* Properties of the two parts, checked of their composition. *)
ProgramTypeOK == B!TypeOK /\ TypeOK
MonitorNeverThrows == B!MonitorNeverThrows
InitialisedOnce == B!InitialisedOnce
StatusAdvances == B!StatusAdvances

(* A repetition is only ever sent to a locality that the console knows to be
   READY and whose bring-up is over, whatever connects or fails while spawn runs,
   and whatever the race on the map has done.  (Its wrapper exists, unless the
   bring-up failed and nobody looked: those are the broken ones.) *)
WorkGoesToReady ==
    /\ B!ListedAreReady
    /\ \A k \in Repetitions :
          home[k] # NoSolver => /\ status[home[k]] = "READY"
                                /\ initPc[home[k]] = "done"

(* Nothing comes of a locality: its entry was lost in the race, its bring-up
   ended with an exception, or the program is over. *)
NoUse(l) ==
    \/ status[l] = "absent" \/ initPc[l] = "failed"
    \/ mainPc \in {"threw", "crashed"}

(* It was listed and hpx_main has cleared it from the list (ReadyReceivesWork). *)
Cleared(l) == initPc[l] = "done" /\ l \notin Range(solverIds)

(* Job resizing: a locality that has told the console of itself while
   repetitions remain, and was not on the list when that was cleared, is found by
   the monitor, initialised, listed although both threads keep reading the list,
   and given a repetition. *)
ConnectedGetsWork ==
    \A l \in Remotes :
        (l \in told /\ mainPc = "solving" /\ ~Cleared(l))
            ~> (abort \/ remaining = 0 \/ NoUse(l)
                \/ \E k \in Repetitions : home[k] = l)

(* quit leads to the results being written, or spawn throws (collector died),
   although localities go on connecting and two threads hold the lock that the
   new ones need.  It does not say that the process ends: the monitor may stay
   (MonitorLoop). *)
QuitEnds ==
    (abort /\ mainPc = "solving") ~> (mainPc = "done" \/ spawnPc = "threw")

(* main.cpp:662: every locality is initialised "and ready to receive work": one
   that is READY when spawn runs is given work as long as there is some. *)
ReadyReceivesWork ==
    \A l \in Solvers :
        (status[l] = "READY" /\ mainPc = "solving")
            ~> (abort \/ remaining = 0
                \/ \E k \in Repetitions : home[k] = l)

=============================================================================
