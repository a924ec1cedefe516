-------------------------- MODULE LocalityBringup --------------------------
(***************************************************************************)
(* How localities become part of the computation (main.cpp): the console   *)
(* runs hpx_main, initialises its own solver wrapper, starts the monitor   *)
(* and the stdin thread, and hands over to spawn.  A remote locality sends *)
(* CONNECTING; the monitor finds it, calls init_node, and init_node's      *)
(* continuations end by listing the new wrapper with addSolverId.          *)
(*                                                                         *)
(* state_mutex follows from the program counters: a continuation holds it  *)
(* from its set_solver_state_data until addSolverId has returned, and      *)
(* every other use of it is one step that needs it free.  A wrapper is     *)
(* named by its locality.  The status of a locality is the state field of  *)
(* its entry in locality_states, "absent" when it has none.                *)
(*                                                                         *)
(* hpx_main writes its own entry without state_mutex: an insertion by a    *)
(* remote at the same time is a data race on a std::map.                   *)
(***************************************************************************)
EXTENDS Integers, Sequences, Functions

CONSTANTS
    Console,    (* The root locality, rank 0.                              *)
    Remotes,    (* Localities that may connect, at start-up or later.      *)
    MapRace,    (* The race on locality_states may do harm.                *)
    InitMayFail (* initialize_solver_wrapper may end with an exception.    *)

Localities == Remotes \cup {Console}

VARIABLES
    status,     (* locality_states[l].state                                *)
    hasCounter, (* locality_states[l].idle_counter # invalid_id            *)
    mainPc,     (* hpx_main on the console                                 *)
    monitorPc,  (* the monitor thread                                      *)
    initPc,     (* init_node(l) and its continuations                      *)
    told,       (* remotes whose add_solver_state has returned to them     *)
    broken,     (* localities whose wrapper's name leads to no wrapper     *)
    solverIds   (* _solver_ids of the console's wrapper                    *)

entries == <<status, hasCounter>>
remote  == <<told, broken>>
vars == <<entries, mainPc, monitorPc, initPc, remote, solverIds>>

-----------------------------------------------------------------------------

StateMutexFree == \A l \in Localities : initPc[l] # "listing"

(* set_solver_state: an existing entry keeps its counter, a new one has none. *)
SetSolverState(l, s) ==
    /\ status' = [status EXCEPT ![l] = s]
    /\ UNCHANGED hasCounter

Init ==
    /\ status = [l \in Localities |-> "absent"]
    /\ hasCounter = [l \in Localities |-> FALSE]
    /\ mainPc = "start"
    /\ monitorPc = "off"
    /\ initPc = [l \in Localities |-> "none"]
    /\ told = {} /\ broken = {}
    /\ solverIds = <<>>

(***************************************************************************)
(* Mutations: plausible slips that must break a property.                  *)
(***************************************************************************)

MAddSolverStateResent(l) ==             \* the notification is not sent once
    /\ StateMutexFree
    /\ SetSolverState(l, "CONNECTING")
    /\ told' = told \cup {l}
    /\ UNCHANGED <<mainPc, monitorPc, initPc, broken, solverIds>>

MMonitorScanForgets ==                  \* CONNECTING is not set aside
    /\ monitorPc = "scan" /\ StateMutexFree
    /\ monitorPc' = "loop"
    /\ initPc' = [l \in Localities |->
                     IF status[l] = "CONNECTING" THEN "called" ELSE initPc[l]]
    /\ UNCHANGED <<entries, mainPc, remote, solverIds>>

MInitHereNoWait ==                      \* the future of init_node is dropped
    /\ mainPc = "waitInit"
    /\ mainPc' = "clear"
    /\ monitorPc' = "loop"
    /\ UNCHANGED <<entries, initPc, remote, solverIds>>

MSetStateDataOnly(l) ==                 \* the mutex is left before addSolverId
    /\ initPc[l] = "resolved" /\ StateMutexFree
    /\ status' = [status EXCEPT ![l] = "READY"]
    /\ hasCounter' = [hasCounter EXCEPT ![l] = TRUE]
    /\ initPc' = [initPc EXCEPT ![l] = "done"]
    /\ UNCHANGED <<mainPc, monitorPc, remote, solverIds>>

MSetStateDataLate(l) ==                 \* READY is set after addSolverId
    /\ initPc[l] = "resolved" /\ StateMutexFree
    /\ initPc' = [initPc EXCEPT ![l] = "listing"]
    /\ UNCHANGED <<entries, mainPc, monitorPc, remote, solverIds>>

(***************************************************************************)
(* hpx_main on the console.                                                *)
(***************************************************************************)

(* set_solver_state(here, READY) without state_mutex: the search, then the
   insertion. *)
BeginHereReady ==
    /\ mainPc = "start"
    /\ mainPc' = "inserting"
    /\ UNCHANGED <<entries, monitorPc, initPc, remote, solverIds>>

SetHereReady ==
    /\ mainPc = "inserting"
    /\ SetSolverState(Console, "READY")
    /\ mainPc' = "load"
    /\ UNCHANGED <<monitorPc, initPc, remote, solverIds>>

(* Two insertions at once: either node may be lost, or the tree is corrupted
   and the program ends. *)
RacedInsert(l) ==
    /\ MapRace /\ mainPc = "inserting"
    /\ l \notin told /\ StateMutexFree
    /\ told' = told \cup {l}
    /\ \/ mainPc' = "crashed" /\ status' = status
       \/ mainPc' = "load" /\ SetSolverState(Console, "READY")
       \/ mainPc' = "load" /\ SetSolverState(l, "CONNECTING")
    /\ UNCHANGED <<hasCounter, monitorPc, initPc, broken, solverIds>>

(* The Hamiltonian is loaded, then init_node(here). *)
InitHere ==
    /\ mainPc = "load"
    /\ initPc' = [initPc EXCEPT ![Console] = "called"]
    /\ mainPc' = "waitInit"
    /\ UNCHANGED <<entries, monitorPc, remote, solverIds>>

(* fut.get(), then the monitor and poll_stdin are applied.  The wrapper ids
   resolved next (lines 710-720) are thrown away by SolverIdForRank.clear(). *)
InitHereDone ==
    /\ mainPc = "waitInit" /\ initPc[Console] = "done"
    /\ mainPc' = "clear"
    /\ monitorPc' = "loop"
    /\ UNCHANGED <<entries, initPc, remote, solverIds>>

(* fut.get() rethrows, and the exception leaves hpx_main. *)
InitHereThrows ==
    /\ mainPc = "waitInit" /\ initPc[Console] = "failed"
    /\ mainPc' = "threw"
    /\ UNCHANGED <<entries, monitorPc, initPc, remote, solverIds>>

(* wrappedSolver->setSolverIds of the emptied vector. *)
ClearSolverIds ==
    /\ mainPc = "clear"
    /\ solverIds' = <<>>
    /\ mainPc' = "spawn"
    /\ UNCHANGED <<entries, monitorPc, initPc, remote>>

CallSpawn ==
    /\ mainPc = "spawn"
    /\ mainPc' = "solving"
    /\ UNCHANGED <<entries, monitorPc, initPc, remote, solverIds>>

(* spawn returned: the results are written, then hpx::finalize. *)
WriteResults ==
    /\ mainPc = "solving"
    /\ mainPc' = "done"
    /\ UNCHANGED <<entries, monitorPc, initPc, remote, solverIds>>

(***************************************************************************)
(* A remote locality's hpx_main: add_solver_state on the console, once.    *)
(* It may be connected at start-up or by `add` while the job runs.         *)
(***************************************************************************)
AddSolverState(l) ==
    /\ l \notin told /\ StateMutexFree
    /\ SetSolverState(l, "CONNECTING")
    /\ told' = told \cup {l}
    /\ UNCHANGED <<mainPc, monitorPc, initPc, broken, solverIds>>

(***************************************************************************)
(* The monitor thread.                                                     *)
(***************************************************************************)

(* The top of its loop.  The monitor leaves when HPX shows it that the runtime
   is shutting down, which hpx::finalize asks for.  Whether it ever does is
   outside this code, and its comments doubt it ("does not terminate", line 317;
   line 350): it may make another pass, and one more, for ever. *)
MonitorLoop ==
    /\ monitorPc = "loop"
    /\ \/ monitorPc' = "scan"
       \/ mainPc = "done" /\ monitorPc' = "stopped"
    /\ UNCHANGED <<entries, mainPc, initPc, remote, solverIds>>

(* One pass over locality_states under the shared lock: every CONNECTING
   locality is set to INITIALIZING and an init_node for it is applied.  A READY
   one without a counter makes the thread throw, somewhere in its pass. *)
MonitorScan ==
    LET connecting == {l \in Localities : status[l] = "CONNECTING"}
        bad == \E l \in Localities : status[l] = "READY" /\ ~hasCounter[l]
    IN
    /\ monitorPc = "scan" /\ StateMutexFree
    /\ \E seen \in SUBSET connecting :
          /\ ~bad => seen = connecting
          /\ status' = [l \in Localities |->
                           IF l \in seen THEN "INITIALIZING" ELSE status[l]]
          /\ initPc' = [l \in Localities |->
                           IF l \in seen THEN "called" ELSE initPc[l]]
    /\ monitorPc' = IF bad THEN "threw" ELSE "loop"
    /\ UNCHANGED <<hasCounter, mainPc, remote, solverIds>>

(***************************************************************************)
(* init_node(l).                                                           *)
(***************************************************************************)

(* initialize_solver_wrapper on l: the wrapper exists and its name is
   registered. *)
InitializeWrapper(l) ==
    /\ initPc[l] = "called"
    /\ initPc' = [initPc EXCEPT ![l] = "created"]
    /\ UNCHANGED <<entries, mainPc, monitorPc, remote, solverIds>>

(* It ends with an exception, which the continuation never looks at (fi is not
   used): the wrapper's name is looked up all the same.  It is not there, which
   ends init_node with an exception, or it was registered before the exception,
   for no wrapper.  On the console there is then no getSolver() either. *)
InitializeFails(l) ==
    /\ InitMayFail /\ initPc[l] = "called"
    /\ \/ /\ initPc' = [initPc EXCEPT ![l] = "failed"] /\ broken' = broken
       \/ /\ l # Console
          /\ initPc' = [initPc EXCEPT ![l] = "created"]
          /\ broken' = broken \cup {l}
    /\ UNCHANGED <<entries, mainPc, monitorPc, told, solverIds>>

(* The first continuation asks for the wrapper's id and the idle counter; both
   futures become ready. *)
ResolveWrapper(l) ==
    /\ initPc[l] = "created"
    /\ initPc' = [initPc EXCEPT ![l] = "resolved"]
    /\ UNCHANGED <<entries, mainPc, monitorPc, remote, solverIds>>

(* The dataflow continuation takes state_mutex and sets the locality's data. *)
SetSolverStateData(l) ==
    /\ initPc[l] = "resolved" /\ StateMutexFree
    /\ status' = [status EXCEPT ![l] = "READY"]
    /\ hasCounter' = [hasCounter EXCEPT ![l] = TRUE]
    /\ initPc' = [initPc EXCEPT ![l] = "listing"]
    /\ UNCHANGED <<mainPc, monitorPc, remote, solverIds>>

(* wrappedSolver->addSolverId(wrapper), still holding state_mutex. *)
ListWrapper(l) ==
    /\ initPc[l] = "listing"
    /\ solverIds' = Append(solverIds, l)
    /\ initPc' = [initPc EXCEPT ![l] = "done"]
    /\ UNCHANGED <<entries, mainPc, monitorPc, remote>>

-----------------------------------------------------------------------------

(* The steps that leave the wrapper alone. *)
InternalStep ==
    \/ BeginHereReady \/ SetHereReady
    \/ InitHere \/ InitHereDone \/ InitHereThrows
    \/ MonitorLoop \/ MonitorScan
    \/ \E l \in Remotes : AddSolverState(l) \/ RacedInsert(l)
    \/ \E l \in Localities : \/ InitializeWrapper(l) \/ InitializeFails(l)
                             \/ ResolveWrapper(l) \/ SetSolverStateData(l)

-----------------------------------------------------------------------------

TypeOK ==
    /\ status \in [Localities ->
                      {"absent", "CONNECTING", "INITIALIZING", "READY"}]
    /\ hasCounter \in [Localities -> BOOLEAN]
    /\ mainPc \in {"start", "inserting", "load", "waitInit", "clear", "spawn",
                   "solving", "done", "threw", "crashed"}
    /\ monitorPc \in {"off", "loop", "scan", "threw", "stopped"}
    /\ initPc \in [Localities -> {"none", "called", "created", "resolved",
                                  "listing", "done", "failed"}]
    /\ told \subseteq Remotes /\ broken \subseteq Remotes
    /\ solverIds \in Seq(Localities)

(* hpx_main marks the console READY without a counter before anything is
   initialised (line 630), yet the monitor never meets a READY locality without
   one and so never throws (line 392). *)
MonitorNeverThrows == monitorPc # "threw"

(* A locality is initialised once: a second init_node would replace the wrapper
   that queued futures and the registered name refer to.  The monitor looks at
   it again and again while its initialisation is still under way. *)
InitialisedOnce ==
    [][\A l \in Localities :
          initPc[l] # "none" =>
              /\ initPc'[l] # "none"
              /\ initPc'[l] = "called" => initPc[l] = "called"
      ]_vars

Rank(s) == CHOOSE n \in 0 .. 3 :
    <<"absent", "CONNECTING", "INITIALIZING", "READY">>[n + 1] = s

(* What the console knows of a locality only moves forward, although the
   locality, the monitor and the continuations write it independently. *)
StatusAdvances ==
    [][\A l \in Localities : Rank(status[l]) <= Rank(status'[l])]_vars

(* Only localities that finished initialisation are listed, each once. *)
ListedAreReady ==
    /\ IsInjective(solverIds)
    /\ \A l \in Range(solverIds) : status[l] = "READY" /\ initPc[l] = "done"

=============================================================================
