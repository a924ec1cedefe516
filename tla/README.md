# A TLA+ development for spin_glass_solver

spin_glass_solver anneals Ising Hamiltonians on a cluster. One HPX locality, the
console, hands out *repetitions* (independent annealing runs) to the solver
wrapper of every locality, localities may join while the job runs, and the user
types commands at the console. This directory models that program: which thread
does what to which shared state, what can go wrong between two of their steps,
and what the program promises all the same. A second program anneals the same
lattices on one thread; it is the reference, and modelled too. TLC checks every
model on small instances; TLAPS proves, for every instance, the solver wrapper, the
composition around it, the seeds, the reference program from the lattice file to the
printed energies, stdin with the command runner, and the process library on both of
its platforms.

Contents: 1 the system, 2 the modules, 3 the runs, 4 fairness, 5 what is proved,
6 where the code and its comments part, 7 what is not modelled, 8 the plan.
`PROJECT.json` maps every definition to its source lines.

## 1 The system

| component | source | state | operations | models |
|---|---|---|---|---|
| solver wrapper | `async/solver_wrapper.hpp` | `_solver_ids` and its shared mutex, a map with one queue of futures per solver, the result vector, `_abort` | `spawn`, the collector `remove_completed_solver_steps`, `addSolverId`, `setSolverIds`, `abort`, `run_one` | SolverWrapper, RepetitionLedger |
| seeds | `async/solver_wrapper.hpp`, `src/sa_solver.cpp`, `src/single_thread.cpp` | the counter `seed`, `local_seed_offset`, the generator | the launch loop, the conversions on the way to `minstd_rand0` | SeedArithmetic |
| locality bring-up | `src/main.cpp`, `async/solver_manager.hpp` | `locality_states` and `state_mutex`, the solver list | `hpx_main`, `monitor`, `init_node` and its continuations, `add_solver_state` | LocalityBringup, SpinSolve |
| stdin commands | `src/main.cpp` | descriptor 0, the buffer of `std::cin`, `line`, `abort` | `inputAvailable`, `poll_stdin`, `add_nodes`, `add_nodes_slurm` | StdinPoller, StdinCommands |
| Hamiltonian loader | `src/hamiltonian.cpp`, `.hpp` | site numbers, edges, adjacency lists | the constructor | Hamiltonian, HamiltonianGraph |
| annealing | `src/sa_solver.cpp`, `.hpp` | `spins_`, the energy | `run`, `compute_energy`, `delta_energy` | SaSolver |
| reference program | `src/single_thread.cpp`, `src/result.cpp` | the results, the output file | `main`, `operator<<` | SingleThread |
| process library | `src/kwsys/kwsys_Process.h` | a process object | the client's calls and what they promise | ChildProcess |
| its UNIX branch | `src/kwsys/ProcessUNIX.c` | a process object, its pipes, its children, the table of the SIGCHLD handler | Execute, WaitForData, WaitForExit, Kill, Disown, Delete, the handler | KwsysProcess |
| its Windows branch | `src/kwsys/ProcessWin32.c` | the same, and a reader and a waker thread for each pipe with their semaphores | the same calls, the four threads | KwsysWin32 |
| command runner | `src/CommandCapture.cpp` | a temporary file, a process object | ExecuteAndCapture, ExecuteAndDetach, getTempFile | CommandCapture, StdinCommands |
| logging, scheduler, parser, scripts, plots | see `PROJECT.json` | | | no |

How they interact. `hpx_main` on the console sets itself READY, loads the
Hamiltonian, runs `init_node(here)`, starts the monitor and the stdin thread,
empties the solver list (line 738) and calls `spawn`. A remote locality calls
`add_solver_state` on the console (CONNECTING). The monitor finds it there once a
second, sets INITIALIZING and applies `init_node`, whose continuations build the
remote wrapper, set READY under `state_mutex` and, still holding it, call
`addSolverId` on the console's wrapper. `spawn` and the collector iterate over
that list under a shared lock; each `run_one` runs on the locality it was sent
to and fulfils a future. `quit` on stdin calls `abort`, which both threads of the
wrapper poll. `add` starts a batch job through the command runner and the process
library, and that job's localities connect later.

What is hard, and what makes each component correct:

* **Solver wrapper.** Two threads and any number of callers share a vector and a
  map of queues; readers hold only a shared lock, although one pushes and one
  pops, and both insert into the map. A result is moved out of a future before the
  future is popped. Correct means: no repetition is collected twice, and none lost
  unless the race on the map loses it; a queue belongs to one solver and never
  exceeds its cap, results of one solver come in launch order, the list never
  changes under an iteration, everything that finishes is collected, quit ends both
  threads, a late solver is used, spawn keeps the ledger.
* **Bring-up.** Three kinds of threads write a locality's status; one of them holds
  `state_mutex` while it waits for the wrapper's lock. Correct means: initialised
  once, the status never goes backwards, work goes only to READY localities, the
  monitor does not meet a READY locality without its counter, a locality that
  connects during a run gets work, quit ends `spawn` and the results are written.
  All this although the console's own entry is written without `state_mutex`, a
  bring-up may fail and nobody looks at its result.
* **Seeds.** A 64-bit counter passes through `int` and `size_t` into a generator
  that replaces state 0; the offset it starts from is a NaN unless a locality has been
  listed in the last moment before `spawn`. Correct means: the streams of the
  single-threaded program in their order, and no two repetitions with the same one.
* **Stdin and the command runner.** `select` sees the descriptor, `getline` the
  buffer in front of it; a command occupies the polling thread; the child it
  starts, its temporary file and its descriptor outlive the call in several ways.
  Correct means: commands in order and once, no blocking of the worker thread, quit
  obeyed, and a capture that returns the output of its own command, all of it.
* **Loader, annealing and the reference program.** Edges compared after
  renumbering; energies updated by increments and never recomputed. Correct means:
  the printed energy is the one that the *file* gives the printed spins, and every
  repetition is printed.
* **Process library.** On UNIX signals on any thread, partial failure of every system
  call, timeouts, grandchildren; on Windows four threads that block in reads, woken
  by bytes written to their own pipes. Correct means the same for both: no child
  left when the client gets its answer, and an answer that is true (ChildProcess);
  then, on each, no wakeup lost, nothing left open, `kill` only at live pids,
  threads and semaphores as new after each execution, data once and in order.

The hazards, each at its line and with the properties for it, are in
`PROJECT.json`.

## 2 The modules

**SolverWrapper** is the core. Threads are program counters: `spawnPc` (`loop`,
`lock`, `for`, `insert`, `push`, `join`) with `spawnIdx` for the range-for, and
`collPc` (`loop`, `lock`, `find`, `insert`, `for`, `pop`) with `collIdx`. A repetition
is named by the value of `seed` it was launched with; `home` is the solver it was sent
to and `outcome` the shared state of its future. Who reads under `_solver_id_mutex`
follows from the program counters, `writerWaits` is a writer that keeps new readers
out, and a writer's critical section is one step that needs no reader inside. One
action per stretch of code between two points where another thread can interfere
(`SpawnLaunch`: cap test and `hpx::async`; `SpawnPush`: push and counters; `CollTake`:
`get`; `CollPop`: `pop`). `operator[]` of the map is two steps where it does not find
its solver: the lookup that misses (`SpawnMiss`, `CollFind`) and the insertion
(`SpawnInsert`, `CollInsert`), with room for the other thread in between; `entries`
are the keys. The constant `RaceHarmful` says whether the two data races may show. On
a queue, pushed to and popped from: a torn `size()` lets either branch of the cap test
be taken, an overlapping push may end the process (`Crash`). On the map, inserted into
while the other thread is in it (`MapOverlaps`): the tree is damaged (`CorruptMap`),
and from then on any part of any queue may be lost (`LosePart`) and every access may
end the process. `MayFail` lets `run_one` end with an exception, which `get` rethrows
in the collector.

**RepetitionLedger** is what `spawn` promises its caller: launch in order, finish
and collect at most once, nothing after it has left. `SolverWrapper!ImplementsLedger`
is the refinement: launched is the set of repetitions with a home, finished those
with a value, collected the result vector, closed that spawn has left.

**LocalityBringup** has one program counter per locality (`initPc`), one for
`hpx_main` and one for the monitor. **SpinSolve** is the program: it EXTENDS
SolverWrapper and takes LocalityBringup as an INSTANCE (`B`); the two share
`solverIds`, and a solver is its locality. `ListWrapper` is at once the continuation's
last step and `addSolverId`, `WaitToList` the wait for the lock with `state_mutex`
held, `ClearSolverIds` the call of `setSolverIds` by `hpx_main`. The monitor may go on
for ever after `hpx_main` is done: comments in `main.cpp` (317, 350) doubt that it ends,
and whether it does is up to HPX.

**SeedArithmetic** has one parameter, `HalfMod`, 2^31 in the program, from which the
widths of `int` and `size_t` and the generator's modulus 2^31 - 1 follow; it compares
the program's streams with a reference definition taken from `single_thread.cpp`.

**SingleThread** is the reference program, composed of **Hamiltonian**, which reads
a file line by line and builds the lists with **HamiltonianGraph**'s operators, and
**SaSolver**, which flips sites with free draws, energies in exact integers. The
three share `nodes`, the lists, so that the energies SaSolver keeps up to date can
be compared with what the file says. `x` is the vector of results, `out` the file.
What the code computes in a loop (the index, the lists, the sums) is a recursive
function over the positions of a sequence, `std::sort` a choice of an order that sorts.

**StdinPoller** has the kernel's bytes, the stream's buffer and its `good` bit, a user
who types at a terminal or writes to a pipe, and end of file: for good on a pipe; at a
terminal, where it is Ctrl-D, the user may type on (`TypeMore`), but `std::cin` has
failed and stays so. **CommandCapture** is the
command runner: the program counter of a call, the temporary files and who writes
to them, the descriptors, and a process object that does what **ChildProcess** says.
A child may leave behind a process that has its stderr (`held`), which is a pipe
that the library reads to its end before it answers.
**StdinCommands** composes the two: interpreting `add` or `ladd` is a call, and the
polling thread goes on when it returns.

**ChildProcess** is the contract of `kwsys_Process.h`: an execution comes to one
answer; when an attached one does, no child is left; the answer says how the last
child ended, or that the client killed it, or that time was up and the client has not
called Kill since. It is an abstract
specification used from both sides: KwsysProcess and KwsysWin32 are shown to
implement it (`ImplementsContract`), and CommandCapture takes its steps. Its state is
what the client can observe and what it cannot (children `left`, `how` the last one
ended); `NoChildLeft` and `AnswerIsTrue` say what its steps amount to, and the
refinement mappings stand at the end of the two modules.

**KwsysProcess** is one process object. Its client makes the calls of
`kwsys_Process.h` in any order; every loop of the library is unrolled step by step
(`Create` per command, `HandlePipe` per pipe, `Destroy` per `waitpid`, `KillChild`
per child), since children and the SIGCHLD handler act in between. Children are
`forked` (before exec), `running`, `zombie`, `gone`; the last one may leave a
grandchild that keeps the pipes. The handler's read and write are two steps on
another thread. `hit` records whom `kill` has been aimed at, `ends` the descriptors
open: those in the object, the error pipe and the pipe to the next command while one is
created, and the output file's between its opening and its place in the object (`fout`).

**KwsysWin32** is the same object on Windows. The client's thread is `pc`, `idx` and
`call` as in KwsysProcess; each reader and waker thread has a program counter
(`threadPc`) and tokens (`go`, `reset`). `Ready` is folded into the step that
releases it (`Resume`, `JoinThread`), SharedIndexMutex and Full into `sharedIndex`,
which is set from when a reader has reported until the client's thread has taken it.
A `ReadFile` that blocks is a step that is not enabled; the byte of a waker is a 0
in the pipe's content. `note` records two facts of history: that the pipe threads have
been disabled, and that a waker has been told to wake the reader of a closed pipe.

Definitions whose name starts with M and an upper-case letter (`MSpawnPushStack`,
`MDestroyDrains`, ...) are mutations: plausible slips that stand beside the
definition they change and that a property must refute when they replace it. No
other definition uses them.

## 3 The runs

| run | instance | checks | shows |
|---|---|---|---|
| wrapper_race | 2 solvers, 3 repetitions, cap 2, failures, both races harmful (653,120 states) | TypeOK, EachRepetitionInOnePlace, QueueMatchesHome, CollectedInLaunchOrder, IteratedListStable, ImplementsLedger | the wrapper's safety survives failures, and the races apart from a crash and what a damaged map loses |
| wrapper_live | 2 solvers, 3 repetitions, cap 1, failures (27,034) | QueueBound, AllCollected, AbortReturns | with full queues: the cap, collection, quit |
| spinsolve_safety | console and 2 remotes, 2 repetitions, racing insertions, failing bring-ups (126,482) | ProgramTypeOK, MonitorNeverThrows, WorkGoesToReady, InitialisedOnce, StatusAdvances | the composition, with localities connecting and failing at any time |
| spinsolve_live | console and 1 remote, 3 repetitions, cap 1, all failures (4,057) | ConnectedGetsWork, QuitEnds | job resizing works although two readers keep taking the lock |
| seeds | int of 4 bits, size_t of 8, modulus 7, up to 20 repetitions, up to 2 ranks (924) | SameAsReference, OnlyNeighboursCollide | the streams of the reference in their order, whatever the NaN becomes; only the replaced 0 collides |
| single_thread | every file of up to 2 lines over 2 names and 3 values, 5 longer ones over 3 names; 0 to 2 sweeps, 2 repetitions (230,264) | KeepsFirstOfEachEdge, AdjacencyExact, EnergyOfFile, PrintsEveryRepetition | loader, annealing and output together, from the file to the printed energies |
| stdin | 2 lines, terminal or pipe, any split, up to 5 commands (two at start-up), 3 descriptors (342,150) | ExecutedInOrder, GetlineNeverBlocks, CaptureReadsOutput, OnlyDetachedFilesStay, QuitEndsPolling | the poller against the stream buffer, the command runner against its children |
| kwsys_process | 2 commands, attached or detached (546,750) | TypeOK, HandlerHasReader, NothingLeftOpen, ImplementsContract, NoStrayKill, NoLostWakeup, TimeoutEnds | a process object in every interleaving with its children and SIGCHLD |
| kwsys_win32 | 2 commands, attached with a timeout or detached, one chunk of output (543,054) | ThreadsReset, HandlesClosed, DataOnceInOrder, ImplementsContract, CallsReturn | the same object and contract with five threads |
| spawn_returns | 1 solver, 2 repetitions | SpawnReturns, violated | see 6 |
| race_free | 1 solver, 2 repetitions | RaceFree, violated | see 6 |
| ready_receives_work | console alone | ReadyReceivesWork, violated | see 6 |

Why these bounds. *Wrapper*: two solvers are enough to confuse queues, to be in the
middle of an iteration when a solver is added and to have one queue full and the other
not; three repetitions fill one queue of length two beside the other, so that a queue
holds a moved-from and an unfinished future while something is in the second, and a
damaged map can lose the front, the back or all of a queue; a third solver or more
repetitions bring no new relation between the two threads, and the proofs of section 5
have no bound. The races do no harm in the liveness run and in those of the program
(`RaceHarmful = FALSE`): a process that has crashed or lost its queues keeps no
promise, and the safety properties of the program that these could touch follow from
the wrapper's by proof. The liveness run has cap 1, so that spawn must wait for the
collector. *Bring-up*: localities interact only through `state_mutex`, the monitor's
pass and the solver list; two remotes let one wait for the lock while the other
connects. The liveness run has one: with two the search for unfair cycles takes too
long, and what one does to the other is in the safety run. *Seeds*: 20 repetitions
exceed both the 4-bit `int` (its sign bit turns on at 8) and twice the modulus.
*Reference program*: two lines give every pair of edges over a and b, the reverse
order and a site named twice among them; the longer files add a third edge after two
equal ones, a frustrated triangle, a field, a three-body coupling; a second repetition
shows that a solver leaves nothing to the next. *Stdin*: of two lines the first can be
in the buffer, the second split between buffer and kernel. A last line without its
newline is executed again and again: `executed` is capped at one more than the lines.
`MaxCommands` is the two commands of start-up and the `MaxLines + 1` that lines can
run; `MaxDescriptors` is so small that it is used up. *Process*: two commands give a
first, a last, and one that ends while the other is being reaped; attached processes
have all options, detached ones those of the command runner, and a timeout. *Windows*:
an attached process with a timeout, which need not pass during an execution, and a
detached one without (`MCOptions`); one chunk of output (`MaxWrites`), to either pipe,
since what threads and handles do depends on whether a pipe has something in it and
not on how much. The order of the data needs two chunks: it is proved for any number
(DataArrives, section 5), and has been checked with one command and two chunks on
910,472 states; the run here would take too long with them. After a waker has been
left with a token too many (section 6) an object is not executed again (`SpoiltAgain =
FALSE`): what follows from that is described below, and with one command and `TRUE`
the safety properties have been checked on 1.65 million states.

`CHECK_DEADLOCK FALSE` appears twice. Stdin: a `getline` in the middle of a line
of a pipe waits for ever. Windows: the two hangs of section 6 stop
everything.

## 4 Fairness

* *Wrapper and bring-up.* HPX schedules every thread that can run: weak fairness of
  the spawn thread, the collector, `hpx_main`, the monitor, the continuations, and
  of every `run_one` under way (a run has finitely many sweeps). Taking
  `_solver_id_mutex` is strongly fair (SpawnLock, CollLock, ListWrapper,
  WaitToList): the last reader to leave wakes everybody who waits
  (`boost::shared_mutex` notifies all), so no waiter loses for ever. Nothing is
  assumed of the user, of localities that might connect, or of when `spawn` is
  called.
* *Stdin.* Weak fairness of the polling thread with the calls it makes, and of the
  passing of the 30 s of the start-up commands; none of the user, none of the
  children: they need not write, nor end.
* *Reference program.* Weak fairness of its only thread.
* *Process.* Weak fairness of the client's thread, of signal delivery, of the passing
  of time, of the intermediate process, and of a forked child up to its exec, all of
  which is this library's own code. Children and grandchildren may live and write
  for ever. A failing `select` is allowed and never assumed.
* *Windows.* Weak fairness of each of the five threads, since the system schedules
  them, but not of a WriteFile to a pipe that has something in it, which may be full;
  the semaphores need no more, because no two threads wait for the same one except
  the two readers for SharedIndexMutex, and each has to report once at most before
  the other is served. Weak fairness of time; none of the children.

## 5 What is proved

TLAPS checks the eight modules whose name ends in Proofs, for every value of the
constants that the assumptions admit. Every assumption is named in the module
that declares the constant, and TLC evaluates it in the runs; a theorem that needs
more says so in its statement. Each inductive invariant was an invariant of a TLC
run before it was proved.

**The wrapper** (SolverWrapperProofs, SolverWrapperLedgerProofs): any set of solvers,
any number of repetitions, any cap, `MayFail` and `RaceHarmful` free unless stated;
what is proved with `RaceHarmful` holds although both races do harm.

* **TypeCorrect**: `Spec => []TypeOK`. TypeOK is not inductive: `remaining - 1` stays
  natural only because `remaining + seed = NumReps`, because `push` is reached only
  with something remaining, and the pop is defined only because the collector's
  index lies in the list and its queue is not empty at `pop`. `TypeInv` adds these
  facts.
* **QueueBounded**: `QueueBound` for every instance without the race's harm. Between
  the cap test and the push, only the collector touches the queue, and it only
  shortens it; `RoomToPush` (at `push` there is still room) makes that inductive.
  With the race it is false, which is why the hypothesis is there.
* **ListStable**: no step changes the list while a thread iterates; an action property.
* **OnePlaceEach, QueueIsHome, LaunchOrderKept** rest on one invariant, `LedgerInv`:
  queues are increasing and hold launched repetitions (QueuesInOrder), a future is
  with the solver that runs it (QueueMatchesHome), exactly the repetitions below
  `seed`, and the one being pushed, have a home (LaunchedBelowSeed), what was
  collected precedes what its solver's queue still owns (CollectedBeforeOwned),
  nothing below `seed` is missing unless the map is damaged (NoneLost), nothing is
  collected twice (CollectedOnce), each solver's results are in order
  (CollectedInLaunchOrder), and spawn never leaves before the collector
  (EndsTogether). CollectedBeforeOwned is the heart: it is what keeps a result from
  being collected again, and it holds in the window between `get` and `pop` only
  because *owned* leaves out the moved-from front. Lemmas PushFacts, PopFacts and
  OwnedFacts carry the sequence reasoning. What a damaged map loses only makes *owned*
  smaller (PartOrder, LoseKeeps), so that the other parts of the invariant, "never
  twice" among them, survive it.
* **LedgerImplemented**: `Spec => ImplementsLedger`. Every step of the wrapper is a
  step of RepetitionLedger or a stutter, from the same invariant.

**The program** (SpinSolveProofs): any set of localities, any console among them.

* **ProgramRunsWrapper**: the program's steps are steps of the wrapper or leave its
  variables alone, so that the wrapper's invariants hold here without being proved
  again. **OnePlaceInProgram** is the first consequence.
* **ProgramTypeCorrect, MonitorSafe, WorkOnlyToReady** from `BringupInv`: a locality
  that has not told the console of itself is unknown to it (UntoldIsUnknown); only the
  continuations set a remote READY, and they set its counter with it (CountersSet);
  the console is `hpx_main`'s (ConsoleByMain); CONNECTING comes before and READY with
  the listing (StatusFitsInit). Without StatusFitsInit the locality whose wrapper is
  being listed might have been overwritten in the meantime, and work would go to it:
  this is where the races on the map (`MapRace`) and failing bring-ups have to be
  shown harmless.
* **CallsWelcome**: the guards that SolverWrapper puts on its callers hold whenever the
  program calls it, so that the composition loses no behaviour to them.
* **InitOnce, StatusForward**: the two action properties. `Rank` orders what the console
  may know of a locality.

**Seeds** (SeedArithmeticProofs): any `HalfMod` of at least 2, any number of ranks and
of repetitions, so also the program's 2^31.

* **ReferenceStreams, StreamsDiffer** from `LaunchInv`: the streams launched are those
  that `Stream` gives. ReferenceStreams has no precondition on the solvers registered:
  where the offset is the smallest int, which as a `size_t` is 3 above a multiple of
  the modulus, the streams are the reference's from the fourth on. What remains is
  arithmetic: an `int` survives the way through `size_t` (IntKept), a stream is an
  integer that depends on the repetition (SeedInt), and two seeds less than the
  modulus apart meet in one state only when one of them is a multiple of it and the
  other its successor (SameState, from Apart and SameRemainder).

**The reference program** (SingleThreadProofs): any names and any files over them
(FilesAssumption), any set of numbers of sweeps, any number of repetitions, and any
`EnergyUnit` that every edge's number of sites divides (EnergyUnitAssumption), so that
the model's energies are exact.

* **LoaderKeepsMeaning, ListsAreExact, EnergyIsThatOfFile** from `IInv`. `Loaded` is
  its part about the lines read so far: the index is without repetition and knows
  every site of these lines (LoadedTypes), the stored edges have sorted sites and no
  two the same (EdgesInOrder), every site has an edge (SitesCovered), every edge comes
  from a line of its length that repeats a site if the edge does (ComeFromLines), read
  back through the index the edges are the first of each in the file, as many as there
  are (Meaning), and they give every configuration the energy that these lines give it
  (SameEnergy). Meaning rests on SameEdge: two lines agree in the names and how often
  they occur exactly if their sorted numbers are the same, which needs that sorting
  has one result (SortedUnique). One more line is OneMoreLine or OtherLine. When the
  file has been read the lists are those of the edges (Lists, from NodesProps).
* EnergyIsThatOfFile is the longest chain. SolverInv says that the energy kept is the
  sum over the stored edges: at the start because what compute_energy adds up by sites
  is the sum by edges, each taken as often as it has sites and divided by that number
  (RowsAndColumns, SitesCounted, ComputedEnergy); at a flip because delta_energy is
  the difference of two such sums (FlipParity, FlipEnergy). SameEnergy turns this into
  the lines, and FileEnergy into the product of spins that EnergyInFile is defined by.
  No site named twice is needed where the sites of an edge are counted, and a flip
  must change its parity: the hypothesis of EnergyOfFile, and the divergence of
  section 6.
* **OutputIsComplete**: the safety half of PrintsEveryRepetition, `Spec =>
  []Complete`. That the program comes to its end stays with TLC.

The definitions are recursive functions, and the library's induction theorems cannot
be applied (they take a predicate as a parameter). The induction here is over sets
instead: a set that holds 0 and the successor of each of its members holds all of Nat,
since what is missing would have a least element (LeastNat and NatSet, from the
well-foundedness of Nat). Recursion proves in the same way that a function with a given
first value and given steps exists, from which TotalRec and IndexedProps get theirs.

**Stdin and the command runner** (StdinCommandsProofs): any set of commands that does
not contain the newline, any number of lines, cuts into reads, commands run and
descriptors.

* **InOrder, NeverBlocks** from `PollerInv`. The stream is what the buffer and the
  kernel hold together; commands and newlines alternate in it (StreamInv). While it is
  good, the lines typed are those executed, the one about to be, and those in the
  stream (GoodInv); a read moves symbols between the two halves and changes nothing of
  this (MoveKeeps), a `getline` takes the first two. When it is not good any more,
  nothing is left to come, and `line` still holds what was cut off (EndInv), which is
  why a last line without newline is executed again.
* **ReadsOwnOutput, FilesRemoved** from `RunnerInv`: a temporary file is that of the
  current command until it has been read, or of a detached one, and nobody else has
  written to it, except to the name that all commands share when `mkstemp` has failed
  (FilesInv); a process is left only while its own call is under way, by the
  steps of ChildProcess (ProcessInv); what came to its end has written (WrittenInv).

**The process library on UNIX** (KwsysProcessProofs): any number of commands.

* **TypeCorrect, ReaderThere, AllClosed, KillsOwn** from `Inv`, eleven conjuncts. The
  counters tell what they count: `pipesLeft` the open pipes, `commandsLeft` the pids
  that stand in ForkPIDs (CountersInv). Of an attached execution's children (ChildInv)
  a pid stands there until the process has been waited for, unless everybody was
  killed; cleanup and kill have dealt with all before their index; and the signal pipe
  is open as long as, and only as long as, somebody is left (LastInv). AllWaited draws
  the conclusion: when the signal pipe has been closed, everybody has been waited for,
  and it needs the counter to be a cardinality, as the code tests the number and means
  the set. AllClosed has the one descriptor that no cleanup finds in its statement,
  and when: the output file of an Execute that has failed. KillsOwn is an action
  property and names the three exceptions of section 6.
* **ContractKept**: `Spec => ImplementsContract`, the refinement of ChildProcess. One
  lemma for each group of steps says which step of the contract it is. Most are none
  that a client sees (Unseen); the end of the last child of an attached execution is
  (EndSeen, ReapSeen), so are the calls and the answers. AnswerInv says that between
  the decision and the return the answer stays true, although the handler and the
  children go on. What is true of Expired is that no Kill has followed the timeout.
* **AnswersAreTrue**: `Spec => [](NoChildLeft /\ AnswerIsTrue)` of the contract. It
  follows from ContractKept alone, by an invariant of ChildProcess.

**The process library on Windows** (KwsysWin32Proofs): any number of commands, any
options, any number of chunks.

* **ThreadsAreReset, HandlesAreClosed** from `Inv`, which has a part for the client's
  thread (CallInv, FlagsInv), for the handles (HandlesInv: `pipesLeft` counts the
  Read handles that are open, and the write ends stay until all processes have been
  noticed to have ended), for each process (ProcessInv) and for each thread. A pipe
  thread has reset, and waits for its Ready, exactly if its Reset has its token or
  the client's thread has already taken it (ThreadInv). A reader's Go, once taken, is
  accounted for: it reads, or reports, or its report is in `SharedIndex`, or the
  client's thread has it as `CurrentIndex` (ReaderInv); so the reader of a pipe that
  was closed has it back when the execution ends. A waker is told only after the
  threads are disabled or its pipe is closed (WakerInv), unless one has been told
  too often; that hypothesis ("stray") is the divergence of section 6.
* **DataArrives** from `Inv` and `DataOK`: what the children have written to a pipe
  is, in this order, with the client, in the reader's buffer and in the pipe
  (ChunksInv), and the buffer is empty unless its reader is about to report or has
  (DataInv). So a read may overwrite the buffer, and when a pipe is found broken
  nothing is left in between. Lemmas ChunksEmpty, ChunksJoin and ChunksAppend carry
  the reasoning about sequences. It has no bound on the chunks. The threads' disabling
  ends the claim that nothing is lost, not the one that nothing comes twice or out of
  order.
* **ContractKept**: the same ChildProcess as on UNIX, by a lemma for each group of
  steps. A handle that is open is a child not yet waited for; what ends it is Destroy,
  KillTree or the cleanup of Execute (ReapSeen). The answer is true because at `close`
  either somebody has killed, the timeout has expired, or all processes have been
  noticed, and then the exit codes are theirs (FlagsInv, ProcessInv). A Kill after the
  timeout is none of the contract's here: the code ignores it.
* **AnswersAreTrue**: as on UNIX.

Only model-checked: liveness (AllCollected, AbortReturns, ConnectedGetsWork, QuitEnds,
PrintsEveryRepetition but for its safety half, QuitEndsPolling, NoLostWakeup,
TimeoutEnds, CallsReturn), since fairness and ENABLED are outside the prover. Every
invariant and every action property of a passing run, and all three refinements, are
proved. None of the modules declares a RECURSIVE operator.

## 6 Where the code and its comments part

Checked as violations:

* `spawn` never returns unless the user quits. It waits for the collector
  (line 227), and the collector's loop (line 120) ends only on `_abort`: after the
  last result has been collected nobody tells it to stop, and the output file that
  `main.cpp:447` promises is never written (*SpawnReturns*).
* `spawn` pushes to the queue the collector pops. Both hold a *shared* lock
  "for read access" (lines 117 and 194), and the push (203) and the pop (134) race
  (*RaceFree*).
* The console is initialised and READY, but `hpx_main` empties the list `init_node` put
  its wrapper on (line 738), so it never gets work, and without remotes
  nothing is ever solved (*ReadyReceivesWork*).

Met while modelling, described here and where the property it bears on is defined:

* The collector's `_async_results[s]` (125) and those of `spawn` (201, 203) insert into
  one `std::map`, again under the shared lock "for read access" (121, 194). A node, and
  with it a queue and its repetitions, may be lost (MapOverlaps;
  EachRepetitionInOnePlace says that this is the only way to lose one).
* `hpx_main` empties the list right before `spawn` (738), so that without a locality
  listed in between `_nranks` is 0 and `local_seed_offset` the `int` of a NaN
  (159): 0, or the smallest int, as on x86. Then repetition k uses the stream of
  repetition k + 3, where `main.cpp:449` says "Seed of SA is the repetition number"
  (SameAsReference says which streams the program goes through).
* `kwsysProcessCleanup` frees "all resources ... allocated by kwsysProcess_Execute"
  (`ProcessUNIX.c:1619`), but where `fcntl` fails on the output file (1934) its
  descriptor is not in the object yet, and stays open (NothingLeftOpen says that this
  is all, and only after an Execute that failed).
* "Child process terminated by Kill method" (`kwsys_Process.h:223`): a Kill after the
  timeout has killed the children changes the answer from Expired to Killed, since
  Kill does not ask for the timeout and `WaitForExit` looks at Killed first
  (`ProcessUNIX.c:1455`; ChildProcess lets Expired be the answer only without a Kill).
  On Windows such a Kill does nothing.
* One failing repetition rethrows in the collector and ends it, so the results of all
  others stay in their queues; `spawn` throws when it is next told to stop
  (AllCollected and AbortReturns have the exception in their statement).
* Repetitions 0 and 1 share a random stream: `minstd_rand0` replaces state 0 by 1
  (OnlyNeighboursCollide states it exactly).
* `main.cpp:317` says of the monitor "does not terminate", and 350 asks why quit does
  not work. Nothing in this code decides whether the monitor sees the runtime shut
  down, so no property says that it or the process ends (MonitorLoop; QuitEnds is about
  `hpx_main`).
* With one sweep `beta` is 0 times the quotient of something by 0, a NaN, and `exp` of a
  NaN is never above the random number: such a run only descends (BetaIsNaN).
* What is typed at a terminal behind an end of file (Ctrl-D), `quit` too, is never read:
  `select` reports it, but `std::cin` has failed and nobody clears it (TypeMore).
* An edge that names a site twice: `compute_energy` divides by the number of sites as
  written, the loader lists the edge once at that site, and `delta_energy` takes every
  flip to change the sign. The energies disagree; EnergyOfFile excludes such files.
* `init_node` never looks at the result of `initialize_solver_wrapper` (`fi`,
  `main.cpp:253`). A locality whose bring-up fails stays INITIALIZING, or is listed
  READY under a name that leads to no wrapper, and one repetition sent there ends
  the collector (InitializeFails; `broken`).
* The unlocked insertion of line 630 may lose its own entry or that of a remote, which
  is then never found (RacedInsert, NoUse).
* A locality that connects before line 738 may be READY and cleared from the list with
  the console: then it gets no work either (Cleared).
* `add` waits with a timeout of 0, that is not at all, and then deletes the process,
  which waits for the job script without a limit, and then for whoever else holds the
  script's stderr, a job left in the background say (`ProcessUNIX.c:1424`); meanwhile
  nobody reads stdin, so that `quit` waits too (QuitEndsPolling has the exception).
* Nobody closes the descriptor of a temporary file, nor removes a detached command's
  file; if `mkstemp` fails, all captures share one file name (CaptureReadsOutput names
  whose output may then be seen); if the child's file was never made, `file_size`
  throws, at start-up out of `hpx_main`, later out of the polling thread.
* On a pipe, half a line passes `select` and then blocks `getline`; and commands that
  arrive together are read into the buffer, where `select` does not see them, so
  they wait until something else is typed. A last line without its newline is
  executed, and then again. GetlineNeverBlocks, QuitEndsPolling and ExecutedInOrder
  name these cases.
* After a failed `fork` the pid is -1, which is not 0, and the error cleanup calls
  `kill(-1, SIGKILL)` (`ProcessUNIX.c:1646`), where its comment says "Kill any children
  already started": `hit` gets "everybody".
* A detached child whose exec fails may write its message before the intermediate
  process writes the pid; four bytes of the message are then taken for the pid and
  killed ("stranger").
* A second `Kill` before `WaitForExit` is aimed at pids already waited for ("stale";
  NoStrayKill says that this is the only way).
* A caller's timeout of 0 never expires before `select`, so `WaitForExit(0)`, whose
  header says it blocks for the timeout at most, polls for as long as the child
  writes, and the process timeout is not looked at either. TimeoutEnds says that such
  a wait ends unless somebody writes for ever.
* The handler may run on another thread while the object is freed (HandlerDangles).
* `WaitForExit` on a detached process answers Exited with 0 whatever the child did.
* `kwsysProcessCleanupHandle` (`ProcessWin32.c:1870`): "Reset its value to 0." It sets
  INVALID_HANDLE_VALUE, so that DisablePipeThreads (2701) tells the wakers of closed
  pipes to wake, "all reading threads that are not on closed pipes" notwithstanding.
  Such a waker has reset already and keeps the token: in the next execution it writes
  its byte at once, which the client gets as data, and a later Kill finds no waker and
  waits for ever. ThreadsReset, DataOnceInOrder and CallsReturn exempt exactly this
  ("stray").
* A grandchild that keeps a pipe after all children have ended: Kill, or the timeout,
  waits for a reader that nothing can wake, as the TODO at 1808 fears
  (CallsReturn exempts `held`).
* Delete only disowns a detached process, and Disown refuses after the end of the
  process has been noticed, or after Kill: Delete then waits for a thread that has not
  reset, or leaves the pipes' handles open (CallsReturn, HandlesClosed).
* Disown does not close the handles of the processes; KillTree goes by pids, also of
  children already noticed, which may be somebody else's by then.

## 7 What is not modelled, and why

* What a corrupted deque or map does beyond a torn `size()`, lost entries, parts of
  queues or whole queues, or the end of the process.
* Ctrl-D in the middle of a line at a terminal, which sends the half line without being
  an end of file, and `std::cin` when the terminal itself is hung up.
* Localities that die after they have been brought up: HPX's behaviour then is not in
  this code.
* Progress output, the solves-per-second figures, the performance counters' values.
* The process library beyond one object: the table shared by several (the program has
  at most one process object at a time, since commands run one after the other on
  the polling thread), the time arithmetic; a `waitpid` that fails because somebody else
  reaped the child (nobody else in this program waits for children); two handlers at
  once, which differ from one only in the number of bytes in a pipe; `WaitForData`
  without a buffer, which is WaitForExit's loop. On Windows also the enumeration of
  processes that KillTree takes the grandchildren from, here one step that finds
  them all.
* The setters, command lines, error messages, logging macros, the custom scheduler (its
  use is commented out), the command-line parser (never called with the verbatim
  option), the retired wrapper in `attic/`, build and job scripts, data and plots.

## 8 The plan

Written so far, in this order: SolverWrapper, RepetitionLedger and their proofs;
LocalityBringup and SpinSolve, then with failures and the map race; SeedArithmetic;
Hamiltonian, SaSolver and their composition SingleThread; StdinPoller, CommandCapture
and StdinCommands; KwsysProcess, ChildProcess, KwsysWin32.

Then the theorems of section 5: the wrapper, the program, the seeds, stdin, the process
library, and the reference program last.

Next, should the code come to need it:

1. Several process objects at once, which share the table of the SIGCHLD handler; with
   it the one hazard that no property covers, the handler on another thread while an
   object is freed, could be stated.
2. Localities that die: today a run sent to one ends the collector, and any remedy would
   change SolverWrapper's `run_one` and the ledger's "collect once".
