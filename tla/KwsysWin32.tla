----------------------------- MODULE KwsysWin32 -----------------------------
(***************************************************************************)
(* One kwsysProcess object on Windows (kwsys/ProcessWin32.c).  Reading a   *)
(* pipe blocks there, so each of the two pipes has a reader thread, which  *)
(* reports to the client's thread through SharedIndex and the semaphore    *)
(* Full, and a waker thread, which gets the reader out of ReadFile by      *)
(* writing a byte to the pipe.  The object keeps a write handle of each    *)
(* pipe until all children have ended.  All semaphores have at most one    *)
(* token: releasing a full one does nothing.                               *)
(*                                                                         *)
(* A chunk that the children write to a pipe is a number, from 1; the      *)
(* waker's byte is 0.                                                      *)
(***************************************************************************)
EXTENDS Integers, Sequences, Functions

CONSTANTS
    NumCommands,    (* NumberOfCommands: the length of the pipeline        *)
    MaxWrites,      (* bound: chunks written in one execution              *)
    Options,        (* the options of the object                           *)
    SpoiltAgain     (* bound: the object is used again although a waker    *)
                    (* has been left with a token too many                 *)

AllOptions == [detach : BOOLEAN, timeout : BOOLEAN]

ASSUME CommandsAssumption ==
    NumCommands \in Nat \ {0} /\ MaxWrites \in Nat
ASSUME OptionsAssumption == Options \subseteq AllOptions
ASSUME SpoiltAssumption == SpoiltAgain \in BOOLEAN

Cmds == 1 .. NumCommands
Pipes == <<"out", "err">>
PipeNames == {"out", "err"}
Threads == PipeNames \X {"reader", "waker"}
None == "none"

VARIABLES
    opt,        (* [detach, timeout]                                       *)
    state,      (* State; "deleted" once the object is freed               *)
    exitCode,   (* CommandExitCodes                                        *)
    flags,      (* subset of {"Killed", "TimeoutExpired", "Terminated"}    *)
    events,     (* the commands in ProcessEvents, which follow Full there, *)
                (* in the order of the pipeline                            *)
    hProcess,   (* the handle of each process: "none", "open", "closed"    *)
    pipesLeft, currentIndex,
    sharedIndex,    (* SharedIndex, from when a reader has taken           *)
                (* SharedIndexMutex and released Full until the client's   *)
                (* thread has taken Full and released the mutex            *)
    read,       (* the Read handle of each pipe: "none", "open", "closed"  *)
    write,      (* the pipes whose Write handle is open                    *)
    childStd,   (* PipeChildStd is open                                    *)
    closed,     (* the pipes with Closed set                               *)
    buffer,     (* DataBuffer of each pipe, until the client's thread has  *)
                (* been told of it                                         *)
    go, reset,  (* the threads whose Go and Reset have their token         *)
    threadPc,   (* where it waits: "ready" or "go", for the semaphores; a  *)
                (* reader also at "read" and "report", a waker at "write"; *)
                (* "ended"                                                 *)
    pc, idx,    (* the client's thread, and its loop counter               *)
    call,       (* [op, user, after], as in KwsysProcess                   *)
    child,      (* each process: "none", "suspended", "running", "ended"   *)
    fate,       (* how it ended                                            *)
    held,       (* the pipes that a process left behind by the last        *)
                (* command keeps                                           *)
    content,    (* what has been written to each pipe and not been read    *)
    wrote,      (* how many chunks the children have written to each       *)
    deadline,   (* TimeoutTime has passed                                  *)
    got,        (* history: what the client was given of each pipe         *)
    note        (* history: "stray", a waker has been told to wake a       *)
                (* reader whose pipe was closed; "disabled", the pipe      *)
                (* threads of this execution have been                     *)

object  == <<state, exitCode, flags, events, hProcess>>
pipes   == <<read, write, childStd, closed>>
tokens  == <<go, reset>>
main    == <<pc, idx, call>>
world   == <<child, fate, held, content, wrote, deadline>>
vars == <<opt, object, pipesLeft, currentIndex, pipes, buffer, sharedIndex, tokens,
          threadPc, main, world, got, note>>

-----------------------------------------------------------------------------

Reader(p) == <<p, "reader">>
Waker(p) == <<p, "waker">>
Living(c) == child[c] \in {"suspended", "running"}

(* Somebody can write to a pipe: the last child to stdout, all to stderr. *)
Written(p) ==
    \/ p \in write \/ p \in held
    \/ \E c \in Cmds : Living(c) /\ (p = "out" => c = NumCommands)

NoCall == [op |-> "none", user |-> "none", after |-> "none"]
Goto(p) == pc' = p /\ idx' = 1
Return == Goto("idle") /\ call' = NoCall

(* kwsysProcess_New: four threads wait for their Ready; every reader's Go has its
   token. *)
Init ==
    /\ opt \in Options
    /\ state = "Starting" /\ flags = {} /\ events = {}
    /\ exitCode = [c \in Cmds |-> "exit"] /\ hProcess = [c \in Cmds |-> "none"]
    /\ pipesLeft = 0 /\ currentIndex = None /\ sharedIndex = None
    /\ read = [p \in PipeNames |-> "none"] /\ write = {} /\ childStd = FALSE
    /\ closed = {} /\ buffer = [p \in PipeNames |-> <<>>]
    /\ go = {Reader(p) : p \in PipeNames} /\ reset = {}
    /\ threadPc = [t \in Threads |-> "ready"]
    /\ pc = "idle" /\ idx = 1 /\ call = NoCall
    /\ child = [c \in Cmds |-> "none"] /\ fate = [c \in Cmds |-> "none"]
    /\ held = {} /\ content = [p \in PipeNames |-> <<>>]
    /\ wrote = [p \in PipeNames |-> 0] /\ deadline = FALSE
    /\ got = [p \in PipeNames |-> <<>>] /\ note = {}

(***************************************************************************)
(* The reader and the waker of a pipe.                                     *)
(***************************************************************************)

At(t, p) == threadPc[t] = p
To(t, p) == threadPc' = [threadPc EXCEPT ![t] = p]

(* The reader takes Go; if its pipe is closed it gives Go back and resets. *)
ReaderGo(p) ==
    LET t == Reader(p) IN
    /\ At(t, "go") /\ t \in go
    /\ IF p \in closed
       THEN go' = go /\ reset' = reset \cup {t} /\ To(t, "ready")
       ELSE go' = go \ {t} /\ reset' = reset /\ To(t, "read")
    /\ UNCHANGED <<opt, object, pipesLeft, currentIndex, pipes, buffer, sharedIndex,
                   main, world, got, note>>

MReaderReadsBroken(p) ==                \* broken as soon as nobody writes
    LET t == Reader(p) IN
    /\ At(t, "read") /\ (content[p] # <<>> \/ ~Written(p))
    /\ buffer' = [buffer EXCEPT ![p] = content[p]]
    /\ content' = [content EXCEPT ![p] = <<>>]
    /\ closed' = IF Written(p) THEN closed ELSE closed \cup {p}
    /\ To(t, "report")
    /\ UNCHANGED <<opt, object, pipesLeft, currentIndex, read, write, childStd,
                   sharedIndex, tokens, main, child, fate, held, wrote, deadline, got,
                   note>>

(* ReadFile returns what is in the pipe, or that it is broken. *)
ReaderReads(p) ==
    LET t == Reader(p) IN
    /\ At(t, "read") /\ (content[p] # <<>> \/ ~Written(p))
    /\ buffer' = [buffer EXCEPT ![p] = content[p]]
    /\ content' = [content EXCEPT ![p] = <<>>]
    /\ closed' = IF content[p] = <<>> THEN closed \cup {p} ELSE closed
    /\ To(t, "report")
    /\ UNCHANGED <<opt, object, pipesLeft, currentIndex, read, write, childStd,
                   sharedIndex, tokens, main, child, fate, held, wrote, deadline, got,
                   note>>

MReaderReportsFree(p) ==                \* without SharedIndexMutex
    /\ At(Reader(p), "report")
    /\ sharedIndex' = p /\ To(Reader(p), "go")
    /\ UNCHANGED <<opt, object, pipesLeft, currentIndex, pipes, buffer, tokens,
                   main, world, got, note>>

(* Its turn. *)
ReaderReports(p) ==
    /\ At(Reader(p), "report") /\ sharedIndex = None
    /\ sharedIndex' = p /\ To(Reader(p), "go")
    /\ UNCHANGED <<opt, object, pipesLeft, currentIndex, pipes, buffer, tokens,
                   main, world, got, note>>

(* The waker takes Go, and resets if its pipe is closed. *)
WakerGo(p) ==
    LET t == Waker(p) IN
    /\ At(t, "go") /\ t \in go
    /\ go' = go \ {t}
    /\ IF p \in closed THEN reset' = reset \cup {t} /\ To(t, "ready")
       ELSE reset' = reset /\ To(t, "write")
    /\ UNCHANGED <<opt, object, pipesLeft, currentIndex, pipes, buffer, sharedIndex,
                   main, world, got, note>>

(* WriteFile, which fails if a handle is closed. *)
WakerWrites(p) ==
    LET t == Waker(p) IN
    /\ At(t, "write")
    /\ content' = IF p \in write /\ read[p] = "open"
                  THEN [content EXCEPT ![p] = Append(@, 0)] ELSE content
    /\ reset' = reset \cup {t} /\ To(t, "ready")
    /\ UNCHANGED <<opt, object, pipesLeft, currentIndex, pipes, buffer, sharedIndex,
                   go, main, child, fate, held, wrote, deadline, got, note>>

(* A pipe with something in it may be full, and WriteFile block. *)
MayBlock(p) == content[p] # <<>> /\ p \in write /\ read[p] = "open"

(***************************************************************************)
(* The children.                                                           *)
(***************************************************************************)

ChildWrites(p) ==
    /\ read[p] = "open" /\ wrote["out"] + wrote["err"] < MaxWrites
    /\ p \in held \/ \E c \in Cmds : child[c] = "running" /\ (p = "out" => c = NumCommands)
    /\ wrote' = [wrote EXCEPT ![p] = @ + 1]
    /\ content' = [content EXCEPT ![p] = Append(@, wrote[p] + 1)]
    /\ UNCHANGED <<opt, object, pipesLeft, currentIndex, pipes, buffer, sharedIndex,
                   tokens, threadPc, main, child, fate, held, deadline, got, note>>

(* A child ends by itself, the last one perhaps with the code of an exception
   and perhaps leaving a process behind. *)
ChildEnds(c) ==
    /\ child[c] = "running"
    /\ child' = [child EXCEPT ![c] = "ended"]
    /\ \E how \in {"exit"} \cup IF c = NumCommands THEN {"signal"} ELSE {} :
          fate' = [fate EXCEPT ![c] = how]
    /\ \/ held' = held
       \/ c = NumCommands /\ held' \in {{"err"}, {"out", "err"}}
    /\ UNCHANGED <<opt, object, pipesLeft, currentIndex, pipes, buffer, sharedIndex,
                   tokens, threadPc, main, content, wrote, deadline, got, note>>

GrandchildEnds ==
    /\ held # {} /\ held' = {}
    /\ UNCHANGED <<opt, object, pipesLeft, currentIndex, pipes, buffer, sharedIndex,
                   tokens, threadPc, main, child, fate, content, wrote, deadline,
                   got, note>>

DeadlinePasses ==
    /\ opt.timeout /\ ~deadline /\ state = "Executing"
    /\ deadline' = TRUE
    /\ UNCHANGED <<opt, object, pipesLeft, currentIndex, pipes, buffer, sharedIndex,
                   tokens, threadPc, main, child, fate, held, content, wrote, got,
                   note>>

UserTimePasses ==
    /\ call.user = "later"
    /\ call' = [call EXCEPT !.user = "due"]
    /\ UNCHANGED <<opt, object, pipesLeft, currentIndex, pipes, buffer, sharedIndex,
                   tokens, threadPc, pc, idx, world, got, note>>

-----------------------------------------------------------------------------
(***************************************************************************)
(* The client's thread: kwsysProcess_Execute.                              *)
(***************************************************************************)

(* kwsysProcessInitialize; it may run out of memory. *)
Execute ==
    /\ pc = "idle" /\ state \notin {"Executing", "deleted"}
    /\ "stray" \in note => SpoiltAgain
    /\ flags' = {} /\ events' = {}
    /\ exitCode' = [c \in Cmds |-> "exit"] /\ hProcess' = [c \in Cmds |-> "none"]
    /\ child' = [c \in Cmds |-> "none"] /\ fate' = [c \in Cmds |-> "none"]
    /\ held' = {} /\ deadline' = FALSE
    /\ \/ state' = "Error" /\ Return
       \/ state' = state /\ Goto("pipes") /\ call' = [NoCall EXCEPT !.op = "Execute"]
    /\ UNCHANGED <<opt, pipesLeft, currentIndex, pipes, buffer, sharedIndex, tokens,
                   threadPc, content, wrote, got, note>>

(* Both pipes, with a duplicate of their write ends for the children. *)
OpenPipes ==
    /\ pc = "pipes"
    /\ \E open \in {{}, {"out"}, PipeNames} :
          /\ read' = [p \in PipeNames |-> IF p \in open THEN "open" ELSE read[p]]
          /\ write' = open /\ childStd' = (open # {})
          /\ Goto(IF open = PipeNames THEN "create" ELSE "cleanup")
    /\ UNCHANGED <<opt, object, pipesLeft, currentIndex, closed, buffer, sharedIndex,
                   tokens, threadPc, call, world, got, note>>

(* A command is created, suspended, or CreatePipe or CreateProcess fails. *)
Create ==
    /\ pc = "create"
    /\ \/ /\ child' = [child EXCEPT ![idx] = "suspended"]
          /\ hProcess' = [hProcess EXCEPT ![idx] = "open"]
          /\ events' = events \cup {idx}
          /\ IF idx = NumCommands THEN Goto("start") ELSE idx' = idx + 1 /\ pc' = pc
       \/ Goto("cleanup") /\ UNCHANGED <<child, hProcess, events>>
    /\ UNCHANGED <<opt, state, exitCode, flags, pipesLeft, currentIndex, pipes,
                   buffer, sharedIndex, tokens, threadPc, call, fate, held, content,
                   wrote, deadline, got, note>>

(* All are resumed, and the pipe threads told. *)
Resume ==
    /\ pc = "start"
    /\ childStd' = FALSE
    /\ child' = [c \in Cmds |-> "running"]
    /\ threadPc' = [t \in Threads |-> "go"]
    /\ currentIndex' = None /\ pipesLeft' = Len(Pipes)
    /\ state' = "Executing" /\ Return
    /\ UNCHANGED <<opt, exitCode, flags, events, hProcess, read, write, closed,
                   buffer, sharedIndex, tokens, fate, held, content, wrote,
                   deadline, got, note>>

(* TerminateProcess, which does nothing to a process that has ended. *)
Terminate(c) ==
    /\ child' = IF Living(c) THEN [child EXCEPT ![c] = "ended"] ELSE child
    /\ fate' = IF Living(c) THEN [fate EXCEPT ![c] = "sigkill"] ELSE fate
    /\ hProcess' = IF hProcess[c] = "open" THEN [hProcess EXCEPT ![c] = "closed"]
                   ELSE hProcess

(* What was in a pipe goes with it; the history tells of one execution. *)
Forgotten ==
    /\ content' = [p \in PipeNames |-> <<>>]
    /\ wrote' = [p \in PipeNames |-> 0] /\ got' = [p \in PipeNames |-> <<>>]
    /\ note' = note \ {"disabled"}

(* kwsysProcessCleanup closes each pipe. *)
ClosePipes ==
    /\ read' = [p \in PipeNames |-> IF read[p] = "open" THEN "closed" ELSE read[p]]
    /\ write' = {} /\ childStd' = FALSE /\ closed' = {}
    /\ Forgotten

MCleanupErrorNoTerminate ==             \* only the handles
    /\ pc = "cleanup"
    /\ state' = "Error" /\ ClosePipes /\ Return
    /\ UNCHANGED <<opt, exitCode, flags, events, hProcess, pipesLeft, currentIndex,
                   buffer, sharedIndex, tokens, threadPc, child, fate, held, deadline>>

(* Its error case. *)
CleanupError ==
    /\ pc = "cleanup"
    /\ IF idx <= NumCommands
       THEN /\ Terminate(idx) /\ idx' = idx + 1
            /\ UNCHANGED <<state, pipes, pc, call, content, wrote, got, note>>
       ELSE /\ state' = "Error" /\ ClosePipes /\ Return
            /\ UNCHANGED <<child, fate, hProcess>>
    /\ UNCHANGED <<opt, exitCode, flags, events, pipesLeft, currentIndex, buffer,
                   sharedIndex, tokens, threadPc, held, deadline>>

(***************************************************************************)
(* kwsysProcess_WaitForData and kwsysProcess_WaitForExit.                  *)
(***************************************************************************)

Waitable == state = "Executing" /\ flags \cap {"Killed", "TimeoutExpired"} = {}

(* Where WaitForData returns none: WaitForExit goes on. *)
Drained(op) ==
    IF op \in {"WaitForExit", "Delete"}
    THEN Goto("release") /\ call' = [NoCall EXCEPT !.op = op]
    ELSE Return

(* kwsysProcessGetTimeoutTime: the caller's timeout counts if it is earlier.
   Delete waits for an attached process. *)
Wait(op, user) ==
    /\ pc = "idle" /\ state = "Executing"
    /\ op = "Delete" => user = "none" /\ ~opt.detach
    /\ IF Waitable /\ pipesLeft > 0
       THEN Goto("top") /\ call' = [op |-> op, after |-> "none",
                                   user |-> IF deadline THEN "none" ELSE user]
       ELSE Drained(op)
    /\ UNCHANGED <<opt, object, pipesLeft, currentIndex, pipes, buffer, sharedIndex,
                   tokens, threadPc, world, got, note>>

(* The reader whose data the client has seen may go on. *)
ReleaseReader ==
    /\ go' = IF currentIndex = None THEN go ELSE go \cup {Reader(currentIndex)}
    /\ currentIndex' = None

(* The user's timeout, or the process's, which kills the children. *)
Expire ==
    IF call.user # "none" THEN Return
    ELSE Goto("disable") /\ call' = [call EXCEPT !.after = "timeout"]

(* kwsysProcessGetTimeoutLeft; a timeout of zero is left to the next step. *)
TimeUp == call.user = "due" \/ (call.user = "none" /\ deadline)

Top ==
    /\ pc = "top"
    /\ ReleaseReader
    /\ IF TimeUp THEN Expire ELSE Goto("select") /\ call' = call
    /\ UNCHANGED <<opt, object, pipesLeft, pipes, buffer, sharedIndex, reset,
                   threadPc, world, got, note>>

(* WaitForMultipleObjects: Full comes before the processes, and these in the
   order of the pipeline. *)
Noticed == {c \in events : child[c] = "ended"}
TakeFull ==
    /\ sharedIndex # None /\ sharedIndex' = None
    /\ currentIndex' = sharedIndex
    /\ buffer' = [buffer EXCEPT ![sharedIndex] = <<>>]

(* A closed pipe's waker is told; data go to the caller, if it asked for them. *)
SelectPipe ==
    /\ pc = "select"
    /\ TakeFull
    /\ IF sharedIndex \in closed
       THEN /\ read' = [read EXCEPT ![sharedIndex] = "closed"]
            /\ go' = go \cup {Waker(sharedIndex)}
            /\ pipesLeft' = pipesLeft - 1
            /\ IF pipesLeft > 1 THEN Goto("top") /\ call' = call ELSE Drained(call.op)
            /\ got' = got
       ELSE /\ got' = [got EXCEPT ![sharedIndex] = @ \o buffer[sharedIndex]]
            /\ IF call.op = "WaitForData" THEN Return
               ELSE Goto("top") /\ call' = call
            /\ UNCHANGED <<read, go, pipesLeft>>
    /\ UNCHANGED <<opt, object, write, childStd, closed, reset, threadPc, world, note>>

SelectTimesOut ==
    /\ pc = "select" /\ sharedIndex = None /\ Noticed = {}
    /\ TimeUp \/ call.user = "zero"
    /\ Expire
    /\ UNCHANGED <<opt, object, pipesLeft, currentIndex, pipes, buffer, sharedIndex,
                   tokens, threadPc, world, got, note>>

MDestroyClosesFirst ==                  \* the write ends go with the first process
    /\ pc = "select" /\ sharedIndex = None
    /\ \E c \in Noticed :
          /\ \A d \in Noticed : c <= d
          /\ exitCode' = [exitCode EXCEPT ![c] = fate[c]]
          /\ hProcess' = [hProcess EXCEPT ![c] = "closed"]
          /\ events' = events \ {c}
    /\ flags' = flags \cup {"Terminated"} /\ write' = {}
    /\ Goto("top")
    /\ UNCHANGED <<opt, state, pipesLeft, currentIndex, read, childStd, closed,
                   buffer, sharedIndex, tokens, threadPc, call, world, got, note>>

(* kwsysProcessDestroy; after the last one the write ends are closed. *)
Destroy ==
    /\ pc = "select" /\ sharedIndex = None
    /\ \E c \in Noticed :
          /\ \A d \in Noticed : c <= d
          /\ exitCode' = [exitCode EXCEPT ![c] = fate[c]]
          /\ hProcess' = [hProcess EXCEPT ![c] = "closed"]
          /\ events' = events \ {c}
    /\ IF events' = {} THEN flags' = flags \cup {"Terminated"} /\ write' = {}
       ELSE UNCHANGED <<flags, write>>
    /\ Goto("top")
    /\ UNCHANGED <<opt, state, pipesLeft, currentIndex, read, childStd, closed,
                   buffer, sharedIndex, tokens, threadPc, call, world, got, note>>

(***************************************************************************)
(* kwsysProcess_Kill, kwsysProcess_Disown and the pipe threads.            *)
(***************************************************************************)

Kill ==
    /\ pc = "idle" /\ Waitable
    /\ Goto("disable")
    /\ call' = [op |-> "Kill", user |-> "none", after |-> "client"]
    /\ UNCHANGED <<opt, object, pipesLeft, currentIndex, pipes, buffer, sharedIndex,
                   tokens, threadPc, world, got, note>>

MayDisown == opt.detach /\ state = "Executing" /\ flags = {}

(* Delete disowns a detached process on its way. *)
Disown(op) ==
    /\ pc = "idle" /\ MayDisown
    /\ Goto("disable")
    /\ call' = [op |-> op, user |-> "none", after |-> "disown"]
    /\ UNCHANGED <<opt, object, pipesLeft, currentIndex, pipes, buffer, sharedIndex,
                   tokens, threadPc, world, got, note>>

(* kwsysProcessDisablePipeThreads tells every waker whose pipe's Read is not 0,
   and CleanupHandle never makes it 0. *)
Disable ==
    /\ pc = "disable"
    /\ currentIndex' = None
    /\ go' = go \cup (IF currentIndex = None THEN {} ELSE {Reader(currentIndex)})
                 \cup {Waker(p) : p \in {q \in PipeNames : read[q] # "none"}}
    /\ note' = note \cup {"disabled"}
                 \cup (IF \E p \in PipeNames : read[p] = "closed" THEN {"stray"} ELSE {})
    /\ Goto("await")
    /\ UNCHANGED <<opt, object, pipesLeft, pipes, buffer, sharedIndex, reset,
                   threadPc, call, world, got>>

(* Its loop: the next reader to report is done with. *)
AwaitReader ==
    /\ pc = "await" /\ pipesLeft > 0
    /\ TakeFull
    /\ closed' = closed \cup {sharedIndex}
    /\ read' = [read EXCEPT ![sharedIndex] = "closed"]
    /\ go' = go \cup {Reader(sharedIndex)}
    /\ pipesLeft' = pipesLeft - 1
    /\ UNCHANGED <<opt, object, write, childStd, reset,
                   threadPc, main, world, got, note>>

TimedOut == (flags \ {"Killed"}) \cup {"TimeoutExpired"}

(* What Disown, Kill and the timeout do once the threads are disabled. *)
Disabled ==
    /\ pc = "await" /\ pipesLeft = 0
    /\ CASE call.after = "disown" -> Goto("reset") /\ UNCHANGED <<flags, call>>
         [] call.after # "disown" /\ "Terminated" \notin flags ->
                flags' = flags \cup {"Killed"} /\ Goto("kill") /\ call' = call
         [] call.after = "timeout" /\ "Terminated" \in flags ->
                flags' = TimedOut /\ Drained(call.op)
         [] OTHER -> flags' = flags /\ Return
    /\ UNCHANGED <<opt, state, exitCode, events, hProcess, pipesLeft, currentIndex,
                   pipes, buffer, sharedIndex, tokens, threadPc, world, got, note>>

(* KillTree of each command, with the processes it has left behind. *)
KillChild ==
    /\ pc = "kill"
    /\ Terminate(idx)
    /\ IF idx < NumCommands
       THEN idx' = idx + 1 /\ UNCHANGED <<held, flags, pc, call>>
       ELSE /\ held' = {}
            /\ IF call.after = "timeout" THEN flags' = TimedOut /\ Drained(call.op)
               ELSE flags' = flags /\ Return
    /\ UNCHANGED <<opt, state, exitCode, events, pipesLeft, currentIndex, pipes,
                   buffer, sharedIndex, tokens, threadPc, content, wrote, deadline,
                   got, note>>

(***************************************************************************)
(* The end of WaitForExit, of Disown, and kwsysProcess_Delete.             *)
(***************************************************************************)

(* The last pipe's reader is still held. *)
Release ==
    /\ pc = "release"
    /\ ReleaseReader /\ Goto("reset")
    /\ UNCHANGED <<opt, object, pipesLeft, pipes, buffer, sharedIndex, reset,
                   threadPc, call, world, got, note>>

InOrder == <<Reader("out"), Waker("out"), Reader("err"), Waker("err")>>

MAwaitResetReaders ==                   \* only the readers are waited for
    /\ pc = "reset" /\ {Reader(p) : p \in PipeNames} \subseteq reset
    /\ reset' = {} /\ Goto("close")
    /\ UNCHANGED <<opt, object, pipesLeft, currentIndex, pipes, buffer, sharedIndex,
                   go, threadPc, call, world, got, note>>

(* All pipe threads are waited for. *)
AwaitReset ==
    /\ pc = "reset" /\ InOrder[idx] \in reset
    /\ reset' = reset \ {InOrder[idx]}
    /\ IF idx = Len(InOrder) THEN Goto("close") ELSE idx' = idx + 1 /\ pc' = pc
    /\ UNCHANGED <<opt, object, pipesLeft, currentIndex, pipes, buffer, sharedIndex,
                   go, threadPc, call, world, got, note>>

MCloseLeavesWrite ==                    \* a killed execution's write ends stay
    /\ pc = "close"
    /\ read' = [p \in PipeNames |-> "closed"] /\ childStd' = FALSE /\ closed' = {}
    /\ write' = write /\ Forgotten
    /\ state' = CASE call.after = "disown" -> "Disowned"
                  [] call.after # "disown" /\ "Killed" \in flags -> "Killed"
                  [] call.after # "disown" /\ "TimeoutExpired" \in flags -> "Expired"
                  [] OTHER -> IF exitCode[NumCommands] = "signal" THEN "Exception"
                              ELSE "Exited"
    /\ IF call.op = "Delete" THEN Goto("join") /\ call' = call ELSE Return
    /\ UNCHANGED <<opt, exitCode, flags, events, hProcess, pipesLeft, currentIndex,
                   buffer, sharedIndex, tokens, threadPc, child, fate, held, deadline>>

(* kwsysProcessCleanup, then the outcome. *)
Close ==
    /\ pc = "close"
    /\ ClosePipes
    /\ state' = CASE call.after = "disown" -> "Disowned"
                  [] call.after # "disown" /\ "Killed" \in flags -> "Killed"
                  [] call.after # "disown" /\ flags \cap {"Killed", "TimeoutExpired"}
                                                = {"TimeoutExpired"} -> "Expired"
                  [] OTHER -> IF exitCode[NumCommands] = "signal" THEN "Exception"
                              ELSE "Exited"
    /\ IF call.op = "Delete" THEN Goto("join") /\ call' = call ELSE Return
    /\ UNCHANGED <<opt, exitCode, flags, events, hProcess, pipesLeft, currentIndex,
                   buffer, sharedIndex, tokens, threadPc, child, fate, held, deadline>>

(* Delete where there is nothing to wait for, or Disown would not. *)
Delete ==
    /\ pc = "idle" /\ state # "deleted"
    /\ state # "Executing" \/ (opt.detach /\ ~MayDisown)
    /\ Goto("join") /\ call' = [NoCall EXCEPT !.op = "Delete"]
    /\ UNCHANGED <<opt, object, pipesLeft, currentIndex, pipes, buffer, sharedIndex,
                   tokens, threadPc, world, got, note>>

(* Each thread sees that the object is being deleted when it next waits for its
   Ready, and is joined. *)
JoinThread ==
    /\ pc = "join" /\ At(InOrder[idx], "ready")
    /\ To(InOrder[idx], "ended")
    /\ IF idx < Len(InOrder) THEN idx' = idx + 1 /\ UNCHANGED <<state, pc, call>>
       ELSE state' = "deleted" /\ Return
    /\ UNCHANGED <<opt, exitCode, flags, events, hProcess, pipesLeft, currentIndex,
                   pipes, buffer, sharedIndex, tokens, world, got, note>>

-----------------------------------------------------------------------------

Executing == OpenPipes \/ Create \/ Resume \/ CleanupError
Waiting == Top \/ SelectPipe \/ SelectTimesOut \/ Destroy
Ending == \/ Disable \/ AwaitReader \/ Disabled \/ KillChild \/ Release
          \/ AwaitReset \/ Close \/ JoinThread
Client == Executing \/ Waiting \/ Ending

(* The calls of kwsys_Process.h, in any order that keeps the object alive. *)
Call ==
    \/ Execute \/ Kill \/ Delete
    \/ \E op \in {"WaitForData", "WaitForExit", "Delete"},
          user \in {"none", "zero", "later"} : Wait(op, user)
    \/ \E op \in {"Disown", "Delete"} : Disown(op)

ReaderThread(p) == ReaderGo(p) \/ ReaderReads(p) \/ ReaderReports(p)
WakerThread(p) == WakerGo(p) \/ WakerWrites(p)

(* Nobody looks at the world any more once the object is gone. *)
World ==
    /\ state # "deleted"
    /\ \/ \E c \in Cmds : ChildEnds(c)
       \/ \E p \in PipeNames : ChildWrites(p)
       \/ GrandchildEnds \/ DeadlinePasses \/ UserTimePasses

Next ==
    \/ Client \/ Call \/ World
    \/ \E p \in PipeNames : ReaderThread(p) \/ WakerThread(p)

(* All five threads run, though a WriteFile may block on a pipe that is full, and
   time passes.  Children may live for ever; no call has to be made. *)
Fairness ==
    /\ WF_vars(Client)
    /\ \A p \in PipeNames : /\ WF_vars(ReaderThread(p))
                            /\ WF_vars(WakerThread(p) /\ (~MayBlock(p) \/ ~At(Waker(p), "write")))
    /\ WF_vars(DeadlinePasses) /\ WF_vars(UserTimePasses)

Spec == Init /\ [][Next]_vars /\ Fairness

-----------------------------------------------------------------------------

(* The object as its client sees it. *)
Answered == IF call.op = "Execute" THEN "creating" ELSE state
Left == {c \in Cmds : ~opt.detach /\ hProcess[c] = "open"}
LastEnd == IF opt.detach THEN "none" ELSE fate[NumCommands]
KillAsked == "Killed" \in flags /\ call.after # "timeout"
Contract ==
    INSTANCE ChildProcess WITH
        Children <- Cmds, LastChild <- NumCommands,
        answer <- Answered, attached <- ~opt.detach, left <- Left,
        how <- LastEnd, asked <- KillAsked, late <- deadline

(* The Windows library keeps the same promises of ChildProcess as the UNIX one,
   in every interleaving of its five threads with the children and time: no child
   is left when an attached execution is answered, the answer is the last
   command's own exit code only when it ended by itself.  Here a Kill after the
   timeout does nothing, so that Expired stays the answer. *)
ImplementsContract == Contract!Spec

(* "Wait for all pipe threads to reset": whenever an execution may be begun, every
   thread waits for its Ready and every semaphore is as kwsysProcess_New left it,
   whatever way the last execution ended; save that a waker which was told to wake
   a pipe already closed keeps its token. *)
ThreadsReset ==
    pc = "idle" /\ state \notin {"Executing", "deleted"} =>
        /\ sharedIndex = None /\ reset = {} /\ closed = {}
        /\ \A t \in Threads : At(t, "ready")
        /\ {Reader(p) : p \in PipeNames} \subseteq go
        /\ (\E p \in PipeNames : Waker(p) \in go) => "stray" \in note

(* Whatever part of an execution fails, and whoever ends it, the pipes are closed;
   so are the process handles, unless the children are disowned (a detached object
   that has been deleted may have been disowned before).  A detached process whose
   end was noticed, or that was killed, and is then deleted leaves its pipes open:
   Delete only tries to disown it. *)
HandlesClosed ==
    /\ pc = "idle"
    /\ state \notin {"Starting", "Executing"}
    /\ ~(state = "deleted" /\ opt.detach /\ flags # {})
    => /\ \A p \in PipeNames : read[p] # "open" /\ p \notin write
       /\ ~childStd
       /\ state # "Disowned" /\ ~(state = "deleted" /\ opt.detach) =>
              \A c \in Cmds : hProcess[c] # "open"

(* What the children write to a pipe reaches the client once, in order and, when
   all pipes have closed by themselves, completely, although it passes through two
   threads and a shared index; and none of the wakers' bytes is among it, until
   one has been told to wake a closed pipe. *)
Chunks(s, from, to) ==              \* from + 1 .. to, and bytes of wakers
    /\ Range(s) \ {0} = (from + 1) .. to
    /\ \A i, j \in DOMAIN s : i < j /\ s[j] # 0 => s[i] < s[j]
DataOnceInOrder ==
    \A p \in PipeNames :
        /\ \E n \in 0 .. wrote[p] : Chunks(got[p], 0, n)
        /\ state = "Executing" /\ pipesLeft = 0 /\ "disabled" \notin note
            => Chunks(got[p], 0, wrote[p])
        /\ 0 \in Range(got[p]) => "stray" \in note

(* A call that kills, disowns or has a timeout comes back, however the threads are
   placed when it begins.  It does not if the children had already ended and left
   a process behind that keeps a pipe (the TODO of kwsysProcessDestroy), or if a
   waker has spent its byte on a pipe that was closed.  Nor does any call have to
   come back whose children live for ever, or Delete for a detached process whose
   end has been noticed. *)
MustReturn ==
    \/ call.op \in {"Kill", "Disown", "Execute"}
    \/ call.user # "none" \/ call.after # "none"
    \/ call.op # "none" /\ flags \cap {"Killed", "TimeoutExpired"} # {}
    \/ opt.timeout /\ call.op \in {"WaitForData", "WaitForExit"}
    \/ call.op = "Delete" /\ (opt.timeout \/ opt.detach) /\ flags \cap {"Terminated"} = {}
CallsReturn ==
    []<>(~MustReturn \/ held # {} \/ "stray" \in note)

=============================================================================
