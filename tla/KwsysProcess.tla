---------------------------- MODULE KwsysProcess ----------------------------
(***************************************************************************)
(* One kwsysProcess object on UNIX (kwsys/ProcessUNIX.c), the children it  *)
(* runs, the kernel, and the SIGCHLD handler.  Its one client makes the    *)
(* calls of kwsys_Process.h in any order.  A pipeline has NumCommands      *)
(* children; the last one's stdout and everybody's stderr are read by the  *)
(* object, which learns of an exit through a third pipe the handler writes *)
(* to.  The program is multi-threaded, so the handler may run on another   *)
(* thread between any two steps of the client's.                           *)
(*                                                                         *)
(* Failing pipe, open, fcntl, chdir and malloc calls are the failing       *)
(* disjunct of the step that makes them.  waitpid fails only where the     *)
(* pid is not that of a child of ours.                                     *)
(***************************************************************************)
EXTENDS Integers, FiniteSets, Sequences

CONSTANTS
    NumCommands,    (* NumberOfCommands: the length of the pipeline        *)
    Options         (* the values opt may have                             *)

(* What SetTimeout, SetPipeFile and SetOption let the client choose. *)
AllOptions == [detach : BOOLEAN, timeout : BOOLEAN, toFile : BOOLEAN]

ASSUME NumCommandsAssumption == NumCommands \in Nat \ {0}
ASSUME OptionsAssumption == Options \subseteq AllOptions

(* The commands AddCommand appended before Execute, in the pipeline's order. *)
Cmds == 1 .. NumCommands

Pipes == <<"out", "err", "sig">>        \* PipeReadEnds, in their order
PipeNames == {"out", "err", "sig"}

(* What ends may name, see there. *)
Descriptors ==
    PipeNames \cup {"signalPipe", "childStd", "errorPipe", "between", "fout"}

VARIABLES
    opt,        (* [detach, timeout, toFile]: OptionDetach, Timeout > 0,   *)
                (* stdout redirected to a file                             *)
    state,      (* State; "deleted" once the object is freed               *)
    forkPid,    (* ForkPIDs: "zero", "child", "minusOne" or "garbled"      *)
    exitCode,   (* CommandExitCodes; 0 is WIFEXITED with status 0          *)
    commandsLeft, pipesLeft,
    pipeSet,    (* PipeSet: what the last select reported, not yet read    *)
    ends,       (* the open descriptors of this execution: the three read  *)
                (* ends by name, the write end "signalPipe", the           *)
                (* children's ends "childStd", an "errorPipe", a pipe      *)
                (* "between" two commands, and "fout", an output file that *)
                (* is in no field of the object                            *)
    flags,      (* subset of {"Killed", "TimeoutExpired", "SelectError"}   *)
    pc, idx,    (* the client thread, and its loop counter                 *)
    call,       (* [op, user, after]: the API call; its own timeout, when  *)
                (* that is the one it waits for: "zero", "later", "due" or *)
                (* "none"; what follows the Kill or ClosePipes under way   *)
    child,      (* each command's process: "none", "forked", "running",    *)
                (* "zombie", "gone"                                        *)
    fate,       (* how it ended                                            *)
    grandchild, (* a process the last command left behind is alive         *)
    middle,     (* the intermediate process of a detached child is alive   *)
    data,       (* the pipes with unread bytes                             *)
    errorPipe,  (* what is in the error pipe: "pid", "fail" or "message"   *)
    registered, (* the object is in kwsysProcesses                         *)
    sigchld,    (* SIGCHLD is pending                                      *)
    handlerPc,  (* the handler: "off", or "write" after its read           *)
    deadline,   (* TimeoutTime has passed                                  *)
    hit         (* history: what kill() has been aimed at                  *)

object  == <<state, forkPid, exitCode, commandsLeft, pipesLeft, flags>>
process == <<child, fate, grandchild, middle>>

(* kwsysProcesses, which the handler walks, with SIGCHLD and the handler. *)
handler == <<registered, sigchld, handlerPc>>
thread  == <<pc, idx, call>>
vars == <<opt, object, pipeSet, ends, thread, process, data, errorPipe,
          handler, deadline, hit>>

-----------------------------------------------------------------------------

Alive(c) == child[c] \in {"forked", "running"}

(* Somebody holds the write end of a pipe: the last command has stdout unless
   it goes to a file, everybody has stderr, we ourselves hold the signal pipe. *)
Written(p) ==
    CASE p = "out" -> ~opt.toFile /\ (Alive(NumCommands) \/ grandchild)
      [] p = "err" -> grandchild \/ \E c \in Cmds : Alive(c)
      [] p = "sig" -> "signalPipe" \in ends

(* read() would not block: there are bytes, or end of file. *)
Readable(p) == p \in data \/ ~Written(p)

NoCall == [op |-> "none", user |-> "none", after |-> "none"]

MInitializedKeepsCount ==               \* commandsLeft is not reset
    /\ forkPid' = [c \in Cmds |-> "zero"]
    /\ exitCode' = [c \in Cmds |-> "exit0"]
    /\ commandsLeft' = commandsLeft /\ pipesLeft' = 0
    /\ pipeSet' = {} /\ flags' = {}

(* kwsysProcessInitialize without State. *)
Initialized ==
    /\ forkPid' = [c \in Cmds |-> "zero"]
    /\ exitCode' = [c \in Cmds |-> "exit0"]
    /\ commandsLeft' = 0 /\ pipesLeft' = 0
    /\ pipeSet' = {} /\ flags' = {}

Init ==
    /\ opt \in Options
    /\ state = "Starting"
    /\ forkPid = [c \in Cmds |-> "zero"]
    /\ exitCode = [c \in Cmds |-> "exit0"]
    /\ commandsLeft = 0 /\ pipesLeft = 0 /\ pipeSet = {}
    /\ ends = {} /\ flags = {}
    /\ pc = "idle" /\ idx = 1
    /\ call = NoCall
    /\ child = [c \in Cmds |-> "none"] /\ fate = [c \in Cmds |-> "none"]
    /\ grandchild = FALSE /\ middle = FALSE /\ data = {} /\ errorPipe = <<>>
    /\ registered = FALSE /\ sigchld = FALSE /\ handlerPc = "off"
    /\ deadline = FALSE /\ hit = {}

(***************************************************************************)
(* The children and the kernel.                                            *)
(***************************************************************************)

(* A process ends: a child becomes a zombie and SIGCHLD is raised; a detached
   one has init for a parent. *)
End(c, how) ==
    /\ child' = [child EXCEPT ![c] = IF opt.detach THEN "gone" ELSE "zombie"]
    /\ fate' = [fate EXCEPT ![c] = how]
    /\ sigchld' = (sigchld \/ registered)

(* execvp succeeds, and closes the child's end of the error pipe. *)
Exec(c) ==
    /\ child[c] = "forked"
    /\ child' = [child EXCEPT ![c] = "running"]
    /\ UNCHANGED <<opt, object, pipeSet, ends, thread, fate, grandchild, middle,
                   data, errorPipe, handler, deadline, hit>>

(* execvp fails: the message goes into the error pipe, then _exit(1). *)
ExecFails(c) ==
    /\ child[c] = "forked"
    /\ errorPipe' = Append(errorPipe, "message")
    /\ End(c, "exit1")
    /\ UNCHANGED <<opt, object, pipeSet, ends, thread, grandchild, middle, data,
                   registered, handlerPc, deadline, hit>>

(* The intermediate process of a detached child reports its pid, or that the
   second fork failed, and exits. *)
Report ==
    /\ middle
    /\ middle' = FALSE
    /\ errorPipe' = Append(errorPipe,
                           IF child[idx] = "none" THEN "fail" ELSE "pid")
    /\ UNCHANGED <<opt, object, pipeSet, ends, thread, child, fate, grandchild,
                   data, handler, deadline, hit>>

(* The status of another command than the last is never read. *)
Exits(c) ==
    /\ child[c] = "running"
    /\ \E how \in {"exit0"} \cup IF c = NumCommands THEN {"signal"} ELSE {} :
          End(c, how)
    /\ UNCHANGED <<opt, object, pipeSet, ends, thread, grandchild, middle, data,
                   errorPipe, registered, handlerPc, deadline, hit>>

Writes(p) ==
    /\ p \in ends \ (data \cup {"sig"}) /\ Written(p)
    /\ grandchild \/ \E c \in Cmds : /\ child[c] = "running"
                                     /\ p = "out" => c = NumCommands
    /\ data' = data \cup {p}
    /\ UNCHANGED <<opt, object, pipeSet, ends, thread, process, errorPipe,
                   handler, deadline, hit>>

GrandchildBorn ==
    /\ child[NumCommands] = "running" /\ ~grandchild
    /\ grandchild' = TRUE
    /\ UNCHANGED <<opt, object, pipeSet, ends, thread, child, fate, middle, data,
                   errorPipe, handler, deadline, hit>>

GrandchildEnds ==
    /\ grandchild
    /\ grandchild' = FALSE
    /\ UNCHANGED <<opt, object, pipeSet, ends, thread, child, fate, middle, data,
                   errorPipe, handler, deadline, hit>>

DeadlinePasses ==
    /\ opt.timeout /\ ~deadline /\ state = "Executing"
    /\ deadline' = TRUE
    /\ UNCHANGED <<opt, object, pipeSet, ends, thread, process, data, errorPipe,
                   handler, hit>>

(***************************************************************************)
(* The SIGCHLD handler.                                                    *)
(***************************************************************************)

(* Its first half: SIGCHLD is delivered while the object is in the table, and a
   byte already in the signal pipe is read.  (The model keeps no SIGCHLD that
   would find it out of the table.) *)
HandlerRead ==
    /\ sigchld /\ handlerPc = "off"
    /\ sigchld' = FALSE
    /\ handlerPc' = "write"
    /\ data' = data \ {"sig"}
    /\ UNCHANGED <<opt, object, pipeSet, ends, thread, process, errorPipe,
                   registered, deadline, hit>>

(* Its second half: a byte is written, unless the write end is closed. *)
HandlerWrite ==
    /\ handlerPc = "write" /\ state # "deleted"
    /\ handlerPc' = "off"
    /\ data' = IF "signalPipe" \in ends THEN data \cup {"sig"} ELSE data
    /\ UNCHANGED <<opt, object, pipeSet, ends, thread, process, errorPipe,
                   registered, sigchld, deadline, hit>>

(* The object was freed between the two halves: the handler reads freed memory,
   which may go well or end the program. *)
HandlerDangles ==
    /\ handlerPc = "write" /\ state = "deleted"
    /\ handlerPc' = "off"
    /\ pc' \in {pc, "crashed"}
    /\ UNCHANGED <<opt, object, pipeSet, ends, idx, call, process, data,
                   errorPipe, registered, sigchld, deadline, hit>>

(***************************************************************************)
(* The client: steps that several calls share.                             *)
(***************************************************************************)

Goto(p) == pc' = p /\ idx' = 1

Return == Goto("idle") /\ call' = NoCall

(* The next command of a loop over them, or what follows the loop. *)
NextCmd(after) ==
    IF idx < NumCommands THEN idx' = idx + 1 /\ pc' = pc ELSE Goto(after)

(* kwsysProcessKill(ForkPIDs[c]), then waitpid without WNOHANG.  A living child
   dies together with the children it has; those of a dead one are not found.
   A pid that is not a living or unreaped child of ours is somebody else's by
   now; -1 is everybody's. *)
KillAndReap(c) ==
    LET pid == forkPid[c] IN
    /\ hit' = hit \cup
          CASE pid = "zero"     -> {}
            [] pid = "minusOne" -> {"everybody"}
            [] pid = "garbled"  -> {"stranger"}
            [] OTHER            -> {IF child[c] = "gone" THEN "stale" ELSE "ours"}
    /\ IF pid = "child" /\ child[c] # "gone"
       THEN /\ child' = [child EXCEPT ![c] = "gone"]
            /\ fate' = IF Alive(c) THEN [fate EXCEPT ![c] = "sigkill"] ELSE fate
            /\ grandchild' = (grandchild /\ ~(c = NumCommands /\ Alive(c)))
            /\ sigchld' = (sigchld \/ (registered /\ Alive(c)))
       ELSE UNCHANGED <<child, fate, grandchild, sigchld>>

(* kwsysProcessCleanup from kwsysProcessesRemove on: out of the table, then the
   write end of the signal pipe is closed. *)
Remove ==
    /\ pc = "remove"
    /\ IF opt.detach
       THEN UNCHANGED <<registered, sigchld, ends>>
       ELSE registered' = FALSE /\ sigchld' = FALSE
            /\ ends' = ends \ {"signalPipe"}
    /\ Goto("release")
    /\ UNCHANGED <<opt, object, pipeSet, call, process, data, errorPipe,
                   handlerPc, deadline, hit>>

MReleasePipesOnly ==                    \* the children's ends are forgotten
    /\ pc = "release"
    /\ forkPid' = [c \in Cmds |-> "zero"]
    /\ ends' = ends \ PipeNames /\ data' = {}
    /\ state' = IF call.op = "Delete" THEN "deleted" ELSE state
    /\ Return
    /\ UNCHANGED <<opt, exitCode, commandsLeft, pipesLeft, flags, pipeSet,
                   process, errorPipe, handler, deadline, hit>>

(* ... the rest is freed and closed; the call returns, and Delete frees the
   object. *)
Release ==
    /\ pc = "release"
    /\ forkPid' = [c \in Cmds |-> "zero"]
    /\ ends' = ends \ (PipeNames \cup {"childStd"}) /\ data' = {}
    /\ state' = IF call.op = "Delete" THEN "deleted" ELSE state
    /\ Return
    /\ UNCHANGED <<opt, exitCode, commandsLeft, pipesLeft, flags, pipeSet,
                   process, errorPipe, handler, deadline, hit>>

(* kwsysProcessClosePipes: what select reported is read first. *)
ClosePipes ==
    /\ pc = "closePipes"
    /\ data' = data \ PipeNames
    /\ pipeSet' = pipeSet \ ends
    /\ pipesLeft' = pipesLeft - Cardinality(ends \cap PipeNames)
    /\ ends' = ends \ PipeNames
    /\ IF call.after = "disown"
       THEN Goto("remove") /\ state' = "Disowned" /\ flags' = flags
       ELSE Goto("kill") /\ state' = state /\ flags' = flags \cup {"Killed"}
    /\ UNCHANGED <<opt, forkPid, exitCode, commandsLeft, call, process,
                   errorPipe, handler, deadline, hit>>

(***************************************************************************)
(* kwsysProcess_Execute.                                                   *)
(***************************************************************************)

Execute ==
    /\ pc = "idle" /\ state \notin {"Executing", "deleted"}
    /\ Initialized
    /\ child' = [c \in Cmds |-> "none"] /\ fate' = [c \in Cmds |-> "none"]
    /\ grandchild' = FALSE /\ middle' = FALSE /\ errorPipe' = <<>>
    /\ deadline' = FALSE /\ hit' = {}
    /\ \/ state' = "Error" /\ Return                   \* out of memory
       \/ /\ state' = "Starting"
          /\ call' = [NoCall EXCEPT !.op = "Execute"]
          /\ \/ Goto("cleanup")                        \* getcwd or chdir fails
             \/ Goto(IF opt.detach THEN "pipes" ELSE "register")
    /\ ends' = {}                       \* an earlier "fout" is not followed
    /\ UNCHANGED <<opt, data, handler>>

(* kwsysProcessesAdd: the signal pipe, then the entry in the table. *)
Register ==
    /\ pc = "register"
    /\ \/ /\ ends' = ends \cup {"sig", "signalPipe"}
          /\ registered' = TRUE /\ Goto("pipes")
       \/ /\ \E made \in {{}, {"sig", "signalPipe"}} : ends' = ends \cup made
          /\ registered' = registered /\ Goto("cleanup")
    /\ UNCHANGED <<opt, object, pipeSet, call, process, data, errorPipe, sigchld,
                   handlerPc, deadline, hit>>

(* The stdin of the first command, stdout of the last, everybody's stderr.  Where
   fcntl fails on the output file, kwsysProcessSetupOutputPipeFile returns before
   it stores the descriptor in the object. *)
OpenPipes ==
    /\ pc = "pipes"
    /\ \/ ends' = ends \cup {"out", "err", "childStd"} /\ Goto("create")
       \/ /\ \E made \in {{}, {"out"}, {"out", "err"}}
                        \cup IF opt.toFile THEN {{"out", "fout"}} ELSE {} :
                ends' = ends \cup made \cup {"childStd"}
          /\ Goto("cleanup")
    /\ UNCHANGED <<opt, object, pipeSet, call, process, data, errorPipe, handler,
                   deadline, hit>>

(* An error pipe for every command, and a pipe to the next one, whose read end is
   kept until that has been created. *)
MakePipes ==
    ends' = ends \cup {"errorPipe"} \cup IF idx < NumCommands THEN {"between"} ELSE {}
CreateFails == Goto("cleanup") /\ ends' = ends \ {"errorPipe", "between"}

(* The fork of kwsysProcessCreate, in the parent: it fails; a child is born; a
   detached one is born of an intermediate process, or is not. *)
Fork ==
    \/ /\ forkPid' = [forkPid EXCEPT ![idx] = "minusOne"]
       /\ CreateFails /\ UNCHANGED <<commandsLeft, child, middle>>
    \/ /\ ~opt.detach
       /\ child' = [child EXCEPT ![idx] = "forked"]
       /\ forkPid' = [forkPid EXCEPT ![idx] = "child"]
       /\ commandsLeft' = commandsLeft + 1
       /\ pc' = "execWait" /\ MakePipes /\ UNCHANGED <<idx, middle>>
    \/ /\ opt.detach
       /\ \E born \in {"forked", "none"} : child' = [child EXCEPT ![idx] = born]
       /\ middle' = TRUE
       /\ pc' = "pid" /\ MakePipes /\ UNCHANGED <<idx, forkPid, commandsLeft>>

(* One turn of the loop over the commands: the pipe to the next command or the
   error pipe fails, or fork is called. *)
Create ==
    /\ pc = "create"
    /\ errorPipe' = <<>>
    /\ \/ CreateFails /\ UNCHANGED <<forkPid, commandsLeft, child, middle>>
       \/ Fork
    /\ UNCHANGED <<opt, state, exitCode, pipesLeft, flags, pipeSet, call, fate,
                   grandchild, data, handler, deadline, hit>>

(* The parent of a detached child reads the first bytes of the error pipe as
   its pid, whoever wrote them, and waits for the intermediate process. *)
ReadPid ==
    /\ pc = "pid" /\ errorPipe # <<>> /\ ~middle
    /\ LET pid == CASE Head(errorPipe) = "pid" -> "child"
                    [] Head(errorPipe) = "fail" -> "minusOne"
                    [] Head(errorPipe) = "message" -> "garbled"
       IN /\ forkPid' = [forkPid EXCEPT ![idx] = pid]
          /\ IF pid = "minusOne"
             THEN CreateFails /\ UNCHANGED <<commandsLeft, errorPipe>>
             ELSE /\ pc' = "execWait" /\ UNCHANGED <<idx, ends>>
                  /\ commandsLeft' = commandsLeft + 1
                  /\ errorPipe' = IF pid = "child" THEN Tail(errorPipe)
                                  ELSE errorPipe  \* most of the message is left
    /\ UNCHANGED <<opt, state, exitCode, pipesLeft, flags, pipeSet, call, process,
                   data, handler, deadline, hit>>

(* The end of Execute.  Three pipes are counted even if a detached process has
   only two. *)
Started ==
    /\ ends' = ends \ {"childStd", "errorPipe", "between"}
    /\ pipesLeft' = Len(Pipes)
    /\ state' = "Executing"
    /\ Return

(* The parent reads the error pipe to its end: the child has called exec, or
   sent a message. *)
ExecWait ==
    /\ pc = "execWait" /\ child[idx] # "forked"
    /\ errorPipe' = <<>>
    /\ IF errorPipe = <<>> /\ idx = NumCommands
       THEN Started
       ELSE /\ IF errorPipe = <<>>
               THEN pc' = "create" /\ idx' = idx + 1 /\ ends' = ends \ {"errorPipe"}
               ELSE CreateFails
            /\ UNCHANGED <<pipesLeft, state, call>>
    /\ UNCHANGED <<opt, forkPid, exitCode, commandsLeft, flags, pipeSet, process,
                   data, handler, deadline, hit>>

MCleanupErrorNoKill ==                  \* the children started are left alone
    /\ pc = "cleanup"
    /\ state' = "Error" /\ Goto("remove")
    /\ UNCHANGED <<opt, forkPid, exitCode, commandsLeft, pipesLeft, flags,
                   pipeSet, ends, call, process, data, errorPipe, handler,
                   deadline, hit>>

(* kwsysProcessCleanup(cp, 1): the children started so far are killed. *)
CleanupError ==
    /\ pc = "cleanup"
    /\ state' = "Error"
    /\ KillAndReap(idx)
    /\ NextCmd("remove")
    /\ UNCHANGED <<opt, forkPid, exitCode, commandsLeft, pipesLeft, flags,
                   pipeSet, ends, call, middle, data, errorPipe, registered,
                   handlerPc, deadline>>

(***************************************************************************)
(* kwsysProcess_WaitForData (for a caller that takes the data) and          *)
(* kwsysProcess_WaitForExit (which drops it), both around WaitForPipe.      *)
(***************************************************************************)

Waitable == state = "Executing" /\ flags \cap {"Killed", "TimeoutExpired"} = {}

(* A call ends without an answer: WaitForExit goes on to the outcome. *)
Drained(op) ==
    IF op = "WaitForData" THEN Return
    ELSE Goto("outcome") /\ call' = [NoCall EXCEPT !.op = op]

(* The entry of both.  The earlier of the two timeouts is chosen here, for the
   whole call. *)
Wait(op, user) ==
    /\ pc = "idle" /\ state = "Executing"
    /\ op = "Delete" => user = "none" /\ ~opt.detach
    /\ IF Waitable /\ pipesLeft > 0
       THEN /\ Goto("handle")
            /\ call' = [op |-> op, after |-> "none",
                        user |-> IF deadline THEN "none" ELSE user]
       ELSE Drained(op)
    /\ UNCHANGED <<opt, object, pipeSet, ends, process, data, errorPipe, handler,
                   deadline, hit>>

(* A positive timeout of the caller's runs out. *)
UserTimePasses ==
    /\ call.user = "later"
    /\ call' = [call EXCEPT !.user = "due"]
    /\ UNCHANGED <<opt, object, pipeSet, ends, pc, idx, process, data, errorPipe,
                   handler, deadline, hit>>

NextPipe == IF idx < Len(Pipes) THEN idx' = idx + 1 /\ pc' = pc ELSE Goto("arm")

(* One turn of the loop over the pipes that select reported: data are returned
   or dropped, a byte in the signal pipe starts the reaping, end of file closes
   the pipe, and a pipe may be empty after all. *)
HandlePipe ==
    LET p == Pipes[idx] IN
    /\ pc = "handle"
    /\ pipeSet' = pipeSet \ {p}
    /\ IF p \in pipeSet \cap ends
       THEN /\ data' = data \ {p}
            /\ IF p \in data \/ Written(p)
               THEN UNCHANGED <<ends, pipesLeft>>
               ELSE ends' = ends \ {p} /\ pipesLeft' = pipesLeft - 1
            /\ CASE p \notin data -> NextPipe /\ call' = call
                 [] p = "sig" /\ p \in data -> Goto("destroy") /\ call' = call
                 [] OTHER -> IF call.op = "WaitForData" THEN Return
                             ELSE NextPipe /\ call' = call
       ELSE NextPipe /\ UNCHANGED <<data, ends, pipesLeft, call>>
    /\ UNCHANGED <<opt, state, forkPid, exitCode, commandsLeft, flags, process,
                   errorPipe, handler, deadline, hit>>

(* kwsysProcessDestroy, one command: waitpid with WNOHANG.  What becomes of the
   pid, at which count the signal pipe is closed, and the unread bytes are
   parameters. *)
DestroyOne(pid, count, unread) ==
    /\ pc = "destroy"
    /\ IF forkPid[idx] = "child" /\ child[idx] = "zombie"
       THEN /\ child' = [child EXCEPT ![idx] = "gone"]
            /\ exitCode' = [exitCode EXCEPT ![idx] = fate[idx]]
            /\ forkPid' = [forkPid EXCEPT ![idx] = pid]
            /\ commandsLeft' = commandsLeft - 1
            /\ ends' = IF commandsLeft' = count THEN ends \ {"signalPipe"} ELSE ends
       ELSE UNCHANGED <<child, exitCode, forkPid, commandsLeft, ends>>
    /\ data' = unread
    /\ NextCmd("arm")
    /\ UNCHANGED <<opt, state, pipesLeft, flags, pipeSet, call, fate, grandchild,
                   middle, errorPipe, handler, deadline, hit>>

MDestroyKeepsPid == DestroyOne("child", 0, data)        \* ForkPIDs[i] is kept
MDestroyAtFirst == DestroyOne("zero", NumCommands - 1, data) \* closed too early
MDestroyDrains == DestroyOne("zero", 0, data \ {"sig"}) \* reaps, then reads

Destroy == DestroyOne("zero", 0, data)

(* The timeout the call waits for is over. *)
TimeUp == call.user = "due" \/ (call.user = "none" /\ deadline)

(* What the callers of WaitForPipe make of wd.Expired: the caller's own timeout
   is reported, that of the process kills it. *)
Expire ==
    IF call.user # "none" THEN Return
    ELSE Goto("timeout") /\ call' = call

MArmNoCheck ==                          \* only select looks at the time
    /\ pc = "arm"
    /\ IF ends \cap PipeNames = {} THEN Drained(call.op)
       ELSE Goto("select") /\ call' = call
    /\ pipeSet' = {}
    /\ UNCHANGED <<opt, object, ends, process, data, errorPipe, handler, deadline,
                   hit>>

(* WaitForPipe between the loop and select.  A zero timeout of the caller's is
   never over here. *)
Arm ==
    /\ pc = "arm"
    /\ CASE TimeUp -> Expire
         [] ~TimeUp /\ ends \cap PipeNames = {} -> Drained(call.op)
         [] OTHER -> Goto("select") /\ call' = call
    /\ pipeSet' = {}
    /\ UNCHANGED <<opt, object, ends, process, data, errorPipe, handler, deadline,
                   hit>>

(* select returns some pipes, or its timeout.  Pipes come first. *)
Select ==
    /\ pc = "select"
    /\ LET ready == {p \in ends \cap PipeNames : Readable(p)} IN
       IF ready # {}
       THEN pipeSet' = ready /\ Goto("handle") /\ call' = call
       ELSE (TimeUp \/ call.user = "zero") /\ pipeSet' = {} /\ Expire
    /\ UNCHANGED <<opt, object, ends, process, data, errorPipe, handler, deadline,
                   hit>>

(* The remaining error of select: the children are killed. *)
SelectFails ==
    /\ pc = "select"
    /\ Goto("closeSignal") /\ call' = [call EXCEPT !.after = "select"]
    /\ UNCHANGED <<opt, object, pipeSet, ends, process, data, errorPipe, handler,
                   deadline, hit>>

(* WaitForData's reaction to the timeout of the process. *)
TimeoutKills ==
    /\ pc = "timeout"
    /\ Goto("closeSignal") /\ call' = [call EXCEPT !.after = "timeout"]
    /\ UNCHANGED <<opt, object, pipeSet, ends, process, data, errorPipe, handler,
                   deadline, hit>>

(* The end of WaitForExit: the state from what happened, then the cleanup. *)
Outcome ==
    /\ pc = "outcome"
    /\ state' = CASE "SelectError" \in flags -> "Error"
                  [] "Killed" \in flags /\ "SelectError" \notin flags -> "Killed"
                  [] flags = {"TimeoutExpired"} -> "Expired"
                  [] flags = {} -> IF exitCode[NumCommands] \in {"exit0", "exit1"}
                                   THEN "Exited" ELSE "Exception"
    /\ Goto("remove")
    /\ UNCHANGED <<opt, forkPid, exitCode, commandsLeft, pipesLeft, flags, pipeSet,
                   ends, call, process, data, errorPipe, handler, deadline, hit>>

(***************************************************************************)
(* kwsysProcess_Kill, _Disown and _Delete.                                 *)
(***************************************************************************)

(* The client's call; "again" if the children have been killed before. *)
Kill ==
    /\ pc = "idle" /\ state = "Executing"
    /\ Goto("closeSignal")
    /\ call' = [op |-> "Kill", user |-> "none",
                after |-> IF flags = {} THEN "client" ELSE "again"]
    /\ UNCHANGED <<opt, object, pipeSet, ends, process, data, errorPipe, handler,
                   deadline, hit>>

MCloseSignalLate ==                     \* left to the cleanup
    /\ pc = "closeSignal"
    /\ Goto("closePipes")
    /\ UNCHANGED <<opt, object, pipeSet, ends, call, process, data, errorPipe,
                   handler, deadline, hit>>

(* Kill closes the write end of the signal pipe before the read ends. *)
CloseSignal ==
    /\ pc = "closeSignal"
    /\ ends' = ends \ {"signalPipe"}
    /\ Goto("closePipes")
    /\ UNCHANGED <<opt, object, pipeSet, call, process, data, errorPipe, handler,
                   deadline, hit>>

(* Its loop, which leaves ForkPIDs as they are. *)
KillChild ==
    /\ pc = "kill"
    /\ KillAndReap(idx)
    /\ NextCmd("killed")
    /\ UNCHANGED <<opt, object, pipeSet, ends, call, middle, data, errorPipe,
                   registered, handlerPc, deadline>>

(* Its last line, and what the three places that call Kill do next. *)
Killed ==
    /\ pc = "killed"
    /\ commandsLeft' = 0
    /\ flags' = CASE call.after = "timeout" -> (flags \ {"Killed"}) \cup {"TimeoutExpired"}
                  [] call.after = "select" -> (flags \ {"Killed"}) \cup {"SelectError"}
                  [] OTHER -> flags
    /\ CASE call.after \in {"client", "again"} -> Return
         [] call.after = "select" /\ pipesLeft > 0 ->
                Goto("handle") /\ call' = [call EXCEPT !.after = "none"]
         [] OTHER -> Drained(call.op)
    /\ UNCHANGED <<opt, state, forkPid, exitCode, pipesLeft, pipeSet, ends, process,
                   data, errorPipe, handler, deadline, hit>>

(* Delete disowns a detached process on its way. *)
Disown(op) ==
    /\ pc = "idle" /\ opt.detach /\ Waitable
    /\ Goto("closePipes")
    /\ call' = [op |-> op, user |-> "none", after |-> "disown"]
    /\ UNCHANGED <<opt, object, pipeSet, ends, process, data, errorPipe, handler,
                   deadline, hit>>

(* Delete where nothing is left to wait for. *)
Delete ==
    /\ pc = "idle" /\ state # "deleted"
    /\ state # "Executing" \/ (opt.detach /\ ~Waitable)
    /\ state' = "deleted"
    /\ UNCHANGED <<opt, forkPid, exitCode, commandsLeft, pipesLeft, flags, pipeSet,
                   ends, thread, process, data, errorPipe, handler, deadline, hit>>

-----------------------------------------------------------------------------

(* What the thread that made a call does next. *)
Executing == \/ Register \/ OpenPipes \/ Create \/ ReadPid \/ ExecWait
             \/ CleanupError
Waiting == \/ HandlePipe \/ Destroy \/ Arm \/ Select \/ TimeoutKills \/ Outcome
Ending == \/ CloseSignal \/ ClosePipes \/ KillChild \/ Killed \/ Remove \/ Release
Client == Executing \/ Waiting \/ Ending

(* The calls of kwsys_Process.h, in any order that keeps the object alive. *)
Call ==
    \/ Execute \/ Kill \/ Delete
    \/ \E op \in {"WaitForData", "WaitForExit", "Delete"},
          user \in {"none", "zero", "later"} : Wait(op, user)
    \/ \E op \in {"Disown", "Delete"} : Disown(op)

Handler == HandlerRead \/ HandlerWrite \/ HandlerDangles

(* Nobody looks at the world any more once the object is gone. *)
World ==
    /\ state # "deleted" /\ pc # "crashed"
    /\ \/ \E c \in Cmds : Exec(c) \/ ExecFails(c) \/ Exits(c)
       \/ \E p \in {"out", "err"} : Writes(p)
       \/ Report \/ GrandchildBorn \/ GrandchildEnds
       \/ DeadlinePasses \/ UserTimePasses \/ SelectFails

Terminating == (state = "deleted" \/ pc = "crashed") /\ UNCHANGED vars

Next == Client \/ Call \/ Handler \/ World \/ Terminating

(* The client's thread runs, signals are delivered, time passes, a forked child
   gets as far as exec or its failure.  Children and grandchildren may live, and
   write, for ever; no call has to be made. *)
Fairness ==
    /\ WF_vars(Client) /\ WF_vars(Handler)
    /\ WF_vars(DeadlinePasses) /\ WF_vars(UserTimePasses) /\ WF_vars(Report)
    /\ \A c \in Cmds : WF_vars(state # "deleted" /\ (Exec(c) \/ ExecFails(c)))

Spec == Init /\ [][Next]_vars /\ Fairness

-----------------------------------------------------------------------------

TypeOK ==
    /\ opt \in Options
    /\ state \in {"Starting", "Executing", "Exited", "Exception", "Killed",
                  "Expired", "Error", "Disowned", "deleted"}
    /\ forkPid \in [Cmds -> {"zero", "child", "minusOne", "garbled"}]
    /\ exitCode \in [Cmds -> {"exit0", "exit1", "signal"}]
    /\ commandsLeft \in 0 .. NumCommands /\ pipesLeft \in 0 .. Len(Pipes)
    /\ pipeSet \subseteq PipeNames /\ data \subseteq PipeNames
    /\ ends \subseteq Descriptors
    /\ flags \subseteq {"Killed", "TimeoutExpired", "SelectError"}
    /\ child \in [Cmds -> {"none", "forked", "running", "zombie", "gone"}]
    /\ idx \in 1 .. NumCommands + Len(Pipes)
    /\ hit \subseteq {"ours", "stale", "stranger", "everybody"}
    /\ registered \in BOOLEAN /\ sigchld \in BOOLEAN /\ deadline \in BOOLEAN
    /\ handlerPc \in {"off", "write"}

Over == pc = "idle" /\ state \notin {"Starting", "Executing"}

(* The object as its client sees it. *)
Answered ==
    CASE state = "deleted" -> "deleted"
      [] pc = "idle" /\ state # "deleted" -> state
      [] call.op = "Execute" -> "creating"
      [] OTHER -> "Executing"
Left == {c \in Cmds : ~opt.detach /\ child[c] \notin {"none", "gone"}}
LastEnd ==
    CASE opt.detach -> "none"
      [] ~opt.detach /\ fate[NumCommands] = "exit0" -> "exit"
      [] OTHER -> fate[NumCommands]
KillAsked ==
    \/ call.after \in {"client", "again"}
    \/ "Killed" \in flags /\ call.after \notin {"timeout", "select"}
Contract ==
    INSTANCE ChildProcess WITH
        Children <- Cmds, LastChild <- NumCommands,
        answer <- Answered, attached <- ~opt.detach, left <- Left,
        how <- LastEnd, asked <- KillAsked, late <- deadline

(* The object keeps the promises of ChildProcess, in every interleaving with its
   children, the handler and time.  In particular: when an attached execution is
   answered, even by a creation that failed half way, every child has been waited
   for (1640-1653, 1515-1530); Exited and Exception tell how the last command of
   the pipeline ended by itself, never the initial 0 of CommandExitCodes (1452);
   Killed is answered only after a Kill, and Expired only after a timeout that no
   Kill followed: Kill does not ask whether the timeout has already killed the
   children (1493-1516), and Killed is looked at first (1455-1464).  So Killed need
   not mean "terminated by Kill method", as kwsys_Process.h:223 says. *)
ImplementsContract == Contract!Spec

(* kwsysProcess_Kill: "avoid causing a SIGPIPE when the child terminates and our
   signal handler tries to report it after we have already closed the read
   end": whenever the handler may write, there is a reader. *)
HandlerHasReader == "signalPipe" \in ends => "sig" \in ends

(* Whatever part of an execution fails, and whoever ends it, the descriptors are
   closed and the handler's table forgets the object.  What Execute has opened and
   not stored in the object stays open: the output file, if fcntl fails on it; then
   Execute has failed.  "Free all resources ... that were allocated by
   kwsysProcess_Execute" (1619) does not find it. *)
NothingLeftOpen ==
    Over => /\ ends \subseteq {"fout"} /\ ~registered
            /\ ends # {} => opt.toFile /\ state \in {"Error", "deleted"}

(* kill() reaches none but the object's own children, save in three cases.  A pid
   that has been waited for, and may be somebody else's, is hit when the client
   kills a second time, or the process is detached, so that nobody waits for it.
   Everybody (a failed fork left -1) and a stranger (an error message was taken
   for a pid) are hit only while Execute cleans up, never once it has succeeded,
   and the stranger only if the process is detached. *)
NoStrayKill ==
    [][LET new == hit' \ hit IN
       /\ "stale" \in new => opt.detach \/ call.after = "again"
       /\ "everybody" \in new => pc = "cleanup"
       /\ "stranger" \in new => pc = "cleanup" /\ opt.detach]_vars

(* No lost wakeup: WaitForData, WaitForExit and Delete do not wait on once the
   children are dead and nobody holds their pipes, however the last SIGCHLD
   falls among the steps of the loop. *)
SomebodyAlive == grandchild \/ \E c \in Cmds : Alive(c)
NoLostWakeup ==
    []<>(call.op \notin {"WaitForData", "WaitForExit", "Delete"}
         \/ SomebodyAlive \/ pc = "crashed")

(* A process timeout, or a positive one of the caller's, ends the wait although
   a child never stops writing or has left a grandchild with its pipes.  "Specifies
   the maximum time this call may block", says kwsys_Process.h, but a timeout of 0
   is over only when select finds nothing to read: that call ends unless somebody
   keeps writing. *)
WaitsFor(timeouts) ==
    /\ call.op \in {"WaitForData", "WaitForExit", "Delete"}
    /\ call.user \in timeouts \/ (opt.timeout /\ call.user = "none")
    /\ pc # "crashed"
TimeoutEnds ==
    /\ []<>~WaitsFor({"later", "due"})
    /\ []<>~WaitsFor({"zero"}) \/ []<><<\E p \in PipeNames : Writes(p)>>_vars

=============================================================================
