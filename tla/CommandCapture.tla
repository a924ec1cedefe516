--------------------------- MODULE CommandCapture ---------------------------
(***************************************************************************)
(* The command runner, CommandCapture.cpp: one command at a time is run in *)
(* a child process whose stdout goes to a temporary file.                  *)
(* ExecuteAndCapture waits for the child, deletes the process object and   *)
(* returns the lines of the file; ExecuteAndDetach leaves the child and    *)
(* the file behind.  The process object is the abstract ChildProcess,      *)
(* which KwsysProcess implements.                                          *)
(*                                                                         *)
(* A command is named by its number, which is also what it writes before   *)
(* it exits.                                                               *)
(***************************************************************************)
EXTENDS Integers, Sequences, Functions

CONSTANTS
    MaxCommands,    (* bound: how many commands are run                    *)
    MaxDescriptors  (* how many temporary files may be open                *)

ASSUME CommandAssumption == MaxCommands \in Nat /\ MaxDescriptors \in Nat

(* ExecuteAndCapture with a timeout of 30 s or of 0, ExecuteAndDetach. *)
Operations == {"capture30", "capture0", "detach"}

(* Names of files: mkstemp's are named by the command, 0 is the name that
   getTempFile returns when mkstemp fails. *)
FallbackName == 0
Unlinked == -1

VARIABLES
    runPc,      (* "off", "tempFile", "execute", "wait", "disown",         *)
                (* "delete", "read"; "threw"                               *)
    operation,  (* history: what each command was run by                   *)
    file,       (* PipeFileName                                            *)
    descriptors,(* open descriptors of temporary files: nobody closes what *)
                (* mkstemp returns                                         *)
    files,      (* the output in each existing file                        *)
    stage,      (* of Execute: "none", "redirected" when the child's       *)
                (* stdout is the file, "started"                           *)
    detached,   (* the living detached commands, and the file each has     *)
    answer, attached, left, how, asked, late,   \* the process object
    held        (* a process that the child has started keeps the write    *)
                (* end of the pipe that is the child's stderr; the child   *)
                (* has ended                                               *)

process == <<answer, attached, left, how, asked, late, held>>
runner == <<runPc, operation, file, descriptors, files, stage, detached, process>>

Process == INSTANCE ChildProcess WITH Children <- {"child"}, LastChild <- "child"

-----------------------------------------------------------------------------

job == Len(operation)

(* f, and x mapped to v. *)
With(f, x, v) == [y \in DOMAIN f \cup {x} |-> IF y = x THEN v ELSE f[y]]

RunnerInit ==
    /\ runPc = "off" /\ operation = <<>> /\ file = FallbackName
    /\ descriptors = 0 /\ files = <<>> /\ stage = "none" /\ detached = <<>>
    /\ answer = "deleted" /\ attached = TRUE /\ left = {} /\ how = "none"
    /\ asked = FALSE /\ late = FALSE /\ held = FALSE

(* A call, up to kwsysProcess_New and its setters. *)
RunCommand(op) ==
    /\ runPc = "off" /\ job < MaxCommands
    /\ runPc' = "tempFile"
    /\ operation' = Append(operation, op)
    /\ stage' = "none"
    /\ answer' = "Starting" /\ attached' = (op # "detach")
    /\ left' = {} /\ how' = "none" /\ asked' = FALSE /\ late' = FALSE
    /\ held' = FALSE
    /\ UNCHANGED <<file, descriptors, files, detached>>

(* getTempFile.  mkstemp fails for want of a descriptor, or of room in /tmp. *)
GetTempFile ==
    /\ runPc = "tempFile"
    /\ \/ /\ descriptors < MaxDescriptors
          /\ descriptors' = descriptors + 1
          /\ file' = job
          /\ files' = With(files, job, {})
       \/ /\ file' = FallbackName
          /\ UNCHANGED <<descriptors, files>>
    /\ runPc' = "execute"
    /\ UNCHANGED <<operation, stage, detached, process>>

(* kwsysProcess_Execute is entered. *)
ExecuteProcess ==
    /\ runPc = "execute" /\ answer = "Starting"
    /\ Process!Begin
    /\ UNCHANGED <<runPc, operation, file, descriptors, files, stage,
                   detached, held>>

(* In it, the file is opened, created or truncated; that takes a descriptor. *)
RedirectOutput ==
    /\ runPc = "execute" /\ answer = "creating" /\ stage = "none"
    /\ descriptors < MaxDescriptors
    /\ stage' = "redirected"
    /\ files' = With(files, file, {})
    /\ UNCHANGED <<runPc, operation, file, descriptors, detached, process>>

(* The child is started; Execute succeeds or fails. *)
StartChild ==
    /\ runPc = "execute" /\ stage = "redirected" /\ answer = "creating"
    /\ stage' = "started"
    /\ IF attached
       THEN Process!Start /\ UNCHANGED <<detached, held>>
       ELSE detached' = With(detached, job, file) /\ UNCHANGED process
    /\ UNCHANGED <<runPc, operation, file, descriptors, files>>

ExecuteEnds ==
    /\ runPc = "execute"
    /\ \/ stage = "started" /\ Process!Started
       \/ Process!Fail
    /\ UNCHANGED <<runPc, operation, file, descriptors, files, stage,
                   detached, held>>

ExecuteReturns ==
    /\ runPc = "execute" /\ answer \in {"Executing", "Error"}
    /\ runPc' = IF attached THEN "wait" ELSE "disown"
    /\ UNCHANGED <<operation, file, descriptors, files, stage, detached,
                   process>>

(* The library goes on reading the pipe, until the timeout of the process makes
   it close its end. *)
PipeHeld == held /\ ~late

(* The library, within one of its calls: it waits for a child that has ended,
   or kills it because Execute fails or the time is over, and answers. *)
ReapChild ==
    /\ runPc \in {"execute", "wait", "delete"}
    /\ how # "none" \/ late \/ answer = "creating"
    /\ Process!Reap
    /\ UNCHANGED <<runPc, operation, file, descriptors, files, stage,
                   detached, held>>

AnswerCall ==
    /\ runPc \in {"wait", "disown"} /\ ~PipeHeld
    /\ Process!Answer
    /\ UNCHANGED <<runPc, operation, file, descriptors, files, stage,
                   detached, held>>

(* select fails, the child is killed and the pipe closed: possible, never
   expected. *)
WaitFails ==
    /\ runPc \in {"wait", "delete"}
    /\ \/ how = "none" /\ Process!Reap
       \/ held /\ UNCHANGED <<answer, attached, left, how, asked, late>>
    /\ held' = FALSE
    /\ UNCHANGED <<runPc, operation, file, descriptors, files, stage,
                   detached>>

(* WaitForExit and Disown return; with a timeout of 0 WaitForExit does so
   although the child is running. *)
WaitReturns ==
    /\ runPc \in {"wait", "disown"}
    /\ answer # "Executing" \/ operation[job] = "capture0"
    /\ runPc' = "delete"
    /\ UNCHANGED <<operation, file, descriptors, files, stage, detached,
                   process>>

MDeleteLeaves ==                        \* the running child is not waited for
    /\ runPc = "delete"
    /\ answer' = "deleted"
    /\ runPc' = IF attached THEN "read" ELSE "off"
    /\ UNCHANGED <<operation, file, descriptors, files, stage, detached, attached,
                   left, how, asked, late, held>>

(* kwsysProcess_Delete, which waits in WaitForExit without a timeout, for a running
   child and for its stderr, whoever has it. *)
Delete ==
    /\ runPc = "delete" /\ ~(answer = "Executing" /\ PipeHeld)
    /\ Process!Free
    /\ runPc' = IF attached THEN "read" ELSE "off"
    /\ held' = FALSE
    /\ UNCHANGED <<operation, file, descriptors, files, stage, detached>>

MReadOutputKeeps ==                     \* the file is not removed
    /\ runPc = "read" /\ file \in DOMAIN files
    /\ runPc' = "off" /\ how' = "none" /\ late' = FALSE
    /\ UNCHANGED <<operation, file, descriptors, files, stage, detached, answer,
                   attached, left, asked, held>>

(* The lines of the file, which is removed; a detached command that has the same
   file open goes on writing to nothing. *)
ReadOutput ==
    /\ runPc = "read" /\ file \in DOMAIN files
    /\ files' = Restrict(files, DOMAIN files \ {file})
    /\ detached' = [j \in DOMAIN detached |->
                       IF detached[j] = file THEN Unlinked ELSE detached[j]]
    /\ runPc' = "off" /\ how' = "none" /\ late' = FALSE
    /\ UNCHANGED <<operation, file, descriptors, stage, answer, attached, left,
                   asked, held>>

(* boost::filesystem::file_size throws: there is no such file. *)
FileMissing ==
    /\ runPc = "read" /\ file \notin DOMAIN files
    /\ runPc' = "threw"
    /\ UNCHANGED <<operation, file, descriptors, files, stage, detached,
                   process>>

(***************************************************************************)
(* The children.                                                           *)
(***************************************************************************)

Wrote(j, f) == files' = [files EXCEPT ![f] = @ \cup {j}]

ChildWrites ==
    /\ left # {} /\ how = "none" /\ file \in DOMAIN files
    /\ Wrote(job, file)
    /\ UNCHANGED <<runPc, operation, file, descriptors, stage, detached,
                   process>>

(* It exits once it has written everything, or dies before; a process that it has
   started may outlive it, and keep its stderr. *)
ChildEnds ==
    /\ Process!End
    /\ how' = "exit" => job \in files[file]
    /\ held' \in {FALSE, how' # "exit1"}
    /\ UNCHANGED <<runPc, operation, file, descriptors, files, stage,
                   detached>>

GrandchildEnds ==
    /\ held /\ held' = FALSE
    /\ UNCHANGED <<runPc, operation, file, descriptors, files, stage, detached,
                   answer, attached, left, how, asked, late>>

TimePasses ==
    /\ operation # <<>> /\ operation[job] = "capture30" /\ ~late
    /\ Process!TimePasses
    /\ UNCHANGED <<runPc, operation, file, descriptors, files, stage,
                   detached, held>>

DetachedWrites(j) ==
    /\ detached[j] \in DOMAIN files
    /\ Wrote(j, detached[j])
    /\ UNCHANGED <<runPc, operation, file, descriptors, stage, detached,
                   process>>

DetachedEnds(j) ==
    /\ detached' = Restrict(detached, DOMAIN detached \ {j})
    /\ UNCHANGED <<runPc, operation, file, descriptors, files, stage, process>>

-----------------------------------------------------------------------------

Runner ==
    \/ GetTempFile \/ ExecuteProcess \/ RedirectOutput \/ StartChild \/ ExecuteEnds
    \/ ExecuteReturns \/ ReapChild \/ AnswerCall \/ WaitReturns \/ Delete
    \/ ReadOutput \/ FileMissing

CommandWorld ==
    \/ ChildWrites \/ ChildEnds \/ GrandchildEnds \/ TimePasses \/ WaitFails
    \/ \E j \in DOMAIN detached : DetachedWrites(j) \/ DetachedEnds(j)

=============================================================================
