---------------------------- MODULE StdinCommands ----------------------------
(***************************************************************************)
(* The console's commands: poll_stdin composed with the command runner.    *)
(* The start of the program runs two commands (test_shell_command, at line *)
(* 614, with a timeout of 30 s), then the polling thread runs one for each *)
(* `add` and `ladd`, and does not look at stdin while one is under way.    *)
(***************************************************************************)
EXTENDS StdinPoller, CommandCapture

all == <<vars, runner>>

-----------------------------------------------------------------------------

StdinInit == Init /\ RunnerInit

(* test_shell_command: a local command, and one over ssh. *)
TestShellCommand ==
    /\ pc = "startUp" /\ job < 2
    /\ RunCommand("capture30")
    /\ UNCHANGED vars

StartPolling == Apply /\ runPc = "off" /\ job = 2 /\ UNCHANGED runner

(* A line is interpreted, which may run a command: add_nodes_slurm or
   add_nodes. *)
ExecuteLine ==
    /\ Execute
    /\ IF pc' = "job"
       THEN RunCommand(IF line = "add" THEN "capture0" ELSE "detach")
       ELSE UNCHANGED runner

(* The command returns, or throws: out of hpx_main, or out of the thread. *)
CommandReturns ==
    /\ \/ pc = "job" /\ runPc = "off" /\ pc' = "test"
       \/ pc \in {"startUp", "job"} /\ runPc = "threw" /\ pc' = "threw"
    /\ UNCHANGED <<user, kernel, buffer, good, line, executed, runner>>

StdinThread ==
    \/ TestShellCommand \/ StartPolling \/ ExecuteLine \/ CommandReturns
    \/ (Poll \/ Resume \/ Fill \/ GetLine \/ GetRest \/ GetNothing) /\ UNCHANGED runner
    \/ Runner /\ UNCHANGED vars

StdinNext ==
    \/ StdinThread
    \/ User /\ UNCHANGED runner
    \/ CommandWorld /\ UNCHANGED vars

(* The thread keeps being scheduled, and time passes; the user need not type
   anything, a child need not write or end. *)
StdinSpec ==
    /\ StdinInit /\ [][StdinNext]_all
    /\ WF_all(StdinThread) /\ WF_all(TimePasses /\ UNCHANGED vars)

-----------------------------------------------------------------------------

(* The input ended in the middle of its last line. *)
CutOff == closed /\ (LineOpen \/ (~good /\ line # ""))

(* The commands interpreted are the lines typed, in order, none twice, however
   the lines are cut into reads (541).  The exception is a last line without a
   newline: getline fails from then on, `line` keeps the command, and each poll
   executes it again; an `add` starts a job each time. *)
ExecutedInOrder ==
    \/ IsPrefix(executed, typed)
    \/ CutOff /\ IsPrefix(typed, executed)

(* main.cpp:513 calls inputAvailable a "utility function to avoid blocking on
   cin getline": once getline is called it has a line or the end of file, or
   else half a line of a pipe made select report input. *)
GetlineNeverBlocks ==
    pc = "getline" /\ ~LineOpen =>
        ~good \/ closed \/ Contains(buffer, Newline) \/ kernel # <<>>

(* A capture reads what its own command wrote, and all of it if the command came
   to its end, although WaitForExit was told not to wait (64): the child has gone
   by then.  There may be somebody else's output only under the name that all
   commands share when mkstemp fails, and only a detached command's, whose file
   nobody removed. *)
CaptureReadsOutput ==
    runPc = "read" /\ file \in DOMAIN files =>
        /\ left = {}
        /\ how = "exit" => job \in files[file]
        /\ \A j \in files[file] \ {job} :
              file = FallbackName /\ operation[j] = "detach"

(* Between two commands the temporary files that exist are those of detached
   commands, which nobody removes; those of captures are gone. *)
OnlyDetachedFilesStay ==
    runPc = "off" =>
        \A f \in DOMAIN files :
            f # FallbackName => operation[f] = "detach"

(* quit, typed at a terminal before any end of file, ends the thread, unless a
   command that `add` started never ends, or leaves behind a process that has its
   stderr and never ends: Delete waits for both, with the poller.  Behind an end of
   file quit is never read.  On a pipe a line that arrived with the one before it
   stays in std::cin's buffer, where select does not see it. *)
JobRuns == pc = "job" /\ attached /\ (held \/ (left # {} /\ how = "none"))
QuitEndsPolling ==
    \/ (terminal /\ Contains(typed, "quit")) ~> pc \in {"done", "threw"}
    \/ <>[]JobRuns

=============================================================================
