---------------------------- MODULE StdinPoller ----------------------------
(***************************************************************************)
(* poll_stdin and inputAvailable of main.cpp: a thread that asks select()  *)
(* whether descriptor 0 is readable, and only then calls std::getline on   *)
(* std::cin.  select sees what is still in the kernel; getline also reads  *)
(* what an earlier read has moved into the buffer of the stream.           *)
(*                                                                         *)
(* A line is its command, then Newline.  `quit` aborts, `add` and `ladd`   *)
(* start a job, `addx` (a count that is no number) throws out of the       *)
(* thread, and `help` stands for every command that does nothing.          *)
(***************************************************************************)
EXTENDS Integers, Sequences, SequencesExt

CONSTANTS
    Newline,
    Commands,       (* the commands that the user types                    *)
    MaxLines        (* bound: how many lines the user types.                *)

ASSUME StdinAssumption ==
    /\ MaxLines \in Nat
    /\ Commands \subseteq {"quit", "add", "ladd", "addx", "help"}
    /\ Newline \notin Commands

VARIABLES
    terminal,   (* stdin is a terminal, which hands over whole lines, one  *)
                (* per read; otherwise a pipe or a file                    *)
    kernel,     (* written to descriptor 0, not yet read                   *)
    closed,     (* the other end is closed; at a terminal: end of file     *)
                (* (Ctrl-D) has been typed, at the beginning of a line     *)
    beyond,     (* at a terminal: something has been typed beyond it       *)
    buffer,     (* std::cin's buffer                                       *)
    good,       (* std::cin.good()                                         *)
    line,       (* the local string of poll_stdin; "" when empty           *)
    pc,         (* "startUp" before hpx_main has started the thread; then  *)
                (* "test", "suspended", "getline", "execute", "job" while  *)
                (* a command runs; "done", "threw"                         *)
    typed,      (* history: the lines typed, up to the end of file         *)
    executed    (* history: the commands interpreted so far                *)

vars == <<terminal, kernel, closed, beyond, buffer, good, line, pc, typed, executed>>
user == <<terminal, closed, beyond, typed>>

-----------------------------------------------------------------------------

Init ==
    /\ terminal \in BOOLEAN
    /\ kernel = <<>> /\ closed = FALSE /\ beyond = FALSE /\ buffer = <<>>
    /\ good = TRUE /\ line = "" /\ pc = "startUp"
    /\ typed = <<>> /\ executed = <<>>

(* Half a line has been written. *)
LineOpen == kernel \o buffer # <<>> /\ Last(buffer \o kernel) # Newline

(* Mutation: no look at the descriptor first. *)
MInputAvailableAlways == TRUE

(* inputAvailable: select() reports data, and end of file: that of a pipe for good,
   that of a terminal until it has been read. *)
InputAvailable ==
    kernel # <<>> \/ IF terminal /\ ~good THEN beyond ELSE closed

(***************************************************************************)
(* The user.                                                               *)
(***************************************************************************)

(* A terminal delivers a line with its newline, a pipe may split them. *)
Type(cmd) ==
    /\ ~closed /\ Len(typed) < MaxLines /\ ~LineOpen
    /\ kernel' = kernel \o (IF terminal THEN <<cmd, Newline>> ELSE <<cmd>>)
    /\ typed' = Append(typed, cmd)
    /\ UNCHANGED <<terminal, closed, beyond, buffer, good, line, pc, executed>>

EndLine ==
    /\ ~closed /\ LineOpen
    /\ kernel' = Append(kernel, Newline)
    /\ UNCHANGED <<user, buffer, good, line, pc, executed>>

(* A pipe may end without a newline. *)
Close ==
    /\ ~closed
    /\ closed' = TRUE
    /\ UNCHANGED <<terminal, kernel, beyond, buffer, good, line, pc, typed, executed>>

(* A terminal is not closed by an end of file: the user may go on typing.  But
   std::cin has failed once it has read the end of file, and nothing clears that. *)
TypeMore ==
    /\ terminal /\ closed
    /\ beyond' = TRUE
    /\ UNCHANGED <<terminal, kernel, closed, buffer, good, line, pc, typed, executed>>

(***************************************************************************)
(* poll_stdin.                                                             *)
(***************************************************************************)

(* hpx::apply(poll_stdin). *)
Apply ==
    /\ pc = "startUp"
    /\ pc' = "test"
    /\ UNCHANGED <<user, kernel, buffer, good, line, executed>>

(* Mutation: the line is interpreted whether or not one was read. *)
MPollRepeats ==
    /\ pc = "test"
    /\ pc' = IF InputAvailable THEN "getline" ELSE "execute"
    /\ UNCHANGED <<user, kernel, buffer, good, line, executed>>

(* while (hpx::is_running() && !abort): the runtime runs as long as this thread
   has not applied quit. *)
Poll ==
    /\ pc = "test"
    /\ pc' = IF InputAvailable THEN "getline" ELSE "suspended"
    /\ UNCHANGED <<user, kernel, buffer, good, line, executed>>

(* hpx::this_thread::suspend(500) is over. *)
Resume ==
    /\ pc = "suspended"
    /\ pc' = "test"
    /\ UNCHANGED <<user, kernel, buffer, good, line, executed>>

(* getline finds no newline in the buffer and reads; it blocks while there is
   nothing to read. *)
Fill ==
    /\ pc = "getline" /\ good
    /\ ~Contains(buffer, Newline) /\ kernel # <<>>
    /\ LET n == IF terminal THEN SelectInSeq(kernel, LAMBDA c : c = Newline)
                            ELSE Len(kernel) IN
       /\ buffer' = buffer \o SubSeq(kernel, 1, n)
       /\ kernel' = SubSeq(kernel, n + 1, Len(kernel))
    /\ UNCHANGED <<user, good, line, pc, executed>>

(* A complete line. *)
GetLine ==
    /\ pc = "getline" /\ good
    /\ Contains(buffer, Newline)
    /\ LET n == SelectInSeq(buffer, LAMBDA c : c = Newline) IN
       /\ line' = IF n = 1 THEN "" ELSE buffer[n - 1]
       /\ buffer' = SubSeq(buffer, n + 1, Len(buffer))
    /\ pc' = "execute"
    /\ UNCHANGED <<user, kernel, good, executed>>

(* End of file: what is left is the line, and the stream is no longer good. *)
GetRest ==
    /\ pc = "getline" /\ good
    /\ ~Contains(buffer, Newline) /\ kernel = <<>> /\ closed
    /\ line' = IF buffer = <<>> THEN "" ELSE Head(buffer)
    /\ buffer' = <<>> /\ good' = FALSE
    /\ pc' = "execute"
    /\ UNCHANGED <<user, kernel, executed>>

(* The stream is not good: getline returns at once and leaves `line` alone. *)
GetNothing ==
    /\ pc = "getline" /\ ~good
    /\ pc' = "execute"
    /\ UNCHANGED <<user, kernel, buffer, good, line, executed>>

(* Mutation: quit does not leave the loop. *)
MExecuteNoBreak ==
    /\ pc = "execute" /\ Len(executed) <= MaxLines
    /\ executed' = IF line = "" THEN executed ELSE Append(executed, line)
    /\ pc' = CASE line = "addx" -> "threw"
               [] line \in {"add", "ladd"} -> "job"
               [] OTHER -> "test"
    /\ UNCHANGED <<user, kernel, buffer, good, line>>

(* The command is interpreted.  quit aborts the solver and leaves the loop; add
   calls ExecuteAndCapture and ladd ExecuteAndDetach; boost::lexical_cast throws on
   a count that is no number. *)
Execute ==
    /\ pc = "execute" /\ Len(executed) <= MaxLines
    /\ executed' = IF line = "" THEN executed ELSE Append(executed, line)
    /\ pc' = CASE line = "quit" -> "done"
               [] line = "addx" -> "threw"
               [] line \in {"add", "ladd"} -> "job"
               [] OTHER -> "test"
    /\ UNCHANGED <<user, kernel, buffer, good, line>>

User == (\E cmd \in Commands : Type(cmd)) \/ EndLine \/ Close \/ TypeMore

Poller == Poll \/ Resume \/ Fill \/ GetLine \/ GetRest \/ GetNothing \/ Execute

=============================================================================
