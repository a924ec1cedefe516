---------------------------- MODULE ChildProcess ----------------------------
(***************************************************************************)
(* What kwsys_Process.h promises the client of a process object, however   *)
(* the platform implements it: every execution comes to one answer, which  *)
(* GetState then gives; an attached execution leaves no child behind when  *)
(* it is answered; and the answer is true.                                 *)
(***************************************************************************)

CONSTANTS
    Children,   (* the processes of the pipeline                           *)
    LastChild   (* the last one, whose end is the answer                   *)

VARIABLES
    answer,     (* GetState: "Starting" before the first execution,        *)
                (* "Executing", then how it ended; "creating" while        *)
                (* Execute is called, "deleted" once the object is freed   *)
    attached,   (* OptionDetach is not set                                 *)
    left,       (* the attached children that have not been waited for     *)
    how,        (* how the last attached child ended                       *)
    asked,      (* the client has called Kill                              *)
    late        (* the timeout of the process has passed                   *)

vars == <<answer, attached, left, how, asked, late>>

Pending == answer \in {"creating", "Executing"}

Init ==
    /\ answer = "Starting"
    /\ attached \in BOOLEAN
    /\ left = {} /\ how = "none"
    /\ asked = FALSE /\ late = FALSE

(* kwsysProcess_Execute; it may fail at once. *)
Begin ==
    /\ ~Pending /\ answer # "deleted"
    /\ answer' \in {"creating", "Error"}
    /\ left' = {} /\ how' = "none"
    /\ asked' = FALSE /\ late' = FALSE
    /\ UNCHANGED attached

(* A child is started. *)
Start ==
    /\ answer = "creating" /\ attached /\ how = "none"
    /\ \E c \in Children \ left : left' = left \cup {c}
    /\ UNCHANGED <<answer, attached, how, asked, late>>

(* Execute succeeds: all children have been started, and exec has not failed in
   the last one. *)
Started ==
    /\ answer = "creating"
    /\ attached => left = Children /\ how # "exit1"
    /\ answer' = "Executing"
    /\ UNCHANGED <<attached, left, how, asked, late>>

(* Execute fails: no child is left. *)
Fail ==
    /\ answer = "creating" /\ left = {}
    /\ answer' = "Error"
    /\ UNCHANGED <<attached, left, how, asked, late>>

(* The last child ends by itself; with "exit1" if it cannot exec. *)
End ==
    /\ Pending /\ left # {} /\ how = "none"
    /\ how' \in {"exit", "signal"} \cup (IF answer = "creating" THEN {"exit1"} ELSE {})
    /\ UNCHANGED <<answer, attached, left, asked, late>>

(* A child is waited for; a living one is killed first. *)
Reap ==
    /\ Pending
    /\ \E c \in left : /\ left' = left \ {c}
                       /\ how' = IF c = LastChild /\ how = "none" THEN "sigkill" ELSE how
    /\ UNCHANGED <<answer, attached, asked, late>>

(* kwsysProcess_Kill. *)
AskKill ==
    /\ answer = "Executing" /\ asked' = TRUE
    /\ UNCHANGED <<answer, attached, left, how, late>>

TimePasses ==
    /\ answer = "Executing" /\ late' = TRUE
    /\ UNCHANGED <<answer, attached, left, how, asked>>

(* The answer, which is so.  Once the client has called Kill, a timeout is no
   longer the answer, even if it came first. *)
Answer ==
    /\ answer = "Executing" /\ left = {}
    /\ \/ answer' = "Exited" /\ (attached => how = "exit")
       \/ answer' = "Exception" /\ (attached => how = "signal")
       \/ answer' = "Killed" /\ asked
       \/ answer' = "Expired" /\ late /\ ~asked
       \/ answer' = "Disowned" /\ ~attached
       \/ answer' = "Error"
    /\ UNCHANGED <<attached, left, how, asked, late>>

(* kwsysProcess_Delete, which ends an execution first. *)
Free ==
    /\ answer \notin {"creating", "deleted"} /\ left = {}
    /\ answer' = "deleted"
    /\ UNCHANGED <<attached, left, how, asked, late>>

Next ==
    \/ Begin \/ Start \/ Started \/ Fail \/ End \/ Reap \/ AskKill \/ TimePasses
    \/ Answer \/ Free

Spec == Init /\ [][Next]_vars

-----------------------------------------------------------------------------

(* No child of an attached execution is left when the execution is answered, or
   when Execute has failed half way ("Child has terminated or was not running",
   says kwsys_Process.h where WaitForExit returns 1). *)
NoChildLeft == ~Pending => left = {}

(* The answer is what happened, as the list of states at GetState has it: Exited and
   Exception tell how the last attached child ended by itself, Killed comes only
   after a Kill, Expired only after a timeout and never after a Kill, Disowned only
   to detached children. *)
AnswerIsTrue ==
    /\ answer = "Exited" /\ attached => how = "exit"
    /\ answer = "Exception" /\ attached => how = "signal"
    /\ answer = "Killed" => asked
    /\ answer = "Expired" => late /\ ~asked
    /\ answer = "Disowned" => ~attached

=============================================================================
