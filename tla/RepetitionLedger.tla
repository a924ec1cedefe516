-------------------------- MODULE RepetitionLedger --------------------------
(***************************************************************************)
(* What wrapped_solver_class::spawn promises its caller: repetitions are   *)
(* numbered 0, 1, 2, ... as they are launched, each finishes at most once, *)
(* the result of a finished one is collected at most once, and once the    *)
(* ledger is closed (spawn has returned or thrown) the collection is       *)
(* final.  It promises neither an order of the results nor, after an abort,*)
(* that every launched repetition is among them.                           *)
(***************************************************************************)
EXTENDS Integers, Sequences, Functions

CONSTANT NumReps    (* How many repetitions spawn was asked for. *)

VARIABLES
    launched,   (* repetitions sent to a solver                       *)
    finished,   (* repetitions whose run_one returned a value         *)
    collected,  (* the result vector, as repetition numbers           *)
    closed      (* spawn has left                                     *)

vars == <<launched, finished, collected, closed>>

Init ==
    /\ launched = {} /\ finished = {}
    /\ collected = <<>>
    /\ closed = FALSE

Launch(k) ==
    /\ ~closed
    /\ launched = 0 .. (k - 1)
    /\ launched' = 0 .. k
    /\ UNCHANGED <<finished, collected, closed>>

(* A solver may outlive spawn: it finishes what it was sent. *)
Finish(k) ==
    /\ k \in launched \ finished
    /\ finished' = finished \cup {k}
    /\ UNCHANGED <<launched, collected, closed>>

Collect(k) ==
    /\ ~closed
    /\ k \in finished \ Range(collected)
    /\ collected' = Append(collected, k)
    /\ UNCHANGED <<launched, finished, closed>>

Close ==
    /\ ~closed /\ closed' = TRUE
    /\ UNCHANGED <<launched, finished, collected>>

Next ==
    \/ \E k \in 0 .. (NumReps - 1) : Launch(k) \/ Finish(k) \/ Collect(k)
    \/ Close

Spec == Init /\ [][Next]_vars

=============================================================================
