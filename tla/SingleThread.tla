---------------------------- MODULE SingleThread ----------------------------
(***************************************************************************)
(* The reference program (single_thread.cpp): the lattice is loaded, the   *)
(* solver runs once for every repetition, a new solver each time, and the  *)
(* results are written, one line each, when all have been computed.        *)
(***************************************************************************)
EXTENDS Hamiltonian, SaSolver

CONSTANT NumReps    (* num_rep                                             *)

ASSUME NumRepsAssumption == NumReps \in Nat

ASSUME EnergyUnitAssumption ==
    /\ EnergyUnit \in Nat \ {0}
    /\ \A f \in Files : \A j \in DOMAIN f :
          f[j].kind = "edge" /\ f[j].sites # <<>> => EnergyUnit % Len(f[j].sites) = 0

VARIABLES
    stage,      (* "options", "load", "solve", "write", then "returned"    *)
    rep,        (* i, the repetition                                       *)
    x,          (* x, the results so far                                   *)
    out,        (* the results in the output file                          *)
    opened      (* whether the output file could be opened                 *)

main == <<stage, rep, x, out, opened>>
vars == <<loader, solver, main>>

-----------------------------------------------------------------------------

Init ==
    /\ LoaderInit /\ SolverInit
    /\ stage = "options" /\ rep = 0 /\ x = <<>> /\ out = <<>> /\ opened = FALSE

(* --help ends the program. *)
Options ==
    /\ stage = "options"
    /\ stage' \in {"load", "returned"}
    /\ UNCHANGED <<loader, solver, rep, x, out, opened>>

(* The constructor of H. *)
LoadHamiltonian ==
    /\ stage = "load" /\ Load
    /\ UNCHANGED <<solver, main>>

(* The output file, which nobody checks, with its heading, which is left out. *)
OpenOutput ==
    /\ stage = "load" /\ loading = "built"
    /\ opened' \in BOOLEAN /\ stage' = "solve"
    /\ UNCHANGED <<loader, solver, rep, x, out>>

Repeat ==
    /\ stage = "solve" /\ rep < NumReps
    /\ Start
    /\ UNCHANGED <<file, count, names, edges, loading, main>>

Running ==
    /\ stage = "solve" /\ (Flip \/ Keep)
    /\ UNCHANGED <<file, count, names, edges, loading, main>>

MRunEndsInPlace ==                      \* every repetition has the last one's place
    /\ stage = "solve" /\ Finish
    /\ x' = <<result'>> /\ rep' = rep + 1
    /\ UNCHANGED <<file, count, names, edges, loading, stage, out, opened>>

(* push_back *)
RunEnds ==
    /\ stage = "solve" /\ Finish
    /\ x' = Append(x, result') /\ rep' = rep + 1
    /\ UNCHANGED <<file, count, names, edges, loading, stage, out, opened>>

AllRun ==
    /\ stage = "solve" /\ pc = "idle" /\ rep = NumReps
    /\ stage' = "write"
    /\ UNCHANGED <<loader, solver, rep, x, out, opened>>

(* std::copy writes a line for every result; a file that is not open takes none. *)
Write ==
    /\ stage = "write"
    /\ out' = IF opened THEN x ELSE out
    /\ stage' = "returned"
    /\ UNCHANGED <<loader, solver, rep, x, opened>>

Ended == stage = "returned" \/ loading \in {"threw", "aborted"}
Terminating == Ended /\ UNCHANGED vars

Steps ==
    \/ Options \/ LoadHamiltonian \/ OpenOutput
    \/ Repeat \/ Running \/ RunEnds \/ AllRun \/ Write

Next == Steps \/ Terminating

(* The one thread runs. *)
Spec == Init /\ [][Next]_vars /\ WF_vars(Steps)

-----------------------------------------------------------------------------

(* The energy of a configuration as the file means it: every edge, where it is
   first given, contributes its value times the product of its spins, which are
   -1 and 1. *)
Spin(config, name) == 2 * config[Number(names, name)] - 1
Times(config, line) ==
    LET product[n \in 0 .. Len(line.sites)] ==
            IF n = 0 THEN line.val
            ELSE product[n - 1] * Spin(config, line.sites[n])
    IN product[Len(line.sites)]
FirstLines ==
    {j \in 1 .. count : IsEdge(j) /\ file[j].sites # <<>>
        /\ \A k \in 1 .. (j - 1) :
              IsEdge(k) => Occurrences(file[k].sites) # Occurrences(file[j].sites)}
EnergyInFile(config) ==
    EnergyUnit * Total([j \in 1 .. count |->
                            IF j \in FirstLines THEN Times(config, file[j]) ELSE 0])

(* "The final energy" of "the final spin configuration" (result.hpp): the energy
   that run keeps up to date flip by flip, from the lists that the loader built,
   is at every step the energy that the file gives the current spins, and each
   printed energy that of the printed spins.  The loader also accepts an edge that
   names a site twice; it is listed once there, and the two functions disagree
   about it. *)
EnergyOfFile ==
    (\A j \in 1 .. count : IsEdge(j) => IsInjective(file[j].sites)) =>
        /\ pc = "anneal" => E = EnergyInFile(spins)
        /\ \A r \in Range(x \o out) : r.E = EnergyInFile(r.spins)

(* The program comes to its end, and then every repetition has its line, with one
   spin for every site of the lattice, unless the lattice could not be read or the
   output not opened. *)
Complete ==
    stage = "returned" /\ opened =>
        /\ Len(out) = NumReps
        /\ \A r \in Range(out) : Len(r.spins) = Len(names)
PrintsEveryRepetition == <>[](Ended /\ Complete)

=============================================================================
