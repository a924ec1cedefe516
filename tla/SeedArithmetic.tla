--------------------------- MODULE SeedArithmetic ---------------------------
(***************************************************************************)
(* From a repetition number to the stream of random numbers its annealing  *)
(* run uses: local_seed_offset and the launch loop of spawn, the `int`     *)
(* parameter of run_one_action, the std::size_t parameter of run, and      *)
(* std::minstd_rand0::seed; beside it the loop of the reference program    *)
(* single_thread.cpp.  Only rank 0 calls spawn, so _rank is 0.             *)
(*                                                                         *)
(* The widths are a parameter.  In the program int has 32 bits, so HalfMod *)
(* is 2^31, uint64_t and size_t have 64, and minstd_rand0's modulus is     *)
(* 2^31 - 1.                                                               *)
(***************************************************************************)
EXTENDS Integers, Sequences

CONSTANTS
    HalfMod,        (* half the range of int; std::size_t has twice as      *)
                    (* many bits                                            *)
    MaxReps,        (* largest num_reps considered                          *)
    MaxRanks        (* largest _nranks considered                           *)

ASSUME WidthAssumption == HalfMod \in Nat /\ HalfMod >= 2
ASSUME BoundsAssumption == MaxReps \in Nat /\ MaxRanks \in Nat

IntMod  == 2 * HalfMod
SizeMod == IntMod * IntMod
Modulus == HalfMod - 1

(* hpx_main calls setSolverIds with an empty vector right before spawn, so that
   _nranks is 0 unless a new locality is listed between the two calls. *)
VARIABLES
    nranks,     (* _nranks when spawn starts                               *)
    numReps,    (* num_reps                                                *)
    offset,     (* local_seed_offset                                       *)
    launched    (* stream of each repetition launched so far, in order     *)

vars == <<nranks, numReps, offset, launched>>

-----------------------------------------------------------------------------

(* Conversions: to uint64_t or size_t, to int (two's complement). *)
ToSize(x) == x % SizeMod
ToInt(x)  == ((x + HalfMod) % IntMod) - HalfMod

(* linear_congruential_engine::seed with increment 0: the state modulo m, and
   1 in place of 0.  Equal states give equal streams. *)
SeedState(s) == IF s % Modulus = 0 THEN 1 ELSE s % Modulus

(* _rank*std::ceil(num_required_threads/_nranks), converted to int.  With
   _nranks = 0 the product is 0*inf = NaN (0*NaN when num_reps is 0), whose
   conversion is undefined: x86 gives the smallest int, ARM gives 0. *)
LocalSeedOffsets(n) == IF n = 0 THEN {-HalfMod, 0} ELSE {0}

(* Mutation: the offset of the next rank is used. *)
MStreamOfNextRank(k) == SeedState(ToSize(ToInt(ToSize(k + offset + numReps))))

(* Repetition k as spawn launches it: seed + local_seed_offset as uint64_t, the
   action's int, run's size_t, the generator's state. *)
Stream(k) == SeedState(ToSize(ToInt(ToSize(k + offset))))

(* Repetition i of the reference program: an int passed to run. *)
ReferenceStream(i) == SeedState(ToSize(i))

Init ==
    /\ nranks \in 0 .. MaxRanks
    /\ numReps \in 0 .. MaxReps
    /\ offset \in LocalSeedOffsets(nranks)
    /\ launched = <<>>

(* Mutation: seed is not incremented. *)
MLaunchSameSeed ==
    /\ Len(launched) < numReps
    /\ launched' = Append(launched, Stream(0))
    /\ UNCHANGED <<nranks, numReps, offset>>

Launch ==
    /\ Len(launched) < numReps
    /\ launched' = Append(launched, Stream(Len(launched)))
    /\ UNCHANGED <<nranks, numReps, offset>>

Done ==
    /\ Len(launched) = numReps
    /\ UNCHANGED vars

Next == Launch \/ Done

Spec == Init /\ [][Next]_vars

-----------------------------------------------------------------------------

(* The stream of repetition k sits at position k + 1. *)
LaunchedReps == 0 .. (Len(launched) - 1)

(* How far the offset moves the streams on: the smallest int, as a size_t, is 3
   above a multiple of the modulus. *)
Shift == IF offset = 0 THEN 0 ELSE 3

(* The distributed program goes through the streams of single_thread.cpp one by
   one, as far as an int counts: from the first on, or from the fourth on where
   the offset is a NaN that became the smallest int.  No NaN or wrap-around in
   double, int, uint64_t and size_t leads anywhere else.  "Seed of SA is the
   repetition number", says main.cpp:449; that is so in the first case only. *)
SameAsReference ==
    \A k \in LaunchedReps :
        k < HalfMod => launched[k + 1] = ReferenceStream(k + Shift)

(* Among the first 2^31 - 1 repetitions two share a stream only because state 0
   is replaced by 1: they are neighbours, at most one pair of them collides, and
   with offset 0 it is the first two. *)
OnlyNeighboursCollide ==
    \A j, k \in LaunchedReps :
        j < k /\ k < Modulus /\ launched[j + 1] = launched[k + 1]
            => /\ k = j + 1 /\ launched[k + 1] = 1
               /\ offset = 0 => j = 0

=============================================================================
