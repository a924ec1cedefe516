------------------------------ MODULE SaSolver ------------------------------
(***************************************************************************)
(* sa_solver::run: simulated annealing on one Hamiltonian.  The draws of   *)
(* the generator are nondeterministic; energies are integers, counted in   *)
(* units of 1/EnergyUnit so that compute_energy's division by the number   *)
(* of sites of an edge is exact.                                           *)
(***************************************************************************)
EXTENDS HamiltonianGraph

CONSTANTS
    Sweeps,     (* values of Ns considered                                 *)
    EnergyUnit  (* multiple of every edge's number of sites                *)

ASSUME SweepsAssumption == Sweeps \subseteq Nat

VARIABLES
    Ns,         (* number of sweeps                                        *)
    spins,      (* spins_                                                  *)
    E,          (* E, in units of 1/EnergyUnit                             *)
    s, i,       (* loop counters: sweep, site (from 1)                     *)
    pc,         (* "idle", or "anneal" in run                              *)
    result      (* the last result: E_ and spins_                          *)

solver == <<Ns, spins, E, s, i, pc, result>>

-----------------------------------------------------------------------------

N == Len(nodes)
Node(a) == nodes[a]

(* The sum of a sequence of integers. *)
Total(f) ==
    LET sum[n \in 0 .. Len(f)] == IF n = 0 THEN 0 ELSE sum[n - 1] + f[n]
    IN sum[Len(f)]

(* tmp: the exclusive or of the spins of an edge. *)
Parity(config, edge) ==
    Total([k \in DOMAIN edge.sites |-> config[edge.sites[k]]]) % 2

(* (2*int(size%2) - 1): the sign convention for odd and even edges. *)
Sign(edge) == 2 * (Len(edge.sites) % 2) - 1

(* compute_energy: every edge counts once at each of its sites, there with its
   share. *)
Share(config, edge) ==
    (2 * Parity(config, edge) - 1) * edge.val * Sign(edge)
        * (EnergyUnit \div Len(edge.sites))
ComputeEnergy(config) ==
    Total([a \in 1 .. N |->
              Total([k \in DOMAIN Node(a) |-> Share(config, Node(a)[k])])])

Change(edge) == (1 - 2 * Parity(spins, edge)) * edge.val * Sign(edge)

MDeltaEnergyHalf(ind) ==                \* the factor two is forgotten
    EnergyUnit * Total([k \in DOMAIN Node(ind) |-> Change(Node(ind)[k])])

(* delta_energy *)
DeltaEnergy(ind) ==
    2 * EnergyUnit * Total([k \in DOMAIN Node(ind) |-> Change(Node(ind)[k])])

(* beta is not a number where (beta1-beta0)/(Ns-1)*s divides by zero and then
   multiplies by zero: the quotient is infinite or already not a number. *)
BetaIsNaN == Ns - 1 = 0 /\ s = 0

(* The draw against exp(-beta*dE) may go either way, but is not less than NaN. *)
MayClimb == ~ BetaIsNaN

SolverInit ==
    /\ Ns \in Sweeps
    /\ spins = <<>>
    /\ E = 0 /\ s = 0 /\ i = 1
    /\ pc = "idle"
    /\ result = [E |-> 0, spins |-> <<>>]

(* Entry: N random spins are appended to spins_, the energy is computed. *)
Start ==
    /\ pc = "idle"
    /\ \E random \in [1 .. N -> {0, 1}] : spins' = spins \o random
    /\ E' = ComputeEnergy(spins')
    /\ s' = 0 /\ i' = 1
    /\ pc' = "anneal"
    /\ UNCHANGED <<nodes, Ns, result>>

MNextSiteAgain ==                       \* the sweep is not counted
    IF i < N THEN i' = i + 1 /\ s' = s ELSE i' = 1 /\ s' = s

NextSite ==
    IF i < N THEN i' = i + 1 /\ s' = s ELSE i' = 1 /\ s' = s + 1

(* The body of the site loop: the spin is flipped, or it is not. *)
Flip ==
    /\ pc = "anneal" /\ s < Ns /\ N > 0
    /\ DeltaEnergy(i) <= 0 \/ MayClimb
    /\ spins' = [spins EXCEPT ![i] = 1 - @]
    /\ E' = E + DeltaEnergy(i)
    /\ NextSite
    /\ UNCHANGED <<nodes, Ns, pc, result>>

Keep ==
    /\ pc = "anneal" /\ s < Ns /\ N > 0
    /\ DeltaEnergy(i) > 0
    /\ NextSite
    /\ UNCHANGED <<nodes, Ns, spins, E, pc, result>>

(* The result takes the energy, and swaps its empty vector for the spins. *)
Finish ==
    /\ pc = "anneal" /\ (s >= Ns \/ N = 0)
    /\ result' = [E |-> E, spins |-> spins]
    /\ spins' = <<>>
    /\ pc' = "idle"
    /\ UNCHANGED <<nodes, Ns, E, s, i>>

=============================================================================
