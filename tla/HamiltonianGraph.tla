-------------------------- MODULE HamiltonianGraph --------------------------
(***************************************************************************)
(* The interaction graph of a spin glass as hamiltonian_type stores it.    *)
(* An edge is the sorted sequence of the sites it couples and its value;   *)
(* sites are numbered from 1 here, from 0 in the code.                     *)
(***************************************************************************)
EXTENDS Integers, Sequences, FiniteSets, Functions

VARIABLE nodes      (* nodes_: the edges of each site                      *)

MAddEdge(lists, edge) ==                \* once per occurrence of a site
    [a \in DOMAIN lists |->
        lists[a] \o [k \in 1 .. Cardinality({j \in DOMAIN edge.sites :
                                                edge.sites[j] = a}) |-> edge]]

(* The inner loop of the constructor: the edge goes to each of its sites, once
   (edge_sets[a] holds the marks of the edges site a already has). *)
AddEdge(lists, edge) ==
    [a \in DOMAIN lists |->
        IF a \in Range(edge.sites) /\ \A e \in Range(lists[a]) : e.sites # edge.sites
        THEN Append(lists[a], edge) ELSE lists[a]]

(* nodes_ for the given edges on n sites. *)
NodesOf(edges, n) ==
    LET after[k \in 0 .. Len(edges)] ==
            IF k = 0 THEN [a \in 1 .. n |-> <<>>] ELSE AddEdge(after[k - 1], edges[k])
    IN after[Len(edges)]

=============================================================================
