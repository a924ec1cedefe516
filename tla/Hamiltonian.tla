---------------------------- MODULE Hamiltonian ----------------------------
(***************************************************************************)
(* The constructor of hamiltonian_type: one step per line of the lattice   *)
(* file, then the adjacency lists are built.  A line is one of             *)
(*   [kind |-> "other"]     no space in it, or a '#' somewhere: skipped;   *)
(*   [kind |-> "bad"]       its last token is not a number: std::stod      *)
(*                          throws;                                        *)
(*   [kind |-> "edge", sites, val]   the sites' names and the value.       *)
(***************************************************************************)
EXTENDS HamiltonianGraph

CONSTANTS
    Names,      (* names of sites that occur in a file                     *)
    Files       (* the files that may be given: sequences of lines         *)

ASSUME FilesAssumption ==
    \A f \in Files :
        f \in Seq([kind : {"other", "bad"}]
                     \cup [kind : {"edge"}, sites : Seq(Names), val : Int])

VARIABLES
    file,       (* the file given                                          *)
    count,      (* count: how many of its lines have been read             *)
    names,      (* index: the name of each site, in order of number        *)
    edges,      (* edges                                                   *)
    loading     (* "opening", "reading", then "built", "threw" or, by a    *)
                (* failed assertion, "aborted"                             *)

loader == <<file, count, names, edges, nodes, loading>>

-----------------------------------------------------------------------------

(* index after the sites of a line have been looked up. *)
Indexed(ns, sites) ==
    LET index[k \in 0 .. Len(sites)] ==
            IF k = 0 THEN ns
            ELSE IF sites[k] \in Range(index[k - 1]) THEN index[k - 1]
            ELSE Append(index[k - 1], sites[k])
    IN index[Len(sites)]

Number(ns, site) == CHOOSE i \in DOMAIN ns : ns[i] = site

(* std::sort *)
Sorted(seq) ==
    LET order == CHOOSE p \in Bijection(DOMAIN seq, DOMAIN seq) :
                    \A j, k \in DOMAIN seq : j < k => seq[p[j]] <= seq[p[k]]
    IN [k \in DOMAIN seq |-> seq[order[k]]]

(* edge.first: the numbers of the sites, sorted. *)
Sites(ns, sites) == Sorted([k \in DOMAIN sites |-> Number(ns, sites[k])])

LoaderInit ==
    /\ file \in Files
    /\ count = 0 /\ names = <<>> /\ edges = <<>> /\ nodes = <<>>
    /\ loading = "opening"

(* If there is no such file the assertion fails or, where it is compiled out,
   the lattice is empty. *)
Open ==
    /\ loading = "opening"
    /\ \/ loading' = "reading" /\ file' = file
       \/ loading' = "aborted" /\ file' = <<>>
       \/ loading' = "reading" /\ file' = <<>>
    /\ UNCHANGED <<count, names, edges, nodes>>

(* The next line, while there is one. *)
Line == file[count + 1]
ReadLine ==
    /\ loading = "reading" /\ count < Len(file)
    /\ count' = count + 1
    /\ UNCHANGED <<file, nodes>>

(* Lines that leave no trace: comments, and edges of value zero, whose sites do
   not even get a number. *)
SkipLine ==
    /\ ReadLine
    /\ \/ Line.kind = "other"
       \/ Line.kind = "edge" /\ Line.val = 0
    /\ UNCHANGED <<names, edges, loading>>

MReadEdgeLastWins ==                    \* the last of several equal edges wins
    /\ ReadLine
    /\ Line.kind = "edge" /\ Line.val # 0
    /\ names' = Indexed(names, Line.sites)
    /\ LET sites == Sites(names', Line.sites) IN
       edges' = Append(SelectSeq(edges, LAMBDA e : e.sites # sites),
                       [sites |-> sites, val |-> Line.val])
    /\ UNCHANGED loading

(* A new edge is kept; one on the same sites as an earlier edge is dropped with
   a warning, in whatever order the line names them. *)
ReadEdge ==
    /\ ReadLine
    /\ Line.kind = "edge" /\ Line.val # 0
    /\ names' = Indexed(names, Line.sites)
    /\ LET sites == Sites(names', Line.sites) IN
       edges' = IF \E e \in Range(edges) : e.sites = sites THEN edges
                ELSE Append(edges, [sites |-> sites, val |-> Line.val])
    /\ UNCHANGED loading

(* std::stod throws out of the constructor, and nothing catches it. *)
BadLine ==
    /\ ReadLine
    /\ Line.kind = "bad"
    /\ loading' = "threw"
    /\ UNCHANGED <<names, edges>>

(* End of file. *)
Build ==
    /\ loading = "reading" /\ count = Len(file)
    /\ nodes' = NodesOf(edges, Len(names))
    /\ loading' = "built"
    /\ UNCHANGED <<file, count, names, edges>>

Load == Open \/ SkipLine \/ ReadEdge \/ BadLine \/ Build

-----------------------------------------------------------------------------

(* How often each name occurs: two lines denote the same edge when they agree
   here. *)
Occurrences(sites) ==
    [n \in Names |-> Cardinality({i \in DOMAIN sites : sites[i] = n})]

IsEdge(i) == file[i].kind = "edge" /\ file[i].val # 0

(* Reference: the first line of each edge gives its value. *)
Meant ==
    {[sites |-> Occurrences(file[i].sites), val |-> file[i].val] :
        i \in {j \in 1 .. count :
                  /\ IsEdge(j)
                  /\ \A k \in 1 .. (j - 1) : IsEdge(k) =>
                        Occurrences(file[k].sites) # Occurrences(file[j].sites)}}

(* The file's meaning survives numbering, sorting and duplicate removal: the
   stored edges, read back through the index, are exactly the meant ones, each
   once (lines 21-60 of hamiltonian.cpp). *)
KeepsFirstOfEachEdge ==
    LET name(e) == [i \in DOMAIN e.sites |-> names[e.sites[i]]] IN
    loading # "threw" =>
        /\ {[sites |-> Occurrences(name(e)), val |-> e.val] : e \in Range(edges)}
              = Meant
        /\ Len(edges) = Cardinality(Meant)

(* Every edge is listed exactly once at each site it touches, and every site has
   an edge: compute_energy divides by the number of sites of an edge, so it
   relies on the first; a site without edges would be a free spin. *)
AdjacencyExact ==
    loading = "built" =>
        /\ DOMAIN nodes = 1 .. Len(names)
        /\ \A a \in DOMAIN nodes :
              /\ nodes[a] # <<>>
              /\ \A e \in Range(edges) :
                    Cardinality({i \in DOMAIN nodes[a] : nodes[a][i] = e})
                        = (IF a \in Range(e.sites) THEN 1 ELSE 0)

=============================================================================
