--------------------------- MODULE MCSingleThread ---------------------------
(* Small lattice files for SingleThread. *)
EXTENDS SingleThread, SequencesExt

CONSTANTS a, b, c

Edge(sites, val) == [kind |-> "edge", sites |-> sites, val |-> val]
Other == [kind |-> "other"]
Bad == [kind |-> "bad"]

(* All files of at most two lines over two sites. *)
Lines ==
    {Other, Bad} \cup {Edge(sites, val) : sites \in BoundedSeq({a, b}, 2),
                                          val \in {-1, 0, 2}}
ShortFiles == BoundedSeq(Lines, 2)

(* A frustrated triangle, a chain in a field, a three-body coupling with a pair,
   and the same edge three times, in other orders, between others. *)
LongFiles ==
    { <<Edge(<<a, b>>, 1), Edge(<<b, c>>, 1), Edge(<<a, c>>, -1)>>,
      <<Edge(<<a, b>>, -1), Other, Edge(<<b, c>>, 2), Edge(<<b>>, 1)>>,
      <<Edge(<<a, b, c>>, 1), Edge(<<c, a>>, -2), Edge(<<c, b, a>>, 3)>>,
      <<Edge(<<b, a>>, 2), Edge(<<c, a>>, 1), Edge(<<a, b>>, -1),
        Edge(<<b, c>>, 0), Edge(<<b, a>>, 1), Bad>> ,
      <<Edge(<<b, a>>, 2), Edge(<<c, a>>, 1), Edge(<<a, b>>, -1), Edge(<<b, a>>, 1)>> }

MCFiles == ShortFiles \cup LongFiles
MCSweeps == {0, 1, 2}
=============================================================================
