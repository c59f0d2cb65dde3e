--------------------------- MODULE MCRepositories ---------------------------
(* Instances of Repositories for TLC.                                      *)
EXTENDS Repositories, TLC

CONSTANTS a1, a2, t1, t2, t3, q1, q2

Symmetry == Permutations(Requests) \cup Permutations(Accounts)
              \cup Permutations(Tokens)

File(path, size) == [path |-> path, size |-> size, safe |-> TRUE]

Whole == <<File("x", 1), File("y", 1)>>
Many == <<File("x", 0), File("x", 0), File("y", 0)>>
Large == <<File("x", 1), File("y", 2)>>
Outside == <<File("x", 1), [path |-> "y", size |-> 0, safe |-> FALSE]>>
Text == <<[path |-> "z", size |-> 0, safe |-> FALSE]>>

AllPaths == {"x", "y", "z"}
AllArchives == {<<>>, Whole, Many, Large, Outside, Text}
NoArchives == {Text}

\* Below, at and above the limit of a listing.
AllSizes == {0, 4, 5}

EachOnce == [d \in Disturbances |-> 1]
=============================================================================
