------------------------------ MODULE CodeGraph ------------------------------
(***************************************************************************)
(* The references between the files of a scan: what DependencyExtractor    *)
(* makes of them, the rows they become and the graph they are shown as.    *)
(*                                                                         *)
(* A path is a sequence of segments [stem, ext]; ext is what follows the   *)
(* last dot.  A reference is a record [kind, local, up, down]: an import   *)
(* or export of "../" up times and then down; a package, a class or a      *)
(* method is not local and only named by down.  Code is a function from    *)
(* paths to sets of references.                                            *)
(***************************************************************************)
EXTENDS Naturals, Sequences, SequencesExt

\* A sequence of segments.
IsPath(path) ==
  /\ path \in Seq(Range(path))
  /\ \A x \in Range(path) : x = [stem |-> x.stem, ext |-> x.ext]

\* RESOLVABLE_EXTENSIONS, in their order.
Extensions == <<"ts", "tsx", "js", "jsx">>

\* getSpecifierCandidates.  A last segment with a dot is taken for a file name
\* as it stands; the root itself matches no path.
Candidates(base) ==
  IF base = <<>> THEN <<>>
  ELSE IF Last(base).ext # "" THEN <<base>>
  ELSE [i \in DOMAIN Extensions |->
          Append(Front(base), [Last(base) EXCEPT !.ext = Extensions[i]])]
       \o [i \in DOMAIN Extensions |->
             Append(base, [stem |-> "index", ext |-> Extensions[i]])]

\* resolveRelativeSpecifier: a path of the scan, <<>> for none.
ResolveRelativeSpecifier(path, ref, paths) ==
  LET dir == Front(path)
      base == SubSeq(dir, 1, Len(dir) - ref.up) \o ref.down
      candidates == Candidates(base)
      hit == SelectInSeq(candidates, LAMBDA c : c \in paths)
  IN  IF ref.local /\ ref.up <= Len(dir) /\ hit # 0 THEN candidates[hit]
      ELSE <<>>

\* extract: class relations and method calls are never local here.
Dependencies(code) ==
  UNION {{[source |-> p, ref |-> ref,
           target |-> ResolveRelativeSpecifier(p, ref, DOMAIN code)] :
             ref \in code[p]} : p \in DOMAIN code}

-----------------------------------------------------------------------------
(* Rows.  The rows of a file are named by its writer and its path.         *)

FileRows(writer, code) == {<<writer, p>> : p \in DOMAIN code}

DependencyRows(writer, code) ==
  {[from |-> <<writer, d.source>>, ref |-> d.ref,
    to |-> IF d.target = <<>> THEN <<>> ELSE <<writer, d.target>>] :
     d \in Dependencies(code)}

\* The unique index on scan and path.
SharePath(rows, others) == \E f \in rows, g \in others : f[2] = g[2]

-----------------------------------------------------------------------------
(* The graph of a set of dependency rows.                                  *)

\* createExternalNodeId: by the specifier alone.
External(ref) == <<ref.local, ref.up, ref.down>>

\* toEdge.
Edge(row) ==
  <<row.from, IF row.to = <<>> THEN External(row.ref) ELSE row.to>>

Edges(rows) == {Edge(row) : row \in rows}

=============================================================================
