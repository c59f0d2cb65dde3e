---------------------------- MODULE ApiContracts ----------------------------
(***************************************************************************)
(* Comparing two scans of an API: schema and contract differences, risk,   *)
(* versions, and the matching of the routes of two scans.                  *)
(*                                                                         *)
(* A contract is a record                                                  *)
(*   [method, path, place, auth, guards, params, request, response].       *)
(* auth stands for authRequired and the roles, guards for the names of     *)
(* guards and middleware, place for what a client does not see (file,      *)
(* line, controller, handler, type name, confidence, the order of roles    *)
(* and parameters).  The framework is one, and the status code follows     *)
(* from the method.  params are the query parameters, a function from      *)
(* their names to [type, required] where type stands for the schema; path  *)
(* parameters follow from the path.  request and response are the schemas  *)
(* of the bodies, written flat: a function from field paths to             *)
(* [type, format, required].  The path <<>> is the body itself, Item is    *)
(* the path element of an array's items, a null schema is the function     *)
(* with the empty domain.                                                  *)
(***************************************************************************)
EXTENDS Naturals, Sequences, FiniteSets, Functions

Item == "[]"

Parent(p) == SubSeq(p, 1, Len(p) - 1)
Above(p) == {SubSeq(p, 1, n) : n \in 0..(Len(p) - 1)}

\* A null body, or null items of an array, are compared as a whole.
IsWhole(p) == p = <<>> \/ p[Len(p)] = Item

Fields(schema) == DOMAIN schema

\* A schema is a tree, and only properties are required.
IsSchema(schema) ==
  \A p \in Fields(schema) :
    /\ p \in Seq(Range(p)) /\ Above(p) \subseteq Fields(schema)
    /\ IsWhole(p) => ~schema[p].required

\* The comparison descends to a path as long as both schemas have the same
\* type all the way.
Reached(p, old, new) ==
  \A a \in Above(p) :
    /\ a \in Fields(old) \cap Fields(new)
    /\ old[a].type = new[a].type

\* collectFields: a schema that is no object is reported as itself, an object
\* by its properties, down to everything that is no object.
Collected(p, schema) ==
  IF schema[p].type # "object" THEN {p}
  ELSE {f \in Fields(schema) :
          /\ p \in Above(f)
          /\ \A a \in Above(f) : p \in Above(a) => schema[a].type = "object"}

OnlyIn(schema, other, old, new) ==
  UNION {IF IsWhole(p) THEN Collected(p, schema) ELSE {p} :
           p \in {f \in Fields(schema) \ Fields(other) : Reached(f, old, new)}}

SchemaDiff(old, new) ==
  [added |-> OnlyIn(new, old, old, new),
   removed |-> OnlyIn(old, new, old, new),
   typeChanged |-> {p \in Fields(old) \cap Fields(new) :
                      Reached(p, old, new) /\ old[p].type # new[p].type}]

NoSchemaDiff == [added |-> {}, removed |-> {}, typeChanged |-> {}]

\* diffContracts: guards, parameters and formats are not compared.
ContractDiff(old, new) ==
  [method |-> old.method # new.method,
   auth |-> old.auth # new.auth,
   request |-> SchemaDiff(old.request, new.request),
   response |-> SchemaDiff(old.response, new.response)]

\* Slip: a changed authentication is no difference.
HasSchemaDiff(diff) ==
  \/ diff.method
  \/ diff.request # NoSchemaDiff \/ diff.response # NoSchemaDiff

\* hasDiff.
HasDiff(diff) ==
  \/ diff.method \/ diff.auth
  \/ diff.request # NoSchemaDiff \/ diff.response # NoSchemaDiff

\* A collected field of a whole body carries the flag of its parent, the body
\* itself none.
RequiredAdded(diff, new) ==
  \E p \in diff.request.added : ~IsWhole(p) /\ new.request[p].required

\* Slip: removed response fields are forgotten.
SeverityLenient(diff, new) ==
  IF \/ diff.method \/ diff.auth
     \/ diff.response.typeChanged # {} \/ diff.request.typeChanged # {}
     \/ RequiredAdded(diff, new)
  THEN "HIGH"
  ELSE IF diff.request.added # {} \/ diff.response.added # {} THEN "LOW"
  ELSE "MEDIUM"

\* scoreModifiedContract.
Severity(diff, new) ==
  IF \/ diff.method \/ diff.auth
     \/ diff.response.removed # {} \/ diff.response.typeChanged # {}
     \/ diff.request.typeChanged # {}
     \/ RequiredAdded(diff, new)
  THEN "HIGH"
  ELSE IF diff.request.added # {} \/ diff.response.added # {} THEN "LOW"
  ELSE "MEDIUM"

Identity(c) == <<c.method, c.path>>

-----------------------------------------------------------------------------
(* Matching.  rows is a sequence of records with a field contract.         *)

FirstOf(I) == CHOOSE i \in I : \A j \in I : i <= j
LastOf(I) == CHOOSE i \in I : \A j \in I : j <= i

SameIdentity(rows, c) ==
  {i \in DOMAIN rows : Identity(rows[i].contract) = Identity(c)}
SamePath(rows, c) == {i \in DOMAIN rows : rows[i].contract.path = c.path}

\* Slip: the version does not move.
VersionKept(c, prev) ==
  LET same == SameIdentity(prev, c)
      base == IF same # {} THEN same ELSE SamePath(prev, c)
  IN  IF base = {} THEN 1 ELSE prev[FirstOf(base)].version

\* findPreviousSnapshotForRoute takes the first match, by identity or else by
\* path; a contract that differs from it gets the next version.
Version(c, prev) ==
  LET same == SameIdentity(prev, c)
      base == IF same # {} THEN same ELSE SamePath(prev, c)
  IN  IF base = {} THEN 1
      ELSE LET p == prev[FirstOf(base)] IN
           IF p.contract = c THEN p.version ELSE p.version + 1

\* previousByRouteIdentity is a map: the last of several equals counts.
MatchedWith(prev, c) ==
  LET same == SameIdentity(prev, c) IN IF same = {} THEN 0 ELSE LastOf(same)

\* detectMethodChanges: the routes that are still unmatched are paired by path;
\* again the last counts, and it may be paired several times.
PairedWith(prev, cur, i) ==
  LET same == {j \in SamePath(cur, prev[i].contract) :
                 MatchedWith(prev, cur[j].contract) = 0}
  IN  IF same = {} THEN 0 ELSE LastOf(same)

\* Slip: a pair by path stays among the unmatched previous routes.
MatchingTwice(prev, cur) ==
  LET byIdentity == {<<MatchedWith(prev, cur[j].contract), j>> :
        j \in {x \in DOMAIN cur : MatchedWith(prev, cur[x].contract) # 0}}
      left == DOMAIN prev \ {pair[1] : pair \in byIdentity}
      byPath == {<<i, PairedWith(prev, cur, i)>> :
        i \in {x \in left : PairedWith(prev, cur, x) # 0}}
      all == byIdentity \cup byPath
  IN  [pairs |-> all, removed |-> left,
       added |-> DOMAIN cur \ {pair[2] : pair \in all}]

\* What detectChanges does with the rows of two scans: pairs of indices that
\* match by identity or by path, and the rest.
Matching(prev, cur) ==
  LET byIdentity == {<<MatchedWith(prev, cur[j].contract), j>> :
        j \in {x \in DOMAIN cur : MatchedWith(prev, cur[x].contract) # 0}}
      left == DOMAIN prev \ {pair[1] : pair \in byIdentity}
      byPath == {<<i, PairedWith(prev, cur, i)>> :
        i \in {x \in left : PairedWith(prev, cur, x) # 0}}
      all == byIdentity \cup byPath
  IN  [pairs |-> all,
       removed |-> DOMAIN prev \ {pair[1] : pair \in all},
       added |-> DOMAIN cur \ {pair[2] : pair \in all}]

\* The change records.  A row is named by its id; a contract that differs only
\* in what ContractDiff does not look at gives no record.
Changes(prev, cur) ==
  LET m == Matching(prev, cur)
      modified == {pair \in m.pairs :
        HasDiff(ContractDiff(prev[pair[1]].contract, cur[pair[2]].contract))}
  IN  {[api |-> cur[pair[2]].id, type |-> "MODIFIED",
        old |-> prev[pair[1]].id, new |-> cur[pair[2]].id,
        severity |-> Severity(ContractDiff(prev[pair[1]].contract,
                                           cur[pair[2]].contract),
                              cur[pair[2]].contract)] : pair \in modified}
      \cup {[api |-> prev[i].id, type |-> "REMOVED", old |-> prev[i].id,
             new |-> <<>>, severity |-> "HIGH"] : i \in m.removed}
      \cup {[api |-> cur[j].id, type |-> "ADDED", old |-> <<>>,
             new |-> cur[j].id, severity |-> "INFO"] : j \in m.added}
=============================================================================
