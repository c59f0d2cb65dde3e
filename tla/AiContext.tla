------------------------------ MODULE AiContext ------------------------------
(***************************************************************************)
(* What of a repository's intelligence goes into a prompt: retrieval with  *)
(* fallback, ranking, and the character budget.                            *)
(*                                                                         *)
(* A context has five lists; this is the list of detected APIs.  The lists *)
(* of files, symbols and dependencies are queried and ranked in the same   *)
(* way and joined more tightly; recent changes are taken as they come.     *)
(*                                                                         *)
(* An item is a row of DetectedApi, a record                               *)
(* [id, route, relevant, score, size]: route is its place in the order of  *)
(* path and method, relevant says whether it meets the filter built from   *)
(* the question, score is what scoreApi gives it, size the length of its   *)
(* rendering.  A question without a filter needs the second query only, as *)
(* if nothing were relevant.                                               *)
(***************************************************************************)
EXTENDS Naturals, Sequences, FiniteSets, SequencesExt, Functions

CONSTANTS
  FetchLimit,    \* CONTEXT_API_LIMIT and its like
  SectionLimit,  \* MAX_CONTEXT_APIS and its like
  MaxScore,
  Heading,       \* length of the title line of a section
  Overview,      \* length of the section "Repository"
  MaxCharacters, \* maxContextTokens * APPROX_CHARS_PER_TOKEN
  Worth          \* a rest of a section must be longer than this

ASSUME LimitsAssumption ==
  /\ FetchLimit \in Nat /\ SectionLimit \in Nat /\ MaxScore \in Nat
  /\ Heading \in Nat /\ Overview \in Nat /\ MaxCharacters \in Nat
  /\ Worth \in Nat /\ Worth >= 14

\* The answers to a query for some rows: the first of them by route, as many as
\* are taken; rows of one route come in any order.
Listed(rows, most) ==
  LET n == IF Cardinality(rows) < most THEN Cardinality(rows) ELSE most IN
  {list \in [1..n -> rows] :
     /\ IsInjective(list)
     /\ \A i, j \in 1..n : i < j => list[i].route <= list[j].route
     /\ \A x \in Range(list), y \in rows \ Range(list) : x.route <= y.route}

Relevant(rows) == Listed({x \in rows : x.relevant}, FetchLimit)

\* Slip: the relevant items are not left out.
FallbackAll(rows, got) == Listed(rows, FetchLimit - Len(got))

\* The rest is filled up with others.
Others(rows, got) == {x \in rows : \A y \in Range(got) : x.id # y.id}
Fallback(rows, got) == Listed(Others(rows, got), FetchLimit - Len(got))

AtMost(n, rows) == SubSeq(rows, 1, IF n < Len(rows) THEN n ELSE Len(rows))

\* The items that are in a set, in their order.  This and the two recursive
\* functions below are written out because AiChatProofs needs their equations.
Among(rows, S) ==
  LET kept[n \in 0..Len(rows)] ==
        IF n = 0 THEN <<>>
        ELSE IF rows[n] \in S THEN Append(kept[n - 1], rows[n]) ELSE kept[n - 1]
  IN  kept[Len(rows)]

\* A stable sort, the best first.
WithScore(items, score) == {x \in Range(items) : x.score = score}
Rank(items) ==
  LET best[n \in 0..(MaxScore + 1)] ==
        IF n = 0 THEN <<>>
        ELSE best[n - 1] \o Among(items, WithScore(items, MaxScore + 1 - n))
  IN  best[MaxScore + 1]

Chosen(items) == AtMost(SectionLimit, Rank(items))

SumOf(sizes) ==
  LET sum[n \in 0..Len(sizes)] == IF n = 0 THEN 0 ELSE sum[n - 1] + sizes[n]
  IN  sum[Len(sizes)]

\* Items are joined by an empty line; a section without items is dropped.
SectionSize(items) ==
  Heading + SumOf([n \in DOMAIN items |-> items[n].size]) + 2 * (Len(items) - 1)

Sections(items) ==
  IF items = <<>> THEN <<Overview>> ELSE <<Overview, SectionSize(items)>>

Truncated(size, most) == IF size <= most THEN size ELSE (most - 14) + 14

\* usedCharacters after the first sections.
Taken(sizes, n) == SumOf(SubSeq(sizes, 1, n)) + 2 * n

\* joinSectionsWithinBudget: the lengths of what is joined.  The loop takes
\* sections up to the first that does not fit, and of that one what fits.
Joined(sizes) ==
  LET fitting == {n \in 0..Len(sizes) : Taken(sizes, n) <= MaxCharacters}
      n == CHOOSE m \in fitting : \A l \in fitting : l <= m
  IN  SubSeq(sizes, 1, n)
        \o IF n < Len(sizes) /\ MaxCharacters > Taken(sizes, n) + 2 + Worth
           THEN <<Truncated(sizes[n + 1], MaxCharacters - Taken(sizes, n) - 2)>>
           ELSE <<>>

TextSize(parts) ==
  SumOf(parts) + (IF parts = <<>> THEN 0 ELSE 2 * (Len(parts) - 1))

=============================================================================
