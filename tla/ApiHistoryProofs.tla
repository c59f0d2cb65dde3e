--------------------------- MODULE ApiHistoryProofs ---------------------------
(***************************************************************************)
(* The results that scans store, for any number of scans and attempts, any *)
(* code and any routes that they find, and any number of disturbances.     *)
(* The inductive invariant Inv has a part that always holds, one that      *)
(* holds while no attempt times out (attempts of a scan take turns), and   *)
(* one that holds while no completed scan is retried either (a completed   *)
(* scan has compared what it has stored with what its base has stored).    *)
(* What the comparison of two lists of rows and of two schemas yields is   *)
(* settled by lemmas about Changes, Version, SchemaDiff and Severity.      *)
(***************************************************************************)
EXTENDS ApiHistory, FiniteSetTheorems, WellFoundedInduction, TLAPS

-----------------------------------------------------------------------------
(* Numbers and sequences                                                   *)

\* A set of numbers that is not empty has a least member.
LEMMA Least ==
  ASSUME NEW T, T \subseteq Nat, T # {}
  PROVE  \E m \in T : \A n \in T : m <= n
<1> DEFINE R == OpToRel(<, Nat)
<1>1. IsWellFoundedOn(R, Nat)
  BY NatLessThanWellFounded, Zenon
<1>2. \E x \in T : \A y \in T : ~ (<<y, x>> \in R)
  <2> HIDE DEF R
  <2> QED BY <1>1, WFMin
<1>3. \A x, y \in Nat : y < x => <<y, x>> \in R
  BY DEF OpToRel
<1> HIDE DEF R
<1>4. PICK m \in T : \A y \in T : ~ (<<y, m>> \in R)
  BY <1>2
<1>5. ASSUME NEW n \in T PROVE m <= n
  <2>1. m \in Nat /\ n \in Nat /\ ~ (n < m)
    BY <1>3, <1>4
  <2> QED BY <2>1
<1> QED BY <1>5

\* FirstOf and LastOf are members of a set of positions.
LEMMA FirstIn ==
  ASSUME NEW I, I \subseteq Nat, I # {}
  PROVE  FirstOf(I) \in I /\ \A j \in I : FirstOf(I) <= j
  BY Least DEF FirstOf

\* LastOf takes the greatest position.
LEMMA LastIn ==
  ASSUME NEW b \in Nat, NEW I, I \subseteq 1..b, I # {}
  PROVE  LastOf(I) \in I /\ \A j \in I : j <= LastOf(I)
<1> DEFINE T == {b - i : i \in I}
<1>1. T # {} /\ T \subseteq Nat
  <2>1. \A i \in I : b - i \in Nat
    OBVIOUS
  <2>2. PICK i : i \in I
    OBVIOUS
  <2>3. b - i \in T
    BY <2>2
  <2> QED BY <2>1, <2>3
<1>2. \E m \in T : \A n \in T : m <= n
  <2> HIDE DEF T
  <2> QED BY <1>1, Least
<1>3. PICK i \in I : \A j \in I : b - i <= b - j
  BY <1>2
<1>4. \A j \in I : j <= i
  BY <1>3
<1> QED BY <1>4 DEF LastOf

\* The members of a sequence.
LEMMA Entries ==
  ASSUME NEW S, NEW s \in Seq(S)
  PROVE  /\ Len(s) \in Nat /\ DOMAIN s = 1..Len(s)
         /\ \A i \in DOMAIN s : s[i] \in S
         /\ Range(s) \subseteq S
  BY DEF Range

-----------------------------------------------------------------------------
(* Matching                                                                *)

\* Where the two rows of a pair are.
LEMMA MatchedIn ==
  ASSUME NEW S, NEW prev \in Seq(S), NEW c
  PROVE  /\ MatchedWith(prev, c) \in DOMAIN prev \cup {0}
         /\ MatchedWith(prev, c) # 0 =>
              /\ MatchedWith(prev, c) \in SameIdentity(prev, c)
              /\ \A i \in SameIdentity(prev, c) : i <= MatchedWith(prev, c)
         /\ MatchedWith(prev, c) = 0 => SameIdentity(prev, c) = {}
<1> DEFINE I == SameIdentity(prev, c)
<1>1. I \subseteq 1..Len(prev) /\ Len(prev) \in Nat /\ DOMAIN prev = 1..Len(prev)
  BY Entries DEF SameIdentity
<1>2. I # {} => LastOf(I) \in I /\ \A j \in I : j <= LastOf(I)
  <2> HIDE DEF I
  <2> QED BY <1>1, LastIn
<1> QED BY <1>1, <1>2 DEF MatchedWith

\* The partner by path is a row of that path that has no partner by identity.
LEMMA PairedIn ==
  ASSUME NEW S, NEW cur \in Seq(S), NEW prev, NEW i
  PROVE  LET J == {j \in SamePath(cur, prev[i].contract) :
                     MatchedWith(prev, cur[j].contract) = 0}
         IN  /\ PairedWith(prev, cur, i) \in DOMAIN cur \cup {0}
             /\ PairedWith(prev, cur, i) # 0 => PairedWith(prev, cur, i) \in J
             /\ PairedWith(prev, cur, i) = 0 => J = {}
<1> DEFINE J == {j \in SamePath(cur, prev[i].contract) :
                   MatchedWith(prev, cur[j].contract) = 0}
<1>1. J \subseteq 1..Len(cur) /\ Len(cur) \in Nat /\ DOMAIN cur = 1..Len(cur)
  BY Entries DEF SamePath
<1>2. J # {} => LastOf(J) \in J
  <2> HIDE DEF J
  <2> QED BY <1>1, LastIn
<1> QED BY <1>1, <1>2 DEF PairedWith

\* A matching pairs rows of both scans and leaves the rest.
LEMMA MatchingIn ==
  ASSUME NEW S, NEW T, NEW prev \in Seq(S), NEW cur \in Seq(T)
  PROVE  LET m == Matching(prev, cur) IN
         /\ \A pair \in m.pairs : pair = <<pair[1], pair[2]>>
                                  /\ pair[1] \in DOMAIN prev /\ pair[2] \in DOMAIN cur
         /\ m.removed = DOMAIN prev \ {pair[1] : pair \in m.pairs}
         /\ m.added = DOMAIN cur \ {pair[2] : pair \in m.pairs}
<1> DEFINE byIdentity == {<<MatchedWith(prev, cur[j].contract), j>> :
             j \in {x \in DOMAIN cur : MatchedWith(prev, cur[x].contract) # 0}}
           left == DOMAIN prev \ {pair[1] : pair \in byIdentity}
           byPath == {<<i, PairedWith(prev, cur, i)>> :
             i \in {x \in left : PairedWith(prev, cur, x) # 0}}
<1>1. \A pair \in byIdentity : /\ pair = <<pair[1], pair[2]>>
                               /\ pair[1] \in DOMAIN prev /\ pair[2] \in DOMAIN cur
  BY MatchedIn
<1>2. \A i : PairedWith(prev, cur, i) \in DOMAIN cur \cup {0}
  BY PairedIn
<1>3. \A pair \in byPath : /\ pair = <<pair[1], pair[2]>>
                           /\ pair[1] \in DOMAIN prev /\ pair[2] \in DOMAIN cur
  <2> HIDE DEF byIdentity
  <2> QED BY <1>2
<1>4. Matching(prev, cur) =
        [pairs |-> byIdentity \cup byPath,
         removed |-> DOMAIN prev \ {pair[1] : pair \in byIdentity \cup byPath},
         added |-> DOMAIN cur \ {pair[2] : pair \in byIdentity \cup byPath}]
  BY DEF Matching
<1> HIDE DEF byIdentity, byPath
<1> QED BY <1>1, <1>3, <1>4

-----------------------------------------------------------------------------
(* Types                                                                   *)

Paths == UNION {DOMAIN Code[r] : r \in Runs}
Refs == UNION {UNION {Code[r][p] : p \in DOMAIN Code[r]} : r \in Runs}

\* The names of file rows and of API rows, and the rows.
FileNames == Runs \X Paths
Names == Scans \X (1..Attempts) \X Nat
DepRows == [from : FileNames, ref : Refs, to : FileNames \cup {<<>>}]
ApiRows == [id : Names, contract : Contracts]
SnapRows == [id : Names, contract : Contracts, version : Nat]
ChangeRows == [scan : Scans, api : Names, type : {"MODIFIED", "REMOVED", "ADDED"},
               old : Names \cup {<<>>}, new : Names \cup {<<>>},
               severity : {"HIGH", "MEDIUM", "LOW", "INFO"}]

Busy == {"code", "storing", "replace", "replacing", "base", "read", "write",
         "complete"}
AttemptRecords == [pc : Busy \cup {"idle", "done", "failed"}, aborted : BOOLEAN,
                   gone : SUBSET (FileNames \cup Names), found : Seq(Contracts),
                   base : 0..LastScan, prev : Seq(SnapRows)]

Shape ==
  /\ status \in [Scans -> {"ABSENT", "QUEUED", "RUNNING", "COMPLETED", "FAILED"}]
  /\ run \in [Runs -> AttemptRecords]
  /\ files \subseteq FileNames /\ deps \subseteq DepRows
  /\ apis \subseteq ApiRows /\ snaps \subseteq SnapRows /\ changes \subseteq ChangeRows
  /\ IsFiniteSet(snaps)
  /\ used \in [Disturbances -> Nat]
  /\ \A d \in Disturbances : used[d] <= Limit[d]

\* A scan and an attempt name a run.
LEMMA RunIs == ASSUME NEW s \in Scans, NEW k \in 1..Attempts PROVE <<s, k>> \in Runs
  BY DEF Runs

\* A new attempt has its type.
LEMMA FreshType == Fresh \in AttemptRecords
<1>1. <<>> \in Seq(Contracts) /\ <<>> \in Seq(SnapRows) /\ 0 \in 0..LastScan
  BY BoundsAssumption
<1> QED BY <1>1 DEF Fresh, AttemptRecords

\* The edits of an attempt keep its type.
LEMMA EditType ==
  ASSUME NEW x \in AttemptRecords
  PROVE  /\ \A pc \in Busy \cup {"idle", "done", "failed"} :
              [x EXCEPT !.pc = pc] \in AttemptRecords
         /\ \A b \in BOOLEAN : [x EXCEPT !.aborted = b] \in AttemptRecords
         /\ \A g \in SUBSET (FileNames \cup Names) :
              [x EXCEPT !.gone = g] \in AttemptRecords
         /\ \A c \in Seq(Contracts) : [x EXCEPT !.found = c] \in AttemptRecords
         /\ \A n \in 0..LastScan : [x EXCEPT !.base = n] \in AttemptRecords
         /\ \A p \in Seq(SnapRows) : [x EXCEPT !.prev = p] \in AttemptRecords
<1> DEFINE G == SUBSET (FileNames \cup Names)
           C == Seq(Contracts)
           N == 0..LastScan
           P == Seq(SnapRows)
           B == Busy \cup {"idle", "done", "failed"}
<1>1. AttemptRecords = [pc : B, aborted : BOOLEAN, gone : G, found : C, base : N, prev : P]
  BY DEF AttemptRecords
<1> HIDE DEF G, C, N, P, B
<1>2. \A pc \in B : [x EXCEPT !.pc = pc] \in AttemptRecords
  BY <1>1
<1>3. \A b \in BOOLEAN : [x EXCEPT !.aborted = b] \in AttemptRecords
  BY <1>1
<1>4. \A g \in G : [x EXCEPT !.gone = g] \in AttemptRecords
  BY <1>1
<1>5. \A c \in C : [x EXCEPT !.found = c] \in AttemptRecords
  BY <1>1
<1>6. \A n \in N : [x EXCEPT !.base = n] \in AttemptRecords
  BY <1>1
<1>7. \A p \in P : [x EXCEPT !.prev = p] \in AttemptRecords
  BY <1>1
<1> QED BY <1>2, <1>3, <1>4, <1>5, <1>6, <1>7 DEF G, C, N, P, B

\* A disturbance that is spent was to be had.
LEMMA SpendType ==
  ASSUME Shape, NEW d \in Disturbances, Spend(d)
  PROVE  /\ used' \in [Disturbances -> Nat]
         /\ \A x \in Disturbances : used'[x] <= Limit[x]
         /\ used'[d] > 0 /\ \A x \in Disturbances : used[x] <= used'[x]
<1>1. used[d] < Limit[d] /\ used' = [used EXCEPT ![d] = used[d] + 1]
  BY Zenon DEF Spend
<1>2. used \in [Disturbances -> Nat] /\ \A x \in Disturbances : used[x] <= Limit[x]
  BY DEF Shape
<1> QED BY <1>1, <1>2, LimitAssumption

\* What a throw does to its attempt.
LEMMA Thrown ==
  ASSUME Shape, NEW s \in Scans, NEW k \in 1..Attempts, Throw(s, k)
  PROVE  /\ run' \in [Runs -> AttemptRecords]
         /\ run'[<<s, k>>].pc = "failed"
         /\ run'[<<s, k>>].aborted = run[<<s, k>>].aborted
         /\ run'[<<s, k>>].gone = {} /\ run'[<<s, k>>].base = 0
         /\ run'[<<s, k>>].prev = <<>> /\ run'[<<s, k>>].found = <<>>
         /\ \A r \in Runs : r # <<s, k>> => run'[r] = run[r]
         /\ status' = IF status[s] = "RUNNING" /\ ~run[<<s, k>>].aborted
                      THEN [status EXCEPT ![s] = "FAILED"] ELSE status
<1> DEFINE x == [Fresh EXCEPT !.pc = "failed", !.aborted = run[<<s, k>>].aborted]
<1>1. <<s, k>> \in Runs /\ run[<<s, k>>].aborted \in BOOLEAN
  BY RunIs DEF Shape, AttemptRecords
<1>2. x \in AttemptRecords
  BY <1>1, FreshType, EditType
<1>3. /\ x.pc = "failed" /\ x.aborted = run[<<s, k>>].aborted /\ x.gone = {}
      /\ x.base = 0 /\ x.prev = <<>> /\ x.found = <<>>
  BY DEF Fresh
<1>4. run' = [run EXCEPT ![<<s, k>>] = x]
  BY DEF Throw
<1> HIDE DEF x
<1> QED BY <1>1, <1>2, <1>3, <1>4 DEF Throw, Shape

\* The fields of the rows.
LEMMA RowFields ==
  /\ \A x \in SnapRows : x.id \in Names /\ x.contract \in Contracts /\ x.version \in Nat
  /\ \A x \in ApiRows : x.id \in Names /\ x.contract \in Contracts
  BY DEF SnapRows, ApiRows

\* A name starts with the scan and is not the empty reference.
LEMMA NamesAre == \A n \in Names : n[1] \in Scans /\ n # <<>>
<1>1. \A n \in Names : n[1] \in Scans
  BY DEF Names
<1>2. \A a, b, c : <<a, b, c>> # <<>>
  OBVIOUS
<1>3. \A n \in Names : n = <<n[1], n[2], n[3]>>
  BY DEF Names
<1> QED BY <1>1, <1>2, <1>3

\* The rows of an attempt.
LEMMA RowsType ==
  ASSUME Shape, NEW s \in Scans, NEW k \in 1..Attempts
  PROVE  /\ run[<<s, k>>].found \in Seq(Contracts)
         /\ Rows(s, k) \in Seq(ApiRows)
         /\ DOMAIN Rows(s, k) = DOMAIN run[<<s, k>>].found
         /\ \A n \in DOMAIN Rows(s, k) : Rows(s, k)[n].id = <<s, k, n>>
         /\ Range(Rows(s, k)) \subseteq ApiRows
         /\ \A x \in Range(Rows(s, k)) : x.id[1] = s
<1> DEFINE f == run[<<s, k>>].found
<1>1. f \in Seq(Contracts)
  BY RunIs DEF Shape, AttemptRecords
<1>2. DOMAIN f = 1..Len(f) /\ Len(f) \in Nat /\ \A n \in DOMAIN f : f[n] \in Contracts
  BY <1>1, Entries
<1>3. \A n \in DOMAIN f : /\ Row(s, k, n) \in ApiRows
                          /\ Row(s, k, n).id = <<s, k, n>>
  BY <1>2 DEF Row, ApiRows, Names
<1> HIDE DEF f
<1>4. Rows(s, k) = [n \in 1..Len(f) |-> Row(s, k, n)]
  BY <1>2 DEF Rows, f
<1>5. Rows(s, k) \in Seq(ApiRows)
  BY <1>2, <1>3, <1>4
<1>6. \A n \in 1..Len(f) : Rows(s, k)[n] = Row(s, k, n)
  BY <1>4
<1>7. DOMAIN Rows(s, k) = DOMAIN f
  BY <1>2, <1>4
<1>8. \A x \in Range(Rows(s, k)) : x \in ApiRows /\ x.id[1] = s
  BY <1>2, <1>3, <1>6, <1>7 DEF Range
<1> QED BY <1>1, <1>2, <1>3, <1>5, <1>6, <1>7, <1>8 DEF f

\* The APIs of a scan have its name.
LEMMA OldType ==
  ASSUME Shape, NEW s \in Scans
  PROVE  Old(s) \subseteq Names /\ \A n \in Old(s) : n[1] = s
  BY DEF Shape, Old, ApiRows

\* The image of a sequence is finite.
LEMMA FiniteRange ==
  ASSUME NEW n \in Nat, NEW f, DOMAIN f = 1..n
  PROVE  IsFiniteSet({f[i] : i \in 1..n})
<1> DEFINE T == {f[i] : i \in 1..n}
           g == [i \in 1..n |-> f[i]]
<1>1. g \in Surjection(1..n, T)
  BY DEF Surjection
<1>2. IsFiniteSet(1..n)
  BY FS_Interval
<1> HIDE DEF T, g
<1>3. IsFiniteSet(T)
  BY <1>1, <1>2, FS_Surjection
<1> QED BY <1>3 DEF T

\* The version of a route is a number.
LEMMA VersionType ==
  ASSUME NEW prev \in Seq(SnapRows), NEW c
  PROVE  Version(c, prev) \in Nat
<1>1. DOMAIN prev = 1..Len(prev) /\ Len(prev) \in Nat
      /\ \A i \in DOMAIN prev : prev[i].version \in Nat
  <2>1. \A i \in DOMAIN prev : prev[i] \in SnapRows
    BY Entries
  <2> QED BY <2>1, Entries, RowFields
<1>2. ASSUME NEW I, I \subseteq DOMAIN prev, I # {} PROVE FirstOf(I) \in DOMAIN prev
  BY <1>1, <1>2, FirstIn
<1>3. SameIdentity(prev, c) \subseteq DOMAIN prev /\ SamePath(prev, c) \subseteq DOMAIN prev
  BY DEF SameIdentity, SamePath
<1> QED BY <1>1, <1>2, <1>3 DEF Version

\* createSnapshotInputs makes one snapshot for each API, of the same name.
LEMMA NewSnapshotsType ==
  ASSUME Shape, NEW s \in Scans, NEW k \in 1..Attempts
  PROVE  /\ NewSnapshots(s, k) \subseteq SnapRows
         /\ IsFiniteSet(NewSnapshots(s, k))
         /\ Ids(NewSnapshots(s, k)) = Ids(Range(Rows(s, k)))
         /\ \A x \in NewSnapshots(s, k) : x.id[1] = s
<1> DEFINE rows == Rows(s, k)
           prev == run[<<s, k>>].prev
           G(row) == [id |-> row.id, contract |-> row.contract,
                      version |-> Version(row.contract, prev)]
           f == [n \in DOMAIN rows |-> G(rows[n])]
<1>1. rows \in Seq(ApiRows) /\ Range(rows) \subseteq ApiRows
      /\ \A x \in Range(rows) : x.id[1] = s
  BY RowsType
<1>2. DOMAIN rows = 1..Len(rows) /\ Len(rows) \in Nat
  BY <1>1, Entries
<1>3. prev \in Seq(SnapRows)
  BY RunIs DEF Shape, AttemptRecords
<1>4. \A c : Version(c, prev) \in Nat
  BY <1>3, VersionType
<1>5. NewSnapshots(s, k) = {G(row) : row \in Range(rows)}
  BY DEF NewSnapshots
<1>6. NewSnapshots(s, k) = {f[n] : n \in 1..Len(rows)}
  BY <1>2, <1>5 DEF Range
<1> HIDE DEF rows, prev
<1>7. IsFiniteSet(NewSnapshots(s, k))
  <2>1. DOMAIN f = 1..Len(rows)
    BY <1>2
  <2> HIDE DEF f
  <2> QED BY <1>2, <1>6, <2>1, FiniteRange
<1>8. NewSnapshots(s, k) \subseteq SnapRows
  <2>1. \A row \in Range(rows) : G(row) \in SnapRows
    BY <1>1, <1>4, RowFields DEF SnapRows
  <2> QED BY <1>5, <2>1
<1>9. Ids(NewSnapshots(s, k)) = Ids(Range(rows))
  <2>1. \A row : G(row).id = row.id
    OBVIOUS
  <2> HIDE DEF G
  <2> QED BY <1>5, <2>1 DEF Ids
<1>10. \A x \in NewSnapshots(s, k) : x.id[1] = s
  BY <1>1, <1>5
<1> QED BY <1>7, <1>8, <1>9, <1>10 DEF rows

\* What a change record names.
LEMMA ChangesName ==
  ASSUME NEW prev \in Seq(SnapRows), NEW cur \in Seq(ApiRows)
  PROVE  \A c \in Changes(prev, cur) :
           /\ c.type \in {"MODIFIED", "REMOVED", "ADDED"}
           /\ c.severity \in {"HIGH", "MEDIUM", "LOW", "INFO"}
           /\ c.old \in {prev[i].id : i \in DOMAIN prev} \cup {<<>>}
           /\ c.new \in {cur[j].id : j \in DOMAIN cur} \cup {<<>>}
           /\ c.api \in {c.old, c.new} \ {<<>>}
<1> DEFINE m == Matching(prev, cur)
           D(pair) == ContractDiff(prev[pair[1]].contract, cur[pair[2]].contract)
           modified == {pair \in m.pairs : HasDiff(D(pair))}
           M(pair) == [api |-> cur[pair[2]].id, type |-> "MODIFIED",
                       old |-> prev[pair[1]].id, new |-> cur[pair[2]].id,
                       severity |-> Severity(D(pair), cur[pair[2]].contract)]
           R(i) == [api |-> prev[i].id, type |-> "REMOVED", old |-> prev[i].id,
                    new |-> <<>>, severity |-> "HIGH"]
           A(j) == [api |-> cur[j].id, type |-> "ADDED", old |-> <<>>,
                    new |-> cur[j].id, severity |-> "INFO"]
<1>1. \A pair \in m.pairs : pair[1] \in DOMAIN prev /\ pair[2] \in DOMAIN cur
  BY MatchingIn
<1>2. m.removed \subseteq DOMAIN prev /\ m.added \subseteq DOMAIN cur
  BY MatchingIn
<1>3. Changes(prev, cur) = {M(pair) : pair \in modified} \cup {R(i) : i \in m.removed}
                             \cup {A(j) : j \in m.added}
  BY DEF Changes
<1>4. \A d, c : Severity(d, c) \in {"HIGH", "MEDIUM", "LOW"}
  BY DEF Severity
<1>5. /\ \A i \in DOMAIN prev : prev[i].id \in Names
      /\ \A j \in DOMAIN cur : cur[j].id \in Names
      /\ <<>> \notin Names
  <2>1. /\ \A i \in DOMAIN prev : prev[i] \in SnapRows
        /\ \A j \in DOMAIN cur : cur[j] \in ApiRows
    BY Entries
  <2> QED BY <2>1, RowFields, NamesAre
<1> HIDE DEF m
<1> QED BY <1>1, <1>2, <1>3, <1>4, <1>5

\* detectChanges names rows of the scan and of the one that it compares with.
LEMMA NewChangesType ==
  ASSUME Shape, NEW s \in Scans, NEW k \in 1..Attempts
  PROVE  /\ NewChanges(s, k) \subseteq ChangeRows
         /\ \A c \in NewChanges(s, k) :
              /\ c.scan = s
              /\ c.old \in Ids(Range(run[<<s, k>>].prev)) \cup {<<>>}
              /\ c.new \in Ids(Range(Rows(s, k))) \cup {<<>>}
              /\ c.api \in {c.old, c.new} \ {<<>>}
<1> DEFINE prev == run[<<s, k>>].prev
           cur == Rows(s, k)
           H(c) == [scan |-> s, api |-> c.api, type |-> c.type, old |-> c.old,
                    new |-> c.new, severity |-> c.severity]
<1>1. prev \in Seq(SnapRows) /\ cur \in Seq(ApiRows)
  BY RunIs, RowsType DEF Shape, AttemptRecords
<1>2. NewChanges(s, k) = {H(c) : c \in Changes(prev, cur)}
  BY DEF NewChanges
<1>3. /\ {prev[i].id : i \in DOMAIN prev} \subseteq Names
      /\ {cur[j].id : j \in DOMAIN cur} \subseteq Names
  <2>1. /\ \A i \in DOMAIN prev : prev[i] \in SnapRows
        /\ \A j \in DOMAIN cur : cur[j] \in ApiRows
    BY <1>1, Entries
  <2> HIDE DEF prev, cur
  <2> QED BY <2>1, RowFields
<1>4. /\ {prev[i].id : i \in DOMAIN prev} = Ids(Range(prev))
      /\ {cur[j].id : j \in DOMAIN cur} = Ids(Range(cur))
  BY DEF Ids, Range
<1> HIDE DEF prev, cur
<1>5. ASSUME NEW c \in Changes(prev, cur)
      PROVE  /\ H(c) \in ChangeRows /\ H(c).scan = s
             /\ H(c).old \in Ids(Range(prev)) \cup {<<>>}
             /\ H(c).new \in Ids(Range(cur)) \cup {<<>>}
             /\ H(c).api \in {H(c).old, H(c).new} \ {<<>>}
  <2>1. /\ c.type \in {"MODIFIED", "REMOVED", "ADDED"}
        /\ c.severity \in {"HIGH", "MEDIUM", "LOW", "INFO"}
        /\ c.old \in Ids(Range(prev)) \cup {<<>>}
        /\ c.new \in Ids(Range(cur)) \cup {<<>>}
        /\ c.api \in {c.old, c.new} \ {<<>>}
    BY <1>1, <1>4, ChangesName
  <2> QED BY <1>3, <1>4, <2>1 DEF ChangeRows
<1> QED BY <1>2, <1>5 DEF prev, cur

\* One attempt moves.
LEMMA Moved ==
  ASSUME Shape, NEW r \in Runs, NEW e \in AttemptRecords, run' = [run EXCEPT ![r] = e]
  PROVE  /\ run' \in [Runs -> AttemptRecords] /\ run'[r] = e
         /\ \A x \in Runs : x # r => run'[x] = run[x]
  BY DEF Shape

\* What the steps that do not throw do to their attempt.
LEMMA Steps ==
  ASSUME Shape, NEW s \in Scans, NEW k \in 1..Attempts
  PROVE  LET x == run[<<s, k>>] IN
         /\ x \in AttemptRecords
         /\ \A pc : Go(<<s, k>>, pc) => run' = [run EXCEPT ![<<s, k>>] = [x EXCEPT !.pc = pc]]
         /\ OpenStore(s, k) => run' = [run EXCEPT ![<<s, k>>] =
              [x EXCEPT !.pc = "storing", !.gone = FilesOf(s)]]
         /\ Store(s, k) /\ ~Throw(s, k) => run' = [run EXCEPT ![<<s, k>>] =
              [x EXCEPT !.pc = "replace", !.gone = {}]]
         /\ \A commit : OpenReplace(s, k, commit) => run' = [run EXCEPT ![<<s, k>>] =
              [x EXCEPT !.pc = "replacing", !.gone = Old(s), !.found = commit]]
         /\ Replace(s, k) /\ ~Throw(s, k) => run' = [run EXCEPT ![<<s, k>>] =
              [x EXCEPT !.pc = "base", !.gone = {}]]
         /\ FindPrevious(s, k) => run' = [run EXCEPT ![<<s, k>>] =
              [x EXCEPT !.pc = IF Earlier(s) = {} THEN "write" ELSE "read",
                        !.base = IF Earlier(s) = {} THEN 0 ELSE LastOf(Earlier(s))]]
         /\ ReadSnapshots(s, k) =>
              \E rows \in SetToSeqs({y \in snaps : y.id[1] = x.base}) :
                run' = [run EXCEPT ![<<s, k>>] = [x EXCEPT !.pc = "write", !.prev = rows]]
         /\ Complete(s, k) /\ ~Throw(s, k) => run' = [run EXCEPT ![<<s, k>>] =
              [Fresh EXCEPT !.pc = "done", !.base = x.base]]
         /\ Detach(s, k) => run' = [run EXCEPT ![<<s, k>>] = [x EXCEPT !.aborted = TRUE]]
<1> DEFINE x == run[<<s, k>>]
<1>1. x \in AttemptRecords /\ run \in [Runs -> AttemptRecords] /\ <<s, k>> \in Runs
  BY RunIs DEF Shape
<1>2. \A pc : Go(<<s, k>>, pc) => run' = [run EXCEPT ![<<s, k>>] = [x EXCEPT !.pc = pc]]
  BY <1>1 DEF Go
<1>3. OpenStore(s, k) => run' = [run EXCEPT ![<<s, k>>] =
        [x EXCEPT !.pc = "storing", !.gone = FilesOf(s)]]
  BY <1>1 DEF OpenStore
<1>4. Store(s, k) /\ ~Throw(s, k) => run' = [run EXCEPT ![<<s, k>>] =
        [x EXCEPT !.pc = "replace", !.gone = {}]]
  BY <1>1 DEF Store
<1>5. \A commit : OpenReplace(s, k, commit) => run' = [run EXCEPT ![<<s, k>>] =
        [x EXCEPT !.pc = "replacing", !.gone = Old(s), !.found = commit]]
  BY <1>1 DEF OpenReplace
<1>6. Replace(s, k) /\ ~Throw(s, k) => run' = [run EXCEPT ![<<s, k>>] =
        [x EXCEPT !.pc = "base", !.gone = {}]]
  BY <1>1 DEF Replace
<1>7. FindPrevious(s, k) => run' = [run EXCEPT ![<<s, k>>] =
        [x EXCEPT !.pc = IF Earlier(s) = {} THEN "write" ELSE "read",
                  !.base = IF Earlier(s) = {} THEN 0 ELSE LastOf(Earlier(s))]]
  BY <1>1 DEF FindPrevious
<1>8. ReadSnapshots(s, k) =>
        \E rows \in SetToSeqs({y \in snaps : y.id[1] = x.base}) :
          run' = [run EXCEPT ![<<s, k>>] = [x EXCEPT !.pc = "write", !.prev = rows]]
  BY <1>1 DEF ReadSnapshots
<1>9. Complete(s, k) /\ ~Throw(s, k) => run' = [run EXCEPT ![<<s, k>>] =
        [Fresh EXCEPT !.pc = "done", !.base = x.base]]
  BY DEF Complete
<1>10. Detach(s, k) => run' = [run EXCEPT ![<<s, k>>] = [x EXCEPT !.aborted = TRUE]]
  BY <1>1, Zenon DEF Detach
<1> QED BY <1>1, <1>2, <1>3, <1>4, <1>5, <1>6, <1>7, <1>8, <1>9, <1>10

\* The files of a scan.
LEMMA FilesType ==
  ASSUME Shape, NEW s \in Scans
  PROVE  FilesOf(s) \subseteq FileNames /\ \A f \in FilesOf(s) : f[1][1] = s
  BY DEF Shape, FilesOf

\* findLatestPreviousSnapshots finds a completed scan, if there is one.
LEMMA BaseType ==
  ASSUME NEW s \in Scans
  PROVE  /\ Earlier(s) # {} => /\ LastOf(Earlier(s)) \in Earlier(s)
                               /\ LastOf(Earlier(s)) \in Scans
                               /\ LastOf(Earlier(s)) \in 0..LastScan
         /\ 0 \in 0..LastScan
<1>1. Earlier(s) \subseteq 1..LastScan /\ LastScan \in Nat
  BY BoundsAssumption DEF Earlier, Scans
<1>2. Earlier(s) # {} => LastOf(Earlier(s)) \in Earlier(s)
  BY <1>1, LastIn
<1> QED BY <1>1, <1>2 DEF Scans

\* The sequences of a finite set of snapshots.
LEMMA ReadType ==
  ASSUME Shape, NEW P, P \subseteq snaps, NEW rows \in SetToSeqs(P)
  PROVE  /\ rows \in Seq(SnapRows)
         /\ Range(rows) = P
         /\ \A i, j \in DOMAIN rows : rows[i] = rows[j] => i = j
<1> DEFINE D == 1..Cardinality(P)
<1>1. IsFiniteSet(P) /\ P \subseteq SnapRows
  BY FS_Subset DEF Shape
<1>2. Cardinality(P) \in Nat
  BY <1>1, FS_CardinalityType
<1>3. rows \in [D -> P] /\ \A i, j \in D : i # j => rows[i] # rows[j]
  BY DEF SetToSeqs
<1>4. rows \in Seq(SnapRows) /\ DOMAIN rows = D
  BY <1>1, <1>2, <1>3
<1>5. rows \in Injection(D, P)
  <2> HIDE DEF D
  <2> QED BY <1>3 DEF Injection, IsInjective
<1>6. Cardinality(D) = Cardinality(P)
  BY <1>2, FS_Interval
<1>7. rows \in Surjection(D, P)
  BY <1>1, <1>5, <1>6, FS_Injection
<1> HIDE DEF D
<1> QED BY <1>3, <1>4, <1>7 DEF Surjection, Range

-----------------------------------------------------------------------------
(* Every reference leads to a row                                          *)

\* A function on the first numbers is a sequence.
LEMMA FunctionIsSeq ==
  ASSUME NEW S, NEW n \in Nat, NEW f \in [1..n -> S]
  PROVE  f \in Seq(S) /\ Len(f) = n
  OBVIOUS

\* The candidates of a specifier are a sequence.
LEMMA CandidatesSeq ==
  ASSUME NEW base
  PROVE  /\ Len(Candidates(base)) \in Nat
         /\ DOMAIN Candidates(base) = 1..Len(Candidates(base))
<1>1. DOMAIN Extensions = 1..4
  BY DEF Extensions
<1> DEFINE F == [i \in 1..4 |-> Append(Front(base), [Last(base) EXCEPT !.ext = Extensions[i]])]
           G == [i \in 1..4 |-> Append(base, [stem |-> "index", ext |-> Extensions[i]])]
<1>2. Candidates(base) = IF base = <<>> THEN <<>> ELSE IF Last(base).ext # "" THEN <<base>>
                         ELSE F \o G
  BY <1>1 DEF Candidates
<1>3. \E S : F \in Seq(S) /\ G \in Seq(S)
  <2> DEFINE S == {F[i] : i \in 1..4} \cup {G[i] : i \in 1..4}
  <2>1. F \in [1..4 -> S] /\ G \in [1..4 -> S]
    OBVIOUS
  <2> HIDE DEF F, G, S
  <2>2. 4 \in Nat
    OBVIOUS
  <2>3. F \in Seq(S) /\ G \in Seq(S)
    BY <2>1, <2>2, FunctionIsSeq
  <2> QED BY <2>3
<1> HIDE DEF F, G
<1>4. PICK S : F \in Seq(S) /\ G \in Seq(S)
  BY <1>3
<1>5. F \o G \in Seq(S)
  BY <1>4
<1>6. Len(F \o G) \in Nat /\ DOMAIN (F \o G) = 1..Len(F \o G)
  BY <1>5
<1>7. Len(<<>>) = 0 /\ DOMAIN <<>> = 1..0 /\ Len(<<base>>) = 1 /\ DOMAIN <<base>> = 1..1
  OBVIOUS
<1>8. Candidates(base) \in {<<>>, <<base>>, F \o G}
  BY <1>2, Zenon
<1> HIDE <1>2
<1> QED BY <1>6, <1>7, <1>8

\* A specifier resolves to a file of the scan or to none.
LEMMA ResolvedIn ==
  ASSUME NEW path, NEW ref, NEW paths
  PROVE  ResolveRelativeSpecifier(path, ref, paths) \in paths \cup {<<>>}
<1> DEFINE dir == Front(path)
           base == SubSeq(dir, 1, Len(dir) - ref.up) \o ref.down
           C == Candidates(base)
           I == {i \in 1..Len(C) : C[i] \in paths}
           hit == SelectInSeq(C, LAMBDA c : c \in paths)
<1>1. hit = IF I # {} THEN Min(I) ELSE 0
  BY Zenon DEF SelectInSeq
<1>2. I # {} => Min(I) \in I
  <2>1. I \subseteq Nat
    BY CandidatesSeq
  <2> HIDE DEF I
  <2> QED BY <2>1, Least DEF Min
<1>3. hit # 0 => C[hit] \in paths
  <2> HIDE DEF hit, C
  <2> QED BY <1>1, <1>2
<1>4. ResolveRelativeSpecifier(path, ref, paths) =
        IF ref.local /\ ref.up <= Len(dir) /\ hit # 0 THEN C[hit] ELSE <<>>
  BY DEF ResolveRelativeSpecifier
<1> HIDE DEF hit, C, dir
<1> QED BY <1>3, <1>4

\* The rows of an attempt's code.
LEMMA StoredRows ==
  ASSUME NEW r \in Runs
  PROVE  /\ FileRows(r, Code[r]) \subseteq FileNames
         /\ \A f \in FileRows(r, Code[r]) : f[1] = r
         /\ DependencyRows(r, Code[r]) \subseteq DepRows
         /\ \A d \in DependencyRows(r, Code[r]) :
              /\ d.from \in FileRows(r, Code[r])
              /\ d.to \in FileRows(r, Code[r]) \cup {<<>>}
<1> DEFINE code == Code[r]
<1>1. FileRows(r, code) \subseteq FileNames /\ \A f \in FileRows(r, code) : f[1] = r
  BY DEF FileRows, FileNames, Paths
<1>2. ASSUME NEW d \in Dependencies(code)
      PROVE  d.source \in DOMAIN code /\ d.ref \in Refs /\ d.target \in DOMAIN code \cup {<<>>}
  <2>1. PICK p \in DOMAIN code : \E ref \in code[p] :
          d = [source |-> p, ref |-> ref,
               target |-> ResolveRelativeSpecifier(p, ref, DOMAIN code)]
    BY <1>2 DEF Dependencies
  <2>2. PICK ref \in code[p] :
          d = [source |-> p, ref |-> ref,
               target |-> ResolveRelativeSpecifier(p, ref, DOMAIN code)]
    BY <2>1
  <2>3. ref \in Refs
    BY DEF Refs
  <2> QED BY <2>2, <2>3, ResolvedIn
<1>3. ASSUME NEW x \in DependencyRows(r, code)
      PROVE  x \in DepRows /\ x.from \in FileRows(r, code)
             /\ x.to \in FileRows(r, code) \cup {<<>>}
  <2>1. PICK d \in Dependencies(code) :
          x = [from |-> <<r, d.source>>, ref |-> d.ref,
               to |-> IF d.target = <<>> THEN <<>> ELSE <<r, d.target>>]
    BY <1>3 DEF DependencyRows
  <2>2. /\ <<r, d.source>> \in FileRows(r, code)
        /\ (IF d.target = <<>> THEN <<>> ELSE <<r, d.target>>)
             \in FileRows(r, code) \cup {<<>>}
    BY <1>2 DEF FileRows
  <2> QED BY <1>1, <1>2, <2>1, <2>2 DEF DepRows
<1> QED BY <1>1, <1>3

References ==
  /\ \A d \in deps : d.from \in files /\ d.to \in files \cup {<<>>}
  /\ Ids(snaps) \subseteq Ids(apis)
  /\ \A c \in changes : /\ c.api \in Ids(apis)
                        /\ {c.old, c.new} \subseteq Ids(snaps) \cup {<<>>}

\* What storing the code leaves.
LEMMA StoreRows ==
  ASSUME Shape, References, NEW s \in Scans, NEW k \in 1..Attempts, Store(s, k)
  PROVE  /\ files' \subseteq FileNames /\ deps' \subseteq DepRows
         /\ \A d \in deps' : d.from \in files' /\ d.to \in files' \cup {<<>>}
<1> DEFINE r == <<s, k>>
           gone == run[r].gone
           made == FileRows(r, Code[r])
           new == DependencyRows(r, Code[r])
           Cut(d) == [d EXCEPT !.to = IF @ \in gone THEN <<>> ELSE @]
<1>1. CASE UNCHANGED codeVars
  BY <1>1 DEF codeVars, Shape, References
<1>2. CASE /\ files' = (files \ gone) \cup made
           /\ deps' = {Cut(d) : d \in {x \in deps : x.from \notin gone}} \cup new
  <2>1. r \in Runs
    BY RunIs
  <2>2. made \subseteq FileNames /\ new \subseteq DepRows
        /\ \A d \in new : d.from \in made /\ d.to \in made \cup {<<>>}
    BY <2>1, StoredRows
  <2>3. ASSUME NEW d \in deps, d.from \notin gone
        PROVE  Cut(d) \in DepRows /\ Cut(d).from \in files \ gone
               /\ Cut(d).to \in (files \ gone) \cup {<<>>}
    <3>1. d \in DepRows /\ d.from \in files /\ d.to \in files \cup {<<>>}
      BY DEF Shape, References
    <3>2. Cut(d).from = d.from /\ Cut(d).ref = d.ref
          /\ Cut(d).to = (IF d.to \in gone THEN <<>> ELSE d.to) /\ Cut(d) \in DepRows
      BY <3>1 DEF DepRows
    <3> QED BY <2>3, <3>1, <3>2
  <2>4. files \subseteq FileNames
    BY DEF Shape
  <2> HIDE DEF made, new, gone, Cut
  <2> QED BY <1>2, <2>2, <2>3, <2>4
<1> QED BY <1>1, <1>2 DEF Store

\* What replacing the APIs leaves.
LEMMA ReplaceRows ==
  ASSUME Shape, References, NEW s \in Scans, NEW k \in 1..Attempts, Replace(s, k)
  PROVE  /\ apis' \subseteq ApiRows /\ snaps' \subseteq SnapRows
         /\ changes' \subseteq ChangeRows /\ IsFiniteSet(snaps')
         /\ Ids(snaps)' \subseteq Ids(apis)'
         /\ \A c \in changes' : /\ c.api \in Ids(apis)'
                                /\ {c.old, c.new} \subseteq Ids(snaps)' \cup {<<>>}
<1> DEFINE gone == run[<<s, k>>].gone
           Cut(c) == [c EXCEPT !.old = IF @ \in gone THEN <<>> ELSE @,
                               !.new = IF @ \in gone THEN <<>> ELSE @]
<1>1. /\ snaps' = {x \in snaps : x.id \notin gone}
      /\ changes' = {Cut(c) : c \in {x \in changes : x.api \notin gone}}
      /\ apis' = {x \in apis : x.id \notin gone} \cup Range(Rows(s, k))
  BY DEF Replace, Cascade
<1>2. Range(Rows(s, k)) \subseteq ApiRows
  BY RowsType
<1>3. apis' \subseteq ApiRows /\ snaps' \subseteq SnapRows /\ snaps' \subseteq snaps
  BY <1>1, <1>2 DEF Shape
<1>4. IsFiniteSet(snaps')
  BY <1>3, FS_Subset DEF Shape
<1>5. Ids(snaps)' = Ids(snaps) \ gone /\ Ids(apis) \ gone \subseteq Ids(apis)'
  BY <1>1 DEF Ids
<1>6. ASSUME NEW c \in changes, c.api \notin gone
      PROVE  /\ Cut(c) \in ChangeRows /\ Cut(c).api \in Ids(apis) \ gone
             /\ Cut(c).old \in (Ids(snaps) \ gone) \cup {<<>>}
             /\ Cut(c).new \in (Ids(snaps) \ gone) \cup {<<>>}
  <2>1. c \in ChangeRows /\ c.api \in Ids(apis)
        /\ c.old \in Ids(snaps) \cup {<<>>} /\ c.new \in Ids(snaps) \cup {<<>>}
    BY DEF Shape, References
  <2>2. /\ Cut(c) \in ChangeRows /\ Cut(c).api = c.api
        /\ Cut(c).old = (IF c.old \in gone THEN <<>> ELSE c.old)
        /\ Cut(c).new = (IF c.new \in gone THEN <<>> ELSE c.new)
    BY <2>1 DEF ChangeRows
  <2> QED BY <1>6, <2>1, <2>2
<1> HIDE DEF gone, Cut
<1>7. changes' \subseteq ChangeRows
  BY <1>1, <1>6
<1>8. \A c \in changes' : /\ c.api \in Ids(apis)'
                          /\ {c.old, c.new} \subseteq Ids(snaps)' \cup {<<>>}
  BY <1>1, <1>5, <1>6
<1>9. Ids(snaps)' \subseteq Ids(apis)'
  BY <1>5 DEF References
<1> QED BY <1>3, <1>4, <1>7, <1>8, <1>9

\* What writing the report leaves.
LEMMA WriteRows ==
  ASSUME Shape, References, NEW s \in Scans, NEW k \in 1..Attempts, Write(s, k)
  PROVE  /\ snaps' \subseteq SnapRows
         /\ changes' \subseteq ChangeRows /\ IsFiniteSet(snaps')
         /\ Ids(snaps)' \subseteq Ids(apis)'
         /\ \A c \in changes' : /\ c.api \in Ids(apis)'
                                /\ {c.old, c.new} \subseteq Ids(snaps)' \cup {<<>>}
<1> DEFINE made == NewSnapshots(s, k)
           report == NewChanges(s, k)
<1>1. apis' = apis
  BY DEF Write
<1>2. CASE UNCHANGED <<snaps, changes>>
  BY <1>1, <1>2 DEF Shape, References, Ids
<1>3. CASE /\ Ids(made) \cup {c.api : c \in report} \subseteq Ids(apis)
           /\ {c.old : c \in report} \cup {c.new : c \in report}
                \subseteq Ids(snaps \cup made) \cup {<<>>}
           /\ snaps' = snaps \cup made
           /\ changes' = {c \in changes : c.scan # s} \cup report
  <2>1. made \subseteq SnapRows /\ IsFiniteSet(made) /\ report \subseteq ChangeRows
    BY NewSnapshotsType, NewChangesType
  <2>2. IsFiniteSet(snaps')
    BY <1>3, <2>1, FS_Union DEF Shape
  <2> HIDE DEF made, report
  <2>3. Ids(snaps)' = Ids(snaps) \cup Ids(made) /\ Ids(apis)' = Ids(apis)
        /\ Ids(snaps \cup made) = Ids(snaps) \cup Ids(made)
    BY <1>1, <1>3 DEF Ids
  <2>4. \A c \in changes' : /\ c.api \in Ids(apis)
                            /\ {c.old, c.new} \subseteq Ids(snaps)' \cup {<<>>}
    BY <1>3, <2>3 DEF References
  <2> QED BY <1>3, <2>1, <2>2, <2>3, <2>4 DEF Shape, References
<1> QED BY <1>2, <1>3 DEF Write

-----------------------------------------------------------------------------
(* Type correctness                                                        *)

\* The steps of an attempt.
Acts(s, k) ==
  \/ Start(s, k) \/ OpenStore(s, k) \/ Store(s, k)
  \/ \E commit \in Commits[<<s, k>>] : OpenReplace(s, k, commit)
  \/ Replace(s, k) \/ FindPrevious(s, k) \/ ReadSnapshots(s, k)
  \/ Write(s, k) \/ Complete(s, k)
  \/ Fail(s, k) \/ FailLate(s, k) \/ Detach(s, k)

\* The steps of the system.
LEMMA NextIs ==
  ASSUME [Next]_vars
  PROVE  \/ UNCHANGED vars
         \/ \E s \in Scans : Request(s)
         \/ \E s \in Scans, k \in 1..Attempts : Acts(s, k)
  BY Zenon DEF Next, Acts

StatusSet == {"ABSENT", "QUEUED", "RUNNING", "COMPLETED", "FAILED"}

\* One status changes.
LEMMA StatusMoves ==
  ASSUME Shape, NEW s \in Scans, NEW x \in StatusSet
  PROVE  [status EXCEPT ![s] = x] \in [Scans -> StatusSet]
  BY DEF Shape, StatusSet

\* The points at which an attempt is at work.
LEMMA BusyIs ==
  ASSUME Shape, NEW s \in Scans, NEW k \in 1..Attempts
  PROVE  InProgress(<<s, k>>) <=> run[<<s, k>>].pc \in Busy
  BY DEF InProgress, Busy

\* The type of the attempts and of the statuses.
LEMMA RunType ==
  ASSUME Shape, [Next]_vars
  PROVE  run' \in [Runs -> AttemptRecords] /\ status' \in [Scans -> StatusSet]
<1>1. CASE UNCHANGED vars
  BY <1>1 DEF vars, Shape, StatusSet
<1>2. ASSUME NEW s \in Scans, Request(s)
      PROVE  run' \in [Runs -> AttemptRecords] /\ status' \in [Scans -> StatusSet]
  <2>1. "QUEUED" \in StatusSet
    BY DEF StatusSet
  <2> QED BY <1>2, <2>1, StatusMoves DEF Request, Shape
<1>3. ASSUME NEW s \in Scans, NEW k \in 1..Attempts, Acts(s, k)
      PROVE  run' \in [Runs -> AttemptRecords] /\ status' \in [Scans -> StatusSet]
  <2> DEFINE x == run[<<s, k>>]
             Good == run' \in [Runs -> AttemptRecords] /\ status' \in [Scans -> StatusSet]
  <2>1. x \in AttemptRecords /\ <<s, k>> \in Runs /\ status \in [Scans -> StatusSet]
    BY RunIs, Steps DEF Shape, StatusSet
  <2>2. Throw(s, k) => Good
    <3>1. "FAILED" \in StatusSet
      BY DEF StatusSet
    <3> QED BY <2>1, <3>1, Thrown, StatusMoves
  <2>3. \A e \in AttemptRecords : run' = [run EXCEPT ![<<s, k>>] = e]
                                  => run' \in [Runs -> AttemptRecords]
    BY <2>1, Moved
  <2>4. \A pc \in Busy \cup {"idle", "done", "failed"} :
          Go(<<s, k>>, pc) => run' \in [Runs -> AttemptRecords]
    <3>1. \A pc \in Busy \cup {"idle", "done", "failed"} :
            [x EXCEPT !.pc = pc] \in AttemptRecords
      BY <2>1, EditType
    <3>2. \A pc : Go(<<s, k>>, pc) => run' = [run EXCEPT ![<<s, k>>] = [x EXCEPT !.pc = pc]]
      BY Steps
    <3> HIDE DEF x
    <3> QED BY <2>3, <3>1, <3>2
  <2>5. {"code", "storing", "replace", "replacing", "base", "read", "write", "complete",
         "failed", "done"} \subseteq Busy \cup {"idle", "done", "failed"}
    BY DEF Busy
  <2>6. \A y \in AttemptRecords : \A pc \in Busy \cup {"idle", "done", "failed"} :
          \A g \in SUBSET (FileNames \cup Names) :
            [y EXCEPT !.pc = pc, !.gone = g] \in AttemptRecords
    <3> TAKE y \in AttemptRecords
    <3> TAKE pc \in Busy \cup {"idle", "done", "failed"}
    <3> TAKE g \in SUBSET (FileNames \cup Names)
    <3> DEFINE z == [y EXCEPT !.pc = pc]
    <3>1. z \in AttemptRecords
      BY EditType
    <3>2. [z EXCEPT !.gone = g] \in AttemptRecords
      BY <3>1, EditType
    <3> QED BY <3>2
  <2>7. CASE Start(s, k)
    <3>1. "RUNNING" \in StatusSet
      BY DEF StatusSet
    <3>2. Go(<<s, k>>, "code") /\ status' = [status EXCEPT ![s] = "RUNNING"]
      BY <2>7 DEF Start
    <3> QED BY <2>4, <2>5, <3>1, <3>2, StatusMoves
  <2>8. CASE OpenStore(s, k)
    <3>1. FilesOf(s) \in SUBSET (FileNames \cup Names)
      BY FilesType
    <3>2. [x EXCEPT !.pc = "storing", !.gone = FilesOf(s)] \in AttemptRecords
      BY <2>1, <2>5, <2>6, <3>1
    <3>3. status' = status
      BY <2>8 DEF OpenStore
    <3>9. run' = [run EXCEPT ![<<s, k>>] = [x EXCEPT !.pc = "storing", !.gone = FilesOf(s)]]
      BY <2>8, Steps, Zenon
    <3> QED BY <2>1, <2>3, <3>9, <3>2, <3>3
  <2>9. CASE Store(s, k) /\ ~Throw(s, k)
    <3>1. [x EXCEPT !.pc = "replace", !.gone = {}] \in AttemptRecords
      BY <2>1, <2>5, <2>6
    <3>2. status' = status
      BY <2>9 DEF Store
    <3>9. run' = [run EXCEPT ![<<s, k>>] = [x EXCEPT !.pc = "replace", !.gone = {}]]
      BY <2>9, Steps, Zenon
    <3> QED BY <2>1, <2>3, <3>9, <3>1, <3>2
  <2>10. ASSUME NEW commit \in Commits[<<s, k>>], OpenReplace(s, k, commit)
         PROVE  Good
    <3> DEFINE y == [x EXCEPT !.pc = "replacing", !.gone = Old(s)]
    <3>1. Old(s) \in SUBSET (FileNames \cup Names)
      BY OldType
    <3>2. y \in AttemptRecords
      BY <2>1, <2>5, <2>6, <3>1
    <3>3. commit \in Seq(Contracts)
      BY <2>1, CommitsAssumption
    <3>4. [y EXCEPT !.found = commit] \in AttemptRecords
      <4> HIDE DEF y
      <4> QED BY <3>2, <3>3, EditType
    <3>5. run' = [run EXCEPT ![<<s, k>>] = [y EXCEPT !.found = commit]]
      <4>1. run' = [run EXCEPT ![<<s, k>>] =
              [x EXCEPT !.pc = "replacing", !.gone = Old(s), !.found = commit]]
        BY <2>1, <2>10 DEF OpenReplace
      <4> QED BY <4>1, Zenon
    <3>6. status' = status
      BY <2>10 DEF OpenReplace
    <3> HIDE DEF y
    <3> QED BY <2>1, <2>3, <3>4, <3>5, <3>6
  <2>11. CASE Replace(s, k) /\ ~Throw(s, k)
    <3>1. [x EXCEPT !.pc = "base", !.gone = {}] \in AttemptRecords
      BY <2>1, <2>5, <2>6
    <3>2. status' = status
      BY <2>11 DEF Replace
    <3>9. run' = [run EXCEPT ![<<s, k>>] = [x EXCEPT !.pc = "base", !.gone = {}]]
      BY <2>11, Steps, Zenon
    <3> QED BY <2>1, <2>3, <3>9, <3>1, <3>2
  <2>12. CASE FindPrevious(s, k)
    <3> DEFINE pc == IF Earlier(s) = {} THEN "write" ELSE "read"
               b == IF Earlier(s) = {} THEN 0 ELSE LastOf(Earlier(s))
               y == [x EXCEPT !.pc = pc]
    <3>1. pc \in Busy \cup {"idle", "done", "failed"} /\ b \in 0..LastScan
      BY <2>5, BaseType
    <3> HIDE DEF pc, b
    <3>2. y \in AttemptRecords
      BY <2>1, <3>1, EditType
    <3>3. [y EXCEPT !.base = b] \in AttemptRecords
      <4> HIDE DEF y
      <4> QED BY <3>1, <3>2, EditType
    <3>4. run' = [run EXCEPT ![<<s, k>>] = [y EXCEPT !.base = b]]
      BY <2>12, Steps DEF pc, b
    <3>5. status' = status
      BY <2>12 DEF FindPrevious
    <3> HIDE DEF y
    <3> QED BY <2>1, <2>3, <3>3, <3>4, <3>5
  <2>13. CASE ReadSnapshots(s, k)
    <3>1. PICK rows \in SetToSeqs({q \in snaps : q.id[1] = x.base}) :
            run' = [run EXCEPT ![<<s, k>>] = [x EXCEPT !.pc = "write", !.prev = rows]]
      <4>1. \E rows \in SetToSeqs({q \in snaps : q.id[1] = x.base}) :
              run' = [run EXCEPT ![<<s, k>>].pc = "write", ![<<s, k>>].prev = rows]
        BY <2>13 DEF ReadSnapshots
      <4> QED BY <2>1, <4>1
    <3> DEFINE y == [x EXCEPT !.pc = "write"]
    <3>2. y \in AttemptRecords
      BY <2>1, <2>5, EditType
    <3>3. rows \in Seq(SnapRows)
      <4> DEFINE P == {q \in snaps : q.id[1] = x.base}
      <4>1. P \subseteq snaps
        OBVIOUS
      <4> HIDE DEF P
      <4> QED BY <4>1, ReadType DEF P
    <3>4. [y EXCEPT !.prev = rows] \in AttemptRecords
      <4> HIDE DEF y
      <4> QED BY <3>2, <3>3, EditType
    <3>5. run' = [run EXCEPT ![<<s, k>>] = [y EXCEPT !.prev = rows]]
      BY <3>1
    <3>6. status' = status
      BY <2>13 DEF ReadSnapshots
    <3> HIDE DEF y
    <3> QED BY <2>1, <2>3, <3>4, <3>5, <3>6
  <2>14. CASE Write(s, k) /\ ~Throw(s, k)
    <3>1. Go(<<s, k>>, "complete") /\ status' = status
      BY <2>14 DEF Write
    <3> QED BY <2>1, <2>4, <2>5, <3>1
  <2>15. CASE Complete(s, k) /\ ~Throw(s, k)
    <3> DEFINE y == [Fresh EXCEPT !.pc = "done"]
    <3>1. y \in AttemptRecords
      BY <2>5, FreshType, EditType
    <3>2. x.base \in 0..LastScan
      BY <2>1 DEF AttemptRecords
    <3>3. [y EXCEPT !.base = x.base] \in AttemptRecords
      <4> HIDE DEF y
      <4> QED BY <3>1, <3>2, EditType
    <3>4. run' = [run EXCEPT ![<<s, k>>] = [y EXCEPT !.base = x.base]]
      BY <2>15, Steps
    <3>5. status' = [status EXCEPT ![s] = "COMPLETED"] /\ "COMPLETED" \in StatusSet
      BY <2>15 DEF Complete, StatusSet
    <3> HIDE DEF y
    <3> QED BY <2>1, <2>3, <3>3, <3>4, <3>5, StatusMoves
  <2>16. CASE FailLate(s, k)
    <3>1. Go(<<s, k>>, "failed") /\ status' = status
      BY <2>16 DEF FailLate
    <3> QED BY <2>1, <2>4, <2>5, <3>1
  <2>17. CASE Detach(s, k)
    <3>1. [x EXCEPT !.aborted = TRUE] \in AttemptRecords
      BY <2>1, EditType
    <3>2. status' = [status EXCEPT ![s] = "FAILED"] /\ "FAILED" \in StatusSet
      BY <2>17 DEF Detach, StatusSet
    <3>9. run' = [run EXCEPT ![<<s, k>>] = [x EXCEPT !.aborted = TRUE]]
      BY <2>17, Steps, Zenon
    <3> QED BY <2>1, <2>3, <3>9, <3>1, <3>2, StatusMoves
  <2>18. Fail(s, k) => Throw(s, k)
    BY DEF Fail
  <2> HIDE DEF Good, x
  <2> QED BY <1>3, <2>2, <2>7, <2>8, <2>9, <2>10, <2>11, <2>12, <2>13, <2>14, <2>15,
             <2>16, <2>17, <2>18 DEF Good, Acts
<1> QED BY <1>1, <1>2, <1>3, NextIs, Zenon

\* The rows and the disturbances.
LEMMA RowsStep ==
  ASSUME Shape, References, [Next]_vars
  PROVE  /\ files' \subseteq FileNames /\ deps' \subseteq DepRows
         /\ apis' \subseteq ApiRows /\ snaps' \subseteq SnapRows
         /\ changes' \subseteq ChangeRows /\ IsFiniteSet(snaps')
         /\ References'
<1> DEFINE Old2 == /\ files \subseteq FileNames /\ deps \subseteq DepRows
                   /\ apis \subseteq ApiRows /\ snaps \subseteq SnapRows
                   /\ changes \subseteq ChangeRows /\ IsFiniteSet(snaps)
           Codes == /\ files' \subseteq FileNames /\ deps' \subseteq DepRows
                    /\ \A d \in deps' : d.from \in files' /\ d.to \in files' \cup {<<>>}
           Apis == /\ apis' \subseteq ApiRows /\ snaps' \subseteq SnapRows
                   /\ changes' \subseteq ChangeRows /\ IsFiniteSet(snaps')
                   /\ Ids(snaps)' \subseteq Ids(apis)'
                   /\ \A c \in changes' : /\ c.api \in Ids(apis)'
                                /\ {c.old, c.new} \subseteq Ids(snaps)' \cup {<<>>}
<1>1. UNCHANGED codeVars => Codes
  BY DEF codeVars, Shape, References
<1>2. UNCHANGED apiVars => Apis
  BY DEF apiVars, Shape, References, Ids
<1>3. Codes /\ Apis
  <2>1. CASE UNCHANGED vars
    BY <1>1, <1>2, <2>1 DEF vars
  <2>2. ASSUME NEW s \in Scans, Request(s) PROVE Codes /\ Apis
    BY <1>1, <1>2, <2>2 DEF Request
  <2>3. ASSUME NEW s \in Scans, NEW k \in 1..Attempts, Acts(s, k)
        PROVE  Codes /\ Apis
    <3>1. Store(s, k) => Codes /\ UNCHANGED apiVars
      BY StoreRows, Zenon DEF Store
    <3>2. Replace(s, k) => Apis /\ UNCHANGED codeVars
      BY ReplaceRows, Zenon DEF Replace
    <3>3. Write(s, k) => Apis /\ UNCHANGED codeVars
      <4>1. Write(s, k) => UNCHANGED codeVars /\ apis' = apis
        BY DEF Write
      <4>2. apis' = apis => apis' \subseteq ApiRows
        BY DEF Shape
      <4> QED BY <4>1, <4>2, WriteRows, Zenon
    <3>4. ASSUME NEW commit, OpenReplace(s, k, commit) PROVE UNCHANGED <<codeVars, apiVars>>
      BY <3>4 DEF OpenReplace
    <3>5. \/ Start(s, k) \/ OpenStore(s, k) \/ FindPrevious(s, k) \/ ReadSnapshots(s, k)
          \/ Complete(s, k) \/ Fail(s, k) \/ FailLate(s, k) \/ Detach(s, k)
          => UNCHANGED codeVars /\ UNCHANGED apiVars
      BY Zenon DEF Start, OpenStore, FindPrevious, ReadSnapshots, Complete, Fail, FailLate,
                   Detach
    <3> HIDE DEF Codes, Apis
    <3> QED BY <1>1, <1>2, <2>3, <3>1, <3>2, <3>3, <3>4, <3>5 DEF Acts
  <2> QED BY <2>1, <2>2, <2>3, NextIs, Zenon
<1> QED BY <1>3 DEF References

\* Disturbances are counted and never taken back.
LEMMA SpentStep ==
  ASSUME Shape, [Next]_vars
  PROVE  /\ used' \in [Disturbances -> Nat]
         /\ \A d \in Disturbances : used'[d] <= Limit[d] /\ used[d] <= used'[d]
<1> DEFINE Good == /\ used' \in [Disturbances -> Nat]
                   /\ \A d \in Disturbances : used'[d] <= Limit[d] /\ used[d] <= used'[d]
<1>1. used' = used => Good
  BY LimitAssumption DEF Shape
<1>2. \A d \in Disturbances : Spend(d) => Good
  BY SpendType
<1>3. {"failure", "rerun", "detach"} \subseteq Disturbances
  BY DEF Disturbances
<1>4. used' = used \/ \E d \in Disturbances : Spend(d)
  <2>1. CASE UNCHANGED vars
    BY <2>1 DEF vars
  <2>2. ASSUME NEW s \in Scans, Request(s) PROVE used' = used
    BY <2>2 DEF Request
  <2>3. ASSUME NEW s \in Scans, NEW k \in 1..Attempts, Acts(s, k)
        PROVE  used' = used \/ \E d \in Disturbances : Spend(d)
    <3>1. \/ Start(s, k) \/ OpenStore(s, k) \/ Store(s, k) \/ Replace(s, k)
          \/ FindPrevious(s, k) \/ ReadSnapshots(s, k) \/ Write(s, k) \/ Complete(s, k)
          => used' = used
      BY Zenon DEF Start, OpenStore, Store, Replace, FindPrevious, ReadSnapshots, Write,
                   Complete
    <3>2. \A commit : OpenReplace(s, k, commit) => used' = used
      BY Zenon DEF OpenReplace
    <3>3. /\ Fail(s, k) => Spend("failure")
          /\ FailLate(s, k) => Spend("rerun")
          /\ Detach(s, k) => Spend("detach")
      BY Zenon DEF Fail, FailLate, Detach
    <3> QED BY <1>3, <2>3, <3>1, <3>2, <3>3 DEF Acts
  <2> QED BY <2>1, <2>2, <2>3, NextIs, Zenon
<1> QED BY <1>1, <1>2, <1>4, Zenon

-----------------------------------------------------------------------------
(* Taking turns                                                            *)

Quiet(d) == used[d] = 0

\* What has not happened yet had not happened before.
LEMMA QuietBefore ==
  ASSUME Shape, [Next]_vars, NEW d \in Disturbances, Quiet(d)'
  PROVE  Quiet(d)
<1>1. used'[d] = 0 /\ used[d] <= used'[d] /\ used[d] \in Nat
  BY SpentStep DEF Shape, Quiet
<1> QED BY <1>1 DEF Quiet

\* How a step of an attempt moves it and its scan, unless it times out.
Moves(s, k) ==
  LET x == run[<<s, k>>]
      y == run'[<<s, k>>]
  IN
  /\ \A r \in Runs : r # <<s, k>> => run'[r] = run[r]
  /\ \A t \in Scans : t # s => status'[t] = status[t]
  /\ y.aborted = x.aborted
  /\ \/ /\ Start(s, k) /\ x.pc = "idle" /\ y.pc = "code"
        /\ status'[s] = "RUNNING"
     \/ x.pc \in Busy /\ y.pc \in Busy /\ status'[s] = status[s]
     \/ /\ x.pc \in Busy /\ y.pc = "failed"
        /\ status'[s] = IF status[s] = "RUNNING" /\ ~x.aborted THEN "FAILED" ELSE status[s]
     \/ /\ x.pc = "complete" /\ y.pc = "done" /\ ~x.aborted
        /\ status[s] = "RUNNING" /\ status'[s] = "COMPLETED"
     \/ x.pc = "done" /\ y.pc = "failed" /\ status'[s] = status[s] /\ ~Quiet("rerun")'

\* Every step of an attempt but the timeout moves it in one of these ways.
LEMMA MovesIs ==
  ASSUME Shape, NEW s \in Scans, NEW k \in 1..Attempts, Acts(s, k), ~Detach(s, k)
  PROVE  Moves(s, k)
<1> DEFINE r == <<s, k>>
           x == run[r]
           y == run'[r]
<1>1. /\ x \in AttemptRecords /\ r \in Runs /\ run \in [Runs -> AttemptRecords]
      /\ status \in [Scans -> StatusSet]
  BY RunIs, Steps DEF Shape, StatusSet
<1>2. ASSUME Throw(s, k), x.pc \in Busy PROVE Moves(s, k)
  BY <1>1, <1>2, Thrown DEF Moves
<1>3. ASSUME NEW e, run' = [run EXCEPT ![r] = e]
      PROVE  run'[r] = e /\ \A q \in Runs : q # r => run'[q] = run[q]
  BY <1>1, <1>3
<1>4. {"code", "storing", "replace", "replacing", "base", "read", "write", "complete"}
        \subseteq Busy
  BY DEF Busy
<1>5. DOMAIN x = {"pc", "aborted", "gone", "found", "base", "prev"}
  BY <1>1 DEF AttemptRecords
<1>6. ASSUME status' = status, x.pc \in Busy, y.pc \in Busy, y.aborted = x.aborted,
             \A q \in Runs : q # r => run'[q] = run[q]
      PROVE  Moves(s, k)
  BY <1>6 DEF Moves
<1>7. CASE Start(s, k)
  <2>1. run' = [run EXCEPT ![r] = [x EXCEPT !.pc = "code"]] /\ x.pc = "idle"
        /\ status' = [status EXCEPT ![s] = "RUNNING"]
    BY <1>1, <1>7 DEF Start, Go
  <2>2. y = [x EXCEPT !.pc = "code"] /\ \A q \in Runs : q # r => run'[q] = run[q]
    BY <1>3, <2>1
  <2>3. y.pc = "code" /\ y.aborted = x.aborted
    BY <1>5, <2>2
  <2>4. status'[s] = "RUNNING" /\ \A t \in Scans : t # s => status'[t] = status[t]
    BY <1>1, <2>1
  <2> QED BY <1>7, <2>1, <2>2, <2>3, <2>4 DEF Moves
<1>8. CASE OpenStore(s, k)
  <2>1. /\ run' = [run EXCEPT ![r] = [x EXCEPT !.pc = "storing", !.gone = FilesOf(s)]]
        /\ status' = status /\ x.pc = "code"
    BY <1>1, <1>8 DEF OpenStore
  <2>2. y = [x EXCEPT !.pc = "storing", !.gone = FilesOf(s)]
        /\ \A q \in Runs : q # r => run'[q] = run[q]
    BY <1>3, <2>1
  <2>3. y.pc = "storing" /\ y.aborted = x.aborted
    BY <1>5, <2>2
  <2> QED BY <1>4, <1>6, <2>1, <2>2, <2>3
<1>9. CASE Store(s, k) /\ ~Throw(s, k)
  <2>1. /\ run' = [run EXCEPT ![r] = [x EXCEPT !.pc = "replace", !.gone = {}]]
        /\ status' = status /\ x.pc = "storing"
    BY <1>1, <1>9 DEF Store
  <2>2. y = [x EXCEPT !.pc = "replace", !.gone = {}]
        /\ \A q \in Runs : q # r => run'[q] = run[q]
    BY <1>3, <2>1
  <2>3. y.pc = "replace" /\ y.aborted = x.aborted
    BY <1>5, <2>2
  <2> QED BY <1>4, <1>6, <2>1, <2>2, <2>3
<1>10. ASSUME NEW commit, OpenReplace(s, k, commit) PROVE Moves(s, k)
  <2>1. /\ run' = [run EXCEPT ![r] =
             [x EXCEPT !.pc = "replacing", !.gone = Old(s), !.found = commit]]
        /\ status' = status /\ x.pc = "replace"
    BY <1>1, <1>10 DEF OpenReplace
  <2>2. y = [x EXCEPT !.pc = "replacing", !.gone = Old(s), !.found = commit]
        /\ \A q \in Runs : q # r => run'[q] = run[q]
    BY <1>3, <2>1
  <2>3. y.pc = "replacing" /\ y.aborted = x.aborted
    BY <1>5, <2>2
  <2> QED BY <1>4, <1>6, <2>1, <2>2, <2>3
<1>11. CASE Replace(s, k) /\ ~Throw(s, k)
  <2>1. /\ run' = [run EXCEPT ![r] = [x EXCEPT !.pc = "base", !.gone = {}]]
        /\ status' = status /\ x.pc = "replacing"
    BY <1>1, <1>11 DEF Replace
  <2>2. y = [x EXCEPT !.pc = "base", !.gone = {}]
        /\ \A q \in Runs : q # r => run'[q] = run[q]
    BY <1>3, <2>1
  <2>3. y.pc = "base" /\ y.aborted = x.aborted
    BY <1>5, <2>2
  <2> QED BY <1>4, <1>6, <2>1, <2>2, <2>3
<1>12. CASE FindPrevious(s, k)
  <2> DEFINE pc == IF Earlier(s) = {} THEN "write" ELSE "read"
             b == IF Earlier(s) = {} THEN 0 ELSE LastOf(Earlier(s))
  <2>1. /\ run' = [run EXCEPT ![r] = [x EXCEPT !.pc = pc, !.base = b]]
        /\ status' = status /\ x.pc = "base"
    BY <1>1, <1>12 DEF FindPrevious
  <2>2. pc \in {"write", "read"}
    OBVIOUS
  <2> HIDE DEF pc, b
  <2>3. y = [x EXCEPT !.pc = pc, !.base = b]
        /\ \A q \in Runs : q # r => run'[q] = run[q]
    BY <1>3, <2>1
  <2>4. y.pc = pc /\ y.aborted = x.aborted
    BY <1>5, <2>3
  <2> QED BY <1>4, <1>6, <2>1, <2>2, <2>3, <2>4
<1>13. CASE ReadSnapshots(s, k)
  <2>1. PICK rows : run' = [run EXCEPT ![r] = [x EXCEPT !.pc = "write", !.prev = rows]]
    BY <1>1, <1>13 DEF ReadSnapshots
  <2>2. status' = status /\ x.pc = "read"
    BY <1>13 DEF ReadSnapshots
  <2>3. y = [x EXCEPT !.pc = "write", !.prev = rows]
        /\ \A q \in Runs : q # r => run'[q] = run[q]
    BY <1>3, <2>1
  <2>4. y.pc = "write" /\ y.aborted = x.aborted
    BY <1>5, <2>3
  <2> QED BY <1>4, <1>6, <2>2, <2>3, <2>4
<1>14. CASE Write(s, k) /\ ~Throw(s, k)
  <2>1. /\ run' = [run EXCEPT ![r] = [x EXCEPT !.pc = "complete"]]
        /\ status' = status /\ x.pc = "write"
    BY <1>1, <1>14 DEF Write, Go
  <2>2. y = [x EXCEPT !.pc = "complete"] /\ \A q \in Runs : q # r => run'[q] = run[q]
    BY <1>3, <2>1
  <2>3. y.pc = "complete" /\ y.aborted = x.aborted
    BY <1>5, <2>2
  <2> QED BY <1>4, <1>6, <2>1, <2>2, <2>3
<1>15. CASE Complete(s, k) /\ ~Throw(s, k)
  <2>1. /\ run' = [run EXCEPT ![r] = [Fresh EXCEPT !.pc = "done", !.base = x.base]]
        /\ status' = [status EXCEPT ![s] = "COMPLETED"] /\ x.pc = "complete"
        /\ status[s] = "RUNNING" /\ ~x.aborted
    BY <1>15 DEF Complete
  <2>2. y = [Fresh EXCEPT !.pc = "done", !.base = x.base]
        /\ \A q \in Runs : q # r => run'[q] = run[q]
    BY <1>3, <2>1
  <2>3. y.pc = "done" /\ y.aborted = FALSE /\ x.aborted = FALSE
    BY <1>1, <2>1, <2>2 DEF Fresh, AttemptRecords
  <2>4. status'[s] = "COMPLETED" /\ \A t \in Scans : t # s => status'[t] = status[t]
    BY <1>1, <2>1
  <2> QED BY <2>1, <2>2, <2>3, <2>4 DEF Moves
<1>16. CASE FailLate(s, k)
  <2>1. run' = [run EXCEPT ![r] = [x EXCEPT !.pc = "failed"]] /\ x.pc = "done"
        /\ status' = status /\ Spend("rerun")
    BY <1>1, <1>16 DEF FailLate, Go
  <2>2. y = [x EXCEPT !.pc = "failed"] /\ \A q \in Runs : q # r => run'[q] = run[q]
    BY <1>3, <2>1
  <2>3. y.pc = "failed" /\ y.aborted = x.aborted
    BY <1>5, <2>2
  <2>4. ~Quiet("rerun")'
    <3>1. "rerun" \in Disturbances
      BY DEF Disturbances
    <3> QED BY <2>1, <3>1, SpendType DEF Quiet
  <2> QED BY <2>1, <2>2, <2>3, <2>4 DEF Moves
<1>17. Fail(s, k) => Throw(s, k) /\ x.pc \in Busy
  BY BusyIs DEF Fail
<1>18. (Store(s, k) \/ Replace(s, k) \/ Write(s, k) \/ Complete(s, k)) => x.pc \in Busy
  BY <1>4 DEF Store, Replace, Write, Complete
<1> HIDE DEF x, y, r
<1> QED BY <1>2, <1>7, <1>8, <1>9, <1>10, <1>11, <1>12, <1>13, <1>14, <1>15, <1>16, <1>17,
           <1>18 DEF Acts, x, r

\* A timeout leaves a trace.
LEMMA Detached ==
  ASSUME Shape, NEW s \in Scans, NEW k \in 1..Attempts, Detach(s, k)
  PROVE  ~Quiet("detach")'
<1>1. "detach" \in Disturbances /\ Spend("detach")
  BY DEF Disturbances, Detach
<1> QED BY <1>1, SpendType DEF Quiet

\* No attempt overlaps another one of its scan, and its scan is running.
Turns ==
  /\ \A r \in Runs : ~run[r].aborted
  /\ \A s \in Scans, k \in 1..Attempts :
       /\ run[<<s, k>>].pc # "idle" => \A j \in 1..(k - 1) : run[<<s, j>>].pc = "failed"
       /\ run[<<s, k>>].pc \in Busy => status[s] = "RUNNING"
       /\ status[s] \in {"ABSENT", "QUEUED"} => run[<<s, k>>].pc = "idle"

\* A completed scan has an attempt that completed it.
Settled ==
  \A s \in Scans : status[s] = "COMPLETED" =>
    \E k \in 1..Attempts : run[<<s, k>>].pc = "done"

\* No attempt has begun.
LEMMA TurnsInit == Init => Turns /\ Settled
  BY DEF Init, Turns, Settled, Fresh, Busy, Runs

\* The points of an attempt.
LEMMA BusyIn ==
  /\ "idle" \notin Busy /\ "done" \notin Busy /\ "failed" \notin Busy
  /\ "code" \in Busy /\ "complete" \in Busy
  BY DEF Busy

\* Without timeouts, a new attempt starts only when the ones before have failed.
LEMMA TurnsStep ==
  ASSUME Shape, Turns, [Next]_vars, Quiet("detach")'
  PROVE  Turns'
<1> USE BusyIn
<1>1. CASE UNCHANGED vars
  BY <1>1 DEF vars, Turns
<1>2. ASSUME NEW s \in Scans, Request(s) PROVE Turns'
  <2>1. run' = run /\ status' = [status EXCEPT ![s] = "QUEUED"] /\ status[s] = "ABSENT"
    BY <1>2 DEF Request
  <2>2. status'[s] = "QUEUED" /\ \A t \in Scans : t # s => status'[t] = status[t]
    BY <2>1 DEF Shape
  <2> QED BY <2>1, <2>2 DEF Turns
<1>3. ASSUME NEW s \in Scans, NEW k \in 1..Attempts, Acts(s, k) PROVE Turns'
  <2>1. Moves(s, k)
    BY <1>3, MovesIs, Detached
  <2>2. <<s, k>> \in Runs /\ \A t \in Scans, j \in 1..Attempts :
          /\ <<t, j>> \in Runs
          /\ <<t, j>> = <<s, k>> <=> t = s /\ j = k
    BY DEF Runs
  <2>3. \A r \in Runs : ~run'[r].aborted
    BY <2>1 DEF Moves, Turns
  <2>4. ASSUME Start(s, k) PROVE \A j \in 1..(k - 1) : run[<<s, j>>].pc = "failed"
    <3>1. CASE k = 1
      BY <3>1
    <3>2. CASE k # 1
      <4>1. k - 1 \in 1..Attempts /\ \A j \in 1..(k - 1) : j \in 1..((k - 1) - 1) \/ j = k - 1
        BY <3>2, BoundsAssumption
      <4>2. run[<<s, k - 1>>].pc = "failed"
        BY <2>2, <2>4, <3>2, <4>1 DEF Start, Turns
      <4>3. \A j \in 1..((k - 1) - 1) : run[<<s, j>>].pc = "failed"
        BY <4>1, <4>2 DEF Turns
      <4> QED BY <4>1, <4>2, <4>3
    <3> QED BY <3>1, <3>2
  <2>5. \A j \in 1..Attempts : j # k => run'[<<s, j>>] = run[<<s, j>>]
    BY <2>1, <2>2 DEF Moves
  <2>6. \A j \in 1..Attempts : \A i \in 1..(j - 1) : i \in 1..Attempts
    BY BoundsAssumption
  <2>7. /\ run[<<s, k>>].pc \in Busy => \A j \in 1..Attempts : j # k => run[<<s, j>>].pc \notin Busy
        /\ run[<<s, k>>].pc # "failed" => \A j \in 1..Attempts :
             k \in 1..(j - 1) => run[<<s, j>>].pc = "idle"
    <3>1. \A j \in 1..Attempts : j # k => j \in 1..(k - 1) \/ k \in 1..(j - 1)
      BY BoundsAssumption
    <3> QED BY <3>1 DEF Turns
  <2>8. Start(s, k) => status'[s] = "RUNNING"
        /\ \A j \in 1..Attempts : j # k => run[<<s, j>>].pc \in {"failed", "idle"}
    <3>1. \A j \in 1..Attempts : j # k => j \in 1..(k - 1) \/ k \in 1..(j - 1)
      BY BoundsAssumption
    <3>2. Start(s, k) => run[<<s, k>>].pc = "idle" /\ status'[s] = "RUNNING"
      BY DEF Start, Shape
    <3> QED BY <2>4, <2>7, <3>1, <3>2
  <2>9. ASSUME NEW t \in Scans, NEW j \in 1..Attempts
        PROVE  /\ run'[<<t, j>>].pc # "idle" =>
                    \A i \in 1..(j - 1) : run'[<<t, i>>].pc = "failed"
               /\ run'[<<t, j>>].pc \in Busy => status'[t] = "RUNNING"
               /\ status'[t] \in {"ABSENT", "QUEUED"} => run'[<<t, j>>].pc = "idle"
    <3>1. CASE t # s
      <4>1. \A i \in 1..Attempts : run'[<<t, i>>] = run[<<t, i>>]
        BY <2>1, <2>2, <3>1 DEF Moves
      <4>2. status'[t] = status[t]
        BY <2>1, <3>1 DEF Moves
      <4> QED BY <2>6, <4>1, <4>2 DEF Turns
    <3>2. CASE t = s
      <4>1. run'[<<s, j>>].pc # "idle" =>
              \A i \in 1..(j - 1) : run'[<<s, i>>].pc = "failed"
        <5>1. CASE j = k
          <6>1. \A i \in 1..(k - 1) : i # k /\ i \in 1..Attempts
            BY BoundsAssumption
          <6>2. run[<<s, k>>].pc = "idle" => Start(s, k) \/ run'[<<s, k>>].pc = "idle"
            BY <2>1 DEF Moves
          <6> QED BY <2>4, <2>5, <5>1, <6>1, <6>2 DEF Turns
        <5>2. CASE j # k
          <6>1. run[<<s, j>>].pc # "idle" => \A i \in 1..(j - 1) : run[<<s, i>>].pc = "failed"
            BY DEF Turns
          <6>2. run[<<s, k>>].pc # "failed"
            BY <2>1 DEF Moves
          <6> QED BY <2>5, <2>6, <5>2, <6>1, <6>2
        <5> QED BY <5>1, <5>2
      <4>2. run'[<<s, j>>].pc \in Busy => status'[s] = "RUNNING"
        <5>1. CASE j = k
          BY <2>1, <5>1 DEF Moves, Turns
        <5>2. CASE j # k
          BY <2>1, <2>5, <2>7, <2>8, <5>2 DEF Moves, Turns
        <5> QED BY <5>1, <5>2
      <4>3. status'[s] \in {"ABSENT", "QUEUED"} => run'[<<s, j>>].pc = "idle"
        BY <2>1 DEF Moves, Turns
      <4> QED BY <3>2, <4>1, <4>2, <4>3
    <3> QED BY <3>1, <3>2
  <2> QED BY <2>3, <2>9 DEF Turns
<1> QED BY <1>1, <1>2, <1>3, NextIs, Zenon

\* Without timeouts and late failures, a completed scan keeps the attempt that
\* completed it.
LEMMA SettledStep ==
  ASSUME Shape, Turns, Settled, [Next]_vars, Quiet("detach")', Quiet("rerun")'
  PROVE  Settled'
<1> USE BusyIn
<1>1. CASE UNCHANGED vars
  BY <1>1 DEF vars, Settled
<1>2. ASSUME NEW s \in Scans, Request(s) PROVE Settled'
  BY <1>2 DEF Request, Settled, Shape
<1>3. ASSUME NEW s \in Scans, NEW k \in 1..Attempts, Acts(s, k) PROVE Settled'
  <2>1. Moves(s, k)
    BY <1>3, MovesIs, Detached
  <2>2. \A t \in Scans, j \in 1..Attempts :
          /\ <<t, j>> \in Runs
          /\ <<t, j>> = <<s, k>> <=> t = s /\ j = k
    BY DEF Runs
  <2>3. ASSUME NEW t \in Scans, status'[t] = "COMPLETED"
        PROVE  \E j \in 1..Attempts : run'[<<t, j>>].pc = "done"
    <3>1. CASE run'[<<s, k>>].pc = "done" /\ t = s
      BY <3>1
    <3>2. CASE status[t] = "COMPLETED" /\ (t # s \/ run[<<s, k>>].pc # "done")
      <4>1. PICK j \in 1..Attempts : run[<<t, j>>].pc = "done"
        BY <3>2 DEF Settled
      <4>2. run'[<<t, j>>] = run[<<t, j>>]
        BY <2>1, <2>2, <3>2, <4>1 DEF Moves
      <4> QED BY <4>1, <4>2
    <3> QED BY <2>1, <2>3, <3>1, <3>2 DEF Moves
  <2> QED BY <2>3 DEF Settled
<1> QED BY <1>1, <1>2, <1>3, NextIs, Zenon

\* A completed scan stays completed, and its attempts do nothing more.
LEMMA Stays ==
  ASSUME Shape, Turns, Settled, [Next]_vars, Quiet("detach")', Quiet("rerun")',
         NEW s \in Scans, status[s] = "COMPLETED"
  PROVE  /\ status'[s] = "COMPLETED"
         /\ \A k \in 1..Attempts : run[<<s, k>>].pc \notin Busy /\ run'[<<s, k>>] = run[<<s, k>>]
         /\ \A k \in 1..Attempts : ~Acts(s, k)
<1> USE BusyIn
<1>1. \A k \in 1..Attempts : run[<<s, k>>].pc \notin Busy
  BY DEF Turns
<1>2. PICK d \in 1..Attempts : run[<<s, d>>].pc = "done"
  BY DEF Settled
<1>3. ASSUME NEW k \in 1..Attempts, Acts(s, k) PROVE FALSE
  <2>1. Moves(s, k)
    BY <1>3, MovesIs, Detached
  <2>2. run[<<s, k>>].pc \in {"idle", "done"}
    BY <1>1, <2>1 DEF Moves
  <2>3. CASE run[<<s, k>>].pc = "done"
    BY <2>1, <2>3 DEF Moves
  <2>4. CASE run[<<s, k>>].pc = "idle"
    <3>1. Start(s, k)
      BY <2>1, <2>4 DEF Moves
    <3>2. k # 1
      BY <3>1 DEF Start
    <3>3. k - 1 \in 1..Attempts /\ d # k /\ (d = k - 1 \/ d \in 1..((k - 1) - 1) \/ k \in 1..(d - 1))
      BY <1>2, <2>4, <3>2, BoundsAssumption
    <3>4. run[<<s, k - 1>>].pc = "failed"
      <4>1. <<s, k - 1>> \in Runs
        BY <3>3, RunIs
      <4> QED BY <3>1, <3>2, <4>1 DEF Start, Turns
    <3>5. CASE d \in 1..((k - 1) - 1)
      BY <1>2, <3>3, <3>4, <3>5 DEF Turns
    <3>6. CASE k \in 1..(d - 1)
      BY <1>2, <2>4, <3>6 DEF Turns
    <3> QED BY <1>2, <3>3, <3>4, <3>5, <3>6
  <2> QED BY <2>2, <2>3, <2>4
<1>4. CASE UNCHANGED vars
  BY <1>1, <1>3, <1>4 DEF vars
<1>5. ASSUME NEW t \in Scans, Request(t)
      PROVE  status'[s] = "COMPLETED" /\ run' = run
  BY <1>5 DEF Request, Shape
<1>6. ASSUME NEW t \in Scans, NEW k \in 1..Attempts, Acts(t, k)
      PROVE  status'[s] = "COMPLETED" /\ \A j \in 1..Attempts : run'[<<s, j>>] = run[<<s, j>>]
  <2>1. Moves(t, k) /\ t # s
    BY <1>3, <1>6, MovesIs, Detached
  <2>2. \A j \in 1..Attempts : <<s, j>> \in Runs /\ <<s, j>> # <<t, k>>
    BY <2>1 DEF Runs
  <2> QED BY <2>1, <2>2 DEF Moves
<1> QED BY <1>1, <1>3, <1>4, <1>5, <1>6, NextIs

-----------------------------------------------------------------------------
(* What an attempt carries                                                 *)

\* Its fields after each kind of step.
LEMMA After ==
  ASSUME Shape, NEW s \in Scans, NEW k \in 1..Attempts
  PROVE  LET x == run[<<s, k>>]
             y == run'[<<s, k>>]
         IN
         /\ Throw(s, k) => y.pc = "failed" /\ y.base = 0 /\ y.prev = <<>>
         /\ Start(s, k) => y.pc = "code" /\ y.base = x.base /\ y.prev = x.prev
         /\ OpenStore(s, k) => /\ y.pc = "storing" /\ y.gone = FilesOf(s)
                               /\ y.base = x.base /\ y.prev = x.prev
         /\ Store(s, k) /\ ~Throw(s, k) =>
              y.pc = "replace" /\ y.base = x.base /\ y.prev = x.prev
         /\ \A commit : OpenReplace(s, k, commit) =>
              /\ y.pc = "replacing" /\ y.gone = Old(s) /\ y.found = commit
              /\ y.base = x.base /\ y.prev = x.prev
         /\ Replace(s, k) /\ ~Throw(s, k) =>
              y.pc = "base" /\ y.found = x.found /\ y.base = x.base /\ y.prev = x.prev
         /\ FindPrevious(s, k) =>
              /\ y.pc = IF Earlier(s) = {} THEN "write" ELSE "read"
              /\ y.base = IF Earlier(s) = {} THEN 0 ELSE LastOf(Earlier(s))
              /\ y.found = x.found /\ y.prev = x.prev
         /\ ReadSnapshots(s, k) =>
              /\ y.pc = "write" /\ y.found = x.found /\ y.base = x.base
              /\ y.prev \in SetToSeqs({q \in snaps : q.id[1] = x.base})
         /\ Write(s, k) /\ ~Throw(s, k) =>
              y.pc = "complete" /\ y.found = x.found /\ y.base = x.base /\ y.prev = x.prev
         /\ Complete(s, k) /\ ~Throw(s, k) => y.pc = "done" /\ y.base = x.base /\ y.prev = <<>>
         /\ FailLate(s, k) => y.pc = "failed" /\ y.base = x.base /\ y.prev = x.prev
         /\ Detach(s, k) => /\ y.pc = x.pc /\ y.gone = x.gone /\ y.found = x.found
                            /\ y.base = x.base /\ y.prev = x.prev
<1> DEFINE r == <<s, k>>
           x == run[r]
           y == run'[r]
<1>1. x \in AttemptRecords /\ r \in Runs /\ run \in [Runs -> AttemptRecords]
  BY RunIs, Steps DEF Shape
<1>2. DOMAIN x = {"pc", "aborted", "gone", "found", "base", "prev"}
  BY <1>1 DEF AttemptRecords
<1>3. \A e : run' = [run EXCEPT ![r] = e] => y = e
  BY <1>1
<1>4. Throw(s, k) => y.pc = "failed" /\ y.base = 0 /\ y.prev = <<>>
  BY Thrown
<1>5. Start(s, k) => y.pc = "code" /\ y.base = x.base /\ y.prev = x.prev
  <2>1. Start(s, k) => y = [x EXCEPT !.pc = "code"]
    BY <1>1, <1>3 DEF Start, Go
  <2> HIDE DEF x, y
  <2> QED BY <1>2, <2>1
<1>6. OpenStore(s, k) => /\ y.pc = "storing" /\ y.gone = FilesOf(s)
                         /\ y.base = x.base /\ y.prev = x.prev
  <2>1. OpenStore(s, k) => y = [x EXCEPT !.pc = "storing", !.gone = FilesOf(s)]
    BY <1>1, <1>3 DEF OpenStore
  <2> HIDE DEF x, y
  <2> QED BY <1>2, <2>1
<1>7. Store(s, k) /\ ~Throw(s, k) =>
        y.pc = "replace" /\ y.base = x.base /\ y.prev = x.prev
  <2>1. Store(s, k) /\ ~Throw(s, k) => y = [x EXCEPT !.pc = "replace", !.gone = {}]
    BY <1>1, <1>3 DEF Store
  <2> HIDE DEF x, y
  <2> QED BY <1>2, <2>1
<1>8. ASSUME NEW commit, OpenReplace(s, k, commit)
      PROVE  /\ y.pc = "replacing" /\ y.gone = Old(s) /\ y.found = commit
             /\ y.base = x.base /\ y.prev = x.prev
  <2>1. y = [x EXCEPT !.pc = "replacing", !.gone = Old(s), !.found = commit]
    BY <1>1, <1>3, <1>8 DEF OpenReplace
  <2> HIDE DEF x, y
  <2> QED BY <1>2, <2>1
<1>9. Replace(s, k) /\ ~Throw(s, k) =>
        y.pc = "base" /\ y.found = x.found /\ y.base = x.base /\ y.prev = x.prev
  <2>1. Replace(s, k) /\ ~Throw(s, k) => y = [x EXCEPT !.pc = "base", !.gone = {}]
    BY <1>1, <1>3 DEF Replace
  <2> HIDE DEF x, y
  <2> QED BY <1>2, <2>1
<1>10. FindPrevious(s, k) =>
         /\ y.pc = IF Earlier(s) = {} THEN "write" ELSE "read"
         /\ y.base = IF Earlier(s) = {} THEN 0 ELSE LastOf(Earlier(s))
         /\ y.found = x.found /\ y.prev = x.prev
  <2> DEFINE pc == IF Earlier(s) = {} THEN "write" ELSE "read"
             b == IF Earlier(s) = {} THEN 0 ELSE LastOf(Earlier(s))
  <2>1. FindPrevious(s, k) => run' = [run EXCEPT ![r] = [x EXCEPT !.pc = pc, !.base = b]]
    BY <1>1 DEF FindPrevious
  <2> HIDE DEF pc, b
  <2>2. FindPrevious(s, k) => y = [x EXCEPT !.pc = pc, !.base = b]
    BY <1>3, <2>1
  <2> HIDE DEF x, y
  <2>3. FindPrevious(s, k) => y.pc = pc /\ y.base = b /\ y.found = x.found /\ y.prev = x.prev
    BY <1>2, <2>2
  <2> QED BY <2>3 DEF pc, b
<1>11. ASSUME ReadSnapshots(s, k)
       PROVE  /\ y.pc = "write" /\ y.found = x.found /\ y.base = x.base
              /\ y.prev \in SetToSeqs({q \in snaps : q.id[1] = x.base})
  <2>1. PICK rows \in SetToSeqs({q \in snaps : q.id[1] = x.base}) :
          run' = [run EXCEPT ![r] = [x EXCEPT !.pc = "write", !.prev = rows]]
    BY <1>1, <1>11 DEF ReadSnapshots
  <2>2. y = [x EXCEPT !.pc = "write", !.prev = rows]
    BY <1>3, <2>1
  <2> HIDE DEF x, y
  <2> QED BY <1>2, <2>1, <2>2
<1>12. Write(s, k) /\ ~Throw(s, k) =>
         y.pc = "complete" /\ y.found = x.found /\ y.base = x.base /\ y.prev = x.prev
  <2>1. Write(s, k) /\ ~Throw(s, k) => y = [x EXCEPT !.pc = "complete"]
    BY <1>1, <1>3 DEF Write, Go
  <2> HIDE DEF x, y
  <2> QED BY <1>2, <2>1
<1>13. Complete(s, k) /\ ~Throw(s, k) => y.pc = "done" /\ y.base = x.base /\ y.prev = <<>>
  <2>1. Complete(s, k) /\ ~Throw(s, k) => y = [Fresh EXCEPT !.pc = "done", !.base = x.base]
    BY <1>3 DEF Complete
  <2> HIDE DEF x, y
  <2> QED BY <2>1 DEF Fresh
<1>14. FailLate(s, k) => y.pc = "failed" /\ y.base = x.base /\ y.prev = x.prev
  <2>1. FailLate(s, k) => y = [x EXCEPT !.pc = "failed"]
    BY <1>1, <1>3 DEF FailLate, Go
  <2> HIDE DEF x, y
  <2> QED BY <1>2, <2>1
<1>15. Detach(s, k) => /\ y.pc = x.pc /\ y.gone = x.gone /\ y.found = x.found
                       /\ y.base = x.base /\ y.prev = x.prev
  <2>1. Detach(s, k) => run' = [run EXCEPT ![r] = [x EXCEPT !.aborted = TRUE]]
    BY <1>1, Zenon DEF Detach
  <2>2. Detach(s, k) => y = [x EXCEPT !.aborted = TRUE]
    BY <1>3, <2>1
  <2> HIDE DEF x, y
  <2> QED BY <1>2, <2>2
<1> HIDE DEF x, y, r
<1> QED BY <1>4, <1>5, <1>6, <1>7, <1>8, <1>9, <1>10, <1>11, <1>12, <1>13, <1>14, <1>15
        DEF x, y, r

-----------------------------------------------------------------------------
(* To each scan its own rows                                               *)

\* An attempt deletes rows of its own scan, and no dependency leads out of the
\* attempt that found it.
Kept ==
  /\ \A s \in Scans, k \in 1..Attempts :
       /\ run[<<s, k>>].pc = "storing" => \A f \in run[<<s, k>>].gone : f[1][1] = s
       /\ run[<<s, k>>].pc = "replacing" => \A n \in run[<<s, k>>].gone : n[1] = s
  /\ \A d \in deps : d.to # <<>> => d.to[1] = d.from[1]

\* Who writes what.
LEMMA Writers ==
  ASSUME NEW s \in Scans, NEW k \in 1..Attempts, Acts(s, k)
  PROVE  /\ Store(s, k) \/ (files' = files /\ deps' = deps)
         /\ \/ Replace(s, k) \/ Write(s, k)
            \/ apis' = apis /\ snaps' = snaps /\ changes' = changes
         /\ Write(s, k) => apis' = apis /\ files' = files /\ deps' = deps
         /\ Store(s, k) => apis' = apis /\ snaps' = snaps /\ changes' = changes
<1>1. ASSUME NEW commit, OpenReplace(s, k, commit) PROVE UNCHANGED <<codeVars, apiVars>>
  BY <1>1 DEF OpenReplace
<1>2. Start(s, k) \/ OpenStore(s, k) \/ FindPrevious(s, k) \/ ReadSnapshots(s, k)
      \/ Complete(s, k) \/ Fail(s, k) \/ FailLate(s, k) \/ Detach(s, k)
      => UNCHANGED codeVars /\ UNCHANGED apiVars
  BY Zenon DEF Start, OpenStore, FindPrevious, ReadSnapshots, Complete, Fail, FailLate, Detach
<1>3. (Store(s, k) => UNCHANGED apiVars) /\ (Replace(s, k) => UNCHANGED codeVars)
  BY Zenon DEF Store, Replace
<1>4. Write(s, k) => UNCHANGED codeVars /\ apis' = apis
  BY Zenon DEF Write
<1> QED BY <1>1, <1>2, <1>3, <1>4 DEF Acts, codeVars, apiVars

\* What a store does to the rows, when it does anything.
Stores(s, k) ==
  LET gone == run[<<s, k>>].gone IN
  /\ run[<<s, k>>].pc = "storing"
  /\ files' = (files \ gone) \cup FileRows(<<s, k>>, Code[<<s, k>>])
  /\ deps' = {[d EXCEPT !.to = IF @ \in gone THEN <<>> ELSE @] :
                d \in {x \in deps : x.from \notin gone}}
             \cup DependencyRows(<<s, k>>, Code[<<s, k>>])

\* replaceScanIntelligence stores, or throws and leaves the rows alone.
LEMMA StoreIs ==
  ASSUME Shape, NEW s \in Scans, NEW k \in 1..Attempts, Store(s, k)
  PROVE  /\ run[<<s, k>>].pc = "storing"
         /\ Stores(s, k) \/ (Throw(s, k) /\ files' = files /\ deps' = deps)
         /\ ~Throw(s, k) => Stores(s, k)
  BY Zenon DEF Store, Stores, codeVars

\* The dependencies of an attempt stay within its files.
LEMMA DepsOfAttempt ==
  ASSUME NEW r \in Runs
  PROVE  \A d \in DependencyRows(r, Code[r]) :
           d.from[1] = r /\ (d.to # <<>> => d.to[1] = r)
  BY StoredRows

\* Every step keeps the rows of each scan apart.
LEMMA KeptStep ==
  ASSUME Shape, References, Kept, [Next]_vars
  PROVE  Kept'
<1>1. CASE UNCHANGED vars
  BY <1>1 DEF vars, Kept, codeVars
<1>2. ASSUME NEW s \in Scans, Request(s) PROVE Kept'
  BY <1>2 DEF Request, Kept, codeVars
<1>3. ASSUME NEW s \in Scans, NEW k \in 1..Attempts, Acts(s, k) PROVE Kept'
  <2> DEFINE x == run[<<s, k>>]
             y == run'[<<s, k>>]
  <2>1. \A t \in Scans, j \in 1..Attempts :
          <<t, j>> \in Runs /\ (<<t, j>> = <<s, k>> <=> t = s /\ j = k)
    BY DEF Runs
  <2>2. \A r \in Runs : r # <<s, k>> => run'[r] = run[r]
    <3>1. CASE ~Detach(s, k)
      BY <1>3, <3>1, MovesIs DEF Moves
    <3>2. CASE Detach(s, k)
      <4>1. run' = [run EXCEPT ![<<s, k>>].aborted = TRUE]
        BY <3>2, Zenon DEF Detach
      <4> QED BY <2>1, <4>1 DEF Shape
    <3> QED BY <3>1, <3>2
  <2>3. y.pc \in {"storing", "replacing"} =>
          \/ OpenStore(s, k) /\ y.pc = "storing" /\ y.gone = FilesOf(s)
          \/ y.pc = "replacing" /\ y.gone = Old(s)
          \/ y.pc = x.pc /\ y.gone = x.gone
    <3> HIDE DEF x, y
    <3>1. Fail(s, k) => Throw(s, k)
      BY DEF Fail
    <3> QED BY <1>3, <3>1, After DEF Acts, x, y
  <2>4. /\ y.pc = "storing" => \A f \in y.gone : f[1][1] = s
        /\ y.pc = "replacing" => \A n \in y.gone : n[1] = s
    BY <2>3, FilesType, OldType DEF Kept
  <2>5. \A d \in deps' : d.to # <<>> => d.to[1] = d.from[1]
    <3>1. CASE deps' = deps
      BY <3>1 DEF Kept
    <3>2. CASE Stores(s, k)
      <4> DEFINE gone == x.gone
                 Cut(d) == [d EXCEPT !.to = IF @ \in gone THEN <<>> ELSE @]
      <4>1. \A d \in DependencyRows(<<s, k>>, Code[<<s, k>>]) : d.to # <<>> => d.to[1] = d.from[1]
        BY <2>1, DepsOfAttempt
      <4>2. \A d \in deps : Cut(d).to # <<>> => Cut(d).to[1] = Cut(d).from[1]
        <5>1. \A d \in deps : /\ Cut(d).from = d.from
                              /\ Cut(d).to = IF d.to \in gone THEN <<>> ELSE d.to
          BY DEF Shape, DepRows
        <5> HIDE DEF Cut
        <5> QED BY <5>1 DEF Kept
      <4>3. deps' = {Cut(d) : d \in {q \in deps : q.from \notin gone}}
                    \cup DependencyRows(<<s, k>>, Code[<<s, k>>])
        BY <3>2 DEF Stores
      <4> HIDE DEF Cut, gone
      <4> QED BY <4>1, <4>2, <4>3
    <3> QED BY <1>3, <3>1, <3>2, Writers, StoreIs
  <2> QED BY <2>1, <2>2, <2>4, <2>5 DEF Kept
<1> QED BY <1>1, <1>2, <1>3, NextIs, Zenon

\* An attempt leaves the rows of the other scans alone.
LEMMA OtherCode ==
  ASSUME Shape, Kept, NEW s \in Scans, NEW k \in 1..Attempts, Acts(s, k),
         NEW t \in Scans, t # s
  PROVE  FilesOf(t)' = FilesOf(t) /\ DepsOf(t)' = DepsOf(t)
<1>1. CASE files' = files /\ deps' = deps
  BY <1>1 DEF FilesOf, DepsOf
<1>2. CASE Stores(s, k)
  <2> DEFINE r == <<s, k>>
             gone == run[r].gone
             Cut(d) == [d EXCEPT !.to = IF @ \in gone THEN <<>> ELSE @]
  <2>1. r \in Runs /\ r[1] = s
    BY RunIs
  <2>2. \A f \in gone : f[1][1] = s
    BY <1>2 DEF Stores, Kept
  <2>3. files' = (files \ gone) \cup FileRows(r, Code[r])
        /\ deps' = {Cut(d) : d \in {x \in deps : x.from \notin gone}}
                   \cup DependencyRows(r, Code[r])
    BY <1>2 DEF Stores
  <2>4. \A f \in FileRows(r, Code[r]) : f[1][1] = s
    BY <2>1, StoredRows
  <2>5. \A d \in DependencyRows(r, Code[r]) : d.from[1][1] = s
    BY <2>1, DepsOfAttempt
  <2>6. \A d \in deps : Cut(d).from = d.from /\ (d.from[1][1] = t => Cut(d) = d)
    <3>1. \A d \in deps : d.from[1][1] = t => d.to \notin gone \/ d.to = <<>>
      BY <2>2 DEF Kept
    <3>2. \A d \in deps : d = [from |-> d.from, ref |-> d.ref, to |-> d.to]
                          /\ Cut(d) = [from |-> d.from, ref |-> d.ref,
                                       to |-> IF d.to \in gone THEN <<>> ELSE d.to]
      BY DEF Shape, DepRows
    <3> HIDE DEF Cut, gone
    <3> QED BY <3>1, <3>2
  <2> HIDE DEF r, gone, Cut
  <2>7. FilesOf(t)' = FilesOf(t)
    BY <2>2, <2>3, <2>4 DEF FilesOf
  <2>8. DepsOf(t)' = DepsOf(t)
    <3>1. \A d : d \in deps /\ d.from[1][1] = t => d \in deps'
      BY <2>2, <2>3, <2>6
    <3>2. \A d : d \in deps' /\ d.from[1][1] = t => d \in deps
      BY <2>3, <2>5, <2>6
    <3> QED BY <3>1, <3>2 DEF DepsOf
  <2> QED BY <2>7, <2>8
<1> QED BY <1>1, <1>2, Writers, StoreIs

\* The APIs and the snapshots of another scan stay as they are.
LEMMA OtherApis ==
  ASSUME Shape, Kept, NEW s \in Scans, NEW k \in 1..Attempts, Acts(s, k),
         NEW t \in Scans, t # s
  PROVE  Old(t)' = Old(t) /\ SnapsOf(t)' = SnapsOf(t)
<1> DEFINE gone == run[<<s, k>>].gone
<1>1. CASE apis' = apis /\ snaps' = snaps
  BY <1>1 DEF Old, SnapsOf
<1>2. CASE Replace(s, k)
  <2>1. \A n \in gone : n[1] = s
    BY <1>2 DEF Replace, Kept
  <2>2. \A x \in Range(Rows(s, k)) : x.id[1] = s
    BY RowsType
  <2>3. snaps' = {x \in snaps : x.id \notin gone}
        /\ apis' = {x \in apis : x.id \notin gone} \cup Range(Rows(s, k))
    BY <1>2 DEF Replace, Cascade
  <2> HIDE DEF gone
  <2>4. {x \in apis' : x.id[1] = t} = {x \in apis : x.id[1] = t}
    BY <2>1, <2>2, <2>3
  <2> QED BY <2>1, <2>3, <2>4 DEF Old, SnapsOf
<1>3. CASE Write(s, k)
  <2>1. apis' = apis /\ (snaps' = snaps \/ snaps' = snaps \cup NewSnapshots(s, k))
    BY <1>3 DEF Write
  <2>2. \A x \in NewSnapshots(s, k) : x.id[1] = s
    BY NewSnapshotsType
  <2> QED BY <2>1, <2>2 DEF Old, SnapsOf
<1> QED BY <1>1, <1>2, <1>3, Writers

-----------------------------------------------------------------------------
(* A completed scan is described                                           *)

\* The rows of an attempt that found these contracts.
Made(s, k, found) == [n \in DOMAIN found |-> [id |-> <<s, k, n>>, contract |-> found[n]]]

\* The API rows of an attempt are made of the contracts it found ...
LEMMA RowsAre == \A s, k : Rows(s, k) = Made(s, k, run[<<s, k>>].found)
  BY DEF Rows, Row, Made

\* ... after the step as before.
LEMMA RowsAreNext == \A s, k : Rows(s, k)' = Made(s, k, run'[<<s, k>>].found)
  BY DEF Rows, Row, Made

\* The code of the scan is that of the attempt.
Holds(s, k) ==
  /\ FilesOf(s) = FileRows(<<s, k>>, Code[<<s, k>>])
  /\ DepsOf(s) = DependencyRows(<<s, k>>, Code[<<s, k>>])

Progressed(s, k) ==
  LET x == run[<<s, k>>] IN
  /\ x.pc = "storing" => x.gone = FilesOf(s)
  /\ x.pc \in {"replace", "replacing", "base", "read", "write", "complete"} => Holds(s, k)
  /\ x.pc = "replacing" => x.gone = Old(s)
  /\ x.pc \in {"base", "read", "write"} =>
       Old(s) = Ids(Range(Rows(s, k))) /\ SnapsOf(s) = {}
  /\ x.pc = "complete" => Ids(SnapsOf(s)) = Old(s)

Described ==
  \A s \in Scans :
    /\ \A k \in 1..Attempts : Progressed(s, k)
    /\ status[s] = "COMPLETED" =>
         Ids(SnapsOf(s)) = Old(s) /\ \E k \in 1..Attempts : Holds(s, k)

\* While an attempt works, the other ones of its scan do not.
LEMMA Alone ==
  ASSUME Shape, Turns, Turns', NEW s \in Scans, NEW k \in 1..Attempts, Moves(s, k),
         NEW j \in 1..Attempts, j # k
  PROVE  run'[<<s, j>>] = run[<<s, j>>] /\ run[<<s, j>>].pc \in {"failed", "idle"}
<1>1. <<s, j>> \in Runs /\ <<s, j>> # <<s, k>>
  BY DEF Runs
<1>2. run'[<<s, j>>] = run[<<s, j>>]
  BY <1>1 DEF Moves
<1>3. j \in 1..(k - 1) \/ k \in 1..(j - 1)
  BY BoundsAssumption
<1>4. CASE Start(s, k) /\ run'[<<s, k>>].pc = "code"
  BY <1>2, <1>3, <1>4 DEF Turns
<1>5. CASE run[<<s, k>>].pc \in Busy \cup {"complete", "done"}
  BY <1>2, <1>3, <1>5, BusyIn DEF Turns
<1> QED BY <1>2, <1>4, <1>5 DEF Moves

\* What a store leaves of its scan.
LEMMA StoredAll ==
  ASSUME Shape, References, NEW s \in Scans, NEW k \in 1..Attempts, Stores(s, k),
         run[<<s, k>>].gone = FilesOf(s)
  PROVE  Holds(s, k)'
<1> DEFINE r == <<s, k>>
           gone == run[r].gone
           Cut(d) == [d EXCEPT !.to = IF @ \in gone THEN <<>> ELSE @]
           made == FileRows(r, Code[r])
           new == DependencyRows(r, Code[r])
<1>1. r \in Runs /\ r[1] = s
  BY RunIs
<1>2. /\ \A f \in made : f[1][1] = s
      /\ \A d \in new : d.from[1][1] = s
  BY <1>1, StoredRows, DepsOfAttempt
<1>3. files' = (files \ gone) \cup made
      /\ deps' = {Cut(d) : d \in {x \in deps : x.from \notin gone}} \cup new
  BY DEF Stores
<1>4. \A d \in deps : d.from \notin gone => Cut(d).from[1][1] # s
  <2>1. \A d \in deps : Cut(d).from = d.from
    BY DEF Shape, DepRows
  <2> HIDE DEF Cut
  <2> QED BY <2>1 DEF FilesOf, References
<1> HIDE DEF Cut, made, new
<1>5. {f \in files' : f[1][1] = s} = made
  BY <1>2, <1>3 DEF FilesOf
<1> HIDE DEF gone
<1>6. {d \in deps' : d.from[1][1] = s} = new
  BY <1>2, <1>3, <1>4
<1> QED BY <1>5, <1>6 DEF Holds, FilesOf, DepsOf, made, new

\* What a replacement leaves of its scan.
LEMMA ReplacedAll ==
  ASSUME Shape, References, NEW s \in Scans, NEW k \in 1..Attempts, Replace(s, k),
         run[<<s, k>>].gone = Old(s)
  PROVE  Old(s)' = Ids(Range(Rows(s, k))) /\ SnapsOf(s)' = {}
<1>1. /\ snaps' = {x \in snaps : x.id \notin Old(s)}
      /\ apis' = {x \in apis : x.id \notin Old(s)} \cup Range(Rows(s, k))
  BY DEF Replace, Cascade
<1>2. \A x \in Range(Rows(s, k)) : x.id[1] = s
  BY RowsType
<1>3. \A x \in apis : x.id[1] = s => x.id \in Old(s)
  BY DEF Old
<1>4. \A x \in snaps : x.id[1] = s => x.id \in Old(s)
  <2>1. \A x \in snaps : \E a \in apis : a.id = x.id
    BY DEF References, Ids
  <2> QED BY <1>3, <2>1
<1>5. {x \in apis' : x.id[1] = s} = Range(Rows(s, k))
  BY <1>1, <1>2, <1>3
<1> QED BY <1>1, <1>4, <1>5 DEF Old, Ids, SnapsOf

\* What a report leaves of its scan.
LEMMA WrittenAll ==
  ASSUME Shape, NEW s \in Scans, NEW k \in 1..Attempts, Write(s, k), ~Throw(s, k)
  PROVE  /\ SnapsOf(s)' = SnapsOf(s) \cup NewSnapshots(s, k)
         /\ ChangesOf(s)' = NewChanges(s, k)
         /\ Old(s)' = Old(s)
<1>1. apis' = apis /\ snaps' = snaps \cup NewSnapshots(s, k)
      /\ changes' = {c \in changes : c.scan # s} \cup NewChanges(s, k)
  BY DEF Write
<1>2. \A x \in NewSnapshots(s, k) : x.id[1] = s
  BY NewSnapshotsType
<1>3. \A c \in NewChanges(s, k) : c.scan = s
  BY NewChangesType
<1> QED BY <1>1, <1>2, <1>3 DEF SnapsOf, ChangesOf, Old

\* The statuses that a step leaves completed.
LEMMA CompletedBy ==
  ASSUME Shape, Turns, NEW s \in Scans, NEW k \in 1..Attempts, Acts(s, k), Moves(s, k),
         status'[s] = "COMPLETED"
  PROVE  \/ run[<<s, k>>].pc = "complete" /\ run'[<<s, k>>].pc = "done"
         \/ /\ status[s] = "COMPLETED"
            /\ run[<<s, k>>].pc = "done" /\ run'[<<s, k>>].pc = "failed"
<1>1. run[<<s, k>>].pc \in Busy => status[s] = "RUNNING"
  BY DEF Turns
<1>2. ~run[<<s, k>>].aborted
  BY RunIs DEF Turns
<1> QED BY <1>1, <1>2 DEF Moves

\* Steps that only ask for a scan.
LEMMA DescribedSame ==
  ASSUME Described, run' = run, UNCHANGED codeVars, UNCHANGED apiVars,
         \A t \in Scans : status'[t] = "COMPLETED" => status[t] = "COMPLETED"
  PROVE  Described'
<1>1. ASSUME NEW t \in Scans
      PROVE  /\ FilesOf(t)' = FilesOf(t) /\ DepsOf(t)' = DepsOf(t)
             /\ Old(t)' = Old(t) /\ SnapsOf(t)' = SnapsOf(t)
             /\ Ids(SnapsOf(t))' = Ids(SnapsOf(t))
  BY DEF FilesOf, DepsOf, Old, SnapsOf, Ids, codeVars, apiVars
<1>2. ASSUME NEW t \in Scans, NEW j \in 1..Attempts
      PROVE  (Holds(t, j)' <=> Holds(t, j)) /\ (Progressed(t, j)' <=> Progressed(t, j))
  <2>1. Rows(t, j)' = Rows(t, j)
    BY RowsAre, RowsAreNext
  <2>2. Holds(t, j)' <=> Holds(t, j)
    BY <1>1 DEF Holds
  <2>3. Ids(Range(Rows(t, j)))' = Ids(Range(Rows(t, j)))
    BY <2>1 DEF Ids
  <2> QED BY <1>1, <2>2, <2>3 DEF Progressed
<1> QED BY <1>1, <1>2 DEF Described

\* Every step keeps the scans described.
LEMMA DescribedStep ==
  ASSUME Shape, References, Kept, Turns, Turns', Described, [Next]_vars, Quiet("detach")'
  PROVE  Described'
<1>1. CASE UNCHANGED vars
  BY <1>1, DescribedSame DEF vars
<1>2. ASSUME NEW s \in Scans, Request(s) PROVE Described'
  <2>1. run' = run /\ UNCHANGED codeVars /\ UNCHANGED apiVars
        /\ \A t \in Scans : status'[t] = "COMPLETED" => status[t] = "COMPLETED"
    BY <1>2 DEF Request, Shape
  <2> QED BY <2>1, DescribedSame
<1>3. ASSUME NEW s \in Scans, NEW k \in 1..Attempts, Acts(s, k) PROVE Described'
  <2> DEFINE x == run[<<s, k>>]
             y == run'[<<s, k>>]
  <2>1. Moves(s, k) /\ ~Detach(s, k)
    BY <1>3, MovesIs, Detached
  <2>2. ASSUME NEW t \in Scans, t # s
        PROVE  /\ \A j \in 1..Attempts : Progressed(t, j)'
               /\ status'[t] = "COMPLETED" =>
                    Ids(SnapsOf(t)') = Old(t)' /\ \E j \in 1..Attempts : Holds(t, j)'
    <3>1. \A j \in 1..Attempts : run'[<<t, j>>] = run[<<t, j>>]
      BY <2>1, <2>2 DEF Moves, Runs
    <3>2. status'[t] = status[t]
      BY <2>1, <2>2 DEF Moves
    <3>3. FilesOf(t)' = FilesOf(t) /\ DepsOf(t)' = DepsOf(t) /\ Old(t)' = Old(t)
          /\ SnapsOf(t)' = SnapsOf(t)
      BY <1>3, <2>2, OtherCode, OtherApis
    <3>4. \A j \in 1..Attempts : Rows(t, j)' = Rows(t, j) /\ (Holds(t, j)' <=> Holds(t, j))
      BY <3>1, <3>3, RowsAre, RowsAreNext DEF Holds
    <3>5. \A j \in 1..Attempts : Progressed(t, j)'
      BY <3>1, <3>3, <3>4 DEF Described, Progressed, Ids
    <3> QED BY <3>2, <3>3, <3>4, <3>5 DEF Described
  <2>3. ASSUME NEW j \in 1..Attempts, j # k PROVE Progressed(s, j)'
    <3>1. run'[<<s, j>>].pc \in {"failed", "idle"}
      BY <2>1, <2>3, Alone
    <3> QED BY <3>1 DEF Progressed
  <2>4. Progressed(s, k)'
    <3>1. CASE Throw(s, k) \/ Start(s, k) \/ FailLate(s, k) \/ Complete(s, k)
      <4>1. y.pc \in {"failed", "code", "done"}
        <5> HIDE DEF x, y
        <5> QED BY <3>1, After DEF x, y
      <4> QED BY <4>1 DEF Progressed
    <3>2. CASE OpenStore(s, k)
      <4>1. y.pc = "storing" /\ y.gone = FilesOf(s)
        BY <3>2, After
      <4>2. files' = files
        BY <3>2 DEF OpenStore, codeVars
      <4> QED BY <4>1, <4>2 DEF Progressed, FilesOf
    <3>3. CASE Store(s, k) /\ ~Throw(s, k)
      <4>1. y.pc = "replace" /\ Stores(s, k)
        BY <3>3, After, StoreIs
      <4>2. x.gone = FilesOf(s)
        BY <4>1 DEF Stores, Described, Progressed
      <4> QED BY <4>1, <4>2, StoredAll DEF Progressed
    <3>4. ASSUME NEW commit, OpenReplace(s, k, commit) PROVE Progressed(s, k)'
      <4>1. y.pc = "replacing" /\ y.gone = Old(s)
        BY <3>4, After
      <4>2. x.pc = "replace" /\ UNCHANGED codeVars /\ UNCHANGED apiVars
        BY <3>4 DEF OpenReplace
      <4>3. Holds(s, k)
        BY <4>2 DEF Described, Progressed
      <4> QED BY <4>1, <4>2, <4>3
              DEF Progressed, Holds, FilesOf, DepsOf, Old, codeVars, apiVars
    <3>5. CASE Replace(s, k) /\ ~Throw(s, k)
      <4>1. y.pc = "base" /\ y.found = x.found
        BY <3>5, After
      <4>2. x.pc = "replacing" /\ UNCHANGED codeVars
        BY <3>5 DEF Replace
      <4>3. Holds(s, k) /\ x.gone = Old(s)
        BY <4>2 DEF Described, Progressed
      <4>4. Old(s)' = Ids(Range(Rows(s, k))) /\ SnapsOf(s)' = {}
        BY <3>5, <4>3, ReplacedAll
      <4>5. Rows(s, k)' = Rows(s, k) /\ Holds(s, k)'
        BY <4>1, <4>2, <4>3, RowsAre, RowsAreNext DEF Holds, FilesOf, DepsOf, codeVars
      <4>6. Old(s)' = Ids(Range(Rows(s, k)))'
        BY <4>4, <4>5 DEF Ids
      <4> QED BY <4>1, <4>4, <4>5, <4>6 DEF Progressed
    <3>6. CASE FindPrevious(s, k) \/ ReadSnapshots(s, k)
      <4>1. y.pc \in {"read", "write"} /\ y.found = x.found
        <5> HIDE DEF x, y
        <5> QED BY <3>6, After DEF x, y
      <4>2. x.pc \in {"base", "read"} /\ UNCHANGED codeVars /\ UNCHANGED apiVars
        BY <3>6 DEF FindPrevious, ReadSnapshots
      <4>3. Holds(s, k) /\ Old(s) = Ids(Range(Rows(s, k))) /\ SnapsOf(s) = {}
        BY <4>2 DEF Described, Progressed
      <4>4. Rows(s, k)' = Rows(s, k)
        BY <4>1, RowsAre, RowsAreNext
      <4>5. Holds(s, k)' /\ Old(s)' = Old(s) /\ SnapsOf(s)' = SnapsOf(s)
            /\ Ids(Range(Rows(s, k)))' = Ids(Range(Rows(s, k)))
        BY <4>2, <4>3, <4>4 DEF Holds, FilesOf, DepsOf, Old, SnapsOf, Ids, codeVars, apiVars
      <4> QED BY <4>1, <4>3, <4>5 DEF Progressed
    <3>7. CASE Write(s, k) /\ ~Throw(s, k)
      <4>1. y.pc = "complete"
        BY <3>7, After
      <4>2. x.pc = "write" /\ UNCHANGED codeVars
        BY <3>7 DEF Write
      <4>3. Holds(s, k) /\ Old(s) = Ids(Range(Rows(s, k))) /\ SnapsOf(s) = {}
        BY <4>2 DEF Described, Progressed
      <4>4. SnapsOf(s)' = NewSnapshots(s, k) /\ Old(s)' = Old(s)
        BY <3>7, <4>3, WrittenAll
      <4>5. Ids(SnapsOf(s)') = Old(s)'
        BY <4>3, <4>4, NewSnapshotsType
      <4>6. Holds(s, k)' /\ Ids(SnapsOf(s))' = Ids(SnapsOf(s)')
        BY <4>2, <4>3 DEF Holds, FilesOf, DepsOf, codeVars, Ids
      <4> QED BY <4>1, <4>5, <4>6 DEF Progressed
    <3>8. Fail(s, k) => Throw(s, k)
      BY DEF Fail
    <3> HIDE DEF x, y
    <3> QED BY <1>3, <2>1, <3>1, <3>2, <3>3, <3>4, <3>5, <3>6, <3>7, <3>8 DEF Acts
  <2>5. ASSUME status'[s] = "COMPLETED"
        PROVE  Ids(SnapsOf(s)') = Old(s)' /\ \E j \in 1..Attempts : Holds(s, j)'
    <3>1. UNCHANGED codeVars /\ UNCHANGED apiVars
      <4>1. x.pc = "complete" \/ x.pc = "done"
        BY <1>3, <2>1, <2>5, CompletedBy
      <4>2. ~Store(s, k) /\ ~Replace(s, k) /\ ~Write(s, k)
        BY <4>1 DEF Store, Replace, Write
      <4> QED BY <1>3, <4>2, Writers DEF codeVars, apiVars
    <3>2. Ids(SnapsOf(s)) = Old(s) /\ \E j \in 1..Attempts : Holds(s, j)
      BY <1>3, <2>1, <2>5, CompletedBy DEF Described, Progressed
    <3>3. SnapsOf(s)' = SnapsOf(s) /\ Old(s)' = Old(s)
          /\ \A j \in 1..Attempts : Holds(s, j)' <=> Holds(s, j)
      BY <3>1 DEF SnapsOf, Old, Holds, FilesOf, DepsOf, codeVars, apiVars
    <3> QED BY <3>2, <3>3
  <2>6. \A t \in Scans : Ids(SnapsOf(t))' = Ids(SnapsOf(t)')
    BY DEF Ids
  <2> HIDE DEF x, y
  <2>7. \A j \in 1..Attempts : Progressed(s, j)'
    BY <2>3, <2>4
  <2>8. \A t \in Scans : \A j \in 1..Attempts : Progressed(t, j)'
    BY <2>2, <2>7
  <2>9. \A t \in Scans : status'[t] = "COMPLETED" =>
          Ids(SnapsOf(t)') = Old(t)' /\ \E j \in 1..Attempts : Holds(t, j)'
    BY <2>2, <2>5
  <2> QED BY <2>6, <2>8, <2>9 DEF Described
<1> QED BY <1>1, <1>2, <1>3, NextIs, Zenon

-----------------------------------------------------------------------------
(* The graph                                                               *)

\* The entries of a longer sequence.
LEMMA AppendIs ==
  ASSUME NEW S, NEW a \in Seq(S), NEW b \in S
  PROVE  /\ Append(a, b) \in Seq(S) /\ Len(Append(a, b)) = Len(a) + 1
         /\ Append(a, b)[Len(a) + 1] = b
         /\ \A i \in 1..Len(a) : Append(a, b)[i] = a[i]
         /\ Append(a, b) # <<>>
  OBVIOUS

\* The entries of a concatenation.
LEMMA ConcatIs ==
  ASSUME NEW S, NEW a \in Seq(S), NEW b \in Seq(S)
  PROVE  /\ a \o b \in Seq(S) /\ Len(a \o b) = Len(a) + Len(b)
         /\ \A i \in 1..Len(a) : (a \o b)[i] = a[i]
         /\ \A i \in 1..Len(b) : (a \o b)[Len(a) + i] = b[i]
  OBVIOUS

\* A sequence is its beginning and its end.
LEMMA TwoHalves ==
  ASSUME NEW U, NEW f \in Seq(U), NEW g \in Seq(U)
  PROVE  Len(f) = 4 /\ Len(g) = 4 =>
           /\ Len(f \o g) = 8
           /\ \A i \in 1..4 : (f \o g)[i] = f[i] /\ (f \o g)[4 + i] = g[i]
<1> DEFINE h == f \o g
<1>1. /\ Len(h) = Len(f) + Len(g)
      /\ \A i \in 1..Len(f) : h[i] = f[i]
      /\ \A i \in 1..Len(g) : h[Len(f) + i] = g[i]
  BY ConcatIs
<1> HIDE DEF h
<1>2. Len(f) = 4 /\ Len(g) = 4 =>
        Len(h) = 8 /\ \A i \in 1..4 : h[i] = f[i] /\ h[4 + i] = g[i]
  BY <1>1
<1> QED BY <1>2 DEF h

\* Sequences with the same entries are equal.
LEMMA SeqEqual ==
  ASSUME NEW S, NEW a \in Seq(S), NEW b \in Seq(S), Len(a) = Len(b),
         \A i \in 1..Len(a) : a[i] = b[i]
  PROVE  a = b
  OBVIOUS

\* A sequence over a set is one over a greater set.
LEMMA SeqGrows == ASSUME NEW S, NEW T, S \subseteq T, NEW a \in Seq(S) PROVE a \in Seq(T)
  OBVIOUS

\* The last member of a sequence and the others.
LEMMA FrontIs ==
  ASSUME NEW S, NEW q \in Seq(S), q # <<>>
  PROVE  /\ Front(q) \in Seq(S) /\ Len(Front(q)) = Len(q) - 1
         /\ \A i \in 1..(Len(q) - 1) : Front(q)[i] = q[i]
         /\ Last(q) \in S /\ Last(q) = q[Len(q)] /\ Last(q) \in Range(q)
         /\ Len(q) \in Nat /\ Len(q) > 0
<1>1. Len(q) \in Nat /\ Len(q) > 0 /\ DOMAIN q = 1..Len(q)
  OBVIOUS
<1>2. Front(q) \in Seq(S) /\ Len(Front(q)) = Len(q) - 1
      /\ \A i \in 1..(Len(q) - 1) : Front(q)[i] = q[i]
  BY <1>1 DEF Front
<1>3. Last(q) \in S /\ Last(q) = q[Len(q)] /\ Last(q) \in Range(q)
  BY <1>1 DEF Last, Range
<1> QED BY <1>1, <1>2, <1>3

\* A sequence that ends in an entry is told from its parts.
LEMMA AppendParts ==
  ASSUME NEW S, NEW a \in Seq(S), NEW b \in S
  PROVE  /\ Front(Append(a, b)) = a /\ Last(Append(a, b)) = b
         /\ Append(a, b) # <<>>
<1> DEFINE q == Append(a, b)
<1>1. /\ q \in Seq(S) /\ Len(q) = Len(a) + 1 /\ q[Len(a) + 1] = b /\ q # <<>>
      /\ \A i \in 1..Len(a) : q[i] = a[i]
  BY AppendIs
<1> HIDE DEF q
<1>2. Len(a) \in Nat
  OBVIOUS
<1>3. /\ Front(q) \in Seq(S) /\ Len(Front(q)) = Len(a) /\ Last(q) = b
      /\ \A i \in 1..Len(a) : Front(q)[i] = a[i]
  BY <1>1, <1>2, FrontIs
<1>4. Front(q) = a
  BY <1>3, SeqEqual
<1> QED BY <1>1, <1>3, <1>4 DEF q

\* A path is its directory and its last segment.
LEMMA Rejoin ==
  ASSUME NEW S, NEW q \in Seq(S), q # <<>>
  PROVE  q = Append(Front(q), Last(q))
<1> DEFINE a == Front(q)
           b == Last(q)
           w == Append(a, b)
<1>1. /\ a \in Seq(S) /\ b \in S /\ Len(a) = Len(q) - 1 /\ Len(q) \in Nat /\ Len(q) > 0
      /\ b = q[Len(q)] /\ \A i \in 1..(Len(q) - 1) : a[i] = q[i]
  BY FrontIs
<1> HIDE DEF a, b
<1>2. /\ w \in Seq(S) /\ Len(w) = Len(a) + 1 /\ w[Len(a) + 1] = b
      /\ \A i \in 1..Len(a) : w[i] = a[i]
  BY <1>1, AppendIs
<1> HIDE DEF w
<1>3. Len(w) = Len(q) /\ \A i \in 1..Len(w) : w[i] = q[i]
  <2>1. \A i \in 1..Len(w) : i \in 1..(Len(q) - 1) \/ i = Len(q)
    BY <1>1, <1>2
  <2> QED BY <1>1, <1>2, <2>1
<1>4. w = q
  BY <1>2, <1>3, SeqEqual
<1> QED BY <1>4 DEF w, a, b

Segment(x) == x = [stem |-> x.stem, ext |-> x.ext]

\* RESOLVABLE_EXTENSIONS has four entries, none of them empty.
LEMMA ExtensionsAre ==
  /\ DOMAIN Extensions = 1..4
  /\ \A i \in 1..4 : Extensions[i] \in Range(Extensions)
  /\ \A e \in Range(Extensions) : \E i \in 1..4 : e = Extensions[i]
<1>1. DOMAIN Extensions = 1..4
  BY DEF Extensions
<1> QED BY <1>1 DEF Range

\* That a path is what a reader means by an import of base.
Means(q, base) ==
  /\ Last(q).ext \in Range(Extensions)
  /\ \/ Front(q) = Front(base) /\ Last(q).stem = Last(base).stem
     \/ Front(q) = base /\ Last(q).stem = "index"

\* The base of an import that names no extension.
Bare(base, S) ==
  base \in Seq(S) /\ base # <<>> /\ Last(base).ext = "" /\ \A x \in S : Segment(x)

\* What an import without an extension may mean are its candidates.
LEMMA CandidatesAre ==
  ASSUME NEW S, NEW base, Bare(base, S)
  PROVE  LET C == Candidates(base)
         IN  /\ \A i \in 1..Len(C) : Means(C[i], base) /\ C[i] # <<>>
             /\ \A q : IsPath(q) /\ q # <<>> /\ Means(q, base) => \E i \in 1..Len(C) : C[i] = q
<1> DEFINE b == Last(base)
           a == Front(base)
           X == [i \in 1..4 |-> [b EXCEPT !.ext = Extensions[i]]]
           Y == [i \in 1..4 |-> [stem |-> "index", ext |-> Extensions[i]]]
           F == [i \in 1..4 |-> Append(a, [b EXCEPT !.ext = Extensions[i]])]
           G == [i \in 1..4 |-> Append(base, [stem |-> "index", ext |-> Extensions[i]])]
           T == S \cup Range(X) \cup Range(Y)
           C == Candidates(base)
<1>1. C = F \o G
  BY ExtensionsAre, Zenon DEF Candidates, Bare
<1>2. a \in Seq(S) /\ b \in S /\ b = [stem |-> b.stem, ext |-> b.ext]
  BY FrontIs DEF Segment, Bare
<1> HIDE DEF C, a, b
<1>3. \A i \in 1..4 : /\ X[i] = [stem |-> b.stem, ext |-> Extensions[i]]
                      /\ Y[i] = [stem |-> "index", ext |-> Extensions[i]]
  <2>1. DOMAIN b = {"stem", "ext"}
    BY <1>2
  <2> QED BY <1>2, <2>1
<1>4. \A i \in 1..4 : F[i] = Append(a, X[i]) /\ G[i] = Append(base, Y[i])
  OBVIOUS
<1>5. DOMAIN X = 1..4 /\ DOMAIN Y = 1..4 /\ DOMAIN F = 1..4 /\ DOMAIN G = 1..4
  OBVIOUS
<1> HIDE DEF X, Y, F, G
<1>6. \A i \in 1..4 : X[i] \in T /\ Y[i] \in T
  BY <1>5 DEF Range
<1>7. S \subseteq T
  OBVIOUS
<1> HIDE DEF T
<1>8. base \in Seq(T) /\ a \in Seq(T)
  BY <1>2, <1>7, SeqGrows DEF Bare
<1>9. \A i \in 1..4 :
        /\ F[i] \in Seq(T) /\ Front(F[i]) = a /\ Last(F[i]) = X[i] /\ F[i] # <<>>
        /\ G[i] \in Seq(T) /\ Front(G[i]) = base /\ Last(G[i]) = Y[i] /\ G[i] # <<>>
  <2> TAKE i \in 1..4
  <2>1. X[i] \in T /\ Y[i] \in T
    BY <1>6
  <2>2. /\ Append(a, X[i]) \in Seq(T) /\ Front(Append(a, X[i])) = a
        /\ Last(Append(a, X[i])) = X[i] /\ Append(a, X[i]) # <<>>
    BY <1>8, <2>1, AppendParts, AppendIs
  <2>3. /\ Append(base, Y[i]) \in Seq(T) /\ Front(Append(base, Y[i])) = base
        /\ Last(Append(base, Y[i])) = Y[i] /\ Append(base, Y[i]) # <<>>
    BY <1>8, <2>1, AppendParts, AppendIs
  <2>4. F[i] = Append(a, X[i]) /\ G[i] = Append(base, Y[i])
    BY <1>4
  <2> QED BY <2>2, <2>3, <2>4
<1>10. F \in Seq(Seq(T)) /\ G \in Seq(Seq(T)) /\ Len(F) = 4 /\ Len(G) = 4
  <2>1. F \in [1..4 -> Seq(T)] /\ G \in [1..4 -> Seq(T)]
    <3>1. F = [i \in 1..4 |-> Append(a, X[i])] /\ G = [i \in 1..4 |-> Append(base, Y[i])]
      BY DEF F, G, X, Y
    <3>2. \A i \in 1..4 : Append(a, X[i]) \in Seq(T) /\ Append(base, Y[i]) \in Seq(T)
      BY <1>6, <1>8, AppendIs
    <3> QED BY <3>1, <3>2
  <2> QED BY <2>1, FunctionIsSeq
<1>11. \A i \in 1..4 : /\ Means(F[i], base) /\ F[i] # <<>>
                       /\ Means(G[i], base) /\ G[i] # <<>>
  <2>1. \A i \in 1..4 : /\ X[i].ext = Extensions[i] /\ X[i].stem = b.stem
                        /\ Y[i].ext = Extensions[i] /\ Y[i].stem = "index"
    BY <1>3
  <2> TAKE i \in 1..4
  <2>2. /\ Front(F[i]) = a /\ Last(F[i]) = X[i] /\ F[i] # <<>>
        /\ Front(G[i]) = base /\ Last(G[i]) = Y[i] /\ G[i] # <<>>
    BY <1>9
  <2>3. Extensions[i] \in Range(Extensions)
    BY ExtensionsAre
  <2>4. Last(F[i]).ext \in Range(Extensions) /\ Last(F[i]).stem = b.stem
        /\ Last(G[i]).ext \in Range(Extensions) /\ Last(G[i]).stem = "index"
    BY <2>1, <2>2, <2>3
  <2> QED BY <2>2, <2>4, Zenon DEF Means, a, b
<1>12. ASSUME NEW q, IsPath(q), q # <<>>, Means(q, base)
       PROVE  \E i \in 1..4 : q = F[i] \/ q = G[i]
  <2>1. q \in Seq(Range(q)) /\ \A x \in Range(q) : x = [stem |-> x.stem, ext |-> x.ext]
    BY <1>12 DEF IsPath
  <2>2. q = Append(Front(q), Last(q)) /\ Last(q) = [stem |-> Last(q).stem, ext |-> Last(q).ext]
    BY <1>12, <2>1, Rejoin, FrontIs
  <2>3. PICK i \in 1..4 : Last(q).ext = Extensions[i]
    BY <1>12, ExtensionsAre DEF Means
  <2>4. \/ Front(q) = a /\ Last(q).stem = b.stem
        \/ Front(q) = base /\ Last(q).stem = "index"
    BY <1>12 DEF Means, a, b
  <2>5. \/ Front(q) = a /\ Last(q) = X[i]
        \/ Front(q) = base /\ Last(q) = Y[i]
    BY <1>3, <2>2, <2>3, <2>4
  <2> QED BY <1>4, <2>2, <2>5
<1>13. /\ Len(C) = 8
       /\ \A i \in 1..4 : C[i] = F[i] /\ C[4 + i] = G[i]
  <2> DEFINE U == Seq(T)
  <2>1. F \in Seq(U) /\ G \in Seq(U) /\ Len(F) = 4 /\ Len(G) = 4
    BY <1>10
  <2> HIDE DEF U
  <2>2. \A f, g \in Seq(U) : Len(f) = 4 /\ Len(g) = 4 =>
          Len(f \o g) = 8 /\ \A i \in 1..4 : (f \o g)[i] = f[i] /\ (f \o g)[4 + i] = g[i]
    BY TwoHalves
  <2> QED BY <1>1, <2>1, <2>2, Zenon
<1>14. \A i \in 1..Len(C) : Means(C[i], base) /\ C[i] # <<>>
  <2>1. \A i \in 1..8 : i \in 1..4 \/ (i - 4 \in 1..4 /\ i = 4 + (i - 4))
    OBVIOUS
  <2>2. \A i \in 1..8 : i \in 1..4 \/ (i - 4 \in 1..4 /\ C[i] = G[i - 4])
    BY <1>13, <2>1
  <2> QED BY <1>11, <1>13, <2>2
<1>15. \A q : IsPath(q) /\ q # <<>> /\ Means(q, base) => \E i \in 1..Len(C) : C[i] = q
  <2>1. \A i \in 1..4 : i \in 1..8 /\ 4 + i \in 1..8
    OBVIOUS
  <2> QED BY <1>12, <1>13, <2>1
<1> QED BY <1>14, <1>15 DEF C

\* A scan that holds the code of an attempt has its whole graph: of the files that
\* an import can mean, ResolveRelativeSpecifier finds one.
LEMMA Whole ==
  ASSUME NEW s \in Scans, NEW k \in 1..Attempts, Holds(s, k)
  PROVE  GraphIsWhole(s)
<1> DEFINE r == <<s, k>>
           code == Code[r]
           rows == FilesOf(s)
<1>1. r \in Runs /\ rows = {<<r, p>> : p \in DOMAIN code} /\ DepsOf(s) = DependencyRows(r, code)
  BY RunIs DEF Holds, FileRows
<1>2. ASSUME NEW f \in rows, NEW ref \in code[f[2]], Meant(f, ref, rows) # {}
      PROVE  \E g \in Meant(f, ref, rows) : <<f, g>> \in Edges(DepsOf(s))
  <2> DEFINE p == f[2]
             dir == Front(p)
             base == SubSeq(dir, 1, Len(dir) - ref.up) \o ref.down
             C == Candidates(base)
             Ready == /\ ref.local /\ ref.up <= Len(dir) /\ base # <<>>
                      /\ Last(base).ext = ""
  <2>1. p \in DOMAIN code /\ f = <<r, p>>
    BY <1>1
  <2>2. IsPath(p) /\ p # <<>> /\ ref.up \in Nat /\ IsPath(ref.down)
    BY <1>1, <1>2, <2>1, CodeAssumption
  <2>3. Meant(f, ref, rows) = {g \in rows : Ready /\ Means(g[2], base)}
    BY DEF Meant, Means
  <2>4. PICK g0 \in rows : Ready /\ Means(g0[2], base)
    BY <1>2, <2>3
  <2> DEFINE S == Range(p) \cup Range(ref.down)
  <2>5. base \in Seq(S) /\ \A x \in S : Segment(x)
    <3>1. \A x \in S : Segment(x)
      BY <2>2 DEF IsPath, Segment
    <3>2. p \in Seq(S) /\ ref.down \in Seq(S)
      <4>1. Range(p) \subseteq S /\ Range(ref.down) \subseteq S
        OBVIOUS
      <4>2. p \in Seq(Range(p)) /\ ref.down \in Seq(Range(ref.down))
        BY <2>2 DEF IsPath
      <4> HIDE DEF S, p
      <4> QED BY <4>1, <4>2
    <3>3. dir \in Seq(S)
      <4> HIDE DEF S, p
      <4> QED BY <2>2, <3>2, FrontIs
    <3>4. Len(dir) - ref.up \in 0..Len(dir) /\ Len(dir) \in Nat
      <4>1. ref.up <= Len(dir)
        BY <2>4
      <4> HIDE DEF S, dir
      <4>2. Len(dir) \in Nat
        BY <3>3
      <4> QED BY <2>2, <4>1, <4>2
    <3>5. SubSeq(dir, 1, Len(dir) - ref.up) \in Seq(S)
      <4> HIDE DEF S, dir
      <4> QED BY <3>3, <3>4
    <3> HIDE DEF S, dir
    <3> QED BY <3>1, <3>2, <3>5
  <2> HIDE DEF base, S
  <2>6. /\ \A i \in 1..Len(C) : Means(C[i], base) /\ C[i] # <<>>
        /\ \A q : IsPath(q) /\ q # <<>> /\ Means(q, base) => \E i \in 1..Len(C) : C[i] = q
    <3>1. Bare(base, S)
      BY <2>4, <2>5 DEF Bare
    <3> QED BY <3>1, CandidatesAre, Zenon DEF C
  <2> HIDE DEF C, dir
  <2>7. \E i \in 1..Len(C) : C[i] \in DOMAIN code
    <3>1. g0[2] \in DOMAIN code /\ IsPath(g0[2]) /\ g0[2] # <<>>
      BY <1>1, CodeAssumption
    <3> QED BY <2>4, <2>6, <3>1
  <2> DEFINE hit == SelectInSeq(C, LAMBDA c : c \in DOMAIN code)
             I == {i \in 1..Len(C) : C[i] \in DOMAIN code}
  <2>8. hit \in 1..Len(C) /\ C[hit] \in DOMAIN code
    <3>1. hit = IF I # {} THEN Min(I) ELSE 0
      BY Zenon DEF SelectInSeq
    <3>2. I \subseteq Nat /\ I # {}
      BY <2>7, CandidatesSeq DEF C
    <3>3. Min(I) \in I
      <4> HIDE DEF I
      <4> QED BY <3>2, Least DEF Min
    <3> HIDE DEF hit
    <3> QED BY <3>1, <3>2, <3>3
  <2> HIDE DEF hit
  <2>9. ResolveRelativeSpecifier(p, ref, DOMAIN code) = C[hit]
    <3>1. ResolveRelativeSpecifier(p, ref, DOMAIN code) =
            IF ref.local /\ ref.up <= Len(dir) /\ hit # 0 THEN C[hit] ELSE <<>>
      BY DEF ResolveRelativeSpecifier, dir, base, C, hit
    <3>2. hit # 0 /\ ref.local /\ ref.up <= Len(dir)
      <4>1. \A i \in 1..Len(C) : i # 0
        OBVIOUS
      <4> QED BY <2>4, <2>8, <4>1
    <3> QED BY <3>1, <3>2, Zenon
  <2> DEFINE d == [source |-> p, ref |-> ref, target |-> C[hit]]
             row == [from |-> <<r, p>>, ref |-> ref, to |-> <<r, C[hit]>>]
  <2>10. d \in Dependencies(code)
    BY <2>1, <2>9 DEF Dependencies
  <2>11. row \in DepsOf(s)
    <3>1. C[hit] # <<>>
      BY <2>6, <2>8
    <3>2. d.source = p /\ d.ref = ref /\ d.target = C[hit]
      OBVIOUS
    <3> HIDE DEF d
    <3>3. row = [from |-> <<r, d.source>>, ref |-> d.ref,
                 to |-> IF d.target = <<>> THEN <<>> ELSE <<r, d.target>>]
      BY <3>1, <3>2
    <3> QED BY <1>1, <2>10, <3>3 DEF DependencyRows
  <2>12. Edge(row) = <<f, <<r, C[hit]>> >>
    BY <2>1 DEF Edge
  <2>13. <<r, C[hit]>> \in Meant(f, ref, rows)
    BY <1>1, <2>3, <2>4, <2>6, <2>8
  <2> QED BY <2>11, <2>12, <2>13 DEF Edges
<1>3. rows = FileRows(r, code)
  BY DEF Holds
<1> QED BY <1>2, <1>3 DEF GraphIsWhole

-----------------------------------------------------------------------------
(* One snapshot to a name                                                  *)

\* The attempt that a row is named after.
Writer(id) == <<id[1], id[2]>>

Written ==
  /\ \A x \in snaps : run[Writer(x.id)].pc \in {"complete", "done", "failed"}
  /\ \A x, y \in snaps : x.id = y.id => x = y

\* The writer of a row is an attempt.
LEMMA WriterIn == \A id \in Names : Writer(id) \in Runs
  BY DEF Names, Writer, Runs

\* The snapshots of an attempt have its name, and names of their own.
LEMMA MadeNames ==
  ASSUME Shape, NEW s \in Scans, NEW k \in 1..Attempts
  PROVE  /\ \A x \in NewSnapshots(s, k) : Writer(x.id) = <<s, k>>
         /\ \A x, y \in NewSnapshots(s, k) : x.id = y.id => x = y
<1> DEFINE rows == Rows(s, k)
           prev == run[<<s, k>>].prev
           M(row) == [id |-> row.id, contract |-> row.contract,
                      version |-> Version(row.contract, prev)]
<1>1. \A n \in DOMAIN rows : rows[n].id = <<s, k, n>>
  BY RowsType
<1>2. NewSnapshots(s, k) = {M(row) : row \in Range(rows)}
  BY DEF NewSnapshots
<1> HIDE DEF rows, prev
<1>3. \A x \in NewSnapshots(s, k) : \E n \in DOMAIN rows : x = M(rows[n])
  BY <1>2 DEF Range
<1>4. \A n \in DOMAIN rows : M(rows[n]).id = <<s, k, n>>
  BY <1>1
<1> HIDE DEF M
<1>5. \A m, n : <<s, k, m>> = <<s, k, n>> => m = n
  OBVIOUS
<1>6. \A x \in NewSnapshots(s, k) : Writer(x.id) = <<s, k>>
  BY <1>3, <1>4 DEF Writer
<1>7. ASSUME NEW x \in NewSnapshots(s, k), NEW y \in NewSnapshots(s, k), x.id = y.id
      PROVE  x = y
  <2>1. PICK m \in DOMAIN rows : x = M(rows[m])
    BY <1>3
  <2>2. PICK n \in DOMAIN rows : y = M(rows[n])
    BY <1>3
  <2>3. m = n
    BY <1>4, <1>5, <1>7, <2>1, <2>2
  <2> QED BY <2>1, <2>2, <2>3
<1> QED BY <1>6, <1>7

\* An attempt never returns to a point before its report.
LEMMA Onward ==
  ASSUME Shape, NEW s \in Scans, NEW k \in 1..Attempts, Acts(s, k)
  PROVE  /\ \A r \in Runs : r # <<s, k>> => run'[r] = run[r]
         /\ run[<<s, k>>].pc \in {"complete", "done", "failed"} =>
              run'[<<s, k>>].pc \in {"complete", "done", "failed"}
<1>1. CASE Detach(s, k)
  <2>1. run' = [run EXCEPT ![<<s, k>>].aborted = TRUE]
    BY <1>1, Zenon DEF Detach
  <2> QED BY <1>1, <2>1, After DEF Shape
<1>2. CASE ~Detach(s, k)
  <2>1. Moves(s, k)
    BY <1>2, MovesIs
  <2>2. run[<<s, k>>].pc = "complete" =>
          Complete(s, k) \/ Fail(s, k)
    BY <1>2 DEF Acts, Start, OpenStore, Store, OpenReplace, Replace, FindPrevious,
                ReadSnapshots, Write, FailLate
  <2>3. Complete(s, k) \/ Fail(s, k) => run'[<<s, k>>].pc \in {"done", "failed"}
    BY After DEF Fail
  <2> QED BY <2>1, <2>2, <2>3, BusyIn DEF Moves
<1> QED BY <1>1, <1>2

\* Every step keeps names unique: an attempt writes its snapshots once.
LEMMA WrittenStep ==
  ASSUME Shape, Written, [Next]_vars
  PROVE  Written'
<1>0. \A x \in snaps : Writer(x.id) \in Runs
  BY WriterIn, RowFields DEF Shape
<1>1. CASE UNCHANGED vars
  BY <1>1 DEF vars, apiVars, Written
<1>2. ASSUME NEW s \in Scans, Request(s) PROVE Written'
  BY <1>2 DEF Request, apiVars, Written
<1>3. ASSUME NEW s \in Scans, NEW k \in 1..Attempts, Acts(s, k) PROVE Written'
  <2>1. \A x \in snaps : run'[Writer(x.id)].pc \in {"complete", "done", "failed"}
    BY <1>0, <1>3, Onward DEF Written
  <2>2. CASE snaps' \subseteq snaps
    BY <2>1, <2>2 DEF Written
  <2>3. CASE snaps' = snaps \cup NewSnapshots(s, k) /\ run[<<s, k>>].pc = "write"
             /\ run'[<<s, k>>].pc \in {"complete", "failed"}
    <3>1. \A x \in NewSnapshots(s, k) : Writer(x.id) = <<s, k>>
      BY MadeNames
    <3>2. \A x \in snaps : Writer(x.id) # <<s, k>>
      BY <2>3 DEF Written
    <3>3. \A x, y \in snaps' : x.id = y.id => x = y
      BY <2>3, <3>1, <3>2, MadeNames DEF Written
    <3> QED BY <2>1, <2>3, <3>1, <3>3 DEF Written
  <2>4. CASE Replace(s, k)
    BY <2>2, <2>4 DEF Replace, Cascade
  <2>5. CASE Write(s, k)
    <3>1. snaps' = snaps \/ snaps' = snaps \cup NewSnapshots(s, k)
      BY <2>5 DEF Write
    <3>2. run[<<s, k>>].pc = "write" /\ run'[<<s, k>>].pc \in {"complete", "failed"}
      BY <2>5, After DEF Write
    <3> QED BY <2>2, <2>3, <3>1, <3>2
  <2> QED BY <1>3, <2>2, <2>4, <2>5, Writers
<1> QED BY <1>1, <1>2, <1>3, NextIs, Zenon

-----------------------------------------------------------------------------
(* A completed scan was compared with what its base has stored             *)

SnapshotsOf(prev, rows) ==
  {[id |-> row.id, contract |-> row.contract, version |-> Version(row.contract, prev)] :
     row \in Range(rows)}

ReportOf(s, prev, rows) ==
  {[scan |-> s, api |-> c.api, type |-> c.type, old |-> c.old, new |-> c.new,
    severity |-> c.severity] : c \in Changes(prev, rows)}

\* What Write makes, as a function of the two lists of rows.
LEMMA NewAre ==
  \A s, k : /\ NewSnapshots(s, k) = SnapshotsOf(run[<<s, k>>].prev, Rows(s, k))
            /\ NewChanges(s, k) = ReportOf(s, run[<<s, k>>].prev, Rows(s, k))
  BY DEF NewSnapshots, SnapshotsOf, NewChanges, ReportOf

\* prev lists the snapshots S of the scan b, if there is one.
Lists(prev, b, S) ==
  /\ b = 0 => prev = <<>>
  /\ b # 0 => /\ prev \in Seq(SnapRows) /\ Range(prev) = S
              /\ \A i, j \in DOMAIN prev : prev[i] = prev[j] => i = j

\* S and C are the snapshots and the changes of what an attempt found.
Reported(s, k, found, prev, S, C) ==
  /\ S = SnapshotsOf(prev, Made(s, k, found))
  /\ C = ReportOf(s, prev, Made(s, k, found))

Older(s, b) == b # 0 => b \in Scans /\ b < s /\ status[b] = "COMPLETED"

Compares(s, k) ==
  LET x == run[<<s, k>>] IN
  /\ x.pc \in {"idle", "code", "storing", "replace", "replacing", "base", "read"} =>
       x.prev = <<>>
  /\ x.pc = "read" => x.base # 0
  /\ x.pc \in {"read", "write", "complete"} => Older(s, x.base)
  /\ x.pc \in {"write", "complete"} => Lists(x.prev, x.base, SnapsOf(x.base))
  /\ x.pc = "complete" => Reported(s, k, x.found, x.prev, SnapsOf(s), ChangesOf(s))

HasCompared(s) ==
  \E k \in 1..Attempts :
    /\ run[<<s, k>>].pc = "done" /\ Older(s, run[<<s, k>>].base)
    /\ \E found \in Seq(Contracts), prev \in Seq(SnapRows) :
         /\ Lists(prev, run[<<s, k>>].base, SnapsOf(run[<<s, k>>].base))
         /\ Reported(s, k, found, prev, SnapsOf(s), ChangesOf(s))

\* A change names rows of its own scan and of a completed one.
Linked ==
  \A c \in changes : \A n \in {c.api, c.old, c.new} \ {<<>>} :
    n[1] = c.scan \/ status[n[1]] = "COMPLETED"

Faithful ==
  /\ \A s \in Scans : /\ \A k \in 1..Attempts : Compares(s, k)
                      /\ status[s] = "COMPLETED" => HasCompared(s)
  /\ Linked

\* The report of another scan stays as it is.
LEMMA OtherChanges ==
  ASSUME Shape, Kept, Linked, NEW s \in Scans, NEW k \in 1..Attempts, Acts(s, k),
         status[s] # "COMPLETED", NEW t \in Scans, t # s
  PROVE  ChangesOf(t)' = ChangesOf(t)
<1>1. CASE changes' = changes
  BY <1>1 DEF ChangesOf
<1>2. CASE Replace(s, k)
  <2> DEFINE gone == run[<<s, k>>].gone
             Cut(c) == [c EXCEPT !.old = IF @ \in gone THEN <<>> ELSE @,
                                 !.new = IF @ \in gone THEN <<>> ELSE @]
  <2>1. changes' = {Cut(c) : c \in {x \in changes : x.api \notin gone}}
    BY <1>2 DEF Replace, Cascade
  <2>2. \A n \in gone : n[1] = s
    BY <1>2 DEF Replace, Kept
  <2>3. \A c \in changes : c \in ChangeRows /\ c.api # <<>>
    BY NamesAre DEF Shape, ChangeRows
  <2>4. \A c \in ChangeRows : Cut(c).scan = c.scan
    BY DEF ChangeRows
  <2>5. ASSUME NEW c \in changes, c.scan = t PROVE c.api \notin gone /\ Cut(c) = c
    <3>1. c.api \notin gone /\ (c.old \in gone => c.old = <<>>) /\ (c.new \in gone => c.new = <<>>)
      BY <2>2, <2>3, <2>5 DEF Linked
    <3> DEFINE o == IF c.old \in gone THEN <<>> ELSE c.old
               n == IF c.new \in gone THEN <<>> ELSE c.new
    <3>2. o = c.old /\ n = c.new
      BY <3>1
    <3>3. Cut(c) = [c EXCEPT !.old = o, !.new = n]
      OBVIOUS
    <3> HIDE DEF o, n, Cut, gone
    <3>4. [c EXCEPT !.old = c.old, !.new = c.new] = c
      BY <2>3 DEF ChangeRows
    <3> QED BY <3>1, <3>2, <3>3, <3>4
  <2> HIDE DEF gone, Cut
  <2> QED BY <2>1, <2>3, <2>4, <2>5 DEF ChangesOf
<1>3. CASE Write(s, k)
  <2>1. changes' = changes \/ changes' = {c \in changes : c.scan # s} \cup NewChanges(s, k)
    BY <1>3 DEF Write
  <2>2. \A c \in NewChanges(s, k) : c.scan = s
    BY NewChangesType
  <2> QED BY <2>1, <2>2 DEF ChangesOf
<1> QED BY <1>1, <1>2, <1>3, Writers

\* Changes keep naming rows of completed scans.
LEMMA LinkedStep ==
  ASSUME Shape, Linked, NEW s \in Scans, NEW k \in 1..Attempts, Acts(s, k), Compares(s, k),
         \A t \in Scans : status[t] = "COMPLETED" => status'[t] = "COMPLETED"
  PROVE  Linked'
<1> DEFINE Good(c) == \A n \in {c.api, c.old, c.new} \ {<<>>} :
                        n[1] = c.scan \/ status'[n[1]] = "COMPLETED"
<1>1. ASSUME NEW c \in changes PROVE Good(c)
  <2>1. \A n \in {c.api, c.old, c.new} \ {<<>>} : n[1] \in Scans
    BY NamesAre DEF Shape, ChangeRows
  <2> QED BY <2>1 DEF Linked
<1>2. CASE changes' = changes
  BY <1>1, <1>2 DEF Linked
<1>3. CASE Replace(s, k)
  <2> DEFINE gone == run[<<s, k>>].gone
             Cut(c) == [c EXCEPT !.old = IF @ \in gone THEN <<>> ELSE @,
                                 !.new = IF @ \in gone THEN <<>> ELSE @]
  <2>1. changes' = {Cut(c) : c \in {x \in changes : x.api \notin gone}}
    BY <1>3 DEF Replace, Cascade
  <2>2. \A c \in changes : /\ Cut(c).api = c.api /\ Cut(c).scan = c.scan
                           /\ Cut(c).old \in {c.old, <<>>} /\ Cut(c).new \in {c.new, <<>>}
    BY DEF Shape, ChangeRows
  <2> HIDE DEF Cut
  <2>3. \A c \in changes : Good(Cut(c))
    BY <1>1, <2>2
  <2> HIDE DEF Good
  <2>4. \A c \in changes' : Good(c)
    BY <2>1, <2>3
  <2> QED BY <2>4 DEF Linked, Good
<1>4. CASE Write(s, k)
  <2>1. changes' = changes \/ changes' = {c \in changes : c.scan # s} \cup NewChanges(s, k)
    BY <1>4 DEF Write
  <2> DEFINE x == run[<<s, k>>]
  <2>2. x.pc = "write" /\ Older(s, x.base) /\ Lists(x.prev, x.base, SnapsOf(x.base))
    BY <1>4 DEF Write, Compares
  <2>3. \A q \in Range(x.prev) : status'[q.id[1]] = "COMPLETED"
    <3>1. CASE x.base = 0
      <4>1. x.prev = <<>>
        BY <2>2, <3>1 DEF Lists
      <4> QED BY <4>1 DEF Range
    <3>2. CASE x.base # 0
      <4>1. Range(x.prev) = SnapsOf(x.base) /\ status'[x.base] = "COMPLETED"
        BY <2>2, <3>2 DEF Lists, Older
      <4> QED BY <4>1 DEF SnapsOf
    <3> QED BY <3>1, <3>2
  <2>4. \A q \in Range(Rows(s, k)) : q.id[1] = s
    BY RowsType
  <2> HIDE DEF x
  <2>5. ASSUME NEW c \in NewChanges(s, k) PROVE Good(c)
    <3>1. /\ c.scan = s
          /\ c.old \in Ids(Range(x.prev)) \cup {<<>>}
          /\ c.new \in Ids(Range(Rows(s, k))) \cup {<<>>}
          /\ c.api \in {c.old, c.new} \ {<<>>}
      BY NewChangesType DEF x
    <3>2. \A n \in Ids(Range(x.prev)) : status'[n[1]] = "COMPLETED"
      BY <2>3 DEF Ids
    <3>3. \A n \in Ids(Range(Rows(s, k))) : n[1] = s
      BY <2>4 DEF Ids
    <3> QED BY <3>1, <3>2, <3>3
  <2> HIDE DEF Good
  <2>6. \A c \in changes' : Good(c)
    BY <1>1, <2>1, <2>5
  <2> QED BY <2>6 DEF Linked, Good
<1> QED BY <1>2, <1>3, <1>4, Writers

\* What an attempt compares with does not change under the steps of others.
LEMMA ComparesKept ==
  ASSUME Shape, NEW t \in Scans, NEW j \in 1..Attempts, Compares(t, j),
         run'[<<t, j>>] = run[<<t, j>>],
         \A b \in Scans : status[b] = "COMPLETED" =>
           status'[b] = "COMPLETED" /\ SnapsOf(b)' = SnapsOf(b),
         SnapsOf(t)' = SnapsOf(t), ChangesOf(t)' = ChangesOf(t)
  PROVE  Compares(t, j)'
<1> DEFINE x == run[<<t, j>>]
           b == x.base
<1>1. x.pc \in {"read", "write", "complete"} => Older(t, b)'
  BY DEF Compares, Older
<1>2. x.pc \in {"write", "complete"} => Lists(x.prev, b, SnapsOf(b)')
  <2>1. x.pc \in {"write", "complete"} => Lists(x.prev, b, SnapsOf(b)) /\ Older(t, b)
    BY DEF Compares
  <2>2. CASE b = 0
    BY <2>1, <2>2 DEF Lists
  <2>3. CASE b # 0
    BY <2>1, <2>3 DEF Older
  <2> QED BY <2>2, <2>3
<1>3. x.pc = "complete" => Reported(t, j, x.found, x.prev, SnapsOf(t)', ChangesOf(t)')
  BY DEF Compares
<1>4. SnapsOf(b)' = {y \in snaps' : y.id[1] = run'[<<t, j>>].base}
  BY DEF SnapsOf
<1>5. SnapsOf(run[<<t, j>>].base)' = SnapsOf(b)'
  BY <1>4 DEF SnapsOf
<1>6. Older(t, run[<<t, j>>].base)' <=> Older(t, b)'
  BY DEF Older
<1>7. x.pc \in {"idle", "code", "storing", "replace", "replacing", "base", "read"} => x.prev = <<>>
  BY DEF Compares
<1>8. x.pc = "read" => x.base # 0
  BY DEF Compares
<1> HIDE DEF b
<1> QED BY <1>1, <1>2, <1>3, <1>5, <1>6, <1>7, <1>8 DEF Compares, b

\* The same for a scan that has completed.
LEMMA ComparedKept ==
  ASSUME Shape, NEW t \in Scans, HasCompared(t),
         \A j \in 1..Attempts : run'[<<t, j>>] = run[<<t, j>>],
         \A b \in Scans : status[b] = "COMPLETED" =>
           status'[b] = "COMPLETED" /\ SnapsOf(b)' = SnapsOf(b),
         SnapsOf(t)' = SnapsOf(t), ChangesOf(t)' = ChangesOf(t)
  PROVE  HasCompared(t)'
<1>1. PICK k \in 1..Attempts :
        /\ run[<<t, k>>].pc = "done" /\ Older(t, run[<<t, k>>].base)
        /\ \E found \in Seq(Contracts), prev \in Seq(SnapRows) :
             /\ Lists(prev, run[<<t, k>>].base, SnapsOf(run[<<t, k>>].base))
             /\ Reported(t, k, found, prev, SnapsOf(t), ChangesOf(t))
  BY DEF HasCompared
<1> DEFINE b == run[<<t, k>>].base
<1>2. PICK found \in Seq(Contracts), prev \in Seq(SnapRows) :
        Lists(prev, b, SnapsOf(b)) /\ Reported(t, k, found, prev, SnapsOf(t), ChangesOf(t))
  BY <1>1
<1>3. Lists(prev, b, SnapsOf(b)')
  <2>1. CASE b = 0
    BY <1>2, <2>1 DEF Lists
  <2>2. CASE b # 0
    BY <1>1, <1>2, <2>2 DEF Older
  <2> QED BY <2>1, <2>2
<1>4. Older(t, b)'
  BY <1>1 DEF Older
<1>5. run'[<<t, k>>] = run[<<t, k>>]
  OBVIOUS
<1>6. SnapsOf(run[<<t, k>>].base)' = SnapsOf(b)'
  BY <1>5 DEF SnapsOf
<1>7. Older(t, run[<<t, k>>].base)' <=> Older(t, b)'
  BY <1>5 DEF Older
<1>8. run'[<<t, k>>].pc = "done" /\ run'[<<t, k>>].base = b
  BY <1>1, <1>5
<1>9. Reported(t, k, found, prev, SnapsOf(t)', ChangesOf(t)')
  BY <1>2
<1> HIDE DEF b
<1> QED BY <1>3, <1>4, <1>6, <1>7, <1>8, <1>9 DEF HasCompared, b

\* The attempt that moves.
LEMMA ComparesMoved ==
  ASSUME Shape, Described, NEW s \in Scans, NEW k \in 1..Attempts, Acts(s, k), ~Detach(s, k),
         Compares(s, k),
         \A b \in Scans : status[b] = "COMPLETED" =>
           status'[b] = "COMPLETED" /\ SnapsOf(b)' = SnapsOf(b)
  PROVE  Compares(s, k)'
<1> DEFINE x == run[<<s, k>>]
           y == run'[<<s, k>>]
<1>1. CASE Throw(s, k) \/ FailLate(s, k) \/ Complete(s, k)
  <2>1. y.pc \in {"failed", "done"}
    <3> HIDE DEF x, y
    <3> QED BY <1>1, After DEF x, y
  <2> QED BY <2>1 DEF Compares
<1>2. ASSUME y.pc \in {"code", "storing", "replace", "replacing", "base"}, y.prev = x.prev,
             x.pc \in {"idle", "code", "storing", "replace", "replacing", "base", "read"}
      PROVE  Compares(s, k)'
  BY <1>2 DEF Compares
<1>3. CASE Start(s, k)
  BY <1>2, <1>3, After DEF Start
<1>4. CASE OpenStore(s, k)
  BY <1>2, <1>4, After DEF OpenStore
<1>5. CASE Store(s, k) /\ ~Throw(s, k)
  BY <1>2, <1>5, After DEF Store
<1>6. ASSUME NEW commit, OpenReplace(s, k, commit) PROVE Compares(s, k)'
  <2>1. y.pc = "replacing" /\ y.prev = x.prev
    BY <1>6, After
  <2>2. x.pc = "replace"
    BY <1>6 DEF OpenReplace
  <2> QED BY <1>2, <2>1, <2>2
<1>7. CASE Replace(s, k) /\ ~Throw(s, k)
  BY <1>2, <1>7, After DEF Replace
<1>8. CASE FindPrevious(s, k)
  <2>1. /\ y.pc = IF Earlier(s) = {} THEN "write" ELSE "read"
        /\ y.base = IF Earlier(s) = {} THEN 0 ELSE LastOf(Earlier(s))
        /\ y.prev = x.prev
    BY <1>8, After
  <2>2. x.pc = "base" /\ x.prev = <<>> /\ status' = status
    BY <1>8 DEF FindPrevious, Compares
  <2>3. CASE Earlier(s) = {}
    BY <2>1, <2>2, <2>3 DEF Compares, Older, Lists
  <2>4. CASE Earlier(s) # {}
    <3>1. y.base \in Earlier(s) /\ y.base \in Scans
      BY <2>1, <2>4, BaseType
    <3>2. y.base < s /\ status'[y.base] = "COMPLETED" /\ y.base # 0
      BY <2>2, <3>1 DEF Earlier, Scans
    <3>3. Older(s, run[<<s, k>>].base)'
      BY <3>1, <3>2 DEF Older
    <3> QED BY <2>1, <2>2, <2>4, <3>2, <3>3 DEF Compares
  <2> QED BY <2>3, <2>4
<1>9. CASE ReadSnapshots(s, k)
  <2>1. /\ y.pc = "write" /\ y.base = x.base
        /\ y.prev \in SetToSeqs({q \in snaps : q.id[1] = x.base})
    BY <1>9, After
  <2>2. x.base # 0 /\ Older(s, x.base) /\ snaps' = snaps /\ status' = status
    BY <1>9 DEF ReadSnapshots, Compares, apiVars
  <2>3. SnapsOf(x.base) \subseteq snaps /\ y.prev \in SetToSeqs(SnapsOf(x.base))
    BY <2>1 DEF SnapsOf
  <2>4. Lists(y.prev, x.base, SnapsOf(x.base))
    <3> HIDE DEF x, y
    <3> QED BY <2>2, <2>3, ReadType DEF Lists
  <2>5. SnapsOf(run[<<s, k>>].base)' = SnapsOf(x.base)
    BY <2>1, <2>2 DEF SnapsOf
  <2>6. Older(s, run[<<s, k>>].base)'
    BY <2>1, <2>2 DEF Older
  <2> QED BY <2>1, <2>4, <2>5, <2>6 DEF Compares
<1>10. CASE Write(s, k) /\ ~Throw(s, k)
  <2>1. y.pc = "complete" /\ y.found = x.found /\ y.base = x.base /\ y.prev = x.prev
    BY <1>10, After
  <2>2. x.pc = "write"
    BY <1>10 DEF Write
  <2>3. Older(s, x.base) /\ Lists(x.prev, x.base, SnapsOf(x.base)) /\ SnapsOf(s) = {}
    BY <2>2 DEF Compares, Described, Progressed
  <2>4. SnapsOf(s)' = NewSnapshots(s, k) /\ ChangesOf(s)' = NewChanges(s, k)
    BY <1>10, <2>3, WrittenAll
  <2>5. Reported(s, k, x.found, x.prev, SnapsOf(s)', ChangesOf(s)')
    BY <2>4, NewAre, RowsAre DEF Reported
  <2>6. Lists(x.prev, x.base, {q \in snaps' : q.id[1] = x.base})
    <3>1. CASE x.base = 0
      BY <2>3, <3>1 DEF Lists
    <3>2. CASE x.base # 0
      <4>1. PICK b \in Scans : b = x.base /\ status[b] = "COMPLETED"
        BY <2>3, <3>2 DEF Older
      <4>2. {q \in snaps' : q.id[1] = b} = SnapsOf(b)
        BY <4>1 DEF SnapsOf
      <4> QED BY <2>3, <4>1, <4>2
    <3> QED BY <3>1, <3>2
  <2>7. SnapsOf(run[<<s, k>>].base)' = {q \in snaps' : q.id[1] = x.base}
    BY <2>1 DEF SnapsOf
  <2>8. Older(s, run[<<s, k>>].base)'
    BY <2>1, <2>3 DEF Older
  <2> HIDE DEF x
  <2>9. /\ Lists(y.prev, y.base, SnapsOf(run[<<s, k>>].base)')
        /\ Reported(s, k, y.found, y.prev, SnapsOf(s)', ChangesOf(s)')
    BY <2>1, <2>5, <2>6, <2>7 DEF x
  <2> QED BY <2>1, <2>8, <2>9 DEF Compares
<1>11. Fail(s, k) => Throw(s, k)
  BY DEF Fail
<1> HIDE DEF x, y
<1> QED BY <1>1, <1>3, <1>4, <1>5, <1>6, <1>7, <1>8, <1>9, <1>10, <1>11 DEF Acts

\* A step that leaves attempts and rows alone keeps every comparison.
LEMMA FaithfulSame ==
  ASSUME Shape, Faithful, run' = run, UNCHANGED apiVars,
         \A t \in Scans : status'[t] = "COMPLETED" <=> status[t] = "COMPLETED"
  PROVE  Faithful'
<1>1. \A t \in Scans : SnapsOf(t)' = SnapsOf(t) /\ ChangesOf(t)' = ChangesOf(t)
  BY DEF apiVars, SnapsOf, ChangesOf
<1>2. \A t \in Scans, j \in 1..Attempts : Compares(t, j)'
  BY <1>1, ComparesKept DEF Faithful
<1>3. \A t \in Scans : status'[t] = "COMPLETED" => HasCompared(t)'
  BY <1>1, ComparedKept DEF Faithful
<1>4. Linked'
  <2>1. \A c \in changes : \A n \in {c.api, c.old, c.new} \ {<<>>} : n[1] \in Scans
    BY NamesAre DEF Shape, ChangeRows
  <2> QED BY <2>1 DEF Faithful, Linked, apiVars
<1> QED BY <1>2, <1>3, <1>4 DEF Faithful

\* Every step keeps every comparison.
LEMMA FaithfulStep ==
  ASSUME Shape, Kept, Turns, Turns', Settled, Described, Faithful, [Next]_vars,
         Quiet("detach")', Quiet("rerun")'
  PROVE  Faithful'
<1>1. CASE UNCHANGED vars
  BY <1>1, FaithfulSame DEF vars
<1>2. ASSUME NEW s \in Scans, Request(s) PROVE Faithful'
  <2>1. run' = run /\ UNCHANGED apiVars
        /\ \A t \in Scans : status'[t] = "COMPLETED" <=> status[t] = "COMPLETED"
    BY <1>2 DEF Request, Shape
  <2> QED BY <2>1, FaithfulSame
<1>3. ASSUME NEW s \in Scans, NEW k \in 1..Attempts, Acts(s, k) PROVE Faithful'
  <2>1. Moves(s, k) /\ ~Detach(s, k)
    BY <1>3, MovesIs, Detached
  <2>2. status[s] # "COMPLETED"
    BY <1>3, Stays
  <2>3. \A t \in Scans : t # s => /\ SnapsOf(t)' = SnapsOf(t) /\ ChangesOf(t)' = ChangesOf(t)
                                  /\ \A j \in 1..Attempts : run'[<<t, j>>] = run[<<t, j>>]
    <3>1. \A t \in Scans : t # s => SnapsOf(t)' = SnapsOf(t)
      BY <1>3, OtherApis
    <3>2. \A t \in Scans : t # s => ChangesOf(t)' = ChangesOf(t)
      BY <1>3, <2>2, OtherChanges DEF Faithful
    <3>3. \A t \in Scans, j \in 1..Attempts : t # s => run'[<<t, j>>] = run[<<t, j>>]
      BY <2>1 DEF Moves, Runs
    <3> QED BY <3>1, <3>2, <3>3
  <2>4. \A b \in Scans : status[b] = "COMPLETED" =>
          status'[b] = "COMPLETED" /\ SnapsOf(b)' = SnapsOf(b)
    BY <2>2, <2>3, Stays
  <2>5. \A t \in Scans, j \in 1..Attempts : t # s => Compares(t, j)'
    BY <2>3, <2>4, ComparesKept DEF Faithful
  <2>6. Compares(s, k)'
    BY <1>3, <2>1, <2>4, ComparesMoved DEF Faithful
  <2>7. ASSUME NEW j \in 1..Attempts, j # k PROVE Compares(s, j)'
    <3>1. run'[<<s, j>>] = run[<<s, j>>] /\ run[<<s, j>>].pc \in {"failed", "idle"}
      BY <2>1, <2>7, Alone
    <3> QED BY <3>1 DEF Faithful, Compares
  <2>8. \A t \in Scans : t # s => (status'[t] = "COMPLETED" => HasCompared(t)')
    <3>1. \A t \in Scans : t # s => status'[t] = status[t]
      BY <2>1 DEF Moves
    <3> QED BY <2>3, <2>4, <3>1, ComparedKept DEF Faithful
  <2>9. ASSUME status'[s] = "COMPLETED" PROVE HasCompared(s)'
    <3> DEFINE x == run[<<s, k>>]
               y == run'[<<s, k>>]
               b == x.base
    <3>1. x.pc = "complete" /\ y.pc = "done"
      BY <1>3, <2>1, <2>2, <2>9, CompletedBy
    <3>2. Complete(s, k) /\ ~Throw(s, k)
      <4>1. Complete(s, k) \/ Fail(s, k)
        BY <1>3, <2>1, <3>1 DEF Acts, Start, OpenStore, Store, OpenReplace, Replace,
                FindPrevious, ReadSnapshots, Write, FailLate
      <4>2. Throw(s, k) => y.pc = "failed"
        BY After
      <4> QED BY <3>1, <4>1, <4>2 DEF Fail
    <3>3. y.base = b
      BY <3>2, After
    <3>4. UNCHANGED apiVars
      BY <3>2 DEF Complete
    <3>5. /\ Older(s, b) /\ Lists(x.prev, b, SnapsOf(b))
          /\ Reported(s, k, x.found, x.prev, SnapsOf(s), ChangesOf(s))
      BY <3>1 DEF Faithful, Compares
    <3>6. x.found \in Seq(Contracts) /\ x.prev \in Seq(SnapRows)
      BY RunIs DEF Shape, AttemptRecords
    <3>7. SnapsOf(run[<<s, k>>].base)' = SnapsOf(b) /\ SnapsOf(s)' = SnapsOf(s)
          /\ ChangesOf(s)' = ChangesOf(s)
      BY <3>3, <3>4 DEF SnapsOf, ChangesOf, apiVars
    <3>8. Older(s, run[<<s, k>>].base)'
      BY <2>4, <3>3, <3>5 DEF Older
    <3> HIDE DEF x, b
    <3>9. \E found \in Seq(Contracts), prev \in Seq(SnapRows) :
            /\ Lists(prev, y.base, SnapsOf(run[<<s, k>>].base)')
            /\ Reported(s, k, found, prev, SnapsOf(s)', ChangesOf(s)')
      BY <3>3, <3>5, <3>6, <3>7
    <3> QED BY <3>1, <3>8, <3>9 DEF HasCompared
  <2>10. Linked'
    BY <1>3, <2>4, LinkedStep DEF Faithful
  <2>11. \A j \in 1..Attempts : Compares(s, j)'
    BY <2>6, <2>7
  <2>12. \A t \in Scans : /\ \A j \in 1..Attempts : Compares(t, j)'
                          /\ status'[t] = "COMPLETED" => HasCompared(t)'
    BY <2>5, <2>8, <2>9, <2>11
  <2> QED BY <2>10, <2>12 DEF Faithful
<1> QED BY <1>1, <1>2, <1>3, NextIs, Zenon

-----------------------------------------------------------------------------
(* The inductive invariant                                                 *)

Inv ==
  /\ Shape /\ References /\ Kept /\ Written
  /\ Quiet("detach") => Turns /\ Described
  /\ Quiet("detach") /\ Quiet("rerun") => Settled /\ Faithful

\* The invariant holds at first ...
LEMMA InvInit == Init => Inv
<1> SUFFICES ASSUME Init PROVE Inv
  OBVIOUS
<1>1. /\ status \in [Scans -> StatusSet] /\ run \in [Runs -> AttemptRecords]
      /\ files \subseteq FileNames /\ deps \subseteq DepRows
      /\ apis \subseteq ApiRows /\ snaps \subseteq SnapRows /\ changes \subseteq ChangeRows
  BY FreshType DEF Init, StatusSet
<1>2. IsFiniteSet(snaps)
  BY FS_EmptySet DEF Init
<1>3. used \in [Disturbances -> Nat] /\ \A d \in Disturbances : used[d] <= Limit[d]
  BY LimitAssumption DEF Init
<1>4. Shape
  BY <1>1, <1>2, <1>3 DEF Shape, StatusSet
<1>5. References /\ Written
  BY DEF Init, References, Ids, Written
<1>6. \A s \in Scans, k \in 1..Attempts :
        /\ run[<<s, k>>].pc = "idle" /\ run[<<s, k>>].prev = <<>>
        /\ status[s] = "ABSENT"
  BY RunIs DEF Init, Fresh
<1>7. Kept /\ Described
  BY <1>6 DEF Init, Kept, Described, Progressed
<1>8. Faithful
  BY <1>6 DEF Init, Faithful, Linked, Compares
<1> QED BY <1>4, <1>5, <1>7, <1>8, TurnsInit DEF Inv

\* ... every step keeps it ...
LEMMA InvStep == Inv /\ [Next]_vars => Inv'
<1> SUFFICES ASSUME Inv, [Next]_vars PROVE Inv'
  OBVIOUS
<1>1. "detach" \in Disturbances /\ "rerun" \in Disturbances
  BY DEF Disturbances
<1>2. Shape /\ References /\ Kept /\ Written
  BY DEF Inv
<1>3. Shape' /\ References' /\ Kept' /\ Written'
  BY <1>2, RunType, RowsStep, SpentStep, KeptStep, WrittenStep DEF Shape, StatusSet
<1>4. ASSUME Quiet("detach")' PROVE Turns /\ Described /\ Turns' /\ Described'
  <2>1. Quiet("detach")
    BY <1>1, <1>2, <1>4, QuietBefore
  <2>2. Turns /\ Described
    BY <2>1 DEF Inv
  <2>3. Turns'
    BY <1>2, <1>4, <2>2, TurnsStep
  <2> QED BY <1>2, <1>4, <2>2, <2>3, DescribedStep
<1>5. ASSUME Quiet("detach")', Quiet("rerun")' PROVE Settled' /\ Faithful'
  <2>1. Quiet("detach") /\ Quiet("rerun")
    BY <1>1, <1>2, <1>5, QuietBefore
  <2>2. Settled /\ Faithful
    BY <2>1 DEF Inv
  <2>3. Settled'
    BY <1>2, <1>4, <1>5, <2>2, SettledStep
  <2> QED BY <1>2, <1>4, <1>5, <2>2, <2>3, FaithfulStep
<1> QED BY <1>3, <1>4, <1>5 DEF Inv

\* ... and so it always holds.
LEMMA InvHolds == Spec => []Inv
  BY InvInit, InvStep, PTL DEF Spec

\* TypeOK: every dependency has its files, every snapshot its API, every change its
\* API and the snapshots it still names, through all deletions of
\* replaceScanIntelligence and replaceScanApis.
THEOREM Typed == Spec => []TypeOK
<1>1. Inv => TypeOK
  <2> SUFFICES ASSUME Inv PROVE TypeOK
    OBVIOUS
  <2>1. \A r \in Runs : InProgress(r) \/ run[r].pc \in {"idle", "done", "failed"}
    BY DEF Inv, Shape, AttemptRecords, InProgress, Busy
  <2>2. \A d \in Disturbances : used[d] \in 0..Limit[d]
    BY LimitAssumption DEF Inv, Shape
  <2> QED BY <2>1, <2>2 DEF Inv, TypeOK, Shape, References
<1> QED BY <1>1, InvHolds, PTL

\* CompletedIsDescribed: unless an attempt timed out, a completed scan has the whole
\* graph of one attempt's code and a snapshot of each of its APIs, whatever the
\* attempts before had stored.
THEOREM CompletedDescribed == Spec => []CompletedIsDescribed
<1>1. Inv => CompletedIsDescribed
  <2> SUFFICES ASSUME Inv, Never({"detach"}), NEW s \in Scans, status[s] = "COMPLETED"
               PROVE  Ids(SnapsOf(s)) = Old(s) /\ GraphIsWhole(s)
    BY DEF CompletedIsDescribed
  <2>1. Described
    BY DEF Inv, Never, Quiet
  <2>2. PICK k \in 1..Attempts : Holds(s, k)
    BY <2>1 DEF Described
  <2>3. GraphIsWhole(s)
    BY <2>2, Whole
  <2> QED BY <2>1, <2>3 DEF Described
<1> QED BY <1>1, InvHolds, PTL

\* HistoryIsImmutable: what a completed scan has stored is not touched by failing,
\* retried and later scans (the cascades of replaceScanIntelligence and
\* replaceScanApis).
THEOREM Immutable == Spec => HistoryIsImmutable
<1>1. Inv /\ Inv' /\ [Next]_vars =>
        [\A s \in Scans : Compared(s) /\ Compared(s)' =>
           /\ SnapsOf(s)' = SnapsOf(s) /\ ChangesOf(s)' = ChangesOf(s)
           /\ FilesOf(s)' = FilesOf(s) /\ DepsOf(s)' = DepsOf(s)]_vars
  <2> SUFFICES ASSUME Inv, Inv', [Next]_vars, NEW s \in Scans, Compared(s), Compared(s)'
               PROVE  /\ SnapsOf(s)' = SnapsOf(s) /\ ChangesOf(s)' = ChangesOf(s)
                      /\ FilesOf(s)' = FilesOf(s) /\ DepsOf(s)' = DepsOf(s)
    OBVIOUS
  <2>1. /\ status[s] = "COMPLETED" /\ Quiet("detach")' /\ Quiet("rerun")'
        /\ Quiet("detach") /\ Quiet("rerun")
    BY DEF Compared, Never, Quiet
  <2>2. Shape /\ Kept /\ Turns /\ Settled /\ Linked
    BY <2>1 DEF Inv, Faithful
  <2>3. CASE UNCHANGED codeVars /\ UNCHANGED apiVars
    BY <2>3 DEF codeVars, apiVars, SnapsOf, ChangesOf, FilesOf, DepsOf
  <2>4. ASSUME NEW t \in Scans, NEW k \in 1..Attempts, Acts(t, k)
        PROVE  /\ SnapsOf(s)' = SnapsOf(s) /\ ChangesOf(s)' = ChangesOf(s)
               /\ FilesOf(s)' = FilesOf(s) /\ DepsOf(s)' = DepsOf(s)
    <3>1. s # t /\ status[t] # "COMPLETED"
      BY <2>1, <2>2, <2>4, Stays
    <3> QED BY <2>2, <2>4, <3>1, OtherApis, OtherChanges, OtherCode
  <2>5. UNCHANGED vars => UNCHANGED codeVars /\ UNCHANGED apiVars
    BY DEF vars
  <2>6. \A t \in Scans : Request(t) => UNCHANGED codeVars /\ UNCHANGED apiVars
    BY DEF Request
  <2> QED BY <2>3, <2>4, <2>5, <2>6, NextIs
<1>2. Spec => [][\A s \in Scans : Compared(s) /\ Compared(s)' =>
           /\ SnapsOf(s)' = SnapsOf(s) /\ ChangesOf(s)' = ChangesOf(s)
           /\ FilesOf(s)' = FilesOf(s) /\ DepsOf(s)' = DepsOf(s)]_vars
  BY <1>1, InvHolds, PTL DEF Spec
<1> QED BY <1>2 DEF HistoryIsImmutable

-----------------------------------------------------------------------------
(* The report of a comparison                                              *)

\* How the rows of two scans pair, without the sets of detectChanges.
ByIdentity(prev, cur, i, j) == j \in DOMAIN cur /\ MatchedWith(prev, cur[j].contract) = i /\ i # 0
ByPath(prev, cur, i, j) ==
  /\ i \in DOMAIN prev /\ \A x : ~ByIdentity(prev, cur, i, x)
  /\ PairedWith(prev, cur, i) = j /\ j # 0
Paired(prev, cur, i, j) == ByIdentity(prev, cur, i, j) \/ ByPath(prev, cur, i, j)

\* The first and the second components of a set of pairs.
LEMMA Projections ==
  ASSUME NEW P, \A pair \in P : pair = <<pair[1], pair[2]>>
  PROVE  /\ \A i : i \in {pair[1] : pair \in P} <=> \E j : <<i, j>> \in P
         /\ \A j : j \in {pair[2] : pair \in P} <=> \E i : <<i, j>> \in P
<1>1. \A i, j : <<i, j>>[1] = i /\ <<i, j>>[2] = j
  OBVIOUS
<1>2. ASSUME NEW i, NEW j, <<i, j>> \in P
      PROVE  i \in {pair[1] : pair \in P} /\ j \in {pair[2] : pair \in P}
  BY <1>1, <1>2
<1>3. ASSUME NEW i, i \in {pair[1] : pair \in P} PROVE \E j : <<i, j>> \in P
  BY <1>3
<1>4. ASSUME NEW j, j \in {pair[2] : pair \in P} PROVE \E i : <<i, j>> \in P
  BY <1>4
<1> QED BY <1>2, <1>3, <1>4

\* The sets of detectChanges are the pairs and what they leave.
LEMMA PairsAre ==
  ASSUME NEW S, NEW T, NEW prev \in Seq(S), NEW cur \in Seq(T)
  PROVE  LET m == Matching(prev, cur) IN
         /\ \A i, j : <<i, j>> \in m.pairs <=> Paired(prev, cur, i, j)
         /\ \A pair \in m.pairs : pair = <<pair[1], pair[2]>>
         /\ \A i : i \in m.removed <=> i \in DOMAIN prev /\ \A j : ~Paired(prev, cur, i, j)
         /\ \A j : j \in m.added <=> j \in DOMAIN cur /\ \A i : ~Paired(prev, cur, i, j)
<1> DEFINE byIdentity == {<<MatchedWith(prev, cur[j].contract), j>> :
             j \in {x \in DOMAIN cur : MatchedWith(prev, cur[x].contract) # 0}}
           left == DOMAIN prev \ {pair[1] : pair \in byIdentity}
           byPath == {<<i, PairedWith(prev, cur, i)>> :
             i \in {x \in left : PairedWith(prev, cur, x) # 0}}
           pairs == byIdentity \cup byPath
           m == Matching(prev, cur)
<1>1. \A pair \in byIdentity : pair = <<pair[1], pair[2]>>
  OBVIOUS
<1>2. \A i, j : <<i, j>> \in byIdentity <=> ByIdentity(prev, cur, i, j)
  BY DEF ByIdentity
<1>3. \A i : i \in left <=> i \in DOMAIN prev /\ \A x : ~ByIdentity(prev, cur, i, x)
  <2> HIDE DEF byIdentity
  <2>1. \A i : i \in {pair[1] : pair \in byIdentity} <=> \E x : <<i, x>> \in byIdentity
    BY <1>1, Projections
  <2> QED BY <1>2, <2>1
<1>4. \A pair \in byPath : pair = <<pair[1], pair[2]>>
  OBVIOUS
<1>5. \A i, j : <<i, j>> \in byPath <=> ByPath(prev, cur, i, j)
  <2> HIDE DEF left
  <2> QED BY <1>3 DEF ByPath
<1>6. m.pairs = pairs
  BY DEF Matching
<1>7. /\ m.removed = DOMAIN prev \ {pair[1] : pair \in pairs}
      /\ m.added = DOMAIN cur \ {pair[2] : pair \in pairs}
  BY DEF Matching
<1> HIDE DEF byIdentity, byPath, m
<1>8. \A i, j : <<i, j>> \in pairs <=> Paired(prev, cur, i, j)
  BY <1>2, <1>5 DEF Paired
<1>9. \A pair \in pairs : pair = <<pair[1], pair[2]>>
  BY <1>1, <1>4
<1> HIDE DEF pairs
<1>10. \A i : i \in {pair[1] : pair \in pairs} <=> \E j : Paired(prev, cur, i, j)
  BY <1>8, <1>9, Projections
<1>11. \A j : j \in {pair[2] : pair \in pairs} <=> \E i : Paired(prev, cur, i, j)
  BY <1>8, <1>9, Projections
<1> QED BY <1>6, <1>7, <1>8, <1>9, <1>10, <1>11 DEF m

\* A pair is of two rows with one path; rows with one identity find a partner.
LEMMA PairIs ==
  ASSUME NEW S, NEW T, NEW prev \in Seq(S), NEW cur \in Seq(T)
  PROVE  /\ \A i, j : Paired(prev, cur, i, j) =>
              /\ i \in DOMAIN prev /\ j \in DOMAIN cur
              /\ prev[i].contract.path = cur[j].contract.path
         /\ \A i, j : ByIdentity(prev, cur, i, j) =>
              Identity(prev[i].contract) = Identity(cur[j].contract)
         /\ \A i \in DOMAIN prev, j \in DOMAIN cur :
              Identity(prev[i].contract) = Identity(cur[j].contract) =>
                \E x : ByIdentity(prev, cur, x, j)
<1>1. ASSUME NEW i, NEW j, ByIdentity(prev, cur, i, j)
      PROVE  /\ i \in DOMAIN prev /\ j \in DOMAIN cur
             /\ Identity(prev[i].contract) = Identity(cur[j].contract)
  <2>1. i \in SameIdentity(prev, cur[j].contract) /\ j \in DOMAIN cur
    BY <1>1, MatchedIn DEF ByIdentity
  <2> QED BY <2>1 DEF SameIdentity
<1>2. \A c, d : Identity(c) = Identity(d) => c.path = d.path
  BY DEF Identity
<1>3. ASSUME NEW i, NEW j, ByPath(prev, cur, i, j)
      PROVE  /\ i \in DOMAIN prev /\ j \in DOMAIN cur
             /\ prev[i].contract.path = cur[j].contract.path
  <2>1. j \in SamePath(cur, prev[i].contract) /\ i \in DOMAIN prev
    BY <1>3, PairedIn DEF ByPath
  <2> QED BY <2>1 DEF SamePath
<1>4. ASSUME NEW i \in DOMAIN prev, NEW j \in DOMAIN cur,
             Identity(prev[i].contract) = Identity(cur[j].contract)
      PROVE  \E x : ByIdentity(prev, cur, x, j)
  <2>1. i \in SameIdentity(prev, cur[j].contract)
    BY <1>4 DEF SameIdentity
  <2>2. MatchedWith(prev, cur[j].contract) # 0
    BY <2>1, MatchedIn
  <2> QED BY <2>2 DEF ByIdentity
<1> QED BY <1>1, <1>2, <1>3, <1>4 DEF Paired

Removal(s, prev, i) == [scan |-> s, api |-> prev[i].id, type |-> "REMOVED", old |-> prev[i].id,
                        new |-> <<>>, severity |-> "HIGH"]
Addition(s, cur, j) == [scan |-> s, api |-> cur[j].id, type |-> "ADDED", old |-> <<>>,
                        new |-> cur[j].id, severity |-> "INFO"]
Difference(prev, cur, i, j) == ContractDiff(prev[i].contract, cur[j].contract)
Modification(s, prev, cur, i, j) ==
  [scan |-> s, api |-> cur[j].id, type |-> "MODIFIED", old |-> prev[i].id, new |-> cur[j].id,
   severity |-> Severity(Difference(prev, cur, i, j), cur[j].contract)]

Records(s, prev, cur, c) ==
  \/ \E i \in DOMAIN prev, j \in DOMAIN cur :
       /\ Paired(prev, cur, i, j) /\ HasDiff(Difference(prev, cur, i, j))
       /\ c = Modification(s, prev, cur, i, j)
  \/ \E i \in DOMAIN prev : /\ \A j : ~Paired(prev, cur, i, j)
                            /\ c = Removal(s, prev, i)
  \/ \E j \in DOMAIN cur : /\ \A i : ~Paired(prev, cur, i, j)
                           /\ c = Addition(s, cur, j)

\* What a report consists of.
LEMMA ReportIs ==
  ASSUME NEW S, NEW T, NEW prev \in Seq(S), NEW cur \in Seq(T), NEW s
  PROVE  \A c : c \in ReportOf(s, prev, cur) <=> Records(s, prev, cur, c)
<1> DEFINE m == Matching(prev, cur)
           D(pair) == ContractDiff(prev[pair[1]].contract, cur[pair[2]].contract)
           modified == {pair \in m.pairs : HasDiff(D(pair))}
           M(pair) == [api |-> cur[pair[2]].id, type |-> "MODIFIED",
                       old |-> prev[pair[1]].id, new |-> cur[pair[2]].id,
                       severity |-> Severity(D(pair), cur[pair[2]].contract)]
           R(i) == [api |-> prev[i].id, type |-> "REMOVED", old |-> prev[i].id,
                    new |-> <<>>, severity |-> "HIGH"]
           A(j) == [api |-> cur[j].id, type |-> "ADDED", old |-> <<>>,
                    new |-> cur[j].id, severity |-> "INFO"]
           H(c) == [scan |-> s, api |-> c.api, type |-> c.type, old |-> c.old,
                    new |-> c.new, severity |-> c.severity]
<1>1. Changes(prev, cur) = {M(pair) : pair \in modified} \cup {R(i) : i \in m.removed}
                             \cup {A(j) : j \in m.added}
  BY DEF Changes
<1>2. ReportOf(s, prev, cur) = {H(c) : c \in Changes(prev, cur)}
  BY DEF ReportOf
<1>3. /\ \A i : H(R(i)) = Removal(s, prev, i)
      /\ \A j : H(A(j)) = Addition(s, cur, j)
  BY DEF Removal, Addition
<1>4. \A pair : H(M(pair)) = Modification(s, prev, cur, pair[1], pair[2])
  BY DEF Modification, Difference
<1>5. \A pair : D(pair) = Difference(prev, cur, pair[1], pair[2])
  BY DEF Difference
<1>6. /\ \A i, j : <<i, j>> \in m.pairs <=> Paired(prev, cur, i, j)
      /\ \A pair \in m.pairs : pair = <<pair[1], pair[2]>>
      /\ \A i : i \in m.removed <=> i \in DOMAIN prev /\ \A j : ~Paired(prev, cur, i, j)
      /\ \A j : j \in m.added <=> j \in DOMAIN cur /\ \A i : ~Paired(prev, cur, i, j)
  BY PairsAre
<1>7. \A i, j : Paired(prev, cur, i, j) => i \in DOMAIN prev /\ j \in DOMAIN cur
  BY PairIs
<1> HIDE DEF m, M, R, A, H, D
<1>8. \A c : c \in ReportOf(s, prev, cur) <=>
        \/ \E pair \in modified : c = H(M(pair))
        \/ \E i \in m.removed : c = H(R(i))
        \/ \E j \in m.added : c = H(A(j))
  BY <1>1, <1>2
<1>9. ASSUME NEW c, NEW pair \in modified, c = H(M(pair))
      PROVE  \E i \in DOMAIN prev, j \in DOMAIN cur :
               /\ Paired(prev, cur, i, j) /\ HasDiff(Difference(prev, cur, i, j))
               /\ c = Modification(s, prev, cur, i, j)
  <2>1. /\ pair \in m.pairs /\ HasDiff(Difference(prev, cur, pair[1], pair[2]))
        /\ c = Modification(s, prev, cur, pair[1], pair[2])
    BY <1>4, <1>5, <1>9
  <2>2. Paired(prev, cur, pair[1], pair[2])
    BY <1>6, <2>1
  <2> QED BY <1>7, <2>1, <2>2
<1>10. ASSUME NEW c, NEW i \in DOMAIN prev, NEW j \in DOMAIN cur,
              Paired(prev, cur, i, j), HasDiff(Difference(prev, cur, i, j)),
              c = Modification(s, prev, cur, i, j)
       PROVE  \E pair \in modified : c = H(M(pair))
  <2>1. <<i, j>>[1] = i /\ <<i, j>>[2] = j
    OBVIOUS
  <2>2. <<i, j>> \in modified
    BY <1>5, <1>6, <1>10, <2>1
  <2>3. c = H(M(<<i, j>>))
    BY <1>4, <1>10, <2>1
  <2> HIDE DEF modified
  <2> QED BY <2>2, <2>3
<1> HIDE DEF modified
<1> SUFFICES ASSUME NEW c PROVE c \in ReportOf(s, prev, cur) <=> Records(s, prev, cur, c)
  OBVIOUS
<1>11. (\E pair \in modified : c = H(M(pair))) <=>
         \E i \in DOMAIN prev, j \in DOMAIN cur :
           /\ Paired(prev, cur, i, j) /\ HasDiff(Difference(prev, cur, i, j))
           /\ c = Modification(s, prev, cur, i, j)
  BY <1>9, <1>10
<1>12. (\E i \in m.removed : c = H(R(i))) <=>
         \E i \in DOMAIN prev : /\ \A j : ~Paired(prev, cur, i, j)
                                /\ c = Removal(s, prev, i)
  BY <1>3, <1>6
<1>13. (\E j \in m.added : c = H(A(j))) <=>
         \E j \in DOMAIN cur : /\ \A i : ~Paired(prev, cur, i, j)
                               /\ c = Addition(s, cur, j)
  BY <1>3, <1>6
<1> QED BY <1>8, <1>11, <1>12, <1>13 DEF Records

-----------------------------------------------------------------------------
(* A completed scan reports what its rows and those of its base differ in  *)

BaseRows(s) == IF Base(s) = 0 THEN {} ELSE SnapsOf(Base(s))

\* The scan has compared its rows cur with the rows prev of its base.
Comparison(s, prev, cur) ==
  /\ prev \in Seq(SnapRows) /\ cur \in Seq(ApiRows)
  /\ Range(prev) = BaseRows(s)
  /\ SnapsOf(s) = SnapshotsOf(prev, cur) /\ ChangesOf(s) = ReportOf(s, prev, cur)
  /\ \A i, j \in DOMAIN prev : prev[i].id = prev[j].id => i = j
  /\ \A i, j \in DOMAIN cur : cur[i].id = cur[j].id => i = j

\* The rows of an attempt have names of their own.
LEMMA MadeIs ==
  ASSUME NEW s \in Scans, NEW k \in 1..Attempts, NEW found \in Seq(Contracts)
  PROVE  /\ Made(s, k, found) \in Seq(ApiRows)
         /\ \A i, j \in DOMAIN Made(s, k, found) :
              Made(s, k, found)[i].id = Made(s, k, found)[j].id => i = j
<1> DEFINE R(n) == [id |-> <<s, k, n>>, contract |-> found[n]]
<1>1. DOMAIN found = 1..Len(found) /\ Len(found) \in Nat
      /\ \A n \in DOMAIN found : found[n] \in Contracts
  BY Entries
<1>2. \A n \in DOMAIN found : R(n) \in ApiRows
  BY <1>1 DEF ApiRows, Names
<1>3. Made(s, k, found) = [n \in 1..Len(found) |-> R(n)]
  BY <1>1 DEF Made
<1>4. \A m, n : R(m).id = R(n).id => m = n
  OBVIOUS
<1> HIDE DEF R
<1> QED BY <1>1, <1>2, <1>3, <1>4

\* The one attempt that is done tells the base.
LEMMA BaseIs ==
  ASSUME Turns, NEW s \in Scans, NEW k \in 1..Attempts, run[<<s, k>>].pc = "done"
  PROVE  Base(s) = run[<<s, k>>].base
<1>1. ASSUME NEW j \in 1..Attempts, run[<<s, j>>].pc = "done" PROVE j = k
  <2>1. j \in 1..(k - 1) \/ k \in 1..(j - 1) \/ j = k
    BY BoundsAssumption
  <2> QED BY <1>1, <2>1 DEF Turns
<1>2. {j \in 1..Attempts : run[<<s, j>>].pc = "done"} = {k}
  BY <1>1
<1>3. LastOf({k}) = k
  BY BoundsAssumption DEF LastOf
<1> QED BY <1>2, <1>3 DEF Base

\* A completed scan has made such a comparison.
LEMMA ComparedIs ==
  ASSUME Inv, NEW s \in Scans, Compared(s)
  PROVE  \E prev, cur : Comparison(s, prev, cur)
<1>1. Quiet("detach") /\ Quiet("rerun") /\ status[s] = "COMPLETED"
  BY DEF Compared, Never, Quiet
<1>2. Shape /\ Written /\ Turns /\ HasCompared(s)
  BY <1>1 DEF Inv, Faithful
<1>3. PICK k \in 1..Attempts :
        /\ run[<<s, k>>].pc = "done" /\ Older(s, run[<<s, k>>].base)
        /\ \E found \in Seq(Contracts), prev \in Seq(SnapRows) :
             /\ Lists(prev, run[<<s, k>>].base, SnapsOf(run[<<s, k>>].base))
             /\ Reported(s, k, found, prev, SnapsOf(s), ChangesOf(s))
  BY <1>2 DEF HasCompared
<1>4. Base(s) = run[<<s, k>>].base
  BY <1>2, <1>3, BaseIs
<1>5. PICK found \in Seq(Contracts), prev \in Seq(SnapRows) :
        /\ Lists(prev, Base(s), SnapsOf(Base(s)))
        /\ Reported(s, k, found, prev, SnapsOf(s), ChangesOf(s))
  BY <1>3, <1>4
<1> DEFINE cur == Made(s, k, found)
<1>6. /\ SnapsOf(s) = SnapshotsOf(prev, cur) /\ ChangesOf(s) = ReportOf(s, prev, cur)
  BY <1>5 DEF Reported
<1>7. cur \in Seq(ApiRows) /\ \A i, j \in DOMAIN cur : cur[i].id = cur[j].id => i = j
  BY MadeIs
<1> HIDE DEF cur
<1>8. CASE Base(s) = 0
  <2>1. prev = <<>>
    BY <1>5, <1>8 DEF Lists
  <2>2. DOMAIN prev = {} /\ Range(prev) = {}
    BY <2>1 DEF Range
  <2> QED BY <1>6, <1>7, <1>8, <2>2 DEF Comparison, BaseRows
<1>9. CASE Base(s) # 0
  <2>1. /\ Range(prev) = SnapsOf(Base(s))
        /\ \A i, j \in DOMAIN prev : prev[i] = prev[j] => i = j
    BY <1>5, <1>9 DEF Lists
  <2>2. \A i \in DOMAIN prev : prev[i] \in snaps
    BY <2>1 DEF Range, SnapsOf
  <2>3. \A i, j \in DOMAIN prev : prev[i].id = prev[j].id => i = j
    BY <1>2, <2>1, <2>2 DEF Written
  <2> QED BY <1>6, <1>7, <1>9, <2>1, <2>3 DEF Comparison, BaseRows
<1> QED BY <1>8, <1>9

\* The snapshots of the scan are those of its rows.
LEMMA SnapshotIs ==
  ASSUME NEW s, NEW prev, NEW cur, Comparison(s, prev, cur)
  PROVE  /\ \A p : p \in BaseRows(s) <=> \E i \in DOMAIN prev : p = prev[i]
         /\ \A q \in SnapsOf(s) : \E j \in DOMAIN cur :
              /\ q.id = cur[j].id /\ q.contract = cur[j].contract
              /\ q.version = Version(cur[j].contract, prev)
         /\ \A j \in DOMAIN cur : \E q \in SnapsOf(s) :
              /\ q.id = cur[j].id /\ q.contract = cur[j].contract
              /\ q.version = Version(cur[j].contract, prev)
<1>1. \A p : p \in BaseRows(s) <=> \E i \in DOMAIN prev : p = prev[i]
  BY DEF Comparison, Range
<1>2. SnapsOf(s) = SnapshotsOf(prev, cur)
  BY DEF Comparison
<1> DEFINE N(row) == [id |-> row.id, contract |-> row.contract,
                      version |-> Version(row.contract, prev)]
<1>3. \A q : q \in SnapsOf(s) <=> \E j \in DOMAIN cur : q = N(cur[j])
  BY <1>2 DEF SnapshotsOf, Range
<1>4. \A row : N(row).id = row.id /\ N(row).contract = row.contract
               /\ N(row).version = Version(row.contract, prev)
  OBVIOUS
<1> HIDE DEF N
<1> QED BY <1>1, <1>3, <1>4

\* The fields of the rows compared.
LEMMA RowIds ==
  ASSUME NEW s, NEW prev, NEW cur, Comparison(s, prev, cur)
  PROVE  /\ \A i \in DOMAIN prev : prev[i].id \in Names /\ prev[i].version \in Nat
         /\ \A j \in DOMAIN cur : cur[j].id \in Names /\ cur[j].contract \in Contracts
         /\ \A i \in DOMAIN prev : prev[i].contract \in Contracts
         /\ <<>> \notin Names
<1>1. prev \in Seq(SnapRows) /\ cur \in Seq(ApiRows)
  BY DEF Comparison
<1>2. /\ \A i \in DOMAIN prev : prev[i] \in SnapRows
      /\ \A j \in DOMAIN cur : cur[j] \in ApiRows
  BY <1>1, Entries
<1> QED BY <1>2, RowFields, NamesAre

\* Rows of one path and different identities differ in the method.
LEMMA MethodTells ==
  \A c, d : c.path = d.path /\ Identity(c) # Identity(d) => HasDiff(ContractDiff(c, d))
<1> SUFFICES ASSUME NEW c, NEW d, c.path = d.path, Identity(c) # Identity(d)
             PROVE  HasDiff(ContractDiff(c, d))
  OBVIOUS
<1>1. c.method # d.method
  BY DEF Identity
<1>2. ContractDiff(c, d).method
  BY <1>1 DEF ContractDiff
<1> QED BY <1>2 DEF HasDiff

\* The fields of the three kinds of records.
LEMMA ChangeFields ==
  /\ \A s, prev, i : /\ Removal(s, prev, i).old = prev[i].id
                     /\ Removal(s, prev, i).new = <<>>
                     /\ Removal(s, prev, i).type = "REMOVED"
  /\ \A s, cur, j : /\ Addition(s, cur, j).new = cur[j].id
                    /\ Addition(s, cur, j).old = <<>>
                    /\ Addition(s, cur, j).type = "ADDED"
  /\ \A s, prev, cur, i, j : /\ Modification(s, prev, cur, i, j).old = prev[i].id
                             /\ Modification(s, prev, cur, i, j).new = cur[j].id
                             /\ Modification(s, prev, cur, i, j).type = "MODIFIED"
  BY DEF Removal, Addition, Modification

\* EveryRouteAccounted: detectChanges reports a route that vanished exactly once and
\* every new one, whatever routes share a path or an identity.
THEOREM Accounted == Spec => []EveryRouteAccounted
<1>1. ASSUME Inv, NEW s \in Scans, Compared(s), NEW p \in BaseRows(s),
             \A q \in SnapsOf(s) : Identity(q.contract) # Identity(p.contract)
      PROVE  Cardinality({c \in ChangesOf(s) : c.old = p.id}) = 1
  <2>1. PICK prev, cur : Comparison(s, prev, cur)
    BY <1>1, ComparedIs
  <2>2. prev \in Seq(SnapRows) /\ cur \in Seq(ApiRows) /\ ChangesOf(s) = ReportOf(s, prev, cur)
    BY <2>1 DEF Comparison
  <2>3. PICK i \in DOMAIN prev : p = prev[i]
    BY <1>1, <2>1, SnapshotIs
  <2>4. \A j \in DOMAIN cur : Identity(cur[j].contract) # Identity(prev[i].contract)
    BY <1>1, <2>1, <2>3, SnapshotIs
  <2>5. \A x \in DOMAIN prev : prev[x].id = prev[i].id => x = i
    BY <2>1 DEF Comparison
  <2>6. prev[i].id # <<>>
    BY <2>1, RowIds
  <2>7. \A j : ~ByIdentity(prev, cur, i, j)
    BY <2>2, <2>4, PairIs DEF Paired
  <2>8. \E x : {c \in ChangesOf(s) : c.old = p.id} = {x}
    <3>1. CASE \A j : ~Paired(prev, cur, i, j)
      <4>1. \A c : c \in ReportOf(s, prev, cur) /\ c.old = prev[i].id <=>
                     c = Removal(s, prev, i)
        BY <2>2, <2>5, <2>6, <3>1, ReportIs, ChangeFields DEF Records
      <4>2. {c \in ChangesOf(s) : c.old = p.id} = {Removal(s, prev, i)}
        BY <2>2, <2>3, <4>1
      <4> QED BY <4>2
    <3>2. CASE \E j : Paired(prev, cur, i, j)
      <4>1. PICK j : Paired(prev, cur, i, j)
        BY <3>2
      <4>2. \A y : Paired(prev, cur, i, y) => y = j
        BY <2>7, <4>1 DEF Paired, ByPath
      <4>3. j \in DOMAIN cur /\ prev[i].contract.path = cur[j].contract.path
        BY <2>2, <4>1, PairIs
      <4>4. HasDiff(Difference(prev, cur, i, j))
        BY <2>4, <4>3, MethodTells DEF Difference
      <4>5. ASSUME NEW c \in ReportOf(s, prev, cur), c.old = prev[i].id
            PROVE  c = Modification(s, prev, cur, i, j)
        <5>1. \/ \E x \in DOMAIN prev, y \in DOMAIN cur :
                   Paired(prev, cur, x, y) /\ c = Modification(s, prev, cur, x, y)
              \/ \E x \in DOMAIN prev : /\ \A y : ~Paired(prev, cur, x, y)
                                        /\ c = Removal(s, prev, x)
              \/ \E y \in DOMAIN cur : c = Addition(s, cur, y)
          <6>1. Records(s, prev, cur, c)
            BY <2>2, <4>5, ReportIs
          <6> QED BY <6>1 DEF Records
        <5> QED BY <2>5, <2>6, <4>1, <4>2, <4>5, <5>1, ChangeFields
      <4>6. Modification(s, prev, cur, i, j) \in ReportOf(s, prev, cur)
        BY <2>2, <4>1, <4>3, <4>4, ReportIs DEF Records
      <4>7. Modification(s, prev, cur, i, j).old = prev[i].id
        BY ChangeFields
      <4>8. {c \in ChangesOf(s) : c.old = p.id} = {Modification(s, prev, cur, i, j)}
        BY <2>2, <2>3, <4>5, <4>6, <4>7
      <4> QED BY <4>8
    <3> QED BY <3>1, <3>2
  <2> QED BY <2>8, FS_Singleton
<1>2. ASSUME Inv, NEW s \in Scans, Compared(s), NEW q \in SnapsOf(s),
             \A p \in BaseRows(s) : Identity(q.contract) # Identity(p.contract)
      PROVE  \E c \in ChangesOf(s) : c.new = q.id
  <2>1. PICK prev, cur : Comparison(s, prev, cur)
    BY <1>2, ComparedIs
  <2>2. prev \in Seq(SnapRows) /\ cur \in Seq(ApiRows) /\ ChangesOf(s) = ReportOf(s, prev, cur)
    BY <2>1 DEF Comparison
  <2>3. PICK j \in DOMAIN cur : q.id = cur[j].id /\ q.contract = cur[j].contract
    BY <1>2, <2>1, SnapshotIs
  <2>4. \A i \in DOMAIN prev : Identity(prev[i].contract) # Identity(cur[j].contract)
    BY <1>2, <2>1, <2>3, SnapshotIs
  <2>5. CASE \A i : ~Paired(prev, cur, i, j)
    <3>1. Addition(s, cur, j) \in ReportOf(s, prev, cur)
      BY <2>2, <2>5, ReportIs DEF Records
    <3> QED BY <2>2, <2>3, <3>1, ChangeFields
  <2>6. CASE \E i : Paired(prev, cur, i, j)
    <3>1. PICK i : Paired(prev, cur, i, j)
      BY <2>6
    <3>2. i \in DOMAIN prev /\ prev[i].contract.path = cur[j].contract.path
      BY <2>2, <3>1, PairIs
    <3>3. HasDiff(Difference(prev, cur, i, j))
      BY <2>4, <3>2, MethodTells DEF Difference
    <3>4. Modification(s, prev, cur, i, j) \in ReportOf(s, prev, cur)
      BY <2>2, <3>1, <3>2, <3>3, ReportIs DEF Records
    <3> QED BY <2>2, <2>3, <3>4, ChangeFields
  <2> QED BY <2>5, <2>6
<1>3. Inv => EveryRouteAccounted
  BY <1>1, <1>2 DEF EveryRouteAccounted, BaseRows
<1> QED BY <1>3, InvHolds, PTL

-----------------------------------------------------------------------------
(* A modified route has a higher version                                   *)

\* A schema does not differ from itself.
LEMMA NoDifference == \A c : ~HasDiff(ContractDiff(c, c))
<1>1. \A x : OnlyIn(x, x, x, x) = {}
  BY DEF OnlyIn
<1>2. \A x : SchemaDiff(x, x) = NoSchemaDiff
  BY <1>1 DEF SchemaDiff, NoSchemaDiff
<1> QED BY <1>2 DEF HasDiff, ContractDiff

\* The snapshot of a name.
LEMMA FindIs ==
  ASSUME Written, NEW x \in snaps
  PROVE  Find(x.id) = x
  BY DEF Written, Find

\* createSnapshotInputs takes the version of the row that detectChanges pairs.
LEMMA VersionRises ==
  ASSUME NEW prev \in Seq(SnapRows), NEW c, NEW i \in DOMAIN prev,
         prev[i].contract.path = c.path, prev[i].contract # c,
         \A j \in DOMAIN prev : prev[j].contract.path = c.path => j = i
  PROVE  Version(c, prev) = prev[i].version + 1
<1>1. SamePath(prev, c) = {i}
  BY DEF SamePath
<1>2. SameIdentity(prev, c) \subseteq SamePath(prev, c)
  BY DEF SameIdentity, SamePath, Identity
<1>3. SameIdentity(prev, c) = {} \/ SameIdentity(prev, c) = {i}
  BY <1>1, <1>2
<1>4. i \in Nat
  BY Entries
<1>5. FirstOf({i}) = i
  BY <1>4 DEF FirstOf
<1> DEFINE B == IF SameIdentity(prev, c) # {} THEN SameIdentity(prev, c)
                ELSE SamePath(prev, c)
           p == prev[FirstOf(B)]
<1>6. Version(c, prev) = IF B = {} THEN 1
                         ELSE IF p.contract = c THEN p.version ELSE p.version + 1
  BY DEF Version
<1>7. B = {i}
  BY <1>1, <1>3
<1> HIDE DEF B
<1>8. p = prev[i]
  BY <1>5, <1>7
<1> HIDE DEF p
<1>9. B # {}
  BY <1>7
<1> QED BY <1>6, <1>8, <1>9

\* ModifiedRaisesVersion: createSnapshotInputs and detectChanges, each on its own,
\* choose the same previous snapshot, so that a modified route has a higher version.
THEOREM VersionsRise == Spec => []ModifiedRaisesVersion
<1>1. ASSUME Inv, NEW s \in Scans, Compared(s), Base(s) # 0, OnePerPath(SnapsOf(Base(s))),
             NEW c \in ChangesOf(s), c.type = "MODIFIED"
      PROVE  Find(c.new).version > Find(c.old).version
  <2>1. PICK prev, cur : Comparison(s, prev, cur)
    BY <1>1, ComparedIs
  <2>2. prev \in Seq(SnapRows) /\ cur \in Seq(ApiRows) /\ ChangesOf(s) = ReportOf(s, prev, cur)
    BY <2>1 DEF Comparison
  <2>3. Records(s, prev, cur, c)
    BY <2>2, ReportIs
  <2>4. PICK i \in DOMAIN prev, j \in DOMAIN cur :
          /\ Paired(prev, cur, i, j) /\ HasDiff(Difference(prev, cur, i, j))
          /\ c = Modification(s, prev, cur, i, j)
    BY <1>1, <2>3, ChangeFields DEF Records
  <2>5. c.old = prev[i].id /\ c.new = cur[j].id
    BY <2>4, ChangeFields
  <2>6. prev[i].contract.path = cur[j].contract.path
    BY <2>2, <2>4, PairIs
  <2>7. prev[i].contract # cur[j].contract
    BY <2>4, NoDifference DEF Difference
  <2>8. \A x \in DOMAIN prev : prev[x] \in SnapsOf(Base(s))
    BY <1>1, <2>1, SnapshotIs DEF BaseRows
  <2>9. \A x \in DOMAIN prev : prev[x].contract.path = cur[j].contract.path => x = i
    <3>1. ASSUME NEW x \in DOMAIN prev, prev[x].contract.path = cur[j].contract.path
          PROVE  prev[x] = prev[i]
      BY <1>1, <2>6, <2>8, <3>1 DEF OnePerPath
    <3> QED BY <2>1, <3>1 DEF Comparison
  <2>10. Version(cur[j].contract, prev) = prev[i].version + 1
    BY <2>2, <2>6, <2>7, <2>9, VersionRises
  <2>11. PICK q \in SnapsOf(s) : q.id = cur[j].id /\ q.version = Version(cur[j].contract, prev)
    BY <2>1, SnapshotIs
  <2>12. Find(c.new) = q /\ Find(c.old) = prev[i]
    BY <1>1, <2>5, <2>8, <2>11, FindIs DEF Inv, SnapsOf
  <2>13. prev[i].version \in Nat
    BY <2>1, RowIds
  <2> QED BY <2>10, <2>11, <2>12, <2>13
<1>2. Inv => ModifiedRaisesVersion
  BY <1>1 DEF ModifiedRaisesVersion
<1> QED BY <1>2, InvHolds, PTL

-----------------------------------------------------------------------------
(* What the comparison of two schemas finds                                *)

\* The paths above a path.
LEMMA AboveIs ==
  ASSUME NEW S, NEW p \in Seq(S)
  PROVE  /\ \A a \in Above(p) : /\ a \in Seq(S) /\ Len(a) < Len(p)
                                /\ a = SubSeq(p, 1, Len(a)) /\ Above(a) \subseteq Above(p)
         /\ \A n \in 0..(Len(p) - 1) : SubSeq(p, 1, n) \in Above(p) /\ Len(SubSeq(p, 1, n)) = n
         /\ p # <<>> => Parent(p) \in Above(p)
<1>1. Len(p) \in Nat
  BY Entries
<1>2. ASSUME NEW n \in 0..(Len(p) - 1)
      PROVE  SubSeq(p, 1, n) \in Seq(S) /\ Len(SubSeq(p, 1, n)) = n
  BY <1>1
<1>3. ASSUME NEW n \in 0..(Len(p) - 1), NEW m \in 0..(n - 1)
      PROVE  SubSeq(SubSeq(p, 1, n), 1, m) = SubSeq(p, 1, m)
  BY <1>1
<1>4. ASSUME NEW a \in Above(p)
      PROVE  /\ a \in Seq(S) /\ Len(a) < Len(p)
             /\ a = SubSeq(p, 1, Len(a)) /\ Above(a) \subseteq Above(p)
  <2>1. PICK n \in 0..(Len(p) - 1) : a = SubSeq(p, 1, n)
    BY DEF Above
  <2>2. a \in Seq(S) /\ Len(a) = n
    BY <1>2, <2>1
  <2>3. ASSUME NEW m \in 0..(n - 1) PROVE SubSeq(a, 1, m) \in Above(p)
    <3>1. SubSeq(a, 1, m) = SubSeq(p, 1, m) /\ m \in 0..(Len(p) - 1)
      BY <1>1, <1>3, <2>1
    <3> QED BY <3>1 DEF Above
  <2>4. Above(a) \subseteq Above(p)
    BY <2>2, <2>3 DEF Above
  <2> QED BY <1>1, <2>1, <2>2, <2>4
<1>5. p # <<>> => Parent(p) \in Above(p)
  <2>1. p # <<>> => Len(p) - 1 \in 0..(Len(p) - 1)
    BY <1>1
  <2> QED BY <2>1 DEF Parent, Above
<1> QED BY <1>2, <1>4, <1>5 DEF Above

\* The part of a path that is one longer than the path p above it.
LEMMA ChildIs ==
  ASSUME NEW S, NEW f \in Seq(S), NEW p \in Above(f)
  PROVE  \E c \in Above(f) \cup {f} :
           /\ p \in Above(c) /\ \A a \in Above(c) : p \notin Above(a)
<1>1. Len(f) \in Nat /\ Len(p) \in Nat /\ p \in Seq(S) /\ Len(p) < Len(f)
      /\ p = SubSeq(f, 1, Len(p))
  BY AboveIs, Entries
<1> DEFINE n == Len(p) + 1
           c == SubSeq(f, 1, n)
<1>2. c \in Above(f) \cup {f} /\ c \in Seq(S) /\ Len(c) = n
  <2>1. CASE n = Len(f)
    <3>1. SubSeq(f, 1, Len(f)) = f
      BY <1>1
    <3> QED BY <1>1, <2>1, <3>1
  <2>2. CASE n < Len(f)
    <3>1. n \in 0..(Len(f) - 1)
      BY <1>1, <2>2
    <3> HIDE DEF n
    <3> QED BY <3>1, AboveIs
  <2> QED BY <1>1, <2>1, <2>2
<1>3. SubSeq(c, 1, Len(p)) = SubSeq(f, 1, Len(p))
  BY <1>1
<1> HIDE DEF c
<1>4. p \in Above(c)
  <2>1. Len(p) \in 0..(Len(c) - 1)
    BY <1>1, <1>2
  <2> QED BY <1>1, <1>3, <2>1 DEF Above
<1>5. ASSUME NEW a \in Above(c) PROVE p \notin Above(a)
  <2>1. a \in Seq(S) /\ Len(a) < Len(c) /\ Len(a) \in Nat
    BY <1>2, AboveIs, Entries
  <2>2. p \in Above(a) => Len(p) < Len(a)
    BY <2>1, AboveIs
  <2> QED BY <1>1, <1>2, <2>1, <2>2
<1> QED BY <1>2, <1>4, <1>5

\* Every field of a schema has its parents.
LEMMA SchemaIs ==
  ASSUME NEW x, IsSchema(x), NEW p \in Fields(x)
  PROVE  p \in Seq(Range(p)) /\ Above(p) \subseteq Fields(x) /\ Len(p) \in Nat
<1>1. p \in Seq(Range(p)) /\ Above(p) \subseteq Fields(x)
  BY DEF IsSchema
<1> QED BY <1>1, Entries

\* What is above a field is told.
LEMMA ToldAbove ==
  ASSUME NEW x, IsSchema(x), NEW p \in Fields(x)
  PROVE  Above(p) \subseteq Told(x)
  BY SchemaIs DEF Told

\* A body or the items that come or go are reported if there is anything to tell.
LEMMA CollectedIs ==
  ASSUME NEW x, IsSchema(x), NEW p \in Fields(x), IsWhole(p)
  PROVE  Collected(p, x) # {} <=> p \in Told(x)
<1>1. CASE x[p].type # "object"
  BY <1>1 DEF Collected, Told
<1>2. CASE x[p].type = "object"
  <2>1. Collected(p, x) = {f \in Fields(x) :
          /\ p \in Above(f)
          /\ \A a \in Above(f) : p \in Above(a) => x[a].type = "object"}
    BY <1>2 DEF Collected
  <2>2. p \in Told(x) <=> \E f \in Fields(x) : p \in Above(f)
    BY <1>2 DEF Told
  <2>3. ASSUME NEW f \in Fields(x), p \in Above(f) PROVE Collected(p, x) # {}
    <3>1. f \in Seq(Range(f)) /\ Above(f) \subseteq Fields(x)
      BY SchemaIs
    <3>2. PICK c \in Above(f) \cup {f} :
            p \in Above(c) /\ \A a \in Above(c) : p \notin Above(a)
      BY <2>3, <3>1, ChildIs
    <3>3. c \in Collected(p, x)
      BY <2>1, <3>1, <3>2
    <3> QED BY <3>3
  <2> QED BY <2>1, <2>2, <2>3
<1> QED BY <1>1, <1>2

\* A set of paths that is not empty has a shortest one.
LEMMA Shortest ==
  ASSUME NEW P, P # {}, \A p \in P : Len(p) \in Nat
  PROVE  \E p \in P : \A q \in P : Len(p) <= Len(q)
<1> DEFINE T == {Len(p) : p \in P}
<1>1. T \subseteq Nat /\ T # {}
  OBVIOUS
<1>2. \E m \in T : \A n \in T : m <= n
  <2> HIDE DEF T
  <2> QED BY <1>1, Least
<1> QED BY <1>2

\* A field of which a type differs is reported, there or further up.
LEMMA RetypedIs ==
  ASSUME NEW old, NEW new, IsSchema(old), IsSchema(new)
  PROVE  SchemaDiff(old, new).typeChanged # {} <=> Retyped(old, new) # {}
<1> DEFINE T == SchemaDiff(old, new).typeChanged
<1>1. T = {p \in Retyped(old, new) : Reached(p, old, new)}
  BY DEF SchemaDiff, Retyped
<1>2. ASSUME Retyped(old, new) # {} PROVE T # {}
  <2>1. \A p \in Retyped(old, new) : p \in Fields(old) /\ p \in Fields(new)
    BY DEF Retyped
  <2>2. \A p \in Retyped(old, new) : Len(p) \in Nat
    BY <2>1, SchemaIs
  <2>3. PICK p \in Retyped(old, new) : \A q \in Retyped(old, new) : Len(p) <= Len(q)
    BY <1>2, <2>2, Shortest
  <2>4. ASSUME NEW a \in Above(p)
        PROVE  a \in Fields(old) \cap Fields(new) /\ old[a].type = new[a].type
    <3>1. a \in Fields(old) \cap Fields(new)
      BY <2>1, SchemaIs
    <3>2. Len(a) < Len(p) /\ Len(a) \in Nat /\ Len(p) \in Nat
      BY <2>1, <3>1, SchemaIs, AboveIs
    <3>3. a \notin Retyped(old, new)
      BY <2>3, <3>2
    <3> QED BY <3>1, <3>3 DEF Retyped
  <2>5. Reached(p, old, new)
    BY <2>4 DEF Reached
  <2> QED BY <1>1, <2>3, <2>5
<1> QED BY <1>1, <1>2

\* A field that is lost is reported, unless a type differs.
LEMMA LostIs ==
  ASSUME NEW old, NEW new, IsSchema(old), IsSchema(new)
  PROVE  /\ OnlyIn(old, new, old, new) # {} => Lost(old, new) # {}
         /\ Lost(old, new) # {} =>
              OnlyIn(old, new, old, new) # {} \/ Retyped(old, new) # {}
<1> DEFINE G == {f \in Fields(old) \ Fields(new) : Reached(f, old, new)}
           Report(p) == IF IsWhole(p) THEN Collected(p, old) ELSE {p}
<1>1. OnlyIn(old, new, old, new) = UNION {Report(p) : p \in G}
  BY DEF OnlyIn
<1>2. ASSUME NEW p \in Fields(old) PROVE Report(p) # {} <=> p \in Told(old)
  <2>1. CASE IsWhole(p)
    BY <2>1, CollectedIs
  <2>2. CASE ~IsWhole(p)
    BY <2>2 DEF Told
  <2> QED BY <2>1, <2>2
<1> HIDE DEF Report
<1>3. OnlyIn(old, new, old, new) # {} <=> \E p \in G : p \in Told(old)
  <2>1. OnlyIn(old, new, old, new) # {} <=> \E p \in G : Report(p) # {}
    BY <1>1
  <2> QED BY <1>2, <2>1
<1>4. \A p : p \in Lost(old, new) <=> p \in Told(old) /\ p \notin Fields(new)
  BY DEF Lost
<1>5. ASSUME Lost(old, new) # {}, Retyped(old, new) = {} PROVE \E p \in G : p \in Told(old)
  <2>1. \A p \in Lost(old, new) : p \in Fields(old)
    BY DEF Lost, Told
  <2>2. \A p \in Lost(old, new) : Len(p) \in Nat
    BY <2>1, SchemaIs
  <2>3. PICK p \in Lost(old, new) : \A q \in Lost(old, new) : Len(p) <= Len(q)
    BY <1>5, <2>2, Shortest
  <2>4. ASSUME NEW a \in Above(p)
        PROVE  a \in Fields(old) \cap Fields(new) /\ old[a].type = new[a].type
    <3>1. a \in Fields(old) /\ a \in Told(old)
      BY <2>1, SchemaIs, ToldAbove
    <3>2. Len(a) < Len(p) /\ Len(a) \in Nat /\ Len(p) \in Nat
      BY <2>1, <3>1, SchemaIs, AboveIs
    <3>3. a \notin Lost(old, new)
      BY <2>3, <3>2
    <3>4. a \in Fields(new)
      BY <1>4, <3>1, <3>3
    <3> QED BY <1>5, <3>1, <3>4 DEF Retyped
  <2>5. Reached(p, old, new)
    BY <2>4 DEF Reached
  <2> QED BY <1>4, <2>1, <2>3, <2>5
<1> QED BY <1>3, <1>4, <1>5

\* compareSchema finds a difference exactly when two schemas look different.
LEMMA DiffIs ==
  ASSUME NEW old, NEW new, IsSchema(old), IsSchema(new)
  PROVE  LET d == SchemaDiff(old, new) IN
         /\ d.removed = OnlyIn(old, new, old, new)
         /\ d.added = OnlyIn(new, old, new, old)
         /\ d # NoSchemaDiff <=> LooksDifferent(old, new)
<1> DEFINE d == SchemaDiff(old, new)
<1>1. \A f : Reached(f, old, new) = Reached(f, new, old)
  BY DEF Reached
<1>2. OnlyIn(new, old, old, new) = OnlyIn(new, old, new, old)
  BY <1>1 DEF OnlyIn
<1>3. d.removed = OnlyIn(old, new, old, new) /\ d.added = OnlyIn(new, old, new, old)
  BY <1>2 DEF SchemaDiff
<1>4. d # NoSchemaDiff <=> d.added # {} \/ d.removed # {} \/ d.typeChanged # {}
  BY DEF SchemaDiff, NoSchemaDiff
<1>5. Retyped(old, new) = {} <=> Retyped(new, old) = {}
  BY DEF Retyped
<1> HIDE DEF d
<1>6. d.typeChanged # {} <=> Retyped(old, new) # {}
  BY RetypedIs DEF d
<1>7. d # NoSchemaDiff <=>
        Lost(old, new) # {} \/ Lost(new, old) # {} \/ Retyped(old, new) # {}
  BY <1>3, <1>4, <1>5, <1>6, LostIs
<1> QED BY <1>3, <1>7 DEF d, LooksDifferent

-----------------------------------------------------------------------------
(* With one route to a path, the report is what is compared                *)

\* hasDiff says whether two contracts differ in what is compared.
LEMMA HasDiffIs ==
  ASSUME NEW c \in Contracts, NEW d \in Contracts
  PROVE  HasDiff(ContractDiff(c, d)) <=> DifferInCompared(c, d)
<1>1. /\ IsSchema(c.request) /\ IsSchema(d.request)
      /\ IsSchema(c.response) /\ IsSchema(d.response)
  BY CommitsAssumption
<1>2. /\ SchemaDiff(c.request, d.request) # NoSchemaDiff <=> LooksDifferent(c.request, d.request)
      /\ SchemaDiff(c.response, d.response) # NoSchemaDiff <=> LooksDifferent(c.response, d.response)
  BY <1>1, DiffIs
<1>3. LET x == ContractDiff(c, d) IN
      /\ x.method = (c.method # d.method) /\ x.auth = (c.auth # d.auth)
      /\ x.request = SchemaDiff(c.request, d.request)
      /\ x.response = SchemaDiff(c.response, d.response)
  BY DEF ContractDiff
<1> QED BY <1>2, <1>3, Zenon DEF HasDiff, DifferInCompared

Unique(rows) == \A i, j \in DOMAIN rows : rows[i].contract.path = rows[j].contract.path => i = j

\* Then rows are paired by their paths.
LEMMA PairsByPath ==
  ASSUME NEW S, NEW T, NEW prev \in Seq(S), NEW cur \in Seq(T), Unique(prev), Unique(cur),
         NEW i \in DOMAIN prev, NEW j \in DOMAIN cur
  PROVE  Paired(prev, cur, i, j) <=> prev[i].contract.path = cur[j].contract.path
<1>1. Paired(prev, cur, i, j) => prev[i].contract.path = cur[j].contract.path
  BY PairIs
<1>2. ASSUME prev[i].contract.path = cur[j].contract.path PROVE Paired(prev, cur, i, j)
  <2>1. \A x : ByIdentity(prev, cur, x, j) => x = i
    BY <1>2, PairIs DEF Unique, Paired
  <2>2. \A y : ByIdentity(prev, cur, i, y) => y = j
    BY <1>2, PairIs DEF Unique, Paired
  <2>3. CASE ByIdentity(prev, cur, i, j)
    BY <2>3 DEF Paired
  <2>4. CASE ~ByIdentity(prev, cur, i, j)
    <3>1. \A y : ~ByIdentity(prev, cur, i, y)
      BY <2>2, <2>4
    <3>2. MatchedWith(prev, cur[j].contract) = 0
      BY <2>1, <2>4 DEF ByIdentity
    <3>3. j \in SamePath(cur, prev[i].contract)
      BY <1>2 DEF SamePath
    <3>4. PairedWith(prev, cur, i) # 0
      BY <3>2, <3>3, PairedIn
    <3>5. PairedWith(prev, cur, i) \in SamePath(cur, prev[i].contract)
      BY <3>4, PairedIn
    <3>6. PairedWith(prev, cur, i) = j
      BY <1>2, <3>5 DEF SamePath, Unique
    <3> QED BY <3>1, <3>4, <3>6 DEF Paired, ByPath
  <2> QED BY <2>3, <2>4
<1> QED BY <1>1, <1>2

\* ReportsWhatIsCompared: with one route to a path, detectChanges reports the
\* paths that came or went and those that differ in method, auth or bodies, and
\* nothing else; what else is in a contract (query parameters, guards, formats,
\* the place) makes no difference to the report.
THEOREM ReportOfCompared == Spec => []ReportsWhatIsCompared
<1>1. ASSUME Inv, NEW s \in Scans, Compared(s), OnePerPath(BaseRows(s)), OnePerPath(SnapsOf(s))
      PROVE  {<<c.old, c.new>> : c \in ChangesOf(s)} =
               {<<p.id, <<>> >> : p \in {x \in BaseRows(s) :
                  \A q \in SnapsOf(s) : q.contract.path # x.contract.path}}
               \cup {<<<<>>, q.id>> : q \in {x \in SnapsOf(s) :
                  \A p \in BaseRows(s) : p.contract.path # x.contract.path}}
               \cup {<<x[1].id, x[2].id>> : x \in {y \in BaseRows(s) \X SnapsOf(s) :
                  y[1].contract.path = y[2].contract.path /\ DifferInCompared(y[1].contract, y[2].contract)}}
  <2>1. PICK prev, cur : Comparison(s, prev, cur)
    BY <1>1, ComparedIs
  <2>2. prev \in Seq(SnapRows) /\ cur \in Seq(ApiRows) /\ ChangesOf(s) = ReportOf(s, prev, cur)
    BY <2>1 DEF Comparison
  <2>3. /\ \A i \in DOMAIN prev : prev[i].contract \in Contracts
        /\ \A j \in DOMAIN cur : cur[j].contract \in Contracts
    BY <2>1, RowIds
  <2>4. Unique(prev)
    <3>1. ASSUME NEW i \in DOMAIN prev, NEW j \in DOMAIN prev,
                 prev[i].contract.path = prev[j].contract.path
          PROVE  i = j
      <4>1. prev[i] \in BaseRows(s) /\ prev[j] \in BaseRows(s)
        BY <2>1, SnapshotIs
      <4>2. prev[i] = prev[j]
        BY <1>1, <3>1, <4>1 DEF OnePerPath
      <4> QED BY <2>1, <4>2 DEF Comparison
    <3> QED BY <3>1 DEF Unique
  <2>5. Unique(cur)
    <3>1. ASSUME NEW i \in DOMAIN cur, NEW j \in DOMAIN cur,
                 cur[i].contract.path = cur[j].contract.path
          PROVE  i = j
      <4>1. PICK p \in SnapsOf(s) : p.id = cur[i].id /\ p.contract = cur[i].contract
        BY <2>1, SnapshotIs
      <4>2. PICK q \in SnapsOf(s) : q.id = cur[j].id /\ q.contract = cur[j].contract
        BY <2>1, SnapshotIs
      <4>3. p = q
        BY <1>1, <3>1, <4>1, <4>2 DEF OnePerPath
      <4> QED BY <2>1, <4>1, <4>2, <4>3 DEF Comparison
    <3> QED BY <3>1 DEF Unique
  <2> DEFINE Same(i, j) == prev[i].contract.path = cur[j].contract.path
             P(x) == \E i \in DOMAIN prev, j \in DOMAIN cur :
                       /\ Same(i, j) /\ DifferInCompared(prev[i].contract, cur[j].contract)
                       /\ x = <<prev[i].id, cur[j].id>>
             R(x) == \E i \in DOMAIN prev : /\ \A j \in DOMAIN cur : ~Same(i, j)
                                            /\ x = <<prev[i].id, <<>> >>
             A(x) == \E j \in DOMAIN cur : /\ \A i \in DOMAIN prev : ~Same(i, j)
                                           /\ x = <<<<>>, cur[j].id>>
             Told3 == {<<c.old, c.new>> : c \in ChangesOf(s)}
             Gone == {<<p.id, <<>> >> : p \in {x \in BaseRows(s) :
                        \A q \in SnapsOf(s) : q.contract.path # x.contract.path}}
             Come == {<<<<>>, q.id>> : q \in {x \in SnapsOf(s) :
                        \A p \in BaseRows(s) : p.contract.path # x.contract.path}}
             Other == {<<x[1].id, x[2].id>> : x \in {y \in BaseRows(s) \X SnapsOf(s) :
                         y[1].contract.path = y[2].contract.path
                           /\ DifferInCompared(y[1].contract, y[2].contract)}}
  <2>6. \A i \in DOMAIN prev, j \in DOMAIN cur : Paired(prev, cur, i, j) <=> Same(i, j)
    BY <2>2, <2>4, <2>5, PairsByPath
  <2>7. \A i, j : Paired(prev, cur, i, j) => i \in DOMAIN prev /\ j \in DOMAIN cur
    BY <2>2, PairIs
  <2>8. \A i \in DOMAIN prev, j \in DOMAIN cur :
          HasDiff(Difference(prev, cur, i, j)) <=> DifferInCompared(prev[i].contract, cur[j].contract)
    BY <2>3, HasDiffIs DEF Difference
  <2> HIDE DEF Same
  <2>9. \A c : Records(s, prev, cur, c) <=>
          \/ \E i \in DOMAIN prev, j \in DOMAIN cur :
               /\ Same(i, j) /\ DifferInCompared(prev[i].contract, cur[j].contract)
               /\ c = Modification(s, prev, cur, i, j)
          \/ \E i \in DOMAIN prev : /\ \A j \in DOMAIN cur : ~Same(i, j)
                                    /\ c = Removal(s, prev, i)
          \/ \E j \in DOMAIN cur : /\ \A i \in DOMAIN prev : ~Same(i, j)
                                   /\ c = Addition(s, cur, j)
    BY <2>6, <2>7, <2>8 DEF Records
  <2>10. \A c : c \in ChangesOf(s) <=> Records(s, prev, cur, c)
    BY <2>2, ReportIs
  <2>11. \A x : x \in Told3 <=> P(x) \/ R(x) \/ A(x)
    <3>1. ASSUME NEW c \in ChangesOf(s)
          PROVE  P(<<c.old, c.new>>) \/ R(<<c.old, c.new>>) \/ A(<<c.old, c.new>>)
      BY <2>9, <2>10, ChangeFields
    <3>2. ASSUME NEW x, P(x) PROVE x \in Told3
      <4>1. PICK i \in DOMAIN prev, j \in DOMAIN cur :
              /\ Same(i, j) /\ DifferInCompared(prev[i].contract, cur[j].contract)
              /\ x = <<prev[i].id, cur[j].id>>
        BY <3>2
      <4>2. Modification(s, prev, cur, i, j) \in ChangesOf(s)
        BY <2>9, <2>10, <4>1
      <4> QED BY <4>1, <4>2, ChangeFields
    <3>3. ASSUME NEW x, R(x) PROVE x \in Told3
      <4>1. PICK i \in DOMAIN prev :
              (\A j \in DOMAIN cur : ~Same(i, j)) /\ x = <<prev[i].id, <<>> >>
        BY <3>3
      <4>2. Removal(s, prev, i) \in ChangesOf(s)
        BY <2>9, <2>10, <4>1
      <4> QED BY <4>1, <4>2, ChangeFields
    <3>4. ASSUME NEW x, A(x) PROVE x \in Told3
      <4>1. PICK j \in DOMAIN cur :
              (\A i \in DOMAIN prev : ~Same(i, j)) /\ x = <<<<>>, cur[j].id>>
        BY <3>4
      <4>2. Addition(s, cur, j) \in ChangesOf(s)
        BY <2>9, <2>10, <4>1
      <4> QED BY <4>1, <4>2, ChangeFields
    <3> HIDE DEF P, R, A
    <3> QED BY <3>1, <3>2, <3>3, <3>4
  <2>12. /\ \A p : p \in BaseRows(s) <=> \E i \in DOMAIN prev : p = prev[i]
         /\ \A q \in SnapsOf(s) : \E j \in DOMAIN cur :
              q.id = cur[j].id /\ q.contract = cur[j].contract
         /\ \A j \in DOMAIN cur : \E q \in SnapsOf(s) :
              q.id = cur[j].id /\ q.contract = cur[j].contract
    BY <2>1, SnapshotIs
  <2>13. \A x : x \in Gone <=> R(x)
    <3>1. \A i \in DOMAIN prev : (\A q \in SnapsOf(s) : q.contract.path # prev[i].contract.path)
                                   <=> \A j \in DOMAIN cur : ~Same(i, j)
      BY <2>12 DEF Same
    <3> QED BY <2>12, <3>1
  <2>14. \A x : x \in Come <=> A(x)
    <3>1. \A j \in DOMAIN cur : \A q : q.contract = cur[j].contract =>
            ((\A p \in BaseRows(s) : p.contract.path # q.contract.path)
               <=> \A i \in DOMAIN prev : ~Same(i, j))
      BY <2>12 DEF Same
    <3>2. ASSUME NEW q \in SnapsOf(s), \A p \in BaseRows(s) : p.contract.path # q.contract.path
          PROVE  A(<<<<>>, q.id>>)
      BY <2>12, <3>1, <3>2
    <3>3. ASSUME NEW x, A(x) PROVE x \in Come
      <4>1. PICK j \in DOMAIN cur :
              (\A i \in DOMAIN prev : ~Same(i, j)) /\ x = <<<<>>, cur[j].id>>
        BY <3>3
      <4>2. PICK q \in SnapsOf(s) : q.id = cur[j].id /\ q.contract = cur[j].contract
        BY <2>12
      <4>3. \A p \in BaseRows(s) : p.contract.path # q.contract.path
        BY <3>1, <4>1, <4>2
      <4> QED BY <4>1, <4>2, <4>3
    <3> HIDE DEF A
    <3> QED BY <3>2, <3>3
  <2>15. \A x : x \in Other <=> P(x)
    <3>1. ASSUME NEW p \in BaseRows(s), NEW q \in SnapsOf(s),
                 p.contract.path = q.contract.path, DifferInCompared(p.contract, q.contract)
          PROVE  P(<<p.id, q.id>>)
      BY <2>12, <3>1 DEF Same
    <3>2. ASSUME NEW x, P(x) PROVE x \in Other
      <4>1. PICK i \in DOMAIN prev, j \in DOMAIN cur :
              /\ Same(i, j) /\ DifferInCompared(prev[i].contract, cur[j].contract)
              /\ x = <<prev[i].id, cur[j].id>>
        BY <3>2
      <4>2. PICK q \in SnapsOf(s) : q.id = cur[j].id /\ q.contract = cur[j].contract
        BY <2>12
      <4>3. prev[i] \in BaseRows(s)
        BY <2>12
      <4> DEFINE y == <<prev[i], q>>
      <4>4. y \in BaseRows(s) \X SnapsOf(s) /\ y[1] = prev[i] /\ y[2] = q
        BY <4>3
      <4>5. y[1].contract.path = y[2].contract.path /\ DifferInCompared(y[1].contract, y[2].contract)
        BY <4>1, <4>2, <4>4 DEF Same
      <4>6. x = <<y[1].id, y[2].id>>
        BY <4>1, <4>2, <4>4
      <4> HIDE DEF y
      <4> QED BY <4>4, <4>5, <4>6
    <3> HIDE DEF P
    <3> QED BY <3>1, <3>2
  <2> HIDE DEF P, R, A, Told3, Gone, Come, Other
  <2>16. Told3 = Gone \cup Come \cup Other
    BY <2>11, <2>13, <2>14, <2>15
  <2> QED BY <2>16 DEF Told3, Gone, Come, Other
<1>2. Inv => ReportsWhatIsCompared
  BY <1>1 DEF ReportsWhatIsCompared, BaseRows
<1> QED BY <1>2, InvHolds, PTL

-----------------------------------------------------------------------------
(* Severity                                                                *)

\* Where an attempt's previous snapshots come from, and what becomes of the rows.
LEMMA PrevStep ==
  ASSUME Shape, NEW s \in Scans, NEW k \in 1..Attempts, Acts(s, k)
  PROVE  \/ run'[<<s, k>>].prev \in {run[<<s, k>>].prev, <<>>}
         \/ /\ ReadSnapshots(s, k)
            /\ run'[<<s, k>>].prev \in SetToSeqs({q \in snaps : q.id[1] = run[<<s, k>>].base})
<1> DEFINE y == run'[<<s, k>>]
           x == run[<<s, k>>]
<1>1. Throw(s, k) => y.prev = <<>>
  BY Thrown
<1>2. Fail(s, k) => Throw(s, k)
  BY DEF Fail
<1>3. \A commit : OpenReplace(s, k, commit) => y.prev = x.prev
  BY After
<1>4. Start(s, k) \/ OpenStore(s, k) \/ (Store(s, k) /\ ~Throw(s, k))
      \/ (Replace(s, k) /\ ~Throw(s, k)) \/ FindPrevious(s, k)
      \/ (Write(s, k) /\ ~Throw(s, k)) \/ FailLate(s, k) \/ Detach(s, k) => y.prev = x.prev
  BY After
<1>5. Complete(s, k) /\ ~Throw(s, k) => y.prev = <<>>
  BY After
<1>6. ReadSnapshots(s, k) => y.prev \in SetToSeqs({q \in snaps : q.id[1] = x.base})
  BY After
<1> HIDE DEF x, y
<1>7. y.prev \in {x.prev, <<>>}
      \/ (ReadSnapshots(s, k) /\ y.prev \in SetToSeqs({q \in snaps : q.id[1] = x.base}))
  BY <1>1, <1>2, <1>3, <1>4, <1>5, <1>6 DEF Acts
<1> QED BY <1>7 DEF x, y

\* Snapshots go by a cascade and come by a report.
LEMMA SnapsStep ==
  ASSUME NEW s \in Scans, NEW k \in 1..Attempts, Acts(s, k)
  PROVE  \/ snaps' = snaps
         \/ Replace(s, k) /\ snaps' \subseteq snaps
         \/ Write(s, k) /\ run[<<s, k>>].pc = "write" /\ snaps' = snaps \cup NewSnapshots(s, k)
<1>1. Replace(s, k) => snaps' \subseteq snaps
  BY DEF Replace, Cascade
<1>2. Write(s, k) => run[<<s, k>>].pc = "write"
                     /\ (snaps' = snaps \/ snaps' = snaps \cup NewSnapshots(s, k))
  BY DEF Write
<1> QED BY <1>1, <1>2, Writers

\* A snapshot that an attempt has read is never replaced by one of its name.
Recalled ==
  \A r \in Runs : \A p \in Range(run[r].prev) :
    /\ run[Writer(p.id)].pc \in {"complete", "done", "failed"}
    /\ \A x \in snaps : x.id = p.id => x = p

\* What an attempt has read are snapshots.
LEMMA PrevNames ==
  ASSUME Shape, NEW r \in Runs
  PROVE  /\ run[r].prev \in Seq(SnapRows)
         /\ \A p \in Range(run[r].prev) : p \in SnapRows /\ p.id \in Names
                                          /\ Writer(p.id) \in Runs
<1>1. run[r].prev \in Seq(SnapRows)
  BY DEF Shape, AttemptRecords
<1>2. Range(run[r].prev) \subseteq SnapRows
  BY <1>1, Entries
<1> QED BY <1>1, <1>2, RowFields, WriterIn

\* Every step keeps what the attempts have read.
LEMMA RecalledStep ==
  ASSUME Shape, Written, Recalled, [Next]_vars
  PROVE  Recalled'
<1> DEFINE Past == {"complete", "done", "failed"}
<1>1. CASE UNCHANGED vars
  BY <1>1 DEF vars, apiVars, Recalled
<1>2. ASSUME NEW s \in Scans, Request(s) PROVE Recalled'
  BY <1>2 DEF Request, apiVars, Recalled
<1>3. ASSUME NEW s \in Scans, NEW k \in 1..Attempts, Acts(s, k) PROVE Recalled'
  <2>1. /\ \A r \in Runs : r # <<s, k>> => run'[r] = run[r]
        /\ \A r \in Runs : run[r].pc \in Past => run'[r].pc \in Past
    BY <1>3, Onward
  <2>2. ASSUME NEW r \in Runs, NEW p \in Range(run[r].prev)
        PROVE  run'[Writer(p.id)].pc \in Past /\ \A x \in snaps' : x.id = p.id => x = p
    <3>1. Writer(p.id) \in Runs /\ run[Writer(p.id)].pc \in Past
      BY PrevNames DEF Recalled
    <3>2. \A x \in snaps : x.id = p.id => x = p
      BY DEF Recalled
    <3>3. run[<<s, k>>].pc = "write" => \A x \in NewSnapshots(s, k) : x.id # p.id
      BY <3>1, MadeNames
    <3> QED BY <1>3, <2>1, <3>1, <3>2, <3>3, SnapsStep
  <2>3. ASSUME ReadSnapshots(s, k),
               run'[<<s, k>>].prev \in SetToSeqs({q \in snaps : q.id[1] = run[<<s, k>>].base}),
               NEW p \in Range(run'[<<s, k>>].prev)
        PROVE  run'[Writer(p.id)].pc \in Past /\ \A x \in snaps' : x.id = p.id => x = p
    <3> DEFINE Q == {q \in snaps : q.id[1] = run[<<s, k>>].base}
    <3>1. Range(run'[<<s, k>>].prev) = Q
      BY <2>3, ReadType
    <3>2. p \in snaps
      BY <2>3, <3>1
    <3>3. snaps' = snaps
      BY <2>3 DEF ReadSnapshots, apiVars
    <3>4. Writer(p.id) \in Runs /\ run[Writer(p.id)].pc \in Past
      BY <3>2, RowFields, WriterIn DEF Shape, Written
    <3> QED BY <2>1, <3>2, <3>3, <3>4 DEF Written
  <2>4. Range(<<>>) = {}
    BY DEF Range
  <2>5. ASSUME NEW r \in Runs, NEW p \in Range(run'[r].prev)
        PROVE  run'[Writer(p.id)].pc \in Past /\ \A x \in snaps' : x.id = p.id => x = p
    <3>1. CASE p \in Range(run[r].prev)
      BY <2>2, <3>1
    <3>2. CASE r = <<s, k>> /\ run'[r].prev = <<>>
      BY <2>4, <2>5, <3>2
    <3>3. CASE /\ r = <<s, k>> /\ ReadSnapshots(s, k)
               /\ run'[r].prev \in SetToSeqs({q \in snaps : q.id[1] = run[<<s, k>>].base})
      BY <2>3, <2>5, <3>3
    <3>4. r # <<s, k>> => p \in Range(run[r].prev)
      BY <2>1, <2>5
    <3> QED BY <1>3, <2>5, <3>1, <3>2, <3>3, <3>4, PrevStep
  <2> QED BY <2>5 DEF Recalled
<1> QED BY <1>1, <1>2, <1>3, NextIs, Zenon

\* The severity of a change between the rows p and q.
Rating(p, q) == Severity(ContractDiff(p.contract, q.contract), q.contract)

\* A modification that names two snapshots has the severity of their difference.
Rates(c, rows) ==
  c.type = "MODIFIED" /\ c.old # <<>> /\ c.new # <<>> =>
    \E p, q \in rows : p.id = c.old /\ q.id = c.new /\ c.severity = Rating(p, q)
Rated == \A c \in changes : Rates(c, snaps)

\* The cascade of replaceScanApis takes a snapshot and the reference to it together.
LEMMA RatedReplace ==
  ASSUME Shape, Rated, NEW s \in Scans, NEW k \in 1..Attempts, Replace(s, k)
  PROVE  Rated'
<1> DEFINE gone == run[<<s, k>>].gone
           Cut(c) == [c EXCEPT !.old = IF @ \in gone THEN <<>> ELSE @,
                               !.new = IF @ \in gone THEN <<>> ELSE @]
<1>1. /\ snaps' = {x \in snaps : x.id \notin gone}
      /\ changes' = {Cut(c) : c \in {x \in changes : x.api \notin gone}}
  BY DEF Replace, Cascade
<1>2. \A c \in changes : /\ Cut(c).old = (IF c.old \in gone THEN <<>> ELSE c.old)
                         /\ Cut(c).new = (IF c.new \in gone THEN <<>> ELSE c.new)
                         /\ Cut(c).type = c.type /\ Cut(c).severity = c.severity
  BY DEF Shape, ChangeRows
<1> HIDE DEF gone, Cut
<1>3. ASSUME NEW c \in changes, Cut(c).type = "MODIFIED", Cut(c).old # <<>>, Cut(c).new # <<>>
      PROVE  \E p, q \in snaps' :
               p.id = Cut(c).old /\ q.id = Cut(c).new /\ Cut(c).severity = Rating(p, q)
  <2>1. /\ c.type = "MODIFIED" /\ c.old # <<>> /\ c.new # <<>>
        /\ c.old \notin gone /\ c.new \notin gone
        /\ Cut(c).old = c.old /\ Cut(c).new = c.new /\ Cut(c).severity = c.severity
    BY <1>2, <1>3
  <2>2. \E p, q \in snaps : p.id = c.old /\ q.id = c.new /\ c.severity = Rating(p, q)
    BY <2>1 DEF Rated, Rates
  <2>3. PICK p \in snaps, q \in snaps :
          p.id = c.old /\ q.id = c.new /\ c.severity = Rating(p, q)
    BY <2>2
  <2>4. p \in snaps' /\ q \in snaps'
    BY <1>1, <2>1, <2>3
  <2> QED BY <2>1, <2>3, <2>4
<1>4. \A c \in changes' : Rates(c, snaps')
  BY <1>1, <1>3 DEF Rates
<1> QED BY <1>4 DEF Rated

\* createSnapshotsAndChanges rates by the contracts of the rows that it links.
LEMMA RatedWrite ==
  ASSUME Shape, Recalled, Rated, NEW s \in Scans, NEW k \in 1..Attempts, Write(s, k),
         changes' # changes \/ snaps' # snaps
  PROVE  Rated'
<1> DEFINE made == NewSnapshots(s, k)
           report == NewChanges(s, k)
           prev == run[<<s, k>>].prev
           rows == Rows(s, k)
<1>1. /\ run[<<s, k>>].pc = "write"
      /\ {c.old : c \in report} \cup {c.new : c \in report}
           \subseteq Ids(snaps \cup made) \cup {<<>>}
      /\ snaps' = snaps \cup made
      /\ changes' = {c \in changes : c.scan # s} \cup report
  BY DEF Write
<1>2. /\ prev \in Seq(SnapRows) /\ rows \in Seq(ApiRows) /\ <<s, k>> \in Runs
  BY PrevNames, RowsType, RunIs
<1>3. made = SnapshotsOf(prev, rows) /\ report = ReportOf(s, prev, rows)
  BY NewAre
<1>4. \A x \in made : Writer(x.id) = <<s, k>>
  BY MadeNames
<1>5. \A i \in DOMAIN prev : /\ run[Writer(prev[i].id)].pc # "write"
                             /\ \A x \in snaps : x.id = prev[i].id => x = prev[i]
  <2>1. \A i \in DOMAIN prev : prev[i] \in Range(prev)
    BY DEF Range
  <2> HIDE DEF prev
  <2> QED BY <1>2, <2>1 DEF Recalled, prev
<1>6. \A j \in DOMAIN rows : \E q \in made : q.id = rows[j].id /\ q.contract = rows[j].contract
  <2> DEFINE N(row) == [id |-> row.id, contract |-> row.contract,
                        version |-> Version(row.contract, prev)]
  <2>1. made = {N(row) : row \in Range(rows)}
    BY <1>3 DEF SnapshotsOf
  <2>2. \A row : N(row).id = row.id /\ N(row).contract = row.contract
    OBVIOUS
  <2>3. \A j \in DOMAIN rows : N(rows[j]) \in made
    <3> HIDE DEF rows, made, N
    <3> QED BY <2>1 DEF Range
  <2> HIDE DEF rows, made, N
  <2> QED BY <2>2, <2>3
<1>7. \A i \in DOMAIN prev : prev[i].id # <<>>
  <2>1. \A i \in DOMAIN prev : prev[i] \in SnapRows
    BY <1>2, Entries
  <2> QED BY <2>1, RowFields, NamesAre
<1> HIDE DEF made, report, prev, rows
<1>8. ASSUME NEW c \in report, c.type = "MODIFIED"
      PROVE  \E p, q \in snaps' : p.id = c.old /\ q.id = c.new /\ c.severity = Rating(p, q)
  <2>1. Records(s, prev, rows, c)
    BY <1>2, <1>3, <1>8, ReportIs
  <2>2. PICK i \in DOMAIN prev, j \in DOMAIN rows : c = Modification(s, prev, rows, i, j)
    BY <1>8, <2>1, ChangeFields DEF Records
  <2>3. /\ c.old = prev[i].id /\ c.new = rows[j].id
        /\ c.severity = Severity(ContractDiff(prev[i].contract, rows[j].contract),
                                 rows[j].contract)
    BY <2>2 DEF Modification, Difference
  <2>4. c.old \in Ids(snaps \cup made)
    BY <1>1, <1>7, <1>8, <2>3
  <2>5. PICK p \in snaps \cup made : p.id = prev[i].id
    BY <2>3, <2>4 DEF Ids
  <2>6. p \notin made
    BY <1>1, <1>4, <1>5, <2>5
  <2>7. p = prev[i] /\ p \in snaps'
    BY <1>1, <1>5, <2>5, <2>6
  <2>8. PICK q \in made : q.id = rows[j].id /\ q.contract = rows[j].contract
    BY <1>6
  <2>9. q \in snaps'
    BY <1>1
  <2>10. c.severity = Rating(p, q)
    BY <2>3, <2>7, <2>8 DEF Rating
  <2> QED BY <2>3, <2>7, <2>8, <2>9, <2>10
<1>9. \A c \in report : Rates(c, snaps')
  BY <1>8 DEF Rates
<1>10. \A c \in changes : Rates(c, snaps) => Rates(c, snaps')
  BY <1>1 DEF Rates
<1>11. \A c \in changes' : Rates(c, snaps')
  BY <1>1, <1>9, <1>10 DEF Rated
<1> QED BY <1>11 DEF Rated

\* Every step keeps the ratings.
LEMMA RatedStep ==
  ASSUME Shape, Recalled, Rated, [Next]_vars
  PROVE  Rated'
<1>1. CASE changes' = changes /\ snaps' = snaps
  BY <1>1 DEF Rated
<1>2. ASSUME NEW s \in Scans, NEW k \in 1..Attempts, Acts(s, k) PROVE Rated'
  <2>1. Replace(s, k) \/ Write(s, k) \/ (changes' = changes /\ snaps' = snaps)
    BY <1>2, Writers
  <2> QED BY <1>1, <2>1, RatedReplace, RatedWrite
<1>3. UNCHANGED vars \/ (\E s \in Scans : Request(s)) => changes' = changes /\ snaps' = snaps
  BY DEF vars, apiVars, Request
<1> QED BY <1>1, <1>2, <1>3, NextIs

\* scoreModifiedContract tells what breaks a client.
LEMMA SeverityIs ==
  ASSUME NEW c \in Contracts, NEW d \in Contracts, SameOtherwise(c, d)
  PROVE  Severity(ContractDiff(c, d), d) = "HIGH" <=> Breaks(c, d)
<1> DEFINE x == ContractDiff(c, d)
           old == c.request
           new == d.request
<1>1. /\ IsSchema(old) /\ IsSchema(new) /\ IsSchema(c.response) /\ IsSchema(d.response)
  BY CommitsAssumption
<1>2. /\ x.method <=> c.method # d.method
      /\ x.auth <=> c.auth # d.auth
      /\ x.request = SchemaDiff(old, new)
      /\ x.response = SchemaDiff(c.response, d.response)
  BY DEF ContractDiff
<1>3. Severity(x, d) = "HIGH" <=>
        \/ x.method \/ x.auth
        \/ x.response.removed # {} \/ x.response.typeChanged # {}
        \/ x.request.typeChanged # {} \/ RequiredAdded(x, d)
  <2> HIDE DEF x
  <2> QED BY DEF Severity
<1>4. /\ x.response.removed # {} => Lost(c.response, d.response) # {}
      /\ Lost(c.response, d.response) # {} =>
           x.response.removed # {} \/ Retyped(c.response, d.response) # {}
      /\ x.response.typeChanged # {} <=> Retyped(c.response, d.response) # {}
  BY <1>1, <1>2, DiffIs, LostIs, RetypedIs
<1>5. x.request.typeChanged # {} <=> Retyped(old, new) # {}
  BY <1>1, <1>2, RetypedIs
<1>6. x.request.added = OnlyIn(new, old, new, old)
  BY <1>1, <1>2, DiffIs
<1> DEFINE New(p) == p \in Required(new) \ Fields(old) /\ Parent(p) \in Fields(old)
           G == {f \in Fields(new) \ Fields(old) : Reached(f, new, old)}
           Report(p) == IF IsWhole(p) THEN Collected(p, new) ELSE {p}
<1>7. OnlyIn(new, old, new, old) = UNION {Report(p) : p \in G}
  BY DEF OnlyIn
<1>8. \A p \in Fields(new) : p # <<>> => Parent(p) \in Above(p)
  BY <1>1, SchemaIs, AboveIs
<1>9. ASSUME NEW p \in x.request.added, ~IsWhole(p), new[p].required PROVE New(p)
  <2>1. PICK q \in G : p \in Report(q)
    BY <1>6, <1>7
  <2>2. q \in Fields(new) /\ q \notin Fields(old) /\ Reached(q, new, old)
    BY <2>1
  <2>3. CASE ~IsWhole(q)
    <3>1. p = q /\ p # <<>>
      BY <1>9, <2>1, <2>3 DEF IsWhole
    <3>2. Parent(p) \in Fields(old)
      BY <1>8, <2>2, <3>1 DEF Reached
    <3> QED BY <1>9, <2>2, <3>1, <3>2 DEF Required
  <2>4. CASE IsWhole(q)
    <3>1. q # <<>> /\ Parent(q) \notin Fields(old)
      BY <2>2, <2>4 DEF SameOtherwise
    <3>2. Parent(q) \in Fields(old)
      BY <1>8, <2>2, <3>1 DEF Reached
    <3> QED BY <3>1, <3>2
  <2> QED BY <2>3, <2>4
<1>10. ASSUME NEW p, New(p), Retyped(old, new) = {} PROVE RequiredAdded(x, d)
  <2>1. p \in Fields(new) /\ p \notin Fields(old) /\ new[p].required /\ ~IsWhole(p)
    BY <1>1, <1>10 DEF Required, IsSchema
  <2>2. p \in Seq(Range(p)) /\ Above(p) \subseteq Fields(new) /\ Len(p) \in Nat
    BY <1>1, <2>1, SchemaIs
  <2>3. Above(p) \subseteq Fields(old)
    <3>1. Parent(p) \in Fields(old) /\ p # <<>>
      BY <1>10, <2>1 DEF IsWhole
    <3>2. Above(Parent(p)) \subseteq Fields(old)
      BY <1>1, <3>1, SchemaIs
    <3>3. Above(p) \subseteq Above(Parent(p)) \cup {Parent(p)}
      <4>1. Len(p) > 0
        BY <2>2, <3>1
      <4>2. Len(Parent(p)) = Len(p) - 1
        <5>1. \A n \in 0..(Len(p) - 1) : Len(SubSeq(p, 1, n)) = n
          BY <2>2, AboveIs
        <5>2. Len(p) - 1 \in 0..(Len(p) - 1)
          BY <2>2, <4>1
        <5> QED BY <5>1, <5>2 DEF Parent
      <4>3. ASSUME NEW n \in 0..(Len(p) - 1), n # Len(p) - 1
            PROVE  SubSeq(p, 1, n) \in Above(Parent(p))
        <5>1. SubSeq(Parent(p), 1, n) = SubSeq(p, 1, n)
          BY <2>2, <4>1, <4>3 DEF Parent
        <5>2. n \in 0..(Len(Parent(p)) - 1)
          BY <2>2, <4>2, <4>3
        <5> QED BY <5>1, <5>2 DEF Above
      <4>4. \A n \in 0..(Len(p) - 1) : SubSeq(p, 1, n) \in Above(Parent(p)) \cup {Parent(p)}
        BY <4>3 DEF Parent
      <4> QED BY <4>4 DEF Above
    <3> QED BY <3>1, <3>2, <3>3
  <2>4. \A a \in Above(p) : old[a].type = new[a].type
    BY <1>10, <2>2, <2>3 DEF Retyped
  <2>5. Reached(p, new, old)
    BY <2>2, <2>3, <2>4 DEF Reached
  <2>6. p \in G /\ Report(p) = {p}
    BY <2>1, <2>5
  <2>7. p \in x.request.added
    BY <1>6, <1>7, <2>6
  <2> QED BY <2>1, <2>7 DEF RequiredAdded
<1> HIDE DEF x
<1>11. Breaks(c, d) <=>
         \/ c.method # d.method \/ c.auth # d.auth
         \/ Lost(c.response, d.response) # {} \/ Retyped(c.response, d.response) # {}
         \/ Retyped(old, new) # {} \/ \E p : New(p)
  BY DEF Breaks, SameOtherwise
<1>12. RequiredAdded(x, d) => \E p : New(p)
  BY <1>9 DEF RequiredAdded
<1>13. (\E p : New(p)) => RequiredAdded(x, d) \/ Retyped(old, new) # {}
  BY <1>10
<1> HIDE DEF New
<1> QED BY <1>2, <1>3, <1>4, <1>5, <1>11, <1>12, <1>13 DEF x

\* So they always hold.
LEMMA RatingHolds == Spec => [](Inv /\ Recalled /\ Rated)
<1>1. Init => Inv /\ Recalled /\ Rated
  <2> SUFFICES ASSUME Init PROVE Inv /\ Recalled /\ Rated
    OBVIOUS
  <2>1. \A r \in Runs : run[r].prev = <<>>
    BY DEF Init, Fresh
  <2>2. Range(<<>>) = {}
    BY DEF Range
  <2>3. Recalled
    BY <2>1, <2>2 DEF Recalled
  <2>4. Rated
    BY DEF Init, Rated
  <2> QED BY <2>3, <2>4, InvInit
<1>2. Inv /\ Recalled /\ Rated /\ [Next]_vars => (Inv /\ Recalled /\ Rated)'
  <2> SUFFICES ASSUME Inv, Recalled, Rated, [Next]_vars PROVE (Inv /\ Recalled /\ Rated)'
    OBVIOUS
  <2>1. Shape /\ Written
    BY DEF Inv
  <2> QED BY <2>1, InvStep, RecalledStep, RatedStep
<1> QED BY <1>1, <1>2, PTL DEF Spec

\* SeverityTellsBreakage: unless something changes that the code does not compare
\* (query parameters, formats, guards, whether a common field is required) or a
\* body comes, a modification is of high severity exactly when it can break a
\* client (scoreModifiedContract, compareSchema), for as long as the change names
\* both of its snapshots.
THEOREM SeverityTrue == Spec => []SeverityTellsBreakage
<1>1. ASSUME Inv, Rated, NEW c \in changes, c.type = "MODIFIED", c.old # <<>>, c.new # <<>>,
             SameOtherwise(Find(c.old).contract, Find(c.new).contract)
      PROVE  (c.severity = "HIGH") = Breaks(Find(c.old).contract, Find(c.new).contract)
  <2>1. \E p, q \in snaps : p.id = c.old /\ q.id = c.new /\ c.severity = Rating(p, q)
    BY <1>1 DEF Rated, Rates
  <2>2. PICK p \in snaps, q \in snaps :
          p.id = c.old /\ q.id = c.new /\ c.severity = Rating(p, q)
    BY <2>1
  <2>3. Find(c.old) = p /\ Find(c.new) = q
    BY <1>1, <2>2, FindIs DEF Inv
  <2>4. p.contract \in Contracts /\ q.contract \in Contracts
    BY <1>1, RowFields DEF Inv, Shape
  <2>5. c.severity = "HIGH" <=> Breaks(p.contract, q.contract)
    BY <1>1, <2>2, <2>3, <2>4, SeverityIs DEF Rating
  <2> QED BY <2>3, <2>5 DEF Breaks
<1>2. Inv /\ Rated => SeverityTellsBreakage
  BY <1>1 DEF SeverityTellsBreakage
<1> QED BY <1>2, RatingHolds, PTL
=============================================================================
