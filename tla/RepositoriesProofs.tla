------------------------- MODULE RepositoriesProofs -------------------------
(***************************************************************************)
(* Connections and uploads for any number of accounts, tokens, requests    *)
(* and disturbances, any page size and limit, and any archives.            *)
(*                                                                         *)
(* The inductive invariant IInv says of the tables that rows are ranked by *)
(* their last writes and hold tokens of their account (Wired); of requests *)
(* that do not overlap, that they have what their row has (InTurn); of     *)
(* refresh tokens, who holds the one that the provider accepts while a row *)
(* waits for it (Refreshable), which differs between the providers; of an  *)
(* upload, that what is stored is what has been read (Extraction).         *)
(***************************************************************************)
EXTENDS Repositories, FiniteSetTheorems, WellFoundedInduction, TLAPS

-----------------------------------------------------------------------------
(* The inductive invariant                                                 *)

\* Requests that use a connection, and the steps of an upload.
Errands == {"list", "import", "clone", "disconnect"}
Extracting == {"prepare", "entry", "row", "tidy"}

\* What a request at each step is there for and has read.
Stage(q) ==
  LET r == req[q] IN
  /\ r.pc = "idle" => r = Idle
  /\ r.pc = "store" => r.kind = "callback" /\ r.of \in Accounts /\ r.access \in Tokens
  /\ r.pc \in {"refresh", "update", "call"} =>
       r.kind \in Errands /\ r.of \in Rows /\ r.access \in Tokens
  /\ r.pc \in {"refresh", "update"} => r.refresh \in Tokens
  /\ r.pc = "validate" => r.kind = "list" /\ r.of \in Rows
  /\ r.pc = "save" => r.kind = "import" /\ r.of \in Rows
  /\ r.pc = "close" => r.kind = "disconnect" /\ r.of \in Rows \cup {None}
  /\ r.pc \in Extracting => r.kind = "upload" /\ r.of = None

\* The types of the tables and of the requests.
Columns ==
  /\ provider \in {"GITHUB", "BITBUCKET"}
  /\ conn \in [Accounts -> ConnectionRows]
  /\ grant \in [Tokens -> Grants]
  /\ req \in [Requests -> RequestStates]
  /\ used \in [Disturbances -> Nat] /\ \A d \in Disturbances : used[d] <= Limit[d]

\* L ranks the members of R, and any of them have a first one: there is a
\* latest row for findFirst to find.
Ranking(R, L) ==
  /\ L \subseteq R \X R
  /\ \A a, b \in R : <<a, b>> \in L <=> a # b /\ <<b, a>> \notin L
  /\ \A a, b, c \in R : <<a, b>> \in L /\ <<b, c>> \in L => <<a, c>> \in L
  /\ \A S \in SUBSET R : S # {} => \E a \in S : \A b \in S \ {a} : <<a, b>> \in L

\* A token is held in the name of the account that it was issued for.
IssuedFor(t, a) == t # None => a # None /\ grant[t].of = a

Owned == \A a \in Accounts : /\ IssuedFor(conn[a].access, a) /\ IssuedFor(conn[a].refresh, a)
                             /\ a \in Rows => conn[a].access # None

Good(q) == /\ Stage(q)
           /\ IssuedFor(req[q].access, req[q].of) /\ IssuedFor(req[q].refresh, req[q].of)

Wired == Columns /\ Ranking(Rows, later) /\ Owned /\ \A q \in Requests : Good(q)

\* The types of the other tables.
Shelves ==
  /\ repo # None => repo \in Rows
  /\ zipConn \in BOOLEAN
  /\ row # None => row \in Archives
  /\ upload \in [archive : Archives \cup {<<>>}, next : Nat, bytes : Nat]
  /\ disk \in [there : BOOLEAN, files : SUBSET Paths]

\* As long as no two requests overlap, one is in progress at most, it has the
\* tokens of its connection, and what a disconnect has revoked is gone.
InTurn ==
  Never({"overlap"}) =>
    /\ \A p, q \in Working : p = q
    /\ \A q \in Requests : req[q].pc \in {"refresh", "call"} =>
         req[q].access = conn[req[q].of].access
    /\ Never({"failure"}) => \A q \in Requests :
         req[q].pc = "close" /\ req[q].of # None => ~grant[conn[req[q].of].access].access

\* Nothing happens that a connection does not survive.
Calm == Never({"lost", "bare", "withdrawn", "overtaken"})

\* What a request brings from the provider nobody else holds.
Private(q) ==
  /\ grant[req[q].refresh].refresh
  /\ \A a \in Accounts : conn[a].refresh # req[q].refresh
  /\ \A p \in Requests \ {q} : req[p].refresh # req[q].refresh

\* The refresh tokens of GitHub are used once: the first of several requests
\* takes the one of the row, and the row waits for its update.
Rotating ==
  /\ \A q \in Requests : req[q].pc = "refresh" =>
       req[q].refresh = conn[req[q].of].refresh \/ ~grant[req[q].refresh].refresh
  /\ \A q \in Requests : req[q].pc = "update" =>
       Private(q) /\ ~grant[conn[req[q].of].refresh].refresh
  /\ \A p, q \in Requests : req[p].pc = "update" /\ req[q].pc = "update"
                              /\ req[p].of = req[q].of => p = q
  /\ \A a \in Rows : ~grant[conn[a].refresh].refresh =>
       \E q \in Requests : req[q].of = a /\ req[q].pc = "update"

\* The refresh tokens of Bitbucket stay what they are until they are revoked.
Keeping ==
  /\ \A q \in Requests : req[q].pc \in {"refresh", "update"} =>
       req[q].refresh = conn[req[q].of].refresh
  /\ \A a \in Accounts : Active(a) /\ ~grant[conn[a].refresh].refresh =>
       \E q \in Requests : req[q].of = a /\ req[q].pc = "close"

Refreshable ==
  Calm =>
    /\ \A a \in Rows : conn[a].refresh \in Tokens
    /\ \A q \in Requests : req[q].pc = "store" => req[q].refresh \in Tokens /\ Private(q)
    /\ IF Rotates THEN Rotating ELSE Keeping

\* The sizes of the first n entries add up to this many bytes, and to no more
\* than MaxBytes at any of them.
Adds(archive, n, bytes) ==
  \E sum \in [0..n -> 0..MaxBytes] :
    /\ sum[0] = 0 /\ sum[n] = bytes
    /\ \A i \in 1..n : sum[i] = sum[i - 1] + archive[i].size

\* The first n entries are in the directory and keep the limits.
Stored(archive, n, bytes) ==
  /\ disk = [there |-> TRUE, files |-> {archive[i].path : i \in 1..n}]
  /\ n <= MaxEntries
  /\ Adds(archive, n, bytes)
  /\ \A i \in 1..n : archive[i].safe

\* What an upload has stored is what it has read.
Extracts(q) ==
  /\ req[q].pc = "prepare" => disk = Gone /\ upload.next = 1 /\ upload.bytes = 0
  /\ req[q].pc \in {"entry", "row"} =>
       /\ upload.next \in 1..(Len(upload.archive) + 1)
       /\ Stored(upload.archive, upload.next - 1, upload.bytes)
  /\ req[q].pc = "row" => upload.next = Len(upload.archive) + 1

\* There is one upload at a time, and a row ends it.
Extraction ==
  /\ \A p, q \in Requests : req[p].kind = "upload" /\ req[q].kind = "upload" => p = q
  /\ \A q \in Requests : req[q].kind = "upload" => req[q].pc \in Extracting
  /\ Uploading => row = None /\ upload.archive \in Archives
  /\ \A q \in Requests : Extracts(q)

\* Rows and files of uploads keep together.
Together == UploadIsWhole /\ NothingLeftBehind

IInv == Wired /\ Shelves /\ InTurn /\ Refreshable /\ Extraction /\ ListingIsWhole /\ Together

-----------------------------------------------------------------------------
(* What one step does to types and to the order of the rows                *)

\* Rows stay, an issued token stays the account's, and what the provider has
\* ceased to accept it never accepts again.
Onward ==
  /\ provider' = provider
  /\ Rows \subseteq Rows'
  /\ \A t \in Tokens : grant[t].of # None =>
       /\ grant'[t].of = grant[t].of
       /\ grant'[t].access => grant[t].access
       /\ grant'[t].refresh => grant[t].refresh
  /\ \A d \in Disturbances : used[d] <= used'[d]

\* The ranks of the members of R after a has come first.
Front(R, L, a) == {p \in L : a \notin {p[1], p[2]}} \cup {<<a, b>> : b \in R \ {a}}

\* A member that is moved to the front, or is new, leaves them ranked.
LEMMA Touched ==
  ASSUME NEW R, NEW L, NEW a, Ranking(R, L)
  PROVE  Ranking(R \cup {a}, Front(R, L, a))
<1> DEFINE old == {p \in L : a \notin {p[1], p[2]}}
           new == {<<a, b>> : b \in R \ {a}}
           M == old \cup new
<1>1. L \subseteq R \X R
  BY DEF Ranking
<1>2. \A x, y : <<x, y>> \in old <=> <<x, y>> \in L /\ x # a /\ y # a
  OBVIOUS
<1>3. \A x, y : <<x, y>> \in new <=> x = a /\ y \in R /\ y # a
  OBVIOUS
<1>4. \A p \in M : p = <<p[1], p[2]>> /\ p[1] \in R \cup {a} /\ p[2] \in R \cup {a}
  BY <1>1
<1>5. \A x, y : <<x, y>> \in M <=>
        \/ x = a /\ y \in R /\ y # a
        \/ <<x, y>> \in L /\ x # a /\ y # a
  BY <1>2, <1>3
<1>6. M \subseteq (R \cup {a}) \X (R \cup {a})
  BY <1>4
<1> HIDE DEF M
<1>7. \A x, y \in R \cup {a} : <<x, y>> \in M <=> x # y /\ <<y, x>> \notin M
  BY <1>1, <1>5 DEF Ranking
<1>8. \A x, y, z \in R \cup {a} : <<x, y>> \in M /\ <<y, z>> \in M => <<x, z>> \in M
  BY <1>1, <1>5 DEF Ranking
<1>9. ASSUME NEW S \in SUBSET (R \cup {a}), S # {}
      PROVE  \E x \in S : \A y \in S \ {x} : <<x, y>> \in M
  <2>1. CASE a \in S
    BY <2>1, <1>5
  <2>2. CASE a \notin S
    <3>1. S \in SUBSET R
      BY <2>2
    <3>2. PICK x \in S : \A y \in S \ {x} : <<x, y>> \in L
      BY <3>1, <1>9 DEF Ranking
    <3>3. \A y \in S \ {x} : <<x, y>> \in M
      BY <3>2, <2>2, <1>5
    <3> QED BY <3>3
  <2> QED BY <2>1, <2>2
<1>10. Ranking(R \cup {a}, M)
  BY <1>6, <1>7, <1>8, <1>9 DEF Ranking
<1> QED BY <1>10 DEF M, Front

\* The rows are ranked, and a write of one of them keeps them so.
LEMMA Moved ==
  ASSUME Ranking(Rows, later), NEW a \in Accounts, Touch(a), Rows' = Rows \cup {a}
  PROVE  Ranking(Rows', later')
<1>1. Ranking(Rows \cup {a}, Front(Rows, later, a))
  BY Touched
<1>2. later' = Front(Rows, later, a)
  BY DEF Touch, Front
<1> QED BY <1>1, <1>2

\* A disturbance counts, and no more often than it may.
Paid ==
  /\ used' \in [Disturbances -> Nat]
  /\ \A d \in Disturbances : used'[d] <= Limit[d] /\ used[d] <= used'[d]

\* A disturbance that happens is within its limit.
LEMMA Spent ==
  ASSUME Wired, NEW D, SpendAll(D)
  PROVE  Paid /\ \A d \in Disturbances \cap D : used'[d] > 0
  BY LimitAssumption DEF Wired, Columns, SpendAll, Paid

\* A step without one leaves the count alone.
LEMMA Free ==
  ASSUME Wired, UNCHANGED used
  PROVE  Paid
  BY DEF Wired, Columns, Paid

\* The latest active row is an active row.
LEMMA LatestIs ==
  ASSUME Ranking(Rows, later), Latest # None
  PROVE  Latest \in Accounts /\ Active(Latest)
<1> DEFINE rows == {a \in Accounts : Active(a)}
<1>1. rows # {} /\ rows \in SUBSET Rows
  BY DEF Latest, Active, Rows
<1>2. \E a \in rows : \A b \in rows \ {a} : <<a, b>> \in later
  BY <1>1 DEF Ranking
<1>3. Latest = CHOOSE a \in rows : \A b \in rows \ {a} : <<a, b>> \in later
  BY <1>1 DEF Latest
<1>4. Latest \in rows
  <2> HIDE DEF rows
  <2> QED BY <1>2, <1>3
<1> QED BY <1>4

\* A token that is held was issued, and a row that exists has one.
LEMMA Holdings ==
  ASSUME Wired
  PROVE  /\ \A a \in Accounts : /\ conn[a].access \in Tokens \cup {None}
                                /\ conn[a].refresh \in Tokens \cup {None}
                                /\ a \in Rows => conn[a].access \in Tokens
         /\ \A q \in Requests : req[q] \in RequestStates
         /\ \A t \in Tokens : grant[t] \in Grants
         /\ None \notin Accounts /\ None \notin Tokens
  BY NoneAssumption DEF Wired, Columns, Owned, ConnectionRows

\* What a request is and has stays right while it waits.
LEMMA Waits ==
  ASSUME Wired, Columns', Onward, NEW q \in Requests, req'[q] = req[q]
  PROVE  Good(q)'
<1>1. Good(q) /\ req[q] \in RequestStates /\ Rows \subseteq Rows'
  BY DEF Wired, Onward, Columns
<1>2. Stage(q)'
  BY <1>1 DEF Good, Stage, Idle
<1>3. ASSUME NEW t \in Tokens \cup {None}, IssuedFor(t, req[q].of)
      PROVE  IssuedFor(t, req[q].of)'
  BY <1>1, <1>3 DEF IssuedFor, Onward
<1>4. req[q].access \in Tokens \cup {None} /\ req[q].refresh \in Tokens \cup {None}
  BY <1>1 DEF RequestStates
<1> QED BY <1>1, <1>2, <1>3, <1>4 DEF Good


\* One request moves, and the tables stay as they are.
LEMMA Errand ==
  ASSUME Wired, UNCHANGED connVars, Paid, NEW q \in Requests,
         req' \in [Requests -> RequestStates],
         \A p \in Requests \ {q} : req'[p] = req[p],
         Good(q)'
  PROVE  Wired' /\ Onward
<1>1. UNCHANGED <<provider, conn, later, grant, Rows>>
  BY DEF connVars, Rows
<1>2. Columns' /\ Onward
  BY <1>1 DEF Wired, Columns, Onward, Paid
<1>3. Ranking(Rows, later)' /\ Owned'
  BY <1>1 DEF Wired, Owned, IssuedFor, Ranking
<1>4. \A p \in Requests : Good(p)'
  BY <1>2, Waits
<1> QED BY <1>2, <1>3, <1>4 DEF Wired

\* A request that is over is nobody's.
LEMMA Ends ==
  ASSUME Wired, UNCHANGED connVars, Paid, NEW q \in Requests, End(q)
  PROVE  Wired' /\ Onward
<1>1. Idle \in RequestStates
  BY DEF Idle, RequestStates, Steps, Kinds
<1>2. req \in [Requests -> RequestStates]
  BY DEF Wired, Columns
<1>3. /\ req' \in [Requests -> RequestStates] /\ req'[q] = Idle
      /\ \A p \in Requests \ {q} : req'[p] = req[p]
  BY <1>1, <1>2 DEF End
<1>4. Good(q)'
  BY <1>3 DEF Good, Stage, IssuedFor, Idle, Extracting
<1> QED BY <1>3, <1>4, Errand

\* A request that goes on to its next step.
LEMMA Goes ==
  ASSUME Wired, NEW q \in Requests, NEW pc \in Steps, Go(q, pc)
  PROVE  /\ req' \in [Requests -> RequestStates]
         /\ \A p \in Requests \ {q} : req'[p] = req[p]
         /\ req'[q].pc = pc /\ req'[q].kind = req[q].kind /\ req'[q].of = req[q].of
         /\ req'[q].access = req[q].access /\ req'[q].refresh = req[q].refresh
         /\ req'[q].listed = req[q].listed /\ req'[q].total = req[q].total
<1>1. req \in [Requests -> RequestStates]
  BY DEF Wired, Columns
<1> QED BY <1>1 DEF Go, RequestStates

\* A request goes on, and the tables stay as they are.
LEMMA GoesOn ==
  ASSUME Wired, UNCHANGED connVars, Paid, NEW q \in Requests, NEW pc \in Steps, Go(q, pc),
         Stage(q)'
  PROVE  Wired' /\ Onward
<1>1. /\ req' \in [Requests -> RequestStates] /\ \A p \in Requests \ {q} : req'[p] = req[p]
      /\ req'[q].of = req[q].of
      /\ req'[q].access = req[q].access /\ req'[q].refresh = req[q].refresh
  BY Goes
<1>2. Good(q)'
  BY <1>1 DEF connVars, Good, IssuedFor, Wired
<1> QED BY <1>1, <1>2, Errand

-----------------------------------------------------------------------------
(* Types: connecting and credentials                                       *)

\* The provider grants new tokens to an account (Connect).
LEMMA WiredConnect ==
  ASSUME Wired, NEW q \in Requests, NEW a \in Accounts, NEW t \in Tokens, Connect(q, a, t)
  PROVE  Wired' /\ Onward
<1>1. PICK bare \in BOOLEAN :
        /\ SpendAll(IfWorking \cup IF bare THEN {"bare"} ELSE {})
        /\ Granted(t, a, ~bare)
        /\ req' = [req EXCEPT ![q] =
             [Idle EXCEPT !.pc = "store", !.kind = "callback", !.of = a,
                !.access = t, !.refresh = IF bare THEN None ELSE t]]
  BY DEF Connect
<1>2. Paid
  BY <1>1, Spent
<1>3. /\ UNCHANGED <<provider, conn, later>> /\ UNCHANGED Rows
      /\ grant[t].of = None /\ req[q].pc = "idle"
  BY DEF Connect, Rows
<1>4. /\ req \in [Requests -> RequestStates] /\ grant \in [Tokens -> Grants]
      /\ a # None /\ t # None
  BY NoneAssumption DEF Wired, Columns
<1>5. /\ req' \in [Requests -> RequestStates] /\ \A p \in Requests \ {q} : req'[p] = req[p]
      /\ req'[q].pc = "store" /\ req'[q].kind = "callback" /\ req'[q].of = a
      /\ req'[q].access = t /\ req'[q].refresh \in {None, t}
  BY <1>1, <1>4 DEF RequestStates, Idle, Steps, Kinds
<1>6. /\ grant' \in [Tokens -> Grants] /\ grant'[t].of = a
      /\ \A u \in Tokens \ {t} : grant'[u] = grant[u]
  BY <1>1, <1>4 DEF Granted, Grants
<1>7. Columns' /\ Onward
  BY <1>2, <1>3, <1>5, <1>6 DEF Columns, Onward, Paid, Wired
<1>8. Ranking(Rows, later)'
  BY <1>3 DEF Wired, Ranking
<1>9. Owned'
  BY <1>3, <1>6, Holdings DEF Wired, Owned, IssuedFor
<1>10. Good(q)'
  BY <1>4, <1>5, <1>6 DEF Good, Stage, IssuedFor, Extracting
<1>11. \A p \in Requests : Good(p)'
  BY <1>5, <1>7, <1>10, Waits
<1> QED BY <1>7, <1>8, <1>9, <1>11 DEF Wired

\* A write of a row's columns: the row exists afterwards, and was in place.
LEMMA Writes ==
  ASSUME Wired, UNCHANGED <<provider, grant>>, Paid, NEW q \in Requests, NEW a \in Accounts,
         conn' \in [Accounts -> ConnectionRows],
         \A b \in Accounts \ {a} : conn'[b] = conn[b],
         conn'[a].status # "ABSENT", conn'[a].access \in Tokens,
         IssuedFor(conn'[a].access, a), IssuedFor(conn'[a].refresh, a),
         Touch(a),
         req' \in [Requests -> RequestStates],
         \A p \in Requests \ {q} : req'[p] = req[p],
         Good(q)'
  PROVE  Wired' /\ Onward
<1>1. Rows' = Rows \cup {a}
  BY DEF Rows
<1>2. Columns' /\ Onward
  BY <1>1 DEF Wired, Columns, Onward, Paid
<1>3. Ranking(Rows, later)'
  BY <1>1, Moved DEF Wired
<1>4. Owned'
  BY <1>1, NoneAssumption DEF Wired, Owned, IssuedFor
<1>5. \A p \in Requests : Good(p)'
  BY <1>2, Waits
<1> QED BY <1>2, <1>3, <1>4, <1>5 DEF Wired

\* The callback writes its row (Store).
LEMMA WiredStore ==
  ASSUME Wired, NEW q \in Requests, Store(q)
  PROVE  Wired' /\ Onward
<1> DEFINE a == req[q].of
<1>1. /\ req[q].pc = "store" /\ a \in Accounts /\ req[q].access \in Tokens
      /\ IssuedFor(req[q].access, a) /\ IssuedFor(req[q].refresh, a)
      /\ req[q].refresh \in Tokens \cup {None}
  BY Holdings DEF Store, Wired, Good, Stage, RequestStates
<1>2. Paid
  BY Spent DEF Store
<1>3. /\ UNCHANGED <<provider, grant>> /\ Touch(a) /\ End(q)
      /\ conn' = [conn EXCEPT ![a] = [status |-> "ACTIVE",
           access |-> req[q].access, refresh |-> req[q].refresh]]
  BY DEF Store
<1>4. conn \in [Accounts -> ConnectionRows] /\ req \in [Requests -> RequestStates]
  BY DEF Wired, Columns
<1>5. /\ conn' \in [Accounts -> ConnectionRows] /\ \A b \in Accounts \ {a} : conn'[b] = conn[b]
      /\ conn'[a] = [status |-> "ACTIVE", access |-> req[q].access, refresh |-> req[q].refresh]
  BY <1>1, <1>3, <1>4 DEF ConnectionRows
<1>6. Idle \in RequestStates
  BY DEF Idle, RequestStates, Steps, Kinds
<1>7. /\ req' \in [Requests -> RequestStates] /\ req'[q] = Idle
      /\ \A p \in Requests \ {q} : req'[p] = req[p]
  BY <1>3, <1>4, <1>6 DEF End
<1>8. Good(q)'
  BY <1>7 DEF Good, Stage, IssuedFor, Idle, Extracting
<1> HIDE DEF a
<1> QED BY <1>1, <1>2, <1>3, <1>5, <1>7, <1>8, Writes

\* The refreshed tokens are written (UpdateTokens).
LEMMA WiredUpdateTokens ==
  ASSUME Wired, NEW q \in Requests, UpdateTokens(q)
  PROVE  Wired' /\ Onward
<1> DEFINE a == req[q].of
<1>1. /\ req[q].pc = "update" /\ a \in Rows /\ req[q].access \in Tokens
      /\ req[q].kind \in Errands
      /\ IssuedFor(req[q].access, a) /\ IssuedFor(req[q].refresh, a)
      /\ req[q].refresh \in Tokens \cup {None}
  BY Holdings DEF UpdateTokens, Wired, Good, Stage, RequestStates
<1>2. Paid
  BY Free DEF UpdateTokens
<1>3. /\ UNCHANGED <<provider, grant>> /\ Touch(a) /\ Go(q, "call")
      /\ conn' = [conn EXCEPT ![a].access = req[q].access, ![a].refresh = req[q].refresh]
  BY DEF UpdateTokens
<1>4. conn \in [Accounts -> ConnectionRows] /\ a \in Accounts /\ conn[a].status # "ABSENT"
  BY <1>1 DEF Wired, Columns, Rows
<1>5. /\ conn' \in [Accounts -> ConnectionRows] /\ \A b \in Accounts \ {a} : conn'[b] = conn[b]
      /\ conn'[a].status = conn[a].status
      /\ conn'[a].access = req[q].access /\ conn'[a].refresh = req[q].refresh
  BY <1>1, <1>3, <1>4 DEF ConnectionRows
<1>6. /\ req' \in [Requests -> RequestStates] /\ \A p \in Requests \ {q} : req'[p] = req[p]
      /\ req'[q].pc = "call" /\ req'[q].kind = req[q].kind /\ req'[q].of = req[q].of
      /\ req'[q].access = req[q].access /\ req'[q].refresh = req[q].refresh
  BY <1>3, Goes DEF Steps
<1>7. a \in Rows'
  BY <1>4, <1>5 DEF Rows
<1>8. Good(q)'
  BY <1>1, <1>3, <1>6, <1>7 DEF Good, Stage, IssuedFor, Extracting
<1> HIDE DEF a
<1> QED BY <1>1, <1>2, <1>3, <1>4, <1>5, <1>6, <1>8, Writes

\* A request reads a connection and its tokens (Begin).
LEMMA WiredBegin ==
  ASSUME Wired, NEW q \in Requests, NEW kind \in Errands, NEW a \in Accounts, Begin(q, kind, a)
  PROVE  Wired' /\ Onward
<1>1. UNCHANGED connVars /\ Paid /\ Credentials(q, kind, a)
  BY Spent DEF Begin
<1>2. Active(a)
  <2>1. a # None
    BY NoneAssumption
  <2> QED BY <2>1, LatestIs DEF Begin, Wired
<1>3. /\ a \in Rows /\ conn[a].access \in Tokens /\ conn[a].refresh \in Tokens \cup {None}
      /\ IssuedFor(conn[a].access, a) /\ IssuedFor(conn[a].refresh, a)
  BY <1>2, Holdings DEF Active, Rows, Wired, Owned
<1>4. CASE grant[conn[a].access].due /\ conn[a].refresh = None
  BY <1>1, <1>4, Ends DEF Credentials, End
<1>5. CASE ~ (grant[conn[a].access].due /\ conn[a].refresh = None)
  <2> DEFINE pc == IF grant[conn[a].access].due THEN "refresh" ELSE "call"
  <2>1. req' = [req EXCEPT ![q] = [Idle EXCEPT !.pc = pc, !.kind = kind, !.of = a,
                                     !.access = conn[a].access, !.refresh = conn[a].refresh]]
    BY <1>1, <1>5 DEF Credentials
  <2>2. req \in [Requests -> RequestStates]
    BY DEF Wired, Columns
  <2>3. /\ req' \in [Requests -> RequestStates] /\ \A p \in Requests \ {q} : req'[p] = req[p]
        /\ req'[q].pc = pc /\ req'[q].kind = kind /\ req'[q].of = a
        /\ req'[q].access = conn[a].access /\ req'[q].refresh = conn[a].refresh
    BY <1>3, <2>1, <2>2 DEF RequestStates, Idle, Steps, Kinds, Errands
  <2>4. pc \in {"refresh", "call"} /\ (pc = "refresh" => conn[a].refresh \in Tokens)
    BY <1>3, <1>5
  <2>5. UNCHANGED <<Rows, grant>>
    BY <1>1 DEF connVars, Rows
  <2> HIDE DEF pc
  <2>6. Good(q)'
    BY <1>3, <2>3, <2>4, <2>5 DEF Good, Stage, IssuedFor, Extracting
  <2> QED BY <1>1, <2>3, <2>6, Errand
<1> QED BY <1>4, <1>5

\* A disconnect finds no connection (BeginEmpty).
LEMMA WiredBeginEmpty ==
  ASSUME Wired, NEW q \in Requests, BeginEmpty(q)
  PROVE  Wired' /\ Onward
<1>1. UNCHANGED connVars /\ Paid
  BY Spent DEF BeginEmpty
<1>2. req' = [req EXCEPT ![q] = [Idle EXCEPT !.pc = "close", !.kind = "disconnect"]]
  BY DEF BeginEmpty
<1>3. req \in [Requests -> RequestStates]
  BY DEF Wired, Columns
<1>4. /\ req' \in [Requests -> RequestStates] /\ \A p \in Requests \ {q} : req'[p] = req[p]
      /\ req'[q].pc = "close" /\ req'[q].kind = "disconnect" /\ req'[q].of = None
      /\ req'[q].access = None /\ req'[q].refresh = None
  BY <1>2, <1>3 DEF RequestStates, Idle, Steps, Kinds
<1>5. Good(q)'
  BY <1>4 DEF Good, Stage, IssuedFor, Extracting
<1> QED BY <1>1, <1>4, <1>5, Errand

-----------------------------------------------------------------------------
(* Types: refreshes, work at the provider, disturbances                    *)

\* The provider does something to tokens.
LEMMA Serves ==
  ASSUME Wired, UNCHANGED <<provider, conn, later>>, Paid,
         grant' \in [Tokens -> Grants],
         \A t \in Tokens : grant[t].of # None =>
           /\ grant'[t].of = grant[t].of
           /\ grant'[t].access => grant[t].access
           /\ grant'[t].refresh => grant[t].refresh,
         req' \in [Requests -> RequestStates],
         \A p \in Requests : req'[p] = req[p] \/ Good(p)'
  PROVE  Wired' /\ Onward
<1>1. UNCHANGED Rows
  BY DEF Rows
<1>2. Columns' /\ Onward
  BY <1>1 DEF Wired, Columns, Onward, Paid
<1>3. Ranking(Rows, later)'
  BY <1>1 DEF Wired, Ranking
<1>4. Owned'
  BY <1>1, Holdings DEF Wired, Owned, IssuedFor
<1>5. \A p \in Requests : Good(p)'
  BY <1>2, Waits
<1> QED BY <1>2, <1>3, <1>4, <1>5 DEF Wired

\* The provider answers a refresh (RefreshToken).
LEMMA WiredRefreshToken ==
  ASSUME Wired, NEW q \in Requests, NEW n \in Tokens, RefreshToken(q, n)
  PROVE  Wired' /\ Onward
<1> DEFINE old == req[q].refresh
<1>1. /\ req[q].pc = "refresh" /\ req[q].of \in Rows /\ req[q].kind \in Errands
      /\ old \in Tokens /\ IssuedFor(old, req[q].of) /\ req[q].of # None
  BY NoneAssumption DEF RefreshToken, Wired, Good, Stage, Rows
<1>2. grant[n].of = None /\ grant[old].of = req[q].of /\ n # old /\ req[q].of \in Accounts
      /\ grant[old].refresh
  BY <1>1, NoneAssumption DEF RefreshToken, IssuedFor, Rows
<1>3. /\ UNCHANGED <<provider, conn, later>> /\ Paid
      /\ grant' = [grant EXCEPT ![old].refresh = ~Rotates,
           ![n] = [of |-> req[q].of, access |-> TRUE, refresh |-> Rotates, due |-> FALSE]]
      /\ req' = [req EXCEPT ![q].pc = "update", ![q].access = n,
                            ![q].refresh = AnsweredRefresh(old, n)]
  BY Free DEF RefreshToken
<1>4. /\ grant \in [Tokens -> Grants] /\ req \in [Requests -> RequestStates]
      /\ Rotates \in BOOLEAN
  BY DEF Wired, Columns, Rotates
<1>5. /\ grant' \in [Tokens -> Grants]
      /\ \A t \in Tokens \ {n, old} : grant'[t] = grant[t]
      /\ grant'[old].of = req[q].of /\ grant'[old].access = grant[old].access
      /\ grant'[n].of = req[q].of
  <2> DEFINE was == [grant[old] EXCEPT !.refresh = ~Rotates]
             new == [of |-> req[q].of, access |-> TRUE, refresh |-> Rotates, due |-> FALSE]
  <2>1. was \in Grants /\ was.of = grant[old].of /\ was.access = grant[old].access
    BY <1>1, <1>4 DEF Grants
  <2>2. new \in Grants /\ new.of = req[q].of
    BY <1>2, <1>4 DEF Grants
  <2>3. grant' = [[grant EXCEPT ![old] = was] EXCEPT ![n] = new]
    BY <1>3
  <2> HIDE DEF was, new
  <2> QED BY <1>1, <1>2, <1>4, <2>1, <2>2, <2>3
<1>6. AnsweredRefresh(old, n) \in {old, n}
  BY DEF AnsweredRefresh
<1>7. /\ req' \in [Requests -> RequestStates] /\ \A p \in Requests \ {q} : req'[p] = req[p]
      /\ req'[q].pc = "update" /\ req'[q].kind = req[q].kind /\ req'[q].of = req[q].of
      /\ req'[q].access = n /\ req'[q].refresh \in {old, n}
  <2> DEFINE x == [req[q] EXCEPT !.pc = "update", !.access = n,
                                 !.refresh = AnsweredRefresh(old, n)]
  <2>1. /\ x \in RequestStates /\ x.pc = "update" /\ x.kind = req[q].kind /\ x.of = req[q].of
        /\ x.access = n /\ x.refresh \in {old, n}
    BY <1>1, <1>4, <1>6 DEF RequestStates, Steps
  <2>2. req' = [req EXCEPT ![q] = x]
    BY <1>3, <1>4
  <2> HIDE DEF x
  <2> QED BY <1>4, <2>1, <2>2
<1>8. Good(q)'
  BY <1>1, <1>3, <1>5, <1>7, NoneAssumption DEF Good, Stage, IssuedFor, Extracting, Rows
<1>9. \A t \in Tokens : grant[t].of # None =>
           /\ grant'[t].of = grant[t].of
           /\ grant'[t].access => grant[t].access
           /\ grant'[t].refresh => grant[t].refresh
  BY <1>2, <1>5
<1> QED BY <1>3, <1>5, <1>7, <1>8, <1>9, Serves

\* The provider refuses a refresh (RefreshRefused).
LEMMA WiredRefreshRefused ==
  ASSUME Wired, NEW q \in Requests, RefreshRefused(q)
  PROVE  Wired' /\ Onward
  BY Free, Ends DEF RefreshRefused

\* A listing is a set of numbers.
LEMMA ListingIsSet ==
  ASSUME NEW n
  PROVE  Listing(n) \subseteq Nat
<1>1. \A ends : Read(ends, n) \subseteq Nat
  BY DEF Read, Refused, OnPage
<1> QED BY <1>1 DEF Listing, GithubListing, BitbucketListing

\* The provider lists repositories (List).
LEMMA WiredList ==
  ASSUME Wired, NEW q \in Requests, NEW n \in Sizes, List(q, n)
  PROVE  Wired' /\ Onward
<1>1. UNCHANGED connVars /\ Paid /\ req[q].pc = "call" /\ req[q].kind = "list"
  BY Free DEF List
<1>2. CASE End(q)
  BY <1>1, <1>2, Ends
<1>3. CASE req' = [req EXCEPT ![q].pc = "validate", ![q].listed = Listing(n), ![q].total = n]
  <2>1. req \in [Requests -> RequestStates] /\ Good(q) /\ n \in Nat
    BY PagesAssumption DEF Wired, Columns
  <2> DEFINE x == [req[q] EXCEPT !.pc = "validate", !.listed = Listing(n), !.total = n]
  <2>2. /\ x \in RequestStates /\ x.pc = "validate" /\ x.kind = "list" /\ x.of = req[q].of
        /\ x.access = req[q].access /\ x.refresh = req[q].refresh
    BY <1>1, <2>1, ListingIsSet DEF RequestStates, Steps
  <2>3. req' = [req EXCEPT ![q] = x]
    BY <1>3, <2>1
  <2>4. /\ req' \in [Requests -> RequestStates] /\ \A p \in Requests \ {q} : req'[p] = req[p]
        /\ req'[q].pc = "validate" /\ req'[q].kind = "list" /\ req'[q].of = req[q].of
        /\ req'[q].access = req[q].access /\ req'[q].refresh = req[q].refresh
    <3> HIDE DEF x
    <3> QED BY <2>1, <2>2, <2>3
  <2>5. UNCHANGED <<Rows, grant>>
    BY <1>1 DEF connVars, Rows
  <2>6. Good(q)'
    BY <1>1, <2>1, <2>4, <2>5 DEF Good, Stage, IssuedFor, Extracting
  <2> QED BY <1>1, <2>4, <2>6, Errand
<1> QED BY <1>2, <1>3 DEF List

\* The row is written after a listing (MarkValidated).
LEMMA WiredMarkValidated ==
  ASSUME Wired, NEW q \in Requests, MarkValidated(q)
  PROVE  Wired' /\ Onward
<1> DEFINE a == req[q].of
<1>1. /\ req[q].pc = "validate" /\ a \in Rows /\ a \in Accounts
      /\ conn[a].status # "ABSENT"
  BY DEF MarkValidated, Wired, Good, Stage, Rows
<1>2. UNCHANGED <<provider, conn, grant>> /\ Touch(a) /\ End(q) /\ Paid
  BY Free DEF MarkValidated
<1>3. /\ conn \in [Accounts -> ConnectionRows] /\ req \in [Requests -> RequestStates]
      /\ conn[a].access \in Tokens
      /\ IssuedFor(conn[a].access, a) /\ IssuedFor(conn[a].refresh, a)
  BY <1>1, Holdings DEF Wired, Columns, Owned
<1>4. Idle \in RequestStates
  BY DEF Idle, RequestStates, Steps, Kinds
<1>5. /\ req' \in [Requests -> RequestStates] /\ req'[q] = Idle
      /\ \A p \in Requests \ {q} : req'[p] = req[p]
  BY <1>2, <1>3, <1>4 DEF End
<1>6. Good(q)'
  BY <1>5 DEF Good, Stage, IssuedFor, Idle, Extracting
<1> HIDE DEF a
<1> QED BY <1>1, <1>2, <1>3, <1>5, <1>6, Writes

\* The provider describes a repository (GetRepository).
LEMMA WiredGetRepository ==
  ASSUME Wired, NEW q \in Requests, NEW n \in Sizes, GetRepository(q, n)
  PROVE  Wired' /\ Onward
<1>1. UNCHANGED connVars /\ Paid /\ req[q].pc = "call" /\ req[q].kind = "import"
  BY Free DEF GetRepository
<1>2. CASE End(q)
  BY <1>1, <1>2, Ends
<1>3. CASE Go(q, "save")
  <2>1. "save" \in Steps
    BY DEF Steps
  <2>2. req'[q].pc = "save" /\ req'[q].kind = "import" /\ req'[q].of = req[q].of
    BY <1>1, <1>3, <2>1, Goes
  <2>3. UNCHANGED Rows
    BY <1>1 DEF connVars, Rows
  <2>4. Stage(q)'
    BY <1>1, <2>2, <2>3 DEF Wired, Good, Stage, Extracting
  <2> QED BY <1>1, <1>3, <2>1, <2>4, GoesOn
<1> QED BY <1>2, <1>3 DEF GetRepository

\* Credentials are handed to a clone (Clone).
LEMMA WiredClone ==
  ASSUME Wired, NEW q \in Requests, Clone(q)
  PROVE  Wired' /\ Onward
  BY Free, Ends DEF Clone

\* The provider revokes tokens (Revoke).
LEMMA WiredRevoke ==
  ASSUME Wired, NEW q \in Requests, Revoke(q)
  PROVE  Wired' /\ Onward
<1>1. PICK a \in BOOLEAN, r \in BOOLEAN :
        /\ SpendAll(IF a /\ r THEN {} ELSE {"failure"})
        /\ grant' = [t \in Tokens |-> [grant[t] EXCEPT
             !.access = @ /\ ~(a /\ t = Held(q).access),
             !.refresh = @ /\ ~(r /\ provider = "BITBUCKET" /\ t = Held(q).refresh)]]
  BY DEF Revoke
<1>2. /\ req[q].pc = "call" /\ req[q].kind = "disconnect" /\ Go(q, "close") /\ Paid
      /\ UNCHANGED <<provider, conn, later>> /\ "close" \in Steps
  BY <1>1, Spent DEF Revoke, Steps
<1>3. /\ grant' \in [Tokens -> Grants]
      /\ \A t \in Tokens : /\ grant'[t].of = grant[t].of
                           /\ grant'[t].access => grant[t].access
                           /\ grant'[t].refresh => grant[t].refresh
  BY <1>1 DEF Wired, Columns, Grants
<1>4. /\ req' \in [Requests -> RequestStates] /\ \A p \in Requests \ {q} : req'[p] = req[p]
      /\ req'[q].pc = "close" /\ req'[q].kind = "disconnect" /\ req'[q].of = req[q].of
      /\ req'[q].access = req[q].access /\ req'[q].refresh = req[q].refresh
  BY <1>2, Goes
<1>5. UNCHANGED Rows
  BY <1>2 DEF Rows
<1>6. Good(q)'
  BY <1>2, <1>3, <1>4, <1>5, Holdings DEF Wired, Good, Stage, IssuedFor, Extracting, RequestStates
<1> QED BY <1>2, <1>3, <1>4, <1>6, Serves

\* All connections to the provider are closed (Close).
LEMMA WiredClose ==
  ASSUME Wired, NEW q \in Requests, Close(q)
  PROVE  Wired' /\ Onward
<1>1. /\ UNCHANGED <<provider, later, grant>> /\ Paid /\ End(q)
      /\ conn' = [a \in Accounts |->
           IF Active(a) THEN [conn[a] EXCEPT !.status = "REVOKED"] ELSE conn[a]]
  BY Free DEF Close
<1>2. conn \in [Accounts -> ConnectionRows] /\ req \in [Requests -> RequestStates]
  BY DEF Wired, Columns
<1>3. /\ conn' \in [Accounts -> ConnectionRows]
      /\ \A a \in Accounts : /\ conn'[a].access = conn[a].access
                             /\ conn'[a].refresh = conn[a].refresh
                             /\ conn'[a].status = "ABSENT" <=> conn[a].status = "ABSENT"
  BY <1>1, <1>2 DEF Active, ConnectionRows
<1>4. UNCHANGED Rows
  BY <1>3 DEF Rows
<1>5. Idle \in RequestStates
  BY DEF Idle, RequestStates, Steps, Kinds
<1>6. /\ req' \in [Requests -> RequestStates] /\ req'[q] = Idle
      /\ \A p \in Requests \ {q} : req'[p] = req[p]
  BY <1>1, <1>2, <1>5 DEF End
<1>7. Good(q)'
  BY <1>6 DEF Good, Stage, IssuedFor, Idle, Extracting
<1>8. Columns' /\ Onward
  BY <1>1, <1>3, <1>4, <1>6 DEF Wired, Columns, Onward, Paid
<1>9. Ranking(Rows, later)'
  BY <1>1, <1>4 DEF Wired, Ranking
<1>10. Owned'
  BY <1>1, <1>3, <1>4 DEF Wired, Owned, IssuedFor
<1>11. \A p \in Requests : Good(p)'
  BY <1>6, <1>7, <1>8, Waits
<1> QED BY <1>8, <1>9, <1>10, <1>11 DEF Wired

\* A request is lost with its process (Lose).
LEMMA WiredLose ==
  ASSUME Wired, NEW q \in Requests, Lose(q)
  PROVE  Wired' /\ Onward
  BY Spent, Ends DEF Lose, Spend

\* An access token comes due (ComeDue).
LEMMA WiredComeDue ==
  ASSUME Wired, NEW t \in Tokens, ComeDue(t)
  PROVE  Wired' /\ Onward
<1>1. /\ UNCHANGED <<provider, conn, later, req>> /\ Paid
      /\ grant' = [grant EXCEPT ![t].due = TRUE]
  BY Spent DEF ComeDue, Spend
<1>2. grant \in [Tokens -> Grants] /\ req \in [Requests -> RequestStates]
  BY DEF Wired, Columns
<1>3. /\ grant' \in [Tokens -> Grants]
      /\ \A u \in Tokens : /\ grant'[u].of = grant[u].of
                           /\ grant'[u].access = grant[u].access
                           /\ grant'[u].refresh = grant[u].refresh
  BY <1>1, <1>2 DEF Grants
<1> QED BY <1>1, <1>2, <1>3, Serves

\* A user withdraws a grant at the provider (Withdraw).
LEMMA WiredWithdraw ==
  ASSUME Wired, NEW a \in Accounts, Withdraw(a)
  PROVE  Wired' /\ Onward
<1>1. /\ UNCHANGED <<provider, conn, later, req>> /\ Paid
      /\ grant' = [t \in Tokens |->
           IF grant[t].of = a THEN [grant[t] EXCEPT !.access = FALSE, !.refresh = FALSE]
           ELSE grant[t]]
  BY Spent DEF Withdraw, Spend
<1>2. grant \in [Tokens -> Grants] /\ req \in [Requests -> RequestStates]
  BY DEF Wired, Columns
<1>3. /\ grant' \in [Tokens -> Grants]
      /\ \A u \in Tokens : /\ grant'[u].of = grant[u].of
                           /\ grant'[u].access => grant[u].access
                           /\ grant'[u].refresh => grant[u].refresh
  BY <1>1, <1>2 DEF Grants
<1> QED BY <1>1, <1>2, <1>3, Serves

-----------------------------------------------------------------------------
(* Types: repositories and uploads                                         *)

\* A request that imports, or uploads, leaves the connections alone.
Aside(q) ==
  /\ UNCHANGED connVars /\ Paid
  /\ \A p \in Requests \ {q} : req'[p] = req[p]
  /\ req[q].pc \in {"idle", "save"} \cup Extracting
  /\ req'[q].pc \in {"idle"} \cup Extracting /\ req'[q].refresh = None
  /\ req[q].pc = "idle" /\ req'[q].pc # "idle" /\ Working # {} => used'["overlap"] > 0

\* A request that used no connection is over.
LEMMA EndsAside ==
  ASSUME Wired, UNCHANGED connVars, Paid, NEW q \in Requests, End(q),
         req[q].pc \in {"save"} \cup Extracting
  PROVE  Wired' /\ Onward /\ Aside(q) /\ req'[q] = Idle
<1>1. req'[q] = Idle /\ \A p \in Requests \ {q} : req'[p] = req[p]
  BY DEF End, Wired, Columns
<1>2. Wired' /\ Onward
  BY Ends
<1> QED BY <1>1, <1>2 DEF Aside, Idle

\* An upload goes on.
LEMMA GoesAside ==
  ASSUME Wired, UNCHANGED connVars, Paid, NEW q \in Requests, NEW pc \in Extracting, Go(q, pc),
         req[q].pc \in Extracting
  PROVE  Wired' /\ Onward /\ Aside(q) /\ req'[q].pc = pc /\ req'[q].kind = "upload"
<1>1. pc \in Steps
  BY DEF Extracting, Steps
<1>2. /\ \A p \in Requests \ {q} : req'[p] = req[p]
      /\ req'[q].pc = pc /\ req'[q].kind = req[q].kind /\ req'[q].of = req[q].of
      /\ req'[q].refresh = req[q].refresh
  BY <1>1, Goes
<1>3. req[q].kind = "upload" /\ req[q].of = None /\ req[q].refresh = None
  BY DEF Wired, Good, Stage, IssuedFor
<1>4. Stage(q)'
  BY <1>2, <1>3 DEF Stage, Extracting
<1>5. Wired' /\ Onward
  BY <1>1, <1>4, GoesOn
<1>6. req[q].pc # "idle" /\ req'[q].refresh = None
  BY <1>2, <1>3 DEF Extracting
<1> QED BY <1>2, <1>3, <1>5, <1>6 DEF Aside

\* An imported repository is written (Save).
LEMMA WiredSave ==
  ASSUME Wired, NEW q \in Requests, Save(q)
  PROVE  Wired' /\ Onward /\ Aside(q) /\ req'[q] = Idle
  BY Free, EndsAside DEF Save

\* An upload begins (BeginUpload).
LEMMA WiredBeginUpload ==
  ASSUME Wired, NEW q \in Requests, NEW archive \in Archives, BeginUpload(q, archive)
  PROVE  /\ Wired' /\ Onward /\ Aside(q)
         /\ req[q].pc = "idle" /\ req'[q].pc = "prepare" /\ req'[q].kind = "upload"
<1>1. /\ UNCHANGED connVars /\ Paid /\ req[q].pc = "idle"
      /\ req' = [req EXCEPT ![q] = [Idle EXCEPT !.pc = "prepare", !.kind = "upload"]]
  BY Spent DEF BeginUpload
<1>2. Working # {} => used'["overlap"] > 0
  <2>1. "overlap" \in Disturbances
    BY DEF Disturbances
  <2> QED BY <2>1, Spent DEF BeginUpload, IfWorking
<1>3. req \in [Requests -> RequestStates]
  BY DEF Wired, Columns
<1>4. /\ req' \in [Requests -> RequestStates] /\ \A p \in Requests \ {q} : req'[p] = req[p]
      /\ req'[q].pc = "prepare" /\ req'[q].kind = "upload" /\ req'[q].of = None
      /\ req'[q].access = None /\ req'[q].refresh = None
  BY <1>1, <1>3 DEF RequestStates, Idle, Steps, Kinds
<1>5. Good(q)'
  BY <1>4 DEF Good, Stage, IssuedFor, Extracting
<1>6. Wired' /\ Onward
  BY <1>1, <1>4, <1>5, Errand
<1> QED BY <1>1, <1>2, <1>4, <1>6 DEF Aside, Extracting

\* Its directory is made (Prepare).
LEMMA WiredPrepare ==
  ASSUME Wired, NEW q \in Requests, Prepare(q)
  PROVE  /\ Wired' /\ Onward /\ Aside(q)
         /\ \/ Drop(q) /\ UNCHANGED disk /\ req'[q] = Idle
            \/ /\ req'[q].pc = "entry" /\ req'[q].kind = "upload"
               /\ disk' = [there |-> TRUE, files |-> NoFiles] /\ UNCHANGED upload
<1>1. UNCHANGED connVars /\ Paid /\ req[q].pc \in Extracting /\ "entry" \in Extracting
  BY Free DEF Prepare, Extracting
<1>2. CASE Drop(q) /\ UNCHANGED disk
  BY <1>1, <1>2, EndsAside DEF Drop
<1>3. CASE Go(q, "entry") /\ disk' = [there |-> TRUE, files |-> NoFiles] /\ UNCHANGED upload
  BY <1>1, <1>3, GoesAside
<1> QED BY <1>2, <1>3 DEF Prepare

\* An entry is written (Entry).
LEMMA WiredEntry ==
  ASSUME Wired, NEW q \in Requests, Entry(q)
  PROVE  /\ Wired' /\ Onward /\ Aside(q)
         /\ \/ req'[q].pc = "tidy" /\ req'[q].kind = "upload" /\ UNCHANGED <<upload, disk>>
            \/ UNCHANGED req
<1>1. UNCHANGED connVars /\ Paid /\ req[q].pc \in Extracting /\ "tidy" \in Extracting
  BY Free DEF Entry, Extracting
<1>2. CASE Go(q, "tidy") /\ UNCHANGED <<upload, disk>>
  BY <1>1, <1>2, GoesAside
<1>3. CASE UNCHANGED req
  <2>1. req[q].refresh = None /\ Good(q)
    BY <1>1 DEF Wired, Good, Stage, IssuedFor
  <2>2. req' \in [Requests -> RequestStates] /\ UNCHANGED <<provider, conn, later, grant>>
    BY <1>1, <1>3 DEF Wired, Columns, connVars
  <2>3. Good(q)'
    BY <2>1, <2>2, <1>3 DEF Good, Stage, IssuedFor, Rows, Idle
  <2>4. Wired' /\ Onward
    BY <1>1, <1>3, <2>2, <2>3, Errand
  <2> QED BY <1>1, <1>3, <2>1, <2>4 DEF Aside, Extracting
<1> QED BY <1>2, <1>3 DEF Entry

\* There is no entry left (EndOfArchive).
LEMMA WiredEndOfArchive ==
  ASSUME Wired, NEW q \in Requests, EndOfArchive(q)
  PROVE  Wired' /\ Onward /\ Aside(q) /\ req'[q].pc = "row" /\ req'[q].kind = "upload"
  BY Free, GoesAside DEF EndOfArchive, Extracting

\* An upload fails (EntryFails, RowFails).
LEMMA WiredFails ==
  ASSUME Wired, NEW q \in Requests, RowFails(q) \/ EntryFails(q)
  PROVE  Wired' /\ Onward /\ Aside(q) /\ req'[q].pc = "tidy" /\ req'[q].kind = "upload"
  BY Spent, GoesAside DEF RowFails, EntryFails, Spend, Extracting

\* The row of an upload is created (CreateRow).
LEMMA WiredCreateRow ==
  ASSUME Wired, NEW q \in Requests, CreateRow(q)
  PROVE  Wired' /\ Onward /\ Aside(q) /\ req'[q] = Idle
  BY Free, EndsAside DEF CreateRow, Drop, Extracting

\* What a failed upload has stored is removed (Tidy).
LEMMA WiredTidy ==
  ASSUME Wired, NEW q \in Requests, Tidy(q)
  PROVE  Wired' /\ Onward /\ Aside(q) /\ req'[q] = Idle
  BY Free, Spent, EndsAside DEF Tidy, Drop, Spend, Extracting

-----------------------------------------------------------------------------
(* Types: every step                                                       *)

\* The actions that are about connections.
Connecting ==
  \E q \in Requests :
    \/ \E a \in Accounts, t \in Tokens : Connect(q, a, t)
    \/ \E a \in Accounts, kind \in Errands : Begin(q, kind, a)
    \/ \E n \in Tokens : RefreshToken(q, n)
    \/ \E n \in Sizes : List(q, n) \/ GetRepository(q, n)
    \/ BeginEmpty(q) \/ Store(q) \/ RefreshRefused(q) \/ UpdateTokens(q)
    \/ MarkValidated(q) \/ Clone(q) \/ Revoke(q) \/ Close(q) \/ Lose(q)

Outside == (\E t \in Tokens : ComeDue(t)) \/ (\E a \in Accounts : Withdraw(a))

\* The actions of Connections are of two kinds.
LEMMA Actions ==
  ConnNext => Connecting \/ Outside
  BY DEF ConnNext, Connecting, Outside, Errands

\* No request becomes an upload, or stays one and moves.
Elsewhere == \A p \in Requests : req'[p] = req[p] \/ req'[p].kind # "upload"

\* Whoever begins while others are working overlaps with them.
Orderly ==
  \/ Working' \subseteq Working
  \/ Working = {} /\ \E q \in Requests : Working' \subseteq {q}
  \/ used'["overlap"] > 0

\* A request begins.
LEMMA BeginsOrderly ==
  ASSUME Wired, NEW D, SpendAll(IfWorking \cup D), NEW q \in Requests,
         \A p \in Requests \ {q} : req'[p] = req[p]
  PROVE  Orderly
<1>1. CASE Working = {}
  BY <1>1 DEF Orderly, Working
<1>2. CASE Working # {}
  <2>1. "overlap" \in Disturbances
    BY DEF Disturbances
  <2> QED BY <1>2, <2>1, Spent DEF IfWorking, Orderly
<1> QED BY <1>1, <1>2

\* A request that works goes on.
LEMMA MovesOrderly ==
  ASSUME NEW q \in Requests, \A p \in Requests \ {q} : req'[p] = req[p], req[q].pc # "idle"
  PROVE  Orderly
  BY DEF Orderly, Working

\* A step of a request that uses a connection.
LEMMA ConnectingStep ==
  ASSUME Wired, Connecting
  PROVE  Wired' /\ Onward /\ Elsewhere /\ Orderly
<1>1. PICK q \in Requests :
        \/ \E a \in Accounts, t \in Tokens : Connect(q, a, t)
        \/ \E a \in Accounts, kind \in Errands : Begin(q, kind, a)
        \/ \E n \in Tokens : RefreshToken(q, n)
        \/ \E n \in Sizes : List(q, n) \/ GetRepository(q, n)
        \/ BeginEmpty(q) \/ Store(q) \/ RefreshRefused(q) \/ UpdateTokens(q)
        \/ MarkValidated(q) \/ Clone(q) \/ Revoke(q) \/ Close(q) \/ Lose(q)
  BY DEF Connecting
<1>2. req \in [Requests -> RequestStates] /\ Good(q)
  BY DEF Wired, Columns
<1>3. ASSUME \A p \in Requests \ {q} : req'[p] = req[p], req'[q].kind # "upload",
             req[q].pc # "idle"
      PROVE  Elsewhere /\ Orderly
  BY <1>3, MovesOrderly DEF Elsewhere
<1>4. ASSUME End(q), req[q].pc # "idle"
      PROVE  Elsewhere /\ Orderly
  <2>1. req'[q].kind # "upload" /\ \A p \in Requests \ {q} : req'[p] = req[p]
    BY <1>2, <1>4 DEF End, Idle
  <2> QED BY <2>1, <1>3, <1>4
<1>5. ASSUME NEW pc \in Steps, Go(q, pc), req[q].pc # "idle", req[q].kind # "upload"
      PROVE  Elsewhere /\ Orderly
  BY <1>3, <1>5, Goes
<1>6. CASE \E a \in Accounts, t \in Tokens : Connect(q, a, t)
  <2>1. PICK a \in Accounts, t \in Tokens : Connect(q, a, t)
    BY <1>6
  <2>2. PICK bare \in BOOLEAN :
          /\ SpendAll(IfWorking \cup IF bare THEN {"bare"} ELSE {})
          /\ req' = [req EXCEPT ![q] =
               [Idle EXCEPT !.pc = "store", !.kind = "callback", !.of = a,
                  !.access = t, !.refresh = IF bare THEN None ELSE t]]
    BY <2>1 DEF Connect
  <2>3. req'[q].kind = "callback" /\ \A p \in Requests \ {q} : req'[p] = req[p]
    BY <2>2, <1>2 DEF Idle
  <2> QED BY <2>1, <2>2, <2>3, WiredConnect, BeginsOrderly DEF Elsewhere
<1>7. CASE \E a \in Accounts, kind \in Errands : Begin(q, kind, a)
  <2>1. PICK a \in Accounts, kind \in Errands : Begin(q, kind, a)
    BY <1>7
  <2>2. SpendAll(IfWorking \cup {}) /\ Credentials(q, kind, a)
    <3>1. IfWorking \cup {} = IfWorking
      OBVIOUS
    <3> QED BY <2>1, <3>1 DEF Begin
  <2>3. req'[q].kind # "upload" /\ \A p \in Requests \ {q} : req'[p] = req[p]
    BY <2>2, <1>2 DEF Credentials, Idle, Errands
  <2> QED BY <2>1, <2>2, <2>3, WiredBegin, BeginsOrderly DEF Elsewhere
<1>8. CASE BeginEmpty(q)
  <2>1. SpendAll(IfWorking \cup {})
    <3>1. IfWorking \cup {} = IfWorking
      OBVIOUS
    <3> QED BY <1>8, <3>1 DEF BeginEmpty
  <2>2. req'[q].kind # "upload" /\ \A p \in Requests \ {q} : req'[p] = req[p]
    BY <1>8, <1>2 DEF BeginEmpty, Idle
  <2> QED BY <1>8, <2>1, <2>2, WiredBeginEmpty, BeginsOrderly DEF Elsewhere
<1>9. CASE \E n \in Tokens : RefreshToken(q, n)
  <2>1. PICK n \in Tokens : RefreshToken(q, n)
    BY <1>9
  <2>2. /\ req[q].pc = "refresh" /\ req[q].kind # "upload"
        /\ req'[q].kind = req[q].kind /\ \A p \in Requests \ {q} : req'[p] = req[p]
    BY <2>1, <1>2 DEF RefreshToken, Good, Stage, RequestStates, Errands
  <2> QED BY <2>1, <2>2, <1>3, WiredRefreshToken
<1>10. CASE \E n \in Sizes : List(q, n)
  <2>1. PICK n \in Sizes : List(q, n)
    BY <1>10
  <2>2. req[q].pc = "call" /\ req[q].kind = "list"
    BY <2>1 DEF List
  <2>3. req'[q].kind # "upload" /\ \A p \in Requests \ {q} : req'[p] = req[p]
    BY <2>1, <2>2, <1>2 DEF List, End, Idle, RequestStates
  <2> QED BY <2>1, <2>2, <2>3, <1>3, WiredList
<1>11. CASE \E n \in Sizes : GetRepository(q, n)
  <2>1. PICK n \in Sizes : GetRepository(q, n)
    BY <1>11
  <2>2. req[q].pc = "call" /\ req[q].kind = "import" /\ "save" \in Steps
    BY <2>1 DEF GetRepository, Steps
  <2>3. End(q) \/ Go(q, "save")
    BY <2>1 DEF GetRepository
  <2> QED BY <2>1, <2>2, <2>3, <1>4, <1>5, WiredGetRepository
<1>12. CASE Store(q)
  BY <1>4, <1>12, WiredStore DEF Store
<1>13. CASE RefreshRefused(q)
  BY <1>4, <1>13, WiredRefreshRefused DEF RefreshRefused
<1>14. CASE UpdateTokens(q)
  <2>1. req[q].kind # "upload" /\ "call" \in Steps
    BY <1>2, <1>14 DEF UpdateTokens, Good, Stage, Errands, Steps
  <2> QED BY <1>5, <1>14, <2>1, WiredUpdateTokens DEF UpdateTokens
<1>15. CASE MarkValidated(q)
  BY <1>4, <1>15, WiredMarkValidated DEF MarkValidated
<1>16. CASE Clone(q)
  BY <1>4, <1>16, WiredClone DEF Clone
<1>17. CASE Revoke(q)
  BY <1>5, <1>17, WiredRevoke DEF Revoke, Steps
<1>18. CASE Close(q)
  BY <1>4, <1>18, WiredClose DEF Close
<1>19. CASE Lose(q)
  BY <1>4, <1>19, WiredLose DEF Lose
<1> QED BY <1>1, <1>6, <1>7, <1>8, <1>9, <1>10, <1>11, <1>12, <1>13, <1>14, <1>15, <1>16,
           <1>17, <1>18, <1>19

\* A step of the provider or its user.
LEMMA OutsideStep ==
  ASSUME Wired, Outside
  PROVE  Wired' /\ Onward /\ Elsewhere /\ Orderly
<1>1. UNCHANGED req
  BY DEF Outside, ComeDue, Withdraw
<1>2. Elsewhere /\ Orderly
  BY <1>1 DEF Elsewhere, Orderly, Working
<1> QED BY <1>2, WiredComeDue, WiredWithdraw DEF Outside

\* The actions that are about uploads, and the end of an import.
Uploads(q) ==
  \/ \E archive \in Archives : BeginUpload(q, archive)
  \/ Prepare(q) \/ Entry(q) \/ EndOfArchive(q) \/ RowFails(q)
  \/ EntryFails(q) \/ CreateRow(q) \/ Tidy(q)

\* A step of an upload, or the end of an import.
LEMMA UploadsStep ==
  ASSUME Wired, NEW q \in Requests, Save(q) \/ Uploads(q)
  PROVE  Wired' /\ Onward /\ Orderly /\ Aside(q)
<1>1. Wired' /\ Onward /\ Aside(q)
  BY WiredSave, WiredBeginUpload, WiredPrepare, WiredEntry, WiredEndOfArchive, WiredFails,
     WiredCreateRow, WiredTidy DEF Uploads
<1>2. Orderly
  BY <1>1 DEF Aside, Orderly, Working
<1> QED BY <1>1, <1>2

\* The types of the other tables, where the steps about connections touch them.
LEMMA ShelvesBeside ==
  ASSUME Shelves, Onward, UNCHANGED <<repo, zipConn, disk, row>>,
         upload' = upload \/ upload' = NoUpload
  PROVE  Shelves'
  BY DEF Shelves, Onward, NoUpload

\* An entry of an archive.
LEMMA EntryIn ==
  ASSUME NEW S, NEW archive \in Seq(S), NEW n \in 1..Len(archive)
  PROVE  archive[n] \in S
  OBVIOUS

\* The types of the other tables, where uploads touch them.
LEMMA ShelvesUploads ==
  ASSUME Wired, Shelves, Extraction, Onward, NEW q \in Requests, Save(q) \/ Uploads(q)
  PROVE  Shelves'
<1>1. /\ NoUpload \in [archive : Archives \cup {<<>>}, next : Nat, bytes : Nat]
      /\ Gone \in [there : BOOLEAN, files : SUBSET Paths]
      /\ [there |-> TRUE, files |-> NoFiles] \in [there : BOOLEAN, files : SUBSET Paths]
  BY DEF NoUpload, Gone, NoFiles
<1>2. /\ repo # None => repo \in Rows'
      /\ zipConn \in BOOLEAN /\ (row # None => row \in Archives)
      /\ upload \in [archive : Archives \cup {<<>>}, next : Nat, bytes : Nat]
      /\ disk \in [there : BOOLEAN, files : SUBSET Paths]
  BY DEF Shelves, Onward
<1>3. CASE Save(q)
  <2>1. req[q].of \in Rows'
    BY <1>3 DEF Save, Wired, Good, Stage, Onward
  <2> QED BY <1>2, <1>3, <2>1 DEF Shelves, Save
<1>4. CASE \E archive \in Archives : BeginUpload(q, archive)
  BY <1>1, <1>2, <1>4 DEF Shelves, BeginUpload, NoUpload
<1>5. CASE Prepare(q)
  BY <1>1, <1>2, <1>5 DEF Shelves, Prepare, Drop
<1>6. CASE Entry(q)
  <2> DEFINE archive == upload.archive
             entry == archive[upload.next]
  <2>1. /\ Uploading /\ archive \in Archives /\ upload.next \in 1..Len(archive)
        /\ upload.next \in Nat /\ upload.bytes \in Nat
    BY <1>6, <1>2 DEF Entry, Extraction, Extracts, Wired, Good, Stage, Uploading, Extracting
  <2>2. archive \in Seq([path : Paths, size : Nat, safe : BOOLEAN])
    BY <2>1, ArchivesAssumption
  <2>3. entry \in [path : Paths, size : Nat, safe : BOOLEAN]
    BY <2>1, <2>2, EntryIn
  <2>4. CASE UNCHANGED <<upload, disk>>
    BY <1>2, <1>6, <2>4 DEF Shelves, Entry
  <2>5. CASE /\ disk' = [disk EXCEPT !.files = @ \cup {entry.path}]
             /\ upload' = [upload EXCEPT !.next = upload.next + 1, !.bytes = BytesWith(entry)]
    <3>1. BytesWith(entry) \in Nat /\ entry.path \in Paths
      BY <2>1, <2>3 DEF BytesWith
    <3>2. UNCHANGED <<repo, zipConn, row>>
      BY <1>6 DEF Entry
    <3> HIDE DEF entry
    <3>3. disk' \in [there : BOOLEAN, files : SUBSET Paths]
      BY <1>2, <2>5, <3>1
    <3>4. PICK n \in Nat, b \in Nat : n = upload.next + 1 /\ b = BytesWith(entry)
      BY <2>1, <3>1
    <3>5. upload' = [upload EXCEPT !.next = n, !.bytes = b]
      BY <2>5, <3>4
    <3>6. upload' \in [archive : Archives \cup {<<>>}, next : Nat, bytes : Nat]
      BY <1>2, <3>5
    <3> QED BY <1>2, <3>2, <3>3, <3>6 DEF Shelves
  <2> QED BY <1>6, <2>4, <2>5 DEF Entry
<1>7. CASE EndOfArchive(q) \/ RowFails(q) \/ EntryFails(q)
  BY <1>2, <1>7 DEF Shelves, EndOfArchive, RowFails, EntryFails, repoVars
<1>8. CASE CreateRow(q)
  <2>1. upload.archive \in Archives
    BY <1>8 DEF CreateRow, Extraction, Wired, Good, Stage, Uploading, Extracting
  <2> QED BY <1>1, <1>2, <1>8, <2>1 DEF Shelves, CreateRow, Drop
<1>9. CASE Tidy(q)
  BY <1>1, <1>2, <1>9 DEF Shelves, Tidy, Drop
<1> QED BY <1>3, <1>4, <1>5, <1>6, <1>7, <1>8, <1>9 DEF Uploads

-----------------------------------------------------------------------------
(* One request at a time                                                   *)

\* A disturbance that has not happened by now had not happened before.
LEMMA NeverStays ==
  ASSUME Wired, Onward, Wired', NEW D, D \subseteq Disturbances, Never(D)'
  PROVE  Never(D)
  BY DEF Wired, Columns, Onward, Never

\* A step of one request, when no two overlap: the others are idle.
LEMMA InTurnMove ==
  ASSUME Wired, Wired', InTurn, Onward, Orderly, NEW q \in Requests,
         \A p \in Requests \ {q} : req'[p] = req[p],
         req[q].pc # "idle" \/ req'[q].pc # "idle",
         Never({"overlap"}) =>
           /\ req'[q].pc \in {"refresh", "call"} => req'[q].access = conn'[req'[q].of].access
           /\ Never({"failure"})' /\ req'[q].pc = "close" /\ req'[q].of # None =>
                ~grant'[conn'[req'[q].of].access].access
  PROVE  InTurn'
<1> SUFFICES ASSUME Never({"overlap"})' PROVE InTurn'
  BY DEF InTurn
<1>1. Never({"overlap"})
  <2>1. {"overlap"} \subseteq Disturbances
    BY DEF Disturbances
  <2> QED BY <2>1, NeverStays
<1>2. \A p1, p2 \in Working : p1 = p2
  BY <1>1 DEF InTurn
<1>3. \A p1, p2 \in Working' : p1 = p2
  <2>1. ~ (used'["overlap"] > 0)
    BY DEF Never
  <2> QED BY <1>2, <2>1 DEF Orderly
<1>4. ASSUME NEW p \in Requests, p # q PROVE req'[p].pc = "idle"
  BY <1>2, <1>3, <1>4 DEF Working
<1>5. \A p \in Requests : req'[p].pc \in {"refresh", "call"} =>
        req'[p].access = conn'[req'[p].of].access
  BY <1>1, <1>4
<1>6. Never({"failure"})' => \A p \in Requests :
        req'[p].pc = "close" /\ req'[p].of # None => ~grant'[conn'[req'[p].of].access].access
  BY <1>1, <1>4
<1> QED BY <1>3, <1>5, <1>6 DEF InTurn

\* Nothing that a waiting request relies on is undone at the provider.
LEMMA InTurnQuiet ==
  ASSUME Wired, Wired', InTurn, Onward, UNCHANGED <<conn, req>>
  PROVE  InTurn'
<1> SUFFICES ASSUME Never({"overlap"})' PROVE InTurn'
  BY DEF InTurn
<1>1. Never({"overlap"}) /\ (Never({"failure"})' => Never({"failure"}))
  <2>1. {"overlap"} \subseteq Disturbances /\ {"failure"} \subseteq Disturbances
    BY DEF Disturbances
  <2> QED BY <2>1, NeverStays
<1>2. UNCHANGED Working
  BY DEF Working
<1>3. ASSUME NEW q \in Requests, req[q].pc = "close", req[q].of # None,
             ~grant[conn[req[q].of].access].access
      PROVE  ~grant'[conn[req[q].of].access].access
  <2>1. req[q].of \in Rows /\ req[q].of \in Accounts
    BY <1>3 DEF Wired, Good, Stage, Rows
  <2>2. /\ conn[req[q].of].access \in Tokens
        /\ grant[conn[req[q].of].access].of = req[q].of
    BY <2>1, Holdings, NoneAssumption DEF Wired, Owned, IssuedFor
  <2> QED BY <1>3, <2>2 DEF Onward
<1> QED BY <1>1, <1>2, <1>3 DEF InTurn

\* Requests stay in turn when an upload moves.
LEMMA InTurnUploads ==
  ASSUME Wired, InTurn, NEW q \in Requests, Save(q) \/ Uploads(q)
  PROVE  InTurn'
<1>1. Wired' /\ Onward /\ Orderly /\ Aside(q)
  BY UploadsStep
<1>2. CASE req[q].pc = "idle" /\ req'[q].pc = "idle"
  <2>1. req[q] = Idle /\ req'[q] = Idle
    BY <1>1, <1>2 DEF Wired, Good, Stage
  <2>2. \A p \in Requests : req'[p] = req[p]
    BY <1>1, <2>1 DEF Aside
  <2>3. UNCHANGED <<conn, req>>
    BY <1>1, <2>2 DEF Aside, connVars, Wired, Columns
  <2> QED BY <1>1, <2>3, InTurnQuiet
<1>3. CASE ~ (req[q].pc = "idle" /\ req'[q].pc = "idle")
  BY <1>1, <1>3, InTurnMove DEF Aside, Extracting
<1> QED BY <1>2, <1>3

\* Requests stay in turn when one that uses a connection moves.
LEMMA InTurnConnecting ==
  ASSUME Wired, InTurn, Connecting
  PROVE  InTurn'
<1>1. Wired' /\ Onward /\ Orderly
  BY ConnectingStep
<1>2. PICK q \in Requests :
        \/ \E a \in Accounts, t \in Tokens : Connect(q, a, t)
        \/ \E a \in Accounts, kind \in Errands : Begin(q, kind, a)
        \/ \E n \in Tokens : RefreshToken(q, n)
        \/ \E n \in Sizes : List(q, n) \/ GetRepository(q, n)
        \/ BeginEmpty(q) \/ Store(q) \/ RefreshRefused(q) \/ UpdateTokens(q)
        \/ MarkValidated(q) \/ Clone(q) \/ Revoke(q) \/ Close(q) \/ Lose(q)
  BY DEF Connecting
<1>3. req \in [Requests -> RequestStates] /\ conn \in [Accounts -> ConnectionRows] /\ Good(q)
  BY DEF Wired, Columns
<1>4. ASSUME \A p \in Requests \ {q} : req'[p] = req[p],
             req[q].pc # "idle" \/ req'[q].pc # "idle",
             req'[q].pc \notin {"refresh", "call", "close"}
      PROVE  InTurn'
  BY <1>1, <1>4, InTurnMove
<1>5. ASSUME End(q), req[q].pc # "idle" PROVE InTurn'
  <2>1. req'[q].pc = "idle" /\ \A p \in Requests \ {q} : req'[p] = req[p]
    BY <1>3, <1>5 DEF End, Idle
  <2> QED BY <2>1, <1>4, <1>5
<1>6. CASE \E a \in Accounts, t \in Tokens : Connect(q, a, t)
  <2>1. req'[q].pc = "store" /\ \A p \in Requests \ {q} : req'[p] = req[p]
    BY <1>3, <1>6 DEF Connect, Idle
  <2> QED BY <2>1, <1>4
<1>7. CASE \E a \in Accounts, kind \in Errands : Begin(q, kind, a)
  <2>1. PICK a \in Accounts, kind \in Errands : Begin(q, kind, a)
    BY <1>7
  <2>2. /\ Credentials(q, kind, a) /\ UNCHANGED conn /\ req[q] = Idle
    BY <2>1, <1>3 DEF Begin, connVars, Good, Stage
  <2>3. CASE req' = [req EXCEPT ![q] = Idle]
    <3>1. UNCHANGED <<conn, req>>
      BY <2>2, <2>3, <1>3
    <3> QED BY <3>1, <1>1, InTurnQuiet
  <2>4. CASE req' # [req EXCEPT ![q] = Idle]
    <3>1. /\ \A p \in Requests \ {q} : req'[p] = req[p]
          /\ req'[q].pc \in {"refresh", "call"}
          /\ req'[q].of = a /\ req'[q].access = conn[a].access
      BY <2>2, <2>4, <1>3 DEF Credentials, Idle
    <3> QED BY <3>1, <2>2, <1>1, InTurnMove
  <2> QED BY <2>3, <2>4
<1>8. CASE BeginEmpty(q)
  <2>1. /\ req'[q].pc = "close" /\ req'[q].of = None
        /\ \A p \in Requests \ {q} : req'[p] = req[p]
    BY <1>3, <1>8 DEF BeginEmpty, Idle
  <2> QED BY <2>1, <1>1, InTurnMove
<1>9. CASE \E n \in Tokens : RefreshToken(q, n)
  <2>1. req'[q].pc = "update" /\ \A p \in Requests \ {q} : req'[p] = req[p]
    BY <1>3, <1>9 DEF RefreshToken, RequestStates
  <2> QED BY <2>1, <1>4
<1>10. CASE \E n \in Sizes : List(q, n)
  <2>1. /\ req'[q].pc \in {"idle", "validate"} /\ req[q].pc = "call"
        /\ \A p \in Requests \ {q} : req'[p] = req[p]
    BY <1>3, <1>10 DEF List, RequestStates, End, Idle
  <2> QED BY <2>1, <1>4
<1>11. CASE \E n \in Sizes : GetRepository(q, n)
  <2>1. /\ req'[q].pc \in {"idle", "save"} /\ req[q].pc = "call"
        /\ \A p \in Requests \ {q} : req'[p] = req[p]
    BY <1>3, <1>11 DEF GetRepository, RequestStates, End, Idle, Go
  <2> QED BY <2>1, <1>4
<1>12. CASE Store(q) \/ RefreshRefused(q) \/ MarkValidated(q) \/ Clone(q) \/ Close(q) \/ Lose(q)
  BY <1>12, <1>5 DEF Store, RefreshRefused, MarkValidated, Clone, Close, Lose
<1>13. CASE UpdateTokens(q)
  <2> DEFINE a == req[q].of
  <2>1. /\ a \in Accounts /\ Go(q, "call")
        /\ conn' = [conn EXCEPT ![a].access = req[q].access, ![a].refresh = req[q].refresh]
    BY <1>3, <1>13 DEF UpdateTokens, Good, Stage, Rows
  <2>2. /\ req'[q].pc = "call" /\ req'[q].of = a /\ req'[q].access = req[q].access
        /\ \A p \in Requests \ {q} : req'[p] = req[p]
    BY <2>1, <1>3, Goes DEF Steps
  <2>3. conn'[a].access = req[q].access
    BY <2>1, <1>3 DEF ConnectionRows
  <2> QED BY <2>2, <2>3, <1>1, InTurnMove
<1>14. CASE Revoke(q)
  <2>1. PICK a \in BOOLEAN, r \in BOOLEAN :
          /\ SpendAll(IF a /\ r THEN {} ELSE {"failure"})
          /\ grant' = [t \in Tokens |-> [grant[t] EXCEPT
               !.access = @ /\ ~(a /\ t = Held(q).access),
               !.refresh = @ /\ ~(r /\ provider = "BITBUCKET" /\ t = Held(q).refresh)]]
    BY <1>14 DEF Revoke
  <2>2. /\ req[q].pc = "call" /\ Go(q, "close") /\ UNCHANGED conn
        /\ req[q].access \in Tokens
    BY <1>3, <1>14 DEF Revoke, Good, Stage
  <2>3. /\ req'[q].pc = "close" /\ req'[q].of = req[q].of
        /\ \A p \in Requests \ {q} : req'[p] = req[p]
    BY <2>2, Goes DEF Steps
  <2>4. Never({"failure"})' => a
    <3>1. "failure" \in Disturbances
      BY DEF Disturbances
    <3>2. ~a => SpendAll({"failure"})
      BY <2>1
    <3>3. ~a => used'["failure"] > 0
      BY <3>1, <3>2, Spent
    <3> QED BY <3>3 DEF Never
  <2>5. a => ~grant'[req[q].access].access
    BY <2>1, <2>2 DEF Held, Wired, Columns, Grants
  <2>6. Never({"overlap"}) => req[q].access = conn[req[q].of].access
    BY <2>2 DEF InTurn
  <2> QED BY <1>1, <2>2, <2>3, <2>4, <2>5, <2>6, InTurnMove
<1> QED BY <1>2, <1>6, <1>7, <1>8, <1>9, <1>10, <1>11, <1>12, <1>13, <1>14

-----------------------------------------------------------------------------
(* Refresh tokens                                                          *)

\* What is calm now was calm before.
LEMMA CalmBefore ==
  ASSUME Wired, Onward, Wired', Calm'
  PROVE  Calm
<1>1. {"lost", "bare", "withdrawn", "overtaken"} \subseteq Disturbances
  BY DEF Disturbances
<1> QED BY <1>1, NeverStays DEF Calm

\* A request brings nothing from the provider, and does not take anything
\* there either: it takes what a row has, or drops what it had.
LEMMA RefreshableQuiet ==
  ASSUME Wired, Wired', Refreshable, Onward, UNCHANGED <<conn, grant>>, NEW q \in Requests,
         \A p \in Requests \ {q} : req'[p] = req[p],
         req'[q].pc \notin {"store", "update"},
         req'[q].pc = "refresh" => req'[q].refresh = conn[req'[q].of].refresh,
         req'[q].refresh \in {None, req[q].refresh} \cup {conn[a].refresh : a \in Accounts},
         Calm' => req[q].pc \notin {"update", "close"}
  PROVE  Refreshable'
<1> SUFFICES ASSUME Calm' PROVE Refreshable'
  BY DEF Refreshable
<1>1. Calm
  BY CalmBefore
<1>2. UNCHANGED Rows /\ Rotates' = Rotates /\ \A a \in Accounts : Active(a)' = Active(a)
  BY DEF Rows, Rotates, Onward, Active
<1>3. ASSUME NEW p \in Requests, p # q, req[p].refresh \in Tokens, Private(p)
      PROVE  Private(p)'
  BY <1>3, Holdings DEF Private
<1>4. \A a \in Rows : conn[a].refresh \in Tokens
  BY <1>1 DEF Refreshable
<1>5. ASSUME NEW p \in Requests, req'[p].pc = "store"
      PROVE  req'[p].refresh \in Tokens /\ Private(p)'
  BY <1>1, <1>3, <1>5 DEF Refreshable
<1>6. CASE Rotates
  <2>1. Rotating
    BY <1>1, <1>6 DEF Refreshable
  <2>2. ASSUME NEW p \in Requests, req'[p].pc = "refresh"
        PROVE  req'[p].refresh = conn'[req'[p].of].refresh \/ ~grant'[req'[p].refresh].refresh
    BY <2>1, <2>2 DEF Rotating
  <2>3. ASSUME NEW p \in Requests, req'[p].pc = "update"
        PROVE  Private(p)' /\ ~grant'[conn'[req'[p].of].refresh].refresh
    <3>1. p # q /\ req[p].refresh \in Tokens
      BY <2>3 DEF Wired, Good, Stage
    <3> QED BY <2>1, <2>3, <3>1, <1>3 DEF Rotating
  <2>4. \A p1, p2 \in Requests : req'[p1].pc = "update" /\ req'[p2].pc = "update"
                                   /\ req'[p1].of = req'[p2].of => p1 = p2
    BY <2>1 DEF Rotating
  <2>5. ASSUME NEW a \in Rows', ~grant'[conn'[a].refresh].refresh
        PROVE  \E p \in Requests : req'[p].of = a /\ req'[p].pc = "update"
    BY <2>1, <2>5, <1>2 DEF Rotating
  <2>6. Rotating'
    BY <2>2, <2>3, <2>4, <2>5 DEF Rotating
  <2> QED BY <1>2, <1>4, <1>5, <1>6, <2>6 DEF Refreshable
<1>7. CASE ~Rotates
  <2>1. Keeping
    BY <1>1, <1>7 DEF Refreshable
  <2>2. Keeping'
    BY <2>1, <1>2 DEF Keeping
  <2> QED BY <1>2, <1>4, <1>5, <1>7, <2>2 DEF Refreshable
<1> QED BY <1>6, <1>7

\* What the provider does does not concern refresh tokens.
LEMMA RefreshableBeside ==
  ASSUME Wired, Wired', Refreshable, Onward, UNCHANGED <<conn, req>>,
         \A t \in Tokens : grant'[t].refresh = grant[t].refresh
  PROVE  Refreshable'
<1> SUFFICES ASSUME Calm' PROVE Refreshable'
  BY DEF Refreshable
<1>1. Calm
  BY CalmBefore
<1>2. UNCHANGED Rows /\ Rotates' = Rotates /\ \A a \in Accounts : Active(a)' = Active(a)
  BY DEF Rows, Rotates, Onward, Active
<1>3. \A a \in Rows : a \in Accounts /\ conn[a].refresh \in Tokens
  BY <1>1 DEF Refreshable, Rows
<1>4. \A q \in Requests : req[q].pc \in {"refresh", "update"} =>
        req[q].refresh \in Tokens /\ req[q].of \in Rows
  BY DEF Wired, Good, Stage
<1>5. \A q \in Requests : req[q].pc = "store" => req[q].refresh \in Tokens /\ Private(q)
  BY <1>1 DEF Refreshable
<1>6. \A q \in Requests : req[q].refresh \in Tokens /\ Private(q) => Private(q)'
  BY DEF Private
<1>7. CASE Rotates
  <2>1. Rotating
    BY <1>1, <1>7 DEF Refreshable
  <2>2. Rotating'
    BY <2>1, <1>2, <1>3, <1>4, <1>6 DEF Rotating
  <2> QED BY <1>2, <1>3, <1>5, <1>6, <1>7, <2>2 DEF Refreshable
<1>8. CASE ~Rotates
  <2>1. Keeping
    BY <1>1, <1>8 DEF Refreshable
  <2>2. \A a \in Accounts : Active(a) => a \in Rows
    BY DEF Active, Rows
  <2>3. Keeping'
    BY <2>1, <2>2, <1>2, <1>3 DEF Keeping
  <2> QED BY <1>2, <1>3, <1>5, <1>6, <1>8, <2>3 DEF Refreshable
<1> QED BY <1>7, <1>8

\* Nobody holds a token that was not issued.
LEMMA NobodyHolds ==
  ASSUME Wired, NEW t \in Tokens, grant[t].of = None
  PROVE  /\ \A a \in Accounts : conn[a].refresh # t
         /\ \A q \in Requests : req[q].refresh # t
  BY NoneAssumption DEF Wired, Owned, Good, IssuedFor

\* The tokens of a new grant are nobody's yet.
LEMMA RefreshableConnect ==
  ASSUME Wired, Wired', Refreshable, Onward,
         NEW q \in Requests, NEW a \in Accounts, NEW t \in Tokens, Connect(q, a, t)
  PROVE  Refreshable'
<1> SUFFICES ASSUME Calm' PROVE Refreshable'
  BY DEF Refreshable
<1>1. Calm
  BY CalmBefore
<1>2. PICK bare \in BOOLEAN :
        /\ SpendAll(IfWorking \cup IF bare THEN {"bare"} ELSE {})
        /\ Granted(t, a, ~bare)
        /\ req' = [req EXCEPT ![q] =
             [Idle EXCEPT !.pc = "store", !.kind = "callback", !.of = a,
                !.access = t, !.refresh = IF bare THEN None ELSE t]]
  BY DEF Connect
<1>3. ~bare
  <2>1. "bare" \in Disturbances
    BY DEF Disturbances
  <2>2. bare => used'["bare"] > 0
    BY <1>2, <2>1, Spent
  <2> QED BY <2>2 DEF Calm, Never
<1>4. /\ UNCHANGED conn /\ UNCHANGED Rows /\ Rotates' = Rotates /\ grant[t].of = None
      /\ \A b \in Accounts : Active(b)' = Active(b)
  BY DEF Connect, Rows, Onward, Rotates, Active
<1>5. /\ req'[q].pc = "store" /\ req'[q].refresh = t
      /\ \A p \in Requests \ {q} : req'[p] = req[p]
  BY <1>2, <1>3 DEF Wired, Columns, Idle
<1>6. grant'[t].refresh /\ \A u \in Tokens \ {t} : grant'[u] = grant[u]
  BY <1>2, <1>3 DEF Granted, Wired, Columns
<1>7. /\ \A b \in Accounts : conn[b].refresh # t
      /\ \A p \in Requests : req[p].refresh # t
  BY <1>4, NobodyHolds
<1>8. Private(q)'
  BY <1>4, <1>5, <1>6, <1>7 DEF Private
<1>9. ASSUME NEW p \in Requests, p # q, req[p].refresh \in Tokens, Private(p)
      PROVE  Private(p)'
  BY <1>4, <1>5, <1>6, <1>7, <1>9 DEF Private
<1>10. \A b \in Rows : b \in Accounts /\ conn[b].refresh \in Tokens
  BY <1>1 DEF Refreshable, Rows
<1>11. ASSUME NEW p \in Requests, req'[p].pc = "store"
       PROVE  req'[p].refresh \in Tokens /\ Private(p)'
  BY <1>1, <1>5, <1>8, <1>9, <1>11 DEF Refreshable
<1>12. \A b \in Rows : grant'[conn[b].refresh] = grant[conn[b].refresh]
  BY <1>6, <1>7, <1>10
<1>13. \A p \in Requests : req[p].pc \in {"refresh", "update"} =>
         req[p].refresh \in Tokens /\ req[p].of \in Rows
  BY DEF Wired, Good, Stage
<1>14. req[q].pc = "idle"
  BY DEF Connect
<1>15. CASE Rotates
  <2>1. Rotating
    BY <1>1, <1>15 DEF Refreshable
  <2>2. Rotating'
    BY <2>1, <1>4, <1>5, <1>6, <1>7, <1>9, <1>12, <1>13, <1>14 DEF Rotating
  <2> QED BY <1>4, <1>10, <1>11, <1>15, <2>2 DEF Refreshable
<1>16. CASE ~Rotates
  <2>1. Keeping
    BY <1>1, <1>16 DEF Refreshable
  <2>2. \A b \in Accounts : Active(b) => b \in Rows
    BY DEF Active, Rows
  <2>3. Keeping'
    BY <2>1, <2>2, <1>4, <1>5, <1>12, <1>14 DEF Keeping
  <2> QED BY <1>4, <1>10, <1>11, <1>16, <2>3 DEF Refreshable
<1> QED BY <1>15, <1>16

\* The row takes the tokens that its callback brings.
LEMMA RefreshableStore ==
  ASSUME Wired, Wired', Refreshable, Onward, NEW q \in Requests, Store(q)
  PROVE  Refreshable'
<1> SUFFICES ASSUME Calm' PROVE Refreshable'
  BY DEF Refreshable
<1>1. Calm
  BY CalmBefore
<1> DEFINE a == req[q].of
<1>2. /\ req[q].pc = "store" /\ a \in Accounts /\ UNCHANGED grant /\ End(q)
      /\ conn' = [conn EXCEPT ![a] = [status |-> "ACTIVE",
           access |-> req[q].access, refresh |-> req[q].refresh]]
      /\ SpendAll(IF Refreshing(a) THEN {"overtaken"} ELSE {})
  BY DEF Store, Wired, Good, Stage
<1>3. ~Refreshing(a)
  <2>1. "overtaken" \in Disturbances
    BY DEF Disturbances
  <2>2. Refreshing(a) => SpendAll({"overtaken"})
    BY <1>2
  <2>3. Refreshing(a) => used'["overtaken"] > 0
    BY <2>1, <2>2, Spent
  <2> QED BY <2>3 DEF Calm, Never
<1>4. req[q].refresh \in Tokens /\ Private(q)
  BY <1>1, <1>2 DEF Refreshable
<1>5. /\ conn'[a].refresh = req[q].refresh /\ conn'[a].status = "ACTIVE"
      /\ \A b \in Accounts \ {a} : conn'[b] = conn[b]
  BY <1>2 DEF Wired, Columns
<1>6. req'[q] = Idle /\ \A p \in Requests \ {q} : req'[p] = req[p]
  BY <1>2 DEF Wired, Columns, End
<1>7. Rows' = Rows \cup {a} /\ Rotates' = Rotates
  BY <1>2, <1>5 DEF Rows, Rotates, Onward
<1>8. ASSUME NEW p \in Requests, p # q, req[p].refresh \in Tokens, Private(p)
      PROVE  Private(p)'
  BY <1>2, <1>4, <1>5, <1>6, <1>8, NoneAssumption DEF Private, Idle
<1>9. \A b \in Rows' : b \in Accounts /\ conn'[b].refresh \in Tokens
  BY <1>1, <1>2, <1>4, <1>5, <1>7 DEF Refreshable, Rows
<1>10. ASSUME NEW p \in Requests, req'[p].pc = "store"
       PROVE  req'[p].refresh \in Tokens /\ Private(p)'
  BY <1>1, <1>6, <1>8, <1>10 DEF Refreshable, Idle
<1>11. \A p \in Requests : req'[p].pc \in {"refresh", "update"} =>
         /\ p # q /\ req[p] = req'[p] /\ req[p].of # a
         /\ req[p].refresh \in Tokens /\ req[p].of \in Accounts
  BY <1>3, <1>6 DEF Refreshing, Idle, Wired, Good, Stage, Rows
<1>12. grant[conn'[a].refresh].refresh
  BY <1>4, <1>5 DEF Private
<1> HIDE DEF a
<1>13. CASE Rotates
  <2>1. Rotating
    BY <1>1, <1>13 DEF Refreshable
  <2>2. ASSUME NEW p \in Requests, req'[p].pc = "refresh"
        PROVE  req'[p].refresh = conn'[req'[p].of].refresh \/ ~grant'[req'[p].refresh].refresh
    BY <2>1, <2>2, <1>2, <1>5, <1>11 DEF Rotating
  <2>3. ASSUME NEW p \in Requests, req'[p].pc = "update"
        PROVE  Private(p)' /\ ~grant'[conn'[req'[p].of].refresh].refresh
    BY <2>1, <2>3, <1>2, <1>5, <1>8, <1>11 DEF Rotating
  <2>4. \A p1, p2 \in Requests : req'[p1].pc = "update" /\ req'[p2].pc = "update"
                                   /\ req'[p1].of = req'[p2].of => p1 = p2
    BY <2>1, <1>11 DEF Rotating
  <2>5. ASSUME NEW b \in Rows', ~grant'[conn'[b].refresh].refresh
        PROVE  \E p \in Requests : req'[p].of = b /\ req'[p].pc = "update"
    <3>1. b # a /\ b \in Rows /\ ~grant[conn[b].refresh].refresh
      BY <2>5, <1>2, <1>5, <1>7, <1>9, <1>12
    <3>2. PICK p \in Requests : req[p].of = b /\ req[p].pc = "update"
      BY <2>1, <3>1 DEF Rotating
    <3>3. req'[p] = req[p]
      BY <3>2, <1>2, <1>6
    <3> QED BY <3>2, <3>3
  <2>6. Rotating'
    BY <2>2, <2>3, <2>4, <2>5 DEF Rotating
  <2> QED BY <1>7, <1>9, <1>10, <1>13, <2>6 DEF Refreshable
<1>14. CASE ~Rotates
  <2>1. Keeping
    BY <1>1, <1>14 DEF Refreshable
  <2>2. ASSUME NEW p \in Requests, req'[p].pc \in {"refresh", "update"}
        PROVE  req'[p].refresh = conn'[req'[p].of].refresh
    BY <2>1, <2>2, <1>5, <1>11 DEF Keeping
  <2>3. ASSUME NEW b \in Accounts, Active(b)', ~grant'[conn'[b].refresh].refresh
        PROVE  \E p \in Requests : req'[p].of = b /\ req'[p].pc = "close"
    <3>1. b # a
      BY <2>3, <1>2, <1>12
    <3>2. Active(b) /\ ~grant[conn[b].refresh].refresh
      BY <2>3, <3>1, <1>2, <1>5 DEF Active
    <3>3. PICK p \in Requests : req[p].of = b /\ req[p].pc = "close"
      BY <2>1, <3>2 DEF Keeping
    <3>4. req'[p] = req[p]
      BY <3>3, <1>2, <1>6
    <3> QED BY <3>3, <3>4
  <2>4. Keeping'
    BY <2>2, <2>3 DEF Keeping
  <2> QED BY <1>7, <1>9, <1>10, <1>14, <2>4 DEF Refreshable
<1> QED BY <1>13, <1>14

\* The row that waits for a refresh takes the tokens it brings.
LEMMA RefreshableUpdate ==
  ASSUME Wired, Wired', Refreshable, Onward, NEW q \in Requests, UpdateTokens(q)
  PROVE  Refreshable'
<1> SUFFICES ASSUME Calm' PROVE Refreshable'
  BY DEF Refreshable
<1>1. Calm
  BY CalmBefore
<1> DEFINE a == req[q].of
<1>2. /\ req[q].pc = "update" /\ a \in Accounts /\ UNCHANGED grant /\ Go(q, "call")
      /\ req[q].refresh \in Tokens
      /\ conn' = [conn EXCEPT ![a].access = req[q].access, ![a].refresh = req[q].refresh]
  BY DEF UpdateTokens, Wired, Good, Stage, Rows
<1>3. /\ conn'[a].refresh = req[q].refresh /\ conn'[a].status = conn[a].status
      /\ \A b \in Accounts \ {a} : conn'[b] = conn[b]
  BY <1>2 DEF Wired, Columns, ConnectionRows
<1>4. /\ req'[q].pc = "call" /\ req'[q].refresh = req[q].refresh
      /\ \A p \in Requests \ {q} : req'[p] = req[p]
  BY <1>2, Goes DEF Steps
<1>5. UNCHANGED Rows /\ Rotates' = Rotates /\ \A b \in Accounts : Active(b)' = Active(b)
  BY <1>3 DEF Rows, Rotates, Onward, Active
<1>6. ASSUME NEW p \in Requests, p # q, Private(p)
      PROVE  Private(p)'
  <2>1. /\ req'[p] = req[p] /\ UNCHANGED grant
        /\ \A b \in Accounts : conn'[b].refresh \in {conn[b].refresh, req[q].refresh}
        /\ \A r \in Requests : req'[r].refresh = req[r].refresh
    BY <1>2, <1>3, <1>4, <1>6
  <2> QED BY <2>1, <1>6 DEF Private
<1>7. \A b \in Rows' : b \in Accounts /\ conn'[b].refresh \in Tokens
  BY <1>1, <1>2, <1>3, <1>5 DEF Refreshable, Rows
<1>8. ASSUME NEW p \in Requests, req'[p].pc = "store"
      PROVE  req'[p].refresh \in Tokens /\ Private(p)'
  BY <1>1, <1>4, <1>6, <1>8 DEF Refreshable
<1>9. \A p \in Requests : req'[p].pc \in {"refresh", "update"} =>
        /\ p # q /\ req[p] = req'[p]
        /\ req[p].refresh \in Tokens /\ req[p].of \in Accounts
  BY <1>4 DEF Wired, Good, Stage, Rows
<1> HIDE DEF a
<1>10. CASE Rotates
  <2>1. Rotating
    BY <1>1, <1>10 DEF Refreshable
  <2>2. Private(q) /\ ~grant[conn[a].refresh].refresh
    BY <2>1, <1>2 DEF Rotating, a
  <2>3. ASSUME NEW p \in Requests, req'[p].pc = "refresh"
        PROVE  req'[p].refresh = conn'[req'[p].of].refresh \/ ~grant'[req'[p].refresh].refresh
    <3>1. /\ p # q /\ req'[p] = req[p] /\ req[p].of \in Accounts /\ UNCHANGED grant
      BY <2>3, <1>2, <1>9
    <3>2. req[p].refresh = conn[req[p].of].refresh \/ ~grant[req[p].refresh].refresh
      BY <2>1, <2>3, <3>1 DEF Rotating
    <3>3. CASE req[p].of = a
      BY <2>2, <3>1, <3>2, <3>3
    <3>4. CASE req[p].of # a
      BY <1>3, <3>1, <3>2, <3>4
    <3> QED BY <3>3, <3>4
  <2>4. ASSUME NEW p \in Requests, req'[p].pc = "update"
        PROVE  Private(p)' /\ ~grant'[conn'[req'[p].of].refresh].refresh
    <3>1. p # q /\ req[p].of # a
      BY <2>1, <2>4, <1>2, <1>9 DEF Rotating, a
    <3>2. /\ req'[p] = req[p] /\ req[p].of \in Accounts /\ UNCHANGED grant
      BY <2>4, <1>2, <1>9
    <3>3. Private(p) /\ ~grant[conn[req[p].of].refresh].refresh
      BY <2>1, <2>4, <3>2 DEF Rotating
    <3>4. Private(p)'
      BY <3>1, <3>3, <1>6
    <3> QED BY <3>1, <3>2, <3>3, <3>4, <1>3
  <2>5. \A p1, p2 \in Requests : req'[p1].pc = "update" /\ req'[p2].pc = "update"
                                   /\ req'[p1].of = req'[p2].of => p1 = p2
    BY <2>1, <1>9 DEF Rotating
  <2>6. ASSUME NEW b \in Rows', ~grant'[conn'[b].refresh].refresh
        PROVE  \E p \in Requests : req'[p].of = b /\ req'[p].pc = "update"
    <3>1. b # a
      BY <2>2, <2>6, <1>2, <1>3 DEF Private
    <3>2. PICK p \in Requests : req[p].of = b /\ req[p].pc = "update"
      BY <2>1, <2>6, <3>1, <1>2, <1>3, <1>5, <1>7 DEF Rotating
    <3>3. req'[p] = req[p]
      BY <3>1, <3>2, <1>4 DEF a
    <3> QED BY <3>2, <3>3
  <2>7. Rotating'
    BY <2>3, <2>4, <2>5, <2>6 DEF Rotating
  <2> QED BY <1>5, <1>7, <1>8, <1>10, <2>7 DEF Refreshable
<1>11. CASE ~Rotates
  <2>1. Keeping
    BY <1>1, <1>11 DEF Refreshable
  <2>2. \A b \in Accounts : conn'[b].refresh = conn[b].refresh
    BY <2>1, <1>2, <1>3 DEF Keeping, a
  <2>3. ASSUME NEW p \in Requests, req'[p].pc \in {"refresh", "update"}
        PROVE  req'[p].refresh = conn'[req'[p].of].refresh
    BY <2>1, <2>2, <2>3, <1>9 DEF Keeping
  <2>4. ASSUME NEW b \in Accounts, Active(b)', ~grant'[conn'[b].refresh].refresh
        PROVE  \E p \in Requests : req'[p].of = b /\ req'[p].pc = "close"
    <3>1. PICK p \in Requests : req[p].of = b /\ req[p].pc = "close"
      BY <2>1, <2>2, <2>4, <1>2, <1>5 DEF Keeping
    <3>2. req'[p] = req[p]
      BY <3>1, <1>2, <1>4
    <3> QED BY <3>1, <3>2
  <2>5. Keeping'
    BY <2>3, <2>4 DEF Keeping
  <2> QED BY <1>5, <1>7, <1>8, <1>11, <2>5 DEF Refreshable
<1> QED BY <1>10, <1>11

\* A refresh is answered: the row waits, or keeps what it has.
LEMMA RefreshableToken ==
  ASSUME Wired, Wired', Refreshable, Onward,
         NEW q \in Requests, NEW n \in Tokens, RefreshToken(q, n)
  PROVE  Refreshable'
<1> SUFFICES ASSUME Calm' PROVE Refreshable'
  BY DEF Refreshable
<1>1. Calm
  BY CalmBefore
<1> DEFINE a == req[q].of
           old == req[q].refresh
<1>2. /\ req[q].pc = "refresh" /\ a \in Accounts /\ a \in Rows /\ old \in Tokens
      /\ grant[n].of = None /\ grant[old].of = a /\ n # old /\ grant[old].refresh
  <2>1. /\ req[q].pc = "refresh" /\ a \in Rows /\ old \in Tokens /\ IssuedFor(old, a)
        /\ grant[n].of = None /\ grant[old].refresh
    BY DEF RefreshToken, Wired, Good, Stage
  <2>2. old # None /\ a \in Accounts /\ a # None
    BY <2>1, NoneAssumption DEF Rows
  <2> QED BY <2>1, <2>2 DEF IssuedFor
<1>3. /\ UNCHANGED <<provider, conn>>
      /\ grant' = [grant EXCEPT ![old].refresh = ~Rotates,
           ![n] = [of |-> a, access |-> TRUE, refresh |-> Rotates, due |-> FALSE]]
      /\ req' = [req EXCEPT ![q].pc = "update", ![q].access = n,
                            ![q].refresh = AnsweredRefresh(old, n)]
  BY DEF RefreshToken
<1>4. /\ UNCHANGED Rows /\ Rotates' = Rotates /\ Rotates \in BOOLEAN
      /\ \A b \in Accounts : Active(b)' = Active(b)
  BY <1>3 DEF Rows, Rotates, Onward, Active
<1>5. /\ grant'[old].refresh = ~Rotates /\ grant'[n].refresh = Rotates
      /\ \A t \in Tokens \ {old, n} : grant'[t] = grant[t]
  <2> DEFINE was == [grant[old] EXCEPT !.refresh = ~Rotates]
             new == [of |-> a, access |-> TRUE, refresh |-> Rotates, due |-> FALSE]
  <2>1. was.refresh = ~Rotates
    BY <1>2 DEF Wired, Columns, Grants
  <2>2. new.refresh = Rotates
    OBVIOUS
  <2>3. grant' = [[grant EXCEPT ![old] = was] EXCEPT ![n] = new]
    BY <1>3
  <2>4. grant \in [Tokens -> Grants]
    BY DEF Wired, Columns
  <2> HIDE DEF was, new
  <2> QED BY <1>2, <2>1, <2>2, <2>3, <2>4
<1>6. /\ req'[q].pc = "update" /\ req'[q].of = a
      /\ req'[q].refresh = IF Rotates THEN n ELSE old
      /\ \A p \in Requests \ {q} : req'[p] = req[p]
  <2> DEFINE x == [req[q] EXCEPT !.pc = "update", !.access = n,
                                 !.refresh = AnsweredRefresh(old, n)]
  <2>1. req \in [Requests -> RequestStates]
    BY DEF Wired, Columns
  <2>2. x.pc = "update" /\ x.of = a /\ x.refresh = AnsweredRefresh(old, n)
    BY <2>1 DEF RequestStates
  <2>3. req' = [req EXCEPT ![q] = x]
    BY <1>3, <2>1
  <2>4. AnsweredRefresh(old, n) = IF Rotates THEN n ELSE old
    BY DEF AnsweredRefresh
  <2> HIDE DEF x
  <2> QED BY <2>1, <2>2, <2>3, <2>4
<1>7. /\ \A b \in Accounts : conn[b].refresh # n
      /\ \A p \in Requests : req[p].refresh # n
  BY <1>2, NobodyHolds
<1>8. \A b \in Accounts : conn[b].refresh = old => b = a
  BY <1>2, NoneAssumption DEF Wired, Owned, IssuedFor
<1>9. ASSUME NEW p \in Requests, p # q, req[p].refresh \in Tokens, Private(p)
      PROVE  Private(p)'
  <2>1. req[p].refresh # old /\ req[p].refresh # n
    BY <1>7, <1>9 DEF Private
  <2>2. /\ grant'[req[p].refresh].refresh /\ UNCHANGED conn
        /\ \A r \in Requests \ {p} : req'[r].refresh # req[p].refresh
    BY <2>1, <1>3, <1>5, <1>6, <1>9 DEF Private
  <2> QED BY <2>2, <1>6, <1>9 DEF Private
<1>10. \A b \in Rows : b \in Accounts /\ conn[b].refresh \in Tokens
  BY <1>1 DEF Refreshable, Rows
<1>11. ASSUME NEW p \in Requests, req'[p].pc = "store"
       PROVE  req'[p].refresh \in Tokens /\ Private(p)'
  BY <1>1, <1>6, <1>9, <1>11 DEF Refreshable
<1>12. \A p \in Requests : req[p].pc \in {"refresh", "update"} =>
         req[p].refresh \in Tokens /\ req[p].of \in Rows
  BY DEF Wired, Good, Stage
<1> HIDE DEF a, old
<1>13. CASE Rotates
  <2>1. Rotating
    BY <1>1, <1>13 DEF Refreshable
  <2>2. conn[a].refresh = old
    BY <2>1, <1>2 DEF Rotating, a, old
  <2>3. \A t \in Tokens : t # n /\ ~grant[t].refresh => ~grant'[t].refresh
    BY <1>5, <1>13
  <2>4. ASSUME NEW p \in Requests, req'[p].pc = "refresh"
        PROVE  req'[p].refresh = conn'[req'[p].of].refresh \/ ~grant'[req'[p].refresh].refresh
    <3>1. p # q /\ req'[p] = req[p]
      BY <2>4, <1>6
    <3>2. req[p].refresh = conn[req[p].of].refresh \/ ~grant[req[p].refresh].refresh
      BY <2>1, <2>4, <3>1 DEF Rotating
    <3> QED BY <2>3, <2>4, <3>1, <3>2, <1>3, <1>7, <1>12
  <2>5. Private(q)' /\ ~grant'[conn'[a].refresh].refresh
    <3>1. grant'[n].refresh /\ req'[q].refresh = n /\ UNCHANGED conn
      BY <1>3, <1>5, <1>6, <1>13
    <3>2. \A p \in Requests \ {q} : req'[p].refresh # n
      BY <1>6, <1>7
    <3>3. Private(q)'
      BY <3>1, <3>2, <1>7 DEF Private
    <3> QED BY <2>2, <3>1, <3>3, <1>5, <1>13
  <2>6. ASSUME NEW p \in Requests, req[p].pc = "update"
        PROVE  req[p].of # a
    BY <2>1, <2>2, <2>6, <1>2 DEF Rotating
  <2>7. ASSUME NEW p \in Requests, req'[p].pc = "update", p # q
        PROVE  Private(p)' /\ ~grant'[conn'[req'[p].of].refresh].refresh
    <3>1. req'[p] = req[p] /\ req[p].pc = "update" /\ req[p].of \in Rows
      BY <2>7, <1>6, <1>12
    <3>2. Private(p) /\ ~grant[conn[req[p].of].refresh].refresh
      BY <2>1, <3>1 DEF Rotating
    <3>3. ~grant'[conn[req[p].of].refresh].refresh
      BY <2>3, <3>1, <3>2, <1>7, <1>10
    <3> QED BY <2>7, <3>1, <3>2, <3>3, <1>3, <1>9, <1>12
  <2>8. \A p1, p2 \in Requests : req'[p1].pc = "update" /\ req'[p2].pc = "update"
                                   /\ req'[p1].of = req'[p2].of => p1 = p2
    BY <2>1, <2>6, <1>6 DEF Rotating
  <2>9. ASSUME NEW b \in Rows', ~grant'[conn'[b].refresh].refresh
        PROVE  \E p \in Requests : req'[p].of = b /\ req'[p].pc = "update"
    <3>1. CASE b = a
      BY <3>1, <1>6
    <3>2. CASE b # a
      <4>1. ~grant[conn[b].refresh].refresh
        BY <2>9, <3>2, <1>3, <1>4, <1>5, <1>7, <1>8, <1>10
      <4>2. PICK p \in Requests : req[p].of = b /\ req[p].pc = "update"
        BY <2>1, <2>9, <4>1, <1>4 DEF Rotating
      <4>3. req'[p] = req[p]
        BY <4>2, <1>2, <1>6
      <4> QED BY <4>2, <4>3
    <3> QED BY <3>1, <3>2
  <2>10. Rotating'
    BY <2>4, <2>5, <2>7, <2>8, <2>9, <1>6 DEF Rotating
  <2> QED BY <1>3, <1>4, <1>10, <1>11, <1>13, <2>10 DEF Refreshable
<1>14. CASE ~Rotates
  <2>1. Keeping
    BY <1>1, <1>14 DEF Refreshable
  <2>2. \A t \in Tokens : t # n => grant'[t].refresh = grant[t].refresh
    BY <1>2, <1>5, <1>14
  <2>3. ASSUME NEW p \in Requests, req'[p].pc \in {"refresh", "update"}
        PROVE  req'[p].refresh = conn'[req'[p].of].refresh
    <3>1. CASE p = q
      <4>1. old = conn[a].refresh
        BY <2>1, <1>2 DEF Keeping, a, old
      <4> QED BY <3>1, <4>1, <1>3, <1>6, <1>14
    <3>2. CASE p # q
      <4>1. req'[p] = req[p] /\ UNCHANGED conn
        BY <3>2, <1>3, <1>6
      <4> QED BY <2>1, <2>3, <4>1 DEF Keeping
    <3> QED BY <3>1, <3>2
  <2>4. ASSUME NEW b \in Accounts, Active(b)', ~grant'[conn'[b].refresh].refresh
        PROVE  \E p \in Requests : req'[p].of = b /\ req'[p].pc = "close"
    <3>1. Active(b) /\ b \in Rows
      BY <2>4, <1>4 DEF Active, Rows
    <3>2. ~grant[conn[b].refresh].refresh
      BY <2>2, <2>4, <3>1, <1>3, <1>7, <1>10
    <3>3. PICK p \in Requests : req[p].of = b /\ req[p].pc = "close"
      BY <2>1, <3>1, <3>2 DEF Keeping
    <3>4. req'[p] = req[p]
      BY <3>3, <1>2, <1>6
    <3> QED BY <3>3, <3>4
  <2>5. Keeping'
    BY <2>3, <2>4 DEF Keeping
  <2> QED BY <1>3, <1>4, <1>10, <1>11, <1>14, <2>5 DEF Refreshable
<1> QED BY <1>13, <1>14

\* What is revoked is the token of a row that will be closed.
LEMMA RefreshableRevoke ==
  ASSUME Wired, Wired', Refreshable, Onward, NEW q \in Requests, Revoke(q)
  PROVE  Refreshable'
<1> SUFFICES ASSUME Calm' PROVE Refreshable'
  BY DEF Refreshable
<1>1. Calm
  BY CalmBefore
<1>2. PICK g \in BOOLEAN, r \in BOOLEAN :
        grant' = [t \in Tokens |-> [grant[t] EXCEPT
          !.access = @ /\ ~(g /\ t = Held(q).access),
          !.refresh = @ /\ ~(r /\ provider = "BITBUCKET" /\ t = Held(q).refresh)]]
  BY DEF Revoke
<1>3. /\ req[q].pc = "call" /\ Go(q, "close") /\ UNCHANGED conn
  BY DEF Revoke
<1>4. /\ req'[q].pc = "close" /\ req'[q].of = req[q].of /\ req'[q].refresh = req[q].refresh
      /\ \A p \in Requests \ {q} : req'[p] = req[p]
  BY <1>3, Goes DEF Steps
<1>5. /\ UNCHANGED Rows /\ Rotates' = Rotates
      /\ \A b \in Accounts : Active(b)' = Active(b)
  BY <1>3 DEF Rows, Rotates, Onward, Active
<1>6. \A t \in Tokens :
        grant'[t].refresh <=> grant[t].refresh /\ ~ (r /\ provider = "BITBUCKET" /\ t = req[q].refresh)
  <2>1. Held(q).refresh = req[q].refresh
    BY DEF Held
  <2>2. grant \in [Tokens -> Grants]
    BY DEF Wired, Columns
  <2>3. ASSUME NEW t \in Tokens
        PROVE  grant'[t].refresh =
                 (grant[t].refresh /\ ~ (r /\ provider = "BITBUCKET" /\ t = req[q].refresh))
    BY <1>2, <2>1, <2>2 DEF Grants
  <2>4. \A t \in Tokens : grant[t].refresh \in BOOLEAN
    BY <2>2 DEF Grants
  <2> QED BY <2>3, <2>4
<1>7. ASSUME NEW p \in Requests, p # q, req[p].refresh \in Tokens, Private(p)
      PROVE  Private(p)'
  <2>1. grant'[req[p].refresh].refresh
    BY <1>6, <1>7 DEF Private
  <2>2. \A s \in Requests : req'[s].refresh = req[s].refresh
    BY <1>4
  <2> QED BY <2>1, <2>2, <1>3, <1>7 DEF Private
<1>8. \A b \in Rows : b \in Accounts /\ conn[b].refresh \in Tokens
  BY <1>1 DEF Refreshable, Rows
<1>9. ASSUME NEW p \in Requests, req'[p].pc = "store"
      PROVE  req'[p].refresh \in Tokens /\ Private(p)'
  BY <1>1, <1>4, <1>7, <1>9 DEF Refreshable
<1>10. \A p \in Requests : req[p].pc \in {"refresh", "update"} =>
         req[p].refresh \in Tokens /\ req[p].of \in Rows
  BY DEF Wired, Good, Stage
<1>11. \A p \in Requests : req'[p].pc \in {"refresh", "update"} => p # q /\ req'[p] = req[p]
  BY <1>4
<1>12. CASE Rotates
  <2>1. Rotating
    BY <1>1, <1>12 DEF Refreshable
  <2>2. \A t \in Tokens : grant'[t].refresh <=> grant[t].refresh
    BY <1>6, <1>12 DEF Rotates
  <2>3. ASSUME NEW p \in Requests, req'[p].pc = "refresh"
        PROVE  req'[p].refresh = conn'[req'[p].of].refresh \/ ~grant'[req'[p].refresh].refresh
    BY <2>1, <2>2, <2>3, <1>3, <1>10, <1>11 DEF Rotating
  <2>4. ASSUME NEW p \in Requests, req'[p].pc = "update"
        PROVE  Private(p)' /\ ~grant'[conn'[req'[p].of].refresh].refresh
    BY <2>1, <2>2, <2>4, <1>3, <1>7, <1>8, <1>10, <1>11 DEF Rotating
  <2>5. \A p1, p2 \in Requests : req'[p1].pc = "update" /\ req'[p2].pc = "update"
                                   /\ req'[p1].of = req'[p2].of => p1 = p2
    BY <2>1, <1>11 DEF Rotating
  <2>6. ASSUME NEW b \in Rows', ~grant'[conn'[b].refresh].refresh
        PROVE  \E p \in Requests : req'[p].of = b /\ req'[p].pc = "update"
    <3>1. PICK p \in Requests : req[p].of = b /\ req[p].pc = "update"
      BY <2>1, <2>2, <2>6, <1>3, <1>5, <1>8 DEF Rotating
    <3>2. req'[p] = req[p]
      BY <3>1, <1>3, <1>4
    <3> QED BY <3>1, <3>2
  <2>7. Rotating'
    BY <2>3, <2>4, <2>5, <2>6 DEF Rotating
  <2> QED BY <1>3, <1>5, <1>8, <1>9, <1>12, <2>7 DEF Refreshable
<1>13. CASE ~Rotates
  <2>1. Keeping
    BY <1>1, <1>13 DEF Refreshable
  <2>2. ASSUME NEW p \in Requests, req'[p].pc \in {"refresh", "update"}
        PROVE  req'[p].refresh = conn'[req'[p].of].refresh
    BY <2>1, <2>2, <1>3, <1>11 DEF Keeping
  <2>3. ASSUME NEW b \in Accounts, Active(b)', ~grant'[conn'[b].refresh].refresh
        PROVE  \E p \in Requests : req'[p].of = b /\ req'[p].pc = "close"
    <3>1. Active(b) /\ conn[b].refresh \in Tokens
      BY <2>3, <1>5, <1>8 DEF Active, Rows
    <3>2. CASE grant[conn[b].refresh].refresh
      <4>1. conn[b].refresh = req[q].refresh
        BY <2>3, <3>1, <3>2, <1>3, <1>6
      <4>2. b = req[q].of
        BY <3>1, <4>1, NoneAssumption DEF Wired, Owned, Good, IssuedFor
      <4> QED BY <4>2, <1>4
    <3>3. CASE ~grant[conn[b].refresh].refresh
      <4>1. PICK p \in Requests : req[p].of = b /\ req[p].pc = "close"
        BY <2>1, <3>1, <3>3 DEF Keeping
      <4>2. req'[p] = req[p]
        BY <4>1, <1>3, <1>4
      <4> QED BY <4>1, <4>2
    <3> QED BY <3>2, <3>3
  <2>4. Keeping'
    BY <2>2, <2>3 DEF Keeping
  <2> QED BY <1>3, <1>5, <1>8, <1>9, <1>13, <2>4 DEF Refreshable
<1> QED BY <1>12, <1>13

\* A row that is closed need not be refreshable.
LEMMA RefreshableClose ==
  ASSUME Wired, Wired', Refreshable, Onward, NEW q \in Requests, Close(q)
  PROVE  Refreshable'
<1> SUFFICES ASSUME Calm' PROVE Refreshable'
  BY DEF Refreshable
<1>1. Calm
  BY CalmBefore
<1>2. /\ req[q].pc = "close" /\ End(q) /\ UNCHANGED grant
      /\ conn' = [b \in Accounts |->
           IF Active(b) THEN [conn[b] EXCEPT !.status = "REVOKED"] ELSE conn[b]]
  BY DEF Close
<1>3. /\ \A b \in Accounts : conn'[b].refresh = conn[b].refresh /\ ~Active(b)'
      /\ \A b \in Accounts : conn'[b].status = "ABSENT" <=> conn[b].status = "ABSENT"
  BY <1>2 DEF Wired, Columns, ConnectionRows, Active
<1>4. req'[q] = Idle /\ \A p \in Requests \ {q} : req'[p] = req[p]
  BY <1>2 DEF Wired, Columns, End
<1>5. UNCHANGED Rows /\ Rotates' = Rotates
  BY <1>3 DEF Rows, Rotates, Onward
<1>6. ASSUME NEW p \in Requests, p # q, req[p].refresh \in Tokens, Private(p)
      PROVE  Private(p)'
  BY <1>2, <1>3, <1>4, <1>6, NoneAssumption DEF Private, Idle
<1>7. \A b \in Rows : b \in Accounts /\ conn'[b].refresh \in Tokens
  BY <1>1, <1>3 DEF Refreshable, Rows
<1>8. ASSUME NEW p \in Requests, req'[p].pc = "store"
      PROVE  req'[p].refresh \in Tokens /\ Private(p)'
  BY <1>1, <1>4, <1>6, <1>8 DEF Refreshable, Idle
<1>9. \A p \in Requests : req'[p].pc \in {"refresh", "update"} =>
         /\ p # q /\ req'[p] = req[p] /\ req[p].refresh \in Tokens /\ req[p].of \in Accounts
  BY <1>4 DEF Wired, Good, Stage, Rows, Idle
<1>10. CASE Rotates
  <2>1. Rotating
    BY <1>1, <1>10 DEF Refreshable
  <2>2. ASSUME NEW p \in Requests, req'[p].pc = "refresh"
        PROVE  req'[p].refresh = conn'[req'[p].of].refresh \/ ~grant'[req'[p].refresh].refresh
    BY <2>1, <2>2, <1>2, <1>3, <1>9 DEF Rotating
  <2>3. ASSUME NEW p \in Requests, req'[p].pc = "update"
        PROVE  Private(p)' /\ ~grant'[conn'[req'[p].of].refresh].refresh
    BY <2>1, <2>3, <1>2, <1>3, <1>6, <1>9 DEF Rotating
  <2>4. \A p1, p2 \in Requests : req'[p1].pc = "update" /\ req'[p2].pc = "update"
                                   /\ req'[p1].of = req'[p2].of => p1 = p2
    BY <2>1, <1>9 DEF Rotating
  <2>5. ASSUME NEW b \in Rows', ~grant'[conn'[b].refresh].refresh
        PROVE  \E p \in Requests : req'[p].of = b /\ req'[p].pc = "update"
    <3>1. PICK p \in Requests : req[p].of = b /\ req[p].pc = "update"
      BY <2>1, <2>5, <1>2, <1>3, <1>5, <1>7 DEF Rotating
    <3>2. req'[p] = req[p]
      BY <3>1, <1>2, <1>4
    <3> QED BY <3>1, <3>2
  <2>6. Rotating'
    BY <2>2, <2>3, <2>4, <2>5 DEF Rotating
  <2> QED BY <1>5, <1>7, <1>8, <1>10, <2>6 DEF Refreshable
<1>11. CASE ~Rotates
  <2>1. Keeping
    BY <1>1, <1>11 DEF Refreshable
  <2>2. Keeping'
    BY <2>1, <1>3, <1>9 DEF Keeping
  <2> QED BY <1>5, <1>7, <1>8, <1>11, <2>2 DEF Refreshable
<1> QED BY <1>10, <1>11

\* Uploads hold no tokens.
LEMMA RefreshableUploads ==
  ASSUME Wired, Refreshable, NEW q \in Requests, Save(q) \/ Uploads(q)
  PROVE  Refreshable'
<1>1. Wired' /\ Onward /\ Aside(q)
  BY UploadsStep
<1>2. UNCHANGED <<conn, grant>>
  BY <1>1 DEF Aside, connVars
<1> QED BY <1>1, <1>2, RefreshableQuiet DEF Aside, Extracting

\* Due tokens can be refreshed; a withdrawal is not calm.
LEMMA RefreshableOutside ==
  ASSUME Wired, Refreshable, Outside
  PROVE  Refreshable'
<1>1. Wired' /\ Onward
  BY OutsideStep
<1>2. CASE \E t \in Tokens : ComeDue(t)
  <2>1. PICK t \in Tokens : ComeDue(t)
    BY <1>2
  <2>2. \A u \in Tokens : grant'[u].refresh = grant[u].refresh
    BY <2>1 DEF ComeDue, Wired, Columns, Grants
  <2>3. UNCHANGED <<conn, req>>
    BY <2>1 DEF ComeDue
  <2> QED BY <1>1, <2>2, <2>3, RefreshableBeside
<1>3. CASE \E a \in Accounts : Withdraw(a)
  <2>1. "withdrawn" \in Disturbances
    BY DEF Disturbances
  <2>2. used'["withdrawn"] > 0
    BY <1>3, <2>1, Spent DEF Withdraw, Spend
  <2> QED BY <2>2 DEF Refreshable, Calm, Never
<1> QED BY <1>2, <1>3 DEF Outside

\* All steps of requests that use a connection.
LEMMA RefreshableConnecting ==
  ASSUME Wired, Refreshable, Connecting
  PROVE  Refreshable'
<1>1. Wired' /\ Onward
  BY ConnectingStep
<1>2. PICK q \in Requests :
        \/ \E a \in Accounts, t \in Tokens : Connect(q, a, t)
        \/ \E a \in Accounts, kind \in Errands : Begin(q, kind, a)
        \/ \E n \in Tokens : RefreshToken(q, n)
        \/ \E n \in Sizes : List(q, n) \/ GetRepository(q, n)
        \/ BeginEmpty(q) \/ Store(q) \/ RefreshRefused(q) \/ UpdateTokens(q)
        \/ MarkValidated(q) \/ Clone(q) \/ Revoke(q) \/ Close(q) \/ Lose(q)
  BY DEF Connecting
<1>3. req \in [Requests -> RequestStates] /\ Good(q)
  BY DEF Wired, Columns
<1>4. ASSUME End(q), UNCHANGED <<conn, grant>>, Calm' => req[q].pc \notin {"update", "close"}
      PROVE  Refreshable'
  <2>1. req'[q] = Idle /\ \A p \in Requests \ {q} : req'[p] = req[p]
    BY <1>3, <1>4 DEF End
  <2> QED BY <1>1, <1>4, <2>1, RefreshableQuiet DEF Idle
<1>5. CASE \E a \in Accounts, t \in Tokens : Connect(q, a, t)
  BY <1>1, <1>5, RefreshableConnect
<1>6. CASE \E a \in Accounts, kind \in Errands : Begin(q, kind, a)
  <2>1. PICK a \in Accounts, kind \in Errands : Begin(q, kind, a)
    BY <1>6
  <2>2. /\ Credentials(q, kind, a) /\ UNCHANGED <<conn, grant>> /\ req[q].pc = "idle"
    BY <2>1 DEF Begin, connVars
  <2>3. CASE req' = [req EXCEPT ![q] = Idle]
    BY <2>2, <2>3, <1>4 DEF End
  <2>4. CASE req' # [req EXCEPT ![q] = Idle]
    <3>1. /\ \A p \in Requests \ {q} : req'[p] = req[p]
          /\ req'[q].pc \in {"refresh", "call"}
          /\ req'[q].of = a /\ req'[q].refresh = conn[a].refresh
      BY <2>2, <2>4, <1>3 DEF Credentials, Idle
    <3> QED BY <3>1, <2>2, <1>1, RefreshableQuiet
  <2> QED BY <2>3, <2>4
<1>7. CASE BeginEmpty(q)
  <2>1. /\ req'[q].pc = "close" /\ req'[q].refresh = None /\ req[q].pc = "idle"
        /\ \A p \in Requests \ {q} : req'[p] = req[p]
        /\ UNCHANGED <<conn, grant>>
    BY <1>3, <1>7 DEF BeginEmpty, Idle, connVars
  <2> QED BY <2>1, <1>1, RefreshableQuiet
<1>8. CASE \E n \in Tokens : RefreshToken(q, n)
  BY <1>1, <1>8, RefreshableToken
<1>9. CASE \E n \in Sizes : List(q, n)
  <2>1. PICK n \in Sizes : List(q, n)
    BY <1>9
  <2>2. UNCHANGED <<conn, grant>> /\ req[q].pc = "call"
    BY <2>1 DEF List, connVars
  <2>3. CASE End(q)
    BY <2>2, <2>3, <1>4
  <2>4. CASE req' = [req EXCEPT ![q].pc = "validate", ![q].listed = Listing(n), ![q].total = n]
    <3>1. /\ \A p \in Requests \ {q} : req'[p] = req[p]
          /\ req'[q].pc = "validate" /\ req'[q].refresh = req[q].refresh
      BY <2>4, <1>3 DEF RequestStates
    <3> QED BY <2>2, <3>1, <1>1, RefreshableQuiet
  <2> QED BY <2>1, <2>3, <2>4 DEF List
<1>10. CASE \E n \in Sizes : GetRepository(q, n)
  <2>1. UNCHANGED <<conn, grant>> /\ req[q].pc = "call" /\ "save" \in Steps
    BY <1>10 DEF GetRepository, connVars, Steps
  <2>2. End(q) \/ Go(q, "save")
    BY <1>10 DEF GetRepository
  <2>3. CASE Go(q, "save")
    BY <2>1, <2>3, <1>1, Goes, RefreshableQuiet
  <2> QED BY <2>1, <2>2, <2>3, <1>4
<1>11. CASE Store(q)
  BY <1>1, <1>11, RefreshableStore
<1>12. CASE RefreshRefused(q) \/ MarkValidated(q) \/ Clone(q)
  BY <1>12, <1>4 DEF RefreshRefused, MarkValidated, Clone, connVars
<1>13. CASE UpdateTokens(q)
  BY <1>1, <1>13, RefreshableUpdate
<1>14. CASE Revoke(q)
  BY <1>1, <1>14, RefreshableRevoke
<1>15. CASE Close(q)
  BY <1>1, <1>15, RefreshableClose
<1>16. CASE Lose(q)
  <2>1. "lost" \in Disturbances
    BY DEF Disturbances
  <2>2. used'["lost"] > 0
    BY <1>16, <2>1, Spent DEF Lose, Spend
  <2> QED BY <2>2 DEF Refreshable, Calm, Never
<1> QED BY <1>2, <1>5, <1>6, <1>7, <1>8, <1>9, <1>10, <1>11, <1>12, <1>13, <1>14, <1>15, <1>16

-----------------------------------------------------------------------------
(* Listings                                                                *)

\* A set of numbers that is not empty has a least member.
LEMMA Least ==
  ASSUME NEW T, T \subseteq Nat, T # {}
  PROVE  \E m \in T : \A n \in T : m <= n
<1> DEFINE R == OpToRel(<, Nat)
<1>1. IsWellFoundedOn(R, Nat)
  BY NatLessThanWellFounded, Zenon
<1>2. \E x \in T : \A y \in T : ~ (<<y, x>> \in R)
  <2> HIDE DEF R
  <2> QED BY <1>1, WFMin
<1>3. \A x, y \in Nat : y < x => <<y, x>> \in R
  BY DEF OpToRel
<1> HIDE DEF R
<1>4. PICK m \in T : \A y \in T : ~ (<<y, m>> \in R)
  BY <1>2
<1>5. ASSUME NEW n \in T PROVE m <= n
  <2>1. m \in Nat /\ n \in Nat /\ ~ (n < m)
    BY <1>3, <1>4
  <2> QED BY <2>1
<1> QED BY <1>5

\* The pages up to one that ends where the listing ends, or after, are all of it.
LEMMA PagesAreAll ==
  ASSUME NEW n \in Nat, NEW m \in Nat \ {0}, n <= m * PageSize
  PROVE  UNION {OnPage(p, n) : p \in 1..m} = 1..n
<1>1. PageSize \in Nat \ {0}
  BY PagesAssumption
<1>2. ASSUME NEW i \in 1..n PROVE \E p \in 1..m : i \in OnPage(p, n)
  <2> DEFINE T == {p \in Nat : i <= p * PageSize}
  <2>1. i \in Nat /\ i <= n /\ m * PageSize \in Nat /\ i > 0
    BY <1>1
  <2>2. m \in T
    BY <2>1, <1>1
  <2>3. PICK p \in T : \A k \in T : p <= k
    <3> HIDE DEF T
    <3>1. T \subseteq Nat
      BY DEF T
    <3> QED BY <2>2, <3>1, Least
  <2>4. p \in Nat /\ i <= p * PageSize /\ p <= m
    BY <2>2, <2>3
  <2>5. p # 0
    <3>1. 0 * PageSize = 0
      BY <1>1
    <3> QED BY <2>1, <2>4, <3>1
  <2>6. p - 1 \in Nat /\ p - 1 \notin T
    <3>1. p - 1 \in Nat /\ ~ (p <= p - 1)
      BY <2>4, <2>5
    <3> QED BY <3>1, <2>3
  <2>7. ~ (i <= (p - 1) * PageSize)
    BY <2>6
  <2>8. (p - 1) * PageSize \in Nat
    BY <2>6, <1>1
  <2>9. (p - 1) * PageSize < i
    BY <2>1, <2>7, <2>8
  <2>10. i \in OnPage(p, n) /\ p \in 1..m
    BY <2>4, <2>5, <2>9 DEF OnPage
  <2> QED BY <2>10
<1>3. \A p \in 1..m : OnPage(p, n) \subseteq 1..n
  BY DEF OnPage
<1> QED BY <1>2, <1>3

\* What is read up to a last page is all there is, if last pages end the listing.
LEMMA ReadIsAll ==
  ASSUME NEW n \in Nat, NEW ends \in SUBSET (1..MaxPages),
         \A p \in ends : n <= p * PageSize
  PROVE  Read(ends, n) \in {1..n, Refused}
<1>1. CASE ends = {}
  BY <1>1 DEF Read
<1>2. CASE ends # {}
  <2>1. ends \subseteq Nat
    BY PagesAssumption
  <2>2. \E m \in ends : \A k \in ends : m <= k
    BY <1>2, <2>1, Least
  <2>3. Min(ends) \in ends
    BY <2>2 DEF Min
  <2>4. PICK m \in ends : m = Min(ends)
    BY <2>3
  <2>5. m \in Nat \ {0} /\ n <= m * PageSize
    BY <2>4, PagesAssumption
  <2>6. Read(ends, n) = UNION {OnPage(p, n) : p \in 1..m}
    BY <1>2, <2>4 DEF Read
  <2> QED BY <2>5, <2>6, PagesAreAll
<1> QED BY <1>1, <1>2

\* A page that is not full is the last one.
LEMMA ShortPageEnds ==
  ASSUME NEW n \in Nat, NEW p \in 1..MaxPages, Cardinality(OnPage(p, n)) < PageSize
  PROVE  n <= p * PageSize
<1>1. PageSize \in Nat \ {0} /\ p \in Nat /\ p - 1 \in Nat
  BY PagesAssumption
<1>2. SUFFICES ASSUME ~ (n <= p * PageSize) PROVE FALSE
  OBVIOUS
<1>3. PICK low \in Nat : low = (p - 1) * PageSize
  BY <1>1
<1>4. p * PageSize = low + PageSize
  BY <1>1, <1>3
<1>5. OnPage(p, n) = (low + 1)..(low + PageSize)
  BY <1>1, <1>2, <1>3, <1>4 DEF OnPage
<1>6. Cardinality((low + 1)..(low + PageSize)) = PageSize
  <2>1. low + 1 \in Int /\ low + PageSize \in Int /\ low + 1 <= low + PageSize
    BY <1>1
  <2>2. (low + PageSize) - (low + 1) + 1 = PageSize
    BY <1>1
  <2> QED BY <2>1, <2>2, FS_Interval
<1> QED BY <1>1, <1>5, <1>6

\* Either listing is all there is, or an error.
LEMMA ListingIsAll ==
  ASSUME NEW n \in Nat
  PROVE  Listing(n) \in {1..n, Refused}
<1>1. GithubListing(n) \in {1..n, Refused}
  BY ReadIsAll, ShortPageEnds DEF GithubListing
<1>2. BitbucketListing(n) \in {1..n, Refused}
  <2>1. \A p \in 1..MaxPages : p * PageSize >= n => n <= p * PageSize
    BY PagesAssumption
  <2> QED BY <2>1, ReadIsAll DEF BitbucketListing
<1> QED BY <1>1, <1>2 DEF Listing

\* A listing stays what it was until its request is over.
LEMMA ListingConnecting ==
  ASSUME Wired, ListingIsWhole, Connecting
  PROVE  ListingIsWhole'
<1> SUFFICES ASSUME NEW p \in Requests, req'[p].pc = "validate", req'[p] # req[p]
             PROVE  req'[p].listed = 1..req'[p].total
  BY DEF ListingIsWhole
<1>1. PICK q \in Requests :
        \/ \E a \in Accounts, t \in Tokens : Connect(q, a, t)
        \/ \E a \in Accounts, kind \in Errands : Begin(q, kind, a)
        \/ \E n \in Tokens : RefreshToken(q, n)
        \/ \E n \in Sizes : List(q, n) \/ GetRepository(q, n)
        \/ BeginEmpty(q) \/ Store(q) \/ RefreshRefused(q) \/ UpdateTokens(q)
        \/ MarkValidated(q) \/ Clone(q) \/ Revoke(q) \/ Close(q) \/ Lose(q)
  BY DEF Connecting
<1>2. req \in [Requests -> RequestStates]
  BY DEF Wired, Columns
<1>3. End(q) => FALSE
  BY <1>2 DEF End, Idle
<1>4. ASSUME NEW pc \in Steps, Go(q, pc), pc # "validate" PROVE FALSE
  BY <1>2, <1>4, Goes
<1>5. CASE \E a \in Accounts, t \in Tokens : Connect(q, a, t)
  BY <1>2, <1>5 DEF Connect, Idle
<1>6. CASE \E a \in Accounts, kind \in Errands : Begin(q, kind, a)
  BY <1>2, <1>6 DEF Begin, Credentials, Idle
<1>7. CASE \E n \in Tokens : RefreshToken(q, n)
  BY <1>2, <1>7 DEF RefreshToken, RequestStates
<1>8. CASE \E n \in Sizes : List(q, n)
  <2>1. PICK n \in Sizes : List(q, n)
    BY <1>8
  <2>2. /\ req' = [req EXCEPT ![q].pc = "validate", ![q].listed = Listing(n), ![q].total = n]
        /\ Listing(n) # Refused
    BY <2>1, <1>3 DEF List
  <2>3. Listing(n) = 1..n
    BY <2>2, ListingIsAll, PagesAssumption
  <2>4. p = q /\ req'[q].listed = Listing(n) /\ req'[q].total = n
    BY <2>2, <1>2 DEF RequestStates
  <2> QED BY <2>3, <2>4
<1>9. CASE \E n \in Sizes : GetRepository(q, n)
  BY <1>3, <1>4, <1>9 DEF GetRepository, Steps
<1>10. CASE BeginEmpty(q)
  BY <1>2, <1>10 DEF BeginEmpty, Idle
<1>11. CASE \/ Store(q) \/ RefreshRefused(q) \/ MarkValidated(q)
            \/ Clone(q) \/ Close(q) \/ Lose(q)
  BY <1>3, <1>11 DEF Store, RefreshRefused, MarkValidated, Clone, Close, Lose
<1>12. CASE UpdateTokens(q) \/ Revoke(q)
  BY <1>4, <1>12 DEF UpdateTokens, Revoke, Steps
<1> QED BY <1>1, <1>5, <1>6, <1>7, <1>8, <1>9, <1>10, <1>11, <1>12

-----------------------------------------------------------------------------
(* Callbacks                                                               *)

\* Only Store makes a row active.
LEMMA Activations ==
  ASSUME Wired, Connecting, NEW a \in Accounts, ~Active(a), Active(a)'
  PROVE  \E q \in Requests : req[q].kind = "callback" /\ req[q].of = a
<1>1. PICK q \in Requests :
        \/ \E b \in Accounts, t \in Tokens : Connect(q, b, t)
        \/ \E b \in Accounts, kind \in Errands : Begin(q, kind, b)
        \/ \E n \in Tokens : RefreshToken(q, n)
        \/ \E n \in Sizes : List(q, n) \/ GetRepository(q, n)
        \/ BeginEmpty(q) \/ Store(q) \/ RefreshRefused(q) \/ UpdateTokens(q)
        \/ MarkValidated(q) \/ Clone(q) \/ Revoke(q) \/ Close(q) \/ Lose(q)
  BY DEF Connecting
<1>2. conn \in [Accounts -> ConnectionRows] /\ Good(q)
  BY DEF Wired, Columns
<1>3. ~ UNCHANGED conn
  BY DEF Active
<1>4. CASE Store(q)
  BY <1>2, <1>4 DEF Store, Active, Good, Stage
<1>5. CASE UpdateTokens(q)
  BY <1>2, <1>5 DEF UpdateTokens, Active, ConnectionRows
<1>6. CASE Close(q)
  BY <1>2, <1>6 DEF Close, Active, ConnectionRows
<1> QED BY <1>1, <1>3, <1>4, <1>5, <1>6
     DEF Connect, Begin, RefreshToken, List, GetRepository, BeginEmpty, RefreshRefused,
         MarkValidated, Clone, Revoke, Lose, connVars

-----------------------------------------------------------------------------
(* Uploads                                                                 *)

\* A request about a connection leaves an upload alone, unless it is lost.
LEMMA UploadsKept ==
  ASSUME Wired, Connecting, NEW p \in Requests, req[p].kind = "upload"
  PROVE  req'[p] = req[p] \/ used'["lost"] > 0
<1>1. PICK q \in Requests :
        \/ \E a \in Accounts, t \in Tokens : Connect(q, a, t)
        \/ \E a \in Accounts, kind \in Errands : Begin(q, kind, a)
        \/ \E n \in Tokens : RefreshToken(q, n)
        \/ \E n \in Sizes : List(q, n) \/ GetRepository(q, n)
        \/ BeginEmpty(q) \/ Store(q) \/ RefreshRefused(q) \/ UpdateTokens(q)
        \/ MarkValidated(q) \/ Clone(q) \/ Revoke(q) \/ Close(q) \/ Lose(q)
  BY DEF Connecting
<1>2. req \in [Requests -> RequestStates] /\ Good(q)
  BY DEF Wired, Columns
<1>3. CASE Lose(q)
  <2>1. "lost" \in Disturbances
    BY DEF Disturbances
  <2> QED BY <1>3, <2>1, Spent DEF Lose, Spend
<1>4. CASE ~Lose(q)
  <2>1. req[q].pc \in {"idle", "store", "refresh", "update", "call", "validate", "close"}
    BY <1>1, <1>4 DEF Connect, Begin, RefreshToken, List, GetRepository, BeginEmpty, Store,
       RefreshRefused, UpdateTokens, MarkValidated, Clone, Revoke, Close
  <2>2. req[q].kind # "upload"
    BY <2>1, <1>2 DEF Good, Stage, Idle, Errands
  <2>3. \A r \in Requests \ {q} : req'[r] = req[r]
    BY <1>1, <1>2 DEF Connect, Begin, Credentials, RefreshToken, List, GetRepository, BeginEmpty,
       Store, RefreshRefused, UpdateTokens, MarkValidated, Clone, Revoke, Close, Lose, Go, End
  <2> QED BY <2>2, <2>3
<1> QED BY <1>3, <1>4

\* What is stored of an upload does not depend on the connections.
LEMMA ExtractionBeside ==
  ASSUME Wired, Wired', Onward, Extraction, Elsewhere, UNCHANGED <<disk, row>>,
         Uploading' => upload' = upload
  PROVE  Extraction'
<1>1. \A q \in Requests : req'[q].kind = "upload" => req'[q] = req[q]
  BY DEF Elsewhere
<1>2. \A q \in Requests : req'[q].pc \in Extracting => req'[q].kind = "upload"
  BY DEF Wired, Good, Stage
<1>3. Uploading' => Uploading /\ upload' = upload
  BY <1>1 DEF Uploading
<1>4. \A q \in Requests : req'[q].pc \in Extracting => req'[q] = req[q] /\ upload' = upload
  BY <1>1, <1>2, <1>3 DEF Uploading
<1>5. UNCHANGED <<disk, row>>
  OBVIOUS
<1>6. \A p, q \in Requests : req'[p].kind = "upload" /\ req'[q].kind = "upload" => p = q
  BY <1>1 DEF Extraction
<1>7. \A q \in Requests : req'[q].kind = "upload" => req'[q].pc \in Extracting
  BY <1>1 DEF Extraction
<1>8. Uploading' => row' = None /\ upload'.archive \in Archives
  BY <1>3, <1>5 DEF Extraction
<1>9. ASSUME NEW q \in Requests PROVE Extracts(q)'
  <2>1. CASE req'[q].pc \in Extracting
    <3>1. req'[q] = req[q] /\ UNCHANGED <<upload, disk>> /\ Extracts(q)
      BY <2>1, <1>4, <1>5 DEF Extraction
    <3> QED BY <3>1 DEF Extracts, Stored
  <2>2. CASE req'[q].pc \notin Extracting
    BY <2>2 DEF Extracts, Extracting
  <2> QED BY <2>1, <2>2
<1> QED BY <1>6, <1>7, <1>8, <1>9 DEF Extraction


\* The bytes of one entry more.
LEMMA AddsOne ==
  ASSUME NEW archive \in Archives, NEW n \in 1..Len(archive), NEW bytes \in Nat,
         Adds(archive, n - 1, bytes), bytes + archive[n].size <= MaxBytes
  PROVE  Adds(archive, n, bytes + archive[n].size)
<1>1. PICK sum \in [0..(n - 1) -> 0..MaxBytes] :
        /\ sum[0] = 0 /\ sum[n - 1] = bytes
        /\ \A i \in 1..(n - 1) : sum[i] = sum[i - 1] + archive[i].size
  BY DEF Adds
<1>2. archive \in Seq([path : Paths, size : Nat, safe : BOOLEAN])
  BY ArchivesAssumption
<1>3. archive[n] \in [path : Paths, size : Nat, safe : BOOLEAN] /\ n \in Nat /\ n > 0
  <2>1. archive[n] \in [path : Paths, size : Nat, safe : BOOLEAN]
    BY <1>2, EntryIn
  <2> QED BY <2>1
<1>4. PICK total \in Nat : total = bytes + archive[n].size
  BY <1>3
<1>5. total \in 0..MaxBytes /\ MaxBytes \in Nat
  BY <1>4, ArchivesAssumption
<1> DEFINE more == [i \in 0..n |-> IF i = n THEN total ELSE sum[i]]
<1>6. more \in [0..n -> 0..MaxBytes]
  BY <1>1, <1>3, <1>5
<1>7. more[0] = 0 /\ more[n] = total /\ \A i \in 0..(n - 1) : more[i] = sum[i]
  BY <1>1, <1>3
<1>8. ASSUME NEW i \in 1..n PROVE more[i] = more[i - 1] + archive[i].size
  <2>1. i - 1 \in 0..(n - 1) /\ more[i - 1] = sum[i - 1]
    BY <1>3, <1>7
  <2>2. CASE i = n
    BY <2>1, <2>2, <1>1, <1>4, <1>7
  <2>3. CASE i # n
    <3>1. i \in 1..(n - 1) /\ i \in 0..(n - 1)
      BY <2>3, <1>3
    <3> QED BY <2>1, <3>1, <1>1, <1>7
  <2> QED BY <2>2, <2>3
<1> HIDE DEF more
<1> QED BY <1>4, <1>6, <1>7, <1>8 DEF Adds

\* An entry that is written is stored with those before it.
LEMMA StoredOne ==
  ASSUME NEW archive \in Archives, NEW n \in 1..Len(archive), NEW bytes \in Nat,
         Stored(archive, n - 1, bytes),
         n <= MaxEntries, bytes + archive[n].size <= MaxBytes, archive[n].safe,
         disk' = [disk EXCEPT !.files = @ \cup {archive[n].path}]
  PROVE  Stored(archive, n, bytes + archive[n].size)'
<1>1. n \in Nat /\ n > 0 /\ \A i : i \in 1..n <=> i = n \/ i \in 1..(n - 1)
  OBVIOUS
<1>2. disk' = [there |-> TRUE,
               files |-> {archive[i].path : i \in 1..(n - 1)} \cup {archive[n].path}]
  BY DEF Stored
<1>3. {archive[i].path : i \in 1..(n - 1)} \cup {archive[n].path} = {archive[i].path : i \in 1..n}
  BY <1>1
<1>4. \A i \in 1..n : archive[i].safe
  BY <1>1 DEF Stored
<1>5. Adds(archive, n, bytes + archive[n].size)
  BY AddsOne DEF Stored
<1>6. disk' = [there |-> TRUE, files |-> {archive[i].path : i \in 1..n}]
  BY <1>2, <1>3
<1> QED BY <1>4, <1>5, <1>6 DEF Stored

\* An archive that is stored to its end is whole.
LEMMA StoredAll ==
  ASSUME NEW archive \in Archives, NEW bytes, Stored(archive, Len(archive), bytes)
  PROVE  /\ disk = [there |-> TRUE, files |-> {entry.path : entry \in Range(archive)}]
         /\ Len(archive) <= MaxEntries
         /\ Fits(archive)
         /\ \A entry \in Range(archive) : entry.safe
<1>1. archive \in Seq([path : Paths, size : Nat, safe : BOOLEAN])
  BY ArchivesAssumption
<1>2. Range(archive) = {archive[i] : i \in 1..Len(archive)}
  BY <1>1 DEF Range
<1>3. {entry.path : entry \in Range(archive)} = {archive[i].path : i \in 1..Len(archive)}
  BY <1>2
<1>4. Fits(archive)
  BY DEF Stored, Adds, Fits
<1> QED BY <1>2, <1>3, <1>4 DEF Stored

\* Nothing is stored of an archive before its first entry.
LEMMA StoredNone ==
  ASSUME NEW archive, disk' = [there |-> TRUE, files |-> NoFiles]
  PROVE  Stored(archive, 0, 0)'
<1>1. /\ {archive[i].path : i \in 1..0} = {} /\ 1..0 = {}
  OBVIOUS
<1>2. Adds(archive, 0, 0)
  <2> DEFINE sum == [i \in 0..0 |-> 0]
  <2>1. sum \in [0..0 -> 0..MaxBytes] /\ sum[0] = 0
    BY ArchivesAssumption
  <2> HIDE DEF sum
  <2> QED BY <2>1 DEF Adds
<1>3. disk' = [there |-> TRUE, files |-> {archive[i].path : i \in 1..0}]
  BY <1>1 DEF NoFiles
<1>4. 0 <= MaxEntries /\ \A i \in 1..0 : archive[i].safe
  BY ArchivesAssumption
<1> QED BY <1>2, <1>3, <1>4 DEF Stored


\* The one upload moves: it is over, or it has done what its next step expects.
LEMMA ExtractionMove ==
  ASSUME Wired, Wired', Extraction, NEW q \in Requests,
         \A p \in Requests \ {q} : req'[p] = req[p],
         \A p \in Requests \ {q} : req[p].kind # "upload",
         \/ req'[q] = Idle
         \/ /\ req'[q].kind = "upload" /\ req'[q].pc \in Extracting
            /\ row' = None /\ upload'.archive \in Archives /\ Extracts(q)'
  PROVE  Extraction'
<1>1. \A p \in Requests : req'[p].kind = "upload" => p = q
  OBVIOUS
<1>2. CASE req'[q] = Idle
  <2>1. \A p \in Requests : req'[p].kind # "upload"
    BY <1>1, <1>2 DEF Idle
  <2>2. \A p \in Requests : req'[p].pc \notin Extracting
    BY <2>1 DEF Wired, Good, Stage
  <2> QED BY <2>1, <2>2 DEF Extraction, Extracts, Extracting, Uploading
<1>3. CASE /\ req'[q].kind = "upload" /\ req'[q].pc \in Extracting
           /\ row' = None /\ upload'.archive \in Archives /\ Extracts(q)'
  <2>1. \A p \in Requests \ {q} : req'[p].pc \notin Extracting
    BY <1>1 DEF Wired, Good, Stage
  <2>2. \A p \in Requests \ {q} : Extracts(p)'
    BY <2>1 DEF Extracts, Extracting
  <2> QED BY <1>1, <1>3, <2>2 DEF Extraction, Uploading
<1> QED BY <1>2, <1>3

\* There is no other upload than this one.
LEMMA OnlyUpload ==
  ASSUME Wired, Extraction, NEW q \in Requests, req[q].pc \in Extracting
  PROVE  /\ \A p \in Requests \ {q} : req[p].kind # "upload"
         /\ Uploading /\ row = None /\ upload.archive \in Archives /\ Extracts(q)
  BY DEF Wired, Good, Stage, Extraction, Uploading

\* While an upload is under way there is no row to agree with.
LEMMA TogetherUploading ==
  ASSUME Wired, Wired', Onward, Together, NEW q \in Requests, req'[q].kind = "upload",
         row = None, row' = None
  PROVE  Together'
  BY DEF Together, UploadIsWhole, NothingLeftBehind, Uploading

\* A step that leaves rows and files alone, and ends no upload.
LEMMA TogetherBeside ==
  ASSUME Wired, Wired', Onward, Together, UNCHANGED <<row, disk>>,
         Never({"lost"})' /\ Uploading => Uploading'
  PROVE  Together'
<1>1. Never({"lost", "untidy"})' => Never({"lost", "untidy"}) /\ Never({"lost"})'
  <2>1. {"lost", "untidy"} \subseteq Disturbances
    BY DEF Disturbances
  <2>2. Never({"lost", "untidy"})' => Never({"lost"})'
    BY DEF Never
  <2> QED BY <2>1, <2>2, NeverStays
<1> QED BY <1>1 DEF Together, UploadIsWhole, NothingLeftBehind

\* A step of an upload, from its beginning to its row or its clean-up.
LEMMA ExtractionUploads ==
  ASSUME Wired, Shelves, Extraction, Together, NEW q \in Requests, Save(q) \/ Uploads(q)
  PROVE  Extraction' /\ Together'
<1>1. Wired' /\ Onward /\ Aside(q)
  BY UploadsStep
<1>2. \A p \in Requests \ {q} : req'[p] = req[p]
  BY <1>1 DEF Aside
<1>3. Gone.there = FALSE
  BY DEF Gone
<1>4. CASE Save(q)
  <2>1. /\ req'[q] = Idle /\ UNCHANGED <<upload, disk, row>> /\ req[q].kind = "import"
    BY <1>4, WiredSave DEF Save, Wired, Good, Stage
  <2>2. (Uploading' <=> Uploading) /\ req'[q].kind = "none"
    BY <2>1, <1>2 DEF Uploading, Idle
  <2>3. Elsewhere
    BY <2>2, <1>2 DEF Elsewhere
  <2> QED BY <1>1, <2>1, <2>2, <2>3, ExtractionBeside, TogetherBeside
<1>5. CASE \E archive \in Archives : BeginUpload(q, archive)
  <2>1. PICK archive \in Archives : BeginUpload(q, archive)
    BY <1>5
  <2>2. /\ row = None /\ row' = None /\ disk' = Gone /\ ~Uploading
        /\ upload' = [NoUpload EXCEPT !.archive = archive]
    BY <2>1 DEF BeginUpload
  <2>3. req'[q].pc = "prepare" /\ req'[q].kind = "upload"
    BY <2>1, WiredBeginUpload
  <2>4. Extracts(q)' /\ upload'.archive \in Archives
    BY <2>2, <2>3 DEF Extracts, NoUpload
  <2>5. \A p \in Requests \ {q} : req[p].kind # "upload"
    BY <2>2 DEF Uploading
  <2>6. req'[q].pc \in Extracting
    BY <2>3 DEF Extracting
  <2> QED BY <1>1, <1>2, <2>2, <2>3, <2>4, <2>5, <2>6, ExtractionMove, TogetherUploading
<1>6. CASE Prepare(q)
  <2>1. req[q].pc = "prepare" /\ req[q].pc \in Extracting /\ UNCHANGED row
    BY <1>6 DEF Prepare, Extracting
  <2>2. /\ \A p \in Requests \ {q} : req[p].kind # "upload"
        /\ Uploading /\ row = None /\ upload.archive \in Archives /\ Extracts(q)
    BY <2>1, OnlyUpload
  <2>3. CASE Drop(q) /\ UNCHANGED disk /\ req'[q] = Idle
    <3>1. disk' = Gone
      BY <2>1, <2>2, <2>3 DEF Extracts
    <3>2. Together'
      BY <2>1, <2>2, <3>1, <1>3 DEF Together, UploadIsWhole, NothingLeftBehind
    <3> QED BY <1>1, <1>2, <2>2, <2>3, <3>2, ExtractionMove
  <2>4. CASE /\ req'[q].pc = "entry" /\ req'[q].kind = "upload"
             /\ disk' = [there |-> TRUE, files |-> NoFiles] /\ UNCHANGED upload
    <3>1. upload.next = 1 /\ upload.bytes = 0
      BY <2>1, <2>2 DEF Extracts
    <3>2. PICK archive \in Archives : archive = upload.archive
      BY <2>2
    <3>3. Stored(archive, 0, 0)'
      BY <2>4, StoredNone
    <3>4. Len(archive) \in Nat
      BY <3>2, ArchivesAssumption
    <3>5. Stored(upload.archive, upload.next - 1, upload.bytes)'
      <4>1. upload'.archive = archive /\ upload'.next - 1 = 0 /\ upload'.bytes = 0
        BY <2>4, <3>1, <3>2
      <4> QED BY <3>3, <4>1 DEF Stored
    <3>6. Extracts(q)'
      BY <2>4, <3>1, <3>2, <3>4, <3>5 DEF Extracts
    <3>7. req'[q].pc \in Extracting
      BY <2>4 DEF Extracting
    <3> QED BY <1>1, <1>2, <2>1, <2>2, <2>4, <3>6, <3>7, ExtractionMove, TogetherUploading
  <2> QED BY <1>6, <2>3, <2>4, WiredPrepare
<1>7. CASE Entry(q)
  <2>1. req[q].pc = "entry" /\ req[q].pc \in Extracting /\ UNCHANGED row
    BY <1>7 DEF Entry, Extracting
  <2>2. /\ \A p \in Requests \ {q} : req[p].kind # "upload"
        /\ Uploading /\ row = None /\ upload.archive \in Archives /\ Extracts(q)
    BY <2>1, OnlyUpload
  <2>3. CASE req'[q].pc = "tidy" /\ req'[q].kind = "upload" /\ UNCHANGED <<upload, disk>>
    <3>1. Extracts(q)' /\ req'[q].pc \in Extracting
      BY <2>3 DEF Extracts, Extracting
    <3> QED BY <1>1, <1>2, <2>1, <2>2, <2>3, <3>1, ExtractionMove, TogetherUploading
  <2>4. CASE UNCHANGED req
    <3>1. PICK archive \in Archives, n \in 1..Len(upload.archive), bytes \in Nat :
            archive = upload.archive /\ n = upload.next /\ bytes = upload.bytes
      BY <1>7, <2>1, <2>2 DEF Entry, Shelves, Extracts
    <3>2. n \in 1..Len(archive) /\ Len(archive) \in Nat /\ n \in Nat
      BY <3>1, ArchivesAssumption
    <3>3. archive[n] \in [path : Paths, size : Nat, safe : BOOLEAN]
      BY <3>2, EntryIn, ArchivesAssumption
    <3>4. CASE Go(q, "tidy")
      <4>1. "tidy" \in Steps
        BY DEF Steps
      <4> QED BY <2>1, <2>4, <3>4, <4>1, Goes
    <3>5. CASE ~Go(q, "tidy")
      <4>1. /\ ~ (n > MaxEntries) /\ ~ (BytesWith(archive[n]) > MaxBytes) /\ archive[n].safe
            /\ disk' = [disk EXCEPT !.files = @ \cup {archive[n].path}]
            /\ upload' = [upload EXCEPT !.next = n + 1, !.bytes = BytesWith(archive[n])]
        BY <1>7, <3>1, <3>5 DEF Entry
      <4>2. BytesWith(archive[n]) = bytes + archive[n].size
        BY <3>1 DEF BytesWith
      <4>3. PICK total \in Nat : total = bytes + archive[n].size
        BY <3>3
      <4>4. n <= MaxEntries /\ total <= MaxBytes
        BY <3>2, <4>1, <4>2, <4>3, ArchivesAssumption
      <4>5. Stored(archive, n - 1, bytes)
        BY <2>1, <2>2, <3>1 DEF Extracts
      <4>6. Stored(archive, n, total)'
        BY <3>2, <4>1, <4>3, <4>4, <4>5, StoredOne
      <4>7. /\ upload'.archive = archive /\ upload'.next = n + 1 /\ upload'.bytes = total
        BY <3>1, <4>1, <4>2, <4>3 DEF Shelves
      <4>8. Stored(upload.archive, upload.next - 1, upload.bytes)'
        <5>1. upload'.next - 1 = n
          BY <3>2, <4>7
        <5> QED BY <4>6, <4>7, <5>1 DEF Stored
      <4>9. upload'.next \in 1..(Len(upload'.archive) + 1)
        BY <3>2, <4>7
      <4>10. Extracts(q)'
        BY <2>1, <2>4, <4>8, <4>9 DEF Extracts
      <4>11. req'[q].kind = "upload" /\ req'[q].pc \in Extracting
        BY <2>1, <2>4 DEF Wired, Good, Stage
      <4> QED BY <1>1, <1>2, <2>1, <2>2, <4>7, <4>10, <4>11, ExtractionMove, TogetherUploading
    <3> QED BY <3>4, <3>5
  <2> QED BY <1>7, <2>3, <2>4, WiredEntry
<1>8. CASE EndOfArchive(q)
  <2>1. /\ req[q].pc = "entry" /\ req[q].pc \in Extracting /\ UNCHANGED <<row, upload, disk>>
        /\ upload.next > Len(upload.archive)
    BY <1>8 DEF EndOfArchive, Extracting, repoVars
  <2>2. /\ \A p \in Requests \ {q} : req[p].kind # "upload"
        /\ Uploading /\ row = None /\ upload.archive \in Archives /\ Extracts(q)
    BY <2>1, OnlyUpload
  <2>3. req'[q].pc = "row" /\ req'[q].kind = "upload"
    BY <1>8, WiredEndOfArchive
  <2>4. Len(upload.archive) \in Nat
    BY <2>2, ArchivesAssumption
  <2>5. upload.next = Len(upload.archive) + 1
    BY <2>1, <2>2, <2>4 DEF Extracts
  <2>6. Extracts(q)' /\ req'[q].pc \in Extracting
    BY <2>1, <2>2, <2>3, <2>5 DEF Extracts, Stored, Extracting
  <2> QED BY <1>1, <1>2, <2>1, <2>2, <2>3, <2>6, ExtractionMove, TogetherUploading
<1>9. CASE RowFails(q) \/ EntryFails(q)
  <2>1. req[q].pc \in Extracting /\ UNCHANGED <<row, upload, disk>>
    BY <1>9 DEF RowFails, EntryFails, Extracting, repoVars
  <2>2. /\ \A p \in Requests \ {q} : req[p].kind # "upload"
        /\ Uploading /\ row = None /\ upload.archive \in Archives
    BY <2>1, OnlyUpload
  <2>3. req'[q].pc = "tidy" /\ req'[q].kind = "upload"
    BY <1>9, WiredFails
  <2>4. Extracts(q)' /\ req'[q].pc \in Extracting
    BY <2>3 DEF Extracts, Extracting
  <2> QED BY <1>1, <1>2, <2>1, <2>2, <2>3, <2>4, ExtractionMove, TogetherUploading
<1>10. CASE CreateRow(q)
  <2>1. /\ req[q].pc = "row" /\ req[q].pc \in Extracting /\ UNCHANGED disk
        /\ row' = upload.archive
    BY <1>10 DEF CreateRow, Extracting
  <2>2. /\ \A p \in Requests \ {q} : req[p].kind # "upload"
        /\ upload.archive \in Archives /\ Extracts(q)
    BY <2>1, OnlyUpload
  <2>3. PICK archive \in Archives : archive = upload.archive
    BY <2>2
  <2>4. Stored(archive, Len(archive), upload.bytes)
    <3>1. upload.next - 1 = Len(archive)
      BY <2>1, <2>2, <2>3, ArchivesAssumption DEF Extracts
    <3> QED BY <2>1, <2>2, <2>3, <3>1 DEF Extracts
  <2>5. /\ disk = [there |-> TRUE, files |-> {entry.path : entry \in Range(archive)}]
        /\ Len(archive) <= MaxEntries /\ Fits(archive)
        /\ \A entry \in Range(archive) : entry.safe
    BY <2>4, StoredAll
  <2>6. row' = archive /\ row' # None /\ UNCHANGED disk
    BY <2>1, <2>3, ArchivesAssumption
  <2>7. Together'
    BY <2>5, <2>6 DEF Together, UploadIsWhole, NothingLeftBehind, Fits
  <2> QED BY <1>1, <1>2, <1>10, <2>2, <2>7, WiredCreateRow, ExtractionMove
<1>11. CASE Tidy(q)
  <2>1. req[q].pc \in Extracting /\ UNCHANGED row
    BY <1>11 DEF Tidy, Extracting
  <2>2. /\ \A p \in Requests \ {q} : req[p].kind # "upload"
        /\ row = None
    BY <2>1, OnlyUpload
  <2>3. Together'
    <3>1. CASE disk' = Gone
      BY <2>1, <2>2, <3>1, <1>3 DEF Together, UploadIsWhole, NothingLeftBehind
    <3>2. CASE Spend("untidy")
      <4>1. "untidy" \in Disturbances
        BY DEF Disturbances
      <4>2. used'["untidy"] > 0
        BY <3>2, <4>1, Spent DEF Spend
      <4> QED BY <2>1, <2>2, <4>2 DEF Together, UploadIsWhole, NothingLeftBehind, Never
    <3> QED BY <1>11, <3>1, <3>2 DEF Tidy
  <2> QED BY <1>1, <1>2, <1>11, <2>2, <2>3, WiredTidy, ExtractionMove
<1> QED BY <1>4, <1>5, <1>6, <1>7, <1>8, <1>9, <1>10, <1>11 DEF Uploads


-----------------------------------------------------------------------------
(* The invariant is inductive                                              *)

\* It holds at first.
LEMMA InvInit == Init => IInv
<1> SUFFICES ASSUME Init PROVE IInv
  OBVIOUS
<1>1. /\ provider \in {"GITHUB", "BITBUCKET"} /\ later = {}
      /\ conn = [a \in Accounts |-> NoConnection] /\ grant = [t \in Tokens |-> NoGrant]
      /\ req = [q \in Requests |-> Idle] /\ used = [d \in Disturbances |-> 0]
      /\ repo = None /\ zipConn = FALSE /\ upload = NoUpload /\ disk = Gone /\ row = None
  BY DEF Init, ConnInit
<1>2. Rows = {}
  BY <1>1 DEF Rows, NoConnection
<1>3. Columns
  <2>1. conn \in [Accounts -> ConnectionRows]
    BY <1>1 DEF NoConnection, ConnectionRows
  <2>2. grant \in [Tokens -> Grants]
    BY <1>1 DEF NoGrant, Grants
  <2>3. Idle \in RequestStates
    BY DEF Idle, RequestStates, Steps, Kinds
  <2> QED BY <1>1, <2>1, <2>2, <2>3, LimitAssumption DEF Columns
<1>4. Ranking(Rows, later)
  BY <1>1, <1>2 DEF Ranking
<1>5. Owned
  BY <1>1, <1>2 DEF Owned, IssuedFor, NoConnection
<1>6. \A q \in Requests : req[q] = Idle
  BY <1>1
<1>7. \A q \in Requests : Good(q)
  BY <1>6 DEF Good, Stage, IssuedFor, Idle, Extracting
<1>8. Shelves
  BY <1>1 DEF Shelves, NoUpload, Gone, NoFiles
<1>9. InTurn
  BY <1>6 DEF InTurn, Working, Idle
<1>10. Refreshable
  <2>1. \A q \in Requests : req[q].pc = "idle"
    BY <1>6 DEF Idle
  <2>2. \A a \in Accounts : ~Active(a)
    BY <1>1 DEF Active, NoConnection
  <2>3. Rotating /\ Keeping
    BY <1>2, <2>1, <2>2 DEF Rotating, Keeping
  <2> QED BY <1>2, <2>1, <2>3 DEF Refreshable
<1>11. Extraction
  BY <1>6 DEF Extraction, Extracts, Uploading, Idle
<1>12. ListingIsWhole
  BY <1>6 DEF ListingIsWhole, Idle
<1>13. Together
  BY <1>1 DEF Together, UploadIsWhole, NothingLeftBehind, Gone
<1> QED BY <1>3, <1>4, <1>5, <1>7, <1>8, <1>9, <1>10, <1>11, <1>12, <1>13 DEF IInv, Wired

\* What an action is about.
LEMMA ThreeKinds ==
  ASSUME IInv, Next
  PROVE  \/ /\ Connecting \/ Outside
            /\ UNCHANGED <<repo, zipConn, disk, row>>
            /\ upload' = upload \/ upload' = NoUpload
            /\ Uploading' => upload' = upload
         \/ \E q \in Requests : Save(q) \/ Uploads(q)
<1>1. CASE /\ ConnNext
           /\ upload' = IF Uploading' THEN upload ELSE NoUpload
           /\ UNCHANGED <<repo, zipConn, disk, row>>
  BY <1>1, Actions
<1>2. ASSUME NEW q \in Requests, BeginClone(q)
      PROVE  Connecting /\ UNCHANGED <<repo, zipConn, disk, row, upload>>
  <2>1. repo \in Accounts /\ "clone" \in Errands
    BY <1>2 DEF BeginClone, IInv, Shelves, Rows, Errands
  <2> QED BY <1>2, <2>1 DEF BeginClone, Connecting, repoVars
<1> QED BY <1>1, <1>2 DEF Next, Uploads

\* Every step keeps it.
LEMMA InvStep == IInv /\ [Next]_vars => IInv'
<1> SUFFICES ASSUME IInv, [Next]_vars PROVE IInv'
  OBVIOUS
<1> USE DEF IInv
<1>1. ASSUME Connecting \/ Outside,
             UNCHANGED <<repo, zipConn, disk, row>>,
             upload' = upload \/ upload' = NoUpload,
             Uploading' => upload' = upload
      PROVE  IInv'
  <2>1. Wired' /\ Onward /\ Elsewhere
    BY <1>1, ConnectingStep, OutsideStep
  <2>2. Shelves'
    BY <1>1, <2>1, ShelvesBeside
  <2>3. Outside => UNCHANGED <<conn, req>>
    BY DEF Outside, ComeDue, Withdraw
  <2>4. InTurn'
    BY <1>1, <2>1, <2>3, InTurnConnecting, InTurnQuiet
  <2>5. Refreshable'
    BY <1>1, RefreshableConnecting, RefreshableOutside
  <2>6. Extraction'
    BY <1>1, <2>1, ExtractionBeside
  <2>7. ListingIsWhole'
    BY <1>1, <2>3, ListingConnecting DEF ListingIsWhole
  <2>8. Never({"lost"})' /\ Uploading => Uploading'
    <3>1. ASSUME Never({"lost"})', NEW p \in Requests, req[p].kind = "upload"
          PROVE  req'[p].kind = "upload"
      BY <1>1, <2>3, <3>1, UploadsKept DEF Never
    <3> QED BY <3>1 DEF Uploading
  <2>9. Together'
    BY <1>1, <2>1, <2>8, TogetherBeside
  <2> QED BY <2>1, <2>2, <2>4, <2>5, <2>6, <2>7, <2>9
<1>2. ASSUME NEW q \in Requests, Save(q) \/ Uploads(q)
      PROVE  IInv'
  <2>1. Wired' /\ Onward /\ Aside(q)
    BY <1>2, UploadsStep
  <2>2. ListingIsWhole'
    BY <2>1 DEF Aside, ListingIsWhole, Extracting
  <2>3. Shelves' /\ InTurn' /\ Refreshable' /\ Extraction' /\ Together'
    BY <1>2, <2>1, ShelvesUploads, InTurnUploads, RefreshableUploads, ExtractionUploads
  <2> QED BY <2>1, <2>2, <2>3
<1>3. CASE UNCHANGED vars
  <2>1. UNCHANGED <<provider, conn, later, grant, req, used, repo, zipConn, upload, disk, row>>
    BY <1>3 DEF vars, connVars, repoVars
  <2>2. UNCHANGED <<Rows, Working, Rotates>> /\ \A a \in Accounts : Active(a)' = Active(a)
    BY <2>1 DEF Rows, Working, Rotates, Active
  <2>3. Wired' /\ Onward /\ Elsewhere
    <3>1. Columns' /\ Onward /\ Elsewhere
      BY <2>1, <2>2 DEF Wired, Columns, Onward, Elsewhere
    <3>2. Ranking(Rows, later)' /\ Owned'
      BY <2>1, <2>2 DEF Wired, Owned, IssuedFor, Ranking
    <3>3. \A q \in Requests : Good(q)'
      BY <2>1, <3>1, Waits
    <3> QED BY <3>1, <3>2, <3>3 DEF Wired
  <2>4. Shelves' /\ ListingIsWhole'
    BY <2>1, <2>2 DEF Shelves, ListingIsWhole
  <2>5. InTurn' /\ Refreshable'
    BY <2>1, <2>3, InTurnQuiet, RefreshableBeside
  <2>6. UNCHANGED Uploading
    BY <2>1 DEF Uploading
  <2>7. Extraction' /\ Together'
    BY <2>1, <2>3, <2>6, ExtractionBeside, TogetherBeside
  <2> QED BY <2>3, <2>4, <2>5, <2>7
<1> QED BY <1>1, <1>2, <1>3, ThreeKinds

\* It is an invariant.
LEMMA InvHolds == Spec => []IInv
  BY InvInit, InvStep, PTL DEF Spec

-----------------------------------------------------------------------------
(* What follows                                                            *)

\* Types, and that the rows are ordered by their last writes (TypeOK).
THEOREM RepositoriesTyped == Spec => []TypeOK
<1>1. IInv => TypeOK
  BY Holdings DEF IInv, Wired, Columns, Ranking, Owned, IssuedFor, Shelves, TypeOK, Rows
<1> QED BY <1>1, InvHolds, PTL

\* An active connection whose access token runs out has a refresh token that the
\* provider accepts, however many requests refresh it at once
\* (getCredentialsForConnection, updateTokens).
THEOREM KeepsRefreshable == Spec => []StaysRefreshable
<1>1. IInv => StaysRefreshable
  <2> SUFFICES ASSUME IInv, Calm, NEW a \in Accounts, Active(a), ~Unsettled(a)
               PROVE  grant[conn[a].refresh].refresh
    BY DEF StaysRefreshable, Calm
  <2>1. Refreshable /\ a \in Rows
    BY DEF IInv, Active, Rows
  <2>2. CASE Rotates
    BY <2>1, <2>2 DEF Refreshable, Rotating, Unsettled
  <2>3. CASE ~Rotates
    BY <2>1, <2>3 DEF Refreshable, Keeping, Unsettled
  <2> QED BY <2>2, <2>3
<1> QED BY <1>1, InvHolds, PTL

\* A disconnect that ends without an error has revoked the access token that the
\* connection has by then (disconnectProvider).
THEOREM DisconnectRevokes == Spec => []DisconnectReachesProvider
<1>1. IInv => DisconnectReachesProvider
  BY DEF IInv, InTurn, DisconnectReachesProvider, Never
<1> QED BY <1>1, InvHolds, PTL

\* A listing is the whole of the account's repositories, or an error, for any
\* page size, page limit and number of repositories (listRepositories).
THEOREM ListingsWhole == Spec => []ListingIsWhole
<1>1. IInv => ListingIsWhole
  BY DEF IInv
<1> QED BY <1>1, InvHolds, PTL

\* The repository of an upload has exactly the files of its archive, and the
\* archive keeps the limits, whatever archives there are (extractArchive).
THEOREM UploadsWhole == Spec => []UploadIsWhole
<1>1. IInv => UploadIsWhole
  BY DEF IInv, Together
<1> QED BY <1>1, InvHolds, PTL

\* An upload that failed leaves no files (uploadZipRepository, storeZipRepository).
THEOREM UploadsTidy == Spec => []NothingLeftBehind
<1>1. IInv => NothingLeftBehind
  BY DEF IInv, Together
<1> QED BY <1>1, InvHolds, PTL

\* Only a callback makes a connection active (upsertOAuthConnection; updateTokens
\* leaves the status alone).
THEOREM CallbacksActivate == Spec => OnlyCallbacksActivate
<1> DEFINE A == \A a \in Accounts : ~Active(a) /\ Active(a)' =>
                  \E q \in Requests : req[q].kind = "callback" /\ req[q].of = a
<1>1. IInv /\ [Next]_vars => [A]_connVars
  <2> SUFFICES ASSUME IInv, [Next]_vars, NEW a \in Accounts, ~Active(a), Active(a)'
               PROVE  \E q \in Requests : req[q].kind = "callback" /\ req[q].of = a
    OBVIOUS
  <2>1. ~ UNCHANGED conn
    BY DEF Active
  <2>2. Next
    BY <2>1 DEF vars, connVars
  <2>3. ~ Outside
    BY <2>1 DEF Outside, ComeDue, Withdraw
  <2>4. ~ \E q \in Requests : Save(q) \/ Uploads(q)
    <3>1. ASSUME NEW q \in Requests, Save(q) \/ Uploads(q) PROVE FALSE
      <4>1. UNCHANGED connVars
        BY <3>1, UploadsStep DEF Aside, IInv
      <4> QED BY <2>1, <4>1 DEF connVars
    <3> QED BY <3>1
  <2>5. Connecting
    BY <2>2, <2>3, <2>4, ThreeKinds
  <2> QED BY <2>5, Activations DEF IInv
<1> QED BY <1>1, InvHolds, PTL DEF Spec, OnlyCallbacksActivate

=============================================================================
