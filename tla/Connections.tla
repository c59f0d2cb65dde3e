---------------------------- MODULE Connections ----------------------------
(***************************************************************************)
(* The connections of one user to one Git provider, and the requests that  *)
(* work with them: OAuth callbacks, listings, imports, clones, disconnects.*)
(*                                                                         *)
(* A provider account has one connection row, named by the account.  A     *)
(* token names an access token together with the refresh token issued with *)
(* it.  A request is at its next awaited database or provider call;        *)
(* encryption and decryption are inverse and belong to the steps around.   *)
(***************************************************************************)
EXTENDS Naturals, FiniteSets, FiniteSetsExt

CONSTANTS
  Accounts,   \* accounts of the user at the provider (providerUserId)
  Tokens,
  Requests,
  PageSize,   \* repositories on a page of a listing
  MaxPages,   \* GITHUB_MAX_REPOSITORY_PAGES, BITBUCKET_MAX_REPOSITORY_PAGES
  Sizes,      \* how many repositories an account can have
  Limit,      \* how often each disturbance may happen
  Budget,     \* how many disturbances may happen in all
  None

\* overlap: a request begins before the last one was answered; lost: the
\* process dies in a request; due: a token comes within a minute of its expiry;
\* bare: a grant without a refresh token; withdrawn: the user takes the grant
\* back at the provider; failure: a call fails; untidy: files cannot be removed;
\* overtaken: the account is connected anew during a refresh.
Disturbances == {"overlap", "lost", "due", "bare", "withdrawn", "failure",
                 "untidy", "overtaken"}

ASSUME NoneAssumption == None \notin Accounts \cup Tokens \cup Requests
ASSUME PagesAssumption ==
  PageSize \in Nat \ {0} /\ MaxPages \in Nat \ {0} /\ Sizes \subseteq Nat
ASSUME LimitAssumption == Limit \in [Disturbances -> Nat] /\ Budget \in Nat

VARIABLES
  provider,  \* which provider this is; never changes
  conn,      \* connection rows
  later,     \* updatedAt: the pairs of rows of which the first is the later one
  grant,     \* what the provider knows of a token
  req,       \* requests
  used       \* disturbances that have happened

connVars == <<provider, conn, later, grant>>

NoConnection == [status |-> "ABSENT", access |-> None, refresh |-> None]
NoGrant == [of |-> None, access |-> FALSE, refresh |-> FALSE, due |-> FALSE]
Idle == [pc |-> "idle", kind |-> "none", of |-> None, access |-> None,
         refresh |-> None, listed |-> {}, total |-> 0]

ConnInit ==
  /\ provider \in {"GITHUB", "BITBUCKET"}
  /\ conn = [a \in Accounts |-> NoConnection]
  /\ later = {}
  /\ grant = [t \in Tokens |-> NoGrant]
  /\ req = [q \in Requests |-> Idle]
  /\ used = [d \in Disturbances |-> 0]

\* Time passes, and overtaking takes an overlap anyway.
Counted == Disturbances \ {"due", "overtaken"}

Total == FoldSet(LAMBDA d, n : used[d] + n, 0, Counted)

SpendAll(D) ==
  /\ \A d \in D : used[d] < Limit[d]
  /\ Total + Cardinality(D \cap Counted) <= Budget
  /\ used' = [d \in Disturbances |-> IF d \in D THEN used[d] + 1 ELSE used[d]]

Spend(d) == SpendAll({d})

Working == {q \in Requests : req[q].pc # "idle"}
IfWorking == IF Working = {} THEN {} ELSE {"overlap"}

Go(q, pc) == req' = [req EXCEPT ![q].pc = pc]
End(q) == req' = [req EXCEPT ![q] = Idle]

\* Every write of a row moves its updatedAt.
Rows == {a \in Accounts : conn[a].status # "ABSENT"}
Touch(a) ==
  later' = {p \in later : a \notin {p[1], p[2]}} \cup {<<a, b>> : b \in Rows \ {a}}

Active(a) == conn[a].status = "ACTIVE"

\* findActiveByUserAndProvider: the active row that was written last.
Latest ==
  LET rows == {a \in Accounts : Active(a)} IN
  IF rows = {} THEN None ELSE CHOOSE a \in rows : \A b \in rows \ {a} : <<a, b>> \in later

-----------------------------------------------------------------------------
(* Connecting                                                              *)

\* The provider issues a grant.
Granted(t, a, refreshable) ==
  grant' = [grant EXCEPT ![t] =
    [of |-> a, access |-> TRUE, refresh |-> refreshable, due |-> FALSE]]

\* handleOAuthCallback with a good state: exchangeCodeForToken and the profile.
\* Everything that fails here changes nothing that this system knows of.
Connect(q, a, t) ==
  /\ req[q].pc = "idle"
  /\ grant[t].of = None
  /\ \E bare \in BOOLEAN :
       /\ SpendAll(IfWorking \cup IF bare THEN {"bare"} ELSE {})
       /\ Granted(t, a, ~bare)
       /\ req' = [req EXCEPT ![q] =
            [Idle EXCEPT !.pc = "store", !.kind = "callback", !.of = a,
               !.access = t, !.refresh = IF bare THEN None ELSE t]]
  /\ UNCHANGED <<provider, conn, later>>

\* Slip: the upsert finds any connection to the provider.
StoreAnywhere(q) ==
  LET a == IF Latest = None THEN req[q].of ELSE Latest IN
  /\ req[q].pc = "store"
  /\ conn' = [conn EXCEPT ![a] = [status |-> "ACTIVE",
       access |-> req[q].access, refresh |-> req[q].refresh]]
  /\ Touch(a)
  /\ End(q)
  /\ UNCHANGED <<provider, grant, used>>

Refreshing(a) ==
  \E q \in Requests : req[q].of = a /\ req[q].pc \in {"refresh", "update"}

\* upsertOAuthConnection.
Store(q) ==
  LET a == req[q].of IN
  /\ req[q].pc = "store"
  /\ conn' = [conn EXCEPT ![a] = [status |-> "ACTIVE",
       access |-> req[q].access, refresh |-> req[q].refresh]]
  /\ Touch(a)
  /\ SpendAll(IF Refreshing(a) THEN {"overtaken"} ELSE {})
  /\ End(q)
  /\ UNCHANGED <<provider, grant>>

-----------------------------------------------------------------------------
(* Credentials                                                             *)

\* getCredentialsForConnection, up to its first call.  A row that is due and
\* cannot be refreshed ends the request with 401.
Credentials(q, kind, a) ==
  LET row == conn[a]
      due == grant[row.access].due
  IN  req' = [req EXCEPT ![q] =
        IF due /\ row.refresh = None THEN Idle
        ELSE [Idle EXCEPT !.pc = IF due THEN "refresh" ELSE "call",
                !.kind = kind, !.of = a, !.access = row.access,
                !.refresh = row.refresh]]

\* listProviderRepositories and disconnectProvider take the latest connection,
\* an import and a clone the one they name.
Begin(q, kind, a) ==
  /\ req[q].pc = "idle"
  /\ IF kind \in {"list", "disconnect"} THEN a = Latest ELSE Active(a)
  /\ SpendAll(IfWorking)
  /\ Credentials(q, kind, a)
  /\ UNCHANGED connVars

\* Nothing to revoke at the provider: on to the rows.
BeginEmpty(q) ==
  /\ req[q].pc = "idle"
  /\ Latest = None
  /\ SpendAll(IfWorking)
  /\ req' = [req EXCEPT ![q] = [Idle EXCEPT !.pc = "close",
                                            !.kind = "disconnect"]]
  /\ UNCHANGED connVars

\* GitHub replaces a refresh token that was used, Bitbucket keeps it and names
\* none in its answer.
Rotates == provider = "GITHUB"

\* Slip: an answer's own refresh token is not looked at.
AnsweredRefreshOld(old, new) == old

\* tokenSet.refreshToken ?? credentials.refreshToken.
AnsweredRefresh(old, new) == IF Rotates THEN new ELSE old

RefreshToken(q, n) ==
  LET old == req[q].refresh IN
  /\ req[q].pc = "refresh"
  /\ grant[old].refresh
  /\ grant[n].of = None
  /\ grant' = [grant EXCEPT
       ![old].refresh = ~Rotates,
       ![n] = [of |-> req[q].of, access |-> TRUE, refresh |-> Rotates,
               due |-> FALSE]]
  /\ req' = [req EXCEPT ![q].pc = "update", ![q].access = n,
                        ![q].refresh = AnsweredRefresh(old, n)]
  /\ UNCHANGED <<provider, conn, later, used>>

\* The provider refuses, and so does the request; a disconnect, too.
RefreshRefused(q) ==
  /\ req[q].pc = "refresh"
  /\ ~grant[req[q].refresh].refresh
  /\ End(q)
  /\ UNCHANGED <<connVars, used>>

\* Slip: whoever has fresh tokens has an active connection.
UpdateTokensActive(q) ==
  /\ req[q].pc = "update"
  /\ conn' = [conn EXCEPT ![req[q].of] = [status |-> "ACTIVE",
       access |-> req[q].access, refresh |-> req[q].refresh]]
  /\ Touch(req[q].of)
  /\ Go(q, "call")
  /\ UNCHANGED <<provider, grant, used>>

\* Slip: the new tokens are used and not stored.
UpdateTokensNot(q) ==
  /\ req[q].pc = "update"
  /\ Go(q, "call")
  /\ UNCHANGED <<connVars, used>>

\* updateTokens, by id whatever the status.
UpdateTokens(q) ==
  /\ req[q].pc = "update"
  /\ conn' = [conn EXCEPT ![req[q].of].access = req[q].access,
                          ![req[q].of].refresh = req[q].refresh]
  /\ Touch(req[q].of)
  /\ Go(q, "call")
  /\ UNCHANGED <<provider, grant, used>>

-----------------------------------------------------------------------------
(* Work at the provider                                                    *)

Refused == {0}

OnPage(p, n) == {i \in 1..n : (p - 1) * PageSize < i /\ i <= p * PageSize}

\* Slip: at the limit the pages read so far are the answer.
ListingCut(n) == 1..(IF n < MaxPages * PageSize THEN n ELSE MaxPages * PageSize)

\* What has been read when the loop returns after one of these pages; after the
\* last page that is allowed it throws.
Read(ends, n) ==
  IF ends = {} THEN Refused ELSE UNION {OnPage(p, n) : p \in 1..Min(ends)}

\* GithubProvider.listRepositories returns after a page that is not full.
GithubListing(n) == Read({p \in 1..MaxPages : Cardinality(OnPage(p, n)) < PageSize}, n)

\* BitbucketProvider.listRepositories follows the links while there are more.
BitbucketListing(n) == Read({p \in 1..MaxPages : p * PageSize >= n}, n)

Listing(n) ==
  IF provider = "GITHUB" THEN GithubListing(n) ELSE BitbucketListing(n)

Accepted(q) == grant[req[q].access].access

\* listRepositories.
List(q, n) ==
  /\ req[q].pc = "call" /\ req[q].kind = "list"
  /\ IF Accepted(q) /\ Listing(n) # Refused
     THEN req' = [req EXCEPT ![q].pc = "validate", ![q].listed = Listing(n),
                             ![q].total = n]
     ELSE End(q)
  /\ UNCHANGED <<connVars, used>>

MarkValidated(q) ==
  /\ req[q].pc = "validate"
  /\ Touch(req[q].of)
  /\ End(q)
  /\ UNCHANGED <<provider, conn, grant, used>>

\* getRepository: Bitbucket looks the repository up in the whole listing.
GetRepository(q, n) ==
  /\ req[q].pc = "call" /\ req[q].kind = "import"
  /\ IF Accepted(q) /\ n > 0 /\ (provider = "GITHUB" \/ Listing(n) # Refused)
     THEN Go(q, "save")
     ELSE End(q)
  /\ UNCHANGED <<connVars, used>>

\* The clone of a scan; ScanWorkspace has the rest of it.
Clone(q) ==
  /\ req[q].pc = "call" /\ req[q].kind = "clone"
  /\ End(q)
  /\ UNCHANGED <<connVars, used>>

-----------------------------------------------------------------------------
(* Disconnecting                                                           *)

\* GitHub deletes the access token, Bitbucket both tokens, in parallel.
Held(q) == [access |-> req[q].access, refresh |-> req[q].refresh]

\* The provider's disconnect; an error is swallowed and each of two calls can
\* fail on its own.
Revoke(q) ==
  /\ req[q].pc = "call" /\ req[q].kind = "disconnect"
  /\ \E a, r \in BOOLEAN :
       /\ SpendAll(IF a /\ r THEN {} ELSE {"failure"})
       /\ grant' = [t \in Tokens |-> [grant[t] EXCEPT
            !.access = @ /\ ~(a /\ t = Held(q).access),
            !.refresh = @ /\ ~(r /\ provider = "BITBUCKET"
                                 /\ t = Held(q).refresh)]]
  /\ Go(q, "close")
  /\ UNCHANGED <<provider, conn, later>>

\* disconnectByUserAndProvider: all connections of the user to the provider.
Close(q) ==
  /\ req[q].pc = "close"
  /\ conn' = [a \in Accounts |->
       IF Active(a) THEN [conn[a] EXCEPT !.status = "REVOKED"] ELSE conn[a]]
  /\ End(q)
  /\ UNCHANGED <<provider, later, grant, used>>

-----------------------------------------------------------------------------
(* Disturbances                                                            *)

Lose(q) ==
  /\ req[q].pc # "idle"
  /\ Spend("lost")
  /\ End(q)
  /\ UNCHANGED connVars

ComeDue(t) ==
  /\ grant[t].of # None /\ ~grant[t].due
  /\ Spend("due")
  /\ grant' = [grant EXCEPT ![t].due = TRUE]
  /\ UNCHANGED <<provider, conn, later, req>>

Withdraw(a) ==
  /\ \E t \in Tokens : grant[t].of = a
  /\ Spend("withdrawn")
  /\ grant' = [t \in Tokens |->
       IF grant[t].of = a THEN [grant[t] EXCEPT !.access = FALSE,
                                                !.refresh = FALSE]
       ELSE grant[t]]
  /\ UNCHANGED <<provider, conn, later, req>>

ConnNext ==
  \/ \E q \in Requests :
       \/ \E a \in Accounts :
            \/ \E t \in Tokens : Connect(q, a, t)
            \/ \E kind \in {"list", "import", "disconnect"} : Begin(q, kind, a)
       \/ \E n \in Tokens : RefreshToken(q, n)
       \/ \E n \in Sizes : List(q, n) \/ GetRepository(q, n)
       \/ BeginEmpty(q) \/ Store(q) \/ RefreshRefused(q) \/ UpdateTokens(q)
       \/ MarkValidated(q) \/ Clone(q) \/ Revoke(q) \/ Close(q) \/ Lose(q)
  \/ \E t \in Tokens : ComeDue(t)
  \/ \E a \in Accounts : Withdraw(a)

-----------------------------------------------------------------------------
(* Properties                                                              *)

Never(D) == \A d \in D : used[d] = 0

\* A request is between the provider and the row.
Unsettled(a) ==
  \E q \in Requests : req[q].of = a /\ req[q].pc \in {"update", "close"}

\* An active connection does not lock itself out: when its access token runs
\* out there is a refresh token that the provider accepts, whether the
\* provider replaces refresh tokens or keeps them (getCredentialsForConnection,
\* updateTokens), and also when several requests refresh it at once; a
\* connection that is made anew during a refresh can be overwritten.
StaysRefreshable ==
  Never({"lost", "bare", "withdrawn", "overtaken"}) =>
    \A a \in Accounts : Active(a) /\ ~Unsettled(a) =>
      grant[conn[a].refresh].refresh

\* Only a callback makes a connection active: a refresh that was under way
\* when the user disconnected does not bring the connection back.
OnlyCallbacksActivate == [][\A a \in Accounts :
  ~Active(a) /\ Active(a)' =>
    \E q \in Requests : req[q].kind = "callback" /\ req[q].of = a]_connVars

\* A disconnect that ends without an error has revoked the access token that
\* the connection has now, also after a refresh on the way (disconnectProvider,
\* which passes refreshed credentials to the provider).
DisconnectReachesProvider ==
  Never({"overlap", "failure"}) => \A q \in Requests :
    req[q].pc = "close" /\ req[q].of # None => ~grant[conn[req[q].of].access].access

\* A listing is the whole of the account's repositories or an error, at the
\* page limits too (listRepositories of both providers).
ListingIsWhole ==
  \A q \in Requests : req[q].pc = "validate" => req[q].listed = 1..req[q].total

=============================================================================
