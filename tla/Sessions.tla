------------------------------ MODULE Sessions ------------------------------
(***************************************************************************)
(* Accounts, logins and refresh tokens under concurrent requests.          *)
(*                                                                         *)
(* A request is at its next awaited database or Redis call.  Signing,      *)
(* hashing and checking a JWT touch no shared state and belong to the      *)
(* action before or after.  rotate is a transaction of several statements: *)
(* Claim locks the row of the token, Commit publishes the outcome.         *)
(***************************************************************************)
EXTENDS Naturals, FiniteSets, FiniteSetsExt

CONSTANTS
  Emails,      \* normalised addresses; a user row is named by its address
  Identities,  \* Google accounts (providerId)
  Browsers, Requests, Tokens,
  States,      \* values of the OAuth state parameter
  Limit,       \* how often each disturbance may happen
  Budget,      \* how many disturbances may happen in all
  None

\* overlap: a browser sends a request before the last one was answered;
\* lost: a request or its answer is lost; stale: an old copy of a cookie is
\* presented; race: a rotation commits while its family is being revoked.
Disturbances == {"overlap", "lost", "stale", "race", "expiry", "suspend"}

ASSUME NoneAssumption == None \notin Emails \cup Identities \cup Browsers
                           \cup Requests \cup Tokens \cup States
ASSUME LimitAssumption == Limit \in [Disturbances -> Nat] /\ Budget \in Nat

VARIABLES
  account,  \* user rows with their auth accounts
  token,    \* refresh token rows
  oauth,    \* Redis keys of the OAuth states
  jar,      \* the refresh cookie of each browser
  req,      \* requests
  used      \* disturbances that have happened

vars == <<account, token, oauth, jar, req, used>>

NoUser == [st |-> "ABSENT", password |-> FALSE, google |-> None]
NoToken == [st |-> "fresh", family |-> None, user |-> None,
            expired |-> FALSE]
Idle == [pc |-> "idle", by |-> None, email |-> None, id |-> None,
         state |-> None, token |-> None, next |-> None, todo |-> {}]

Init ==
  /\ account = [e \in Emails |-> NoUser]
  /\ token = [t \in Tokens |-> NoToken]
  /\ oauth = [s \in States |-> "fresh"]
  /\ jar = [b \in Browsers |-> None]
  /\ req = [q \in Requests |-> Idle]
  /\ used = [d \in Disturbances |-> 0]

Total == FoldSet(LAMBDA d, n : used[d] + n, 0, Disturbances \ {"race"})

SpendAll(D) ==
  /\ \A d \in D : used[d] < Limit[d]
  /\ Total + Cardinality(D \ {"race"}) <= Budget
  /\ used' = [d \in Disturbances |-> IF d \in D THEN used[d] + 1 ELSE used[d]]

Spend(d) == SpendAll({d})

Busy(b) == \E q \in Requests : req[q].by = b
IfBusy(b) == IF Busy(b) THEN {"overlap"} ELSE {}

Arrive(b, pc) == [Idle EXCEPT !.pc = pc, !.by = b]
Go(q, pc) == req' = [req EXCEPT ![q].pc = pc]

\* An error answer leaves the refresh cookie alone.
Refuse(q) == req' = [req EXCEPT ![q] = Idle]

-----------------------------------------------------------------------------
(* Password accounts                                                       *)

\* register finds the address free, or answers 409.
RegisterFind(q, b, e) ==
  /\ req[q].pc = "idle"
  /\ account[e].st = "ABSENT"
  /\ SpendAll(IfBusy(b))
  /\ req' = [req EXCEPT ![q] = [Arrive(b, "create") EXCEPT !.email = e]]
  /\ UNCHANGED <<account, token, oauth, jar>>

\* Slip: the creation is not awaited and fails.
RegisterUnawaited(q) ==
  /\ req[q].pc = "create"
  /\ Go(q, "issue")
  /\ UNCHANGED <<account, token, oauth, jar, used>>

\* The unique address decides between two registrations.
RegisterCreate(q) ==
  LET e == req[q].email IN
  /\ req[q].pc = "create"
  /\ IF account[e].st = "ABSENT"
     THEN /\ account' = [account EXCEPT
               ![e] = [st |-> "ACTIVE", password |-> TRUE, google |-> None]]
          /\ Go(q, "issue")
     ELSE Refuse(q) /\ UNCHANGED account
  /\ UNCHANGED <<token, oauth, jar, used>>

\* login with the right password; the row read here is not read again.
LoginFind(q, b, e) ==
  /\ req[q].pc = "idle"
  /\ account[e].st = "ACTIVE"
  /\ account[e].password
  /\ SpendAll(IfBusy(b))
  /\ req' = [req EXCEPT ![q] = [Arrive(b, "issue") EXCEPT !.email = e]]
  /\ UNCHANGED <<account, token, oauth, jar>>

-----------------------------------------------------------------------------
(* Google                                                                  *)

\* createState, before the redirect to Google.
GoogleBegin(s) ==
  /\ oauth[s] = "fresh"
  /\ oauth' = [oauth EXCEPT ![s] = "stored"]
  /\ UNCHANGED <<account, token, jar, req, used>>

\* The callback, from the browser whose state cookie is s: a state without its
\* cookie is refused before anything is touched.
GoogleCallback(q, b, s) ==
  /\ req[q].pc = "idle"
  /\ oauth[s] # "fresh"
  /\ SpendAll(IfBusy(b))
  /\ req' = [req EXCEPT ![q] = [Arrive(b, "consume") EXCEPT !.state = s]]
  /\ UNCHANGED <<account, token, oauth, jar>>

\* Google names identity i and its present address e; findOrCreateGoogleUser.
Profile(q, i, e) ==
  req' = [req EXCEPT ![q] =
            [Arrive(req[q].by, "account") EXCEPT !.id = i, !.email = e]]

\* GETDEL, then the exchange with Google.
ConsumeState(q, i, e) ==
  LET s == req[q].state IN
  /\ req[q].pc = "consume"
  /\ oauth' = [oauth EXCEPT ![s] = "gone"]
  /\ IF oauth[s] = "stored" THEN Profile(q, i, e) ELSE Refuse(q)
  /\ UNCHANGED <<account, token, jar, used>>

Bound(i) == {e \in Emails : account[e].google = i}

\* assertActiveUser on the row that the transaction returned.
Enter(q, e) ==
  IF account[e].st = "ACTIVE"
  THEN req' = [req EXCEPT
         ![q] = [req[q] EXCEPT !.pc = "issue", !.email = e, !.id = None]]
  ELSE Refuse(q)

\* upsertGoogleUser, first read: the identity leads to its user.
FindAccount(q) ==
  /\ req[q].pc = "account"
  /\ \/ Bound(req[q].id) = {} /\ Go(q, "user")
     \/ \E e \in Bound(req[q].id) : Enter(q, e)
  /\ UNCHANGED <<account, token, oauth, jar, used>>

\* Second read: by address.
FindUser(q) ==
  /\ req[q].pc = "user"
  /\ Go(q, IF account[req[q].email].st = "ABSENT" THEN "new" ELSE "link")
  /\ UNCHANGED <<account, token, oauth, jar, used>>

\* Slip: no unique index on (provider, providerId).
LinkUnchecked(q) ==
  LET e == req[q].email IN
  /\ req[q].pc = "link"
  /\ IF account[e].google = None
     THEN /\ account' = [account EXCEPT ![e].google = req[q].id]
          /\ Enter(q, e)
     ELSE Refuse(q) /\ UNCHANGED account
  /\ UNCHANGED <<token, oauth, jar, used>>

\* An identity has one user and a user one identity (unique indexes); a write
\* that meets another one's rolls the transaction back.
LinkAccount(q) ==
  LET e == req[q].email IN
  /\ req[q].pc = "link"
  /\ IF Bound(req[q].id) = {} /\ account[e].google = None
     THEN /\ account' = [account EXCEPT ![e].google = req[q].id]
          /\ Enter(q, e)
     ELSE Refuse(q) /\ UNCHANGED account
  /\ UNCHANGED <<token, oauth, jar, used>>

CreateGoogleUser(q) ==
  LET e == req[q].email IN
  /\ req[q].pc = "new"
  /\ IF Bound(req[q].id) = {} /\ account[e].st = "ABSENT"
     THEN /\ account' = [account EXCEPT ![e] =
               [st |-> "ACTIVE", password |-> FALSE, google |-> req[q].id]]
          /\ req' = [req EXCEPT ![q] = [req[q] EXCEPT !.pc = "issue", !.id = None]]
     ELSE Refuse(q) /\ UNCHANGED account
  /\ UNCHANGED <<token, oauth, jar, used>>

-----------------------------------------------------------------------------
(* Refresh tokens                                                          *)

Fresh(t) == token[t].st = "fresh"
Family(f) == {t \in Tokens : token[t].family = f}
Live(f) == {t \in Family(f) : token[t].st = "live"}

\* issueRefreshToken: a token that begins a family.
Issue(q, t) ==
  /\ req[q].pc = "issue"
  /\ Fresh(t)
  /\ token' = [token EXCEPT ![t] =
       [st |-> "live", family |-> t, user |-> req[q].email, expired |-> FALSE]]
  /\ req' = [req EXCEPT ![q] = [Arrive(req[q].by, "answer") EXCEPT !.next = t]]
  /\ UNCHANGED <<account, oauth, jar, used>>

\* refresh and logout, with the cookie or with an old copy of it.
Present(q, b, t, pc) ==
  /\ req[q].pc = "idle"
  /\ ~Fresh(t)
  /\ pc \in {"validate", "logout"}
  /\ SpendAll(IfBusy(b) \cup IF jar[b] = t THEN {} ELSE {"stale"})
  /\ req' = [req EXCEPT ![q] = [Arrive(b, pc) EXCEPT !.token = t]]
  /\ UNCHANGED <<account, token, oauth, jar>>

\* validateRefreshToken: an expired JWT is refused before its row is read, a
\* revoked token takes its family with it.
Validate(q) ==
  LET t == req[q].token IN
  /\ req[q].pc = "validate"
  /\ \/ token[t].expired /\ Refuse(q)
     \/ /\ ~token[t].expired
        /\ Go(q, IF token[t].st = "revoked" THEN "reuse" ELSE "owner")
  /\ UNCHANGED <<account, token, oauth, jar, used>>

\* findAuthenticatedUserById and assertActiveUser.
CheckOwner(q) ==
  /\ req[q].pc = "owner"
  /\ IF account[token[req[q].token].user].st = "ACTIVE"
     THEN Go(q, "rotate")
     ELSE Refuse(q)
  /\ UNCHANGED <<account, token, oauth, jar, used>>

\* A row updated by an open transaction; other updates of it wait.
Locked(t) == \E q \in Requests : req[q].pc = "commit" /\ req[q].token = t

\* Slip: the update does not ask whether the token is still unrevoked.
ClaimAnyway(q) ==
  /\ req[q].pc = "rotate"
  /\ ~Locked(req[q].token)
  /\ Go(q, "commit")
  /\ UNCHANGED <<account, token, oauth, jar, used>>

\* rotate: the conditional update.  Without a hit the token was used between
\* the validation and now, which counts as reuse.
Claim(q) ==
  LET t == req[q].token IN
  /\ req[q].pc = "rotate"
  /\ ~Locked(t)
  /\ Go(q, IF token[t].st = "live" THEN "commit" ELSE "reuse")
  /\ UNCHANGED <<account, token, oauth, jar, used>>

BeingRevoked(f) ==
  \E p \in Requests : req[p].pc = "revoke" /\ token[req[p].token].family = f

\* The successor is created and the transaction commits.
Commit(q, n) ==
  LET t == req[q].token IN
  /\ req[q].pc = "commit"
  /\ Fresh(n)
  /\ SpendAll(IF BeingRevoked(token[t].family) THEN {"race"} ELSE {})
  /\ token' = [token EXCEPT
       ![t].st = "revoked",
       ![n] = [st |-> "live", family |-> token[t].family,
               user |-> token[t].user, expired |-> FALSE]]
  /\ req' = [req EXCEPT ![q] = [req[q] EXCEPT !.pc = "answer", !.next = n]]
  /\ UNCHANGED <<account, oauth, jar>>

\* revokeFamily: the rows that the statement sees when it starts ...
SeeFamily(q) ==
  /\ req[q].pc = "reuse"
  /\ req' = [req EXCEPT ![q] =
       [req[q] EXCEPT !.pc = "revoke", !.todo = Live(token[req[q].token].family)]]
  /\ UNCHANGED <<account, token, oauth, jar, used>>

RevokeAll(T) ==
  token' = [t \in Tokens |->
    IF t \in T /\ token[t].st = "live" THEN [token[t] EXCEPT !.st = "revoked"]
    ELSE token[t]]

\* Slip: only the token that was presented is revoked.
RevokePresented(q) ==
  /\ req[q].pc = "revoke"
  /\ RevokeAll({req[q].token})
  /\ Refuse(q)
  /\ UNCHANGED <<account, oauth, jar, used>>

\* ... are revoked once nobody holds them.  Then the request is refused.
RevokeFamily(q) ==
  /\ req[q].pc = "revoke"
  /\ \A t \in req[q].todo : ~Locked(t)
  /\ RevokeAll(req[q].todo)
  /\ Refuse(q)
  /\ UNCHANGED <<account, oauth, jar, used>>

\* logout: revokeByTokenHash.
Logout(q) ==
  /\ req[q].pc = "logout"
  /\ ~Locked(req[q].token)
  /\ RevokeAll({req[q].token})
  /\ req' = [req EXCEPT ![q].pc = "answer", ![q].next = None]
  /\ UNCHANGED <<account, oauth, jar, used>>

\* Slip: refresh answers without the new cookie.
AnswerNoCookie(q) ==
  /\ req[q].pc = "answer"
  /\ jar' = IF req[q].token # None /\ req[q].next # None THEN jar
            ELSE [jar EXCEPT ![req[q].by] = req[q].next]
  /\ req' = [req EXCEPT ![q] = Idle]
  /\ UNCHANGED <<account, token, oauth, used>>

\* The answer sets the refresh cookie, or clears it after a logout.
Answer(q) ==
  /\ req[q].pc = "answer"
  /\ jar' = [jar EXCEPT ![req[q].by] = req[q].next]
  /\ req' = [req EXCEPT ![q] = Idle]
  /\ UNCHANGED <<account, token, oauth, used>>

-----------------------------------------------------------------------------
(* Disturbances                                                            *)

\* The process dies or the answer does not arrive; an open transaction is
\* rolled back.
Lose(q) ==
  /\ req[q].pc # "idle"
  /\ Spend("lost")
  /\ req' = [req EXCEPT ![q] = Idle]
  /\ UNCHANGED <<account, token, oauth, jar>>

Expire(t) ==
  /\ ~Fresh(t)
  /\ ~token[t].expired
  /\ Spend("expiry")
  /\ token' = [token EXCEPT ![t].expired = TRUE]
  /\ UNCHANGED <<account, oauth, jar, req>>

\* An administrator suspends a user; no code here does.
Suspend(e) ==
  /\ account[e].st = "ACTIVE"
  /\ Spend("suspend")
  /\ account' = [account EXCEPT ![e].st = "SUSPENDED"]
  /\ UNCHANGED <<token, oauth, jar, req>>

Next ==
  \/ \E q \in Requests :
       \/ \E b \in Browsers :
            \/ \E s \in States : GoogleCallback(q, b, s)
            \/ \E e \in Emails : RegisterFind(q, b, e) \/ LoginFind(q, b, e)
            \/ \E t \in Tokens, pc \in {"validate", "logout"} :
                 Present(q, b, t, pc)
       \/ \E i \in Identities, e \in Emails : ConsumeState(q, i, e)
       \/ \E t \in Tokens : Issue(q, t) \/ Commit(q, t)
       \/ RegisterCreate(q) \/ FindAccount(q) \/ FindUser(q) \/ LinkAccount(q)
       \/ CreateGoogleUser(q) \/ Validate(q) \/ CheckOwner(q) \/ Claim(q)
       \/ SeeFamily(q) \/ RevokeFamily(q) \/ Logout(q) \/ Answer(q) \/ Lose(q)
  \/ \E s \in States : GoogleBegin(s)
  \/ \E t \in Tokens : Expire(t)
  \/ \E e \in Emails : Suspend(e)

Spec == Init /\ [][Next]_vars

-----------------------------------------------------------------------------
(* Properties                                                              *)

Never(D) == \A d \in D : used[d] = 0

Users == [st : {"ABSENT", "ACTIVE", "SUSPENDED"}, password : BOOLEAN,
          google : Identities \cup {None}]
TokenRows == [st : {"fresh", "live", "revoked"}, family : Tokens \cup {None},
              user : Emails \cup {None}, expired : BOOLEAN]
Steps == {"idle", "create", "issue", "consume", "account", "user", "link",
          "new", "validate", "owner", "rotate", "commit", "reuse", "revoke",
          "logout", "answer"}
RequestStates == [pc : Steps, by : Browsers \cup {None},
                  email : Emails \cup {None}, id : Identities \cup {None},
                  state : States \cup {None}, token : Tokens \cup {None},
                  next : Tokens \cup {None}, todo : SUBSET Tokens]

\* Every variable stays in its range; a token has an owner with an account
\* from the moment it exists, and a request that presents one names one.
TypeOK ==
  /\ account \in [Emails -> Users]
  /\ token \in [Tokens -> TokenRows]
  /\ oauth \in [States -> {"fresh", "stored", "gone"}]
  /\ jar \in [Browsers -> Tokens \cup {None}]
  /\ req \in [Requests -> RequestStates]
  /\ used \in [Disturbances -> Nat]
  /\ \A d \in Disturbances : used[d] <= Limit[d]
  /\ \A t \in Tokens : ~Fresh(t) =>
       /\ token[t].user \in Emails
       /\ account[token[t].user].st # "ABSENT"

\* The refresh tokens keep what families promise: one live token at a time,
\* successors only of the live one, and no return from a closed family
\* (RefreshTokensRepository.rotate, however requests interleave).
Contract == INSTANCE TokenFamilies
              WITH Tokens <- Tokens, None <- None,
                   state <- [t \in Tokens |-> token[t].st],
                   family <- [t \in Tokens |-> token[t].family]

KeepsFamilies == Contract!Spec

\* CONTEXT.md:107, "Refresh token reuse revokes the token family": when a
\* request has been refused for reuse its family is closed, unless a rotation
\* committed between the start and the end of the revoking statement.
ReuseClosesFamily == [][Never({"race"}) => \A q \in Requests :
  req[q].pc = "revoke" /\ req'[q].pc = "idle" /\ UNCHANGED used =>
    \A t \in Family(token[req[q].token].family) : token'[t].st = "revoked"]_vars

\* A browser that waits for its answers is never logged out by the service:
\* its cookie is always the valid token of its family (TokenService.rotate and
\* AuthController.refresh must agree).
CookieIsValid ==
  Never({"overlap", "lost", "stale"}) =>
    \A b \in Browsers : jar[b] # None /\ ~Busy(b) =>
      token[jar[b]].st = "live"

\* An identity always enters as the same user, also when its address at Google
\* changes or two first logins meet (UsersRepository.upsertGoogleUser).
IdentityKeepsUser == [][\A i \in Identities :
  /\ Bound(i) # {} => Bound(i)' = Bound(i)
  /\ \A q \in Requests :
       req[q].id = i /\ req'[q].pc = "issue" => {req'[q].email} = Bound(i)']_vars

=============================================================================
