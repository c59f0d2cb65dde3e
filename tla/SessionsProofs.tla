---------------------------- MODULE SessionsProofs ----------------------------
(***************************************************************************)
(* Sessions is well typed and implements TokenFamilies: whatever requests  *)
(* do concurrently, the refresh tokens keep the promise of their families. *)
(*                                                                         *)
(* The induction needs what a request knows of its token between two of    *)
(* its calls (ReqInv), that a row lock has one holder (OneLocker), and the *)
(* inductive invariant of the families.  From there on: a reuse closes its *)
(* family (Seen), a browser that waits keeps a live cookie (CookieInv) and *)
(* an identity keeps its user (Identified).                                *)
(***************************************************************************)
EXTENDS Sessions, TLAPS

Proof == INSTANCE TokenFamiliesProofs
           WITH Tokens <- Tokens, None <- None,
                state <- [t \in Tokens |-> token[t].st],
                family <- [t \in Tokens |-> token[t].family]

UsedOK ==
  /\ used \in [Disturbances -> Nat]
  /\ \A d \in Disturbances : used[d] <= Limit[d]

OwnersExist ==
  \A t \in Tokens : ~Fresh(t) =>
    /\ token[t].user \in Emails
    /\ account[token[t].user].st # "ABSENT"

WithEmail == {"create", "issue", "account", "user", "link", "new"}
WithToken ==
  {"validate", "owner", "rotate", "commit", "reuse", "revoke", "logout"}

ReqInv ==
  \A q \in Requests :
    /\ req[q].pc \in WithEmail => req[q].email \in Emails
    /\ req[q].pc \in {"issue", "link"} => account[req[q].email].st # "ABSENT"
    /\ req[q].pc \in WithToken => req[q].token \in Tokens /\ ~Fresh(req[q].token)
    /\ req[q].pc = "commit" => token[req[q].token].st = "live"
    /\ req[q].pc = "revoke" =>
         req[q].todo \subseteq Family(token[req[q].token].family)

OneLocker ==
  \A p, q \in Requests :
    /\ req[p].pc = "commit"
    /\ req[q].pc = "commit"
    /\ req[p].token = req[q].token
    => p = q

FamiliesInv ==
  /\ \A t \in Tokens : token[t].st # "fresh" =>
       /\ token[t].family \in Tokens
       /\ token[token[t].family].st # "fresh"
  /\ \A t, u \in Tokens :
       /\ token[t].st = "live"
       /\ token[u].st = "live"
       /\ token[t].family = token[u].family
       => t = u

\* A token that is not issued belongs to no family.
Bare == \A t \in Tokens : token[t].st = "fresh" => token[t].family = None

IInv == TypeOK /\ ReqInv /\ OneLocker /\ FamiliesInv /\ Bare

LEMMA InvInit == Init => IInv
<1> SUFFICES ASSUME Init PROVE IInv
  OBVIOUS
<1>1. TypeOK
  BY LimitAssumption
     DEF Init, TypeOK, Users, TokenRows, RequestStates, Steps, NoUser, NoToken,
         Idle, Fresh
<1>2. ReqInv /\ OneLocker /\ FamiliesInv /\ Bare
  BY DEF Init, ReqInv, OneLocker, FamiliesInv, Bare, Idle, NoToken, WithEmail,
         WithToken
<1> QED BY <1>1, <1>2 DEF IInv

LEMMA SpendingKeepsUsed ==
  ASSUME TypeOK, NEW D \in SUBSET Disturbances, SpendAll(D)
  PROVE  UsedOK'
  BY LimitAssumption DEF TypeOK, SpendAll, UsedOK

-----------------------------------------------------------------------------
(* Requests that touch neither accounts nor tokens                         *)

\* What a step may do to one request without any other variable.
LEMMA RequestMoves ==
  ASSUME IInv, NEW q \in Requests, NEW r \in RequestStates,
         req' = [req EXCEPT ![q] = r], UNCHANGED <<account, token>>,
         UsedOK', oauth' \in [States -> {"fresh", "stored", "gone"}],
         jar' \in [Browsers -> Tokens \cup {None}],
         r.pc \in WithEmail => r.email \in Emails,
         r.pc \in {"issue", "link"} => account[r.email].st # "ABSENT",
         r.pc \in WithToken => r.token \in Tokens /\ ~Fresh(r.token),
         r.pc = "commit" => token[r.token].st = "live" /\ ~Locked(r.token),
         r.pc = "revoke" => r.todo \subseteq Family(token[r.token].family)
  PROVE  IInv'
<1>1. TypeOK'
  BY DEF IInv, TypeOK, UsedOK, Fresh
<1>2. ReqInv'
  BY DEF IInv, TypeOK, ReqInv, Fresh, Family
<1>3. OneLocker'
  BY DEF IInv, TypeOK, OneLocker, Locked
<1>4. FamiliesInv' /\ Bare'
  BY DEF IInv, FamiliesInv, Bare
<1> QED BY <1>1, <1>2, <1>3, <1>4 DEF IInv

LEMMA IdleIsState == Idle \in RequestStates
  BY DEF Idle, RequestStates, Steps

LEMMA ArriveIsState ==
  ASSUME NEW b \in Browsers \cup {None}, NEW pc \in Steps
  PROVE  Arrive(b, pc) \in RequestStates
  BY DEF Arrive, Idle, RequestStates, Steps

\* An answered or refused request is idle.
LEMMA EndKeepsInv ==
  ASSUME IInv, NEW q \in Requests, req' = [req EXCEPT ![q] = Idle],
         UNCHANGED <<account, token>>, UsedOK',
         oauth' \in [States -> {"fresh", "stored", "gone"}],
         jar' \in [Browsers -> Tokens \cup {None}]
  PROVE  IInv'
  BY RequestMoves, IdleIsState DEF Idle, WithEmail, WithToken

\* A request that goes on as it is, to another step.
LEMMA GoKeepsInv ==
  ASSUME IInv, NEW q \in Requests, NEW pc \in Steps, Go(q, pc),
         UNCHANGED <<account, token, oauth, jar, used>>,
         pc \in WithEmail => req[q].pc \in WithEmail,
         pc # "issue",
         pc = "link" => account[req[q].email].st # "ABSENT",
         pc \in WithToken => req[q].pc \in WithToken,
         pc = "commit" => token[req[q].token].st = "live" /\ ~Locked(req[q].token),
         pc # "revoke"
  PROVE  IInv'
<1> DEFINE r == [req[q] EXCEPT !.pc = pc]
<1>1. r \in RequestStates /\ req' = [req EXCEPT ![q] = r]
  BY DEF IInv, TypeOK, RequestStates, Go
<1>2. /\ UsedOK'
      /\ oauth' \in [States -> {"fresh", "stored", "gone"}]
      /\ jar' \in [Browsers -> Tokens \cup {None}]
  BY DEF IInv, TypeOK, UsedOK
<1>3. /\ r.pc = pc
      /\ r.email = req[q].email
      /\ r.token = req[q].token
  BY DEF IInv, TypeOK, RequestStates
<1>4. /\ req[q].pc \in WithEmail => req[q].email \in Emails
      /\ req[q].pc \in WithToken => req[q].token \in Tokens /\ ~Fresh(req[q].token)
  BY DEF IInv, ReqInv
<1> HIDE DEF r
<1> QED BY <1>1, <1>2, <1>3, <1>4, RequestMoves

LEMMA RefuseKeepsInv ==
  ASSUME IInv, NEW q \in Requests, Refuse(q),
         UNCHANGED <<account, token, oauth, jar, used>>
  PROVE  IInv'
  BY EndKeepsInv DEF Refuse, IInv, TypeOK, UsedOK

\* A request arrives.
LEMMA ArrivalKeepsInv ==
  ASSUME IInv, NEW q \in Requests, NEW D \in SUBSET Disturbances, SpendAll(D),
         UNCHANGED <<account, token, oauth, jar>>,
         NEW r \in RequestStates, req' = [req EXCEPT ![q] = r],
         r.pc \in {"create", "issue", "consume", "validate", "logout"},
         r.pc \in {"create", "issue"} => r.email \in Emails,
         r.pc = "issue" => account[r.email].st # "ABSENT",
         r.pc \in {"validate", "logout"} => r.token \in Tokens /\ ~Fresh(r.token)
  PROVE  IInv'
<1>1. /\ UsedOK'
      /\ oauth' \in [States -> {"fresh", "stored", "gone"}]
      /\ jar' \in [Browsers -> Tokens \cup {None}]
  BY SpendingKeepsUsed DEF IInv, TypeOK
<1> QED BY <1>1, RequestMoves DEF WithEmail, WithToken

-----------------------------------------------------------------------------
(* Accounts                                                                *)

\* A step that gives a user row another value, once a user for ever a user;
\* a request may enter as that user.
LEMMA AccountMoves ==
  ASSUME IInv, NEW e \in Emails, NEW u \in Users, u.st # "ABSENT",
         account' = [account EXCEPT ![e] = u], UNCHANGED <<token, oauth, jar>>,
         UsedOK', req' \in [Requests -> RequestStates],
         \A q \in Requests : \/ req'[q] = req[q]
                             \/ req'[q] = Idle
                             \/ req'[q].pc = "issue" /\ req'[q].email = e
  PROVE  IInv'
<1>1. account' \in [Emails -> Users]
  BY DEF IInv, TypeOK
<1>2. \A x \in Emails : account[x].st # "ABSENT" => account'[x].st # "ABSENT"
  BY DEF IInv, TypeOK
<1>3. account'[e].st # "ABSENT"
  BY DEF IInv, TypeOK
<1>4. TypeOK'
  <2>1. \A t \in Tokens : ~Fresh(t) =>
          token[t].user \in Emails /\ account'[token[t].user].st # "ABSENT"
    BY <1>2 DEF IInv, TypeOK
  <2> QED BY <1>1, <2>1 DEF IInv, TypeOK, UsedOK, Fresh
<1>5. ReqInv'
  <2>1. SUFFICES ASSUME NEW p \in Requests
        PROVE  /\ req'[p].pc \in WithEmail => req'[p].email \in Emails
               /\ req'[p].pc \in {"issue", "link"} => account'[req'[p].email].st # "ABSENT"
               /\ req'[p].pc \in WithToken =>
                    req'[p].token \in Tokens /\ ~Fresh(req'[p].token)
               /\ req'[p].pc = "commit" => token[req'[p].token].st = "live"
               /\ req'[p].pc = "revoke" =>
                    req'[p].todo \subseteq Family(token[req'[p].token].family)
    BY DEF ReqInv, Fresh, Family
  <2>2. \/ req'[p] = req[p]
        \/ req'[p] = Idle
        \/ req'[p].pc = "issue" /\ req'[p].email = e
    OBVIOUS
  <2>3. CASE req'[p] = req[p]
    BY <1>2, <2>3 DEF IInv, ReqInv, WithEmail
  <2>4. CASE req'[p] = Idle
    BY <2>4 DEF Idle, WithEmail, WithToken
  <2>5. CASE req'[p].pc = "issue" /\ req'[p].email = e
    BY <1>3, <2>5 DEF WithEmail, WithToken
  <2> QED BY <2>2, <2>3, <2>4, <2>5
<1>6. OneLocker'
  BY DEF IInv, TypeOK, OneLocker, Idle
<1>7. FamiliesInv' /\ Bare'
  BY DEF IInv, FamiliesInv, Bare
<1> QED BY <1>4, <1>5, <1>6, <1>7 DEF IInv

\* The edits of a request record keep its type.
LEMMA FieldTyped ==
  ASSUME NEW x \in RequestStates
  PROVE  /\ \A pc \in {"issue", "answer", "revoke"} :
              [x EXCEPT !.pc = pc] \in RequestStates
         /\ \A e \in Emails : [x EXCEPT !.email = e] \in RequestStates
         /\ [x EXCEPT !.id = None] \in RequestStates
         /\ \A n \in Tokens \cup {None} : [x EXCEPT !.next = n] \in RequestStates
         /\ \A T \in SUBSET Tokens : [x EXCEPT !.todo = T] \in RequestStates
<1>1. \A pc \in {"issue", "answer", "revoke"} : [x EXCEPT !.pc = pc] \in RequestStates
  BY DEF RequestStates, Steps
<1>2. \A e \in Emails : [x EXCEPT !.email = e] \in RequestStates
  BY DEF RequestStates
<1>3. [x EXCEPT !.id = None] \in RequestStates
  BY DEF RequestStates
<1>4. \A n \in Tokens \cup {None} : [x EXCEPT !.next = n] \in RequestStates
  BY DEF RequestStates
<1>5. \A T \in SUBSET Tokens : [x EXCEPT !.todo = T] \in RequestStates
  BY DEF RequestStates
<1> QED BY <1>1, <1>2, <1>3, <1>4, <1>5

LEMMA EnterEdit ==
  ASSUME NEW x \in RequestStates, NEW e \in Emails
  PROVE  LET y == [x EXCEPT !.pc = "issue", !.email = e, !.id = None]
         IN  y \in RequestStates /\ y.pc = "issue" /\ y.email = e
<1>1. [x EXCEPT !.pc = "issue", !.email = e, !.id = None] \in RequestStates
  BY FieldTyped
<1> QED BY <1>1 DEF RequestStates

LEMMA FoundEdit ==
  ASSUME NEW x \in RequestStates
  PROVE  LET y == [x EXCEPT !.pc = "issue", !.id = None]
         IN  y \in RequestStates /\ y.pc = "issue" /\ y.email = x.email
<1>1. [x EXCEPT !.pc = "issue", !.id = None] \in RequestStates
  BY FieldTyped
<1> QED BY <1>1 DEF RequestStates

LEMMA AnswerEdit ==
  ASSUME NEW x \in RequestStates, NEW n \in Tokens \cup {None}
  PROVE  LET y == [x EXCEPT !.pc = "answer", !.next = n]
         IN  y \in RequestStates /\ y.pc = "answer"
<1>1. [x EXCEPT !.pc = "answer", !.next = n] \in RequestStates
  BY FieldTyped
<1> QED BY <1>1 DEF RequestStates

LEMMA RevokeEdit ==
  ASSUME NEW x \in RequestStates, NEW T \in SUBSET Tokens
  PROVE  LET y == [x EXCEPT !.pc = "revoke", !.todo = T]
         IN  /\ y \in RequestStates /\ y.pc = "revoke"
             /\ y.todo = T /\ y.token = x.token
<1>1. [x EXCEPT !.pc = "revoke", !.todo = T] \in RequestStates
  BY FieldTyped
<1> QED BY <1>1 DEF RequestStates

LEMMA RequestIs == ASSUME IInv, NEW q \in Requests PROVE req[q] \in RequestStates
  BY DEF IInv, TypeOK

\* Enter on a row that is there.
LEMMA EnterKeepsInv ==
  ASSUME IInv, NEW q \in Requests, NEW e \in Emails, Enter(q, e),
         UNCHANGED <<account, token, oauth, jar, used>>
  PROVE  IInv'
<1>1. CASE account[e].st = "ACTIVE"
  <2> DEFINE r == [req[q] EXCEPT !.pc = "issue", !.email = e, !.id = None]
  <2>0. req' = [req EXCEPT ![q] = r]
    BY <1>1, Zenon DEF Enter
  <2>1. r \in RequestStates
    BY RequestIs, EnterEdit
  <2>2. r.pc = "issue" /\ r.email = e
    BY DEF IInv, TypeOK, RequestStates
  <2>3. /\ UsedOK'
        /\ oauth' \in [States -> {"fresh", "stored", "gone"}]
        /\ jar' \in [Browsers -> Tokens \cup {None}]
    BY DEF IInv, TypeOK, UsedOK
  <2> HIDE DEF r
  <2> QED BY <1>1, <2>0, <2>1, <2>2, <2>3, RequestMoves DEF WithEmail, WithToken
<1>2. CASE account[e].st # "ACTIVE"
  BY <1>2, RefuseKeepsInv DEF Enter
<1> QED BY <1>1, <1>2

LEMMA RegisterFindKeepsInv ==
  ASSUME IInv, NEW q \in Requests, NEW b \in Browsers, NEW e \in Emails,
         RegisterFind(q, b, e)
  PROVE  IInv'
<1> DEFINE r == [Arrive(b, "create") EXCEPT !.email = e]
<1>1. r \in RequestStates /\ r.pc = "create" /\ r.email = e
  BY DEF Arrive, Idle, RequestStates, Steps
<1>2. IfBusy(b) \in SUBSET Disturbances
  BY DEF IfBusy, Disturbances
<1>3. req' = [req EXCEPT ![q] = r] /\ SpendAll(IfBusy(b))
      /\ UNCHANGED <<account, token, oauth, jar>>
  BY DEF RegisterFind
<1> HIDE DEF r
<1> QED BY <1>1, <1>2, <1>3, ArrivalKeepsInv

LEMMA LoginFindKeepsInv ==
  ASSUME IInv, NEW q \in Requests, NEW b \in Browsers, NEW e \in Emails,
         LoginFind(q, b, e)
  PROVE  IInv'
<1> DEFINE r == [Arrive(b, "issue") EXCEPT !.email = e]
<1>1. r \in RequestStates /\ r.pc = "issue" /\ r.email = e
  BY DEF Arrive, Idle, RequestStates, Steps
<1>2. IfBusy(b) \in SUBSET Disturbances
  BY DEF IfBusy, Disturbances
<1>3. req' = [req EXCEPT ![q] = r] /\ SpendAll(IfBusy(b))
      /\ UNCHANGED <<account, token, oauth, jar>> /\ account[e].st # "ABSENT"
  BY DEF LoginFind
<1> HIDE DEF r
<1> QED BY <1>1, <1>2, <1>3, ArrivalKeepsInv

LEMMA GoogleCallbackKeepsInv ==
  ASSUME IInv, NEW q \in Requests, NEW b \in Browsers, NEW s \in States,
         GoogleCallback(q, b, s)
  PROVE  IInv'
<1> DEFINE r == [Arrive(b, "consume") EXCEPT !.state = s]
<1>1. r \in RequestStates /\ r.pc = "consume"
  BY DEF Arrive, Idle, RequestStates, Steps
<1>2. IfBusy(b) \in SUBSET Disturbances
  BY DEF IfBusy, Disturbances
<1>3. req' = [req EXCEPT ![q] = r] /\ SpendAll(IfBusy(b))
      /\ UNCHANGED <<account, token, oauth, jar>>
  BY DEF GoogleCallback
<1> HIDE DEF r
<1> QED BY <1>1, <1>2, <1>3, ArrivalKeepsInv

LEMMA PresentKeepsInv ==
  ASSUME IInv, NEW q \in Requests, NEW b \in Browsers, NEW t \in Tokens,
         NEW pc \in {"validate", "logout"}, Present(q, b, t, pc)
  PROVE  IInv'
<1> DEFINE r == [Arrive(b, pc) EXCEPT !.token = t]
<1> DEFINE D == IfBusy(b) \cup IF jar[b] = t THEN {} ELSE {"stale"}
<1>1. r \in RequestStates /\ r.pc = pc /\ r.token = t
  BY DEF Arrive, Idle, RequestStates, Steps
<1>2. D \in SUBSET Disturbances
  BY DEF IfBusy, Disturbances
<1>3. req' = [req EXCEPT ![q] = r] /\ SpendAll(D) /\ ~Fresh(t)
      /\ UNCHANGED <<account, token, oauth, jar>>
  BY DEF Present
<1> HIDE DEF r, D
<1> QED BY <1>1, <1>2, <1>3, ArrivalKeepsInv

\* The state of an identity's login is used up.
LEMMA ConsumeStateKeepsInv ==
  ASSUME IInv, NEW q \in Requests, NEW i \in Identities, NEW e \in Emails,
         ConsumeState(q, i, e)
  PROVE  IInv'
<1> DEFINE r == [Arrive(req[q].by, "account") EXCEPT !.id = i, !.email = e]
<1>1. r \in RequestStates /\ r.pc = "account" /\ r.email = e
  BY DEF IInv, TypeOK, Arrive, Idle, RequestStates, Steps
<1>2. /\ UsedOK'
      /\ oauth' \in [States -> {"fresh", "stored", "gone"}]
      /\ jar' \in [Browsers -> Tokens \cup {None}]
      /\ UNCHANGED <<account, token>>
  BY DEF IInv, TypeOK, UsedOK, ConsumeState
<1>3. req' = [req EXCEPT ![q] = r] \/ req' = [req EXCEPT ![q] = Idle]
  BY DEF ConsumeState, Profile, Refuse
<1> HIDE DEF r
<1> QED BY <1>1, <1>2, <1>3, RequestMoves, EndKeepsInv DEF WithEmail, WithToken

LEMMA FindAccountKeepsInv ==
  ASSUME IInv, NEW q \in Requests, FindAccount(q)
  PROVE  IInv'
<1>1. CASE Go(q, "user")
  BY <1>1, GoKeepsInv DEF FindAccount, WithEmail, WithToken, Steps
<1>2. CASE \E e \in Bound(req[q].id) : Enter(q, e)
  BY <1>2, EnterKeepsInv DEF FindAccount, Bound
<1> QED BY <1>1, <1>2 DEF FindAccount

LEMMA FindUserKeepsInv ==
  ASSUME IInv, NEW q \in Requests, FindUser(q)
  PROVE  IInv'
  BY GoKeepsInv DEF FindUser, WithEmail, WithToken, Steps

LEMMA RegisterCreateKeepsInv ==
  ASSUME IInv, NEW q \in Requests, RegisterCreate(q)
  PROVE  IInv'
<1> DEFINE e == req[q].email
<1> DEFINE u == [st |-> "ACTIVE", password |-> TRUE, google |-> None]
<1> DEFINE r == [req[q] EXCEPT !.pc = "issue"]
<1>1. e \in Emails /\ u \in Users /\ u.st # "ABSENT"
  BY DEF IInv, ReqInv, RegisterCreate, WithEmail, Users
<1>2. CASE account[e].st = "ABSENT"
  <2>1. account' = [account EXCEPT ![e] = u] /\ Go(q, "issue")
        /\ UNCHANGED <<token, oauth, jar, used>>
    BY <1>2, Zenon DEF RegisterCreate
  <2>2. r \in RequestStates /\ r.pc = "issue" /\ r.email = e
    BY DEF IInv, TypeOK, RequestStates, Steps
  <2>3. req' = [req EXCEPT ![q] = r]
    BY <2>1 DEF IInv, TypeOK, RequestStates, Go
  <2>4. UsedOK'
    BY <2>1 DEF IInv, TypeOK, UsedOK
  <2> HIDE DEF r
  <2>5. /\ req' \in [Requests -> RequestStates]
        /\ req'[q] = r
        /\ \A p \in Requests \ {q} : req'[p] = req[p]
    BY <2>2, <2>3 DEF IInv, TypeOK
  <2> QED BY <1>1, <2>1, <2>2, <2>4, <2>5, AccountMoves
<1>3. CASE account[e].st # "ABSENT"
  BY <1>3, RefuseKeepsInv DEF RegisterCreate
<1> QED BY <1>2, <1>3

LEMMA LinkAccountKeepsInv ==
  ASSUME IInv, NEW q \in Requests, LinkAccount(q)
  PROVE  IInv'
<1> DEFINE e == req[q].email
<1> DEFINE u == [account[e] EXCEPT !.google = req[q].id]
<1>0. /\ e \in Emails
      /\ account[e].st # "ABSENT"
      /\ req[q].id \in Identities \cup {None}
  BY DEF IInv, TypeOK, ReqInv, LinkAccount, WithEmail, RequestStates
<1>1. CASE Bound(req[q].id) = {} /\ account[e].google = None
  <2>1. account' = [account EXCEPT ![e] = u] /\ Enter(q, e)
        /\ UNCHANGED <<token, oauth, jar, used>>
    BY <1>1 DEF LinkAccount
  <2>2. u \in Users /\ u.st = account[e].st
    BY <1>0 DEF IInv, TypeOK, Users
  <2>3. UsedOK'
    BY <2>1 DEF IInv, TypeOK, UsedOK
  <2>4. CASE account[e].st = "ACTIVE"
    <3> DEFINE r == [req[q] EXCEPT !.pc = "issue", !.email = e, !.id = None]
    <3>1. req' = [req EXCEPT ![q] = r]
      BY <2>1, <2>4, Zenon DEF Enter
    <3>2. r \in RequestStates /\ r.pc = "issue" /\ r.email = e
      BY <1>0, RequestIs, EnterEdit
    <3> HIDE DEF r
    <3>3. /\ req' \in [Requests -> RequestStates]
          /\ req'[q] = r
          /\ \A p \in Requests \ {q} : req'[p] = req[p]
      BY <3>1, <3>2 DEF IInv, TypeOK
    <3> QED BY <1>0, <2>1, <2>2, <2>3, <2>4, <3>2, <3>3, AccountMoves
  <2>5. CASE account[e].st # "ACTIVE"
    <3>1. req' = [req EXCEPT ![q] = Idle]
      BY <2>1, <2>5 DEF Enter, Refuse
    <3>2. /\ req' \in [Requests -> RequestStates]
          /\ \A p \in Requests : req'[p] = req[p] \/ req'[p] = Idle
      BY <3>1, IdleIsState DEF IInv, TypeOK
    <3> QED BY <1>0, <2>1, <2>2, <2>3, <3>2, AccountMoves
  <2> QED BY <2>4, <2>5
<1>2. CASE ~(Bound(req[q].id) = {} /\ account[e].google = None)
  BY <1>2, RefuseKeepsInv DEF LinkAccount
<1> QED BY <1>1, <1>2

LEMMA CreateGoogleUserKeepsInv ==
  ASSUME IInv, NEW q \in Requests, CreateGoogleUser(q)
  PROVE  IInv'
<1> DEFINE e == req[q].email
<1> DEFINE u == [st |-> "ACTIVE", password |-> FALSE, google |-> req[q].id]
<1> DEFINE r == [req[q] EXCEPT !.pc = "issue", !.id = None]
<1>1. e \in Emails /\ u \in Users /\ u.st # "ABSENT"
  BY DEF IInv, TypeOK, ReqInv, CreateGoogleUser, WithEmail, Users, RequestStates
<1>2. CASE Bound(req[q].id) = {} /\ account[e].st = "ABSENT"
  <2>1. account' = [account EXCEPT ![e] = u] /\ req' = [req EXCEPT ![q] = r]
        /\ UNCHANGED <<token, oauth, jar, used>>
    BY <1>2, Zenon DEF CreateGoogleUser
  <2>2. r \in RequestStates /\ r.pc = "issue" /\ r.email = e
    BY RequestIs, FoundEdit
  <2>3. UsedOK'
    BY <2>1 DEF IInv, TypeOK, UsedOK
  <2> HIDE DEF r
  <2>4. /\ req' \in [Requests -> RequestStates]
        /\ req'[q] = r
        /\ \A p \in Requests \ {q} : req'[p] = req[p]
    BY <2>1, <2>2 DEF IInv, TypeOK
  <2> QED BY <1>1, <2>1, <2>2, <2>3, <2>4, AccountMoves
<1>3. CASE ~(Bound(req[q].id) = {} /\ account[e].st = "ABSENT")
  BY <1>3, RefuseKeepsInv DEF CreateGoogleUser
<1> QED BY <1>2, <1>3

LEMMA SuspendKeepsInv ==
  ASSUME IInv, NEW e \in Emails, Suspend(e)
  PROVE  IInv'
<1> DEFINE u == [account[e] EXCEPT !.st = "SUSPENDED"]
<1>1. u \in Users /\ u.st # "ABSENT"
  BY DEF IInv, TypeOK, Users
<1>2. account' = [account EXCEPT ![e] = u] /\ UNCHANGED <<token, oauth, jar, req>>
  BY Zenon DEF Suspend
<1>3. UsedOK'
  BY SpendingKeepsUsed DEF Suspend, Spend, Disturbances, IInv
<1>4. req' \in [Requests -> RequestStates] /\ \A p \in Requests : req'[p] = req[p]
  BY <1>2 DEF IInv, TypeOK
<1> HIDE DEF u
<1> QED BY <1>1, <1>2, <1>3, <1>4, AccountMoves

-----------------------------------------------------------------------------
(* Tokens                                                                  *)

\* A step as TokenFamilies sees it.
FamilyStep ==
  [Contract!Next]_<<[t \in Tokens |-> token[t].st],
                    [t \in Tokens |-> token[t].family]>>

LEMMA FamiliesMove ==
  ASSUME IInv, FamilyStep, token' \in [Tokens -> TokenRows]
  PROVE  FamiliesInv'
<1>1. Proof!Inv
  BY DEF IInv, TypeOK, TokenRows, FamiliesInv, Proof!Inv, Proof!TypeInv,
         Proof!Rooted, Proof!OneLive
<1>2. [Proof!Next]_<<[t \in Tokens |-> token[t].st],
                     [t \in Tokens |-> token[t].family]>>
  BY Zenon DEF FamilyStep, Contract!Next, Contract!Open, Contract!Close,
         Contract!HandOver, Proof!Next, Proof!Open, Proof!Close, Proof!HandOver
<1>3. Proof!Inv'
  BY <1>1, <1>2, Proof!StepKeepsInv
<1> QED BY <1>3 DEF FamiliesInv, Proof!Inv, Proof!TypeInv, Proof!Rooted,
                    Proof!OneLive

\* Rows of tokens keep their owner and family; a row that is locked stays live.
LEMMA TokenMoves ==
  ASSUME IInv, FamilyStep, token' \in [Tokens -> TokenRows],
         UNCHANGED <<account, oauth>>, UsedOK',
         jar' \in [Browsers -> Tokens \cup {None}],
         req' \in [Requests -> RequestStates],
         \A p \in Requests :
           req'[p] = req[p] \/ req'[p].pc \in {"idle", "answer"},
         \A t \in Tokens : ~Fresh(t) =>
           /\ token'[t].st # "fresh"
           /\ token'[t].family = token[t].family
           /\ token'[t].user = token[t].user,
         \A t \in Tokens : Fresh(t) /\ token'[t].st # "fresh" =>
           token'[t].user \in Emails /\ account[token'[t].user].st # "ABSENT",
         \A t \in Tokens : token'[t].st = "fresh" => token'[t] = token[t],
         \A p \in Requests : req[p].pc = "commit" /\ req'[p] = req[p] =>
           token'[req[p].token].st = "live"
  PROVE  IInv'
<1>1. TypeOK'
  <2>1. \A t \in Tokens : token'[t].st # "fresh" =>
          token'[t].user \in Emails /\ account[token'[t].user].st # "ABSENT"
    BY DEF IInv, TypeOK, Fresh
  <2> QED BY <2>1 DEF IInv, TypeOK, UsedOK, Fresh
<1>2. ReqInv'
  <2>1. SUFFICES ASSUME NEW p \in Requests
        PROVE  /\ req'[p].pc \in WithEmail => req'[p].email \in Emails
               /\ req'[p].pc \in {"issue", "link"} =>
                    account[req'[p].email].st # "ABSENT"
               /\ req'[p].pc \in WithToken =>
                    req'[p].token \in Tokens /\ token'[req'[p].token].st # "fresh"
               /\ req'[p].pc = "commit" => token'[req'[p].token].st = "live"
               /\ req'[p].pc = "revoke" => \A t \in req'[p].todo :
                    t \in Tokens /\ token'[t].family = token'[req'[p].token].family
    BY DEF ReqInv, Fresh, Family
  <2>2. CASE req'[p].pc \in {"idle", "answer"}
    BY <2>2 DEF WithEmail, WithToken
  <2>3. CASE req'[p] = req[p] /\ req[p].pc # "revoke"
    BY <2>3 DEF IInv, ReqInv, WithEmail, WithToken, Fresh
  <2>4. CASE req'[p] = req[p] /\ req[p].pc = "revoke"
    <3>1. /\ req[p].token \in Tokens /\ ~Fresh(req[p].token)
          /\ req[p].todo \subseteq Family(token[req[p].token].family)
      BY <2>4 DEF IInv, ReqInv, WithToken
    <3>2. token[req[p].token].family \in Tokens
      BY <3>1 DEF IInv, FamiliesInv, Fresh
    <3>3. \A t \in req[p].todo :
            t \in Tokens /\ token[t].family = token[req[p].token].family
      BY <3>1 DEF Family
    <3>4. \A t \in req[p].todo : ~Fresh(t)
      BY <3>2, <3>3, NoneAssumption DEF IInv, Bare, Fresh
    <3> QED BY <2>4, <3>1, <3>3, <3>4 DEF WithEmail, WithToken, Fresh
  <2> QED BY <2>2, <2>3, <2>4
<1>3. OneLocker'
  BY DEF IInv, OneLocker
<1>4. FamiliesInv'
  BY FamiliesMove
<1>5. Bare'
  BY DEF IInv, Bare
<1> QED BY <1>1, <1>2, <1>3, <1>4, <1>5 DEF IInv

LEMMA IssueOpens ==
  ASSUME IInv, NEW q \in Requests, NEW t \in Tokens, Issue(q, t)
  PROVE  FamilyStep /\ IInv'
<1> DEFINE row == [st |-> "live", family |-> t, user |-> req[q].email,
                   expired |-> FALSE]
<1> DEFINE r == [Arrive(req[q].by, "answer") EXCEPT !.next = t]
<1>1. /\ req[q].email \in Emails
      /\ account[req[q].email].st # "ABSENT"
  BY DEF IInv, ReqInv, Issue, WithEmail
<1>2. row \in TokenRows /\ token' = [token EXCEPT ![t] = row]
      /\ token[t].st = "fresh"
  BY <1>1 DEF TokenRows, Issue, Fresh
<1>3. r \in RequestStates /\ r.pc = "answer"
  BY DEF IInv, TypeOK, Arrive, Idle, RequestStates, Steps
<1>4. req' = [req EXCEPT ![q] = r] /\ UNCHANGED <<account, oauth, jar, used>>
  BY DEF Issue
<1>5. FamilyStep
  <2>1. Contract!Open(t)
    BY <1>2 DEF IInv, TypeOK, TokenRows, Contract!Open
  <2> QED BY <2>1 DEF FamilyStep, Contract!Next
<1>6. IInv'
  <2>1. token' \in [Tokens -> TokenRows]
    BY <1>2 DEF IInv, TypeOK
  <2>2. /\ \A x \in Tokens \ {t} : token'[x] = token[x]
        /\ token'[t].st = "live" /\ token'[t].user = req[q].email
    BY <1>2 DEF IInv, TypeOK
  <2> HIDE DEF r, row
  <2>3. /\ req' \in [Requests -> RequestStates]
        /\ req'[q].pc = "answer"
        /\ \A p \in Requests \ {q} : req'[p] = req[p]
    BY <1>3, <1>4 DEF IInv, TypeOK
  <2>4. \A p \in Requests : req[p].pc = "commit" =>
          req[p].token \in Tokens /\ token[req[p].token].st = "live"
    BY DEF IInv, ReqInv, WithToken
  <2>5. UsedOK' /\ jar' \in [Browsers -> Tokens \cup {None}]
    BY <1>4 DEF IInv, TypeOK, UsedOK
  <2> QED BY <1>1, <1>2, <1>4, <1>5, <2>1, <2>2, <2>3, <2>4, <2>5, TokenMoves
          DEF Fresh
<1> QED BY <1>5, <1>6

LEMMA CommitHandsOver ==
  ASSUME IInv, NEW q \in Requests, NEW n \in Tokens, Commit(q, n)
  PROVE  FamilyStep /\ IInv'
<1> DEFINE t == req[q].token
<1> DEFINE old == [token[t] EXCEPT !.st = "revoked"]
<1> DEFINE row == [st |-> "live", family |-> token[t].family,
                   user |-> token[t].user, expired |-> FALSE]
<1> DEFINE D == IF BeingRevoked(token[t].family) THEN {"race"} ELSE {}
<1> DEFINE r == [req[q] EXCEPT !.pc = "answer", !.next = n]
<1>1. t \in Tokens /\ token[t].st = "live" /\ token[n].st = "fresh" /\ t # n
  BY DEF IInv, ReqInv, Commit, WithToken, Fresh
<1>2. /\ token[t].user \in Emails
      /\ account[token[t].user].st # "ABSENT"
      /\ token[t].family \in Tokens
  BY <1>1 DEF IInv, TypeOK, FamiliesInv, Fresh
<1>3. old \in TokenRows /\ row \in TokenRows
  BY <1>1, <1>2 DEF IInv, TypeOK, TokenRows
<1>4. /\ token' \in [Tokens -> TokenRows]
      /\ token'[t] = old /\ token'[n] = row
      /\ \A x \in Tokens \ {t, n} : token'[x] = token[x]
  BY <1>1, <1>3 DEF IInv, TypeOK, Commit
<1>5. /\ old.st = "revoked" /\ old.family = token[t].family
      /\ old.user = token[t].user
      /\ row.st = "live" /\ row.family = token[t].family
      /\ row.user = token[t].user
  BY <1>1 DEF IInv, TypeOK, TokenRows
<1>6. FamilyStep
  <2> HIDE DEF t, old, row, D
  <2>0. \A x \in Tokens :
          /\ token'[x].st = IF x = n THEN "live"
                            ELSE IF x = t THEN "revoked" ELSE token[x].st
          /\ token'[x].family = IF x = n THEN token[t].family ELSE token[x].family
    BY <1>1, <1>4, <1>5
  <2>1. Contract!HandOver(t, n)
    BY <1>1, <2>0 DEF Contract!HandOver
  <2> QED BY <1>1, <2>1 DEF FamilyStep, Contract!Next
<1>7. IInv'
  <2>0. r \in RequestStates /\ r.pc = "answer"
    BY RequestIs, AnswerEdit
  <2>1. /\ req' \in [Requests -> RequestStates]
        /\ req'[q].pc = "answer"
        /\ \A p \in Requests \ {q} : req'[p] = req[p]
    <3>1. req' = [req EXCEPT ![q] = r]
      BY Zenon DEF Commit
    <3> HIDE DEF r
    <3> QED BY <2>0, <3>1 DEF IInv, TypeOK
  <2>2. \A p \in Requests \ {q} : req[p].pc = "commit" =>
          /\ req[p].token \in Tokens /\ token[req[p].token].st = "live"
          /\ req[p].token # t
    BY DEF IInv, ReqInv, OneLocker, Commit, WithToken
  <2>3. UsedOK'
    <3>1. D \in SUBSET Disturbances /\ SpendAll(D)
      BY DEF Commit, Disturbances
    <3> QED BY <3>1, SpendingKeepsUsed DEF IInv
  <2>4. UNCHANGED <<account, oauth>> /\ jar' \in [Browsers -> Tokens \cup {None}]
    BY DEF IInv, TypeOK, Commit
  <2> HIDE DEF t, old, row, D
  <2> QED BY <1>1, <1>2, <1>4, <1>5, <1>6, <2>1, <2>2, <2>3, <2>4, TokenMoves
          DEF Fresh
<1> QED BY <1>6, <1>7

\* Revoking tokens of one family closes at most one live token.
LEMMA RevokingCloses ==
  ASSUME IInv, NEW T \in SUBSET Tokens, RevokeAll(T),
         \A t, u \in T : token[t].family = token[u].family,
         \A t \in T : ~Locked(t),
         NEW q \in Requests, NEW r \in RequestStates, r.pc \in {"idle", "answer"},
         req' = [req EXCEPT ![q] = r], UNCHANGED <<account, oauth, jar, used>>
  PROVE  FamilyStep /\ IInv'
<1>1. /\ token' \in [Tokens -> TokenRows]
      /\ \A t \in Tokens :
           /\ token'[t].family = token[t].family
           /\ token'[t].user = token[t].user
           /\ IF t \in T /\ token[t].st = "live"
              THEN token'[t].st = "revoked" ELSE token'[t] = token[t]
  BY DEF IInv, TypeOK, TokenRows, RevokeAll
<1>2. FamilyStep
  <2>1. CASE \A t \in T : token[t].st # "live"
    <3>1. \A t \in Tokens : token'[t] = token[t]
      BY <1>1, <2>1
    <3> QED BY <3>1 DEF FamilyStep
  <2>2. CASE \E t \in T : token[t].st = "live"
    <3>1. PICK t \in T : token[t].st = "live"
      BY <2>2
    <3>2. \A x \in Tokens \ {t} : token'[x] = token[x]
      BY <1>1, <3>1 DEF IInv, FamiliesInv
    <3>3. Contract!Close(t)
      BY <1>1, <3>1, <3>2 DEF Contract!Close
    <3> QED BY <3>1, <3>3 DEF FamilyStep, Contract!Next
  <2> QED BY <2>1, <2>2
<1>3. IInv'
  <2>1. /\ req' \in [Requests -> RequestStates]
        /\ req'[q].pc \in {"idle", "answer"}
        /\ \A p \in Requests \ {q} : req'[p] = req[p]
    BY DEF IInv, TypeOK
  <2>2. \A p \in Requests : req[p].pc = "commit" =>
          /\ req[p].token \in Tokens /\ token[req[p].token].st = "live"
          /\ req[p].token \notin T
    BY DEF IInv, ReqInv, WithToken, Locked
  <2>3. UsedOK' /\ jar' \in [Browsers -> Tokens \cup {None}]
    BY DEF IInv, TypeOK, UsedOK
  <2> QED BY <1>1, <1>2, <2>1, <2>2, <2>3, TokenMoves DEF Fresh
<1> QED BY <1>2, <1>3

LEMMA RevokeFamilyCloses ==
  ASSUME IInv, NEW q \in Requests, RevokeFamily(q)
  PROVE  FamilyStep /\ IInv'
<1>1. \A t \in req[q].todo :
        t \in Tokens /\ token[t].family = token[req[q].token].family
  BY DEF IInv, ReqInv, RevokeFamily, Family
<1>2. Idle.pc = "idle"
  BY DEF Idle
<1> QED BY <1>1, <1>2, IdleIsState, RevokingCloses DEF RevokeFamily, Refuse

LEMMA LogoutCloses ==
  ASSUME IInv, NEW q \in Requests, Logout(q)
  PROVE  FamilyStep /\ IInv'
<1> DEFINE r == [req[q] EXCEPT !.pc = "answer", !.next = None]
<1>1. r \in RequestStates /\ r.pc = "answer"
  BY RequestIs, AnswerEdit
<1>2. req' = [req EXCEPT ![q] = r]
  BY Zenon DEF Logout
<1>3. req[q].token \in Tokens
  BY DEF IInv, ReqInv, Logout, WithToken
<1> HIDE DEF r
<1> QED BY <1>1, <1>2, <1>3, RevokingCloses DEF Logout

LEMMA ExpireKeepsInv ==
  ASSUME IInv, NEW t \in Tokens, Expire(t)
  PROVE  FamilyStep /\ IInv'
<1>1. /\ token' \in [Tokens -> TokenRows]
      /\ \A x \in Tokens :
           /\ token'[x].st = token[x].st
           /\ token'[x].family = token[x].family
           /\ token'[x].user = token[x].user
           /\ Fresh(x) => token'[x] = token[x]
  BY DEF IInv, TypeOK, TokenRows, Expire, Fresh
<1>2. FamilyStep
  BY <1>1 DEF FamilyStep
<1>3. UsedOK'
  BY SpendingKeepsUsed DEF Expire, Spend, Disturbances, IInv
<1>4. \A p \in Requests : req[p].pc = "commit" =>
        req[p].token \in Tokens /\ token[req[p].token].st = "live"
  BY DEF IInv, ReqInv, WithToken
<1>5. /\ UNCHANGED <<account, oauth, req>>
      /\ jar' \in [Browsers -> Tokens \cup {None}]
      /\ req' \in [Requests -> RequestStates]
  BY DEF IInv, TypeOK, Expire
<1> QED BY <1>1, <1>2, <1>3, <1>4, <1>5, TokenMoves DEF Fresh

-----------------------------------------------------------------------------
(* Refresh requests between two writes                                     *)

LEMMA ValidateKeepsInv ==
  ASSUME IInv, NEW q \in Requests, Validate(q)
  PROVE  IInv'
<1>1. CASE Refuse(q)
  BY <1>1, RefuseKeepsInv DEF Validate
<1>2. CASE Go(q, IF token[req[q].token].st = "revoked" THEN "reuse" ELSE "owner")
  BY <1>2, GoKeepsInv DEF Validate, WithEmail, WithToken, Steps
<1> QED BY <1>1, <1>2 DEF Validate

LEMMA CheckOwnerKeepsInv ==
  ASSUME IInv, NEW q \in Requests, CheckOwner(q)
  PROVE  IInv'
<1>1. CASE Refuse(q)
  BY <1>1, RefuseKeepsInv DEF CheckOwner
<1>2. CASE Go(q, "rotate")
  BY <1>2, GoKeepsInv DEF CheckOwner, WithEmail, WithToken, Steps
<1> QED BY <1>1, <1>2 DEF CheckOwner

LEMMA ClaimKeepsInv ==
  ASSUME IInv, NEW q \in Requests, Claim(q)
  PROVE  IInv'
  BY GoKeepsInv DEF Claim, WithEmail, WithToken, Steps

LEMMA SeeFamilyKeepsInv ==
  ASSUME IInv, NEW q \in Requests, SeeFamily(q)
  PROVE  IInv'
<1> DEFINE f == token[req[q].token].family
<1> DEFINE r == [req[q] EXCEPT !.pc = "revoke", !.todo = Live(f)]
<1>1. /\ Live(f) \subseteq Family(f) /\ Family(f) \subseteq Tokens
      /\ req[q].token \in Tokens /\ ~Fresh(req[q].token)
  BY DEF Live, Family, IInv, ReqInv, SeeFamily, WithToken
<1>2. r \in RequestStates /\ r.pc = "revoke" /\ r.todo = Live(f)
      /\ r.token = req[q].token
  <2>1. Live(f) \in SUBSET Tokens /\ req[q] \in RequestStates
    BY <1>1, RequestIs
  <2> QED BY <2>1, RevokeEdit
<1>3. /\ req' = [req EXCEPT ![q] = r]
      /\ UNCHANGED <<account, token, oauth, jar, used>>
  BY Zenon DEF SeeFamily
<1>4. /\ UsedOK'
      /\ oauth' \in [States -> {"fresh", "stored", "gone"}]
      /\ jar' \in [Browsers -> Tokens \cup {None}]
  BY <1>3 DEF IInv, TypeOK, UsedOK
<1> HIDE DEF r
<1> QED BY <1>1, <1>2, <1>3, <1>4, RequestMoves DEF WithEmail, WithToken

LEMMA AnswerKeepsInv ==
  ASSUME IInv, NEW q \in Requests, Answer(q)
  PROVE  IInv'
<1>1. jar' \in [Browsers -> Tokens \cup {None}]
  BY DEF IInv, TypeOK, RequestStates, Answer
<1> QED BY <1>1, EndKeepsInv DEF Answer, IInv, TypeOK, UsedOK

LEMMA LoseKeepsInv ==
  ASSUME IInv, NEW q \in Requests, Lose(q)
  PROVE  IInv'
<1>1. UsedOK'
  BY SpendingKeepsUsed DEF Lose, Spend, Disturbances, IInv
<1> QED BY <1>1, EndKeepsInv DEF Lose, IInv, TypeOK

LEMMA GoogleBeginKeepsInv ==
  ASSUME IInv, NEW s \in States, GoogleBegin(s)
  PROVE  IInv'
<1>1. TypeOK'
  BY DEF IInv, TypeOK, GoogleBegin, Fresh
<1>2. ReqInv' /\ OneLocker' /\ FamiliesInv' /\ Bare'
  BY DEF IInv, ReqInv, OneLocker, FamiliesInv, Bare, GoogleBegin, Fresh, Family
<1> QED BY <1>1, <1>2 DEF IInv

-----------------------------------------------------------------------------
(* The theorems                                                            *)

LEMMA StepKeepsInv ==
  IInv /\ [Next]_vars => IInv' /\ FamilyStep
<1> SUFFICES ASSUME IInv, [Next]_vars PROVE IInv' /\ FamilyStep
  OBVIOUS
<1>1. CASE UNCHANGED vars
  <2>1. TypeOK' /\ FamilyStep
    BY <1>1 DEF IInv, TypeOK, vars, Fresh, FamilyStep
  <2>2. ReqInv' /\ OneLocker' /\ FamiliesInv' /\ Bare'
    BY <1>1 DEF IInv, ReqInv, OneLocker, FamiliesInv, Bare, vars, Fresh, Family
  <2> QED BY <2>1, <2>2 DEF IInv
<1>2. CASE \E q \in Requests, b \in Browsers :
             \/ \E s \in States : GoogleCallback(q, b, s)
             \/ \E e \in Emails : RegisterFind(q, b, e) \/ LoginFind(q, b, e)
             \/ \E t \in Tokens, pc \in {"validate", "logout"} :
                  Present(q, b, t, pc)
  <2>1. UNCHANGED token
    BY <1>2 DEF GoogleCallback, RegisterFind, LoginFind, Present
  <2> QED BY <1>2, <2>1, GoogleCallbackKeepsInv, RegisterFindKeepsInv,
             LoginFindKeepsInv, PresentKeepsInv DEF FamilyStep
<1>3. CASE \E q \in Requests :
             \/ \E i \in Identities, e \in Emails : ConsumeState(q, i, e)
             \/ RegisterCreate(q) \/ FindAccount(q) \/ FindUser(q)
             \/ LinkAccount(q) \/ CreateGoogleUser(q)
  <2>1. UNCHANGED token
    BY <1>3 DEF ConsumeState, RegisterCreate, FindAccount, FindUser, LinkAccount,
                CreateGoogleUser
  <2> QED BY <1>3, <2>1, ConsumeStateKeepsInv, RegisterCreateKeepsInv,
             FindAccountKeepsInv, FindUserKeepsInv, LinkAccountKeepsInv,
             CreateGoogleUserKeepsInv DEF FamilyStep
<1>4. CASE \E q \in Requests :
             \/ Validate(q) \/ CheckOwner(q) \/ Claim(q) \/ SeeFamily(q)
             \/ Answer(q) \/ Lose(q)
  <2>1. UNCHANGED token
    BY <1>4 DEF Validate, CheckOwner, Claim, SeeFamily, Answer, Lose
  <2> QED BY <1>4, <2>1, ValidateKeepsInv, CheckOwnerKeepsInv, ClaimKeepsInv,
             SeeFamilyKeepsInv, AnswerKeepsInv, LoseKeepsInv DEF FamilyStep
<1>5. CASE \E q \in Requests :
             \/ \E t \in Tokens : Issue(q, t) \/ Commit(q, t)
             \/ RevokeFamily(q) \/ Logout(q)
  BY <1>5, IssueOpens, CommitHandsOver, RevokeFamilyCloses, LogoutCloses
<1>6. CASE \/ \E s \in States : GoogleBegin(s)
           \/ \E e \in Emails : Suspend(e)
  <2>1. UNCHANGED token
    BY <1>6 DEF GoogleBegin, Suspend
  <2> QED BY <1>6, <2>1, GoogleBeginKeepsInv, SuspendKeepsInv DEF FamilyStep
<1>7. CASE \E t \in Tokens : Expire(t)
  BY <1>7, ExpireKeepsInv
<1> QED BY <1>1, <1>2, <1>3, <1>4, <1>5, <1>6, <1>7 DEF Next

\* Every variable stays in its range, for any number of accounts, browsers,
\* requests and tokens.
THEOREM SessionsTyped == Spec => []TypeOK
<1>1. IInv => TypeOK
  BY DEF IInv
<1> QED BY <1>1, InvInit, StepKeepsInv, PTL DEF Spec

LEMMA FamiliesInit == Init => Contract!Init
  BY DEF Init, Contract!Init, NoToken

\* Sessions implements TokenFamilies: a refresh, a reuse, a logout and their
\* interleavings are steps of the families or none.
THEOREM SessionsKeepFamilies == Spec => KeepsFamilies
<1>1. IInv /\ [Next]_vars => IInv' /\ FamilyStep
  BY StepKeepsInv
<1> QED BY <1>1, InvInit, FamiliesInit, PTL
        DEF Spec, KeepsFamilies, Contract!Spec, FamilyStep

-----------------------------------------------------------------------------
(* Reuse closes the family                                                 *)

\* A request that is revoking a family has all its live tokens on its list, as
\* long as no rotation has committed under it.
Seen ==
  used["race"] = 0 => \A q \in Requests :
    req[q].pc = "revoke" => Live(token[req[q].token].family) \subseteq req[q].todo

\* The steps that put no request to revoking.
NoneRevokes ==
  \A p \in Requests : req'[p] = req[p] \/ req'[p].pc # "revoke"

LEMMA SpendingGrows ==
  ASSUME IInv, NEW D \in SUBSET Disturbances, SpendAll(D)
  PROVE  /\ used'["race"] = 0 => used["race"] = 0
         /\ "race" \in D => used'["race"] # 0
  BY DEF IInv, TypeOK, SpendAll, Disturbances

LEMMA QuietKeepsSeen ==
  ASSUME Seen, NoneRevokes, UNCHANGED token,
         used'["race"] = 0 => used["race"] = 0
  PROVE  Seen'
  BY DEF Seen, NoneRevokes, Live, Family

LEMMA ShrinkingKeepsSeen ==
  ASSUME IInv, Seen, NoneRevokes, used'["race"] = 0 => used["race"] = 0,
         used'["race"] = 0 => \A q \in Requests : req[q].pc = "revoke" =>
           \A t \in Tokens :
             /\ token'[t].family = token'[req[q].token].family
             /\ token'[t].st = "live"
             => /\ token[t].family = token[req[q].token].family
                /\ token[t].st = "live"
  PROVE  Seen'
  BY DEF Seen, NoneRevokes, Live, Family

\* What a revoking request knows.
LEMMA Revoking ==
  ASSUME IInv, NEW q \in Requests, req[q].pc = "revoke"
  PROVE  /\ req[q].token \in Tokens
         /\ token[req[q].token].st # "fresh"
         /\ token[req[q].token].family \in Tokens
         /\ token[token[req[q].token].family].st # "fresh"
  BY DEF IInv, ReqInv, WithToken, FamiliesInv, Fresh

LEMMA BecomingKeepsQuiet ==
  ASSUME IInv, NEW q \in Requests, NEW r, r.pc # "revoke",
         req' = [req EXCEPT ![q] = r]
  PROVE  NoneRevokes
  BY DEF IInv, TypeOK, NoneRevokes

LEMMA GoingKeepsQuiet ==
  ASSUME IInv, NEW q \in Requests, NEW pc, pc # "revoke", Go(q, pc)
  PROVE  NoneRevokes
  BY DEF IInv, TypeOK, RequestStates, NoneRevokes, Go

LEMMA RefusingKeepsQuiet ==
  ASSUME IInv, NEW q \in Requests, Refuse(q)
  PROVE  NoneRevokes
  BY BecomingKeepsQuiet DEF Refuse, Idle

LEMMA EnteringKeepsQuiet ==
  ASSUME IInv, NEW q \in Requests, NEW e, Enter(q, e)
  PROVE  NoneRevokes
<1> DEFINE r == [req[q] EXCEPT !.pc = "issue", !.email = e, !.id = None]
<1>1. r.pc = "issue"
  BY DEF IInv, TypeOK, RequestStates
<1>2. req' = [req EXCEPT ![q] = r] \/ Refuse(q)
  BY Zenon DEF Enter
<1> HIDE DEF r
<1> QED BY <1>1, <1>2, BecomingKeepsQuiet, RefusingKeepsQuiet

LEMMA ArrivalsKeepSeen ==
  ASSUME IInv, Seen, NEW q \in Requests, NEW b \in Browsers,
         \/ \E s \in States : GoogleCallback(q, b, s)
         \/ \E e \in Emails : RegisterFind(q, b, e) \/ LoginFind(q, b, e)
         \/ \E t \in Tokens, pc \in {"validate", "logout"} : Present(q, b, t, pc)
  PROVE  Seen'
<1>1. UNCHANGED token
  BY DEF GoogleCallback, RegisterFind, LoginFind, Present
<1>2. \E D \in SUBSET Disturbances : SpendAll(D)
  <2>1. CASE \E t \in Tokens, pc \in {"validate", "logout"} : Present(q, b, t, pc)
    <3>1. PICK t \in Tokens, pc \in {"validate", "logout"} : Present(q, b, t, pc)
      BY <2>1
    <3> DEFINE D == IfBusy(b) \cup IF jar[b] = t THEN {} ELSE {"stale"}
    <3>2. D \in SUBSET Disturbances /\ SpendAll(D)
      BY <3>1 DEF Present, IfBusy, Disturbances
    <3> QED BY <3>2
  <2>2. IfBusy(b) \in SUBSET Disturbances
    BY DEF IfBusy, Disturbances
  <2> QED BY <2>1, <2>2 DEF GoogleCallback, RegisterFind, LoginFind
<1>3. NoneRevokes
  <2>1. CASE \E s \in States : GoogleCallback(q, b, s)
    BY <2>1, BecomingKeepsQuiet DEF GoogleCallback, Arrive, Idle
  <2>2. CASE \E e \in Emails : RegisterFind(q, b, e) \/ LoginFind(q, b, e)
    BY <2>2, BecomingKeepsQuiet DEF RegisterFind, LoginFind, Arrive, Idle
  <2>3. CASE \E t \in Tokens, pc \in {"validate", "logout"} : Present(q, b, t, pc)
    BY <2>3, BecomingKeepsQuiet DEF Present, Arrive, Idle
  <2> QED BY <2>1, <2>2, <2>3
<1> QED BY <1>1, <1>2, <1>3, QuietKeepsSeen, SpendingGrows

LEMMA LoginsKeepSeen ==
  ASSUME IInv, Seen, NEW q \in Requests,
         \/ \E i \in Identities, e \in Emails : ConsumeState(q, i, e)
         \/ RegisterCreate(q) \/ FindAccount(q) \/ FindUser(q)
         \/ LinkAccount(q) \/ CreateGoogleUser(q)
  PROVE  Seen'
<1>1. UNCHANGED <<token, used>>
  BY DEF ConsumeState, RegisterCreate, FindAccount, FindUser, LinkAccount,
         CreateGoogleUser
<1>2. NoneRevokes
  <2>1. CASE \E i \in Identities, e \in Emails : ConsumeState(q, i, e)
    BY <2>1, BecomingKeepsQuiet, RefusingKeepsQuiet
       DEF ConsumeState, Profile, Arrive, Idle
  <2>2. CASE RegisterCreate(q) \/ FindAccount(q) \/ FindUser(q) \/ LinkAccount(q)
    BY <2>2, GoingKeepsQuiet, EnteringKeepsQuiet, RefusingKeepsQuiet
       DEF RegisterCreate, FindAccount, FindUser, LinkAccount
  <2>3. CASE CreateGoogleUser(q)
    <3> DEFINE r == [req[q] EXCEPT !.pc = "issue", !.id = None]
    <3>1. r.pc = "issue"
      BY DEF IInv, TypeOK, RequestStates
    <3>2. req' = [req EXCEPT ![q] = r] \/ Refuse(q)
      BY <2>3, Zenon DEF CreateGoogleUser
    <3> HIDE DEF r
    <3> QED BY <3>1, <3>2, BecomingKeepsQuiet, RefusingKeepsQuiet
  <2> QED BY <2>1, <2>2, <2>3
<1> QED BY <1>1, <1>2, QuietKeepsSeen

LEMMA RefreshesKeepSeen ==
  ASSUME IInv, Seen, NEW q \in Requests,
         Validate(q) \/ CheckOwner(q) \/ Claim(q) \/ Answer(q)
  PROVE  Seen'
<1>1. UNCHANGED <<token, used>>
  BY DEF Validate, CheckOwner, Claim, Answer
<1>2. NoneRevokes
  BY DEF Validate, CheckOwner, Claim, Answer, NoneRevokes, Refuse, Go, Idle,
         IInv, TypeOK, RequestStates
<1> QED BY <1>1, <1>2, QuietKeepsSeen

LEMMA LoseKeepsSeen ==
  ASSUME IInv, Seen, NEW q \in Requests, Lose(q)
  PROVE  Seen'
<1>1. NoneRevokes /\ UNCHANGED token
  BY DEF Lose, NoneRevokes, Idle, IInv, TypeOK
<1>2. SpendAll({"lost"}) /\ {"lost"} \in SUBSET Disturbances
  BY DEF Lose, Spend, Disturbances
<1> QED BY <1>1, <1>2, SpendingGrows, QuietKeepsSeen

LEMMA SeeFamilyKeepsSeen ==
  ASSUME IInv, Seen, NEW q \in Requests, SeeFamily(q)
  PROVE  Seen'
<1> DEFINE r == [req[q] EXCEPT !.pc = "revoke",
                               !.todo = Live(token[req[q].token].family)]
<1>1. req' = [req EXCEPT ![q] = r] /\ UNCHANGED <<token, used>>
  BY Zenon DEF SeeFamily
<1>2. r.token = req[q].token /\ r.todo = Live(token[req[q].token].family)
  BY DEF IInv, TypeOK, RequestStates
<1> HIDE DEF r
<1>3. /\ req'[q] = r
      /\ \A p \in Requests \ {q} : req'[p] = req[p]
  BY <1>1 DEF IInv, TypeOK
<1> QED BY <1>1, <1>2, <1>3 DEF Seen, Live, Family

LEMMA IssueKeepsSeen ==
  ASSUME IInv, Seen, NEW q \in Requests, NEW t \in Tokens, Issue(q, t)
  PROVE  Seen'
<1>1. NoneRevokes /\ UNCHANGED used
  BY DEF Issue, NoneRevokes, Arrive, Idle, IInv, TypeOK
<1>2. /\ token'[t].family = t
      /\ \A x \in Tokens \ {t} : token'[x] = token[x]
      /\ token[t].st = "fresh"
  BY DEF Issue, Fresh, IInv, TypeOK
<1> QED BY <1>1, <1>2, Revoking, ShrinkingKeepsSeen

LEMMA CommitKeepsSeen ==
  ASSUME IInv, Seen, NEW q \in Requests, NEW n \in Tokens, Commit(q, n)
  PROVE  Seen'
<1> DEFINE t == req[q].token
<1> DEFINE D == IF BeingRevoked(token[t].family) THEN {"race"} ELSE {}
<1>1. /\ D \in SUBSET Disturbances /\ SpendAll(D)
      /\ used'["race"] = 0 => used["race"] = 0
      /\ used'["race"] = 0 => ~BeingRevoked(token[t].family)
  <2>1. D \in SUBSET Disturbances /\ SpendAll(D)
    BY DEF Commit, Disturbances
  <2> QED BY <2>1, SpendingGrows
<1>2. NoneRevokes
  BY DEF Commit, NoneRevokes, IInv, TypeOK, RequestStates
<1>3. t \in Tokens /\ token[t].st = "live" /\ token[n].st = "fresh"
  BY DEF IInv, ReqInv, Commit, WithToken, Fresh
<1>4. /\ \A x \in Tokens \ {t, n} : token'[x] = token[x]
      /\ token'[t].st # "live" /\ token'[t].family = token[t].family
      /\ token'[n].family = token[t].family
  BY <1>3 DEF Commit, IInv, TypeOK, TokenRows
<1>5. ASSUME used'["race"] = 0, NEW p \in Requests, req[p].pc = "revoke",
             NEW x \in Tokens, token'[x].st = "live",
             token'[x].family = token'[req[p].token].family
      PROVE  /\ token[x].family = token[req[p].token].family
             /\ token[x].st = "live"
  <2>1. token[req[p].token].family # token[t].family
    BY <1>1, <1>5 DEF BeingRevoked
  <2>2. req[p].token \in Tokens /\ req[p].token # n
    BY <1>3, <1>5, Revoking
  <2> QED BY <1>4, <1>5, <2>1, <2>2
<1> HIDE DEF t, D
<1> QED BY <1>1, <1>2, <1>5, ShrinkingKeepsSeen

LEMMA RevokingKeepsSeen ==
  ASSUME IInv, Seen, NEW T \in SUBSET Tokens, RevokeAll(T), UNCHANGED used,
         NoneRevokes
  PROVE  Seen'
<1>1. \A x \in Tokens : /\ token'[x].family = token[x].family
                        /\ token'[x].st = "live" => token[x].st = "live"
  BY DEF RevokeAll, IInv, TypeOK, TokenRows
<1> QED BY <1>1, Revoking, ShrinkingKeepsSeen

LEMMA ClosingKeepsSeen ==
  ASSUME IInv, Seen, NEW q \in Requests, RevokeFamily(q) \/ Logout(q)
  PROVE  Seen'
<1>1. NoneRevokes /\ UNCHANGED used
  BY DEF RevokeFamily, Logout, Refuse, Idle, NoneRevokes, IInv, TypeOK,
         RequestStates
<1>2. req[q].todo \in SUBSET Tokens
  BY DEF IInv, TypeOK, RequestStates
<1>3. CASE RevokeFamily(q)
  BY <1>1, <1>2, <1>3, RevokingKeepsSeen DEF RevokeFamily
<1>4. CASE Logout(q)
  <2>1. {req[q].token} \in SUBSET Tokens
    BY <1>4 DEF IInv, ReqInv, Logout, WithToken
  <2> QED BY <1>1, <1>4, <2>1, RevokingKeepsSeen DEF Logout
<1> QED BY <1>3, <1>4

LEMMA OthersKeepSeen ==
  ASSUME IInv, Seen,
         \/ \E s \in States : GoogleBegin(s)
         \/ \E t \in Tokens : Expire(t)
         \/ \E e \in Emails : Suspend(e)
  PROVE  Seen'
<1>1. CASE \E s \in States : GoogleBegin(s)
  BY <1>1, QuietKeepsSeen DEF GoogleBegin, NoneRevokes
<1>2. CASE \E e \in Emails : Suspend(e)
  <2>1. NoneRevokes /\ UNCHANGED token
    BY <1>2 DEF Suspend, NoneRevokes
  <2>2. SpendAll({"suspend"}) /\ {"suspend"} \in SUBSET Disturbances
    BY <1>2 DEF Suspend, Spend, Disturbances
  <2> QED BY <2>1, <2>2, SpendingGrows, QuietKeepsSeen
<1>3. CASE \E t \in Tokens : Expire(t)
  <2>1. NoneRevokes
    BY <1>3 DEF Expire, NoneRevokes
  <2>2. SpendAll({"expiry"}) /\ {"expiry"} \in SUBSET Disturbances
    BY <1>3 DEF Expire, Spend, Disturbances
  <2>3. \A x \in Tokens : /\ token'[x].family = token[x].family
                          /\ token'[x].st = token[x].st
    BY <1>3 DEF Expire, IInv, TypeOK, TokenRows
  <2> QED BY <2>1, <2>2, <2>3, SpendingGrows, Revoking, ShrinkingKeepsSeen
<1> QED BY <1>1, <1>2, <1>3

LEMMA StepKeepsSeen ==
  IInv /\ Seen /\ [Next]_vars => Seen'
<1> SUFFICES ASSUME IInv, Seen, [Next]_vars PROVE Seen'
  OBVIOUS
<1>1. CASE UNCHANGED vars
  BY <1>1, QuietKeepsSeen DEF vars, NoneRevokes
<1>2. CASE Next
  BY <1>2, ArrivalsKeepSeen, LoginsKeepSeen, RefreshesKeepSeen, LoseKeepsSeen,
     SeeFamilyKeepsSeen, IssueKeepsSeen, CommitKeepsSeen, ClosingKeepsSeen,
     OthersKeepSeen DEF Next
<1> QED BY <1>1, <1>2

\* No other step than RevokeFamily moves a request that is revoking.
LEMMA StepOfAnother ==
  ASSUME IInv, Next, UNCHANGED used, NEW q \in Requests, req[q].pc = "revoke",
         ~RevokeFamily(q)
  PROVE  req'[q] = req[q]
<1>1. ASSUME NEW p \in Requests, NEW b \in Browsers,
             \/ \E s \in States : GoogleCallback(p, b, s)
             \/ \E e \in Emails : RegisterFind(p, b, e) \/ LoginFind(p, b, e)
             \/ \E t \in Tokens, pc \in {"validate", "logout"} : Present(p, b, t, pc)
      PROVE  req'[q] = req[q]
  BY <1>1 DEF GoogleCallback, RegisterFind, LoginFind, Present, IInv, TypeOK
<1>2. ASSUME NEW p \in Requests,
             \/ \E i \in Identities, e \in Emails : ConsumeState(p, i, e)
             \/ RegisterCreate(p) \/ FindAccount(p) \/ FindUser(p)
      PROVE  req'[q] = req[q]
  BY <1>2 DEF ConsumeState, RegisterCreate, FindAccount, FindUser, Profile, Enter,
              Refuse, Go, IInv, TypeOK
<1>3. ASSUME NEW p \in Requests, LinkAccount(p) \/ CreateGoogleUser(p)
      PROVE  req'[q] = req[q]
  BY <1>3 DEF LinkAccount, CreateGoogleUser, Enter, Refuse, IInv, TypeOK
<1>4. ASSUME NEW p \in Requests,
             \/ \E t \in Tokens : Issue(p, t) \/ Commit(p, t)
             \/ SeeFamily(p) \/ RevokeFamily(p) \/ Logout(p) \/ Answer(p)
      PROVE  req'[q] = req[q]
  BY <1>4 DEF Issue, Commit, SeeFamily, RevokeFamily, Logout, Answer, Refuse,
              IInv, TypeOK
<1>5. ASSUME NEW p \in Requests, Validate(p) \/ CheckOwner(p) \/ Claim(p)
      PROVE  req'[q] = req[q]
  BY <1>5 DEF Validate, CheckOwner, Claim, Refuse, Go, IInv, TypeOK
<1>6. ASSUME NEW p \in Requests, Lose(p)
      PROVE  FALSE
  <2>1. used'["lost"] = used["lost"] + 1
    BY <1>6 DEF Lose, Spend, SpendAll, Disturbances
  <2>2. used["lost"] \in Nat
    BY DEF IInv, TypeOK, Disturbances
  <2> QED BY <2>1, <2>2
<1>7. ASSUME \/ \E s \in States : GoogleBegin(s)
             \/ \E t \in Tokens : Expire(t)
             \/ \E e \in Emails : Suspend(e)
      PROVE  req'[q] = req[q]
  BY <1>7 DEF GoogleBegin, Expire, Suspend
<1> QED BY <1>1, <1>2, <1>3, <1>4, <1>5, <1>6, <1>7 DEF Next

\* The request that is refused for reuse is done with its statement.
LEMMA RefusedHasRevoked ==
  ASSUME IInv, Seen, [Next]_vars, Never({"race"}), NEW q \in Requests,
         req[q].pc = "revoke", req'[q].pc = "idle", UNCHANGED used,
         NEW t \in Family(token[req[q].token].family)
  PROVE  token'[t].st = "revoked"
<1>1. /\ t \in Tokens
      /\ token[t].st = "live" => t \in req[q].todo
      /\ token[t].st \in {"fresh", "live", "revoked"}
      /\ token[t].st # "fresh"
  BY Revoking, NoneAssumption
     DEF Never, Seen, Live, Family, IInv, TypeOK, TokenRows, Bare
<1>2. RevokeFamily(q)
  BY StepOfAnother DEF vars
<1> QED BY <1>1, <1>2 DEF RevokeFamily, RevokeAll, IInv, TypeOK, TokenRows

\* CONTEXT.md:107, for any number of requests and tokens: a refused reuse
\* leaves its family closed.
THEOREM ReuseIsFinal == Spec => ReuseClosesFamily
<1>1. Init => Seen
  BY DEF Init, Seen, Idle
<1>2. IInv /\ Seen /\ [Next]_vars =>
        [Never({"race"}) => \A q \in Requests :
           req[q].pc = "revoke" /\ req'[q].pc = "idle" /\ UNCHANGED used =>
             \A t \in Family(token[req[q].token].family) :
               token'[t].st = "revoked"]_vars
  BY RefusedHasRevoked
<1>3. IInv /\ [Next]_vars => IInv'
  BY StepKeepsInv
<1> QED BY <1>1, <1>2, <1>3, InvInit, StepKeepsSeen, PTL
        DEF Spec, ReuseClosesFamily

-----------------------------------------------------------------------------
(* The cookie of a browser                                                 *)

Calm == Never({"overlap", "lost", "stale"})

\* What an answer is about to bring.
Brings(q, t) == req[q].pc = "answer" /\ req[q].next = t /\ t # None

Attached ==
  \A q \in Requests : IF req[q].pc = "idle" THEN req[q].by = None
                      ELSE req[q].by \in Browsers

\* A cookie belongs to one browser, which has at most one request; the request
\* presents that cookie, and the token is live until the answer is on its way.
Cookies ==
  /\ \A p, q \in Requests : req[p].by = req[q].by /\ req[p].by # None => p = q
  /\ \A b \in Browsers : jar[b] # None =>
       /\ ~Fresh(jar[b])
       /\ (\A q \in Requests : req[q].by = b => req[q].pc # "answer") =>
            token[jar[b]].st = "live"
       /\ \A c \in Browsers : jar[c] = jar[b] => c = b
  /\ \A q \in Requests :
       /\ req[q].pc \in WithToken =>
            req[q].pc \notin {"reuse", "revoke"} /\ req[q].token = jar[req[q].by]
       /\ \A t \in Tokens : Brings(q, t) =>
            /\ token[t].st = "live"
            /\ \A b \in Browsers : jar[b] # t
            /\ \A p \in Requests : Brings(p, t) => p = q

CookieInv == Attached /\ (Calm => Cookies)

\* Only request q moves.
Others(q) == \A p \in Requests \ {q} : req'[p] = req[p]

\* It becomes x.
LEMMA Becomes ==
  ASSUME IInv, NEW q \in Requests, NEW x, req' = [req EXCEPT ![q] = x]
  PROVE  Others(q) /\ req'[q] = x
  BY DEF IInv, TypeOK, Others

\* A request arrives.  In calm times its browser has no other one, and what it
\* presents is the browser's cookie.
LEMMA Arriving ==
  ASSUME IInv, NEW q \in Requests, NEW b \in Browsers,
         \/ \E s \in States : GoogleCallback(q, b, s)
         \/ \E e \in Emails : RegisterFind(q, b, e) \/ LoginFind(q, b, e)
         \/ \E t \in Tokens, pc \in {"validate", "logout"} : Present(q, b, t, pc)
  PROVE  /\ req[q].pc = "idle" /\ Others(q)
         /\ req'[q].by = b /\ req'[q].id = None /\ req'[q].next = None
         /\ req'[q].pc \in {"create", "issue", "consume", "validate", "logout"}
         /\ UNCHANGED <<account, token, jar>>
         /\ Calm' => /\ Calm /\ ~Busy(b)
                     /\ req'[q].pc \in WithToken => req'[q].token = jar[b]
<1> DEFINE Alone == Calm' => Calm /\ ~Busy(b)
           New(x, pc) == /\ x.pc = pc /\ x.by = b /\ x.id = None /\ x.next = None
<1>1. ASSUME NEW D \in SUBSET Disturbances, SpendAll(D), IfBusy(b) \subseteq D
      PROVE  Alone /\ (Calm' => "stale" \notin D)
  <2>1. \A d \in Disturbances : /\ used[d] \in Nat
                                /\ used'[d] = IF d \in D THEN used[d] + 1 ELSE used[d]
    BY <1>1 DEF SpendAll, IInv, TypeOK
  <2>2. \A d \in Disturbances : used'[d] = 0 => used[d] = 0 /\ d \notin D
    BY <2>1
  <2> QED BY <1>1, <2>2 DEF Calm, Never, IfBusy, Disturbances
<1>2. IfBusy(b) \in SUBSET Disturbances
  BY DEF IfBusy, Disturbances
<1>3. CASE \E s \in States : GoogleCallback(q, b, s)
  <2>1. PICK s \in States : GoogleCallback(q, b, s)
    BY <1>3
  <2> DEFINE x == [Arrive(b, "consume") EXCEPT !.state = s]
  <2>2. New(x, "consume")
    BY DEF Arrive, Idle
  <2>3. /\ req' = [req EXCEPT ![q] = x] /\ SpendAll(IfBusy(b))
        /\ req[q].pc = "idle" /\ UNCHANGED <<account, token, jar>>
    BY <2>1 DEF GoogleCallback
  <2> HIDE DEF x
  <2> QED BY <1>1, <1>2, <2>2, <2>3, Becomes DEF WithToken
<1>4. CASE \E e \in Emails : RegisterFind(q, b, e)
  <2>1. PICK e \in Emails : RegisterFind(q, b, e)
    BY <1>4
  <2> DEFINE x == [Arrive(b, "create") EXCEPT !.email = e]
  <2>2. New(x, "create")
    BY DEF Arrive, Idle
  <2>3. /\ req' = [req EXCEPT ![q] = x] /\ SpendAll(IfBusy(b))
        /\ req[q].pc = "idle" /\ UNCHANGED <<account, token, jar>>
    BY <2>1 DEF RegisterFind
  <2> HIDE DEF x
  <2> QED BY <1>1, <1>2, <2>2, <2>3, Becomes DEF WithToken
<1>5. CASE \E e \in Emails : LoginFind(q, b, e)
  <2>1. PICK e \in Emails : LoginFind(q, b, e)
    BY <1>5
  <2> DEFINE x == [Arrive(b, "issue") EXCEPT !.email = e]
  <2>2. New(x, "issue")
    BY DEF Arrive, Idle
  <2>3. /\ req' = [req EXCEPT ![q] = x] /\ SpendAll(IfBusy(b))
        /\ req[q].pc = "idle" /\ UNCHANGED <<account, token, jar>>
    BY <2>1 DEF LoginFind
  <2> HIDE DEF x
  <2> QED BY <1>1, <1>2, <2>2, <2>3, Becomes DEF WithToken
<1>6. CASE \E t \in Tokens, pc \in {"validate", "logout"} : Present(q, b, t, pc)
  <2>1. PICK t \in Tokens, pc \in {"validate", "logout"} : Present(q, b, t, pc)
    BY <1>6
  <2> DEFINE x == [Arrive(b, pc) EXCEPT !.token = t]
             D == IfBusy(b) \cup IF jar[b] = t THEN {} ELSE {"stale"}
  <2>2. New(x, pc) /\ x.token = t
    BY DEF Arrive, Idle
  <2>3. /\ req' = [req EXCEPT ![q] = x] /\ SpendAll(D)
        /\ req[q].pc = "idle" /\ UNCHANGED <<account, token, jar>>
    BY <2>1 DEF Present
  <2>4. D \in SUBSET Disturbances /\ IfBusy(b) \subseteq D
    BY <1>2 DEF Disturbances
  <2>5. "stale" \notin D => jar[b] = t
    OBVIOUS
  <2> HIDE DEF x, D
  <2>6. Alone /\ (Calm' => "stale" \notin D)
    BY <1>1, <2>3, <2>4
  <2> QED BY <2>2, <2>3, <2>5, <2>6, Becomes DEF WithToken
<1> QED BY <1>3, <1>4, <1>5, <1>6

\* A request goes on from here.
Goes(q, pc) ==
  /\ Others(q)
  /\ req'[q].pc = pc /\ req'[q].by = req[q].by /\ req'[q].id = req[q].id
  /\ req'[q].email = req[q].email /\ req'[q].token = req[q].token

\* It ends.
Ends(q) == Others(q) /\ req'[q] = Idle

\* It enters as this user.
Enters(q, e) ==
  /\ Others(q)
  /\ req'[q].pc = "issue" /\ req'[q].by = req[q].by /\ req'[q].id = None
  /\ req'[q].email = e

\* Go, Refuse and Enter in these terms.
LEMMA GoIs ==
  ASSUME IInv, NEW q \in Requests, NEW pc, Go(q, pc)
  PROVE  Goes(q, pc)
<1> DEFINE x == [req[q] EXCEPT !.pc = pc]
<1>1. /\ x.pc = pc /\ x.by = req[q].by /\ x.id = req[q].id
      /\ x.email = req[q].email /\ x.token = req[q].token
  BY DEF IInv, TypeOK, RequestStates
<1>2. req' = [req EXCEPT ![q] = x]
  BY DEF Go
<1> HIDE DEF x
<1> QED BY <1>1, <1>2, Becomes DEF Goes

LEMMA RefuseIs ==
  ASSUME IInv, NEW q \in Requests, Refuse(q)
  PROVE  Ends(q)
  BY DEF IInv, TypeOK, Refuse, Ends, Others

LEMMA EnterIs ==
  ASSUME IInv, NEW q \in Requests, NEW e \in Emails, Enter(q, e)
  PROVE  (account[e].st = "ACTIVE" /\ Enters(q, e)) \/ Ends(q)
<1> DEFINE x == [req[q] EXCEPT !.pc = "issue", !.email = e, !.id = None]
<1>1. x.pc = "issue" /\ x.by = req[q].by /\ x.id = None /\ x.email = e
  BY DEF IInv, TypeOK, RequestStates
<1>2. \/ account[e].st = "ACTIVE" /\ req' = [req EXCEPT ![q] = x]
      \/ Refuse(q)
  BY Zenon DEF Enter
<1> HIDE DEF x
<1> QED BY <1>1, <1>2, Becomes, RefuseIs DEF Enters

\* Logging in leaves tokens and cookies alone.
LEMMA LoggingIn ==
  ASSUME IInv, NEW q \in Requests,
         \/ \E i \in Identities, e \in Emails : ConsumeState(q, i, e)
         \/ RegisterCreate(q) \/ FindAccount(q) \/ FindUser(q) \/ LinkAccount(q)
         \/ CreateGoogleUser(q)
  PROVE  /\ req[q].pc \notin {"idle", "answer"} /\ UNCHANGED <<token, jar, used>>
         /\ \/ Ends(q)
            \/ /\ Others(q) /\ req'[q].by = req[q].by
               /\ req'[q].pc \in {"issue", "account", "user", "link", "new"}
<1>1. CASE \E i \in Identities, e \in Emails : ConsumeState(q, i, e)
  <2>1. PICK i \in Identities, e \in Emails : ConsumeState(q, i, e)
    BY <1>1
  <2> DEFINE x == [Arrive(req[q].by, "account") EXCEPT !.id = i, !.email = e]
  <2>2. x.pc = "account" /\ x.by = req[q].by
    BY DEF Arrive, Idle
  <2>3. req' = [req EXCEPT ![q] = x] \/ Refuse(q)
    BY <2>1 DEF ConsumeState, Profile
  <2> HIDE DEF x
  <2> QED BY <2>1, <2>2, <2>3, Becomes, RefuseIs DEF ConsumeState
<1>2. CASE RegisterCreate(q)
  BY <1>2, GoIs, RefuseIs DEF RegisterCreate, Goes
<1>3. CASE FindAccount(q)
  BY <1>3, GoIs, EnterIs DEF FindAccount, Goes, Enters, Bound
<1>4. CASE FindUser(q)
  BY <1>4, GoIs DEF FindUser, Goes
<1>5. CASE LinkAccount(q)
  <2>1. req[q].email \in Emails
    BY <1>5 DEF IInv, ReqInv, LinkAccount, WithEmail
  <2>2. Enter(q, req[q].email) \/ Refuse(q)
    BY <1>5 DEF LinkAccount
  <2>3. req[q].pc = "link" /\ UNCHANGED <<token, jar, used>>
    BY <1>5 DEF LinkAccount
  <2> QED BY <2>1, <2>2, <2>3, EnterIs, RefuseIs DEF Enters
<1>6. CASE CreateGoogleUser(q)
  <2> DEFINE x == [req[q] EXCEPT !.pc = "issue", !.id = None]
  <2>1. x.pc = "issue" /\ x.by = req[q].by
    BY DEF IInv, TypeOK, RequestStates
  <2>2. req' = [req EXCEPT ![q] = x] \/ Refuse(q)
    BY <1>6 DEF CreateGoogleUser
  <2>3. req[q].pc = "new" /\ UNCHANGED <<token, jar, used>>
    BY <1>6 DEF CreateGoogleUser
  <2> HIDE DEF x
  <2> QED BY <2>1, <2>2, <2>3, Becomes, RefuseIs
<1> QED BY <1>1, <1>2, <1>3, <1>4, <1>5, <1>6

\* What Cookies asks of the tokens is whether they are fresh or live.
SameRows == \A t \in Tokens : token'[t].st = token[t].st

\* A cookie is a token.
LEMMA JarIs ==
  ASSUME IInv
  PROVE  /\ \A b \in Browsers : jar[b] # None => jar[b] \in Tokens
         /\ None \notin Tokens /\ None \notin Browsers
  BY NoneAssumption DEF IInv, TypeOK

\* A request moves that neither comes from an answer nor gets to one.
LEMMA OneMoves ==
  ASSUME IInv, Attached, Cookies, NEW q \in Requests, Others(q), SameRows, UNCHANGED jar,
         req[q].pc # "answer", req'[q].pc # "answer",
         req'[q].by \in Browsers \cup {None},
         req'[q].by # req[q].by /\ req'[q].by # None => ~Busy(req'[q].by),
         req'[q].pc \in WithToken =>
           req'[q].pc \notin {"reuse", "revoke"} /\ req'[q].token = jar[req'[q].by]
  PROVE  Cookies'
<1>1. ASSUME NEW p \in Requests, NEW x \in Requests,
             req'[p].by = req'[x].by, req'[p].by # None
      PROVE  p = x
  BY <1>1 DEF Others, Busy, Cookies
<1>2. \A p \in Requests, t \in Tokens : Brings(p, t)' <=> Brings(p, t)
  BY DEF Brings, Others
<1>3. ASSUME NEW b \in Browsers, jar[b] # None
      PROVE  /\ ~Fresh(jar[b])'
             /\ (\A p \in Requests : req'[p].by = b => req'[p].pc # "answer") =>
                  token'[jar[b]].st = "live"
             /\ \A c \in Browsers : jar[c] = jar[b] => c = b
  <2>1. jar[b] \in Tokens
    BY <1>3, JarIs
  <2>2. /\ token[jar[b]].st # "fresh"
        /\ (\A p \in Requests : req[p].by = b => req[p].pc # "answer") =>
             token[jar[b]].st = "live"
        /\ \A c \in Browsers : jar[c] = jar[b] => c = b
    BY <1>3 DEF Cookies, Fresh
  <2>3. token'[jar[b]].st = token[jar[b]].st
    BY <2>1 DEF SameRows
  <2>4. (\A p \in Requests : req'[p].by = b => req'[p].pc # "answer") =>
          \A p \in Requests : req[p].by = b => req[p].pc # "answer"
    BY DEF Others
  <2> QED BY <2>2, <2>3, <2>4 DEF Fresh
<1>4. ASSUME NEW p \in Requests, req'[p].pc \in WithToken
      PROVE  req'[p].pc \notin {"reuse", "revoke"} /\ req'[p].token = jar[req'[p].by]
  BY <1>4 DEF Others, Cookies
<1>5. ASSUME NEW p \in Requests, NEW t \in Tokens, Brings(p, t)
      PROVE  /\ token'[t].st = "live"
             /\ \A b \in Browsers : jar[b] # t
             /\ \A x \in Requests : Brings(x, t) => x = p
  BY <1>5 DEF Cookies, SameRows
<1> QED BY <1>1, <1>2, <1>3, <1>4, <1>5 DEF Cookies

\* An idle request has no browser.
LEMMA IdleBy == Idle.pc = "idle" /\ Idle.by = None /\ "idle" \notin WithToken /\ Idle.id = None
  BY DEF Idle, WithToken

\* An arriving request presents the cookie, which is live.
LEMMA ArrivingKeepsCookies ==
  ASSUME IInv, CookieInv, NEW q \in Requests, NEW b \in Browsers,
         \/ \E s \in States : GoogleCallback(q, b, s)
         \/ \E e \in Emails : RegisterFind(q, b, e) \/ LoginFind(q, b, e)
         \/ \E t \in Tokens, pc \in {"validate", "logout"} : Present(q, b, t, pc)
  PROVE  CookieInv'
<1>1. /\ req[q].pc = "idle" /\ Others(q)
      /\ req'[q].by = b
      /\ req'[q].pc \in {"create", "issue", "consume", "validate", "logout"}
      /\ UNCHANGED <<account, token, jar>>
      /\ Calm' => /\ Calm /\ ~Busy(b)
                  /\ req'[q].pc \in WithToken => req'[q].token = jar[b]
  BY Arriving
<1>2. Attached'
  BY <1>1 DEF CookieInv, Attached, Others
<1>3. ASSUME Calm' PROVE Cookies'
  BY <1>1, <1>3, OneMoves DEF CookieInv, SameRows
<1> QED BY <1>2, <1>3 DEF CookieInv

\* A request that goes on, or ends, without an answer.
LEMMA MovingKeepsCookies ==
  ASSUME IInv, CookieInv, NEW q \in Requests, req[q].pc \notin {"idle", "answer"},
         UNCHANGED <<token, jar>>, Calm' => Calm,
         \/ Ends(q)
         \/ /\ Others(q) /\ req'[q].by = req[q].by /\ req'[q].pc \notin {"idle", "answer"}
            /\ Calm /\ req'[q].pc \in WithToken =>
                 /\ req[q].pc \in WithToken /\ req'[q].token = req[q].token
                 /\ req'[q].pc \notin {"reuse", "revoke"}
  PROVE  CookieInv'
<1>1. Attached'
  BY IdleBy DEF CookieInv, Attached, Others, Ends
<1>2. ASSUME Calm' PROVE Cookies'
  <2>1. Attached /\ Cookies /\ SameRows /\ Calm /\ Others(q)
    BY <1>2 DEF CookieInv, SameRows, Ends
  <2>2. req'[q].by \in Browsers \cup {None} /\ (req'[q].by # req[q].by => req'[q].by = None)
    BY <2>1, IdleBy DEF Ends, Attached
  <2>3. req'[q].pc # "answer" /\ (req'[q].pc \in WithToken =>
           req'[q].pc \notin {"reuse", "revoke"} /\ req'[q].token = jar[req'[q].by])
    BY <2>1, IdleBy DEF Ends, Cookies
  <2> QED BY <2>1, <2>2, <2>3, OneMoves
<1> QED BY <1>1, <1>2 DEF CookieInv

\* Logging in leaves the cookie alone until the answer.
LEMMA LoggingInKeepsCookies ==
  ASSUME IInv, CookieInv, NEW q \in Requests,
         \/ \E i \in Identities, e \in Emails : ConsumeState(q, i, e)
         \/ RegisterCreate(q) \/ FindAccount(q) \/ FindUser(q) \/ LinkAccount(q)
         \/ CreateGoogleUser(q)
  PROVE  CookieInv'
<1>1. /\ req[q].pc \notin {"idle", "answer"} /\ UNCHANGED <<token, jar, used>>
      /\ \/ Ends(q)
         \/ /\ Others(q) /\ req'[q].by = req[q].by
            /\ req'[q].pc \in {"issue", "account", "user", "link", "new"}
  BY LoggingIn
<1>2. Calm' => Calm
  BY <1>1 DEF Calm, Never
<1> QED BY <1>1, <1>2, MovingKeepsCookies DEF WithToken

\* In calm times what is presented is live: no request meets a reuse.
LEMMA PresentedIsLive ==
  ASSUME IInv, Attached, Cookies, NEW q \in Requests, req[q].pc \in WithToken
  PROVE  /\ req[q].token \in Tokens /\ req[q].by \in Browsers
         /\ jar[req[q].by] = req[q].token /\ token[req[q].token].st = "live"
<1>1. req[q].token \in Tokens /\ jar[req[q].by] = req[q].token
  BY DEF IInv, ReqInv, Cookies
<1>2. req[q].by \in Browsers /\ req[q].pc # "answer"
  BY DEF Attached, WithToken
<1>3. \A p \in Requests : req[p].by = req[q].by => req[p].pc # "answer"
  BY <1>2, JarIs DEF Cookies
<1> QED BY <1>1, <1>2, <1>3, JarIs DEF Cookies

\* What is checked is live, so that the request goes on to its rotation.
LEMMA CheckingKeepsCookies ==
  ASSUME IInv, CookieInv, NEW q \in Requests,
         Validate(q) \/ CheckOwner(q) \/ Claim(q) \/ SeeFamily(q)
  PROVE  CookieInv'
<1>1. /\ UNCHANGED <<token, jar>> /\ (Calm' => Calm)
      /\ req[q].pc \in {"validate", "owner", "rotate", "reuse"} /\ req[q].pc \in WithToken
  BY DEF Validate, CheckOwner, Claim, SeeFamily, Calm, Never, WithToken
<1>2. Calm => token[req[q].token].st = "live" /\ req[q].pc # "reuse"
  BY <1>1, PresentedIsLive DEF CookieInv, Cookies
<1>3. CASE Validate(q)
  <2>1. Refuse(q) \/ \E pc \in {"reuse", "owner"} :
          Go(q, pc) /\ (pc = "reuse" => token[req[q].token].st # "live")
    BY <1>3 DEF Validate
  <2> QED BY <1>1, <1>2, <2>1, GoIs, RefuseIs, MovingKeepsCookies DEF Goes
<1>4. CASE CheckOwner(q)
  <2>1. Refuse(q) \/ Go(q, "rotate")
    BY <1>4 DEF CheckOwner
  <2> QED BY <1>1, <1>2, <2>1, GoIs, RefuseIs, MovingKeepsCookies DEF Goes
<1>5. CASE Claim(q)
  <2>1. \E pc \in {"reuse", "commit"} :
          Go(q, pc) /\ (pc = "reuse" => token[req[q].token].st # "live")
    BY <1>5 DEF Claim
  <2> QED BY <1>1, <1>2, <2>1, GoIs, MovingKeepsCookies DEF Goes
<1>6. CASE SeeFamily(q)
  <2> DEFINE x == [req[q] EXCEPT !.pc = "revoke", !.todo = Live(token[req[q].token].family)]
  <2>1. x.pc = "revoke" /\ x.by = req[q].by
    BY DEF IInv, TypeOK, RequestStates
  <2>2. req' = [req EXCEPT ![q] = x] /\ req[q].pc = "reuse"
    BY <1>6, Zenon DEF SeeFamily
  <2> HIDE DEF x
  <2> QED BY <1>1, <1>2, <2>1, <2>2, Becomes, MovingKeepsCookies
<1> QED BY <1>3, <1>4, <1>5, <1>6

\* A request gets its answer ready: a new token or none, while the token that it
\* presented may be used up.
LEMMA ReadyKeepsCookies ==
  ASSUME IInv, CookieInv, Calm' => Calm, NEW q \in Requests, NEW n \in Tokens \cup {None},
         req[q].pc \notin {"idle", "answer"}, Others(q), UNCHANGED jar,
         req'[q].pc = "answer", req'[q].by = req[q].by, req'[q].next = n,
         n # None => Fresh(n) /\ token'[n].st = "live",
         \A t \in Tokens \ {n} :
           \/ token'[t].st = token[t].st
           \/ req[q].pc \in WithToken /\ t = req[q].token /\ token'[t].st = "revoked"
  PROVE  CookieInv'
<1>1. Attached' /\ req[q].by \in Browsers
  BY DEF CookieInv, Attached, Others
<1>2. ASSUME Calm' PROVE Cookies'
  <2>1. Attached /\ Cookies
    BY <1>2 DEF CookieInv
  <2> DEFINE b0 == req[q].by
  <2>2. \A t \in Tokens : t # n /\ jar[b0] # t => token'[t].st = token[t].st
    BY <2>1, PresentedIsLive
  <2>3. \A t \in Tokens : token[t].st # "fresh" => token'[t].st # "fresh" /\ t # n
    BY JarIs DEF Fresh
  <2>4. ASSUME NEW p \in Requests, NEW x \in Requests,
               req'[p].by = req'[x].by, req'[p].by # None
        PROVE  p = x
    BY <2>1, <2>4 DEF Others, Cookies
  <2>5. ASSUME NEW b \in Browsers, jar[b] # None
        PROVE  /\ token'[jar[b]].st # "fresh"
               /\ (\A p \in Requests : req'[p].by = b => req'[p].pc # "answer") =>
                    token'[jar[b]].st = "live"
               /\ \A c \in Browsers : jar[c] = jar[b] => c = b
    <3>1. jar[b] \in Tokens
      BY <2>5, JarIs
    <3>2. /\ token[jar[b]].st # "fresh"
          /\ (\A p \in Requests : req[p].by = b => req[p].pc # "answer") =>
               token[jar[b]].st = "live"
          /\ \A c \in Browsers : jar[c] = jar[b] => c = b
      BY <2>1, <2>5 DEF Cookies, Fresh
    <3>3. CASE b = b0
      BY <2>3, <3>1, <3>2, <3>3
    <3>4. CASE b # b0
      <4>1. token'[jar[b]].st = token[jar[b]].st
        BY <1>1, <2>2, <2>3, <3>1, <3>2, <3>4
      <4>2. \A p \in Requests : req'[p].by = b => p # q /\ req'[p] = req[p]
        BY <3>4 DEF Others
      <4>3. (\A p \in Requests : req'[p].by = b => req'[p].pc # "answer") =>
              \A p \in Requests : req[p].by = b => req[p].pc # "answer"
        BY <3>4 DEF Others
      <4> QED BY <3>2, <4>1, <4>3
    <3> QED BY <3>3, <3>4
  <2>6. ASSUME NEW p \in Requests, req'[p].pc \in WithToken
        PROVE  req'[p].pc \notin {"reuse", "revoke"} /\ req'[p].token = jar[req'[p].by]
    BY <2>1, <2>6 DEF Others, Cookies, WithToken
  <2>7. ASSUME NEW p \in Requests, NEW t \in Tokens, Brings(p, t)'
        PROVE  /\ token'[t].st = "live"
               /\ \A b \in Browsers : jar[b] # t
               /\ \A x \in Requests : Brings(x, t)' => x = p
    <3>1. CASE p = q
      <4>1. t = n /\ n # None /\ Fresh(n)
        BY <2>7, <3>1 DEF Brings
      <4>2. \A b \in Browsers : jar[b] # t
        BY <2>1, <4>1, JarIs DEF Cookies
      <4>3. \A x \in Requests : Brings(x, t) => FALSE
        BY <2>1, <4>1 DEF Cookies, Fresh
      <4>4. \A x \in Requests : Brings(x, t)' => x = q
        BY <4>3 DEF Brings, Others
      <4> QED BY <3>1, <4>1, <4>2, <4>4
    <3>2. CASE p # q
      <4>1. Brings(p, t)
        BY <2>7, <3>2 DEF Brings, Others
      <4>2. /\ token[t].st = "live" /\ \A b \in Browsers : jar[b] # t
            /\ \A x \in Requests : Brings(x, t) => x = p
        BY <2>1, <4>1 DEF Cookies
      <4>3. t # n
        BY <2>3, <4>2
      <4>4. token'[t].st = "live"
        BY <1>1, <2>2, <4>2, <4>3
      <4>5. \A x \in Requests : Brings(x, t)' => x = p
        BY <4>2, <4>3 DEF Brings, Others
      <4> QED BY <4>2, <4>4, <4>5
    <3> QED BY <3>1, <3>2
  <2> QED BY <2>4, <2>5, <2>6, <2>7 DEF Cookies, Fresh
<1> QED BY <1>1, <1>2 DEF CookieInv

\* A login, a rotation and a logout get their answer ready.
LEMMA GivingKeepsCookies ==
  ASSUME IInv, CookieInv, NEW q \in Requests,
         (\E n \in Tokens : Issue(q, n) \/ Commit(q, n)) \/ Logout(q)
  PROVE  CookieInv'
<1>1. token \in [Tokens -> TokenRows] /\ None \notin Tokens
  BY NoneAssumption DEF IInv, TypeOK
<1>2. ASSUME NEW n \in Tokens, Issue(q, n) PROVE CookieInv'
  <2> DEFINE x == [Arrive(req[q].by, "answer") EXCEPT !.next = n]
  <2>1. x.pc = "answer" /\ x.by = req[q].by /\ x.next = n
    BY DEF Arrive, Idle
  <2>2. /\ req' = [req EXCEPT ![q] = x] /\ UNCHANGED <<jar, used>>
        /\ req[q].pc = "issue" /\ Fresh(n)
    BY <1>2 DEF Issue
  <2>3. token'[n].st = "live" /\ \A t \in Tokens \ {n} : token'[t] = token[t]
    BY <1>1, <1>2 DEF Issue
  <2>4. Calm' => Calm
    BY <2>2 DEF Calm, Never
  <2> HIDE DEF x
  <2>5. Others(q) /\ req'[q] = x
    BY <2>2, Becomes
  <2>6. /\ req'[q].pc = "answer" /\ req'[q].by = req[q].by /\ req'[q].next = n
        /\ req[q].pc \notin {"idle", "answer"} /\ n \in Tokens \cup {None}
    BY <2>1, <2>2, <2>5
  <2> QED BY <2>2, <2>3, <2>4, <2>5, <2>6, ReadyKeepsCookies
<1>3. ASSUME NEW n \in Tokens, Commit(q, n) PROVE CookieInv'
  <2> DEFINE x == [req[q] EXCEPT !.pc = "answer", !.next = n]
             D == IF BeingRevoked(token[req[q].token].family) THEN {"race"} ELSE {}
  <2>1. x.pc = "answer" /\ x.by = req[q].by /\ x.next = n
    BY DEF IInv, TypeOK, RequestStates
  <2>2. /\ req' = [req EXCEPT ![q] = x] /\ UNCHANGED jar /\ SpendAll(D)
        /\ req[q].pc = "commit" /\ Fresh(n)
    BY <1>3, Zenon DEF Commit
  <2>3. req[q].token \in Tokens /\ token[req[q].token].st = "live"
    BY <2>2 DEF IInv, ReqInv, WithToken
  <2>4. /\ token'[n].st = "live" /\ token'[req[q].token].st = "revoked"
        /\ \A t \in Tokens \ {n, req[q].token} : token'[t] = token[t]
    <3>1. n # req[q].token
      BY <2>2, <2>3 DEF Fresh
    <3>2. token[req[q].token] \in TokenRows
      BY <1>1, <2>3
    <3>3. [token[req[q].token] EXCEPT !.st = "revoked"].st = "revoked"
      BY <3>2 DEF TokenRows
    <3> QED BY <1>1, <1>3, <2>3, <3>1, <3>3 DEF Commit
  <2>5. Calm' => Calm
    <3>1. D \in SUBSET Disturbances
      BY DEF Disturbances
    <3>2. \A d \in Disturbances : /\ used[d] \in Nat
                                  /\ used'[d] = IF d \in D THEN used[d] + 1 ELSE used[d]
      BY <2>2, <3>1 DEF SpendAll, IInv, TypeOK
    <3> QED BY <3>2 DEF Calm, Never, Disturbances
  <2> HIDE DEF x
  <2>6. Others(q) /\ req'[q] = x
    BY <2>2, Becomes
  <2>7. /\ req'[q].pc = "answer" /\ req'[q].by = req[q].by /\ req'[q].next = n
        /\ req[q].pc \notin {"idle", "answer"} /\ n \in Tokens \cup {None}
        /\ req[q].pc \in WithToken
    BY <2>1, <2>2, <2>6 DEF WithToken
  <2> QED BY <2>2, <2>3, <2>4, <2>5, <2>6, <2>7, ReadyKeepsCookies
<1>4. CASE Logout(q)
  <2> DEFINE x == [req[q] EXCEPT !.pc = "answer", !.next = None]
  <2>1. x.pc = "answer" /\ x.by = req[q].by /\ x.next = None
    BY DEF IInv, TypeOK, RequestStates
  <2>2. /\ req' = [req EXCEPT ![q] = x] /\ UNCHANGED <<jar, used>>
        /\ req[q].pc = "logout"
    BY <1>4, Zenon DEF Logout
  <2>3. \A t \in Tokens : token'[t] = token[t] \/ (t = req[q].token /\ token'[t].st = "revoked")
    <3>1. \A row \in TokenRows : [row EXCEPT !.st = "revoked"].st = "revoked"
      BY DEF TokenRows
    <3> QED BY <1>1, <1>4, <3>1 DEF Logout, RevokeAll
  <2>4. Calm' => Calm
    BY <2>2 DEF Calm, Never
  <2> HIDE DEF x
  <2>5. Others(q) /\ req'[q] = x
    BY <2>2, Becomes
  <2>6. /\ req'[q].pc = "answer" /\ req'[q].by = req[q].by /\ req'[q].next = None
        /\ req[q].pc \notin {"idle", "answer"} /\ None \in Tokens \cup {None}
        /\ req[q].pc \in WithToken
    BY <2>1, <2>2, <2>5 DEF WithToken
  <2> QED BY <2>2, <2>3, <2>4, <2>5, <2>6, ReadyKeepsCookies
<1> QED BY <1>2, <1>3, <1>4

\* The answer sets the cookie.
LEMMA AnswerKeepsCookies ==
  ASSUME IInv, CookieInv, NEW q \in Requests, Answer(q)
  PROVE  CookieInv'
<1> DEFINE b0 == req[q].by
           n == req[q].next
<1>1. /\ Others(q) /\ req'[q] = Idle /\ UNCHANGED <<token, used>> /\ req[q].pc = "answer"
  BY Becomes DEF Answer
<1>2. b0 \in Browsers
  BY <1>1 DEF CookieInv, Attached
<1>3. n \in Tokens \cup {None} /\ jar'[b0] = n /\ \A b \in Browsers \ {b0} : jar'[b] = jar[b]
  BY <1>2 DEF Answer, IInv, TypeOK, RequestStates
<1>4. Attached'
  BY <1>1, IdleBy DEF CookieInv, Attached, Others
<1>5. ASSUME Calm' PROVE Cookies'
  <2>1. Attached /\ Cookies
    BY <1>1, <1>5 DEF CookieInv, Calm, Never
  <2>2. \A p \in Requests \ {q} : req[p].by # b0
    BY <1>2, <2>1, JarIs DEF Cookies
  <2>3. n # None => /\ token[n].st = "live" /\ \A b \in Browsers : jar[b] # n
                    /\ \A p \in Requests : Brings(p, n) => p = q
    BY <1>1, <1>3, <2>1 DEF Cookies, Brings
  <2>4. ASSUME NEW p \in Requests, NEW x \in Requests,
               req'[p].by = req'[x].by, req'[p].by # None
        PROVE  p = x
    BY <1>1, <2>1, <2>4, IdleBy DEF Others, Cookies
  <2>5. ASSUME NEW b \in Browsers, jar'[b] # None
        PROVE  /\ token[jar'[b]].st # "fresh"
               /\ (\A p \in Requests : req'[p].by = b => req'[p].pc # "answer") =>
                    token[jar'[b]].st = "live"
               /\ \A c \in Browsers : jar'[c] = jar'[b] => c = b
    <3>1. CASE b = b0
      BY <1>2, <1>3, <2>3, <2>5, <3>1
    <3>2. CASE b # b0
      <4>1. jar'[b] = jar[b]
        BY <1>3, <3>2
      <4>2. (\A p \in Requests : req'[p].by = b => req'[p].pc # "answer") =>
              \A p \in Requests : req[p].by = b => req[p].pc # "answer"
        BY <1>1, <3>2 DEF Others
      <4>3. /\ token[jar[b]].st # "fresh"
            /\ (\A p \in Requests : req[p].by = b => req[p].pc # "answer") =>
                 token[jar[b]].st = "live"
            /\ \A c \in Browsers : jar[c] = jar[b] => c = b
        BY <2>1, <2>5, <4>1 DEF Cookies, Fresh
      <4>4. \A c \in Browsers : jar'[c] = jar'[b] => c = b
        <5>1. n # jar[b]
          BY <2>3, <2>5, <4>1
        <5> QED BY <1>3, <4>1, <4>3, <5>1
      <4> QED BY <4>1, <4>2, <4>3, <4>4
    <3> QED BY <3>1, <3>2
  <2>6. ASSUME NEW p \in Requests, req'[p].pc \in WithToken
        PROVE  req'[p].pc \notin {"reuse", "revoke"} /\ req'[p].token = jar'[req'[p].by]
    <3>1. p # q
      BY <1>1, <2>6, IdleBy
    <3>2. req'[p] = req[p] /\ req[p].by # b0
      BY <1>1, <2>2, <3>1 DEF Others
    <3>3. req[p].by \in Browsers
      BY <2>1, <2>6, <3>2 DEF Attached, WithToken
    <3> QED BY <1>3, <2>1, <2>6, <3>2, <3>3 DEF Cookies
  <2>7. ASSUME NEW p \in Requests, NEW t \in Tokens, Brings(p, t)'
        PROVE  /\ token[t].st = "live"
               /\ \A b \in Browsers : jar'[b] # t
               /\ \A x \in Requests : Brings(x, t)' => x = p
    <3>1. p # q /\ Brings(p, t)
      BY <1>1, <2>7, IdleBy DEF Brings, Others
    <3>2. /\ token[t].st = "live" /\ \A b \in Browsers : jar[b] # t
          /\ \A x \in Requests : Brings(x, t) => x = p
      BY <2>1, <3>1 DEF Cookies
    <3>3. n # t
      BY <1>1, <3>1, <3>2 DEF Brings
    <3>4. \A x \in Requests : Brings(x, t)' => Brings(x, t)
      BY <1>1, IdleBy DEF Brings, Others
    <3> QED BY <1>3, <3>2, <3>3, <3>4
  <2> QED BY <1>1, <2>4, <2>5, <2>6, <2>7 DEF Cookies, Fresh
<1> QED BY <1>4, <1>5 DEF CookieInv

\* Revoking a family, or losing an answer, is not for calm times.
LEMMA RestKeepsCookies ==
  ASSUME IInv, CookieInv,
         \/ \E q \in Requests : RevokeFamily(q) \/ Lose(q)
         \/ \E s \in States : GoogleBegin(s)
         \/ \E t \in Tokens : Expire(t)
         \/ \E e \in Emails : Suspend(e)
         \/ UNCHANGED vars
  PROVE  CookieInv'
<1>1. ASSUME NEW d \in Disturbances, Spend(d)
      PROVE  (Calm' => Calm) /\ (d = "lost" => ~Calm')
  <2>1. \A c \in Disturbances : /\ used[c] \in Nat
                                /\ used'[c] = IF c \in {d} THEN used[c] + 1 ELSE used[c]
    BY <1>1 DEF Spend, SpendAll, IInv, TypeOK
  <2> QED BY <2>1 DEF Calm, Never, Disturbances
<1>2. ASSUME NEW q \in Requests, Lose(q) PROVE CookieInv'
  <2>1. Ends(q) /\ Spend("lost")
    BY <1>2, Becomes DEF Lose, Ends
  <2>2. ~Calm'
    BY <1>1, <2>1 DEF Disturbances
  <2>3. Attached'
    BY <2>1, IdleBy DEF CookieInv, Attached, Ends, Others
  <2> QED BY <2>2, <2>3 DEF CookieInv
<1>3. ASSUME NEW q \in Requests, RevokeFamily(q) PROVE CookieInv'
  <2>1. Ends(q) /\ req[q].pc = "revoke" /\ UNCHANGED used
    BY <1>3, RefuseIs DEF RevokeFamily
  <2>2. ~Calm'
    BY <2>1 DEF CookieInv, Cookies, Calm, Never, WithToken
  <2>3. Attached'
    BY <2>1, IdleBy DEF CookieInv, Attached, Ends, Others
  <2> QED BY <2>2, <2>3 DEF CookieInv
<1>4. ASSUME UNCHANGED <<req, jar>>, SameRows, Calm' => Calm PROVE CookieInv'
  <2>1. Attached' /\ (\A q \in Requests, t \in Tokens : Brings(q, t)' <=> Brings(q, t))
    BY <1>4 DEF CookieInv, Attached, Brings
  <2>2. \A b \in Browsers : jar[b] # None => token'[jar[b]].st = token[jar[b]].st
    BY <1>4, JarIs DEF SameRows
  <2> QED BY <1>4, <2>1, <2>2 DEF CookieInv, Cookies, Fresh, SameRows
<1>5. ASSUME NEW s \in States, GoogleBegin(s) PROVE CookieInv'
  <2>1. UNCHANGED <<req, jar, token, used>>
    BY <1>5 DEF GoogleBegin
  <2> QED BY <1>4, <2>1 DEF SameRows, Calm, Never
<1>6. ASSUME NEW t \in Tokens, Expire(t) PROVE CookieInv'
  <2>1. SameRows /\ UNCHANGED <<req, jar>> /\ Spend("expiry")
    BY <1>6 DEF Expire, SameRows, IInv, TypeOK, TokenRows
  <2> QED BY <1>1, <1>4, <2>1 DEF Disturbances
<1>7. ASSUME NEW e \in Emails, Suspend(e) PROVE CookieInv'
  <2>1. UNCHANGED <<req, jar, token>> /\ Spend("suspend")
    BY <1>7 DEF Suspend
  <2> QED BY <1>1, <1>4, <2>1 DEF Disturbances, SameRows
<1>8. ASSUME UNCHANGED vars PROVE CookieInv'
  BY <1>4, <1>8 DEF vars, SameRows, Calm, Never
<1> QED BY <1>2, <1>3, <1>5, <1>6, <1>7, <1>8

\* Every step keeps the cookies.
LEMMA StepKeepsCookies ==
  IInv /\ CookieInv /\ [Next]_vars => CookieInv'
<1> SUFFICES ASSUME IInv, CookieInv, [Next]_vars PROVE CookieInv'
  OBVIOUS
<1> QED BY ArrivingKeepsCookies, LoggingInKeepsCookies, CheckingKeepsCookies,
           GivingKeepsCookies, AnswerKeepsCookies, RestKeepsCookies DEF Next

\* A browser that sends one request at a time, waits for the answer and presents
\* the cookie it has is never logged out by the service, for any number of
\* browsers and requests and however often tokens expire, users are suspended and
\* other browsers log in and out.
THEOREM CookieStaysValid == Spec => []CookieIsValid
<1>1. Init => CookieInv
  BY DEF Init, CookieInv, Attached, Cookies, Brings, Idle, WithToken
<1>2. IInv /\ CookieInv => CookieIsValid
  <2> SUFFICES ASSUME IInv, CookieInv, Calm, NEW b \in Browsers, jar[b] # None, ~Busy(b)
               PROVE  token[jar[b]].st = "live"
    BY DEF CookieIsValid, Calm
  <2> QED BY DEF CookieInv, Cookies, Busy
<1>3. IInv /\ [Next]_vars => IInv'
  BY StepKeepsInv
<1> QED BY <1>1, <1>2, <1>3, InvInit, StepKeepsCookies, PTL DEF Spec
-----------------------------------------------------------------------------
(* The user of an identity                                                 *)

\* Between Google's answer and the entry, a request bears an identity.
Naming == {"account", "user", "link", "new"}

Identified ==
  /\ \A i \in Identities : \A e, f \in Bound(i) : e = f
  /\ \A e \in Emails : account[e].st = "ABSENT" => account[e].google = None
  /\ \A q \in Requests :
       IF req[q].pc \in Naming THEN req[q].id \in Identities
       ELSE req[q].id = None

\* What IdentityKeepsUser says of one step.
KeepsUser ==
  \A i \in Identities :
    /\ Bound(i) # {} => Bound(i)' = Bound(i)
    /\ \A q \in Requests :
         req[q].id = i /\ req'[q].pc = "issue" => {req'[q].email} = Bound(i)'

Keeps == Identified' /\ KeepsUser

SameUsers ==
  \A e \in Emails : /\ account'[e].google = account[e].google
                    /\ account'[e].st = "ABSENT" => account[e].st = "ABSENT"

\* A request moves and no account is bound.
LEMMA UnboundStep ==
  ASSUME IInv, Identified, NEW q \in Requests, Others(q), SameUsers,
         IF req'[q].pc \in Naming THEN req'[q].id \in Identities ELSE req'[q].id = None,
         req'[q].pc = "issue" =>
           req[q].id = None \/ {req'[q].email} = Bound(req[q].id)
  PROVE  Keeps
<1>1. \A i \in Identities : Bound(i)' = Bound(i)
  BY DEF Bound, SameUsers
<1>2. Identified'
  <2>1. \A i \in Identities : \A e, f \in Bound(i)' : e = f
    BY <1>1 DEF Identified
  <2>2. \A e \in Emails : account'[e].st = "ABSENT" => account'[e].google = None
    BY DEF Identified, SameUsers
  <2>3. \A p \in Requests :
          IF req'[p].pc \in Naming THEN req'[p].id \in Identities ELSE req'[p].id = None
    BY DEF Identified, Others
  <2> QED BY <2>1, <2>2, <2>3 DEF Identified
<1>3. ASSUME NEW i \in Identities, NEW p \in Requests, req[p].id = i, req'[p].pc = "issue"
      PROVE  {req'[p].email} = Bound(i)'
  <2>1. i # None
    BY NoneAssumption
  <2>2. CASE p = q
    BY <1>1, <1>3, <2>1, <2>2
  <2>3. CASE p # q
    BY <1>3, <2>1, <2>3 DEF Identified, Others, Naming
  <2> QED BY <2>2, <2>3
<1> QED BY <1>1, <1>2, <1>3 DEF Keeps, KeepsUser

\* No request moves.
LEMMA StillStep ==
  ASSUME IInv, Identified, UNCHANGED req, SameUsers
  PROVE  Keeps
<1>1. \A i \in Identities : Bound(i)' = Bound(i)
  BY DEF Bound, SameUsers
<1>2. Identified'
  BY <1>1 DEF Identified, SameUsers
<1>3. \A q \in Requests : req'[q].pc = "issue" => req[q].id = None
  BY DEF Identified, Naming
<1> QED BY <1>1, <1>2, <1>3, NoneAssumption DEF Keeps, KeepsUser

\* An account is bound, and the request enters as its user.
LEMMA BindingStep ==
  ASSUME IInv, Identified, NEW q \in Requests, NEW e \in Emails,
         req[q].pc \in Naming, Bound(req[q].id) = {}, account[e].google = None,
         account'[e].google = req[q].id, account'[e].st # "ABSENT",
         \A f \in Emails \ {e} : account'[f] = account[f],
         Enters(q, e) \/ Ends(q)
  PROVE  Keeps
<1>1. PICK i \in Identities : i = req[q].id /\ i # None
  BY NoneAssumption DEF Identified
<1>2. Bound(i)' = {e}
  <2>1. account'[e].google = i /\ \A f \in Emails : account[f].google # i
    BY <1>1 DEF Bound
  <2> QED BY <2>1 DEF Bound
<1>3. \A j \in Identities \ {i} : Bound(j)' = Bound(j)
  <2>1. account'[e].google = i /\ \A j \in Identities : account[e].google # j
    BY <1>1, NoneAssumption
  <2> QED BY <2>1 DEF Bound
<1>4. Others(q)
  BY DEF Enters, Ends
<1>5. Identified'
  <2>1. \A j \in Identities : \A f, g \in Bound(j)' : f = g
    BY <1>2, <1>3 DEF Identified
  <2>2. \A f \in Emails : account'[f].st = "ABSENT" => account'[f].google = None
    BY DEF Identified
  <2>3. \A p \in Requests :
          IF req'[p].pc \in Naming THEN req'[p].id \in Identities ELSE req'[p].id = None
    BY IdleBy DEF Identified, Others, Enters, Ends, Naming
  <2> QED BY <2>1, <2>2, <2>3 DEF Identified
<1>6. ASSUME NEW j \in Identities, NEW p \in Requests, req[p].id = j, req'[p].pc = "issue"
      PROVE  {req'[p].email} = Bound(j)'
  <2>1. p = q
    BY <1>4, <1>6, NoneAssumption DEF Identified, Others, Naming
  <2> QED BY <1>1, <1>2, <1>6, <2>1, IdleBy DEF Enters, Ends
<1> QED BY <1>1, <1>2, <1>3, <1>5, <1>6 DEF Keeps, KeepsUser

\* An arriving request bears no identity.
LEMMA ArrivingKeepsUser ==
  ASSUME IInv, Identified, NEW q \in Requests, NEW b \in Browsers,
         \/ \E s \in States : GoogleCallback(q, b, s)
         \/ \E e \in Emails : RegisterFind(q, b, e) \/ LoginFind(q, b, e)
         \/ \E t \in Tokens, pc \in {"validate", "logout"} : Present(q, b, t, pc)
  PROVE  Keeps
<1>1. /\ req[q].pc = "idle" /\ Others(q) /\ req'[q].id = None /\ UNCHANGED account
      /\ req'[q].pc \in {"create", "issue", "consume", "validate", "logout"}
  BY Arriving
<1>2. req[q].id = None /\ req'[q].pc \notin Naming
  BY <1>1 DEF Identified, Naming
<1> QED BY <1>1, <1>2, UnboundStep DEF SameUsers

\* A request that goes on or ends, and neither takes up nor drops an identity.
LEMMA GoingKeepsUser ==
  ASSUME IInv, Identified, NEW q \in Requests, SameUsers,
         \/ Ends(q)
         \/ \E pc \in Steps :
              /\ Goes(q, pc)
              /\ pc \in Naming <=> req[q].pc \in Naming
  PROVE  Keeps
<1>1. Others(q)
  BY DEF Ends, Goes
<1>2. IF req'[q].pc \in Naming THEN req'[q].id \in Identities ELSE req'[q].id = None
  BY IdleBy DEF Ends, Goes, Identified, Naming
<1>3. req'[q].pc = "issue" => req[q].id = None
  BY IdleBy DEF Ends, Goes, Identified, Naming
<1> QED BY <1>1, <1>2, <1>3, UnboundStep

\* A login without a binding enters as the one user that the identity is bound to.
LEMMA LoginKeepsUser ==
  ASSUME IInv, Identified, NEW q \in Requests,
         \/ \E i \in Identities, e \in Emails : ConsumeState(q, i, e)
         \/ RegisterCreate(q) \/ FindAccount(q) \/ FindUser(q)
  PROVE  Keeps
<1>1. ASSUME NEW i \in Identities, NEW e \in Emails, ConsumeState(q, i, e) PROVE Keeps
  <2> DEFINE x == [Arrive(req[q].by, "account") EXCEPT !.id = i, !.email = e]
  <2>1. x.pc = "account" /\ x.id = i
    BY DEF Arrive, Idle
  <2>2. (req' = [req EXCEPT ![q] = x] \/ Refuse(q)) /\ UNCHANGED account
    BY <1>1 DEF ConsumeState, Profile
  <2> HIDE DEF x
  <2>3. CASE Refuse(q)
    BY <2>2, <2>3, RefuseIs, GoingKeepsUser DEF SameUsers
  <2>4. CASE req' = [req EXCEPT ![q] = x]
    <3>1. Others(q) /\ req'[q].pc = "account" /\ req'[q].id = i
      BY <2>1, <2>4, Becomes
    <3> QED BY <2>2, <3>1, UnboundStep DEF SameUsers, Naming
  <2> QED BY <2>2, <2>3, <2>4
<1>2. CASE RegisterCreate(q)
  <2>1. req[q].pc = "create" /\ (Go(q, "issue") \/ Refuse(q))
    BY <1>2 DEF RegisterCreate
  <2>2. SameUsers
    <3> DEFINE e == req[q].email
               new == [st |-> "ACTIVE", password |-> TRUE, google |-> None]
    <3>1. \/ UNCHANGED account
          \/ account[e].st = "ABSENT" /\ account' = [account EXCEPT ![e] = new]
      BY <1>2 DEF RegisterCreate
    <3>2. e \in Emails /\ account \in [Emails -> Users]
      BY <1>2 DEF RegisterCreate, IInv, TypeOK, ReqInv, WithEmail
    <3> QED BY <3>1, <3>2 DEF Identified, SameUsers
  <2>3. Goes(q, "issue") \/ Ends(q)
    BY <2>1, GoIs, RefuseIs
  <2> QED BY <2>1, <2>2, <2>3, GoingKeepsUser DEF Naming, Steps
<1>3. CASE FindAccount(q)
  <2>1. req[q].pc = "account" /\ SameUsers
    BY <1>3 DEF FindAccount, SameUsers
  <2>2. CASE Go(q, "user")
    BY <2>1, <2>2, GoIs, GoingKeepsUser DEF Naming, Steps
  <2>3. ASSUME NEW e \in Bound(req[q].id), Enter(q, e) PROVE Keeps
    <3>1. e \in Emails
      BY DEF Bound
    <3>2. CASE Ends(q)
      BY <2>1, <3>2, GoingKeepsUser
    <3>3. CASE Enters(q, e)
      <4>1. req[q].id \in Identities
        BY <2>1 DEF Identified, Naming
      <4>2. {e} = Bound(req[q].id)
        BY <4>1 DEF Identified
      <4>3. /\ Others(q) /\ req'[q].pc = "issue" /\ req'[q].id = None
            /\ req'[q].email = e /\ "issue" \notin Naming
        BY <3>3 DEF Enters, Naming
      <4> QED BY <2>1, <4>2, <4>3, UnboundStep
    <3> QED BY <2>3, <3>1, <3>2, <3>3, EnterIs
  <2> QED BY <1>3, <2>2, <2>3 DEF FindAccount
<1>4. CASE FindUser(q)
  <2>1. req[q].pc = "user" /\ SameUsers /\ \E pc \in {"new", "link"} : Go(q, pc)
    BY <1>4 DEF FindUser, SameUsers
  <2> QED BY <2>1, GoIs, GoingKeepsUser DEF Naming, Steps
<1> QED BY <1>1, <1>2, <1>3, <1>4

\* A binding meets the unique indexes.
LEMMA BindingKeepsUser ==
  ASSUME IInv, Identified, NEW q \in Requests, LinkAccount(q) \/ CreateGoogleUser(q)
  PROVE  Keeps
<1> DEFINE e == req[q].email
<1>1. e \in Emails /\ account \in [Emails -> Users] /\ req[q].pc \in Naming
  BY DEF LinkAccount, CreateGoogleUser, IInv, TypeOK, ReqInv, WithEmail, Naming
<1>2. CASE UNCHANGED account /\ Refuse(q)
  BY <1>2, RefuseIs, GoingKeepsUser DEF SameUsers
<1>3. CASE LinkAccount(q) /\ Bound(req[q].id) = {} /\ account[e].google = None
  <2> DEFINE x == [account[e] EXCEPT !.google = req[q].id]
  <2>1. x.google = req[q].id /\ x.st = account[e].st
    BY <1>1 DEF Users
  <2>2. account' = [account EXCEPT ![e] = x] /\ Enter(q, e)
    BY <1>3, Zenon DEF LinkAccount
  <2>3. account[e].st # "ABSENT"
    BY <1>3 DEF LinkAccount, IInv, ReqInv
  <2> HIDE DEF x
  <2>4. /\ account'[e].google = req[q].id /\ account'[e].st # "ABSENT"
        /\ \A f \in Emails \ {e} : account'[f] = account[f]
    BY <1>1, <2>1, <2>2, <2>3
  <2>5. Enters(q, e) \/ Ends(q)
    BY <1>1, <2>2, EnterIs
  <2> QED BY <1>1, <1>3, <2>4, <2>5, BindingStep
<1>4. CASE CreateGoogleUser(q) /\ Bound(req[q].id) = {} /\ account[e].st = "ABSENT"
  <2> DEFINE x == [st |-> "ACTIVE", password |-> FALSE, google |-> req[q].id]
             y == [req[q] EXCEPT !.pc = "issue", !.id = None]
  <2>1. account' = [account EXCEPT ![e] = x] /\ req' = [req EXCEPT ![q] = y]
    BY <1>4, Zenon DEF CreateGoogleUser
  <2>2. x.google = req[q].id /\ x.st = "ACTIVE"
    OBVIOUS
  <2>3. y.pc = "issue" /\ y.by = req[q].by /\ y.id = None /\ y.email = e
    BY DEF IInv, TypeOK, RequestStates
  <2> HIDE DEF x, y
  <2>4. /\ account'[e].google = req[q].id /\ account'[e].st # "ABSENT"
        /\ \A f \in Emails \ {e} : account'[f] = account[f]
    BY <1>1, <2>1, <2>2
  <2>5. Enters(q, e)
    BY <2>1, <2>3, Becomes DEF Enters
  <2>6. account[e].google = None
    BY <1>1, <1>4 DEF Identified
  <2> QED BY <1>1, <1>4, <2>4, <2>5, <2>6, BindingStep
<1> QED BY <1>2, <1>3, <1>4, Zenon DEF LinkAccount, CreateGoogleUser

\* What is done with tokens has nothing to do with identities.
LEMMA TokensKeepUser ==
  ASSUME IInv, Identified, NEW q \in Requests,
         \/ \E t \in Tokens : Issue(q, t) \/ Commit(q, t)
         \/ Validate(q) \/ CheckOwner(q) \/ Claim(q) \/ SeeFamily(q) \/ RevokeFamily(q)
         \/ Logout(q) \/ Answer(q) \/ Lose(q)
  PROVE  Keeps
<1>1. SameUsers
  BY Zenon DEF SameUsers, Issue, Commit, Validate, CheckOwner, Claim, SeeFamily, RevokeFamily,
               Logout, Answer, Lose
<1>2. ASSUME NEW x, x.pc \notin Naming, x.pc # "issue", x.id = None,
             req' = [req EXCEPT ![q] = x]
      PROVE  Keeps
  <2>1. Others(q) /\ req'[q] = x
    BY <1>2, Becomes
  <2> QED BY <1>1, <1>2, <2>1, UnboundStep
<1>3. ASSUME Ends(q) PROVE Keeps
  BY <1>1, <1>3, GoingKeepsUser
<1>4. ASSUME NEW pc \in {"owner", "rotate", "reuse", "commit"},
             req[q].pc \in {"validate", "owner", "rotate"}, Go(q, pc)
      PROVE  Keeps
  BY <1>1, <1>4, GoIs, GoingKeepsUser DEF Naming, Steps
<1>5. ASSUME NEW t \in Tokens, Issue(q, t) PROVE Keeps
  <2> DEFINE x == [Arrive(req[q].by, "answer") EXCEPT !.next = t]
  <2>1. x.pc = "answer" /\ x.id = None
    BY DEF Arrive, Idle
  <2>2. req' = [req EXCEPT ![q] = x]
    BY <1>5 DEF Issue
  <2> HIDE DEF x
  <2> QED BY <1>2, <2>1, <2>2 DEF Naming
<1>6. ASSUME NEW pc \in {"commit", "reuse", "logout"}, req[q].pc = pc, NEW x,
             req' = [req EXCEPT ![q] = x], x.id = req[q].id, x.pc \in {"answer", "revoke"}
      PROVE  Keeps
  <2>1. req[q].id = None
    BY <1>6 DEF Identified, Naming
  <2> QED BY <1>2, <1>6, <2>1 DEF Naming
<1>7. ASSUME NEW t \in Tokens, Commit(q, t) PROVE Keeps
  <2> DEFINE x == [req[q] EXCEPT !.pc = "answer", !.next = t]
  <2>1. x.pc = "answer" /\ x.id = req[q].id
    BY DEF IInv, TypeOK, RequestStates
  <2>2. req' = [req EXCEPT ![q] = x] /\ req[q].pc = "commit"
    BY <1>7, Zenon DEF Commit
  <2> HIDE DEF x
  <2> QED BY <1>6, <2>1, <2>2
<1>8. ASSUME SeeFamily(q) PROVE Keeps
  <2> DEFINE x == [req[q] EXCEPT !.pc = "revoke", !.todo = Live(token[req[q].token].family)]
  <2>1. x.pc = "revoke" /\ x.id = req[q].id
    BY DEF IInv, TypeOK, RequestStates
  <2>2. req' = [req EXCEPT ![q] = x] /\ req[q].pc = "reuse"
    BY <1>8, Zenon DEF SeeFamily
  <2> HIDE DEF x
  <2> QED BY <1>6, <2>1, <2>2
<1>9. ASSUME Logout(q) PROVE Keeps
  <2> DEFINE x == [req[q] EXCEPT !.pc = "answer", !.next = None]
  <2>1. x.pc = "answer" /\ x.id = req[q].id
    BY DEF IInv, TypeOK, RequestStates
  <2>2. req' = [req EXCEPT ![q] = x] /\ req[q].pc = "logout"
    BY <1>9, Zenon DEF Logout
  <2> HIDE DEF x
  <2> QED BY <1>6, <2>1, <2>2
<1>10. CASE RevokeFamily(q) \/ Answer(q) \/ Lose(q)
  <2>1. req' = [req EXCEPT ![q] = Idle]
    BY <1>10 DEF RevokeFamily, Answer, Lose, Refuse
  <2> QED BY <1>3, <2>1, Becomes DEF Ends
<1>11. CASE Validate(q) \/ CheckOwner(q) \/ Claim(q)
  <2>1. \/ Refuse(q)
        \/ /\ req[q].pc \in {"validate", "owner", "rotate"}
           /\ \E pc \in {"owner", "rotate", "reuse", "commit"} : Go(q, pc)
    BY <1>11 DEF Validate, CheckOwner, Claim
  <2> QED BY <1>3, <1>4, <2>1, RefuseIs
<1> QED BY <1>5, <1>7, <1>8, <1>9, <1>10, <1>11

\* Every step keeps the users.
LEMMA StepKeepsUser ==
  IInv /\ Identified /\ [Next]_vars => Identified' /\ KeepsUser
<1> SUFFICES ASSUME IInv, Identified, [Next]_vars PROVE Keeps
  BY DEF Keeps
<1>1. ASSUME \/ UNCHANGED vars
             \/ \E s \in States : GoogleBegin(s)
             \/ \E t \in Tokens : Expire(t)
      PROVE  Keeps
  BY <1>1, StillStep DEF vars, GoogleBegin, Expire, SameUsers
<1>2. ASSUME NEW e \in Emails, Suspend(e) PROVE Keeps
  <2> DEFINE x == [account[e] EXCEPT !.st = "SUSPENDED"]
  <2>1. account \in [Emails -> Users]
    BY DEF IInv, TypeOK
  <2>2. x.google = account[e].google /\ x.st = "SUSPENDED"
    BY <2>1 DEF Users
  <2>3. account' = [account EXCEPT ![e] = x] /\ UNCHANGED req
    BY <1>2 DEF Suspend
  <2> HIDE DEF x
  <2>4. SameUsers
    BY <2>1, <2>2, <2>3 DEF SameUsers
  <2> QED BY <2>3, <2>4, StillStep
<1> QED BY <1>1, <1>2, ArrivingKeepsUser, LoginKeepsUser, BindingKeepsUser, TokensKeepUser
        DEF Next

\* An identity enters as one and the same user, for any number of addresses,
\* identities and concurrent first logins: the unique index admits one binding,
\* and a request that meets another one's is refused.
THEOREM OneUserPerIdentity == Spec => IdentityKeepsUser
<1>1. Init => Identified
  <2> SUFFICES ASSUME Init PROVE Identified
    OBVIOUS
  <2>1. \A e \in Emails : account[e] = NoUser
    BY DEF Init
  <2>2. \A i \in Identities : Bound(i) = {}
    BY <2>1, NoneAssumption DEF Bound, NoUser
  <2> QED BY <2>1, <2>2 DEF Init, Identified, NoUser, Idle, Naming
<1>2. IInv /\ [Next]_vars => IInv'
  BY StepKeepsInv
<1>3. KeepsUser => [\A i \in Identities :
        /\ Bound(i) # {} => Bound(i)' = Bound(i)
        /\ \A q \in Requests :
             req[q].id = i /\ req'[q].pc = "issue" => {req'[q].email} = Bound(i)']_vars
  BY Zenon DEF KeepsUser
<1> QED BY <1>1, <1>2, <1>3, InvInit, StepKeepsUser, PTL DEF Spec, IdentityKeepsUser

=============================================================================
