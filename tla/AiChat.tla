------------------------------- MODULE AiChat -------------------------------
(***************************************************************************)
(* The repository assistant for one user: chats, conversations and the     *)
(* rate limit, while scans of the repository go on.                        *)
(*                                                                         *)
(* A chat is one call of the chat endpoint, at its next awaited call.      *)
(* The repositories' intelligence is reduced to one list of items per      *)
(* scan; ApiHistory has the APIs' own story.                               *)
(***************************************************************************)
EXTENDS AiContext

CONSTANTS
  Chats, Conversations, Repositories,
  Earlier,       \* a chat that is over, in minute 1
  Opened,        \* the conversation that it has begun, about Scanned
  Scanned,       \* the repository that has scans
  LastScan,      \* its scans are 1..LastScan
  Routes,        \* what a scan finds: a sequence of items without ids
  HistoryLimit,  \* HISTORY_MESSAGE_LIMIT
  PerMinute,     \* limitPerMinute
  Windows,       \* minutes 1..Windows
  Limit,         \* how often each disturbance may happen
  Budget,        \* how many disturbances may happen in all
  None

\* overlap: two chats in one conversation at the same time; lost: the process
\* dies in a chat; failure: the provider fails; delete: a conversation is
\* deleted; broken: a scan fails or is cancelled; rerun: a completed scan is
\* retried; detach: an execution of a scan times out and goes on.
Disturbances ==
  {"overlap", "lost", "failure", "delete", "broken", "rerun", "detach"}

ASSUME ScannedAssumption == Scanned \in Repositories /\ LastScan \in Nat
ASSUME EarlierAssumption == Earlier \notin Chats /\ Opened \in Conversations
ASSUME ConversationsAssumption == IsFiniteSet(Conversations)
ASSUME NoneAssumption == None \notin Chats \cup Conversations \cup Repositories
ASSUME BoundsAssumption ==
  HistoryLimit \in Nat /\ PerMinute \in Nat \ {0} /\ Windows \in Nat \ {0}
ASSUME RoutesAssumption ==
  Routes \in Seq([relevant : BOOLEAN, score : 0..MaxScore, size : Nat])
ASSUME LimitAssumption == Limit \in [Disturbances -> Nat] /\ Budget \in Nat

VARIABLES
  minute,  \* the clock, in windows of the rate limit
  key,     \* the Redis key of each window: [count, expires]
  conv,    \* conversations with their messages in the order of createdAt
  chat,    \* chats
  scan,    \* scans and what they found
  used     \* disturbances that have happened

vars == <<minute, key, conv, chat, scan, used>>

NoKey == [count |-> 0, expires |-> FALSE]
NoConversation == [st |-> "absent", repo |-> None, messages |-> <<>>]
Messages(k) == <<[role |-> "USER", of |-> k], [role |-> "ASSISTANT", of |-> k]>>
New == [pc |-> "new", repo |-> None, conv |-> None, minute |-> 0, scan |-> 0,
        whole |-> FALSE, items |-> <<>>, history |-> <<>>, answer |-> None]

\* A chat that has retrieved nothing.
Fresh(pc, r, c, m) ==
  [New EXCEPT !.pc = pc, !.repo = r, !.conv = c, !.minute = m]

\* A scan is running before and stored after it has written its rows; writes
\* counts how often it has, late the timed-out executions that still may.
NoScan == [st |-> "absent", writes |-> 0, rows |-> {}, late |-> 0]

Init ==
  /\ minute = 1
  /\ key = [w \in 1..Windows |->
       IF w = 1 THEN [count |-> 1, expires |-> TRUE] ELSE NoKey]
  /\ conv = [c \in Conversations |->
       IF c = Opened
       THEN [st |-> "open", repo |-> Scanned, messages |-> Messages(Earlier)]
       ELSE NoConversation]
  /\ chat = [k \in Chats |-> New]
  /\ scan = [s \in 1..LastScan |-> NoScan]
  /\ used = [d \in Disturbances |-> 0]

Total == FoldSet(LAMBDA d, n : used[d] + n, 0, Disturbances)

SpendAll(D) ==
  /\ \A d \in D : used[d] < Limit[d]
  /\ Total + Cardinality(D) <= Budget
  /\ used' = [d \in Disturbances |-> IF d \in D THEN used[d] + 1 ELSE used[d]]

Spend(d) == SpendAll({d})

Go(k, pc) == chat' = [chat EXCEPT ![k].pc = pc]

\* An error answer, or none: what the chat held is gone.
Refuse(k) == chat' = [chat EXCEPT ![k] = Fresh("done", None, None, 0)]

Active == {k \in Chats : chat[k].pc \notin {"new", "done"}}
Under(c) == {k \in Active : chat[k].conv = c}

\* Conversations that a chat may still create (the bound of the instance).
Free == {c \in Conversations : conv[c].st = "absent"}

\* A chat about a repository, in a conversation or in a new one.
Ask(k, r, c) ==
  /\ chat[k].pc = "new"
  /\ IF c = None THEN Cardinality(Free) > Cardinality(Under(None))
     ELSE conv[c].st = "open"
  /\ SpendAll(IF c # None /\ Under(c) # {} THEN {"overlap"} ELSE {})
  /\ chat' = [chat EXCEPT ![k] = Fresh("incr", r, c, minute)]
  /\ UNCHANGED <<minute, key, conv, scan>>

-----------------------------------------------------------------------------
(* Rate limit                                                              *)

\* Slip: the request that reaches the limit plus one still passes.
TooManyLax(count) == count > PerMinute + 1

\* assertAllowed.
TooMany(count) == count > PerMinute

\* INCR on the key of the minute in which the chat arrived.
Incr(k) ==
  LET w == chat[k].minute
      count == key[w].count + 1
  IN
  /\ chat[k].pc = "incr"
  /\ key' = [key EXCEPT ![w].count = count]
  /\ IF count = 1 THEN Go(k, "expire")
     ELSE IF TooMany(count) THEN Refuse(k)
     ELSE Go(k, "scan")
  /\ UNCHANGED <<minute, conv, scan, used>>

\* EXPIRE, by the first of a minute.
Expire(k) ==
  /\ chat[k].pc = "expire"
  /\ key' = [key EXCEPT ![chat[k].minute].expires = TRUE]
  /\ IF TooMany(1) THEN Refuse(k) ELSE Go(k, "scan")
  /\ UNCHANGED <<minute, conv, scan, used>>

Tick ==
  /\ minute < Windows
  /\ minute' = minute + 1
  /\ UNCHANGED <<key, conv, chat, scan, used>>

-----------------------------------------------------------------------------
(* Context                                                                 *)

With(st) == {s \in 1..LastScan : scan[s].st \in st}
Greatest(S) == CHOOSE s \in S : \A t \in S : t <= s

\* findRepositoryContext: the last completed scan ...
FindCompleted(k) ==
  LET done == With({"completed"}) IN
  /\ chat[k].pc = "scan"
  /\ IF chat[k].repo = Scanned /\ done # {}
     THEN chat' = [chat EXCEPT ![k].pc = "relevant", ![k].scan = Greatest(done),
                               ![k].whole = TRUE]
     ELSE Go(k, "last")
  /\ UNCHANGED <<minute, key, conv, scan, used>>

\* ... or, by a second query, the last one, whatever has become of it, or 0.
FindLast(k) ==
  LET any == With({"running", "stored", "failed", "completed"}) IN
  /\ chat[k].pc = "last"
  /\ chat' = [chat EXCEPT ![k].pc = "relevant",
       ![k].scan = IF chat[k].repo = Scanned /\ any # {} THEN Greatest(any) ELSE 0]
  /\ UNCHANGED <<minute, key, conv, scan, used>>

\* scanFilter: without a scan, all rows of the repository.
RowsOf(k) ==
  IF chat[k].scan # 0 THEN scan[chat[k].scan].rows
  ELSE IF chat[k].repo = Scanned THEN UNION {scan[s].rows : s \in 1..LastScan}
  ELSE {}

\* listRelevantApis: the relevant rows, ...
FindRelevant(k) ==
  /\ chat[k].pc = "relevant"
  /\ \E got \in Relevant(RowsOf(k)) :
       chat' = [chat EXCEPT
         ![k].pc = IF Len(got) >= FetchLimit THEN "conversation" ELSE "fallback",
         ![k].items = got]
  /\ UNCHANGED <<minute, key, conv, scan, used>>

\* ... and, by a second query, others to fill up.
FindOthers(k) ==
  /\ chat[k].pc = "fallback"
  /\ \E more \in Fallback(RowsOf(k), chat[k].items) :
       chat' = [chat EXCEPT ![k].pc = "conversation",
                           ![k].items = chat[k].items \o more]
  /\ UNCHANGED <<minute, key, conv, scan, used>>

-----------------------------------------------------------------------------
(* Conversation                                                            *)

\* The context is a text by now; the model does not keep it.
Enter(k, c) ==
  chat' = [chat EXCEPT ![k] = Fresh("history", None, c, chat[k].minute)]

\* getExistingConversation or createConversation.
OpenConversation(k) ==
  LET c == chat[k].conv IN
  /\ chat[k].pc = "conversation"
  /\ \/ /\ c # None
        /\ IF conv[c].st = "open" /\ conv[c].repo = chat[k].repo
           THEN Enter(k, c) ELSE Refuse(k)
        /\ UNCHANGED conv
     \/ /\ c = None
        /\ LET d == CHOOSE d \in Free : TRUE IN
             /\ conv' = [conv EXCEPT ![d] =
                  [st |-> "open", repo |-> chat[k].repo, messages |-> <<>>]]
             /\ Enter(k, d)
  /\ UNCHANGED <<minute, key, scan, used>>

Latest(n, messages) ==
  SubSeq(messages, IF Len(messages) > n THEN Len(messages) - n + 1 ELSE 1,
         Len(messages))

\* Slip: the messages stay in the order of the query, the latest first.
HistoryBackwards(c) == Reverse(Latest(HistoryLimit, conv[c].messages))

\* listRecentMessages takes the latest, createProviderMessages turns them
\* round; nothing is left of a conversation that was deleted.
History(c) == Latest(HistoryLimit, conv[c].messages)

ReadHistory(k) ==
  /\ chat[k].pc = "history"
  /\ chat' = [chat EXCEPT ![k].pc = "question",
                          ![k].history = History(chat[k].conv)]
  /\ UNCHANGED <<minute, key, conv, scan, used>>

\* createMessage, one transaction that needs the conversation.
CreateMessage(k, role, pc) ==
  LET c == chat[k].conv IN
  /\ IF conv[c].st = "open"
     THEN /\ conv' = [conv EXCEPT ![c].messages =
               Append(@, [role |-> role, of |-> k])]
          /\ Go(k, pc)
     ELSE Refuse(k) /\ UNCHANGED conv
  /\ UNCHANGED <<minute, key, scan, used>>

\* Slip: the insert is not awaited and fails.
StoreQuestionUnawaited(k) ==
  /\ chat[k].pc = "question"
  /\ Go(k, "complete")
  /\ UNCHANGED <<minute, key, conv, scan, used>>

StoreQuestion(k) ==
  /\ chat[k].pc = "question"
  /\ CreateMessage(k, "USER", "complete")

\* The provider begins to answer before the timer aborts the request ...
BeginAnswer(k) ==
  /\ chat[k].pc = "complete"
  /\ Go(k, "body")
  /\ UNCHANGED <<minute, key, conv, scan, used>>

\* Slip: no timer.
TimeoutNever(k) ==
  /\ FALSE
  /\ UNCHANGED vars

\* ... or the timer is first.
Timeout(k) ==
  /\ chat[k].pc = "complete"
  /\ Refuse(k)
  /\ UNCHANGED <<minute, key, conv, scan, used>>

\* response.json: no timer covers the body.
ReadBody(k) ==
  /\ chat[k].pc = "body"
  /\ Go(k, "answer")
  /\ UNCHANGED <<minute, key, conv, scan, used>>

\* A status that is no success, or an answer without content.
ProviderFails(k) ==
  /\ chat[k].pc = "body"
  /\ Spend("failure")
  /\ Refuse(k)
  /\ UNCHANGED <<minute, key, conv, scan>>

StoreAnswer(k) ==
  /\ chat[k].pc = "answer"
  /\ CreateMessage(k, "ASSISTANT", "load")

\* The conversation is read again and its last message is the answer.
LoadAnswer(k) ==
  LET c == chat[k].conv IN
  /\ chat[k].pc = "load"
  /\ IF conv[c].st = "open" /\ conv[c].messages # <<>>
     THEN chat' = [chat EXCEPT
            ![k].pc = "done", ![k].history = <<>>,
            ![k].answer = conv[c].messages[Len(conv[c].messages)]]
     ELSE Refuse(k)
  /\ UNCHANGED <<minute, key, conv, scan, used>>

-----------------------------------------------------------------------------
(* Around the chats                                                        *)

Delete(c) ==
  /\ conv[c].st = "open"
  /\ Spend("delete")
  /\ conv' = [conv EXCEPT ![c].st = "deleted", ![c].messages = <<>>]
  /\ UNCHANGED <<minute, key, chat, scan>>

Lose(k) ==
  /\ k \in Active
  /\ Spend("lost")
  /\ Refuse(k)
  /\ UNCHANGED <<minute, key, conv, scan>>

-----------------------------------------------------------------------------
(* Scans                                                                   *)

\* The rows of one write, with new ids.
Found(s, n) ==
  {[id |-> <<s, n, m>>, route |-> m, relevant |-> Routes[m].relevant,
    score |-> Routes[m].score, size |-> Routes[m].size] : m \in DOMAIN Routes}

\* The partial unique index.
NoneActive == With({"running", "stored"}) = {}

BeginScan(s) ==
  /\ scan[s].st = "absent" /\ NoneActive
  /\ \A t \in 1..(s - 1) : scan[t].st # "absent"
  /\ scan' = [scan EXCEPT ![s].st = "running"]
  /\ UNCHANGED <<minute, key, conv, chat, used>>

\* replaceScanApis.
StoreRows(s) ==
  /\ scan[s].st = "running"
  /\ scan' = [scan EXCEPT ![s].st = "stored",
                          ![s].writes = scan[s].writes + 1,
                          ![s].rows = Found(s, scan[s].writes)]
  /\ UNCHANGED <<minute, key, conv, chat, used>>

CompleteScan(s) ==
  /\ scan[s].st = "stored"
  /\ scan' = [scan EXCEPT ![s].st = "completed"]
  /\ UNCHANGED <<minute, key, conv, chat, used>>

\* The rows stay.
FailScan(s) ==
  /\ scan[s].st \in {"running", "stored"}
  /\ Spend("broken")
  /\ scan' = [scan EXCEPT ![s].st = "failed"]
  /\ UNCHANGED <<minute, key, conv, chat>>

DetachScan(s) ==
  /\ scan[s].st = "running"
  /\ Spend("detach")
  /\ scan' = [scan EXCEPT ![s].st = "failed", ![s].late = scan[s].late + 1]
  /\ UNCHANGED <<minute, key, conv, chat>>

\* A retry, of a failed scan or of one that a call after its completion failed.
RetryScan(s) ==
  /\ NoneActive
  /\ \/ scan[s].st = "failed" /\ UNCHANGED used
     \/ scan[s].st = "completed" /\ Spend("rerun")
  /\ scan' = [scan EXCEPT ![s].st = "running"]
  /\ UNCHANGED <<minute, key, conv, chat>>

\* A timed-out execution writes.  The rows of another one stay if its
\* transaction did not see them.
StoreLate(s) ==
  /\ scan[s].late > 0
  /\ \E kept \in {{}, scan[s].rows} :
       scan' = [scan EXCEPT ![s].late = scan[s].late - 1,
                            ![s].writes = scan[s].writes + 1,
                            ![s].rows = kept \cup Found(s, scan[s].writes)]
  /\ UNCHANGED <<minute, key, conv, chat, used>>

Scan(s) ==
  \/ BeginScan(s) \/ StoreRows(s) \/ CompleteScan(s) \/ FailScan(s)
  \/ DetachScan(s) \/ RetryScan(s) \/ StoreLate(s)

-----------------------------------------------------------------------------
\* The steps that a chat takes on its own.  Only the provider may keep silent.
Step(k) ==
  \/ Incr(k) \/ Expire(k) \/ FindCompleted(k) \/ FindLast(k) \/ FindRelevant(k)
  \/ FindOthers(k) \/ OpenConversation(k) \/ ReadHistory(k) \/ StoreQuestion(k)
  \/ Timeout(k) \/ ReadBody(k) \/ StoreAnswer(k) \/ LoadAnswer(k)

Next ==
  \/ \E k \in Chats :
       \/ \E r \in Repositories, c \in Conversations \cup {None} : Ask(k, r, c)
       \/ Step(k) \/ BeginAnswer(k) \/ ProviderFails(k) \/ Lose(k)
  \/ \E c \in Conversations : Delete(c)
  \/ \E s \in 1..LastScan : Scan(s)
  \/ Tick

Spec == Init /\ [][Next]_vars /\ \A k \in Chats : WF_vars(Step(k))

-----------------------------------------------------------------------------
(* Properties                                                              *)

Never(D) == \A d \in D : used[d] = 0

Steps == {"new", "incr", "expire", "scan", "last", "relevant",
          "fallback", "conversation", "history", "question", "complete", "body",
          "answer", "load", "done"}
Passed(w) == {k \in Chats : chat[k].minute = w /\
                chat[k].pc \in Steps \ {"new", "incr", "expire", "done"}}
Answered(w) == {k \in Chats : chat[k].minute = w /\ chat[k].answer # None}

\* Every variable stays in its range.  In particular no window of the rate
\* limit lets more chats pass than allowed, and a window's key lasts for ever
\* only if the process died between the two Redis calls (AiRateLimitService).
TypeOK ==
  /\ minute \in 1..Windows
  /\ \A k \in Chats : chat[k].pc \in Steps
  /\ \A w \in 1..Windows :
       /\ Cardinality(Passed(w) \cup Answered(w))
            + (IF w = 1 THEN 1 ELSE 0) <= PerMinute
       /\ key[w].count > 0 /\ Never({"lost"}) =>
            key[w].expires \/ \E k \in Chats : chat[k].pc = "expire"
  /\ \A c \in Conversations :
       /\ conv[c].st \in {"absent", "open", "deleted"}
       /\ conv[c].st # "open" => conv[c].messages = <<>>
  /\ \A d \in Disturbances : used[d] \in 0..Limit[d]

Positions(c, role, k) ==
  {n \in DOMAIN conv[c].messages :
     conv[c].messages[n] = [role |-> role, of |-> k]}

\* An answer is stored once, after its question and in its conversation, and
\* what a chat returns is its own answer unless two chats shared the
\* conversation at the same time (AiChatService.chat).
AnswersFollowQuestions ==
  /\ \A c \in Conversations, k \in Chats :
       \A n \in Positions(c, "ASSISTANT", k) :
         /\ Positions(c, "ASSISTANT", k) = {n}
         /\ chat[k].conv \in {c, None}
         /\ \E m \in Positions(c, "USER", k) :
              m < n /\ (Never({"overlap"}) => m = n - 1)
  /\ Never({"overlap"}) => \A k \in Chats :
       chat[k].answer \in {None, [role |-> "ASSISTANT", of |-> k]}

\* The provider is told the latest messages before the question, in their
\* order, and never the question itself twice, whatever was stored by chats
\* that failed (listRecentMessages before createMessage).
PromptIsRecent ==
  \A k \in Chats : chat[k].pc \in {"question", "complete", "body"} =>
    LET messages == conv[chat[k].conv].messages IN
    /\ [role |-> "USER", of |-> k] \notin Range(chat[k].history)
    /\ Never({"delete"}) => \E n \in 0..Len(messages) :
         /\ chat[k].history = Latest(HistoryLimit, SubSeq(messages, 1, n))
         /\ Never({"overlap"}) /\ chat[k].pc = "question" => n = Len(messages)

\* The text keeps the character limit and what is chosen is the best of what was
\* retrieved.  A context has every route once, and of a completed scan no other
\* route while a relevant one is left out - unless a completed scan is run again
\* or a timed-out one goes on, which replaces rows between the two queries, or,
\* where no scan has completed, a failed scan is retried or there is no scan to
\* filter by (listRelevantApis, rankApis and joinSectionsWithinBudget).
ContextIsBest ==
  \A k \in Chats :
    LET items == chat[k].items
        text == Joined(Sections(Chosen(items)))
        steady == chat[k].scan # 0 /\ Never({"rerun", "detach"})
    IN  chat[k].pc = "conversation" =>
          /\ TextSize(text) <= MaxCharacters
          /\ steady /\ (chat[k].whole \/ Never({"broken"})) =>
               Cardinality({x.route : x \in Range(items)}) = Len(items)
          /\ /\ chat[k].whole /\ steady
             /\ \E x \in Range(items) : ~x.relevant
             => \A x \in RowsOf(k) : x.relevant => x \in Range(items)
          /\ \A x, y \in Range(items) :
               x \in Range(Chosen(items)) /\ y \notin Range(Chosen(items)) =>
                 x.score >= y.score

\* Every chat ends, also when the provider does not begin to answer; that it
\* ends an answer which it began is assumed (no timer covers the body).
ChatEnds ==
  \A k \in Chats : chat[k].pc # "new" ~> chat[k].pc = "done"

=============================================================================
