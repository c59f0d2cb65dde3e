---------------------------- MODULE AiChatProofs ----------------------------
(***************************************************************************)
(* The assistant for any number of chats, conversations, windows and       *)
(* disturbances.                                                           *)
(*                                                                         *)
(* A chat is one actor among several that append to a conversation.  The   *)
(* inductive invariant says what stands in the conversations of a chat at  *)
(* each of its steps (Voice), what an answer stands next to (Told), what a *)
(* chat remembers of its conversation (Recalls), and that the chats which  *)
(* a window of the rate limit has let pass are no more than it has counted *)
(* (Counted).  Retrieved says what a chat has of which scan between its    *)
(* queries.                                                                *)
(*                                                                         *)
(* What the functions of AiContext compute for every list is proved by     *)
(* induction (Induction).                                                  *)
(***************************************************************************)
EXTENDS AiChat, FiniteSetTheorems, SequenceTheorems, WellFoundedInduction, TLAPS

-----------------------------------------------------------------------------
(* The inductive invariant                                                 *)

Message == [role : {"USER", "ASSISTANT"}, of : Chats \cup {Earlier}]

Asking == {"incr", "expire", "scan", "last", "relevant", "fallback",
           "conversation", "history", "question"}
Waiting == {"complete", "body", "answer"}
\* The steps at which a chat has its conversation.
Inside == {"history", "question", "load"} \cup Waiting

\* Fields of a chat; Retrieved says what it has retrieved.
ChatRow(k) ==
  [pc : Steps, repo : Repositories \cup {None}, conv : Conversations \cup {None},
   minute : Nat, scan : {chat[k].scan}, whole : {chat[k].whole},
   items : {chat[k].items}, history : Seq(Message),
   answer : Message \cup {None}]

Stage(k) ==
  LET h == chat[k] IN
  /\ h.pc \notin {"new", "done"} => h.minute \in 1..Windows
  /\ h.pc # "done" => h.answer = None
  /\ h.pc \in Inside => h.conv # None
  /\ h.pc # "new" /\ h.conv # None => conv[h.conv].st # "absent"

ConversationRows ==
  [st : {"absent", "open", "deleted"}, repo : Repositories \cup {None},
   messages : Seq(Message)]

Typed ==
  /\ minute \in 1..Windows
  /\ used \in [Disturbances -> Nat]
  /\ \A d \in Disturbances : used[d] <= Limit[d]
  /\ key \in [1..Windows -> [count : Nat, expires : BOOLEAN]]
  /\ conv \in [Conversations -> ConversationRows]
  /\ \A c \in Conversations : conv[c].st # "open" => conv[c].messages = <<>>
  /\ chat = [k \in Chats |-> chat[k]]
  /\ \A k \in Chats : chat[k] \in ChatRow(k) /\ Stage(k)

\* Who has passed the rate limit of a window, or will with EXPIRE.
Let(w) ==
  Passed(w) \cup Answered(w)
    \cup {k \in Chats : chat[k].minute = w /\ chat[k].pc = "expire"}

Counted(w) ==
  LET n == Cardinality(Let(w)) + (IF w = 1 THEN 1 ELSE 0) IN
  /\ IsFiniteSet(Let(w))
  /\ n <= key[w].count
  /\ n <= PerMinute

Expires(w) ==
  key[w].count > 0 /\ Never({"lost"}) =>
    \/ key[w].expires
    \/ \E k \in Chats : chat[k].pc = "expire" /\ chat[k].minute = w

\* Every chat that will create a conversation has one.
Room ==
  /\ IsFiniteSet(Under(None))
  /\ Cardinality(Under(None)) <= Cardinality(Free)

\* Chats that do not overlap are alone in their conversation.
Turns ==
  Never({"overlap"}) =>
    \A c \in Conversations : \A j, k \in Under(c) : j = k

Mentions(c, k) ==
  {n \in DOMAIN conv[c].messages : conv[c].messages[n].of = k}

Ends(c, role, k) ==
  LET messages == conv[c].messages IN
  /\ messages # <<>>
  /\ messages[Len(messages)] = [role |-> role, of |-> k]

\* What stands of a chat in the conversations.
Voice(k) ==
  /\ chat[k].pc \in Asking \cup {"new"} =>
       \A c \in Conversations : Mentions(c, k) = {}
  /\ chat[k].pc \in Waiting =>
       /\ \A c \in Conversations : \A n \in Mentions(c, k) :
            c = chat[k].conv /\ conv[c].messages[n].role = "USER"
       /\ conv[chat[k].conv].st = "open" => Mentions(chat[k].conv, k) # {}
  /\ chat[k].pc \in Waiting \cup {"load"} /\ Never({"overlap"}) =>
       \/ conv[chat[k].conv].st # "open"
       \/ Ends(chat[k].conv, IF chat[k].pc = "load" THEN "ASSISTANT" ELSE "USER", k)

\* What an answer stands next to.
Told(c, k) ==
  \A n \in Positions(c, "ASSISTANT", k) :
    /\ Positions(c, "ASSISTANT", k) = {n}
    /\ chat[k].conv \in {c, None}
    /\ \E m \in Positions(c, "USER", k) :
         m < n /\ (Never({"overlap"}) => m = n - 1)

Returns(k) ==
  Never({"overlap"}) =>
    chat[k].answer \in {None, [role |-> "ASSISTANT", of |-> k]}

\* What a chat remembers of its conversation.
Recalls(k) ==
  chat[k].pc \in {"question", "complete", "body"} =>
    LET messages == conv[chat[k].conv].messages IN
    /\ \A n \in DOMAIN chat[k].history : chat[k].history[n].of # k
    /\ Never({"delete"}) => \E n \in 0..Len(messages) :
         /\ chat[k].history = Latest(HistoryLimit, SubSeq(messages, 1, n))
         /\ Never({"overlap"}) /\ chat[k].pc = "question" => n = Len(messages)

Spoken ==
  /\ Turns
  /\ \A k \in Chats : Voice(k) /\ Returns(k) /\ Recalls(k)
  /\ \A c \in Conversations, k \in Chats : Told(c, k)

Limited == \A w \in 1..Windows : Counted(w) /\ Expires(w)

IInv == Typed /\ Room /\ Limited /\ Spoken

-----------------------------------------------------------------------------
(* How a step moves a chat                                                 *)

LEMMA Spent ==
  ASSUME used \in [Disturbances -> Nat], \A d \in Disturbances : used[d] <= Limit[d],
         NEW D, SpendAll(D)
  PROVE  /\ used' \in [Disturbances -> Nat]
         /\ \A d \in Disturbances :
              /\ used'[d] <= Limit[d] /\ used[d] <= used'[d]
              /\ used'[d] = 0 => used[d] = 0 /\ d \notin D
  BY LimitAssumption DEF SpendAll

\* Every step of a chat, with what makes it one.
ChatStep(k) ==
  \/ \E r \in Repositories, c \in Conversations \cup {None} : Ask(k, r, c)
  \/ Step(k) \/ BeginAnswer(k) \/ ProviderFails(k) \/ Lose(k)

\* Chats as records, and one that has nothing but its conversation.
Row(pc, r, c, m, s, w, items, history, answer) ==
  [pc |-> pc, repo |-> r, conv |-> c, minute |-> m, scan |-> s, whole |-> w,
   items |-> items, history |-> history, answer |-> answer]
Bare(pc, r, c, m) == Row(pc, r, c, m, 0, FALSE, <<>>, <<>>, None)

\* What the steps of a chat are for its conversation.
Begins(k) ==
  \E r \in Repositories, c \in Conversations \cup {None} :
    /\ chat[k].pc = "new"
    /\ IF c = None THEN Cardinality(Free) > Cardinality(Under(None))
       ELSE conv[c].st = "open"
    /\ c # None /\ Under(c) # {} => used'["overlap"] # 0
    /\ chat' = [chat EXCEPT ![k] = Bare("incr", r, c, minute)]
    /\ UNCHANGED conv

Quits(k) ==
  /\ chat[k].pc \notin {"new", "done"}
  /\ chat' = [chat EXCEPT ![k] = Bare("done", None, None, 0)]
  /\ UNCHANGED conv

Goes(k) ==
  /\ \/ /\ chat[k].pc \in Asking \ {"history", "question"}
        /\ chat'[k].pc \in Asking \ {"incr", "history", "question"}
        /\ chat[k].pc = "conversation" => chat'[k].pc = "conversation"
     \/ chat[k].pc = "complete" /\ chat'[k].pc = "body"
     \/ chat[k].pc = "body" /\ chat'[k].pc = "answer"
  /\ \E h :
       /\ chat' = [chat EXCEPT ![k] = h]
       /\ h \in ChatRow(k)'
       /\ h.conv = chat[k].conv /\ h.minute = chat[k].minute
       /\ h.history = chat[k].history /\ h.answer = chat[k].answer
  /\ UNCHANGED conv

Enters(k) ==
  \E d \in Conversations :
    /\ chat[k].pc = "conversation"
    /\ chat' = [chat EXCEPT ![k] = Bare("history", None, d, chat[k].minute)]
    /\ \/ d = chat[k].conv /\ conv[d].st = "open" /\ UNCHANGED conv
       \/ /\ chat[k].conv = None
          /\ d \in Free
          /\ conv' = [conv EXCEPT ![d] =
               [st |-> "open", repo |-> chat[k].repo, messages |-> <<>>]]

Stores(k, role, pc) ==
  LET h == chat[k] IN
  /\ conv[h.conv].st = "open"
  /\ conv' = [conv EXCEPT ![h.conv].messages =
       Append(@, [role |-> role, of |-> k])]
  /\ chat' = [chat EXCEPT ![k] =
       Row(pc, h.repo, h.conv, h.minute, h.scan, h.whole, h.items, h.history,
           h.answer)]

Reads(k) ==
  LET h == chat[k] IN
  /\ h.pc = "history"
  /\ chat' = [chat EXCEPT ![k] =
       Row("question", h.repo, h.conv, h.minute, h.scan, h.whole, h.items,
           History(h.conv), h.answer)]
  /\ UNCHANGED conv

Loads(k) ==
  LET h == chat[k]
      messages == conv[h.conv].messages
  IN
  /\ h.pc = "load"
  /\ conv[h.conv].st = "open" /\ messages # <<>>
  /\ chat' = [chat EXCEPT ![k] =
       Row("done", h.repo, h.conv, h.minute, h.scan, h.whole, h.items, <<>>,
           messages[Len(messages)])]
  /\ UNCHANGED conv

LEMMA FreshRow ==
  ASSUME NEW pc, NEW r, NEW c, NEW m
  PROVE  Fresh(pc, r, c, m) = Bare(pc, r, c, m)
<1> DEFINE no == FALSE
           nothing == <<>>
           B(p, q, d, n) == Row(p, q, d, n, 0, no, nothing, nothing, None)
<1>1. New = B("new", None, None, 0)
  BY Zenon DEF New, Row
<1>2. B(pc, r, c, m) = Bare(pc, r, c, m)
  BY DEF Bare
<1> HIDE DEF no, nothing
<1>3. [New EXCEPT !.pc = pc] = [B("new", None, None, 0) EXCEPT !.pc = pc]
  BY <1>1
<1>4. @ = B(pc, None, None, 0)
  BY DEF Row
<1>5. [[New EXCEPT !.pc = pc] EXCEPT !.repo = r]
        = [B(pc, None, None, 0) EXCEPT !.repo = r]
  BY <1>3, <1>4
<1>6. @ = B(pc, r, None, 0)
  BY DEF Row
<1>7. [[[New EXCEPT !.pc = pc] EXCEPT !.repo = r] EXCEPT !.conv = c]
        = [B(pc, r, None, 0) EXCEPT !.conv = c]
  BY <1>5, <1>6
<1>8. @ = B(pc, r, c, 0)
  BY DEF Row
<1>9. [[[[New EXCEPT !.pc = pc] EXCEPT !.repo = r] EXCEPT !.conv = c]
         EXCEPT !.minute = m] = [B(pc, r, c, 0) EXCEPT !.minute = m]
  BY <1>7, <1>8
<1>10. @ = B(pc, r, c, m)
  BY DEF Row
<1> QED BY <1>2, <1>9, <1>10 DEF Fresh

\* A chat that will create a conversation finds one that does not exist.
LEMMA Vacant ==
  ASSUME Typed, Room, NEW k \in Chats, chat[k].pc = "conversation",
         chat[k].conv = None
  PROVE  Free # {}
<1>1. k \in Under(None)
  BY DEF Under, Active
<1>2. Cardinality(Under(None)) \in Nat /\ Cardinality(Under(None)) # 0
  BY <1>1, FS_CardinalityType, FS_EmptySet DEF Room
<1>3. Cardinality({}) = 0
  BY FS_EmptySet
<1> QED BY <1>2, <1>3 DEF Room

\* A chat that has moved on in its conversation.
Along(k, pc, s, w, items) ==
  LET h == chat[k] IN
  Row(pc, h.repo, h.conv, h.minute, s, w, items, h.history, h.answer)

Becomes(k, pc, s, w, items) ==
  chat' = [chat EXCEPT ![k] = Along(k, pc, s, w, items)]

LEMMA Fields ==
  ASSUME NEW k \in Chats, chat[k] \in ChatRow(k), NEW pc
  PROVE  LET g == chat[k] IN
         [g EXCEPT !.pc = pc] = Along(k, pc, g.scan, g.whole, g.items)
<1> DEFINE g == chat[k]
<1>1. g = [pc |-> g.pc, repo |-> g.repo, conv |-> g.conv, minute |-> g.minute,
           scan |-> g.scan, whole |-> g.whole, items |-> g.items,
           history |-> g.history, answer |-> g.answer]
  BY DEF ChatRow
<1> QED BY <1>1 DEF Along, Row

LEMMA GoBecomes ==
  ASSUME NEW k \in Chats, chat[k] \in ChatRow(k), NEW pc, Go(k, pc)
  PROVE  Becomes(k, pc, chat[k].scan, chat[k].whole, chat[k].items)
BY Fields DEF Go, Becomes

LEMMA ScanBecomes ==
  ASSUME NEW k \in Chats, chat[k] \in ChatRow(k), NEW pc, NEW s,
         chat' = [chat EXCEPT ![k].pc = pc, ![k].scan = s]
  PROVE  Becomes(k, pc, s, chat[k].whole, chat[k].items)
<1> DEFINE g == chat[k]
<1>1. [[g EXCEPT !.pc = pc] EXCEPT !.scan = s]
        = [Along(k, pc, g.scan, g.whole, g.items) EXCEPT !.scan = s]
  BY Fields
<1>2. @ = Along(k, pc, s, g.whole, g.items)
  BY DEF Along, Row
<1> QED BY <1>1, <1>2 DEF Becomes

LEMMA WholeBecomes ==
  ASSUME NEW k \in Chats, chat[k] \in ChatRow(k), NEW pc, NEW s, NEW w,
         chat' = [chat EXCEPT ![k].pc = pc, ![k].scan = s, ![k].whole = w]
  PROVE  Becomes(k, pc, s, w, chat[k].items)
<1> DEFINE g == chat[k]
<1>1. [[g EXCEPT !.pc = pc] EXCEPT !.scan = s]
        = [Along(k, pc, g.scan, g.whole, g.items) EXCEPT !.scan = s]
  BY Fields
<1>2. @ = Along(k, pc, s, g.whole, g.items)
  BY DEF Along, Row
<1>3. [[[g EXCEPT !.pc = pc] EXCEPT !.scan = s] EXCEPT !.whole = w]
        = [Along(k, pc, s, g.whole, g.items) EXCEPT !.whole = w]
  BY <1>1, <1>2
<1>4. @ = Along(k, pc, s, w, g.items)
  BY DEF Along, Row
<1> QED BY <1>3, <1>4 DEF Becomes

LEMMA ItemsBecome ==
  ASSUME NEW k \in Chats, chat[k] \in ChatRow(k), NEW pc, NEW items,
         chat' = [chat EXCEPT ![k].pc = pc, ![k].items = items]
  PROVE  Becomes(k, pc, chat[k].scan, chat[k].whole, items)
<1> DEFINE g == chat[k]
<1>1. [[g EXCEPT !.pc = pc] EXCEPT !.items = items]
        = [Along(k, pc, g.scan, g.whole, g.items) EXCEPT !.items = items]
  BY Fields
<1>2. @ = Along(k, pc, g.scan, g.whole, items)
  BY DEF Along, Row
<1> QED BY <1>1, <1>2 DEF Becomes

LEMMA HistoryBecomes ==
  ASSUME NEW k \in Chats, chat[k] \in ChatRow(k), ReadHistory(k)
  PROVE  Reads(k)
<1> DEFINE g == chat[k]
           past == History(g.conv)
           Q == Row("question", g.repo, g.conv, g.minute, g.scan, g.whole, g.items,
                    past, g.answer)
<1> HIDE DEF past
<1>1. [[g EXCEPT !.pc = "question"] EXCEPT !.history = past]
        = [Along(k, "question", g.scan, g.whole, g.items) EXCEPT !.history = past]
  BY Fields
<1>2. @ = Q
  BY DEF Along, Row
<1>3. chat' = [chat EXCEPT ![k].pc = "question", ![k].history = past]
  BY DEF ReadHistory, past
<1>4. chat' = [chat EXCEPT ![k] = Q]
  BY <1>1, <1>2, <1>3
<1> QED BY <1>4 DEF Reads, ReadHistory, past

LEMMA LoadBecomes ==
  ASSUME NEW k \in Chats, chat[k] \in ChatRow(k), LoadAnswer(k), ~Refuse(k)
  PROVE  Loads(k)
<1> DEFINE g == chat[k]
           messages == conv[g.conv].messages
           none == <<>>
           last == messages[Len(messages)]
           Q(history, answer) ==
             Row("done", g.repo, g.conv, g.minute, g.scan, g.whole, g.items, history,
                 answer)
<1>0. /\ chat' = [chat EXCEPT ![k].pc = "done", ![k].history = none, ![k].answer = last]
      /\ g.pc = "load" /\ conv[g.conv].st = "open" /\ messages # none
      /\ UNCHANGED conv
  BY DEF LoadAnswer
<1> HIDE DEF none, last
<1>1. [[g EXCEPT !.pc = "done"] EXCEPT !.history = none]
        = [Along(k, "done", g.scan, g.whole, g.items) EXCEPT !.history = none]
  BY Fields
<1>2. @ = Q(none, g.answer)
  BY DEF Along, Row
<1>3. [[[g EXCEPT !.pc = "done"] EXCEPT !.history = none] EXCEPT !.answer = last]
        = [Q(none, g.answer) EXCEPT !.answer = last]
  BY <1>1, <1>2
<1>4. @ = Q(none, last)
  BY DEF Row
<1>5. chat' = [chat EXCEPT ![k] = Q(none, last)]
  BY <1>0, <1>3, <1>4
<1> QED BY <1>0, <1>5 DEF Loads, none, last

LEMMA Keeps ==
  ASSUME NEW k \in Chats, chat = [j \in Chats |-> chat[j]], chat[k] \in ChatRow(k),
         NEW pc \in Steps, NEW s, NEW w, NEW items,
         Becomes(k, pc, s, w, items)
  PROVE  LET h == Along(k, pc, s, w, items) IN
         /\ h = chat'[k] /\ h \in ChatRow(k)'
         /\ h.pc = pc
         /\ h.conv = chat[k].conv /\ h.minute = chat[k].minute
         /\ h.history = chat[k].history /\ h.answer = chat[k].answer
<1> DEFINE h == Along(k, pc, s, w, items)
<1>1. chat'[k] = h
  BY DEF Becomes
<1>2. h \in ChatRow(k)'
  BY <1>1 DEF ChatRow, Along, Row
<1> QED BY <1>1, <1>2 DEF Along, Row

\* Where a chat is after a step.
LEMMA StepMoves ==
  ASSUME Typed, Room, NEW k \in Chats, ChatStep(k)
  PROVE  \/ Begins(k) \/ Quits(k) \/ Goes(k) \/ Enters(k) \/ Reads(k)
         \/ chat[k].pc = "question" /\ Stores(k, "USER", "complete")
         \/ chat[k].pc = "answer" /\ Stores(k, "ASSISTANT", "load")
         \/ Loads(k)
<1> DEFINE h == chat[k]
<1>1. /\ h \in ChatRow(k) /\ Stage(k)
      /\ chat = [j \in Chats |-> chat[j]]
  BY DEF Typed
<1>2. ASSUME NEW r \in Repositories, NEW c \in Conversations \cup {None}, Ask(k, r, c)
      PROVE  Begins(k)
  <2>1. c # None /\ Under(c) # {} => used'["overlap"] # 0
    <3> SUFFICES ASSUME c # None, Under(c) # {} PROVE used'["overlap"] # 0
      OBVIOUS
    <3>1. SpendAll({"overlap"})
      BY <1>2 DEF Ask
    <3> QED BY <3>1, Spent DEF Typed, Disturbances
  <2>2. chat' = [chat EXCEPT ![k] = Bare("incr", r, c, minute)]
    BY <1>2, FreshRow DEF Ask
  <2> QED BY <1>2, <2>1, <2>2 DEF Ask, Begins
<1>3. ASSUME Refuse(k), UNCHANGED conv, h.pc \notin {"new", "done"}
      PROVE  Quits(k)
  BY <1>3, FreshRow DEF Refuse, Quits
<1>4. ASSUME NEW pc \in Steps, UNCHANGED conv,
             \/ /\ h.pc \in Asking \ {"history", "question"}
                /\ pc \in Asking \ {"incr", "history", "question"}
                /\ h.pc = "conversation" => pc = "conversation"
             \/ h.pc = "complete" /\ pc = "body"
             \/ h.pc = "body" /\ pc = "answer",
             NEW s, NEW w, NEW items,
             Becomes(k, pc, s, w, items)
      PROVE  Goes(k)
  <2> DEFINE g == Along(k, pc, s, w, items)
  <2>1. /\ g = chat'[k] /\ g \in ChatRow(k)'
        /\ g.pc = pc
        /\ g.conv = chat[k].conv /\ g.minute = chat[k].minute
        /\ g.history = chat[k].history /\ g.answer = chat[k].answer
    BY <1>1, <1>4, Keeps
  <2> HIDE DEF g
  <2> QED BY <1>4, <2>1 DEF Goes, Becomes, g
<1>0. ASSUME NEW pc \in Asking \ {"incr", "history", "question"}, UNCHANGED conv,
             h.pc \in Asking \ {"history", "question"},
             h.pc = "conversation" => pc = "conversation",
             NEW s, NEW w, NEW items,
             Becomes(k, pc, s, w, items)
      PROVE  Goes(k)
  <2>1. pc \in Steps
    BY DEF Asking, Steps
  <2> QED BY <1>0, <1>4, <2>1
<1>5. ASSUME NEW pc \in Asking \ {"incr", "history", "question"}, UNCHANGED conv,
             h.pc \in Asking \ {"history", "question", "conversation"}, Go(k, pc)
      PROVE  Goes(k)
  BY <1>0, <1>1, <1>5, GoBecomes
<1>6. CASE Incr(k)
  BY <1>3, <1>5, <1>6 DEF Incr, Asking
<1>7. CASE Expire(k)
  BY <1>3, <1>5, <1>7 DEF Expire, Asking
<1>8. CASE FindCompleted(k)
  <2>1. CASE Go(k, "last")
    BY <1>5, <1>8, <2>1 DEF FindCompleted, Asking
  <2>2. CASE ~Go(k, "last")
    <3>1. PICK s : chat' = [chat EXCEPT ![k].pc = "relevant", ![k].scan = s,
                                        ![k].whole = TRUE]
      BY <1>8, <2>2 DEF FindCompleted
    <3>2. Becomes(k, "relevant", s, TRUE, h.items)
      BY <1>1, <3>1, WholeBecomes
    <3> QED BY <1>0, <1>8, <3>2 DEF FindCompleted, Asking
  <2> QED BY <2>1, <2>2
<1>9. CASE FindLast(k)
  <2>1. PICK s : chat' = [chat EXCEPT ![k].pc = "relevant", ![k].scan = s]
    BY <1>9 DEF FindLast
  <2>2. Becomes(k, "relevant", s, h.whole, h.items)
    BY <1>1, <2>1, ScanBecomes
  <2> QED BY <1>0, <1>9, <2>2 DEF FindLast, Asking
<1>10. CASE FindRelevant(k) \/ FindOthers(k)
  <2>1. ASSUME NEW pc \in {"conversation", "fallback"}, NEW items,
               chat' = [chat EXCEPT ![k].pc = pc, ![k].items = items]
        PROVE  Goes(k)
    <3>1. Becomes(k, pc, h.scan, h.whole, items)
      BY <1>1, <2>1, ItemsBecome
    <3> QED BY <1>0, <1>10, <3>1 DEF FindRelevant, FindOthers, Asking
  <2>2. CASE FindRelevant(k)
    <3> DEFINE pc(got) == IF Len(got) >= FetchLimit THEN "conversation" ELSE "fallback"
    <3>1. \E got : chat' = [chat EXCEPT ![k].pc = pc(got), ![k].items = got]
      BY <2>2 DEF FindRelevant
    <3>2. \A got : pc(got) \in {"conversation", "fallback"}
      OBVIOUS
    <3> HIDE DEF pc
    <3> QED BY <2>1, <3>1, <3>2
  <2>3. CASE FindOthers(k)
    BY <2>1, <2>3 DEF FindOthers
  <2> QED BY <1>10, <2>2, <2>3
<1>11. CASE OpenConversation(k)
  <2>1. CASE h.conv # None
    <3>1. CASE Refuse(k)
      BY <1>3, <1>11, <2>1, <3>1 DEF OpenConversation
    <3>2. CASE ~Refuse(k)
      <4>1. /\ Enter(k, h.conv) /\ conv[h.conv].st = "open" /\ UNCHANGED conv
            /\ h.pc = "conversation" /\ h.conv \in Conversations
        BY <1>1, <1>11, <2>1, <3>2 DEF OpenConversation, ChatRow
      <4>2. chat' = [chat EXCEPT ![k] = Bare("history", None, h.conv, h.minute)]
        BY <4>1, FreshRow DEF Enter
      <4> QED BY <4>1, <4>2 DEF Enters
    <3> QED BY <3>1, <3>2
  <2>2. CASE h.conv = None
    <3> DEFINE d == CHOOSE d \in Free : TRUE
    <3>1. d \in Free /\ d \in Conversations
      BY <1>11, <2>2, Vacant DEF OpenConversation, Free
    <3> HIDE DEF d
    <3>2. /\ conv' = [conv EXCEPT ![d] =
                [st |-> "open", repo |-> h.repo, messages |-> <<>>]]
          /\ Enter(k, d) /\ h.pc = "conversation"
      BY <1>11, <2>2 DEF OpenConversation, d
    <3>3. chat' = [chat EXCEPT ![k] = Bare("history", None, d, h.minute)]
      BY <3>2, FreshRow DEF Enter
    <3> QED BY <2>2, <3>1, <3>2, <3>3 DEF Enters
  <2> QED BY <2>1, <2>2
<1>12. ASSUME NEW role, NEW pc, CreateMessage(k, role, pc),
              ~(Refuse(k) /\ UNCHANGED conv)
       PROVE  Stores(k, role, pc)
  <2>1. Becomes(k, pc, h.scan, h.whole, h.items)
    BY <1>1, <1>12, GoBecomes DEF CreateMessage
  <2> QED BY <1>12, <2>1 DEF CreateMessage, Stores, Becomes, Along
<1>15. CASE StoreQuestion(k) \/ StoreAnswer(k)
  <2>1. CASE Refuse(k) /\ UNCHANGED conv
    BY <1>3, <1>15, <2>1 DEF StoreQuestion, StoreAnswer
  <2>2. CASE ~(Refuse(k) /\ UNCHANGED conv)
    BY <1>12, <1>15, <2>2 DEF StoreQuestion, StoreAnswer
  <2> QED BY <2>1, <2>2
<1>16. CASE ReadHistory(k)
  BY <1>1, <1>16, HistoryBecomes
<1>17. CASE LoadAnswer(k)
  BY <1>1, <1>3, <1>17, LoadBecomes DEF LoadAnswer
<1>13. CASE BeginAnswer(k) \/ ReadBody(k)
  <2>1. ASSUME NEW pc \in {"body", "answer"}, Go(k, pc), UNCHANGED conv,
               h.pc = IF pc = "body" THEN "complete" ELSE "body"
        PROVE  Goes(k)
    <3>1. pc \in Steps
      BY DEF Steps
    <3>2. Becomes(k, pc, h.scan, h.whole, h.items)
      BY <1>1, <2>1, GoBecomes
    <3> QED BY <1>4, <2>1, <3>1, <3>2
  <2> QED BY <1>13, <2>1 DEF BeginAnswer, ReadBody
<1>14. CASE Timeout(k) \/ ProviderFails(k) \/ Lose(k)
  BY <1>3, <1>14 DEF Timeout, ProviderFails, Lose, Active
<1> QED BY <1>2, <1>6, <1>7, <1>8, <1>9, <1>10, <1>11, <1>13, <1>14, <1>15, <1>16,
           <1>17
           DEF ChatStep, Step

-----------------------------------------------------------------------------
(* Types                                                                   *)

LEMMA TablesTyped ==
  ASSUME Typed, NEW k \in Chats, ChatStep(k)
  PROVE  /\ UNCHANGED minute
         /\ used' \in [Disturbances -> Nat]
         /\ \A d \in Disturbances :
              used'[d] <= Limit[d] /\ (used'[d] = 0 => used[d] = 0)
         /\ key' \in [1..Windows -> [count : Nat, expires : BOOLEAN]]
<1> USE DEF Typed
<1>0. Stage(k)
  OBVIOUS
<1>1. ASSUME NEW D, SpendAll(D), UNCHANGED <<minute, key>>
      PROVE  /\ used' \in [Disturbances -> Nat]
             /\ \A d \in Disturbances :
                  used'[d] <= Limit[d] /\ (used'[d] = 0 => used[d] = 0)
             /\ key' \in [1..Windows -> [count : Nat, expires : BOOLEAN]]
  BY <1>1, Spent
<1>2. CASE \E r \in Repositories, c \in Conversations \cup {None} : Ask(k, r, c)
  <2>1. PICK r \in Repositories, c \in Conversations \cup {None} : Ask(k, r, c)
    BY <1>2
  <2>2. \E D : SpendAll(D) /\ UNCHANGED <<minute, key>>
    BY <2>1 DEF Ask
  <2> QED BY <1>1, <2>2
<1>3. CASE ProviderFails(k) \/ Lose(k)
  <2>1. \E D : SpendAll(D) /\ UNCHANGED <<minute, key>>
    BY <1>3 DEF ProviderFails, Lose, Spend
  <2> QED BY <1>1, <2>1
<1>4. CASE Incr(k) \/ Expire(k)
  <2>1. chat[k].minute \in 1..Windows
    BY <1>0, <1>4 DEF Stage, Incr, Expire
  <2> DEFINE w == chat[k].minute
  <2>2. key[w] \in [count : Nat, expires : BOOLEAN]
    BY <2>1
  <2>3. \/ key' = [key EXCEPT ![w].count = key[w].count + 1]
        \/ key' = [key EXCEPT ![w].expires = TRUE]
    BY <1>4 DEF Incr, Expire
  <2>4. UNCHANGED <<minute, used>>
    BY <1>4 DEF Incr, Expire
  <2>5. PICK n \in Nat, b \in BOOLEAN : key[w] = [count |-> n, expires |-> b]
    BY <2>2
  <2>6. key[w].count = n
    BY <2>5
  <2>7. ASSUME NEW r, r \in [count : Nat, expires : BOOLEAN],
               key' = [key EXCEPT ![w] = r]
        PROVE  key' \in [1..Windows -> [count : Nat, expires : BOOLEAN]]
    BY <2>1, <2>7
  <2>8. CASE key' = [key EXCEPT ![w].count = key[w].count + 1]
    <3>1. [key[w] EXCEPT !.count = n + 1] = [count |-> n + 1, expires |-> b]
      BY <2>5
    <3>2. key' = [key EXCEPT ![w] = [count |-> n + 1, expires |-> b]]
      BY <2>6, <2>8, <3>1
    <3>3. [count |-> n + 1, expires |-> b] \in [count : Nat, expires : BOOLEAN]
      OBVIOUS
    <3> QED BY <2>4, <2>7, <3>2, <3>3
  <2>9. CASE key' = [key EXCEPT ![w].expires = TRUE]
    <3>1. \A x : [key[w] EXCEPT !.expires = x] = [count |-> n, expires |-> x]
      BY <2>5
    <3>2. key' = [key EXCEPT ![w] = [count |-> n, expires |-> TRUE]]
      BY <2>9, <3>1
    <3> QED BY <2>4, <2>7, <3>2
  <2> QED BY <2>3, <2>8, <2>9
<1>5. CASE UNCHANGED <<minute, key, used>>
  BY <1>5
<1> QED BY <1>2, <1>3, <1>4, <1>5
        DEF ChatStep, Step, FindCompleted, FindLast, FindRelevant, FindOthers,
            OpenConversation, ReadHistory, StoreQuestion, StoreAnswer,
            CreateMessage, Timeout, ReadBody, LoadAnswer, BeginAnswer

LEMMA RowTyped ==
  ASSUME NEW k \in Chats, NEW pc, NEW c, NEW m, NEW history, NEW answer,
         NEW r, NEW s, NEW w, NEW items,
         chat'[k] = Row(pc, r, c, m, s, w, items, history, answer)
  PROVE  /\ /\ pc \in Steps /\ c \in Conversations \cup {None} /\ m \in Nat
            /\ history \in Seq(Message) /\ answer \in Message \cup {None}
            /\ r \in Repositories \cup {None}
            => chat'[k] \in ChatRow(k)'
         /\ chat'[k].pc = pc /\ chat'[k].conv = c /\ chat'[k].minute = m
         /\ chat'[k].answer = answer /\ chat'[k].history = history
<1>1. /\ chat'[k].pc = pc /\ chat'[k].conv = c /\ chat'[k].minute = m
      /\ chat'[k].answer = answer /\ chat'[k].history = history
  BY DEF Row
<1>2. ASSUME pc \in Steps, c \in Conversations \cup {None}, m \in Nat,
             history \in Seq(Message), answer \in Message \cup {None},
             r \in Repositories \cup {None}
      PROVE  chat'[k] \in
               [pc : Steps, repo : Repositories \cup {None},
                conv : Conversations \cup {None}, minute : Nat, scan : {chat'[k].scan},
                whole : {chat'[k].whole}, items : {chat'[k].items}, history : Seq(Message),
                answer : Message \cup {None}]
  BY <1>2 DEF Row
<1> QED BY <1>1, <1>2 DEF ChatRow

LEMMA BareRow ==
  ASSUME NEW k \in Chats, NEW pc, NEW c, NEW m, NEW r, chat'[k] = Bare(pc, r, c, m)
  PROVE  /\ pc \in Steps /\ c \in Conversations \cup {None} /\ m \in Nat
            /\ r \in Repositories \cup {None}
            => chat'[k] \in ChatRow(k)'
         /\ chat'[k].pc = pc /\ chat'[k].conv = c /\ chat'[k].minute = m
         /\ chat'[k].answer = None /\ chat'[k].history = <<>>
<1> DEFINE no == FALSE
           nothing == <<>>
<1>1. nothing \in Seq(Message) /\ nothing = <<>>
  OBVIOUS
<1>2. chat'[k] = Row(pc, r, c, m, 0, no, nothing, nothing, None)
  BY DEF Bare
<1> HIDE DEF no, nothing
<1>3. /\ chat'[k].pc = pc /\ chat'[k].conv = c /\ chat'[k].minute = m
      /\ chat'[k].answer = None /\ chat'[k].history = nothing
  BY <1>2, RowTyped
<1>4. /\ pc \in Steps /\ c \in Conversations \cup {None} /\ m \in Nat
      /\ r \in Repositories \cup {None} /\ None \in Message \cup {None}
      => chat'[k] \in ChatRow(k)'
  <2>1. /\ pc \in Steps /\ c \in Conversations \cup {None} /\ m \in Nat
        /\ nothing \in Seq(Message) /\ None \in Message \cup {None}
        /\ r \in Repositories \cup {None}
        => chat'[k] \in ChatRow(k)'
    BY <1>2, RowTyped
  <2> QED BY <1>1, <2>1
<1> QED BY <1>1, <1>3, <1>4

LEMMA LatestTyped ==
  ASSUME NEW messages \in Seq(Message)
  PROVE  /\ Latest(HistoryLimit, messages) \in Seq(Message)
         /\ \A n \in DOMAIN Latest(HistoryLimit, messages) :
              \E i \in DOMAIN messages :
                Latest(HistoryLimit, messages)[n] = messages[i]
<1> DEFINE n == Len(messages)
           m == IF n > HistoryLimit THEN n - HistoryLimit + 1 ELSE 1
<1>1. n \in Nat /\ m \in Int /\ m >= 1 /\ HistoryLimit \in Nat
  BY BoundsAssumption
<1>2. \A i \in m..n : messages[i] \in Message
  BY <1>1
<1>3. /\ SubSeq(messages, m, n) \in Seq(Message)
      /\ Len(SubSeq(messages, m, n)) = IF m <= n THEN n - m + 1 ELSE 0
      /\ \A i \in 1..(n - m + 1) : SubSeq(messages, m, n)[i] = messages[m + i - 1]
  BY <1>1, <1>2, SubSeqProperties
<1>4. Latest(HistoryLimit, messages) = SubSeq(messages, m, n)
  BY DEF Latest
<1> HIDE DEF n, m
<1>5. ASSUME NEW i \in DOMAIN SubSeq(messages, m, n)
      PROVE  \E j \in DOMAIN messages : SubSeq(messages, m, n)[i] = messages[j]
  <2>1. i \in 1..(n - m + 1)
    BY <1>1, <1>3
  <2>2. m + i - 1 \in 1..n
    BY <1>1, <2>1
  <2>3. m + i - 1 \in DOMAIN messages
    BY <2>2 DEF n
  <2> QED BY <1>3, <2>1, <2>3
<1> QED BY <1>3, <1>4, <1>5

\* What a step of a chat leaves typed, and what it does not touch.
LEMMA MoveTyped ==
  ASSUME Typed, Room, NEW k \in Chats, ChatStep(k)
  PROVE  /\ conv' \in [Conversations -> ConversationRows]
         /\ \A c \in Conversations :
              /\ conv'[c].st # "open" => conv'[c].messages = <<>>
              /\ conv[c].st # "absent" => conv'[c].st # "absent"
         /\ chat' = [j \in Chats |-> chat'[j]]
         /\ chat'[k] \in ChatRow(k)' /\ Stage(k)'
         /\ \A j \in Chats \ {k} : chat'[j] = chat[j]
<1> DEFINE h == chat[k]
<1>1. /\ conv \in [Conversations -> ConversationRows]
      /\ \A c \in Conversations : conv[c].st # "open" => conv[c].messages = <<>>
      /\ chat = [j \in Chats |-> chat[j]]
      /\ h \in ChatRow(k) /\ Stage(k) /\ minute \in 1..Windows
      /\ minute' = minute
  BY TablesTyped DEF Typed
<1>2. /\ h.pc \in Steps /\ h.repo \in Repositories \cup {None}
      /\ h.conv \in Conversations \cup {None} /\ h.minute \in Nat
      /\ h.history \in Seq(Message) /\ h.answer \in Message \cup {None}
  BY <1>1 DEF ChatRow
<1>3. /\ <<>> \in Seq(Message)
      /\ minute \in Nat /\ 0 \in Nat
  BY <1>1, BoundsAssumption
<1>4. ASSUME NEW g, chat' = [chat EXCEPT ![k] = g]
      PROVE  /\ chat' = [j \in Chats |-> chat'[j]]
             /\ chat'[k] = g
             /\ \A j \in Chats \ {k} : chat'[j] = chat[j]
  BY <1>1, <1>4
<1>5. CASE Begins(k)
  <2>1. PICK r \in Repositories, c \in Conversations \cup {None} :
          /\ c # None => conv[c].st = "open"
          /\ chat' = [chat EXCEPT ![k] = Bare("incr", r, c, minute)]
    BY <1>5 DEF Begins
  <2>2. UNCHANGED conv
    BY <1>5 DEF Begins
  <2>3. "incr" \in Steps
    BY DEF Steps
  <2>4. chat'[k] = Bare("incr", r, c, minute)
    BY <1>4, <2>1
  <2>5. /\ chat'[k] \in ChatRow(k)' /\ chat'[k].pc = "incr" /\ chat'[k].conv = c
        /\ chat'[k].minute = minute /\ chat'[k].answer = None
    BY <1>3, <2>3, <2>4, BareRow
  <2>6. Stage(k)'
    BY <1>1, <2>1, <2>2, <2>5 DEF Stage, Inside, Waiting
  <2> QED BY <1>1, <1>4, <2>1, <2>2, <2>5, <2>6
<1>6. CASE Quits(k)
  <2>1. chat' = [chat EXCEPT ![k] = Bare("done", None, None, 0)] /\ UNCHANGED conv
    BY <1>6 DEF Quits
  <2>2. "done" \in Steps
    BY DEF Steps
  <2>3. chat'[k] = Bare("done", None, None, 0)
    BY <1>4, <2>1
  <2>4. /\ chat'[k] \in ChatRow(k)' /\ chat'[k].pc = "done" /\ chat'[k].conv = None
    BY <1>3, <2>2, <2>3, BareRow
  <2>5. Stage(k)'
    BY <2>4 DEF Stage, Inside, Waiting
  <2> QED BY <1>1, <1>4, <2>1, <2>4, <2>5
<1>7. CASE Goes(k)
  <2>1. PICK g : /\ chat' = [chat EXCEPT ![k] = g]
                 /\ g \in ChatRow(k)'
                 /\ g.conv = h.conv /\ g.minute = h.minute
                 /\ g.history = h.history /\ g.answer = h.answer
    BY <1>7 DEF Goes
  <2>2. chat'[k] = g
    BY <1>4, <2>1
  <2>3. Stage(k)'
    BY <1>1, <1>7, <2>1, <2>2 DEF Stage, Goes, Inside, Waiting, Asking
  <2> QED BY <1>1, <1>4, <1>7, <2>1, <2>2, <2>3 DEF Goes
<1>8. CASE Enters(k)
  <2>1. PICK d \in Conversations :
          /\ h.pc = "conversation"
          /\ chat' = [chat EXCEPT ![k] = Bare("history", None, d, h.minute)]
          /\ \/ d = h.conv /\ conv[d].st = "open" /\ UNCHANGED conv
             \/ /\ d \in Free
                /\ conv' = [conv EXCEPT ![d] =
                     [st |-> "open", repo |-> h.repo, messages |-> <<>>]]
    BY <1>8 DEF Enters
  <2>2. /\ conv' \in [Conversations -> ConversationRows]
        /\ \A c \in Conversations :
             /\ conv'[c].st # "open" => conv'[c].messages = <<>>
             /\ conv[c].st # "absent" => conv'[c].st # "absent"
        /\ conv'[d].st # "absent"
    <3>1. CASE UNCHANGED conv
      BY <1>1, <2>1, <3>1 DEF Free
    <3>2. CASE conv' = [conv EXCEPT ![d] =
                 [st |-> "open", repo |-> h.repo, messages |-> <<>>]]
      <4>1. [st |-> "open", repo |-> h.repo, messages |-> <<>>] \in ConversationRows
        BY <1>2, <1>3 DEF ConversationRows
      <4> QED BY <1>1, <3>2, <4>1
    <3> QED BY <2>1, <3>1, <3>2
  <2>3. "history" \in Steps
    BY DEF Steps
  <2>4. chat'[k] = Bare("history", None, d, h.minute)
    BY <1>4, <2>1
  <2>5. /\ chat'[k] \in ChatRow(k)' /\ chat'[k].pc = "history" /\ chat'[k].conv = d
        /\ chat'[k].minute = h.minute /\ chat'[k].answer = None
    BY <1>2, <2>3, <2>4, BareRow
  <2>6. Stage(k)'
    BY <1>1, <2>1, <2>2, <2>5, NoneAssumption DEF Stage, Inside, Waiting
  <2> QED BY <1>4, <2>1, <2>2, <2>5, <2>6
<1>9. CASE Reads(k)
  <2>1. h.conv \in Conversations /\ h.pc = "history"
    BY <1>1, <1>2, <1>9 DEF Reads, Stage, Inside
  <2>2. History(h.conv) \in Seq(Message)
    BY <1>1, <2>1, LatestTyped DEF History, ConversationRows
  <2>3. "question" \in Steps
    BY DEF Steps
  <2>4. chat'[k] = Row("question", h.repo, h.conv, h.minute, h.scan, h.whole,
                       h.items, History(h.conv), h.answer)
    BY <1>4, <1>9 DEF Reads
  <2>5. /\ chat'[k] \in ChatRow(k)' /\ chat'[k].pc = "question"
        /\ chat'[k].conv = h.conv /\ chat'[k].minute = h.minute
        /\ chat'[k].answer = h.answer
    BY <1>2, <2>2, <2>3, <2>4, RowTyped
  <2>6. Stage(k)'
    BY <1>1, <1>9, <2>1, <2>5 DEF Stage, Inside, Waiting, Reads
  <2> QED BY <1>1, <1>4, <1>9, <2>5, <2>6 DEF Reads
<1>10. ASSUME NEW role \in {"USER", "ASSISTANT"}, NEW pc \in {"complete", "load"},
              h.pc \in {"question", "answer"}, Stores(k, role, pc)
       PROVE  /\ conv' \in [Conversations -> ConversationRows]
              /\ \A c \in Conversations :
                   /\ conv'[c].st # "open" => conv'[c].messages = <<>>
                   /\ conv[c].st # "absent" => conv'[c].st # "absent"
              /\ chat' = [j \in Chats |-> chat'[j]]
              /\ chat'[k] \in ChatRow(k)' /\ Stage(k)'
              /\ \A j \in Chats \ {k} : chat'[j] = chat[j]
  <2>1. h.conv \in Conversations
    BY <1>1, <1>2, <1>10 DEF Stage, Inside, Waiting
  <2>2. PICK row \in ConversationRows :
          conv[h.conv] = row /\ row.st = "open"
    BY <1>1, <1>10, <2>1 DEF Stores
  <2>3. [role |-> role, of |-> k] \in Message
    BY DEF Message
  <2>4. Append(row.messages, [role |-> role, of |-> k]) \in Seq(Message)
    BY <2>3, AppendProperties DEF ConversationRows
  <2> DEFINE more == Append(row.messages, [role |-> role, of |-> k])
             new == [row EXCEPT !.messages = more]
  <2>5. conv' = [conv EXCEPT ![h.conv] = new]
    BY <1>10, <2>2 DEF Stores
  <2> HIDE DEF more
  <2>6. new \in ConversationRows /\ new.st = "open"
    BY <2>2, <2>4 DEF ConversationRows, more
  <2>7. /\ conv' \in [Conversations -> ConversationRows]
        /\ \A c \in Conversations :
             /\ conv'[c].st # "open" => conv'[c].messages = <<>>
             /\ conv[c].st # "absent" => conv'[c].st # "absent"
    BY <1>1, <2>1, <2>5, <2>6
  <2>8. pc \in Steps
    BY DEF Steps
  <2>9. chat'[k] = Row(pc, h.repo, h.conv, h.minute, h.scan, h.whole, h.items,
                       h.history, h.answer)
    BY <1>4, <1>10 DEF Stores
  <2>10. /\ chat'[k] \in ChatRow(k)' /\ chat'[k].pc = pc
         /\ chat'[k].conv = h.conv /\ chat'[k].minute = h.minute
         /\ chat'[k].answer = h.answer
    BY <1>2, <2>8, <2>9, RowTyped
  <2>11. Stage(k)'
    BY <1>1, <1>10, <2>1, <2>7, <2>10 DEF Stage, Inside, Waiting
  <2> QED BY <1>4, <1>10, <2>7, <2>10, <2>11 DEF Stores
<1>11. CASE Loads(k)
  <2> DEFINE messages == conv[h.conv].messages
             last == messages[Len(messages)]
  <2>1. h.conv \in Conversations /\ messages # <<>>
    BY <1>1, <1>2, <1>11 DEF Loads, Stage, Inside
  <2>2. messages \in Seq(Message)
    BY <1>1, <2>1 DEF ConversationRows
  <2>3. last \in Message
    BY <2>1, <2>2
  <2>4. "done" \in Steps
    BY DEF Steps
  <2> DEFINE nothing == <<>>
  <2>5. chat'[k] = Row("done", h.repo, h.conv, h.minute, h.scan, h.whole,
                       h.items, nothing, last)
    BY <1>4, <1>11 DEF Loads
  <2>8. nothing \in Seq(Message)
    OBVIOUS
  <2> HIDE DEF last, nothing
  <2>6. /\ chat'[k] \in ChatRow(k)' /\ chat'[k].pc = "done"
        /\ chat'[k].conv = h.conv
    BY <1>2, <2>3, <2>4, <2>5, <2>8, RowTyped
  <2>7. Stage(k)'
    BY <1>1, <1>11, <2>6 DEF Stage, Inside, Waiting, Loads
  <2> QED BY <1>1, <1>4, <1>11, <2>6, <2>7 DEF Loads
<1> QED BY <1>5, <1>6, <1>7, <1>8, <1>9, <1>10, <1>11, StepMoves

\* The steps around the chats.
Aside ==
  /\ UNCHANGED <<key, conv, chat>>
  /\ minute' \in 1..Windows
  /\ used' \in [Disturbances -> Nat]
  /\ \A d \in Disturbances :
       used'[d] <= Limit[d] /\ (used'[d] = 0 => used[d] = 0)

LEMMA StepKinds ==
  ASSUME Typed, [Next]_vars
  PROVE  \/ \E k \in Chats : ChatStep(k)
         \/ \E c \in Conversations : Delete(c)
         \/ Aside
<1>1. CASE Tick
  BY <1>1, BoundsAssumption DEF Tick, Aside, Typed
<1>2. CASE UNCHANGED vars
  BY <1>2 DEF vars, Aside, Typed
<1>3. ASSUME NEW s \in 1..LastScan, Scan(s)
      PROVE  Aside
  <2>1. /\ UNCHANGED <<minute, key, conv, chat>>
        /\ UNCHANGED used \/ \E D : SpendAll(D)
    BY <1>3 DEF Scan, BeginScan, StoreRows, CompleteScan, FailScan, DetachScan,
                RetryScan, StoreLate, Spend
  <2> QED BY <2>1, Spent DEF Aside, Typed
<1> QED BY <1>1, <1>2, <1>3 DEF Next, ChatStep

\* A conversation that is deleted.
LEMMA DeleteEffect ==
  ASSUME Typed, NEW c \in Conversations, Delete(c)
  PROVE  /\ UNCHANGED <<minute, key, chat>>
         /\ used' \in [Disturbances -> Nat] /\ used'["delete"] # 0
         /\ \A d \in Disturbances :
              used'[d] <= Limit[d] /\ (used'[d] = 0 => used[d] = 0)
         /\ conv[c].st = "open"
         /\ conv' \in [Conversations -> ConversationRows]
         /\ conv'[c].st = "deleted" /\ conv'[c].messages = <<>>
         /\ \A d \in Conversations \ {c} : conv'[d] = conv[d]
<1>1. SpendAll({"delete"})
  BY DEF Delete, Spend
<1>2. conv \in [Conversations -> ConversationRows]
  BY DEF Typed
<1> DEFINE nothing == <<>>
<1>3. nothing \in Seq(Message) /\ nothing = <<>>
  OBVIOUS
<1>4. conv' = [conv EXCEPT ![c].st = "deleted", ![c].messages = nothing]
  BY DEF Delete
<1> HIDE DEF nothing
<1>5. [[conv[c] EXCEPT !.st = "deleted"] EXCEPT !.messages = nothing]
        = [st |-> "deleted", repo |-> conv[c].repo, messages |-> nothing]
  <2>1. conv[c] = [st |-> conv[c].st, repo |-> conv[c].repo,
                   messages |-> conv[c].messages]
    BY <1>2 DEF ConversationRows
  <2>2. [conv[c] EXCEPT !.st = "deleted"]
          = [st |-> "deleted", repo |-> conv[c].repo, messages |-> conv[c].messages]
    BY <2>1
  <2>3. [[conv[c] EXCEPT !.st = "deleted"] EXCEPT !.messages = nothing]
          = [[st |-> "deleted", repo |-> conv[c].repo, messages |-> conv[c].messages]
               EXCEPT !.messages = nothing]
    BY <2>2
  <2> QED BY <2>3
<1>6. conv' = [conv EXCEPT ![c] =
        [st |-> "deleted", repo |-> conv[c].repo, messages |-> nothing]]
  BY <1>4, <1>5
<1>7. [st |-> "deleted", repo |-> conv[c].repo, messages |-> nothing]
        \in ConversationRows
  BY <1>2, <1>3 DEF ConversationRows
<1>8. /\ conv' \in [Conversations -> ConversationRows]
      /\ conv'[c].st = "deleted" /\ conv'[c].messages = <<>>
      /\ \A d \in Conversations \ {c} : conv'[d] = conv[d]
  BY <1>2, <1>3, <1>6, <1>7
<1> QED BY <1>1, <1>8, Spent DEF Delete, Typed, Disturbances

LEMMA TypedNext ==
  ASSUME Typed, Room, [Next]_vars
  PROVE  Typed'
<1>1. ASSUME NEW k \in Chats, ChatStep(k)
      PROVE  Typed'
  <2>1. ASSUME NEW j \in Chats \ {k}
        PROVE  (chat[j] \in ChatRow(j) /\ Stage(j))'
    <3>1. chat[j] \in ChatRow(j) /\ Stage(j) /\ chat'[j] = chat[j]
      BY <1>1, <2>1, MoveTyped DEF Typed
    <3>2. chat[j].conv \in Conversations \cup {None}
      BY <3>1 DEF ChatRow
    <3>3. Stage(j)'
      BY <1>1, <3>1, <3>2, MoveTyped DEF Stage
    <3>4. ChatRow(j)' = ChatRow(j)
      BY <3>1 DEF ChatRow
    <3> QED BY <3>1, <3>3, <3>4
  <2>2. (chat[k] \in ChatRow(k) /\ Stage(k))'
    BY <1>1, MoveTyped
  <2>3. minute \in 1..Windows
    BY DEF Typed
  <2> QED BY <1>1, <2>1, <2>2, <2>3, MoveTyped, TablesTyped DEF Typed
<1>2. ASSUME NEW c \in Conversations, Delete(c)
      PROVE  Typed'
  <2>1. ASSUME NEW j \in Chats
        PROVE  (chat[j] \in ChatRow(j) /\ Stage(j))'
    <3>1. chat[j] \in ChatRow(j) /\ Stage(j) /\ chat'[j] = chat[j]
      BY <1>2, <2>1, DeleteEffect DEF Typed
    <3>2. chat[j].conv \in Conversations \cup {None}
      BY <3>1 DEF ChatRow
    <3>3. Stage(j)'
      BY <1>2, <3>1, <3>2, DeleteEffect DEF Stage
    <3>4. ChatRow(j)' = ChatRow(j)
      BY <3>1 DEF ChatRow
    <3> QED BY <3>1, <3>3, <3>4
  <2> QED BY <1>2, <2>1, DeleteEffect DEF Typed
<1>3. CASE Aside
  <2>1. ASSUME NEW j \in Chats
        PROVE  (chat[j] \in ChatRow(j) /\ Stage(j))'
    BY <1>3, <2>1 DEF Typed, Aside, Stage, ChatRow
  <2> QED BY <1>3, <2>1 DEF Typed, Aside
<1> QED BY <1>1, <1>2, <1>3, StepKinds

-----------------------------------------------------------------------------
(* Conversations that are taken                                            *)

\* The fields of a chat after each move.
LEMMA BeginsFields ==
  ASSUME Typed, NEW k \in Chats, Begins(k)
  PROVE  \E c \in Conversations \cup {None} :
           /\ chat[k].pc = "new" /\ UNCHANGED conv
           /\ IF c = None THEN Cardinality(Free) > Cardinality(Under(None))
              ELSE conv[c].st = "open"
           /\ c # None /\ Under(c) # {} => used'["overlap"] # 0
           /\ chat'[k].pc = "incr" /\ chat'[k].conv = c
           /\ chat'[k].minute = minute /\ chat'[k].answer = None
<1>1. PICK r \in Repositories, c \in Conversations \cup {None} :
        /\ chat[k].pc = "new" /\ UNCHANGED conv
        /\ IF c = None THEN Cardinality(Free) > Cardinality(Under(None))
           ELSE conv[c].st = "open"
        /\ c # None /\ Under(c) # {} => used'["overlap"] # 0
        /\ chat' = [chat EXCEPT ![k] = Bare("incr", r, c, minute)]
  BY DEF Begins
<1>2. chat'[k] = Bare("incr", r, c, minute)
  BY <1>1 DEF Typed
<1>3. /\ chat'[k].pc = "incr" /\ chat'[k].conv = c
      /\ chat'[k].minute = minute /\ chat'[k].answer = None
  BY <1>2, BareRow
<1> QED BY <1>1, <1>3

LEMMA QuitsFields ==
  ASSUME Typed, NEW k \in Chats, Quits(k)
  PROVE  /\ chat[k].pc \notin {"new", "done"} /\ UNCHANGED conv
         /\ chat'[k].pc = "done" /\ chat'[k].conv = None
         /\ chat'[k].minute = 0 /\ chat'[k].answer = None
<1>1. chat'[k] = Bare("done", None, None, 0)
  BY DEF Quits, Typed
<1> QED BY <1>1, BareRow DEF Quits

LEMMA GoesFields ==
  ASSUME Typed, NEW k \in Chats, Goes(k)
  PROVE  /\ UNCHANGED conv
         /\ chat'[k].conv = chat[k].conv /\ chat'[k].minute = chat[k].minute
         /\ chat'[k].history = chat[k].history /\ chat'[k].answer = chat[k].answer
BY DEF Goes, Typed

LEMMA EntersFields ==
  ASSUME Typed, NEW k \in Chats, Enters(k)
  PROVE  \E d \in Conversations :
           /\ chat[k].pc = "conversation"
           /\ chat'[k].pc = "history" /\ chat'[k].conv = d
           /\ chat'[k].minute = chat[k].minute /\ chat'[k].answer = None
           /\ \/ d = chat[k].conv /\ conv[d].st = "open" /\ UNCHANGED conv
              \/ /\ chat[k].conv = None /\ d \in Free
                 /\ conv'[d].st = "open" /\ conv'[d].messages = <<>>
                 /\ \A c \in Conversations \ {d} : conv'[c] = conv[c]
<1>1. PICK d \in Conversations :
        /\ chat[k].pc = "conversation"
        /\ chat' = [chat EXCEPT ![k] = Bare("history", None, d, chat[k].minute)]
        /\ \/ d = chat[k].conv /\ conv[d].st = "open" /\ UNCHANGED conv
           \/ /\ chat[k].conv = None /\ d \in Free
              /\ conv' = [conv EXCEPT ![d] =
                   [st |-> "open", repo |-> chat[k].repo, messages |-> <<>>]]
  BY DEF Enters
<1>2. chat'[k] = Bare("history", None, d, chat[k].minute)
  BY <1>1 DEF Typed
<1>3. /\ chat'[k].pc = "history" /\ chat'[k].conv = d
      /\ chat'[k].minute = chat[k].minute /\ chat'[k].answer = None
  BY <1>2, BareRow
<1>4. ASSUME conv' = [conv EXCEPT ![d] =
               [st |-> "open", repo |-> chat[k].repo, messages |-> <<>>]]
      PROVE  /\ conv'[d].st = "open" /\ conv'[d].messages = <<>>
             /\ \A c \in Conversations \ {d} : conv'[c] = conv[c]
  BY <1>4 DEF Typed
<1> QED BY <1>1, <1>3, <1>4

LEMMA ReadsFields ==
  ASSUME Typed, NEW k \in Chats, Reads(k)
  PROVE  /\ chat[k].pc = "history" /\ UNCHANGED conv
         /\ chat'[k].pc = "question" /\ chat'[k].conv = chat[k].conv
         /\ chat'[k].minute = chat[k].minute /\ chat'[k].answer = chat[k].answer
         /\ chat'[k].history = History(chat[k].conv)
<1> DEFINE h == chat[k]
<1>1. chat'[k] = Row("question", h.repo, h.conv, h.minute, h.scan, h.whole,
                     h.items, History(h.conv), h.answer)
  BY DEF Reads, Typed
<1> QED BY <1>1, RowTyped DEF Reads

LEMMA StoresFields ==
  ASSUME Typed, NEW k \in Chats, NEW role, NEW pc, Stores(k, role, pc),
         chat[k].pc \in Inside
  PROVE  LET c == chat[k].conv IN
         /\ c \in Conversations
         /\ chat'[k].pc = pc /\ chat'[k].conv = c
         /\ chat'[k].minute = chat[k].minute /\ chat'[k].answer = chat[k].answer
         /\ chat'[k].history = chat[k].history
         /\ conv[c].st = "open" /\ conv'[c].st = "open"
         /\ conv[c].messages \in Seq(Message)
         /\ conv'[c].messages = Append(conv[c].messages, [role |-> role, of |-> k])
         /\ \A d \in Conversations \ {c} : conv'[d] = conv[d]
<1> DEFINE h == chat[k]
<1>1. chat'[k] = Row(pc, h.repo, h.conv, h.minute, h.scan, h.whole, h.items,
                     h.history, h.answer)
  BY DEF Stores, Typed
<1>2. /\ chat'[k].pc = pc /\ chat'[k].conv = h.conv
      /\ chat'[k].minute = h.minute /\ chat'[k].answer = h.answer
      /\ chat'[k].history = h.history
  BY <1>1, RowTyped
<1>3. h.conv \in Conversations
  BY DEF Typed, ChatRow, Stage
<1>4. conv \in [Conversations -> ConversationRows]
  BY DEF Typed
<1>5. PICK row \in ConversationRows : conv[h.conv] = row
  BY <1>3, <1>4
<1> DEFINE more == Append(row.messages, [role |-> role, of |-> k])
<1>6. conv' = [conv EXCEPT ![h.conv] = [row EXCEPT !.messages = more]]
  BY <1>5 DEF Stores
<1> HIDE DEF more
<1>7. /\ [row EXCEPT !.messages = more].messages = more
      /\ [row EXCEPT !.messages = more].st = row.st
  BY DEF ConversationRows
<1>8. /\ conv'[h.conv].messages = more /\ conv'[h.conv].st = row.st
      /\ \A d \in Conversations \ {h.conv} : conv'[d] = conv[d]
  BY <1>3, <1>4, <1>6, <1>7
<1> QED BY <1>2, <1>3, <1>5, <1>8 DEF Stores, ConversationRows, more

LEMMA Stored ==
  ASSUME Typed, NEW k \in Chats, NEW role, NEW pc, Stores(k, role, pc)
  PROVE  chat'[k].pc = pc /\ chat'[k].conv = chat[k].conv
BY DEF Stores, Typed, Row

LEMMA StoredMessage ==
  ASSUME Typed, NEW k \in Chats, NEW role, NEW pc, Stores(k, role, pc),
         chat[k].pc \in Inside, NEW d, d = chat[k].conv
  PROVE  conv'[d].messages = Append(conv[d].messages, [role |-> role, of |-> k])
BY StoresFields

LEMMA LoadsFields ==
  ASSUME Typed, NEW k \in Chats, Loads(k)
  PROVE  LET messages == conv[chat[k].conv].messages IN
         /\ chat[k].pc = "load" /\ UNCHANGED conv
         /\ chat[k].conv \in Conversations
         /\ conv[chat[k].conv].st = "open" /\ messages # <<>>
         /\ chat'[k].pc = "done" /\ chat'[k].conv = chat[k].conv
         /\ chat'[k].minute = chat[k].minute
         /\ chat'[k].answer = messages[Len(messages)]
<1> DEFINE h == chat[k]
           nothing == <<>>
           messages == conv[h.conv].messages
<1>1. chat'[k] = Row("done", h.repo, h.conv, h.minute, h.scan, h.whole,
                     h.items, nothing, messages[Len(messages)])
  BY DEF Loads, Typed
<1>2. h.conv \in Conversations
  BY DEF Loads, Typed, ChatRow, Stage, Inside
<1> HIDE DEF nothing
<1>3. /\ chat'[k].pc = "done" /\ chat'[k].conv = h.conv
      /\ chat'[k].minute = h.minute
      /\ chat'[k].answer = messages[Len(messages)]
  BY <1>1, RowTyped
<1> QED BY <1>2, <1>3 DEF Loads

\* Where a step leaves a chat and what it does to conversations.
LEMMA Whereabouts ==
  ASSUME Typed, Room, NEW k \in Chats, ChatStep(k)
  PROVE  \/ Begins(k)
         \/ Enters(k)
         \/ /\ chat[k].pc \notin {"new", "done"}
            /\ chat'[k].pc # "done" => chat'[k].conv = chat[k].conv
            /\ \A c \in Conversations : conv'[c].st = conv[c].st
<1>1. ASSUME UNCHANGED conv
      PROVE  \A c \in Conversations : conv'[c].st = conv[c].st
  BY <1>1
<1>2. CASE Quits(k)
  BY <1>1, <1>2, QuitsFields
<1>3. CASE Goes(k)
  BY <1>1, <1>3, GoesFields DEF Goes, Asking
<1>4. CASE Reads(k)
  BY <1>1, <1>4, ReadsFields
<1>5. ASSUME NEW role, NEW pc, Stores(k, role, pc), chat[k].pc \in {"question", "answer"}
      PROVE  /\ chat'[k].conv = chat[k].conv
             /\ \A c \in Conversations : conv'[c].st = conv[c].st
  BY <1>5, StoresFields DEF Inside, Waiting
<1>6. CASE Loads(k)
  BY <1>1, <1>6, LoadsFields
<1> QED BY <1>2, <1>3, <1>4, <1>5, <1>6, StepMoves

LEMMA RoomNext ==
  ASSUME Typed, Room, [Next]_vars
  PROVE  Room'
<1>1. IsFiniteSet(Free) /\ Cardinality(Free) \in Nat
      /\ Cardinality(Under(None)) \in Nat
  <2>1. Free \subseteq Conversations
    BY DEF Free
  <2>2. IsFiniteSet(Free)
    BY <2>1, ConversationsAssumption, FS_Subset
  <2> QED BY <2>2, FS_CardinalityType DEF Room
<1>2. ASSUME Under(None)' \subseteq Under(None), Free' = Free
      PROVE  Room'
  <2>1. /\ IsFiniteSet(Under(None)')
        /\ Cardinality(Under(None)') <= Cardinality(Under(None))
    BY <1>2, FS_Subset DEF Room
  <2>2. Cardinality(Under(None)') \in Nat
    BY <2>1, FS_CardinalityType
  <2> QED BY <1>1, <1>2, <2>1, <2>2 DEF Room
<1>3. ASSUME NEW k \in Chats, ChatStep(k)
      PROVE  Room'
  <2>1. \A j \in Chats \ {k} : chat'[j] = chat[j]
    BY <1>3, MoveTyped
  <2>2. CASE Begins(k)
    <3>1. PICK c \in Conversations \cup {None} :
            /\ chat[k].pc = "new" /\ UNCHANGED conv
            /\ c = None => Cardinality(Free) > Cardinality(Under(None))
            /\ chat'[k].pc = "incr" /\ chat'[k].conv = c
      BY <2>2, BeginsFields
    <3>2. Free' = Free
      BY <3>1 DEF Free
    <3>3. CASE c = None
      <4>1. Under(None)' = Under(None) \cup {k} /\ k \notin Under(None)
        BY <2>1, <3>1, <3>3 DEF Under, Active
      <4>2. /\ IsFiniteSet(Under(None)')
            /\ Cardinality(Under(None)') = Cardinality(Under(None)) + 1
        BY <4>1, FS_AddElement DEF Room
      <4> QED BY <1>1, <3>1, <3>2, <3>3, <4>2 DEF Room
    <3>4. CASE c # None
      BY <1>2, <2>1, <3>1, <3>2, <3>4 DEF Under, Active
    <3> QED BY <3>3, <3>4
  <2>3. CASE Enters(k)
    <3>1. PICK d \in Conversations :
            /\ chat[k].pc = "conversation"
            /\ chat'[k].pc = "history" /\ chat'[k].conv = d
            /\ \/ UNCHANGED conv
               \/ /\ chat[k].conv = None /\ d \in Free
                  /\ conv'[d].st = "open"
                  /\ \A c \in Conversations \ {d} : conv'[c] = conv[c]
      BY <2>3, EntersFields
    <3>2. Under(None)' = Under(None) \ {k}
      BY <2>1, <3>1, NoneAssumption DEF Under, Active
    <3>3. CASE UNCHANGED conv
      BY <1>2, <3>2, <3>3 DEF Free
    <3>4. CASE ~UNCHANGED conv
      <4>1. k \in Under(None)
        BY <3>1, <3>4 DEF Under, Active
      <4>2. Free' = Free \ {d} /\ d \in Free
        BY <3>1, <3>4 DEF Free
      <4>3. /\ IsFiniteSet(Under(None) \ {k})
            /\ Cardinality(Under(None) \ {k}) = Cardinality(Under(None)) - 1
        BY <4>1, FS_RemoveElement DEF Room
      <4>4. Cardinality(Free \ {d}) = Cardinality(Free) - 1
        BY <1>1, <4>2, FS_RemoveElement
      <4> QED BY <1>1, <3>2, <4>2, <4>3, <4>4 DEF Room
    <3> QED BY <3>3, <3>4
  <2>4. CASE /\ chat[k].pc \notin {"new", "done"}
             /\ chat'[k].pc # "done" => chat'[k].conv = chat[k].conv
             /\ \A c \in Conversations : conv'[c].st = conv[c].st
    <3>1. Free' = Free
      BY <2>4 DEF Free
    <3>2. Under(None)' \subseteq Under(None)
      BY <2>1, <2>4 DEF Under, Active
    <3> QED BY <1>2, <3>1, <3>2
  <2> QED BY <1>3, <2>2, <2>3, <2>4, Whereabouts
<1>4. ASSUME NEW c \in Conversations, Delete(c)
      PROVE  Room'
  <2>1. Free' = Free /\ Under(None)' = Under(None)
    BY <1>4, DeleteEffect DEF Free, Under, Active
  <2> QED BY <1>2, <2>1
<1>5. CASE Aside
  BY <1>2, <1>5 DEF Aside, Free, Under, Active
<1> QED BY <1>3, <1>4, <1>5, StepKinds

\* Chats do not meet in a conversation unless one begins where another is.
LEMMA TurnsNext ==
  ASSUME Typed, Room, Turns, [Next]_vars
  PROVE  Turns'
<1> SUFFICES ASSUME Never({"overlap"})'
             PROVE  \A c \in Conversations : \A i, j \in Under(c)' : i = j
  BY DEF Turns
<1>1. "overlap" \in Disturbances /\ used'["overlap"] = 0
  BY DEF Never, Disturbances
<1>2. used["overlap"] = 0
  BY <1>1, StepKinds, TablesTyped, DeleteEffect DEF Aside
<1>3. \A c \in Conversations : \A i, j \in Under(c) : i = j
  BY <1>2 DEF Turns, Never
<1>4. ASSUME NEW k \in Chats, ChatStep(k), NEW c \in Conversations
      PROVE  \A i, j \in Under(c)' : i = j
  <2>1. \A j \in Chats \ {k} : chat'[j] = chat[j]
    BY <1>4, MoveTyped
  <2>2. CASE Begins(k)
    <3>1. PICK d \in Conversations \cup {None} :
            /\ chat[k].pc = "new"
            /\ d # None /\ Under(d) # {} => used'["overlap"] # 0
            /\ chat'[k].pc = "incr" /\ chat'[k].conv = d
      BY <2>2, BeginsFields
    <3>2. CASE c = d
      <4>1. Under(c) = {}
        BY <1>1, <3>1, <3>2, NoneAssumption
      <4>2. Under(c)' \subseteq {k}
        BY <2>1, <4>1 DEF Under, Active
      <4> QED BY <4>2
    <3>3. CASE c # d
      <4>1. Under(c)' \subseteq Under(c)
        BY <2>1, <3>1, <3>3 DEF Under, Active
      <4> QED BY <1>3, <4>1
    <3> QED BY <3>2, <3>3
  <2>3. CASE Enters(k)
    <3>1. PICK d \in Conversations :
            /\ chat[k].pc = "conversation"
            /\ chat'[k].pc = "history" /\ chat'[k].conv = d
            /\ d = chat[k].conv \/ d \in Free
      BY <2>3, EntersFields
    <3>2. CASE c = d /\ d \in Free
      <4>1. Under(c) = {}
        <5>1. ASSUME NEW j \in Under(c)
              PROVE  FALSE
          <6>1. j \in Chats /\ chat[j].conv = c /\ chat[j].pc # "new" /\ Stage(j)
            BY <5>1 DEF Under, Active, Typed
          <6> QED BY <3>2, <6>1, NoneAssumption DEF Stage, Free
        <5> QED BY <5>1
      <4>2. Under(c)' \subseteq {k}
        BY <2>1, <4>1 DEF Under, Active
      <4> QED BY <4>2
    <3>3. CASE ~(c = d /\ d \in Free)
      <4>1. Under(c)' \subseteq Under(c)
        BY <2>1, <3>1, <3>3 DEF Under, Active
      <4> QED BY <1>3, <4>1
    <3> QED BY <3>2, <3>3
  <2>4. CASE /\ chat[k].pc \notin {"new", "done"}
             /\ chat'[k].pc # "done" => chat'[k].conv = chat[k].conv
    <3>1. Under(c)' \subseteq Under(c)
      BY <2>1, <2>4 DEF Under, Active
    <3> QED BY <1>3, <3>1
  <2> QED BY <1>4, <2>2, <2>3, <2>4, Whereabouts
<1>5. ASSUME NEW c \in Conversations
      PROVE  UNCHANGED chat => \A i, j \in Under(c)' : i = j
  <2>1. UNCHANGED chat => Under(c)' = Under(c)
    BY DEF Under, Active
  <2> QED BY <1>3, <2>1
<1> QED BY <1>4, <1>5, StepKinds, DeleteEffect DEF Aside

-----------------------------------------------------------------------------
(* The rate limit                                                          *)

\* Whom a window has let pass, now and after a step.
LEMMA LetMembers ==
  ASSUME NEW w
  PROVE  /\ Let(w) = {k \in Chats :
              /\ chat[k].minute = w
              /\ \/ chat[k].pc \in Steps \ {"new", "incr", "done"}
                 \/ chat[k].answer # None}
         /\ Let(w)' = {k \in Chats :
              /\ chat'[k].minute = w
              /\ \/ chat'[k].pc \in Steps \ {"new", "incr", "done"}
                 \/ chat'[k].answer # None}
BY DEF Let, Passed, Answered, Steps

\* Whoever a window has let pass was let pass by INCR ...
LEMMA LetBefore ==
  ASSUME Typed, Room, NEW k \in Chats, ChatStep(k), NEW w \in 1..Windows,
         k \in Let(w)'
  PROVE  chat[k].minute = w /\ (chat[k].pc = "incr" \/ k \in Let(w))
<1>1. /\ chat'[k].minute = w
      /\ \/ chat'[k].pc \in Steps \ {"new", "incr", "done"}
         \/ chat'[k].answer # None
  BY LetMembers
<1>2. /\ chat[k].pc \in Steps
      /\ chat[k].pc # "done" => chat[k].answer = None
  BY DEF Typed, ChatRow, Stage
<1>3. ASSUME chat[k].minute = chat'[k].minute, chat[k].pc \notin {"new", "done"}
      PROVE  chat[k].minute = w /\ (chat[k].pc = "incr" \/ k \in Let(w))
  BY <1>1, <1>2, <1>3, LetMembers
<1>4. CASE Begins(k)
  BY <1>1, <1>4, BeginsFields
<1>5. CASE Quits(k)
  BY <1>1, <1>5, QuitsFields
<1>6. CASE Goes(k)
  BY <1>3, <1>6, GoesFields DEF Goes, Asking
<1>7. CASE Enters(k)
  BY <1>3, <1>7, EntersFields
<1>8. CASE Reads(k)
  BY <1>3, <1>8, ReadsFields
<1>9. ASSUME NEW role, NEW pc, Stores(k, role, pc), chat[k].pc \in {"question", "answer"}
      PROVE  chat[k].minute = w /\ (chat[k].pc = "incr" \/ k \in Let(w))
  BY <1>3, <1>9, StoresFields DEF Inside, Waiting
<1>10. CASE Loads(k)
  BY <1>3, <1>10, LoadsFields
<1> QED BY <1>4, <1>5, <1>6, <1>7, <1>8, <1>9, <1>10, StepMoves

\* ... and only the two calls of the rate limit touch its keys.
LEMMA KeySteps ==
  ASSUME Typed, NEW k \in Chats, ChatStep(k)
  PROVE  \/ Incr(k) \/ Expire(k)
         \/ UNCHANGED key /\ (chat[k].pc \in {"incr", "expire"} => Lose(k))
BY DEF ChatStep, Step, Ask, FindCompleted, FindLast, FindRelevant, FindOthers,
       OpenConversation, ReadHistory, StoreQuestion, StoreAnswer, CreateMessage,
       Timeout, ReadBody, LoadAnswer, BeginAnswer, ProviderFails, Lose

LEMMA IncrKey ==
  ASSUME Typed, NEW k \in Chats, Incr(k)
  PROVE  LET w == chat[k].minute IN
         /\ w \in 1..Windows /\ chat[k].pc = "incr"
         /\ key'[w].count = key[w].count + 1 /\ key'[w].expires = key[w].expires
         /\ \A v \in 1..Windows \ {w} : key'[v] = key[v]
         /\ \/ /\ key'[w].count = 1
               /\ chat'[k].pc = "expire" /\ chat'[k].minute = w
            \/ /\ key'[w].count # 1 /\ key'[w].count <= PerMinute
            \/ /\ key'[w].count # 1
               /\ chat'[k].pc = "done" /\ chat'[k].answer = None
<1> DEFINE h == chat[k]
           w == h.minute
<1>1. /\ h.pc = "incr" /\ h \in ChatRow(k) /\ w \in 1..Windows
  BY DEF Incr, Typed, Stage
<1>2. PICK n \in Nat, b \in BOOLEAN : key[w] = [count |-> n, expires |-> b]
  <2>1. key[w] \in [count : Nat, expires : BOOLEAN]
    BY <1>1 DEF Typed
  <2> QED BY <2>1
<1>3. n = key[w].count
  BY <1>2
<1>4. [key[w] EXCEPT !.count = n + 1] = [count |-> n + 1, expires |-> b]
  BY <1>2
<1>5. key' = [key EXCEPT ![w] = [count |-> n + 1, expires |-> b]]
  BY <1>3, <1>4 DEF Incr
<1>6. /\ key'[w].count = n + 1 /\ key'[w].expires = key[w].expires
      /\ \A v \in 1..Windows \ {w} : key'[v] = key[v]
  BY <1>1, <1>2, <1>5 DEF Typed
<1>7. \/ n + 1 = 1 /\ Go(k, "expire")
      \/ n + 1 # 1 /\ n + 1 <= PerMinute
      \/ n + 1 # 1 /\ Refuse(k)
  BY <1>3, BoundsAssumption DEF Incr, TooMany
<1>8. ASSUME Go(k, "expire")
      PROVE  chat'[k].pc = "expire" /\ chat'[k].minute = w
  <2>1. Becomes(k, "expire", h.scan, h.whole, h.items)
    BY <1>1, <1>8, GoBecomes
  <2>2. chat'[k] = Row("expire", h.repo, h.conv, h.minute, h.scan, h.whole, h.items,
                       h.history, h.answer)
    BY <2>1 DEF Becomes, Along, Typed
  <2> QED BY <2>2, RowTyped
<1>9. ASSUME Refuse(k)
      PROVE  chat'[k].pc = "done" /\ chat'[k].answer = None
  <2>1. chat'[k] = Bare("done", None, None, 0)
    BY <1>9, FreshRow DEF Refuse, Typed
  <2> QED BY <2>1, BareRow
<1> QED BY <1>1, <1>3, <1>6, <1>7, <1>8, <1>9

LEMMA ExpireKey ==
  ASSUME Typed, NEW k \in Chats, Expire(k)
  PROVE  LET w == chat[k].minute IN
         /\ w \in 1..Windows /\ chat[k].pc = "expire"
         /\ key'[w].count = key[w].count /\ key'[w].expires
         /\ \A v \in 1..Windows \ {w} : key'[v] = key[v]
<1> DEFINE w == chat[k].minute
           yes == TRUE
<1>1. chat[k].pc = "expire" /\ w \in 1..Windows
  BY DEF Expire, Typed, Stage
<1>2. PICK n \in Nat, b \in BOOLEAN : key[w] = [count |-> n, expires |-> b]
  <2>1. key[w] \in [count : Nat, expires : BOOLEAN]
    BY <1>1 DEF Typed
  <2> QED BY <2>1
<1>3. key' = [key EXCEPT ![w].expires = yes]
  BY DEF Expire
<1>4. yes
  OBVIOUS
<1> HIDE DEF yes
<1>5. [key[w] EXCEPT !.expires = yes] = [count |-> n, expires |-> yes]
  BY <1>2
<1>6. key' = [key EXCEPT ![w] = [count |-> n, expires |-> yes]]
  BY <1>3, <1>5
<1> QED BY <1>1, <1>2, <1>4, <1>6 DEF Typed

LEMMA LimitedNext ==
  ASSUME Typed, Room, Limited, [Next]_vars
  PROVE  Limited'
<1> DEFINE first(w) == IF w = 1 THEN 1 ELSE 0
<1>1. \A w \in 1..Windows :
        /\ key[w].count \in Nat /\ IsFiniteSet(Let(w)) /\ Cardinality(Let(w)) \in Nat
        /\ Cardinality(Let(w)) + first(w) <= key[w].count
        /\ Cardinality(Let(w)) + first(w) <= PerMinute
  BY FS_CardinalityType DEF Typed, Limited, Counted
<1>2. ASSUME NEW w \in 1..Windows, Let(w)' \subseteq Let(w),
             key'[w].count = key[w].count \/ key'[w].count = key[w].count + 1
      PROVE  Counted(w)'
  <2>1. /\ IsFiniteSet(Let(w)') /\ Cardinality(Let(w)') <= Cardinality(Let(w))
        /\ Cardinality(Let(w)') \in Nat
    BY <1>1, <1>2, FS_Subset, FS_CardinalityType
  <2>2. /\ Cardinality(Let(w)') + first(w) <= key'[w].count
        /\ Cardinality(Let(w)') + first(w) <= PerMinute
    BY <1>1, <1>2, <2>1, BoundsAssumption
  <2> QED BY <2>1, <2>2 DEF Counted
<1>3. ASSUME NEW k \in Chats, ChatStep(k)
      PROVE  Limited'
  <2>1. \A j \in Chats \ {k} : chat'[j] = chat[j]
    BY <1>3, MoveTyped
  <2>2. ASSUME NEW w \in 1..Windows
        PROVE  /\ Let(w)' \subseteq Let(w) \cup {k}
               /\ k \in Let(w)' =>
                    chat[k].minute = w /\ (chat[k].pc = "incr" \/ k \in Let(w))
    BY <1>3, <2>1, LetBefore, LetMembers
  <2>3. Never({"lost"})' => Never({"lost"})
    BY <1>3, TablesTyped DEF Never, Disturbances
  <2>4. CASE Incr(k)
    <3> DEFINE w == chat[k].minute
               n == key'[w].count
    <3>1. /\ w \in 1..Windows /\ chat[k].pc = "incr"
          /\ n = key[w].count + 1 /\ key'[w].expires = key[w].expires
          /\ \A v \in 1..Windows \ {w} : key'[v] = key[v]
          /\ \/ n = 1 /\ chat'[k].pc = "expire" /\ chat'[k].minute = w
             \/ n # 1 /\ n <= PerMinute
             \/ n # 1 /\ chat'[k].pc = "done" /\ chat'[k].answer = None
      BY <2>4, IncrKey
    <3> HIDE DEF w, n
    <3>2. ASSUME NEW v \in 1..Windows
          PROVE  Counted(v)'
      <4>1. CASE Let(v)' \subseteq Let(v)
        BY <1>2, <3>1, <4>1 DEF n
      <4>2. CASE ~(Let(v)' \subseteq Let(v))
        <5>1. k \in Let(v)' /\ v = w /\ k \notin Let(v)
          BY <2>2, <4>2 DEF w
        <5>2. n <= PerMinute
          BY <3>1, <5>1, LetMembers, BoundsAssumption
        <5>3. /\ IsFiniteSet(Let(v) \cup {k})
              /\ Cardinality(Let(v) \cup {k}) = Cardinality(Let(v)) + 1
          BY <1>1, <5>1, FS_AddElement
        <5>4. /\ IsFiniteSet(Let(v)')
              /\ Cardinality(Let(v)') <= Cardinality(Let(v)) + 1
              /\ Cardinality(Let(v)') \in Nat
          BY <2>2, <5>3, FS_Subset, FS_CardinalityType
        <5>5. /\ Cardinality(Let(v)') + first(v) <= key'[v].count
              /\ Cardinality(Let(v)') + first(v) <= PerMinute
          BY <1>1, <3>1, <5>1, <5>2, <5>4, BoundsAssumption DEF n
        <5> QED BY <5>4, <5>5 DEF Counted
      <4> QED BY <4>1, <4>2
    <3>3. ASSUME NEW v \in 1..Windows
          PROVE  Expires(v)'
      <4>1. CASE v = w /\ n = 1
        BY <3>1, <4>1 DEF Expires
      <4>2. CASE ~(v = w /\ n = 1)
        <5> SUFFICES ASSUME key'[v].count > 0, Never({"lost"})'
                     PROVE  \/ key'[v].expires
                            \/ \E j \in Chats : chat'[j].pc = "expire" /\ chat'[j].minute = v
          BY DEF Expires
        <5>1. key[v].count > 0 /\ key'[v].expires = key[v].expires
          BY <1>1, <3>1, <4>2 DEF n
        <5>2. CASE key[v].expires
          BY <5>1, <5>2
        <5>3. CASE ~key[v].expires
          <6>1. PICK j \in Chats : chat[j].pc = "expire" /\ chat[j].minute = v
            BY <2>3, <5>1, <5>3 DEF Limited, Expires
          <6> QED BY <2>1, <3>1, <6>1
        <5> QED BY <5>2, <5>3
      <4> QED BY <4>1, <4>2
    <3> QED BY <3>2, <3>3 DEF Limited
  <2>5. CASE Expire(k)
    <3> DEFINE w == chat[k].minute
    <3>1. /\ w \in 1..Windows /\ chat[k].pc = "expire"
          /\ key'[w].count = key[w].count /\ key'[w].expires
          /\ \A v \in 1..Windows \ {w} : key'[v] = key[v]
      BY <2>5, ExpireKey
    <3>2. ASSUME NEW v \in 1..Windows
          PROVE  Counted(v)'
      <4>1. Let(v)' \subseteq Let(v)
        BY <2>2, <3>1
      <4> QED BY <1>2, <3>1, <4>1
    <3>3. ASSUME NEW v \in 1..Windows
          PROVE  Expires(v)'
      BY <2>1, <2>3, <3>1 DEF Limited, Expires
    <3> QED BY <3>2, <3>3 DEF Limited
  <2>6. CASE UNCHANGED key /\ (chat[k].pc \in {"incr", "expire"} => Lose(k))
    <3>1. Lose(k) => used'["lost"] # 0 /\ Quits(k)
      <4>1. Lose(k) => SpendAll({"lost"})
        BY DEF Lose, Spend
      <4>2. Lose(k) => Quits(k)
        BY FreshRow DEF Lose, Quits, Refuse, Active
      <4> QED BY <4>1, <4>2, Spent DEF Typed, Disturbances
    <3>2. ASSUME NEW v \in 1..Windows
          PROVE  Counted(v)'
      <4>1. ASSUME k \in Let(v)', chat[k].pc = "incr"
            PROVE  FALSE
        <5>1. Quits(k)
          BY <2>6, <3>1, <4>1
        <5> QED BY <4>1, <5>1, QuitsFields, LetMembers
      <4>2. Let(v)' \subseteq Let(v)
        BY <2>2, <4>1
      <4> QED BY <1>2, <2>6, <4>2
    <3>3. ASSUME NEW v \in 1..Windows
          PROVE  Expires(v)'
      <4>1. Never({"lost"})' => chat[k].pc # "expire"
        BY <2>6, <3>1 DEF Never
      <4> QED BY <2>1, <2>3, <2>6, <4>1 DEF Limited, Expires
    <3> QED BY <3>2, <3>3 DEF Limited
  <2> QED BY <1>3, <2>4, <2>5, <2>6, KeySteps
<1>4. ASSUME UNCHANGED <<key, chat>>, used'["lost"] = 0 => used["lost"] = 0
      PROVE  Limited'
  <2>1. \A w \in 1..Windows : Let(w)' = Let(w)
    BY <1>4, LetMembers
  <2> QED BY <1>2, <1>4, <2>1 DEF Limited, Expires, Never
<1>5. ASSUME NEW c \in Conversations, Delete(c)
      PROVE  Limited'
  BY <1>4, <1>5, DeleteEffect DEF Disturbances
<1>6. CASE Aside
  BY <1>4, <1>6 DEF Aside, Disturbances
<1> QED BY <1>3, <1>5, <1>6, StepKinds

-----------------------------------------------------------------------------
(* Messages                                                                *)

\* What an appended message leaves as it was.
LEMMA Appended ==
  ASSUME NEW s \in Seq(Message), NEW x \in Message
  PROVE  LET t == Append(s, x) IN
         /\ t \in Seq(Message) /\ t # <<>>
         /\ Len(s) \in Nat /\ Len(t) = Len(s) + 1
         /\ DOMAIN s = 1..Len(s) /\ DOMAIN t = 1..(Len(s) + 1)
         /\ t[Len(s) + 1] = x
         /\ \A n \in 1..Len(s) : t[n] = s[n]
         /\ \A n \in 0..Len(s) :
              n \in 0..Len(t) /\ SubSeq(t, 1, n) = SubSeq(s, 1, n)
<1> DEFINE t == Append(s, x)
<1>1. /\ t \in Seq(Message) /\ t # <<>>
      /\ Len(s) \in Nat /\ Len(t) = Len(s) + 1
      /\ DOMAIN s = 1..Len(s) /\ DOMAIN t = 1..(Len(s) + 1)
      /\ t[Len(s) + 1] = x
      /\ \A n \in 1..Len(s) : t[n] = s[n]
  BY AppendProperties
<1> HIDE DEF t
<1>2. ASSUME NEW n \in 0..Len(s)
      PROVE  n \in 0..Len(t) /\ SubSeq(t, 1, n) = SubSeq(s, 1, n)
  <2>1. /\ \A i \in 1..n : s[i] \in Message
        /\ \A i \in 1..n : t[i] \in Message
    BY <1>1
  <2>2. /\ SubSeq(s, 1, n) \in Seq(Message) /\ SubSeq(t, 1, n) \in Seq(Message)
        /\ Len(SubSeq(s, 1, n)) = n /\ Len(SubSeq(t, 1, n)) = n
        /\ \A i \in 1..n : SubSeq(s, 1, n)[i] = s[1 + i - 1]
        /\ \A i \in 1..n : SubSeq(t, 1, n)[i] = t[1 + i - 1]
    <3>1. n \in Int /\ n - 1 + 1 = n
      OBVIOUS
    <3> QED BY <1>1, <2>1, <3>1, SubSeqProperties
  <2>3. \A i \in 1..n : SubSeq(s, 1, n)[i] = SubSeq(t, 1, n)[i]
    BY <1>1, <2>2
  <2>4. SubSeq(t, 1, n) = SubSeq(s, 1, n)
    BY <2>2, <2>3, SeqEqual
  <2>5. n \in 0..Len(t)
    BY <1>1
  <2> QED BY <2>4, <2>5
<1> QED BY <1>1, <1>2 DEF t

\* A step of a chat says something or changes no messages.
LEMMA Says ==
  ASSUME Typed, Room, NEW k \in Chats, ChatStep(k)
  PROVE  /\ \A c \in Conversations :
              conv[c].st # "absent" => conv'[c].st = conv[c].st
         /\ \/ chat[k].pc = "question" /\ Stores(k, "USER", "complete")
            \/ chat[k].pc = "answer" /\ Stores(k, "ASSISTANT", "load")
            \/ \A c \in Conversations : conv'[c].messages = conv[c].messages
<1>1. ASSUME UNCHANGED conv
      PROVE  \A c \in Conversations : conv'[c].messages = conv[c].messages
  BY <1>1
<1>2. CASE Enters(k)
  <2>1. PICK d \in Conversations :
          \/ UNCHANGED conv
          \/ /\ d \in Free
             /\ conv'[d].st = "open" /\ conv'[d].messages = <<>>
             /\ \A c \in Conversations \ {d} : conv'[c] = conv[c]
    BY <1>2, EntersFields
  <2>2. d \in Free => conv[d].st = "absent" /\ conv[d].messages = <<>>
    BY DEF Free, Typed
  <2> QED BY <1>1, <2>1, <2>2
<1>3. ASSUME ~Enters(k)
      PROVE  \A c \in Conversations :
               conv[c].st # "absent" => conv'[c].st = conv[c].st
  <2>1. CASE Begins(k)
    <3>1. UNCHANGED conv
      BY <2>1 DEF Begins
    <3> QED BY <3>1
  <2> QED BY <1>3, <2>1, Whereabouts
<1>4. Begins(k) \/ Quits(k) \/ Goes(k) \/ Reads(k) \/ Loads(k) => UNCHANGED conv
  BY DEF Begins, Quits, Goes, Reads, Loads
<1> QED BY <1>1, <1>2, <1>3, <1>4, StepMoves

\* The conversation of a chat at a step inside it.
LEMMA Home ==
  ASSUME Typed, NEW k \in Chats, chat[k].pc \in Inside
  PROVE  /\ chat[k].conv \in Conversations
         /\ conv[chat[k].conv].st # "absent"
         /\ conv[chat[k].conv].messages \in Seq(Message)
         /\ k \in Under(chat[k].conv)
<1>1. chat[k].conv \in Conversations /\ conv[chat[k].conv].st # "absent"
  BY DEF Typed, ChatRow, Stage, Inside, Waiting
<1>2. chat[k].pc \notin {"new", "done"}
  BY DEF Inside, Waiting
<1> QED BY <1>1, <1>2 DEF Typed, ConversationRows, Under, Active

LEMMA Sparing ==
  ASSUME Typed, [Next]_vars, NEW d \in Disturbances
  PROVE  Never({d})' => Never({d})
BY StepKinds, TablesTyped, DeleteEffect DEF Aside, Never

\* What is said by another chat.
LEMMA SaidByOther ==
  ASSUME Typed, NEW k \in Chats, NEW role \in {"USER", "ASSISTANT"}, NEW pc,
         Stores(k, role, pc), chat[k].pc \in Inside,
         NEW j \in Chats \ {k}, NEW c \in Conversations
  PROVE  /\ Mentions(c, j)' = Mentions(c, j)
         /\ \A n \in Mentions(c, j) : conv'[c].messages[n] = conv[c].messages[n]
         /\ \A r : Positions(c, r, j)' = Positions(c, r, j)
<1> DEFINE d == chat[k].conv
           x == [role |-> role, of |-> k]
           s == conv[d].messages
<1>1. /\ d \in Conversations /\ s \in Seq(Message)
      /\ conv'[d].messages = Append(s, x)
      /\ \A e \in Conversations \ {d} : conv'[e] = conv[e]
  BY StoresFields
<1>2. x \in Message /\ x.of = k /\ \A r : x # [role |-> r, of |-> j]
  BY DEF Message
<1> HIDE DEF d, x, s
<1>3. /\ DOMAIN s = 1..Len(s) /\ DOMAIN Append(s, x) = 1..(Len(s) + 1)
      /\ Append(s, x)[Len(s) + 1] = x /\ Len(s) \in Nat
      /\ \A n \in 1..Len(s) : Append(s, x)[n] = s[n]
  BY <1>1, <1>2, Appended
<1>4. CASE c = d
  <2>1. conv[c].messages = s /\ conv'[c].messages = Append(s, x)
    BY <1>1, <1>4 DEF s
  <2>2. Mentions(c, j)' = Mentions(c, j)
    BY <1>2, <1>3, <2>1 DEF Mentions
  <2>3. \A n \in Mentions(c, j) : conv'[c].messages[n] = conv[c].messages[n]
    BY <1>3, <2>1 DEF Mentions
  <2>4. \A r : Positions(c, r, j)' = Positions(c, r, j)
    BY <1>2, <1>3, <2>1 DEF Positions
  <2> QED BY <2>2, <2>3, <2>4
<1>5. CASE c # d
  BY <1>1, <1>5 DEF Mentions, Positions
<1> QED BY <1>4, <1>5

\* Who is in a conversation beside the one that speaks overlaps it.
LEMMA Alone ==
  ASSUME Typed, Turns, Never({"overlap"}), NEW k \in Chats, NEW j \in Chats \ {k},
         chat[k].pc \in Inside, chat[j].pc \in Inside
  PROVE  chat[j].conv # chat[k].conv
BY Home DEF Turns

LEMMA VoiceOther ==
  ASSUME Typed, Room, Turns, [Next]_vars, NEW k \in Chats, ChatStep(k),
         NEW j \in Chats \ {k}, Voice(j)
  PROVE  Voice(j)'
<1>0. chat'[j] = chat[j]
  BY MoveTyped
<1>1. Never({"overlap"})' => Never({"overlap"})
  BY Sparing DEF Disturbances
<1>2. ASSUME chat[j].pc \in Waiting \cup {"load"}
      PROVE  /\ chat[j].conv \in Conversations
             /\ conv'[chat[j].conv].st = conv[chat[j].conv].st
  BY <1>2, Home, Says DEF Inside
<1>3. CASE \A c \in Conversations : conv'[c].messages = conv[c].messages
  <2>1. \A c \in Conversations : Mentions(c, j)' = Mentions(c, j)
    BY <1>3 DEF Mentions
  <2> QED BY <1>0, <1>1, <1>2, <1>3, <2>1 DEF Voice, Ends
<1>4. ASSUME NEW role \in {"USER", "ASSISTANT"}, NEW pc, Stores(k, role, pc),
             chat[k].pc \in {"question", "answer"}
      PROVE  Voice(j)'
  <2>1. chat[k].pc \in Inside
    BY <1>4 DEF Inside, Waiting
  <2>2. \A c \in Conversations :
          /\ Mentions(c, j)' = Mentions(c, j)
          /\ \A n \in Mentions(c, j) : conv'[c].messages[n] = conv[c].messages[n]
    BY <1>4, <2>1, SaidByOther
  <2>3. ASSUME chat[j].pc \in Waiting \cup {"load"}, Never({"overlap"})
        PROVE  conv'[chat[j].conv] = conv[chat[j].conv]
    <3>1. chat[j].pc \in Inside
      BY <2>3 DEF Inside
    <3>2. chat[j].conv # chat[k].conv
      BY <2>1, <2>3, <3>1, Alone
    <3> QED BY <1>2, <1>4, <2>1, <2>3, <3>2, StoresFields
  <2>4. chat[j].pc \in Asking \cup {"new"} =>
          \A c \in Conversations : Mentions(c, j)' = {}
    BY <2>2 DEF Voice
  <2>5. chat[j].pc \in Waiting =>
          /\ \A c \in Conversations : \A n \in Mentions(c, j)' :
               c = chat[j].conv /\ conv'[c].messages[n].role = "USER"
          /\ conv'[chat[j].conv].st = "open" => Mentions(chat[j].conv, j)' # {}
    <3> SUFFICES ASSUME chat[j].pc \in Waiting
                 PROVE  /\ \A c \in Conversations : \A n \in Mentions(c, j)' :
                             /\ c = chat[j].conv
                             /\ conv'[c].messages[n].role = "USER"
                        /\ conv'[chat[j].conv].st = "open" =>
                             Mentions(chat[j].conv, j)' # {}
      OBVIOUS
    <3>1. \A c \in Conversations : \A n \in Mentions(c, j) :
            c = chat[j].conv /\ conv[c].messages[n].role = "USER"
      BY DEF Voice
    <3>2. conv[chat[j].conv].st = "open" => Mentions(chat[j].conv, j) # {}
      BY DEF Voice
    <3>3. /\ chat[j].conv \in Conversations
          /\ conv'[chat[j].conv].st = conv[chat[j].conv].st
      BY <1>2
    <3>4. \A c \in Conversations : \A n \in Mentions(c, j)' :
            c = chat[j].conv /\ conv'[c].messages[n].role = "USER"
      BY <2>2, <3>1
    <3>5. conv'[chat[j].conv].st = "open" => Mentions(chat[j].conv, j)' # {}
      BY <1>0, <2>2, <3>2, <3>3
    <3> QED BY <3>4, <3>5
  <2>6. chat[j].pc \in Waiting \cup {"load"} /\ Never({"overlap"}) =>
          \/ conv'[chat[j].conv].st # "open"
          \/ Ends(chat[j].conv, IF chat[j].pc = "load" THEN "ASSISTANT" ELSE "USER", j)'
    BY <1>0, <2>3 DEF Voice, Ends
  <2> QED BY <1>0, <1>1, <2>4, <2>5, <2>6 DEF Voice, Mentions
<1> QED BY <1>3, <1>4, Says

\* What a chat says itself stands last in its conversation.
LEMMA SpeaksLast ==
  ASSUME Typed, NEW k \in Chats, NEW role \in {"USER", "ASSISTANT"}, NEW pc,
         Stores(k, role, pc), chat[k].pc \in Inside,
         NEW d \in Conversations, d = chat[k].conv
  PROVE  /\ conv'[d].messages[Len(conv[d].messages) + 1] = [role |-> role, of |-> k]
         /\ Ends(d, role, k)'
<1> DEFINE x == [role |-> role, of |-> k]
           s == conv[d].messages
<1>1. s \in Seq(Message) /\ x \in Message
      /\ conv'[d].messages = Append(s, x)
  BY StoresFields DEF Message
<1> HIDE DEF x, s
<1>2. /\ Append(s, x) # <<>> /\ Len(Append(s, x)) = Len(s) + 1
      /\ Append(s, x)[Len(s) + 1] = x
  BY <1>1, Appended
<1> QED BY <1>1, <1>2 DEF Ends, s, x

LEMMA SpeaksOnce ==
  ASSUME Typed, NEW k \in Chats, NEW role \in {"USER", "ASSISTANT"}, NEW pc,
         Stores(k, role, pc), chat[k].pc \in Inside,
         NEW d \in Conversations, d = chat[k].conv
  PROVE  /\ Mentions(d, k)' = Mentions(d, k) \cup {Len(conv[d].messages) + 1}
         /\ \A c \in Conversations \ {d} : Mentions(c, k)' = Mentions(c, k)
<1> DEFINE x == [role |-> role, of |-> k]
           s == conv[d].messages
<1>1. /\ s \in Seq(Message) /\ x \in Message /\ x.of = k
      /\ conv'[d].messages = Append(s, x) /\ conv[d].messages = s
      /\ \A e \in Conversations \ {d} : conv'[e] = conv[e]
  BY StoresFields DEF Message
<1> HIDE DEF x, s
<1>2. /\ DOMAIN s = 1..Len(s) /\ DOMAIN Append(s, x) = 1..(Len(s) + 1)
      /\ Append(s, x)[Len(s) + 1] = x /\ Len(s) \in Nat
      /\ \A m \in 1..Len(s) : Append(s, x)[m] = s[m]
  BY <1>1, Appended
<1>3. 1..(Len(s) + 1) = 1..Len(s) \cup {Len(s) + 1}
  BY <1>2
<1>4. Mentions(d, k)' = Mentions(d, k) \cup {Len(s) + 1}
  BY <1>1, <1>2, <1>3 DEF Mentions
<1>5. \A c \in Conversations \ {d} : Mentions(c, k)' = Mentions(c, k)
  BY <1>1 DEF Mentions
<1> QED BY <1>1, <1>4, <1>5

LEMMA VoiceSelf ==
  ASSUME Typed, Room, [Next]_vars, NEW k \in Chats, ChatStep(k), Voice(k)
  PROVE  Voice(k)'
<1>1. Never({"overlap"})' => Never({"overlap"})
  BY Sparing DEF Disturbances
<1>2. ASSUME \A c \in Conversations : conv'[c].messages = conv[c].messages
      PROVE  \A c \in Conversations : Mentions(c, k)' = Mentions(c, k)
  BY <1>2 DEF Mentions
<1>3. ASSUME chat[k].pc \in Asking \cup {"new"}, chat'[k].pc \in Asking,
             \A c \in Conversations : conv'[c].messages = conv[c].messages
      PROVE  Voice(k)'
  <2>1. \A c \in Conversations : Mentions(c, k)' = {}
    BY <1>2, <1>3 DEF Voice
  <2>2. chat'[k].pc \notin Waiting \cup {"load"}
    BY <1>3 DEF Asking, Waiting
  <2> QED BY <2>1, <2>2 DEF Voice
<1>4. ASSUME UNCHANGED conv
      PROVE  \A c \in Conversations : conv'[c].messages = conv[c].messages
  BY <1>4
<1>5. CASE Begins(k)
  BY <1>3, <1>4, <1>5, BeginsFields DEF Asking
<1>6. CASE Quits(k) \/ Loads(k)
  <2>1. chat'[k].pc = "done"
    BY <1>6, QuitsFields, LoadsFields
  <2> QED BY <2>1 DEF Voice, Asking, Waiting
<1>7. CASE Goes(k)
  <2>1. UNCHANGED conv /\ chat'[k].conv = chat[k].conv
    BY <1>7, GoesFields
  <2>2. CASE chat[k].pc \in Asking
    <3>1. chat'[k].pc \in Asking
      BY <1>7, <2>2 DEF Goes, Asking
    <3> QED BY <1>3, <1>4, <2>1, <2>2, <3>1
  <2>3. CASE chat[k].pc \notin Asking
    <3>1. chat[k].pc \in Waiting /\ chat'[k].pc \in Waiting
      BY <1>7, <2>3 DEF Goes, Waiting
    <3>2. chat'[k].pc \notin Asking \cup {"new", "load"} /\ chat[k].pc # "load"
      BY <3>1 DEF Waiting, Asking
    <3>3. \A c \in Conversations : Mentions(c, k)' = Mentions(c, k)
      BY <2>1 DEF Mentions
    <3>4. Mentions(chat[k].conv, k)' = Mentions(chat[k].conv, k)
      BY <2>1 DEF Mentions
    <3> QED BY <1>1, <2>1, <3>1, <3>2, <3>3, <3>4 DEF Voice, Ends, Mentions
  <2> QED BY <2>2, <2>3
<1>8. CASE Enters(k) \/ Reads(k)
  <2>1. chat[k].pc \in Asking /\ chat'[k].pc \in Asking
    BY <1>8, EntersFields, ReadsFields DEF Asking
  <2>2. \A c \in Conversations : conv'[c].messages = conv[c].messages
    BY <1>4, <2>1, Says, StoresFields, <1>8, EntersFields, ReadsFields
  <2> QED BY <1>3, <2>1, <2>2
<1>9. CASE chat[k].pc = "question" /\ Stores(k, "USER", "complete")
  <2>0. chat[k].pc \in Inside /\ chat[k].pc \in Asking
    BY <1>9 DEF Inside, Asking
  <2>1. PICK d \in Conversations :
          d = chat[k].conv /\ chat'[k].pc = "complete" /\ chat'[k].conv = d
    <3>1. chat[k].conv \in Conversations
      BY <2>0, Home
    <3>2. chat'[k].pc = "complete" /\ chat'[k].conv = chat[k].conv
      BY <1>9, Stored
    <3> QED BY <3>1, <3>2
  <2> DEFINE n == Len(conv[d].messages) + 1
  <2>2. /\ Mentions(d, k)' = Mentions(d, k) \cup {n}
        /\ conv'[d].messages[n] = [role |-> "USER", of |-> k]
        /\ Ends(d, "USER", k)'
        /\ \A c \in Conversations \ {d} : Mentions(c, k)' = Mentions(c, k)
    <3>1. /\ Mentions(d, k)' = Mentions(d, k) \cup {Len(conv[d].messages) + 1}
          /\ \A c \in Conversations \ {d} : Mentions(c, k)' = Mentions(c, k)
      BY <1>9, <2>0, <2>1, SpeaksOnce
    <3>2. /\ conv'[d].messages[Len(conv[d].messages) + 1] = [role |-> "USER", of |-> k]
          /\ Ends(d, "USER", k)'
      BY <1>9, <2>0, <2>1, SpeaksLast
    <3> QED BY <3>1, <3>2
  <2>3. \A c \in Conversations : Mentions(c, k) = {}
    BY <2>0 DEF Voice
  <2> HIDE DEF n
  <2>4. \A c \in Conversations : \A m \in Mentions(c, k)' :
          c = d /\ conv'[c].messages[m].role = "USER"
    BY <2>2, <2>3
  <2>5. Mentions(d, k)' # {}
    BY <2>2
  <2> QED BY <2>1, <2>2, <2>4, <2>5 DEF Voice, Waiting, Asking, Ends, Mentions
<1>10. CASE chat[k].pc = "answer" /\ Stores(k, "ASSISTANT", "load")
  <2>0. chat[k].pc \in Inside
    BY <1>10 DEF Inside, Waiting
  <2>1. PICK d \in Conversations :
          d = chat[k].conv /\ chat'[k].pc = "load" /\ chat'[k].conv = d
    <3>1. chat[k].conv \in Conversations
      BY <2>0, Home
    <3>2. chat'[k].pc = "load" /\ chat'[k].conv = chat[k].conv
      BY <1>10, Stored
    <3> QED BY <3>1, <3>2
  <2>2. Ends(d, "ASSISTANT", k)'
    BY <1>10, <2>0, <2>1, SpeaksLast
  <2> QED BY <2>1, <2>2 DEF Voice, Waiting, Asking, Ends
<1> QED BY <1>5, <1>6, <1>7, <1>8, <1>9, <1>10, StepMoves

\* Where its question and its answer then stand.
LEMMA QuestionAppended ==
  ASSUME Typed, NEW k \in Chats, Stores(k, "USER", "complete"), chat[k].pc \in Inside,
         NEW d \in Conversations, d = chat[k].conv
  PROVE  Positions(d, "ASSISTANT", k)' = Positions(d, "ASSISTANT", k)
<1> DEFINE x == [role |-> "USER", of |-> k]
           s == conv[d].messages
<1>1. s \in Seq(Message) /\ conv'[d].messages = Append(s, x)
  BY StoresFields
<1>2. x \in Message /\ x # [role |-> "ASSISTANT", of |-> k]
  BY DEF Message
<1>3. conv[d].messages = s
  OBVIOUS
<1> HIDE DEF x, s
<1>4. /\ DOMAIN s = 1..Len(s) /\ DOMAIN Append(s, x) = 1..(Len(s) + 1)
      /\ Append(s, x)[Len(s) + 1] = x /\ Len(s) \in Nat
      /\ \A m \in 1..Len(s) : Append(s, x)[m] = s[m]
  BY <1>1, <1>2, Appended
<1>5. 1..(Len(s) + 1) = 1..Len(s) \cup {Len(s) + 1}
  BY <1>4
<1> QED BY <1>1, <1>2, <1>3, <1>4, <1>5 DEF Positions

LEMMA AnswerAppended ==
  ASSUME Typed, NEW k \in Chats, Stores(k, "ASSISTANT", "load"), chat[k].pc \in Inside,
         NEW d \in Conversations, d = chat[k].conv
  PROVE  /\ Len(conv[d].messages) + 1 \in Nat
         /\ Positions(d, "ASSISTANT", k)' =
              Positions(d, "ASSISTANT", k) \cup {Len(conv[d].messages) + 1}
         /\ Positions(d, "USER", k)' = Positions(d, "USER", k)
         /\ \A m \in DOMAIN conv[d].messages : m < Len(conv[d].messages) + 1
<1> DEFINE x == [role |-> "ASSISTANT", of |-> k]
           s == conv[d].messages
<1>1. s \in Seq(Message) /\ conv'[d].messages = Append(s, x)
  BY StoresFields
<1>2. /\ x \in Message /\ x = [role |-> "ASSISTANT", of |-> k]
      /\ x # [role |-> "USER", of |-> k]
  BY DEF Message
<1>3. conv[d].messages = s
  OBVIOUS
<1> HIDE DEF x, s
<1>4. /\ DOMAIN s = 1..Len(s) /\ DOMAIN Append(s, x) = 1..(Len(s) + 1)
      /\ Append(s, x)[Len(s) + 1] = x /\ Len(s) \in Nat
      /\ \A m \in 1..Len(s) : Append(s, x)[m] = s[m]
  BY <1>1, <1>2, Appended
<1>5. 1..(Len(s) + 1) = 1..Len(s) \cup {Len(s) + 1}
  BY <1>4
<1>6. Positions(d, "ASSISTANT", k)' =
        Positions(d, "ASSISTANT", k) \cup {Len(s) + 1}
  BY <1>1, <1>2, <1>3, <1>4, <1>5 DEF Positions
<1>7. Positions(d, "USER", k)' = Positions(d, "USER", k)
  BY <1>1, <1>2, <1>3, <1>4, <1>5 DEF Positions
<1>8. \A m \in DOMAIN s : m < Len(s) + 1
  BY <1>4
<1> QED BY <1>3, <1>4, <1>6, <1>7, <1>8

\* An answer stands after its question, as long as nobody came between them.
LEMMA ToldNext ==
  ASSUME Typed, Room, [Next]_vars, NEW k \in Chats, ChatStep(k),
         NEW c \in Conversations, NEW j \in Chats, Told(c, j), Voice(j)
  PROVE  Told(c, j)'
<1>1. Never({"overlap"})' => Never({"overlap"})
  BY Sparing DEF Disturbances
<1>2. j # k => chat'[j] = chat[j]
  BY MoveTyped
<1>3. ASSUME \A r : Positions(c, r, j)' = Positions(c, r, j),
             \/ Positions(c, "ASSISTANT", j) = {}
             \/ chat'[j].conv \in {chat[j].conv, None}
      PROVE  Told(c, j)'
  <2>1. ASSUME NEW n \in Positions(c, "ASSISTANT", j)'
        PROVE  /\ Positions(c, "ASSISTANT", j)' = {n}
               /\ chat'[j].conv \in {c, None}
               /\ \E m \in Positions(c, "USER", j)' :
                    m < n /\ (Never({"overlap"})' => m = n - 1)
    BY <1>1, <1>3, <2>1 DEF Told
  <2> QED BY <2>1 DEF Told
<1>4. ASSUME Mentions(c, j) = {}
      PROVE  \A r : Positions(c, r, j) = {}
  BY <1>4 DEF Mentions, Positions
<1>5. CASE \A d \in Conversations : conv'[d].messages = conv[d].messages
  <2>1. \A r : Positions(c, r, j)' = Positions(c, r, j)
    BY <1>5 DEF Positions
  <2>2. CASE chat'[j].conv \in {chat[j].conv, None}
    BY <1>3, <2>1, <2>2
  <2>3. CASE chat'[j].conv \notin {chat[j].conv, None}
    <3>1. j = k /\ (Begins(k) \/ Enters(k))
      BY <1>2, <2>3, QuitsFields, GoesFields, ReadsFields, LoadsFields, StoresFields,
         StepMoves DEF Inside, Waiting
    <3>2. chat[j].pc \in Asking \cup {"new"}
      BY <3>1, BeginsFields, EntersFields DEF Asking
    <3>3. Positions(c, "ASSISTANT", j) = {}
      BY <1>4, <3>2 DEF Voice
    <3> QED BY <1>3, <2>1, <3>3
  <2> QED BY <2>2, <2>3
<1>6. ASSUME NEW role \in {"USER", "ASSISTANT"}, NEW pc, Stores(k, role, pc),
             chat[k].pc \in Inside, j # k \/ c # chat[k].conv
      PROVE  Told(c, j)'
  <2>1. chat[k].conv \in Conversations /\ chat'[k].conv = chat[k].conv
    BY <1>6, StoresFields
  <2>2. chat'[j].conv = chat[j].conv
    BY <1>2, <2>1
  <2>3. CASE j # k
    <3>1. \A r : Positions(c, r, j)' = Positions(c, r, j)
      BY <1>6, <2>3, SaidByOther
    <3> QED BY <1>3, <2>2, <3>1
  <2>4. CASE c # chat[k].conv
    <3>1. conv'[c] = conv[c]
      BY <1>6, <2>4, StoresFields
    <3>2. \A r : Positions(c, r, j)' = Positions(c, r, j)
      BY <3>1 DEF Positions
    <3> QED BY <1>3, <2>2, <3>2
  <2> QED BY <1>6, <2>3, <2>4
<1>7. CASE chat[k].pc = "question" /\ Stores(k, "USER", "complete")
  <2>0. chat[k].pc \in Inside /\ chat[k].pc \in Asking
    BY <1>7 DEF Inside, Asking
  <2>1. CASE j # k \/ c # chat[k].conv
    BY <1>6, <1>7, <2>0, <2>1
  <2>2. CASE j = k /\ c = chat[k].conv
    <3>1. Positions(c, "ASSISTANT", k)' = Positions(c, "ASSISTANT", k)
      BY <1>7, <2>0, <2>2, QuestionAppended
    <3>2. Positions(c, "ASSISTANT", k) = {}
      BY <1>4, <2>0, <2>2 DEF Voice
    <3> QED BY <2>2, <3>1, <3>2 DEF Told
  <2> QED BY <2>1, <2>2
<1>8. CASE chat[k].pc = "answer" /\ Stores(k, "ASSISTANT", "load")
  <2>0. chat[k].pc \in Inside /\ chat[k].pc \in Waiting /\ chat[k].pc # "load"
    BY <1>8 DEF Inside, Waiting
  <2>1. CASE j # k \/ c # chat[k].conv
    BY <1>6, <1>8, <2>0, <2>1
  <2>2. CASE j = k /\ c = chat[k].conv
    <3> DEFINE n == Len(conv[c].messages) + 1
    <3>1. /\ n \in Nat
          /\ Positions(c, "ASSISTANT", k)' = Positions(c, "ASSISTANT", k) \cup {n}
          /\ Positions(c, "USER", k)' = Positions(c, "USER", k)
          /\ \A m \in DOMAIN conv[c].messages : m < n
      BY <1>8, <2>0, <2>2, AnswerAppended
    <3>2. \A m \in Mentions(c, k) : conv[c].messages[m].role = "USER"
      BY <2>0, <2>2 DEF Voice
    <3>3. Positions(c, "ASSISTANT", k) = {}
      BY <3>2 DEF Positions, Mentions
    <3>4. Positions(c, "ASSISTANT", k)' = {n}
      BY <3>1, <3>3
    <3>5. conv[c].st = "open"
      BY <1>8, <2>2 DEF Stores
    <3>6. conv[c].messages \in Seq(Message)
      BY <2>0, <2>2, Home
    <3>7. PICK m \in Mentions(c, k) : TRUE
      BY <2>0, <2>2, <3>5 DEF Voice
    <3>8. ASSUME NEW i \in Mentions(c, k)
          PROVE  i \in Positions(c, "USER", k) /\ i < n
      <4>1. conv[c].messages[i] \in Message /\ i \in DOMAIN conv[c].messages
        BY <3>6 DEF Mentions
      <4>2. conv[c].messages[i].role = "USER" /\ conv[c].messages[i].of = k
        BY <3>2 DEF Mentions
      <4> QED BY <3>1, <4>1, <4>2 DEF Positions, Message
    <3>9. ASSUME Never({"overlap"})
          PROVE  n - 1 \in Positions(c, "USER", k)
      <4>1. Ends(c, "USER", k)
        BY <2>0, <2>2, <3>5, <3>9 DEF Voice
      <4>2. n - 1 \in DOMAIN conv[c].messages /\ n - 1 = Len(conv[c].messages)
        BY <3>6, <4>1 DEF Ends
      <4> QED BY <4>1, <4>2 DEF Ends, Positions
    <3>10. \E i \in Positions(c, "USER", k)' :
             i < n /\ (Never({"overlap"})' => i = n - 1)
      <4>1. CASE Never({"overlap"})
        BY <3>1, <3>9, <4>1
      <4>2. CASE ~Never({"overlap"})
        BY <1>1, <3>1, <3>7, <3>8, <4>2
      <4> QED BY <4>1, <4>2
    <3>11. chat'[k].conv = c
      BY <1>8, <2>0, <2>2, StoresFields
    <3> HIDE DEF n
    <3> QED BY <2>2, <3>4, <3>10, <3>11 DEF Told
  <2> QED BY <2>1, <2>2
<1> QED BY <1>5, <1>7, <1>8, Says

\* What a chat returns is the last message of a conversation that it ends.
LEMMA ReturnsNext ==
  ASSUME Typed, Room, [Next]_vars, NEW k \in Chats, ChatStep(k),
         NEW j \in Chats, Returns(j), Voice(j)
  PROVE  Returns(j)'
<1>1. Never({"overlap"})' => Never({"overlap"})
  BY Sparing DEF Disturbances
<1>2. CASE j # k
  <2>1. chat'[j] = chat[j]
    BY <1>2, MoveTyped
  <2> QED BY <1>1, <2>1 DEF Returns
<1>3. CASE j = k /\ Loads(k)
  <2>1. /\ chat[k].pc = "load" /\ conv[chat[k].conv].st = "open"
        /\ chat'[k].answer =
             conv[chat[k].conv].messages[Len(conv[chat[k].conv].messages)]
    BY <1>3, LoadsFields
  <2>2. Never({"overlap"}) => Ends(chat[k].conv, "ASSISTANT", k)
    BY <1>3, <2>1 DEF Voice
  <2> QED BY <1>1, <1>3, <2>1, <2>2 DEF Returns, Ends
<1>4. CASE j = k /\ ~Loads(k)
  <2>1. chat'[k].answer \in {chat[k].answer, None}
    BY <1>4, BeginsFields, QuitsFields, GoesFields, EntersFields, ReadsFields,
       StoresFields, StepMoves DEF Inside, Waiting
  <2> QED BY <1>1, <1>4, <2>1 DEF Returns
<1> QED BY <1>2, <1>3, <1>4

-----------------------------------------------------------------------------
(* What a chat remembers of its conversation                               *)

\* Messages that are appended leave what a chat has read a prefix.
LEMMA RecallsGrow ==
  ASSUME NEW j \in Chats, Recalls(j), chat[j].pc \in {"question", "complete", "body"},
         chat'[j].conv = chat[j].conv, chat'[j].history = chat[j].history,
         NEW s \in Seq(Message), s = conv[chat[j].conv].messages,
         NEW t, t = conv'[chat[j].conv].messages,
         t = s \/ \E x \in Message : t = Append(s, x),
         Never({"delete"})' => Never({"delete"}),
         Never({"overlap"})' /\ chat'[j].pc = "question" =>
           Never({"overlap"}) /\ chat[j].pc = "question" /\ t = s
  PROVE  Recalls(j)'
<1>1. \A n \in DOMAIN chat[j].history : chat[j].history[n].of # j
  BY DEF Recalls
<1>2. ASSUME Never({"delete"})'
      PROVE  \E n \in 0..Len(t) :
               /\ chat[j].history = Latest(HistoryLimit, SubSeq(t, 1, n))
               /\ Never({"overlap"})' /\ chat'[j].pc = "question" => n = Len(t)
  <2>1. PICK n \in 0..Len(s) :
          /\ chat[j].history = Latest(HistoryLimit, SubSeq(s, 1, n))
          /\ Never({"overlap"}) /\ chat[j].pc = "question" => n = Len(s)
    BY <1>2 DEF Recalls
  <2>2. n \in 0..Len(t) /\ SubSeq(t, 1, n) = SubSeq(s, 1, n)
    <3>1. CASE t = s
      BY <3>1
    <3>2. CASE \E x \in Message : t = Append(s, x)
      <4>1. PICK x \in Message : t = Append(s, x)
        BY <3>2
      <4>2. n \in 0..Len(Append(s, x)) /\ SubSeq(Append(s, x), 1, n) = SubSeq(s, 1, n)
        BY Appended, Zenon
      <4> QED BY <4>1, <4>2, Zenon
    <3> QED BY <3>1, <3>2
  <2> QED BY <2>1, <2>2
<1> QED BY <1>1, <1>2 DEF Recalls

LEMMA ReadsRecalls ==
  ASSUME Typed, NEW k \in Chats, Reads(k), Voice(k)
  PROVE  Recalls(k)'
<1>1. /\ chat[k].pc = "history" /\ UNCHANGED conv
      /\ chat'[k].pc = "question" /\ chat'[k].conv = chat[k].conv
      /\ chat'[k].history = History(chat[k].conv)
  BY ReadsFields
<1>2. chat[k].conv \in Conversations /\ conv[chat[k].conv].messages \in Seq(Message)
  BY <1>1, Home DEF Inside
<1> DEFINE s == conv[chat[k].conv].messages
<1>3. Mentions(chat[k].conv, k) = {}
  BY <1>1, <1>2 DEF Voice, Asking
<1>4. \A n \in DOMAIN s : s[n].of # k
  BY <1>3 DEF Mentions
<1>5. chat'[k].history = Latest(HistoryLimit, s)
  BY <1>1 DEF History
<1>6. s \in Seq(Message) /\ Len(s) \in Nat
  BY <1>2
<1>7. SubSeq(s, 1, Len(s)) = s
  BY <1>6, SubSeqFull
<1>8. conv'[chat'[k].conv].messages = s
  BY <1>1
<1> HIDE DEF s
<1>9. \A n \in DOMAIN Latest(HistoryLimit, s) : Latest(HistoryLimit, s)[n].of # k
  BY <1>4, <1>6, LatestTyped
<1>10. \E n \in 0..Len(s) :
         /\ chat'[k].history = Latest(HistoryLimit, SubSeq(s, 1, n))
         /\ n = Len(s)
  <2>1. chat'[k].history = Latest(HistoryLimit, SubSeq(s, 1, Len(s)))
    BY <1>5, <1>7
  <2> QED BY <1>6, <2>1
<1> QED BY <1>5, <1>8, <1>9, <1>10 DEF Recalls

LEMMA RecallsNext ==
  ASSUME Typed, Room, Turns, [Next]_vars, NEW k \in Chats, ChatStep(k),
         NEW j \in Chats, Recalls(j), Voice(j)
  PROVE  Recalls(j)'
<1> DEFINE Prompted == {"question", "complete", "body"}
           s == conv[chat[j].conv].messages
           t == conv'[chat[j].conv].messages
<1>1. /\ Never({"overlap"})' => Never({"overlap"})
      /\ Never({"delete"})' => Never({"delete"})
  BY Sparing DEF Disturbances
<1>2. CASE chat'[j].pc \notin Prompted
  BY <1>2 DEF Recalls
<1>3. ASSUME chat[j].pc \in Prompted, chat'[j].conv = chat[j].conv,
             chat'[j].history = chat[j].history,
             t = s \/ \E x \in Message : t = Append(s, x),
             Never({"overlap"})' /\ chat'[j].pc = "question" =>
               chat[j].pc = "question" /\ t = s
      PROVE  Recalls(j)'
  <2>1. s \in Seq(Message)
    BY <1>3, Home DEF Inside, Waiting
  <2> QED BY <1>1, <1>3, <2>1, RecallsGrow
<1>4. CASE j # k /\ chat'[j].pc \in Prompted
  <2>1. chat'[j] = chat[j]
    BY <1>4, MoveTyped
  <2>2. chat[j].conv \in Conversations /\ chat[j].pc \in Inside
    BY <1>4, <2>1, Home DEF Inside, Waiting
  <2>3. CASE \A c \in Conversations : conv'[c].messages = conv[c].messages
    BY <1>3, <1>4, <2>1, <2>2, <2>3
  <2>4. ASSUME NEW role \in {"USER", "ASSISTANT"}, NEW pc, Stores(k, role, pc),
               chat[k].pc \in {"question", "answer"}
        PROVE  Recalls(j)'
    <3>1. chat[k].pc \in Inside
      BY <2>4 DEF Inside, Waiting
    <3>2. CASE chat[k].conv = chat[j].conv
      <4>1. ~Never({"overlap"})
        BY <1>4, <2>2, <3>1, <3>2, Alone
      <4>2. t = Append(s, [role |-> role, of |-> k])
        BY <2>4, <3>1, <3>2, StoredMessage
      <4>3. [role |-> role, of |-> k] \in Message
        BY DEF Message
      <4> QED BY <1>1, <1>3, <1>4, <2>1, <4>1, <4>2, <4>3
    <3>3. CASE chat[k].conv # chat[j].conv
      <4>1. t = s
        BY <2>2, <2>4, <3>1, <3>3, StoresFields
      <4> QED BY <1>3, <1>4, <2>1, <4>1
    <3> QED BY <3>2, <3>3
  <2> QED BY <2>3, <2>4, Says
<1>5. CASE j = k /\ chat'[j].pc \in Prompted
  <2>1. CASE Begins(k) \/ Quits(k) \/ Loads(k) \/ Enters(k)
    BY <1>5, <2>1, BeginsFields, QuitsFields, LoadsFields, EntersFields
  <2>2. CASE Goes(k)
    <3>1. /\ UNCHANGED conv
          /\ chat'[k].conv = chat[k].conv /\ chat'[k].history = chat[k].history
      BY <2>2, GoesFields
    <3>2. chat[k].pc = "complete" /\ chat'[k].pc = "body"
      BY <1>5, <2>2 DEF Goes, Asking
    <3> QED BY <1>3, <1>5, <3>1, <3>2
  <2>3. CASE Reads(k)
    BY <1>5, <2>3, ReadsRecalls
  <2>4. CASE chat[k].pc = "question" /\ Stores(k, "USER", "complete")
    <3>1. chat[k].pc \in Inside
      BY <2>4 DEF Inside
    <3>2. /\ chat'[k].pc = "complete"
          /\ chat'[k].conv = chat[k].conv /\ chat'[k].history = chat[k].history
          /\ conv'[chat[k].conv].messages =
               Append(conv[chat[k].conv].messages, [role |-> "USER", of |-> k])
      BY <2>4, <3>1, StoresFields
    <3>3. [role |-> "USER", of |-> k] \in Message
      BY DEF Message
    <3> QED BY <1>3, <1>5, <2>4, <3>2, <3>3
  <2>5. CASE chat[k].pc = "answer" /\ Stores(k, "ASSISTANT", "load")
    <3>1. chat[k].pc \in Inside
      BY <2>5 DEF Inside, Waiting
    <3>2. chat'[k].pc = "load"
      BY <2>5, <3>1, Stored
    <3> QED BY <1>5, <3>2
  <2> QED BY <2>1, <2>2, <2>3, <2>4, <2>5, StepMoves
<1> QED BY <1>2, <1>4, <1>5

-----------------------------------------------------------------------------
(* The invariant is kept                                                   *)

\* A conversation that is deleted takes every trace of its chats with it.
LEMMA SpokenDelete ==
  ASSUME Typed, Spoken, [Next]_vars, NEW c \in Conversations, Delete(c)
  PROVE  /\ \A k \in Chats : Voice(k)' /\ Returns(k)' /\ Recalls(k)'
         /\ \A d \in Conversations, k \in Chats : Told(d, k)'
<1>1. /\ chat' = chat /\ used'["delete"] # 0
      /\ conv'[c].st = "deleted" /\ conv'[c].messages = <<>>
      /\ \A d \in Conversations \ {c} : conv'[d] = conv[d]
  BY DeleteEffect
<1>2. Never({"overlap"})' => Never({"overlap"})
  BY Sparing DEF Disturbances
<1>3. ~Never({"delete"})'
  BY <1>1 DEF Never
<1>4. ASSUME NEW k \in Chats
      PROVE  /\ Mentions(c, k)' = {} /\ \A r : Positions(c, r, k)' = {}
             /\ \A d \in Conversations \ {c} :
                  /\ Mentions(d, k)' = Mentions(d, k)
                  /\ \A r : Positions(d, r, k)' = Positions(d, r, k)
  <2>1. Mentions(c, k)' = {}
    BY <1>1 DEF Mentions
  <2>2. \A r : Positions(c, r, k)' = {}
    BY <1>1 DEF Positions
  <2> QED BY <1>1, <2>1, <2>2 DEF Mentions, Positions
<1>5. ASSUME NEW k \in Chats
      PROVE  Voice(k)'
  <2>1. Voice(k)
    BY DEF Spoken
  <2>2. chat[k].pc \in Asking \cup {"new"} =>
          \A d \in Conversations : Mentions(d, k)' = {}
    BY <1>4, <2>1 DEF Voice
  <2>3. chat[k].pc \in Waiting \cup {"load"} => chat[k].conv \in Conversations
    BY Home DEF Inside
  <2>4. chat[k].pc \in Waiting =>
          \A d \in Conversations : \A n \in Mentions(d, k)' :
            d = chat[k].conv /\ conv'[d].messages[n].role = "USER"
    BY <1>1, <1>4, <2>1 DEF Voice
  <2>5. CASE chat[k].conv = c
    BY <1>1, <2>2, <2>4, <2>5 DEF Voice
  <2>6. CASE chat[k].conv # c
    <3>1. chat[k].pc \in Waiting \cup {"load"} =>
            /\ conv'[chat[k].conv] = conv[chat[k].conv]
            /\ Mentions(chat[k].conv, k)' = Mentions(chat[k].conv, k)
      BY <1>1, <1>4, <2>3, <2>6
    <3>2. chat[k].pc \in Waiting /\ conv'[chat[k].conv].st = "open" =>
            Mentions(chat[k].conv, k)' # {}
      BY <2>1, <3>1 DEF Voice
    <3>3. chat[k].pc \in Waiting \cup {"load"} /\ Never({"overlap"})' =>
            \/ conv'[chat[k].conv].st # "open"
            \/ Ends(chat[k].conv, IF chat[k].pc = "load" THEN "ASSISTANT" ELSE "USER", k)'
      BY <1>1, <1>2, <2>1, <3>1 DEF Voice, Ends
    <3> QED BY <1>1, <2>2, <2>4, <3>2, <3>3 DEF Voice, Ends, Mentions
  <2> QED BY <2>5, <2>6
<1>6. ASSUME NEW k \in Chats
      PROVE  Returns(k)'
  BY <1>1, <1>2 DEF Spoken, Returns
<1>7. ASSUME NEW k \in Chats
      PROVE  Recalls(k)'
  BY <1>1, <1>3 DEF Spoken, Recalls
<1>8. ASSUME NEW d \in Conversations, NEW k \in Chats
      PROVE  Told(d, k)'
  <2>1. CASE d = c
    BY <1>4, <2>1 DEF Told
  <2>2. CASE d # c
    <3>1. \A r : Positions(d, r, k)' = Positions(d, r, k)
      BY <1>4, <2>2
    <3>2. Told(d, k)
      BY DEF Spoken
    <3> QED BY <1>1, <1>2, <3>1, <3>2 DEF Told
  <2> QED BY <2>1, <2>2
<1> QED BY <1>5, <1>6, <1>7, <1>8

LEMMA SpokenNext ==
  ASSUME Typed, Room, Spoken, [Next]_vars
  PROVE  Spoken'
<1>1. Turns'
  BY TurnsNext DEF Spoken
<1>2. ASSUME NEW k \in Chats, ChatStep(k)
      PROVE  Spoken'
  <2>1. ASSUME NEW j \in Chats
        PROVE  Voice(j)'
    <3>1. Voice(j) /\ Turns
      BY DEF Spoken
    <3> QED BY <1>2, <3>1, VoiceOther, VoiceSelf
  <2>2. ASSUME NEW j \in Chats
        PROVE  Returns(j)' /\ Recalls(j)'
    <3>1. Voice(j) /\ Turns /\ Returns(j) /\ Recalls(j)
      BY DEF Spoken
    <3> QED BY <1>2, <3>1, ReturnsNext, RecallsNext
  <2>3. ASSUME NEW c \in Conversations, NEW j \in Chats
        PROVE  Told(c, j)'
    <3>1. Voice(j) /\ Told(c, j)
      BY DEF Spoken
    <3> QED BY <1>2, <3>1, ToldNext
  <2> QED BY <1>1, <2>1, <2>2, <2>3 DEF Spoken
<1>3. ASSUME Aside
      PROVE  Spoken'
  <2>1. /\ conv' = conv /\ chat' = chat
        /\ Never({"overlap"})' => Never({"overlap"})
        /\ Never({"delete"})' => Never({"delete"})
    BY <1>3 DEF Aside, Never, Disturbances
  <2>2. \A c, k : /\ Mentions(c, k)' = Mentions(c, k)
                  /\ \A r : /\ Positions(c, r, k)' = Positions(c, r, k)
                            /\ Ends(c, r, k)' = Ends(c, r, k)
    BY <2>1 DEF Mentions, Positions, Ends
  <2>3. \A k \in Chats : Voice(k)'
    BY <2>1 DEF Spoken, Voice, Mentions, Ends
  <2>4. \A k \in Chats : Returns(k)' /\ Recalls(k)'
    BY <2>1 DEF Spoken, Returns, Recalls
  <2>5. \A c \in Conversations, k \in Chats : Told(c, k)'
    BY <2>1, <2>2 DEF Spoken, Told
  <2> QED BY <1>1, <2>3, <2>4, <2>5 DEF Spoken
<1>4. ASSUME NEW c \in Conversations, Delete(c)
      PROVE  Spoken'
  <2>1. /\ \A k \in Chats : Voice(k)' /\ Returns(k)' /\ Recalls(k)'
        /\ \A d \in Conversations, k \in Chats : Told(d, k)'
    BY <1>4, SpokenDelete
  <2> QED BY <1>1, <2>1 DEF Spoken
<1> QED BY <1>2, <1>3, <1>4, StepKinds

LEMMA Initial ==
  ASSUME Init
  PROVE  IInv
<1> DEFINE no == FALSE
           nothing == <<>>
           N == Row("new", None, None, 0, 0, no, nothing, nothing, None)
<1>1. nothing \in Seq(Message) /\ no \in BOOLEAN
  OBVIOUS
<1>2. New = N
  BY Zenon DEF New, Row
<1> HIDE DEF no, nothing
<1>3. /\ N.pc = "new" /\ N.repo = None /\ N.conv = None /\ N.minute = 0
      /\ N.history = nothing /\ N.answer = None
  BY DEF Row
<1>4. \A k \in Chats :
        /\ chat[k] = N /\ chat[k].pc = "new" /\ chat[k].conv = None
        /\ chat[k].minute = 0 /\ chat[k].answer = None
  BY <1>2, <1>3 DEF Init
<1>5. ASSUME NEW k \in Chats
      PROVE  chat[k] \in ChatRow(k) /\ Stage(k)
  <2>1. "new" \in Steps
    BY DEF Steps
  <2>2. chat[k] \in ChatRow(k)
    BY <1>1, <1>4, <2>1 DEF ChatRow, Row
  <2>3. Stage(k)
    BY <1>4 DEF Stage, Inside, Waiting
  <2> QED BY <2>2, <2>3
<1>7. /\ Messages(Earlier) \in Seq(Message)
      /\ DOMAIN Messages(Earlier) = 1..2
      /\ \A n \in 1..2 : Messages(Earlier)[n].of = Earlier
  BY DEF Messages, Message
<1>8. /\ conv \in [Conversations -> ConversationRows]
      /\ \A c \in Conversations :
           /\ conv[c].st # "open" => conv[c].messages = <<>>
           /\ \A n \in DOMAIN conv[c].messages : conv[c].messages[n].of = Earlier
  <2> DEFINE O == [st |-> "open", repo |-> Scanned, messages |-> Messages(Earlier)]
  <2>1. /\ NoConversation \in ConversationRows /\ NoConversation.st = "absent"
        /\ NoConversation.messages = <<>>
    BY DEF NoConversation, ConversationRows
  <2>2. O \in ConversationRows /\ O.st = "open" /\ O.messages = Messages(Earlier)
    BY <1>7, ScannedAssumption DEF ConversationRows
  <2>3. conv = [c \in Conversations |-> IF c = Opened THEN O ELSE NoConversation]
    BY DEF Init
  <2> HIDE DEF O
  <2>4. ASSUME NEW c \in Conversations
        PROVE  /\ conv[c].st # "open" => conv[c].messages = <<>>
               /\ \A n \in DOMAIN conv[c].messages : conv[c].messages[n].of = Earlier
    <3>1. CASE c = Opened
      BY <1>7, <2>2, <2>3, <3>1
    <3>2. CASE c # Opened
      <4>1. conv[c].messages = <<>>
        BY <2>1, <2>3, <3>2
      <4> QED BY <4>1
    <3> QED BY <3>1, <3>2
  <2> QED BY <2>1, <2>2, <2>3, <2>4
<1>9. /\ key \in [1..Windows -> [count : Nat, expires : BOOLEAN]]
      /\ \A w \in 1..Windows :
           /\ key[w].count = IF w = 1 THEN 1 ELSE 0
           /\ w = 1 => key[w].expires
  <2> DEFINE K == [count |-> 0, expires |-> no]
             L == [count |-> 1, expires |-> TRUE]
  <2>1. NoKey = K
    BY DEF NoKey, no
  <2>2. K \in [count : Nat, expires : BOOLEAN] /\ K.count = 0
    BY <1>1
  <2>3. L \in [count : Nat, expires : BOOLEAN] /\ L.count = 1 /\ L.expires
    OBVIOUS
  <2>4. key = [w \in 1..Windows |-> IF w = 1 THEN L ELSE K]
    BY <2>1 DEF Init
  <2> HIDE DEF K, L
  <2> QED BY <2>2, <2>3, <2>4
<1>10. Typed
  <2>1. minute \in 1..Windows
    BY BoundsAssumption DEF Init
  <2>2. used \in [Disturbances -> Nat] /\ \A d \in Disturbances : used[d] <= Limit[d]
    BY LimitAssumption DEF Init
  <2>3. chat = [k \in Chats |-> chat[k]]
    BY DEF Init
  <2> QED BY <1>5, <1>8, <1>9, <2>1, <2>2, <2>3 DEF Typed
<1>11. Room
  <2>1. Under(None) = {}
    BY <1>4 DEF Under, Active
  <2>2. Free \subseteq Conversations
    BY DEF Free
  <2>3. IsFiniteSet(Free)
    BY <2>2, ConversationsAssumption, FS_Subset
  <2> QED BY <2>1, <2>3, FS_EmptySet, FS_CardinalityType DEF Room
<1>12. Limited
  <2> SUFFICES ASSUME NEW w \in 1..Windows
               PROVE  Counted(w) /\ Expires(w)
    BY DEF Limited
  <2>1. Let(w) = {}
    BY <1>4, LetMembers
  <2>2. Counted(w)
    BY <1>9, <2>1, FS_EmptySet, BoundsAssumption DEF Counted
  <2>3. Expires(w)
    BY <1>9 DEF Expires
  <2> QED BY <2>2, <2>3
<1>13. Spoken
  <2>1. ASSUME NEW c \in Conversations, NEW k \in Chats
        PROVE  Mentions(c, k) = {} /\ Told(c, k)
    <3>1. Mentions(c, k) = {}
      BY <1>8, EarlierAssumption DEF Mentions
    <3>2. \A r : Positions(c, r, k) = {}
      BY <3>1 DEF Mentions, Positions
    <3> QED BY <3>1, <3>2 DEF Told
  <2>2. \A k \in Chats : Voice(k) /\ Returns(k) /\ Recalls(k)
    BY <1>4, <2>1 DEF Voice, Returns, Recalls, Waiting
  <2>3. Turns
    BY <1>4 DEF Turns, Under, Active
  <2> QED BY <2>1, <2>2, <2>3 DEF Spoken
<1> QED BY <1>10, <1>11, <1>12, <1>13 DEF IInv

LEMMA Inductive ==
  ASSUME IInv, [Next]_vars
  PROVE  IInv'
BY TypedNext, RoomNext, LimitedNext, SpokenNext DEF IInv

\* The inductive invariant holds for every number of chats, conversations,
\* windows and disturbances.
THEOREM Always == Spec => []IInv
<1>1. Init => IInv
  BY Initial
<1>2. IInv /\ [Next]_vars => IInv'
  BY Inductive
<1> QED BY <1>1, <1>2, PTL DEF Spec

-----------------------------------------------------------------------------
(* Induction.  The theorems of NaturalsInduction are about an operator;    *)
(* this one is about a set, and a proof by induction defines the set of    *)
(* the numbers that have the property.                                     *)

LEMMA Induction ==
  ASSUME NEW S, 0 \in S, \A n \in Nat : n \in S => n + 1 \in S
  PROVE  \A n \in Nat : n \in S
<1> DEFINE T == Nat \ S
           R == OpToRel(<, Nat)
<1>1. IsWellFoundedOn(R, Nat)
  BY NatLessThanWellFounded, Zenon DEF OpToRel
<1>2. SUFFICES ASSUME T # {} PROVE FALSE
  OBVIOUS
<1>3. T \subseteq Nat
  OBVIOUS
<1> HIDE DEF T, R
<1>4. PICK x \in T : \A y \in T : <<y, x>> \notin R
  BY <1>1, <1>2, <1>3, WFMin
<1>5. x \in Nat /\ x # 0 /\ x - 1 \in T
  BY <1>4 DEF T
<1>6. <<x - 1, x>> \in R
  BY <1>5, <1>3 DEF R, OpToRel
<1> QED BY <1>4, <1>5, <1>6

LEMMA GreatestOf ==
  ASSUME NEW n \in Nat, NEW S \in SUBSET (0..n), S # {}
  PROVE  \E m \in S : \A l \in S : l <= m
<1> DEFINE Z == {k \in Nat : \A T \in SUBSET (0..k) :
                   T # {} => \E m \in T : \A l \in T : l <= m}
<1>1. 0 \in Z
  <2>1. ASSUME NEW T \in SUBSET (0..0), T # {}
        PROVE  \E m \in T : \A l \in T : l <= m
    <3>1. PICK m \in T : TRUE
      BY <2>1
    <3>2. \A l \in T : l = 0
      OBVIOUS
    <3> QED BY <3>1, <3>2
  <2> QED BY <2>1
<1>2. ASSUME NEW k \in Nat, k \in Z
      PROVE  k + 1 \in Z
  <2>1. ASSUME NEW T \in SUBSET (0..(k + 1)), T # {}
        PROVE  \E m \in T : \A l \in T : l <= m
    <3>1. CASE k + 1 \in T
      BY <3>1
    <3>2. CASE k + 1 \notin T
      BY <1>2, <2>1, <3>2
    <3> QED BY <3>1, <3>2
  <2> QED BY <2>1
<1> HIDE DEF Z
<1>3. n \in Z
  BY <1>1, <1>2, Induction
<1> QED BY <1>3 DEF Z

-----------------------------------------------------------------------------
(* Filtering                                                               *)

\* The body of the function in Among.
Kept(rows, S, f, n) ==
  IF n = 0 THEN <<>>
  ELSE IF rows[n] \in S THEN Append(f[n - 1], rows[n]) ELSE f[n - 1]

LEMMA KeptExists ==
  ASSUME NEW rows, NEW S, NEW m \in Nat
  PROVE  \E f : f = [n \in 0..m |-> Kept(rows, S, f, n)]
<1> DEFINE Z == {k \in Nat : \E f : f = [n \in 0..k |-> Kept(rows, S, f, n)]}
<1>1. 0 \in Z
  <2> DEFINE f == [n \in 0..0 |-> <<>>]
  <2>1. f = [n \in 0..0 |-> Kept(rows, S, f, n)]
    BY DEF Kept
  <2> QED BY <2>1
<1>2. ASSUME NEW k \in Nat, k \in Z
      PROVE  k + 1 \in Z
  <2>1. PICK f : f = [n \in 0..k |-> Kept(rows, S, f, n)]
    BY <1>2
  <2> DEFINE g == [n \in 0..(k + 1) |->
                     IF n = k + 1 THEN Kept(rows, S, f, n) ELSE f[n]]
  <2>2. ASSUME NEW n \in 0..(k + 1)
        PROVE  g[n] = Kept(rows, S, g, n)
    <3>1. CASE n = k + 1
      <4>1. g[n - 1] = f[n - 1]
        BY <3>1
      <4> QED BY <3>1, <4>1 DEF Kept
    <3>2. CASE n # k + 1
      <4>1. n \in 0..k /\ f[n] = Kept(rows, S, f, n)
        BY <2>1, <3>2
      <4>2. n # 0 => g[n - 1] = f[n - 1]
        BY <4>1
      <4> QED BY <4>1, <4>2 DEF Kept
    <3> QED BY <3>1, <3>2
  <2>3. g = [n \in 0..(k + 1) |-> Kept(rows, S, g, n)]
    BY <2>2, Zenon
  <2> HIDE DEF g
  <2>4. \E h : h = [n \in 0..(k + 1) |-> Kept(rows, S, h, n)]
    BY <2>3
  <2> QED BY <2>4
<1> HIDE DEF Z
<1>3. m \in Z
  BY <1>1, <1>2, Induction
<1> QED BY <1>3 DEF Z

LEMMA AmongEquation ==
  ASSUME NEW rows, Len(rows) \in Nat, NEW S
  PROVE  \E f : /\ f = [n \in 0..Len(rows) |-> Kept(rows, S, f, n)]
                /\ Among(rows, S) = f[Len(rows)]
<1> DEFINE f == CHOOSE f : f = [n \in 0..Len(rows) |-> Kept(rows, S, f, n)]
<1>1. f = [n \in 0..Len(rows) |-> Kept(rows, S, f, n)]
  BY KeptExists
<1>2. Among(rows, S) = f[Len(rows)]
  BY DEF Among, Kept
<1> HIDE DEF f
<1> QED BY <1>1, <1>2

LEMMA AppendOnce ==
  ASSUME NEW X, NEW s \in Seq(X), IsInjective(s), NEW x, x \notin Range(s)
  PROVE  IsInjective(Append(s, x))
<1> DEFINE t == Append(s, x)
<1>1. /\ DOMAIN t = 1..(Len(s) + 1)
      /\ \A i \in 1..Len(s) : t[i] = s[i]
      /\ t[Len(s) + 1] = x
      /\ DOMAIN s = 1..Len(s)
  OBVIOUS
<1>2. \A i \in 1..Len(s) : s[i] # x
  BY <1>1 DEF Range
<1>3. \A i, j \in 1..Len(s) : s[i] = s[j] => i = j
  BY <1>1 DEF IsInjective
<1>4. Len(s) \in Nat
  OBVIOUS
<1> HIDE DEF t
<1>5. \A i, j \in 1..(Len(s) + 1) : t[i] = t[j] => i = j
  BY <1>1, <1>2, <1>3, <1>4
<1>6. IsInjective(t)
  BY <1>1, <1>5, Zenon DEF IsInjective
<1> QED BY <1>6 DEF t

LEMMA AppendRange ==
  ASSUME NEW X, NEW s \in Seq(X), NEW x
  PROVE  Range(Append(s, x)) = Range(s) \cup {x}
<1>1. /\ DOMAIN Append(s, x) = 1..(Len(s) + 1)
      /\ \A i \in 1..Len(s) : Append(s, x)[i] = s[i]
      /\ Append(s, x)[Len(s) + 1] = x
      /\ DOMAIN s = 1..Len(s)
  OBVIOUS
<1> QED BY <1>1 DEF Range

\* A filter returns the rows that are in the set, each as often as it was there.
LEMMA AmongMembers ==
  ASSUME NEW X, NEW rows \in Seq(X), NEW S
  PROVE  LET kept == Among(rows, S) IN
         /\ kept \in Seq(Range(rows) \cap S)
         /\ Range(kept) = Range(rows) \cap S
         /\ IsInjective(rows) => IsInjective(kept)
<1>1. PICK f : /\ f = [n \in 0..Len(rows) |-> Kept(rows, S, f, n)]
               /\ Among(rows, S) = f[Len(rows)]
  BY AmongEquation
<1> DEFINE First(n) == {rows[i] : i \in 1..n}
           Good(n) == /\ f[n] \in Seq(First(n) \cap S)
                      /\ Range(f[n]) = First(n) \cap S
                      /\ IsInjective(rows) => IsInjective(f[n])
           Z == {n \in Nat : n <= Len(rows) => Good(n)}
<1>2. 0 \in Z
  <2>1. f[0] = <<>>
    BY <1>1 DEF Kept
  <2>2. First(0) = {}
    OBVIOUS
  <2>3. Good(0)
    BY <2>1, <2>2 DEF Range, IsInjective
  <2> QED BY <2>3
<1>3. ASSUME NEW n \in Nat, n \in Z
      PROVE  n + 1 \in Z
  <2> SUFFICES ASSUME n + 1 <= Len(rows) PROVE Good(n + 1)
    OBVIOUS
  <2>1. f[n + 1] = IF rows[n + 1] \in S THEN Append(f[n], rows[n + 1]) ELSE f[n]
    <3>1. n + 1 \in 0..Len(rows) /\ n + 1 # 0 /\ (n + 1) - 1 = n
      OBVIOUS
    <3>2. f[n + 1] = Kept(rows, S, f, n + 1)
      BY <1>1, <3>1
    <3> QED BY <3>1, <3>2 DEF Kept
  <2>2. Good(n)
    BY <1>3
  <2>3. First(n + 1) = First(n) \cup {rows[n + 1]}
    <3>1. 1..(n + 1) = 1..n \cup {n + 1}
      OBVIOUS
    <3> QED BY <3>1
  <2>4. IsInjective(rows) => rows[n + 1] \notin First(n)
    BY DEF IsInjective
  <2> HIDE DEF First
  <2>5. CASE rows[n + 1] \in S
    <3>1. f[n] \in Seq(First(n + 1) \cap S)
      BY <2>2, <2>3
    <3>2. Append(f[n], rows[n + 1]) \in Seq(First(n + 1) \cap S)
      BY <3>1, <2>3, <2>5
    <3>3. Range(Append(f[n], rows[n + 1])) = Range(f[n]) \cup {rows[n + 1]}
      BY <3>1, AppendRange, Zenon
    <3>4. IsInjective(rows) => IsInjective(Append(f[n], rows[n + 1]))
      <4> SUFFICES ASSUME IsInjective(rows)
                   PROVE  IsInjective(Append(f[n], rows[n + 1]))
        OBVIOUS
      <4>1. IsInjective(f[n]) /\ rows[n + 1] \notin Range(f[n])
        BY <2>2, <2>4
      <4> QED BY <3>1, <4>1, AppendOnce
    <3>5. First(n + 1) \cap S = (First(n) \cap S) \cup {rows[n + 1]}
      BY <2>3, <2>5
    <3>6. f[n + 1] = Append(f[n], rows[n + 1])
      BY <2>1, <2>5
    <3>7. Range(f[n + 1]) = First(n + 1) \cap S
      BY <2>2, <3>3, <3>5, <3>6
    <3>8. f[n + 1] \in Seq(First(n + 1) \cap S)
      BY <3>2, <3>6, Zenon
    <3>9. IsInjective(rows) => IsInjective(f[n + 1])
      BY <3>4, <3>6
    <3> QED BY <3>7, <3>8, <3>9
  <2>6. CASE rows[n + 1] \notin S
    <3>1. First(n + 1) \cap S = First(n) \cap S
      BY <2>3, <2>6
    <3> QED BY <2>1, <2>2, <2>6, <3>1, Zenon
  <2> QED BY <2>5, <2>6
<1> HIDE DEF Z
<1>4. Len(rows) \in Z
  BY <1>2, <1>3, Induction
<1>5. Good(Len(rows))
  BY <1>4 DEF Z
<1>6. First(Len(rows)) = Range(rows)
  BY DEF Range
<1> HIDE DEF First
<1> QED BY <1>1, <1>5, <1>6

\* AtMost returns the first rows.
LEMMA FirstOnes ==
  ASSUME NEW X, NEW rows \in Seq(X), NEW n \in Nat
  PROVE  LET first == AtMost(n, rows)
             m == IF n < Len(rows) THEN n ELSE Len(rows) IN
         /\ first \in Seq(X)
         /\ Len(first) = m
         /\ \A i \in 1..m : first[i] = rows[i]
         /\ Range(first) \subseteq Range(rows)
         /\ IsInjective(rows) => IsInjective(first)
         /\ n >= Len(rows) => first = rows
<1> DEFINE m == IF n < Len(rows) THEN n ELSE Len(rows)
           first == AtMost(n, rows)
<1>1. m \in Nat /\ m <= Len(rows) /\ Len(rows) \in Nat
  OBVIOUS
<1>2. first = SubSeq(rows, 1, m)
  BY DEF AtMost
<1> HIDE DEF m, first
<1>3. /\ first \in Seq(X) /\ Len(first) = m
      /\ \A i \in 1..m : first[i] = rows[i]
  <2>1. \A i \in 1..m : rows[i] \in X
    BY <1>1
  <2> QED BY <1>1, <1>2, <2>1, SubSeqProperties
<1>4. DOMAIN first = 1..m /\ DOMAIN rows = 1..Len(rows)
  BY <1>3
<1>5. Range(first) \subseteq Range(rows)
  BY <1>1, <1>3, <1>4 DEF Range
<1>6. IsInjective(rows) => IsInjective(first)
  BY <1>1, <1>3, <1>4 DEF IsInjective
<1>7. n >= Len(rows) => first = rows
  <2> SUFFICES ASSUME n >= Len(rows) PROVE first = rows
    OBVIOUS
  <2>1. m = Len(rows)
    BY DEF m
  <2> QED BY <1>3, <2>1, SeqEqual
<1> QED BY <1>3, <1>5, <1>6, <1>7 DEF m, first

-----------------------------------------------------------------------------
(* Ranking                                                                 *)

\* The body of the function in Rank.
Ranked(items, f, n) ==
  IF n = 0 THEN <<>>
  ELSE f[n - 1] \o Among(items, WithScore(items, MaxScore + 1 - n))

LEMMA RankedExists ==
  ASSUME NEW items, NEW m \in Nat
  PROVE  \E f : f = [n \in 0..m |-> Ranked(items, f, n)]
<1> DEFINE Z == {k \in Nat : \E f : f = [n \in 0..k |-> Ranked(items, f, n)]}
<1>1. 0 \in Z
  <2> DEFINE f == [n \in 0..0 |-> <<>>]
  <2>1. f = [n \in 0..0 |-> Ranked(items, f, n)]
    BY DEF Ranked
  <2> QED BY <2>1
<1>2. ASSUME NEW k \in Nat, k \in Z
      PROVE  k + 1 \in Z
  <2>1. PICK f : f = [n \in 0..k |-> Ranked(items, f, n)]
    BY <1>2
  <2> DEFINE g == [n \in 0..(k + 1) |->
                     IF n = k + 1 THEN Ranked(items, f, n) ELSE f[n]]
  <2>2. ASSUME NEW n \in 0..(k + 1)
        PROVE  g[n] = Ranked(items, g, n)
    <3>1. CASE n = k + 1
      <4>1. g[n - 1] = f[n - 1]
        BY <3>1
      <4> QED BY <3>1, <4>1 DEF Ranked
    <3>2. CASE n # k + 1
      <4>1. n \in 0..k /\ f[n] = Ranked(items, f, n)
        BY <2>1, <3>2
      <4>2. n # 0 => g[n - 1] = f[n - 1]
        BY <4>1
      <4> QED BY <4>1, <4>2 DEF Ranked
    <3> QED BY <3>1, <3>2
  <2>3. g = [n \in 0..(k + 1) |-> Ranked(items, g, n)]
    BY <2>2, Zenon
  <2> HIDE DEF g
  <2>4. \E h : h = [n \in 0..(k + 1) |-> Ranked(items, h, n)]
    BY <2>3
  <2> QED BY <2>4
<1> HIDE DEF Z
<1>3. m \in Z
  BY <1>1, <1>2, Induction
<1> QED BY <1>3 DEF Z

LEMMA RankEquation ==
  ASSUME NEW items
  PROVE  \E f : /\ f = [n \in 0..(MaxScore + 1) |-> Ranked(items, f, n)]
                /\ Rank(items) = f[MaxScore + 1]
<1> DEFINE f == CHOOSE f : f = [n \in 0..(MaxScore + 1) |-> Ranked(items, f, n)]
<1>1. f = [n \in 0..(MaxScore + 1) |-> Ranked(items, f, n)]
  BY RankedExists, LimitsAssumption
<1>2. Rank(items) = f[MaxScore + 1]
  BY DEF Rank, Ranked
<1> HIDE DEF f
<1> QED BY <1>1, <1>2

Descending(s) == \A i, j \in DOMAIN s : i < j => s[i].score >= s[j].score

\* A sorted list may be followed by items that are no better.
LEMMA DescendingFurther ==
  ASSUME NEW X, \A x \in X : x.score \in Nat,
         NEW s \in Seq(X), NEW t \in Seq(X), Descending(s), NEW b \in Nat,
         \A x \in Range(s) : x.score > b, \A x \in Range(t) : x.score = b
  PROVE  Descending(s \o t)
<1> DEFINE u == s \o t
<1>1. /\ u \in Seq(X) /\ Len(u) = Len(s) + Len(t)
      /\ \A i \in 1..(Len(s) + Len(t)) :
           u[i] = IF i <= Len(s) THEN s[i] ELSE t[i - Len(s)]
  BY ConcatProperties
<1>2. Len(s) \in Nat /\ Len(t) \in Nat /\ DOMAIN u = 1..(Len(s) + Len(t))
  BY <1>1
<1> HIDE DEF u
<1>3. ASSUME NEW i \in 1..Len(s)
      PROVE  s[i].score \in Nat /\ s[i].score > b
  <2>1. s[i] \in X /\ s[i] \in Range(s)
    BY DEF Range
  <2> QED BY <2>1
<1>4. ASSUME NEW i \in 1..Len(t)
      PROVE  t[i].score = b
  BY DEF Range
<1>5. \A i, j \in 1..Len(s) : i < j => s[i].score >= s[j].score
  BY DEF Descending
<1>6. ASSUME NEW i \in 1..(Len(s) + Len(t)), NEW j \in 1..(Len(s) + Len(t)), i < j
      PROVE  u[i].score >= u[j].score
  <2>1. CASE j <= Len(s)
    <3>1. i \in 1..Len(s) /\ j \in 1..Len(s)
      BY <1>2, <1>6, <2>1
    <3>2. u[i] = s[i] /\ u[j] = s[j]
      BY <1>1, <1>2, <3>1
    <3> QED BY <1>5, <1>6, <3>1, <3>2
  <2>2. CASE j > Len(s)
    <3>1. u[j].score = b
      <4>1. j - Len(s) \in 1..Len(t) /\ u[j] = t[j - Len(s)]
        BY <1>1, <1>2, <2>2
      <4> QED BY <1>4, <4>1
    <3>2. CASE i <= Len(s)
      <4>1. i \in 1..Len(s) /\ u[i] = s[i]
        BY <1>1, <1>2, <3>2
      <4>2. u[i].score \in Nat /\ u[i].score > b
        BY <1>3, <4>1
      <4> QED BY <3>1, <4>2
    <3>3. CASE i > Len(s)
      <4>1. i - Len(s) \in 1..Len(t) /\ u[i] = t[i - Len(s)]
        BY <1>1, <1>2, <3>3
      <4>2. u[i].score = b
        BY <1>4, <4>1
      <4> QED BY <3>1, <4>2
    <3> QED BY <1>2, <3>2, <3>3
  <2> QED BY <1>2, <2>1, <2>2
<1> QED BY <1>2, <1>6 DEF Descending, u

Scored(items) == \A x \in Range(items) : x.score \in 0..MaxScore

\* Two sequences without repetitions that share nothing.
LEMMA ConcatOnce ==
  ASSUME NEW X, NEW s \in Seq(X), NEW t \in Seq(X), IsInjective(s), IsInjective(t),
         Range(s) \cap Range(t) = {}
  PROVE  IsInjective(s \o t)
<1> DEFINE u == s \o t
<1>1. /\ u \in Seq(X) /\ Len(u) = Len(s) + Len(t)
      /\ \A i \in 1..(Len(s) + Len(t)) :
           u[i] = IF i <= Len(s) THEN s[i] ELSE t[i - Len(s)]
  BY ConcatProperties
<1>2. /\ Len(s) \in Nat /\ Len(t) \in Nat /\ DOMAIN u = 1..(Len(s) + Len(t))
      /\ DOMAIN s = 1..Len(s) /\ DOMAIN t = 1..Len(t)
  BY <1>1
<1> HIDE DEF u
<1>3. \A i \in 1..Len(s), j \in 1..Len(t) : s[i] # t[j]
  BY <1>2 DEF Range
<1>4. ASSUME NEW i \in DOMAIN u, NEW j \in DOMAIN u, u[i] = u[j], i <= j
      PROVE  i = j
  <2>1. CASE j <= Len(s)
    <3>1. i \in DOMAIN s /\ j \in DOMAIN s /\ s[i] = s[j]
      BY <1>1, <1>2, <1>4, <2>1
    <3> QED BY <3>1 DEF IsInjective
  <2>2. CASE i > Len(s)
    <3>1. /\ i - Len(s) \in DOMAIN t /\ j - Len(s) \in DOMAIN t
          /\ t[i - Len(s)] = t[j - Len(s)]
      BY <1>1, <1>2, <1>4, <2>2
    <3>2. i - Len(s) = j - Len(s)
      BY <3>1 DEF IsInjective
    <3> QED BY <1>2, <3>2
  <2>3. CASE i <= Len(s) /\ j > Len(s)
    <3>1. /\ i \in 1..Len(s) /\ j - Len(s) \in 1..Len(t)
          /\ s[i] = t[j - Len(s)]
      BY <1>1, <1>2, <1>4, <2>3
    <3> QED BY <1>3, <3>1
  <2> QED BY <1>2, <1>4, <2>1, <2>2, <2>3
<1>5. \A i, j \in DOMAIN u : u[i] = u[j] => i = j
  <2>1. \A i, j \in DOMAIN u : i <= j \/ j <= i
    BY <1>2
  <2> QED BY <1>4, <2>1
<1> QED BY <1>5, Zenon DEF IsInjective, u

\* The ranking of a list, however long, is a sorted list of the same items, and
\* has each of them once if the list has (rankApis).
THEOREM RankSorts ==
  ASSUME NEW X, NEW items \in Seq(X), Scored(items)
  PROVE  /\ Rank(items) \in Seq(Range(items))
         /\ Range(Rank(items)) = Range(items)
         /\ Descending(Rank(items))
         /\ IsInjective(items) => IsInjective(Rank(items))
<1>1. PICK f : /\ f = [n \in 0..(MaxScore + 1) |-> Ranked(items, f, n)]
               /\ Rank(items) = f[MaxScore + 1]
  BY RankEquation
<1> DEFINE Top(n) == {x \in Range(items) : x.score > MaxScore - n}
           Good(n) == /\ f[n] \in Seq(Range(items))
                      /\ Range(f[n]) = Top(n)
                      /\ Descending(f[n])
                      /\ IsInjective(items) => IsInjective(f[n])
           Z == {n \in Nat : n <= MaxScore + 1 => Good(n)}
<1>2. MaxScore \in Nat
  BY LimitsAssumption
<1>3. 0 \in Z
  <2>1. f[0] = <<>>
    BY <1>1, <1>2 DEF Ranked
  <2>2. Top(0) = {}
    BY <1>2 DEF Scored
  <2>3. Good(0)
    BY <2>1, <2>2 DEF Range, Descending, IsInjective
  <2> QED BY <2>3
<1>4. ASSUME NEW n \in Nat, n \in Z
      PROVE  n + 1 \in Z
  <2> SUFFICES ASSUME n + 1 <= MaxScore + 1 PROVE Good(n + 1)
    OBVIOUS
  <2> DEFINE b == MaxScore - n
             level == Among(items, WithScore(items, b))
  <2>1. b \in Nat /\ MaxScore + 1 - (n + 1) = b /\ MaxScore - (n + 1) = b - 1
    BY <1>2
  <2>2. f[n + 1] = f[n] \o level
    <3>1. n + 1 \in 0..(MaxScore + 1) /\ n + 1 # 0 /\ (n + 1) - 1 = n
      BY <1>2
    <3>2. f[n + 1] = Ranked(items, f, n + 1)
      BY <1>1, <3>1
    <3> QED BY <2>1, <3>1, <3>2 DEF Ranked
  <2>3. Good(n)
    BY <1>2, <1>4
  <2>4. /\ level \in Seq(Range(items) \cap WithScore(items, b))
        /\ Range(level) = Range(items) \cap WithScore(items, b)
        /\ IsInjective(items) => IsInjective(level)
    BY AmongMembers
  <2>5. Range(items) \cap WithScore(items, b) = {x \in Range(items) : x.score = b}
    BY DEF WithScore
  <2>6. level \in Seq(Range(items)) /\ Range(level) = {x \in Range(items) : x.score = b}
    <3> HIDE DEF level
    <3>1. WithScore(items, b) \subseteq Range(items)
      BY DEF WithScore
    <3>2. Range(items) \cap WithScore(items, b) \subseteq Range(items)
      OBVIOUS
    <3>3. level \in Seq(Range(items))
      BY <2>4, <3>2, SeqMonotonic
    <3> QED BY <2>4, <2>5, <3>3
  <2>7. Top(n + 1) = Top(n) \cup {x \in Range(items) : x.score = b}
    <3>1. ASSUME NEW x \in Range(items)
          PROVE  x.score > b - 1 <=> x.score > b \/ x.score = b
      <4>1. x.score \in Nat
        BY DEF Scored
      <4> QED BY <2>1, <4>1
    <3> QED BY <2>1, <3>1
  <2> HIDE DEF level
  <2>8. Range(f[n + 1]) = Top(n + 1)
    BY <2>2, <2>3, <2>6, <2>7, RangeConcatenation
  <2>9. f[n + 1] \in Seq(Range(items))
    BY <2>2, <2>3, <2>6, ConcatProperties
  <2>10. Descending(f[n + 1])
    <3>1. \A x \in Range(items) : x.score \in Nat
      BY <1>2 DEF Scored
    <3>2. /\ f[n] \in Seq(Range(items)) /\ Descending(f[n])
          /\ \A x \in Range(f[n]) : x.score > b
          /\ \A x \in Range(level) : x.score = b
      BY <2>3, <2>6
    <3> HIDE DEF b
    <3> QED BY <2>1, <2>2, <2>6, <3>1, <3>2, DescendingFurther
  <2>11. IsInjective(items) => IsInjective(f[n + 1])
    <3> SUFFICES ASSUME IsInjective(items) PROVE IsInjective(f[n + 1])
      OBVIOUS
    <3>1. IsInjective(f[n]) /\ IsInjective(level)
      BY <2>3, <2>4
    <3>2. \A x \in Range(items) : x.score \in Nat
      BY <1>2 DEF Scored
    <3>3. Range(f[n]) \cap Range(level) = {}
      BY <2>1, <2>3, <2>6, <3>2
    <3>4. f[n] \in Seq(Range(items))
      BY <2>3
    <3> HIDE DEF b
    <3> QED BY <2>2, <2>6, <3>1, <3>3, <3>4, ConcatOnce
  <2> QED BY <2>8, <2>9, <2>10, <2>11
<1> HIDE DEF Z
<1>5. MaxScore + 1 \in Z
  BY <1>2, <1>3, <1>4, Induction
<1>6. Good(MaxScore + 1)
  BY <1>2, <1>5 DEF Z
<1>7. Top(MaxScore + 1) = Range(items)
  BY <1>2 DEF Scored
<1> QED BY <1>1, <1>6, <1>7

\* What is chosen of a list, however long, are items of it, and none that is
\* left out is better (rankApis with MAX_CONTEXT_APIS).
THEOREM ChosenAreBest ==
  ASSUME NEW X, NEW items \in Seq(X), Scored(items)
  PROVE  /\ Chosen(items) \in Seq(Range(items))
         /\ \A x, y \in Range(items) :
              x \in Range(Chosen(items)) /\ y \notin Range(Chosen(items)) =>
                x.score >= y.score
<1> DEFINE all == Rank(items)
           best == Chosen(items)
           m == IF SectionLimit < Len(all) THEN SectionLimit ELSE Len(all)
<1>1. /\ all \in Seq(Range(items)) /\ Range(all) = Range(items)
      /\ Descending(all)
  BY RankSorts
<1>2. best = AtMost(SectionLimit, all) /\ SectionLimit \in Nat
  BY LimitsAssumption DEF Chosen
<1> HIDE DEF all, best
<1>3. /\ best \in Seq(Range(items)) /\ Len(best) = m
      /\ \A i \in 1..m : best[i] = all[i]
  BY <1>1, <1>2, FirstOnes
<1>4. ASSUME NEW x \in Range(items), NEW y \in Range(items),
             x \in Range(best), y \notin Range(best)
      PROVE  x.score >= y.score
  <2>1. PICK i \in 1..m : x = all[i]
    BY <1>3, <1>4 DEF Range
  <2>2. PICK j \in 1..Len(all) : y = all[j]
    BY <1>1, <1>4 DEF Range
  <2>3. Len(all) \in Nat /\ m \in Nat /\ m <= Len(all) /\ DOMAIN all = 1..Len(all)
    BY <1>1, <1>2
  <2>4. j \notin 1..m
    BY <1>3, <1>4, <2>2 DEF Range
  <2> HIDE DEF m
  <2>5. i < j
    BY <2>1, <2>2, <2>3, <2>4
  <2>6. i \in DOMAIN all /\ j \in DOMAIN all
    BY <2>1, <2>2, <2>3
  <2> QED BY <1>1, <2>1, <2>2, <2>5, <2>6 DEF Descending
<1> QED BY <1>3, <1>4 DEF best

\* One item comes before another.
InOrder(s, x, y) == \E p, q \in DOMAIN s : p < q /\ s[p] = x /\ s[q] = y

LEMMA OrderConcat ==
  ASSUME NEW X, NEW s \in Seq(X), NEW t \in Seq(X), NEW x, NEW y,
         InOrder(s, x, y) \/ InOrder(t, x, y)
  PROVE  InOrder(s \o t, x, y)
<1> DEFINE u == s \o t
<1>1. /\ u \in Seq(X) /\ Len(u) = Len(s) + Len(t)
      /\ \A i \in 1..(Len(s) + Len(t)) :
           u[i] = IF i <= Len(s) THEN s[i] ELSE t[i - Len(s)]
  BY ConcatProperties
<1>2. /\ Len(s) \in Nat /\ Len(t) \in Nat /\ DOMAIN u = 1..(Len(s) + Len(t))
      /\ DOMAIN s = 1..Len(s) /\ DOMAIN t = 1..Len(t)
  BY <1>1
<1> HIDE DEF u
<1>3. CASE InOrder(s, x, y)
  <2>1. PICK p, q \in DOMAIN s : p < q /\ s[p] = x /\ s[q] = y
    BY <1>3 DEF InOrder
  <2>2. p \in DOMAIN u /\ q \in DOMAIN u /\ u[p] = x /\ u[q] = y
    BY <1>1, <1>2, <2>1
  <2> QED BY <2>1, <2>2 DEF InOrder, u
<1>4. CASE InOrder(t, x, y)
  <2>1. PICK p, q \in DOMAIN t : p < q /\ t[p] = x /\ t[q] = y
    BY <1>4 DEF InOrder
  <2> DEFINE a == Len(s) + p
             b == Len(s) + q
  <2>2. /\ a \in 1..(Len(s) + Len(t)) /\ b \in 1..(Len(s) + Len(t)) /\ a < b
        /\ a > Len(s) /\ b > Len(s) /\ a - Len(s) = p /\ b - Len(s) = q
    BY <1>2, <2>1
  <2> HIDE DEF a, b
  <2>3. u[a] = x /\ u[b] = y
    BY <1>1, <1>2, <2>1, <2>2
  <2> QED BY <1>2, <2>2, <2>3 DEF InOrder, u
<1> QED BY <1>3, <1>4

\* A filter keeps the order.
LEMMA AmongKeepsOrder ==
  ASSUME NEW X, NEW rows \in Seq(X), NEW S,
         NEW i \in 1..Len(rows), NEW j \in 1..Len(rows), i < j,
         rows[i] \in S, rows[j] \in S
  PROVE  InOrder(Among(rows, S), rows[i], rows[j])
<1>1. PICK f : /\ f = [n \in 0..Len(rows) |-> Kept(rows, S, f, n)]
               /\ Among(rows, S) = f[Len(rows)]
  BY AmongEquation
<1> DEFINE x == rows[i]
           y == rows[j]
           Good(n) == /\ f[n] \in Seq(X)
                      /\ i <= n => x \in Range(f[n])
                      /\ j <= n => InOrder(f[n], x, y)
           Z == {n \in Nat : n <= Len(rows) => Good(n)}
<1>2. 0 \in Z
  <2>1. f[0] \in Seq(X)
    BY <1>1, EmptySeq DEF Kept
  <2>2. ~(i <= 0) /\ ~(j <= 0)
    OBVIOUS
  <2> QED BY <2>1, <2>2
<1>3. ASSUME NEW n \in Nat, n \in Z
      PROVE  n + 1 \in Z
  <2> SUFFICES ASSUME n + 1 <= Len(rows) PROVE Good(n + 1)
    OBVIOUS
  <2> DEFINE s == f[n]
             t == f[n + 1]
             z == rows[n + 1]
  <2>1. t = IF z \in S THEN Append(s, z) ELSE s
    <3>1. n + 1 \in 0..Len(rows) /\ n + 1 # 0 /\ (n + 1) - 1 = n
      OBVIOUS
    <3>2. f[n + 1] = Kept(rows, S, f, n + 1)
      BY <1>1, <3>1
    <3> QED BY <3>1, <3>2 DEF Kept
  <2>2. /\ s \in Seq(X) /\ z \in X
        /\ i <= n => x \in Range(s)
        /\ j <= n => InOrder(s, x, y)
    BY <1>3
  <2>3. /\ i <= n + 1 => i <= n \/ (z = x /\ z \in S)
        /\ j <= n + 1 => j <= n \/ (z = y /\ z \in S /\ i <= n)
    OBVIOUS
  <2> HIDE DEF s, t, x, y, z
  <2>4. CASE z \notin S
    BY <2>1, <2>2, <2>3, <2>4 DEF t
  <2>5. CASE z \in S
    <3>1. t = Append(s, z)
      BY <2>1, <2>5
    <3>2. t \in Seq(X) /\ Range(t) = Range(s) \cup {z}
      BY <2>2, <3>1, AppendRange, AppendProperties
    <3>3. t = s \o <<z>> /\ <<z>> \in Seq(X)
      BY <2>2, <3>1, AppendIsConcat
    <3>4. ASSUME x \in Range(s), z = y
          PROVE  InOrder(t, x, y)
      <4>1. PICK p \in 1..Len(s) : s[p] = x
        BY <2>2, <3>4 DEF Range
      <4>2. /\ Len(t) = Len(s) + 1 /\ t[p] = s[p] /\ t[Len(s) + 1] = z
            /\ DOMAIN t = 1..(Len(s) + 1) /\ Len(s) \in Nat
        BY <2>2, <3>1, <4>1
      <4>3. p \in DOMAIN t /\ Len(s) + 1 \in DOMAIN t /\ p < Len(s) + 1
        BY <4>1, <4>2
      <4> QED BY <3>4, <4>1, <4>2, <4>3 DEF InOrder
    <3>5. j <= n => InOrder(t, x, y)
      BY <2>2, <3>3, OrderConcat
    <3> QED BY <2>2, <2>3, <3>2, <3>4, <3>5 DEF t
  <2> QED BY <2>4, <2>5
<1> HIDE DEF Z
<1>4. Len(rows) \in Z
  BY <1>2, <1>3, Induction
<1> QED BY <1>1, <1>4 DEF Z

\* Items with the same score stay in the order of the list, as Array.sort
\* leaves them (rankApis).
THEOREM RankIsStable ==
  ASSUME NEW X, NEW items \in Seq(X), Scored(items),
         NEW i \in 1..Len(items), NEW j \in 1..Len(items), i < j,
         items[i].score = items[j].score
  PROVE  InOrder(Rank(items), items[i], items[j])
<1>1. PICK f : /\ f = [n \in 0..(MaxScore + 1) |-> Ranked(items, f, n)]
               /\ Rank(items) = f[MaxScore + 1]
  BY RankEquation
<1> DEFINE x == items[i]
           y == items[j]
           Good(n) == /\ f[n] \in Seq(X)
                      /\ x.score > MaxScore - n => InOrder(f[n], x, y)
           Z == {n \in Nat : n <= MaxScore + 1 => Good(n)}
<1>2. MaxScore \in Nat /\ x.score \in 0..MaxScore
  BY LimitsAssumption DEF Scored, Range
<1>3. 0 \in Z
  <2>1. f[0] \in Seq(X)
    BY <1>1, <1>2, EmptySeq DEF Ranked
  <2>2. ~(x.score > MaxScore - 0)
    BY <1>2
  <2> QED BY <2>1, <2>2
<1>4. ASSUME NEW n \in Nat, n \in Z
      PROVE  n + 1 \in Z
  <2> SUFFICES ASSUME n + 1 <= MaxScore + 1 PROVE Good(n + 1)
    OBVIOUS
  <2> DEFINE b == MaxScore - n
             level == Among(items, WithScore(items, b))
  <2>1. b \in Nat /\ MaxScore + 1 - (n + 1) = b /\ MaxScore - (n + 1) = b - 1
    BY <1>2
  <2>2. f[n + 1] = f[n] \o level
    <3>1. n + 1 \in 0..(MaxScore + 1) /\ n + 1 # 0 /\ (n + 1) - 1 = n
      BY <1>2
    <3>2. f[n + 1] = Ranked(items, f, n + 1)
      BY <1>1, <3>1
    <3> QED BY <2>1, <3>1, <3>2 DEF Ranked
  <2>3. f[n] \in Seq(X) /\ (x.score > b => InOrder(f[n], x, y))
    BY <1>2, <1>4
  <2>4. level \in Seq(X)
    <3>1. level \in Seq(Range(items) \cap WithScore(items, b))
      BY AmongMembers
    <3>2. Range(items) \cap WithScore(items, b) \subseteq X
      BY RangeOfSeq
    <3> HIDE DEF level
    <3> QED BY <3>1, <3>2, SeqMonotonic
  <2>5. x.score = b => InOrder(level, x, y)
    <3> SUFFICES ASSUME x.score = b PROVE InOrder(level, x, y)
      OBVIOUS
    <3>1. x \in WithScore(items, b) /\ y \in WithScore(items, b)
      <4>1. x \in Range(items) /\ y \in Range(items) /\ y.score = x.score
        BY DEF Range
      <4> HIDE DEF x, y, b
      <4> QED BY <4>1 DEF WithScore
    <3> DEFINE S == WithScore(items, b)
    <3> HIDE DEF S
    <3>2. InOrder(Among(items, S), items[i], items[j])
      BY <3>1, AmongKeepsOrder DEF S
    <3> QED BY <3>2 DEF S
  <2>6. x.score > b - 1 => x.score > b \/ x.score = b
    BY <1>2, <2>1
  <2> HIDE DEF level, x, y
  <2>7. f[n + 1] \in Seq(X)
    BY <2>2, <2>3, <2>4, ConcatProperties
  <2>8. x.score > b - 1 => InOrder(f[n + 1], x, y)
    <3> HIDE DEF b
    <3> QED BY <2>2, <2>3, <2>4, <2>5, <2>6, OrderConcat
  <2> QED BY <2>1, <2>7, <2>8
<1> HIDE DEF Z
<1>5. MaxScore + 1 \in Z
  BY <1>2, <1>3, <1>4, Induction
<1>6. x.score > MaxScore - (MaxScore + 1)
  BY <1>2
<1> QED BY <1>1, <1>2, <1>5, <1>6 DEF Z

-----------------------------------------------------------------------------
(* The character budget                                                    *)

\* The body of the function in SumOf.
Summed(sizes, f, n) == IF n = 0 THEN 0 ELSE f[n - 1] + sizes[n]

LEMMA SummedExists ==
  ASSUME NEW sizes, NEW m \in Nat
  PROVE  \E f : f = [n \in 0..m |-> Summed(sizes, f, n)]
<1> DEFINE Z == {k \in Nat : \E f : f = [n \in 0..k |-> Summed(sizes, f, n)]}
<1>1. 0 \in Z
  <2> DEFINE f == [n \in 0..0 |-> 0]
  <2>1. f = [n \in 0..0 |-> Summed(sizes, f, n)]
    BY DEF Summed
  <2> QED BY <2>1
<1>2. ASSUME NEW k \in Nat, k \in Z
      PROVE  k + 1 \in Z
  <2>1. PICK f : f = [n \in 0..k |-> Summed(sizes, f, n)]
    BY <1>2
  <2> DEFINE g == [n \in 0..(k + 1) |->
                     IF n = k + 1 THEN Summed(sizes, f, n) ELSE f[n]]
  <2>2. ASSUME NEW n \in 0..(k + 1)
        PROVE  g[n] = Summed(sizes, g, n)
    <3>1. CASE n = k + 1
      <4>1. g[n - 1] = f[n - 1]
        BY <3>1
      <4> QED BY <3>1, <4>1 DEF Summed
    <3>2. CASE n # k + 1
      <4>1. n \in 0..k /\ f[n] = Summed(sizes, f, n)
        BY <2>1, <3>2
      <4>2. n # 0 => g[n - 1] = f[n - 1]
        BY <4>1
      <4> QED BY <4>1, <4>2 DEF Summed
    <3> QED BY <3>1, <3>2
  <2>3. g = [n \in 0..(k + 1) |-> Summed(sizes, g, n)]
    BY <2>2, Zenon
  <2> HIDE DEF g
  <2>4. \E h : h = [n \in 0..(k + 1) |-> Summed(sizes, h, n)]
    BY <2>3
  <2> QED BY <2>4
<1> HIDE DEF Z
<1>3. m \in Z
  BY <1>1, <1>2, Induction
<1> QED BY <1>3 DEF Z

LEMMA SumEquation ==
  ASSUME NEW sizes, Len(sizes) \in Nat
  PROVE  \E f : /\ f = [n \in 0..Len(sizes) |-> Summed(sizes, f, n)]
                /\ SumOf(sizes) = f[Len(sizes)]
<1> DEFINE f == CHOOSE f : f = [n \in 0..Len(sizes) |-> Summed(sizes, f, n)]
<1>1. f = [n \in 0..Len(sizes) |-> Summed(sizes, f, n)]
  BY SummedExists
<1>2. SumOf(sizes) = f[Len(sizes)]
  BY DEF SumOf, Summed
<1> HIDE DEF f
<1> QED BY <1>1, <1>2

LEMMA SumIsNat ==
  ASSUME NEW sizes \in Seq(Nat)
  PROVE  SumOf(sizes) \in Nat
<1>1. PICK f : /\ f = [n \in 0..Len(sizes) |-> Summed(sizes, f, n)]
               /\ SumOf(sizes) = f[Len(sizes)]
  BY SumEquation
<1> DEFINE Z == {n \in Nat : n <= Len(sizes) => f[n] \in Nat}
<1>2. 0 \in Z
  BY <1>1 DEF Summed
<1>3. ASSUME NEW n \in Nat, n \in Z
      PROVE  n + 1 \in Z
  <2> SUFFICES ASSUME n + 1 <= Len(sizes) PROVE f[n + 1] \in Nat
    OBVIOUS
  <2>1. n + 1 \in 0..Len(sizes) /\ n + 1 # 0 /\ (n + 1) - 1 = n
    OBVIOUS
  <2>2. f[n + 1] = f[n] + sizes[n + 1]
    BY <1>1, <2>1 DEF Summed
  <2> QED BY <1>3, <2>2
<1> HIDE DEF Z
<1>4. Len(sizes) \in Z
  BY <1>2, <1>3, Induction
<1> QED BY <1>1, <1>4 DEF Z

LEMMA SumOfNone == SumOf(<<>>) = 0
<1> DEFINE none == <<>>
<1>1. Len(none) = 0
  OBVIOUS
<1> HIDE DEF none
<1>2. SumOf(none) = 0
  BY <1>1, SumEquation DEF Summed
<1> QED BY <1>2 DEF none

LEMMA SumOfMore ==
  ASSUME NEW sizes \in Seq(Nat), NEW x \in Nat
  PROVE  SumOf(Append(sizes, x)) = SumOf(sizes) + x
<1> DEFINE more == Append(sizes, x)
           l == Len(sizes)
<1>1. /\ Len(more) = l + 1 /\ more[l + 1] = x
      /\ \A i \in 1..l : more[i] = sizes[i]
      /\ l \in Nat
  OBVIOUS
<1> HIDE DEF more, l
<1>2. PICK f : /\ f = [n \in 0..l |-> Summed(sizes, f, n)]
               /\ SumOf(sizes) = f[l]
  BY <1>1, SumEquation DEF l
<1>3. PICK g : /\ g = [n \in 0..(l + 1) |-> Summed(more, g, n)]
               /\ SumOf(more) = g[l + 1]
  BY <1>1, SumEquation
<1> DEFINE Z == {n \in Nat : n <= l => f[n] = g[n]}
<1>4. 0 \in Z
  BY <1>1, <1>2, <1>3 DEF Summed
<1>5. ASSUME NEW n \in Nat, n \in Z
      PROVE  n + 1 \in Z
  <2> SUFFICES ASSUME n + 1 <= l PROVE f[n + 1] = g[n + 1]
    OBVIOUS
  <2>1. /\ n + 1 \in 0..l /\ n + 1 \in 0..(l + 1) /\ n + 1 \in 1..l
        /\ n + 1 # 0 /\ (n + 1) - 1 = n
    BY <1>1
  <2>2. f[n + 1] = f[n] + sizes[n + 1]
    BY <1>2, <2>1 DEF Summed
  <2>3. g[n + 1] = g[n] + more[n + 1]
    BY <1>3, <2>1 DEF Summed
  <2> QED BY <1>1, <1>5, <2>1, <2>2, <2>3
<1> HIDE DEF Z
<1>6. l \in Z
  BY <1>1, <1>4, <1>5, Induction
<1>7. f[l] = g[l]
  BY <1>1, <1>6 DEF Z
<1>8. g[l + 1] = g[l] + more[l + 1]
  <2>1. l + 1 \in 0..(l + 1) /\ l + 1 # 0 /\ (l + 1) - 1 = l
    BY <1>1
  <2> QED BY <1>3, <2>1 DEF Summed
<1>9. SumOf(more) = SumOf(sizes) + x
  BY <1>1, <1>2, <1>3, <1>7, <1>8
<1> QED BY <1>9 DEF more

\* Whatever the sections are, and however many, the text keeps within the
\* character limit (joinSectionsWithinBudget).
THEOREM JoinedFits ==
  ASSUME NEW sizes \in Seq(Nat)
  PROVE  TextSize(Joined(sizes)) <= MaxCharacters
<1> DEFINE fitting == {n \in 0..Len(sizes) : Taken(sizes, n) <= MaxCharacters}
           n == CHOOSE m \in fitting : \A l \in fitting : l <= m
           first == SubSeq(sizes, 1, n)
           rest == Truncated(sizes[n + 1], MaxCharacters - Taken(sizes, n) - 2)
           cut == n < Len(sizes) /\ MaxCharacters > Taken(sizes, n) + 2 + Worth
<1>1. Joined(sizes) = first \o IF cut THEN <<rest>> ELSE <<>>
  BY DEF Joined
<1>2. /\ MaxCharacters \in Nat /\ Worth \in Nat /\ Worth >= 14
      /\ Len(sizes) \in Nat
  BY LimitsAssumption
<1>3. 0 \in fitting
  <2>1. SubSeq(sizes, 1, 0) = <<>>
    BY SubSeqEmpty
  <2>2. SumOf(SubSeq(sizes, 1, 0)) = 0
    BY <2>1, SumOfNone, Zenon
  <2>3. Taken(sizes, 0) = 0
    BY <2>2 DEF Taken
  <2> QED BY <1>2, <2>3
<1>4. n \in fitting
  <2>1. \E m \in fitting : \A l \in fitting : l <= m
    BY <1>2, <1>3, GreatestOf
  <2> QED BY <2>1
<1>5. n \in 0..Len(sizes) /\ Taken(sizes, n) <= MaxCharacters
  BY <1>4
<1> HIDE DEF n
<1>6. first \in Seq(Nat) /\ Len(first) = n
  <2>1. \A i \in 1..n : sizes[i] \in Nat
    BY <1>2, <1>5
  <2>2. n \in Int
    BY <1>5
  <2> QED BY <1>5, <2>1, <2>2, SubSeqProperties
<1>7. SumOf(first) \in Nat /\ Taken(sizes, n) = SumOf(first) + 2 * n
  BY <1>6, SumIsNat DEF Taken
<1> HIDE DEF first
<1>8. CASE ~cut
  <2>1. Joined(sizes) = first
    BY <1>1, <1>6, <1>8, ConcatEmptySeq
  <2>2. TextSize(first) = SumOf(first) + (IF first = <<>> THEN 0 ELSE 2 * (n - 1))
    BY <1>6 DEF TextSize
  <2>3. first = <<>> \/ n # 0
    BY <1>6
  <2>4. TextSize(first) <= SumOf(first) + 2 * n
    BY <1>5, <1>7, <2>2, <2>3
  <2>5. TextSize(first) <= MaxCharacters
    <3> DEFINE text == TextSize(first)
               sum == SumOf(first)
               spent == Taken(sizes, n)
    <3>1. /\ text <= sum + 2 * n /\ spent = sum + 2 * n /\ spent <= MaxCharacters
          /\ sum \in Nat /\ n \in Nat /\ text = sum + (IF first = <<>> THEN 0 ELSE 2 * (n - 1))
      BY <1>5, <1>7, <2>2, <2>4
    <3> HIDE DEF text, sum, spent
    <3>2. text \in Int
      BY <3>1
    <3>3. text <= MaxCharacters
      BY <1>2, <3>1, <3>2
    <3> QED BY <3>3 DEF text
  <2> QED BY <2>1, <2>5
<1>9. CASE cut
  <2>1. /\ n < Len(sizes) /\ MaxCharacters > Taken(sizes, n) + 2 + Worth
        /\ sizes[n + 1] \in Nat
    BY <1>5, <1>9
  <2>2. rest \in Nat /\ rest <= MaxCharacters - Taken(sizes, n) - 2
    <3> DEFINE spent == Taken(sizes, n)
               size == sizes[n + 1]
    <3>1. /\ spent \in Nat /\ size \in Nat /\ MaxCharacters > spent + 2 + Worth
          /\ rest = Truncated(size, MaxCharacters - spent - 2)
      BY <1>5, <1>7, <2>1
    <3> HIDE DEF spent, size, rest
    <3>2. rest \in Nat /\ rest <= MaxCharacters - spent - 2
      BY <1>2, <3>1 DEF Truncated
    <3> QED BY <3>2 DEF spent
  <2> HIDE DEF rest
  <2>3. Joined(sizes) = Append(first, rest)
    BY <1>1, <1>6, <1>9, <2>2, AppendIsConcat
  <2>4. SumOf(Append(first, rest)) = SumOf(first) + rest
    BY <1>6, <2>2, SumOfMore
  <2>5. Len(Append(first, rest)) = n + 1 /\ Append(first, rest) # <<>>
    BY <1>6, <2>2, AppendProperties
  <2>6. TextSize(Joined(sizes)) = SumOf(first) + rest + 2 * n
    <3>1. TextSize(Append(first, rest)) = SumOf(first) + rest + 2 * ((n + 1) - 1)
      BY <2>4, <2>5 DEF TextSize
    <3> QED BY <1>5, <2>3, <3>1
  <2> QED BY <1>2, <1>5, <1>7, <2>2, <2>6
<1> QED BY <1>8, <1>9

\* The sections of any choice of items have lengths.
LEMMA SectionsHaveSizes ==
  ASSUME NEW X, \A x \in X : x.size \in Nat, NEW items \in Seq(X)
  PROVE  Sections(items) \in Seq(Nat)
<1>1. Overview \in Nat /\ Heading \in Nat
  BY LimitsAssumption
<1>2. CASE items = <<>>
  BY <1>1, <1>2 DEF Sections
<1>3. CASE items # <<>>
  <2> DEFINE sizes == [n \in DOMAIN items |-> items[n].size]
  <2>1. Len(items) \in Nat \ {0} /\ DOMAIN items = 1..Len(items)
    BY <1>3
  <2>2. \A n \in 1..Len(items) : items[n].size \in Nat
    OBVIOUS
  <2>3. sizes \in Seq(Nat)
    BY <2>1, <2>2
  <2> HIDE DEF sizes
  <2>4. SumOf(sizes) \in Nat
    BY <2>3, SumIsNat
  <2>5. SectionSize(items) \in Nat
    BY <1>1, <2>1, <2>4 DEF SectionSize, sizes
  <2>6. Sections(items) = <<Overview, SectionSize(items)>>
    BY <1>3 DEF Sections
  <2> QED BY <1>1, <2>5, <2>6
<1> QED BY <1>2, <1>3

-----------------------------------------------------------------------------
(* The two queries                                                         *)

\* An answer has different rows, and all of them unless the limit is reached.
LEMMA ListedFacts ==
  ASSUME NEW rows, IsFiniteSet(rows), NEW most \in Nat,
         NEW list \in Listed(rows, most)
  PROVE  /\ list \in Seq(rows) /\ IsInjective(list)
         /\ Len(list) <= most
         /\ Len(list) < most => Range(list) = rows
<1> DEFINE n == IF Cardinality(rows) < most THEN Cardinality(rows) ELSE most
<1>1. list \in [1..n -> rows] /\ IsInjective(list)
  BY DEF Listed
<1>2. Cardinality(rows) \in Nat
  BY FS_CardinalityType
<1>3. n \in Nat /\ n <= most /\ (n < most => n = Cardinality(rows))
  BY <1>2
<1> HIDE DEF n
<1>4. list \in Seq(rows) /\ Len(list) = n /\ DOMAIN list = 1..n
  BY <1>1, <1>3
<1>5. ASSUME n < most
      PROVE  Range(list) = rows
  <2>1. list \in Injection(1..n, rows)
    BY <1>1 DEF Injection, IsInjective
  <2>2. Cardinality(1..n) = Cardinality(rows)
    BY <1>3, <1>5, FS_Interval
  <2>3. list \in Surjection(1..n, rows)
    BY <2>1, <2>2, FS_Injection
  <2> QED BY <1>1, <1>4, <2>3 DEF Surjection, Range
<1> QED BY <1>1, <1>3, <1>4, <1>5

\* The first query: relevant rows, and all of them unless the limit is reached.
LEMMA RelevantFacts ==
  ASSUME NEW rows, IsFiniteSet(rows), NEW got \in Relevant(rows)
  PROVE  /\ got \in Seq(rows) /\ IsInjective(got) /\ Range(got) \subseteq rows
         /\ Len(got) <= FetchLimit
         /\ \A x \in Range(got) : x.relevant
         /\ Len(got) < FetchLimit => \A x \in rows : x.relevant => x \in Range(got)
<1> DEFINE S == {x \in rows : x.relevant}
<1>1. IsFiniteSet(S) /\ FetchLimit \in Nat /\ S \subseteq rows
  BY FS_Subset, LimitsAssumption
<1>2. got \in Listed(S, FetchLimit)
  BY DEF Relevant
<1>3. \A x \in S : x.relevant
  OBVIOUS
<1>4. \A x \in rows : x.relevant => x \in S
  OBVIOUS
<1> HIDE DEF S
<1>5. /\ got \in Seq(S) /\ IsInjective(got) /\ Len(got) <= FetchLimit
      /\ Len(got) < FetchLimit => Range(got) = S
  BY <1>1, <1>2, ListedFacts
<1>6. Range(got) \subseteq S /\ got \in Seq(rows)
  BY <1>1, <1>5, RangeOfSeq, SeqMonotonic
<1> QED BY <1>1, <1>3, <1>4, <1>5, <1>6

\* The second query: rows that the first has not returned.
LEMMA FallbackFacts ==
  ASSUME NEW rows, IsFiniteSet(rows), NEW X, NEW got \in Seq(X),
         Len(got) <= FetchLimit, NEW more \in Fallback(rows, got)
  PROVE  /\ more \in Seq(rows) /\ IsInjective(more) /\ Range(more) \subseteq rows
         /\ Range(more) \cap Range(got) = {}
<1> DEFINE S == Others(rows, got)
<1>1. S \subseteq rows /\ \A x \in S : x \notin Range(got)
  BY DEF Others
<1>2. IsFiniteSet(S) /\ FetchLimit - Len(got) \in Nat
  BY <1>1, FS_Subset, LimitsAssumption
<1>3. more \in Listed(S, FetchLimit - Len(got))
  BY DEF Fallback
<1> HIDE DEF S
<1>4. more \in Seq(S) /\ IsInjective(more)
  BY <1>2, <1>3, ListedFacts
<1>5. Range(more) \subseteq S /\ more \in Seq(rows)
  BY <1>1, <1>4, RangeOfSeq, SeqMonotonic
<1> QED BY <1>1, <1>4, <1>5

\* Items with different routes have as many routes as they are.
LEMMA CardinalityOnce ==
  ASSUME NEW X, NEW items \in Seq(X), IsInjective(items),
         \A x, y \in Range(items) : x.route = y.route => x = y
  PROVE  Cardinality({x.route : x \in Range(items)}) = Len(items)
<1> DEFINE N == 1..Len(items)
           R == {x.route : x \in Range(items)}
           f == [i \in N |-> items[i].route]
<1>1. Len(items) \in Nat /\ DOMAIN items = N
  OBVIOUS
<1>2. IsFiniteSet(N) /\ Cardinality(N) = Len(items)
  BY <1>1, FS_Interval
<1>3. R = {items[i].route : i \in N}
  BY <1>1 DEF Range
<1>4. \A i, j \in N : items[i].route = items[j].route => i = j
  BY <1>1 DEF Range, IsInjective
<1> HIDE DEF N, R
<1>5. f \in Bijection(N, R)
  <2>1. f \in [N -> R]
    BY <1>3
  <2>2. \A i, j \in N : f[i] = f[j] => i = j
    BY <1>4
  <2>3. \A r \in R : \E i \in N : f[i] = r
    BY <1>3
  <2> HIDE DEF f
  <2> QED BY <2>1, <2>2, <2>3 DEF Bijection, Injection, Surjection, IsInjective
<1>6. ExistsBijection(N, R)
  BY <1>5 DEF ExistsBijection
<1> QED BY <1>2, <1>6, FS_Bijection DEF R

-----------------------------------------------------------------------------
(* What a chat has retrieved                                               *)

\* The rows of all writes.
AllItems == UNION {Found(s, n) : s \in 1..LastScan, n \in Nat}

Once(rows) == \A x, y \in rows : x.route = y.route => x = y
RouteOnce(items) == IsInjective(items) /\ Once(Range(items))

\* No completed scan is run again and no execution outlives its attempt, and no
\* scan fails.
Quiet == Never({"rerun", "detach"})
Calm == Quiet /\ Never({"broken"})

Scanning ==
  /\ scan = [s \in 1..LastScan |-> scan[s]]
  /\ \A s \in 1..LastScan :
       /\ scan[s] \in [st : {"absent", "running", "stored", "failed", "completed"},
                       writes : Nat, rows : SUBSET AllItems, late : Nat]
       /\ IsFiniteSet(scan[s].rows)
       /\ Quiet => Once(scan[s].rows) /\ scan[s].late = 0
       /\ scan[s].st = "absent" => scan[s].rows = {} /\ scan[s].late = 0
       /\ Calm => /\ scan[s].st # "failed"
                  /\ scan[s].st = "running" => scan[s].rows = {}

\* The rows of the scan of a chat do not change between its queries, but for
\* those that a first attempt writes.
Still(k) == chat[k].scan # 0 /\ Quiet /\ (chat[k].whole \/ Never({"broken"}))

\* What a chat has retrieved at each of its steps, and of which scan.
Searches(k) ==
  LET h == chat[k] IN
  /\ h.items \in Seq(AllItems)
  /\ h.pc \in {"incr", "expire", "scan", "last", "relevant"} => h.items = <<>>
  /\ h.pc \in {"incr", "expire", "scan", "last"} => ~h.whole
  /\ h.pc \in {"relevant", "fallback", "conversation"} =>
       /\ h.scan \in 0..LastScan
       /\ h.whole /\ Quiet => h.scan # 0 /\ scan[h.scan].st = "completed"
  /\ h.pc = "fallback" => Len(h.items) < FetchLimit
  /\ h.pc = "fallback" /\ Still(k) =>
       \/ h.items \in Relevant(scan[h.scan].rows)
       \/ h.items = <<>> /\ ~h.whole
  /\ h.pc = "conversation" /\ Still(k) =>
       /\ RouteOnce(h.items)
       /\ h.whole =>
            \/ \A x \in Range(h.items) : x.relevant
            \/ \A x \in scan[h.scan].rows : x.relevant => x \in Range(h.items)

Retrieved == Scanning /\ \A k \in Chats : Searches(k)

\* The rows of one write: finitely many, every route once, with its score and
\* size.
LEMMA FoundRows ==
  ASSUME NEW s \in 1..LastScan, NEW n \in Nat
  PROVE  /\ Found(s, n) \subseteq AllItems /\ IsFiniteSet(Found(s, n))
         /\ Once(Found(s, n))
         /\ \A x \in Found(s, n) : x.score \in 0..MaxScore /\ x.size \in Nat
<1> DEFINE rows == Found(s, n)
           N == 1..Len(Routes)
           item(m) == [id |-> <<s, n, m>>, route |-> m,
                       relevant |-> Routes[m].relevant, score |-> Routes[m].score,
                       size |-> Routes[m].size]
           f == [m \in N |-> item(m)]
<1>1. /\ Len(Routes) \in Nat /\ DOMAIN Routes = N
      /\ \A m \in N : Routes[m].score \in 0..MaxScore /\ Routes[m].size \in Nat
  <2> DEFINE Route == [relevant : BOOLEAN, score : 0..MaxScore, size : Nat]
  <2>1. Routes \in Seq(Route)
    BY RoutesAssumption
  <2>2. \A x \in Route : x.score \in 0..MaxScore /\ x.size \in Nat
    OBVIOUS
  <2> HIDE DEF Route
  <2>3. Len(Routes) \in Nat /\ DOMAIN Routes = N
    BY <2>1
  <2>4. \A m \in N : Routes[m] \in Route
    BY <2>1
  <2> QED BY <2>2, <2>3, <2>4
<1>2. rows = {item(m) : m \in N}
  BY <1>1 DEF Found
<1>3. \A m \in N : /\ item(m).route = m
                   /\ item(m).score \in 0..MaxScore /\ item(m).size \in Nat
  BY <1>1
<1>4. rows \subseteq AllItems
  BY DEF AllItems
<1> HIDE DEF rows, item
<1>5. IsFiniteSet(rows)
  <2>1. IsFiniteSet(N)
    BY <1>1, FS_Interval
  <2>2. f \in Surjection(N, rows)
    <3>1. f \in [N -> rows]
      BY <1>2
    <3>2. \A x \in rows : \E m \in N : f[m] = x
      BY <1>2
    <3> HIDE DEF f
    <3> QED BY <3>1, <3>2 DEF Surjection
  <2> HIDE DEF N, f
  <2> QED BY <2>1, <2>2, FS_Surjection
<1>6. Once(rows)
  BY <1>2, <1>3 DEF Once
<1> QED BY <1>2, <1>3, <1>4, <1>5, <1>6 DEF rows

LEMMA AllItemsTyped ==
  \A x \in AllItems : x.score \in 0..MaxScore /\ x.size \in Nat
<1>1. ASSUME NEW x \in AllItems
      PROVE  x.score \in 0..MaxScore /\ x.size \in Nat
  <2>1. PICK s \in 1..LastScan, n \in Nat : x \in Found(s, n)
    BY <1>1 DEF AllItems
  <2> QED BY <2>1, FoundRows
<1> QED BY <1>1

\* Nothing is retrieved of nothing.
LEMMA NoRows ==
  ASSUME NEW got \in Relevant({})
  PROVE  got = <<>>
<1>1. got \in Seq({})
  BY FS_EmptySet, RelevantFacts
<1>2. Len(got) \in Nat /\ \A i \in 1..Len(got) : got[i] \in {}
  BY <1>1
<1>3. Len(got) = 0
  BY <1>2
<1> QED BY <1>1, <1>3

\* The rows that the queries of a chat read at any time.
LEMMA RowsTyped ==
  ASSUME Scanning, NEW k \in Chats, chat[k].scan \in 0..LastScan
  PROVE  /\ RowsOf(k) \subseteq AllItems /\ IsFiniteSet(RowsOf(k))
         /\ chat[k].scan # 0 =>
              /\ chat[k].scan \in 1..LastScan
              /\ RowsOf(k) = scan[chat[k].scan].rows
              /\ Quiet => Once(RowsOf(k))
<1>1. \A s \in 1..LastScan :
        /\ scan[s].rows \subseteq AllItems /\ IsFiniteSet(scan[s].rows)
        /\ Quiet => Once(scan[s].rows)
  BY DEF Scanning
<1>2. LastScan \in Nat
  BY ScannedAssumption
<1>3. CASE chat[k].scan # 0
  <2>1. chat[k].scan \in 1..LastScan
    BY <1>2, <1>3
  <2>2. RowsOf(k) = scan[chat[k].scan].rows
    BY <1>3 DEF RowsOf
  <2> QED BY <1>1, <2>1, <2>2
<1>4. CASE chat[k].scan = 0
  <2> DEFINE N == 1..LastScan
             all == {scan[s].rows : s \in N}
             f == [s \in N |-> scan[s].rows]
  <2>1. RowsOf(k) \in {{}, UNION all}
    BY <1>4 DEF RowsOf
  <2>2. IsFiniteSet(N)
    BY <1>2, FS_Interval
  <2>3. f \in Surjection(N, all)
    <3>1. f \in [N -> all] /\ \A x \in all : \E s \in N : f[s] = x
      OBVIOUS
    <3> QED BY <3>1 DEF Surjection
  <2>4. (\A T \in all : IsFiniteSet(T)) /\ UNION all \subseteq AllItems
    BY <1>1
  <2> HIDE DEF N, all, f
  <2>5. IsFiniteSet(all)
    BY <2>2, <2>3, FS_Surjection
  <2>6. IsFiniteSet(UNION all)
    BY <2>4, <2>5, FS_UNION
  <2> QED BY <1>4, <2>1, <2>4, <2>6, FS_EmptySet
<1> QED BY <1>3, <1>4

\* What a step of a chat is for what it has retrieved.
Forgets(k) ==
  /\ chat'[k].pc \in {"incr", "history", "done"}
  /\ chat'[k].items = <<>> /\ ~chat'[k].whole

Passes(k) ==
  /\ \/ /\ chat[k].pc \in {"incr", "expire", "scan"}
        /\ chat'[k].pc \in {"expire", "scan", "last"}
     \/ chat'[k].pc \in {"question", "load", "done"} \cup Waiting
  /\ chat'[k].scan = chat[k].scan /\ chat'[k].whole = chat[k].whole
  /\ chat'[k].items = chat[k].items

Settles(k) ==
  /\ chat[k].pc \in {"scan", "last"} /\ chat'[k].pc = "relevant"
  /\ chat'[k].scan \in 0..LastScan /\ chat'[k].items = chat[k].items
  /\ \/ chat'[k].scan # 0 /\ scan[chat'[k].scan].st = "completed"
     \/ chat'[k].whole = chat[k].whole

Fetches(k) ==
  \E got \in Relevant(RowsOf(k)) :
    /\ chat[k].pc = "relevant"
    /\ chat'[k].pc = IF Len(got) >= FetchLimit THEN "conversation" ELSE "fallback"
    /\ chat'[k].scan = chat[k].scan /\ chat'[k].whole = chat[k].whole
    /\ chat'[k].items = got

Fills(k) ==
  \E more \in Fallback(RowsOf(k), chat[k].items) :
    /\ chat[k].pc = "fallback" /\ chat'[k].pc = "conversation"
    /\ chat'[k].scan = chat[k].scan /\ chat'[k].whole = chat[k].whole
    /\ chat'[k].items = chat[k].items \o more

LEMMA RowHas ==
  ASSUME NEW k \in Chats, NEW pc, NEW c, NEW m, NEW history, NEW answer,
         NEW r, NEW s, NEW w, NEW items,
         chat = [j \in Chats |-> chat[j]],
         chat' = [chat EXCEPT ![k] = Row(pc, r, c, m, s, w, items, history, answer)]
  PROVE  /\ chat'[k].pc = pc /\ chat'[k].scan = s
         /\ chat'[k].whole = w /\ chat'[k].items = items
<1>1. chat'[k] = Row(pc, r, c, m, s, w, items, history, answer)
  OBVIOUS
<1> QED BY <1>1 DEF Row

LEMMA BareForgets ==
  ASSUME NEW k \in Chats, NEW pc, NEW r, NEW c, NEW m,
         chat = [j \in Chats |-> chat[j]],
         chat' = [chat EXCEPT ![k] = Bare(pc, r, c, m)]
  PROVE  chat'[k].pc = pc /\ chat'[k].items = <<>> /\ ~chat'[k].whole
<1> DEFINE no == FALSE
           nothing == <<>>
<1>1. chat' = [chat EXCEPT ![k] = Row(pc, r, c, m, 0, no, nothing, nothing, None)]
  BY DEF Bare
<1> HIDE DEF no, nothing
<1>2. chat'[k].pc = pc /\ chat'[k].whole = no /\ chat'[k].items = nothing
  BY <1>1, RowHas
<1>3. ~chat'[k].whole
  BY <1>2, Zenon DEF no
<1> QED BY <1>2, <1>3 DEF nothing

LEMMA BecomesHas ==
  ASSUME NEW k \in Chats, chat = [j \in Chats |-> chat[j]],
         NEW pc, NEW s, NEW w, NEW items, Becomes(k, pc, s, w, items)
  PROVE  /\ chat'[k].pc = pc /\ chat'[k].scan = s
         /\ chat'[k].whole = w /\ chat'[k].items = items
BY RowHas DEF Becomes, Along

LEMMA GreatestIn ==
  ASSUME NEW S \in SUBSET (1..LastScan), S # {}
  PROVE  Greatest(S) \in S
<1>1. LastScan \in Nat /\ S \in SUBSET (0..LastScan)
  BY ScannedAssumption
<1>2. \E s \in S : \A t \in S : t <= s
  BY <1>1, GreatestOf
<1> QED BY <1>2 DEF Greatest

LEMMA SearchMoves ==
  ASSUME Typed, Room, NEW k \in Chats, ChatStep(k)
  PROVE  /\ UNCHANGED scan
         /\ \/ Forgets(k) \/ Passes(k) \/ Settles(k) \/ Fetches(k) \/ Fills(k)
<1> DEFINE h == chat[k]
<1>1. /\ h \in ChatRow(k) /\ chat = [j \in Chats |-> chat[j]]
  BY DEF Typed
<1>2. ASSUME NEW pc, Go(k, pc)
      PROVE  /\ chat'[k].pc = pc /\ chat'[k].scan = h.scan
             /\ chat'[k].whole = h.whole /\ chat'[k].items = h.items
  <2>1. Becomes(k, pc, h.scan, h.whole, h.items)
    BY <1>1, <1>2, GoBecomes
  <2> QED BY <1>1, <2>1, BecomesHas
<1>3. ASSUME Refuse(k)
      PROVE  Forgets(k)
  <2>1. chat' = [chat EXCEPT ![k] = Bare("done", None, None, 0)]
    BY <1>3, FreshRow DEF Refuse
  <2> QED BY <1>1, <2>1, BareForgets DEF Forgets
<1>4. ASSUME NEW role, NEW pc \in {"complete", "load"}, CreateMessage(k, role, pc)
      PROVE  UNCHANGED scan /\ (Forgets(k) \/ Passes(k))
  <2>1. UNCHANGED scan /\ (Go(k, pc) \/ Refuse(k))
    BY <1>4 DEF CreateMessage
  <2> QED BY <1>2, <1>3, <2>1 DEF Passes, Waiting
<1>5. CASE \E r \in Repositories, c \in Conversations \cup {None} : Ask(k, r, c)
  <2>1. PICK r \in Repositories, c \in Conversations \cup {None} : Ask(k, r, c)
    BY <1>5
  <2>2. chat' = [chat EXCEPT ![k] = Bare("incr", r, c, minute)] /\ UNCHANGED scan
    BY <2>1, FreshRow DEF Ask
  <2> QED BY <1>1, <2>2, BareForgets DEF Forgets
<1>6. CASE Incr(k) \/ Expire(k)
  <2>1. h.pc \in {"incr", "expire"} /\ UNCHANGED scan
    BY <1>6 DEF Incr, Expire
  <2>2. Refuse(k) \/ Go(k, "expire") \/ Go(k, "scan")
    BY <1>6 DEF Incr, Expire
  <2> QED BY <1>2, <1>3, <2>1, <2>2 DEF Passes
<1>7. CASE FindCompleted(k)
  <2>1. h.pc = "scan" /\ UNCHANGED scan
    BY <1>7 DEF FindCompleted
  <2>2. CASE Go(k, "last")
    BY <1>2, <2>1, <2>2 DEF Passes
  <2>3. CASE ~Go(k, "last")
    <3> DEFINE done == With({"completed"})
               yes == TRUE
               s == Greatest(done)
    <3>1. /\ done # {}
          /\ chat' = [chat EXCEPT ![k].pc = "relevant", ![k].scan = s, ![k].whole = yes]
      BY <1>7, <2>3 DEF FindCompleted
    <3>2. done \in SUBSET (1..LastScan) /\ \A t \in done : scan[t].st = "completed"
      BY DEF With
    <3> HIDE DEF done, yes
    <3>3. s \in done
      BY <3>1, <3>2, GreatestIn
    <3> HIDE DEF s
    <3>4. Becomes(k, "relevant", s, yes, h.items)
      BY <1>1, <3>1, WholeBecomes
    <3>5. chat'[k].pc = "relevant" /\ chat'[k].scan = s /\ chat'[k].items = h.items
      BY <1>1, <3>4, BecomesHas
    <3>6. s \in 0..LastScan /\ s # 0
      BY <3>2, <3>3, ScannedAssumption
    <3> QED BY <2>1, <3>2, <3>3, <3>5, <3>6 DEF Settles
  <2> QED BY <2>2, <2>3
<1>8. CASE FindLast(k)
  <2> DEFINE any == With({"running", "stored", "failed", "completed"})
             s == IF h.repo = Scanned /\ any # {} THEN Greatest(any) ELSE 0
  <2>1. /\ h.pc = "last" /\ UNCHANGED scan
        /\ chat' = [chat EXCEPT ![k].pc = "relevant", ![k].scan = s]
    BY <1>8 DEF FindLast
  <2>2. s \in 0..LastScan
    <3>1. any \in SUBSET (1..LastScan)
      BY DEF With
    <3> HIDE DEF any
    <3>2. any # {} => Greatest(any) \in 1..LastScan
      BY <3>1, GreatestIn
    <3> QED BY <3>2, ScannedAssumption
  <2> HIDE DEF s
  <2>3. Becomes(k, "relevant", s, h.whole, h.items)
    BY <1>1, <2>1, ScanBecomes
  <2>4. /\ chat'[k].pc = "relevant" /\ chat'[k].scan = s
        /\ chat'[k].whole = h.whole /\ chat'[k].items = h.items
    BY <1>1, <2>3, BecomesHas
  <2> QED BY <2>1, <2>2, <2>4 DEF Settles
<1>9. CASE FindRelevant(k)
  <2>1. PICK got \in Relevant(RowsOf(k)) :
          chat' = [chat EXCEPT
            ![k].pc = IF Len(got) >= FetchLimit THEN "conversation" ELSE "fallback",
            ![k].items = got]
    BY <1>9 DEF FindRelevant
  <2>2. h.pc = "relevant" /\ UNCHANGED scan
    BY <1>9 DEF FindRelevant
  <2> DEFINE pc == IF Len(got) >= FetchLimit THEN "conversation" ELSE "fallback"
  <2>3. chat' = [chat EXCEPT ![k].pc = pc, ![k].items = got]
    BY <2>1
  <2> HIDE DEF pc
  <2>4. Becomes(k, pc, h.scan, h.whole, got)
    BY <1>1, <2>3, ItemsBecome
  <2>5. /\ chat'[k].pc = pc /\ chat'[k].scan = h.scan
        /\ chat'[k].whole = h.whole /\ chat'[k].items = got
    BY <1>1, <2>4, BecomesHas
  <2> QED BY <2>1, <2>2, <2>5 DEF Fetches, pc
<1>10. CASE FindOthers(k)
  <2>1. PICK more \in Fallback(RowsOf(k), h.items) :
          chat' = [chat EXCEPT ![k].pc = "conversation",
                               ![k].items = h.items \o more]
    BY <1>10 DEF FindOthers
  <2>2. h.pc = "fallback" /\ UNCHANGED scan
    BY <1>10 DEF FindOthers
  <2> DEFINE all == h.items \o more
  <2>3. chat' = [chat EXCEPT ![k].pc = "conversation", ![k].items = all]
    BY <2>1
  <2> HIDE DEF all
  <2>4. Becomes(k, "conversation", h.scan, h.whole, all)
    BY <1>1, <2>3, ItemsBecome
  <2>5. /\ chat'[k].pc = "conversation" /\ chat'[k].scan = h.scan
        /\ chat'[k].whole = h.whole /\ chat'[k].items = all
    BY <1>1, <2>4, BecomesHas
  <2> QED BY <2>1, <2>2, <2>5 DEF Fills, all
<1>11. CASE OpenConversation(k)
  <2>1. UNCHANGED scan /\ (Refuse(k) \/ \E c : Enter(k, c))
    BY <1>11 DEF OpenConversation
  <2>2. ASSUME NEW c, Enter(k, c)
        PROVE  Forgets(k)
    <3>1. chat' = [chat EXCEPT ![k] = Bare("history", None, c, h.minute)]
      BY <2>2, FreshRow DEF Enter
    <3> QED BY <1>1, <3>1, BareForgets DEF Forgets
  <2> QED BY <1>3, <2>1, <2>2
<1>12. CASE ReadHistory(k)
  <2>1. Reads(k) /\ UNCHANGED scan
    BY <1>1, <1>12, HistoryBecomes DEF ReadHistory
  <2>2. /\ chat'[k].pc = "question" /\ chat'[k].scan = h.scan
        /\ chat'[k].whole = h.whole /\ chat'[k].items = h.items
    BY <1>1, <2>1, RowHas DEF Reads
  <2> QED BY <2>1, <2>2 DEF Passes
<1>13. CASE StoreQuestion(k) \/ StoreAnswer(k)
  BY <1>4, <1>13 DEF StoreQuestion, StoreAnswer
<1>14. CASE LoadAnswer(k)
  <2>1. CASE Refuse(k)
    BY <1>3, <1>14, <2>1 DEF LoadAnswer
  <2>2. CASE ~Refuse(k)
    <3>1. Loads(k) /\ UNCHANGED scan
      BY <1>1, <1>14, <2>2, LoadBecomes DEF LoadAnswer
    <3>2. /\ chat'[k].pc = "done" /\ chat'[k].scan = h.scan
          /\ chat'[k].whole = h.whole /\ chat'[k].items = h.items
      <4> DEFINE nothing == <<>>
                 last == conv[h.conv].messages[Len(conv[h.conv].messages)]
      <4>1. chat' = [chat EXCEPT ![k] =
              Row("done", h.repo, h.conv, h.minute, h.scan, h.whole, h.items, nothing,
                  last)]
        BY <3>1 DEF Loads
      <4> HIDE DEF nothing, last
      <4> QED BY <1>1, <4>1, RowHas
    <3> QED BY <3>1, <3>2 DEF Passes
  <2> QED BY <2>1, <2>2
<1>15. CASE BeginAnswer(k) \/ ReadBody(k)
  <2>1. UNCHANGED scan /\ (Go(k, "body") \/ Go(k, "answer"))
    BY <1>15 DEF BeginAnswer, ReadBody
  <2> QED BY <1>2, <2>1 DEF Passes, Waiting
<1>16. CASE Timeout(k) \/ ProviderFails(k) \/ Lose(k)
  BY <1>3, <1>16 DEF Timeout, ProviderFails, Lose
<1> QED BY <1>5, <1>6, <1>7, <1>8, <1>9, <1>10, <1>11, <1>12, <1>13, <1>14, <1>15,
           <1>16
           DEF ChatStep, Step

\* A disturbance that has not happened had not happened before.
Older == /\ Quiet' => Quiet
         /\ Never({"broken"})' => Never({"broken"})

LEMMA OlderThan ==
  ASSUME \A d \in Disturbances : used'[d] = 0 => used[d] = 0
  PROVE  Older
BY DEF Older, Quiet, Never, Disturbances

\* A chat that did not move in a step that leaves the scans alone.
LEMMA SearchesStays ==
  ASSUME NEW k \in Chats, Searches(k), UNCHANGED scan, chat'[k] = chat[k], Older
  PROVE  Searches(k)'
<1>1. Still(k)' => Still(k)
  BY DEF Still, Older
<1>2. AllItems' = AllItems
  BY DEF AllItems, Found
<1> QED BY <1>1, <1>2 DEF Searches, Older

\* A scan as a record.
Job(st, writes, rows, late) ==
  [st |-> st, writes |-> writes, rows |-> rows, late |-> late]

\* What the steps of a scan are.
ScanGoes(s, st, writes, rows, late) ==
  /\ scan' = [scan EXCEPT ![s] = Job(st, writes, rows, late)]
  /\ UNCHANGED chat

LEMMA ScanSteps ==
  ASSUME Scanning, NEW s \in 1..LastScan, Scan(s)
  PROVE  LET h == scan[s] IN
         \/ /\ h.st = "absent" /\ UNCHANGED used
            /\ ScanGoes(s, "running", h.writes, h.rows, h.late)
         \/ /\ h.st = "running" /\ UNCHANGED used
            /\ ScanGoes(s, "stored", h.writes + 1, Found(s, h.writes), h.late)
         \/ /\ h.st = "stored" /\ UNCHANGED used
            /\ ScanGoes(s, "completed", h.writes, h.rows, h.late)
         \/ /\ h.st \in {"running", "stored"} /\ SpendAll({"broken"})
            /\ ScanGoes(s, "failed", h.writes, h.rows, h.late)
         \/ /\ h.st = "running" /\ SpendAll({"detach"})
            /\ ScanGoes(s, "failed", h.writes, h.rows, h.late + 1)
         \/ /\ \/ h.st = "failed" /\ UNCHANGED used
               \/ h.st = "completed" /\ SpendAll({"rerun"})
            /\ ScanGoes(s, "running", h.writes, h.rows, h.late)
         \/ /\ h.late > 0 /\ UNCHANGED used
            /\ \E kept \in {{}, h.rows} :
                 ScanGoes(s, h.st, h.writes + 1, kept \cup Found(s, h.writes),
                          h.late - 1)
<1> DEFINE h == scan[s]
           n == h.writes + 1
           found == Found(s, h.writes)
<1>1. h = Job(h.st, h.writes, h.rows, h.late)
  BY DEF Scanning, Job
<1>2. ASSUME NEW st, scan' = [scan EXCEPT ![s].st = st], UNCHANGED chat
      PROVE  ScanGoes(s, st, h.writes, h.rows, h.late)
  <2>1. [Job(h.st, h.writes, h.rows, h.late) EXCEPT !.st = st]
          = Job(st, h.writes, h.rows, h.late)
    BY DEF Job
  <2>2. [h EXCEPT !.st = st] = Job(st, h.writes, h.rows, h.late)
    BY <1>1, <2>1
  <2> QED BY <1>2, <2>2 DEF ScanGoes
<1>3. CASE BeginScan(s)
  BY <1>2, <1>3 DEF BeginScan
<1>4. CASE StoreRows(s)
  <2>1. /\ h.st = "running" /\ UNCHANGED <<used, chat>>
        /\ scan' = [scan EXCEPT ![s].st = "stored", ![s].writes = n,
                                ![s].rows = found]
    BY <1>4 DEF StoreRows
  <2> HIDE DEF n, found
  <2>2. [h EXCEPT !.st = "stored"] = Job("stored", h.writes, h.rows, h.late)
    <3>1. [Job(h.st, h.writes, h.rows, h.late) EXCEPT !.st = "stored"]
            = Job("stored", h.writes, h.rows, h.late)
      BY DEF Job
    <3> QED BY <1>1, <3>1
  <2>3. [[h EXCEPT !.st = "stored"] EXCEPT !.writes = n]
          = Job("stored", n, h.rows, h.late)
    <3>1. [Job("stored", h.writes, h.rows, h.late) EXCEPT !.writes = n]
            = Job("stored", n, h.rows, h.late)
      BY DEF Job
    <3> QED BY <2>2, <3>1
  <2>4. [[[h EXCEPT !.st = "stored"] EXCEPT !.writes = n] EXCEPT !.rows = found]
          = Job("stored", n, found, h.late)
    <3>1. [Job("stored", n, h.rows, h.late) EXCEPT !.rows = found]
            = Job("stored", n, found, h.late)
      BY DEF Job
    <3> QED BY <2>3, <3>1
  <2>5. ScanGoes(s, "stored", n, found, h.late)
    BY <2>1, <2>4 DEF ScanGoes
  <2> QED BY <2>1, <2>5 DEF n, found
<1>5. CASE CompleteScan(s)
  BY <1>2, <1>5 DEF CompleteScan
<1>6. CASE FailScan(s)
  BY <1>2, <1>6 DEF FailScan, Spend
<1>7. CASE DetachScan(s)
  <2> DEFINE l == h.late + 1
  <2>1. /\ h.st = "running" /\ SpendAll({"detach"}) /\ UNCHANGED chat
        /\ scan' = [scan EXCEPT ![s].st = "failed", ![s].late = l]
    BY <1>7 DEF DetachScan, Spend
  <2> HIDE DEF l
  <2>2. [h EXCEPT !.st = "failed"] = Job("failed", h.writes, h.rows, h.late)
    <3>1. [Job(h.st, h.writes, h.rows, h.late) EXCEPT !.st = "failed"]
            = Job("failed", h.writes, h.rows, h.late)
      BY DEF Job
    <3> QED BY <1>1, <3>1
  <2>3. [[h EXCEPT !.st = "failed"] EXCEPT !.late = l]
          = Job("failed", h.writes, h.rows, l)
    <3>1. [Job("failed", h.writes, h.rows, h.late) EXCEPT !.late = l]
            = Job("failed", h.writes, h.rows, l)
      BY DEF Job
    <3> QED BY <2>2, <3>1
  <2>4. ScanGoes(s, "failed", h.writes, h.rows, l)
    BY <2>1, <2>3 DEF ScanGoes
  <2> QED BY <2>1, <2>4 DEF l
<1>8. CASE RetryScan(s)
  BY <1>2, <1>8 DEF RetryScan, Spend
<1>9. CASE StoreLate(s)
  <2> DEFINE l == h.late - 1
  <2>1. /\ h.late > 0 /\ UNCHANGED <<used, chat>>
        /\ \E kept \in {{}, h.rows} :
             scan' = [scan EXCEPT ![s].late = l, ![s].writes = n,
                                  ![s].rows = kept \cup found]
    BY <1>9 DEF StoreLate
  <2>2. PICK kept \in {{}, h.rows} :
          scan' = [scan EXCEPT ![s].late = l, ![s].writes = n,
                               ![s].rows = kept \cup found]
    BY <2>1
  <2> DEFINE all == kept \cup found
  <2>3. scan' = [scan EXCEPT ![s].late = l, ![s].writes = n, ![s].rows = all]
    BY <2>2
  <2> HIDE DEF all, l, n
  <2>4. [h EXCEPT !.late = l] = Job(h.st, h.writes, h.rows, l)
    <3>1. [Job(h.st, h.writes, h.rows, h.late) EXCEPT !.late = l]
            = Job(h.st, h.writes, h.rows, l)
      BY DEF Job
    <3> QED BY <1>1, <3>1
  <2>5. [[h EXCEPT !.late = l] EXCEPT !.writes = n] = Job(h.st, n, h.rows, l)
    <3>1. [Job(h.st, h.writes, h.rows, l) EXCEPT !.writes = n]
            = Job(h.st, n, h.rows, l)
      BY DEF Job
    <3> QED BY <2>4, <3>1
  <2>6. [[[h EXCEPT !.late = l] EXCEPT !.writes = n] EXCEPT !.rows = all]
          = Job(h.st, n, all, l)
    <3>1. [Job(h.st, n, h.rows, l) EXCEPT !.rows = all] = Job(h.st, n, all, l)
      BY DEF Job
    <3> QED BY <2>5, <3>1
  <2>7. ScanGoes(s, h.st, n, all, l)
    BY <2>1, <2>3, <2>6 DEF ScanGoes
  <2> QED BY <2>1, <2>7 DEF all, l, n
<1> QED BY <1>3, <1>4, <1>5, <1>6, <1>7, <1>8, <1>9 DEF Scan

\* What scans do to the rows that a chat reads.
LEMMA ScanEffect ==
  ASSUME Typed, Scanning, NEW s \in 1..LastScan, Scan(s)
  PROVE  /\ Scanning' /\ UNCHANGED chat /\ Older
         /\ \A t \in 1..LastScan :
              /\ Quiet' /\ scan[t].st = "completed" =>
                   scan'[t].st = "completed" /\ scan'[t].rows = scan[t].rows
              /\ Calm' => scan'[t].rows = scan[t].rows \/ scan[t].rows = {}
<1> DEFINE h == scan[s]
           States == {"absent", "running", "stored", "failed", "completed"}
<1>1. /\ scan = [t \in 1..LastScan |-> scan[t]]
      /\ h.st \in States /\ h.writes \in Nat /\ h.rows \subseteq AllItems
      /\ h.late \in Nat /\ IsFiniteSet(h.rows)
      /\ Quiet => Once(h.rows) /\ h.late = 0
      /\ h.st = "absent" => h.rows = {} /\ h.late = 0
      /\ Calm => h.st # "failed" /\ (h.st = "running" => h.rows = {})
  BY DEF Scanning
<1>2. /\ UNCHANGED chat
      /\ UNCHANGED used \/ \E d \in {"broken", "detach", "rerun"} : SpendAll({d})
  BY ScanSteps DEF ScanGoes
<1>3. /\ \A d \in Disturbances : used'[d] = 0 => used[d] = 0
      /\ \A d \in Disturbances : SpendAll({d}) => used'[d] # 0
  <2>1. ASSUME NEW d \in Disturbances, SpendAll({d})
        PROVE  \A e \in Disturbances : used'[e] = 0 => used[e] = 0 /\ e \notin {d}
    BY <2>1, Spent DEF Typed
  <2>2. CASE UNCHANGED used
    BY <2>1, <2>2
  <2>3. CASE \E d \in {"broken", "detach", "rerun"} : SpendAll({d})
    BY <2>1, <2>3 DEF Disturbances
  <2> QED BY <1>2, <2>2, <2>3
<1>4. Older
  BY <1>3, OlderThan
<1>5. /\ SpendAll({"rerun"}) \/ SpendAll({"detach"}) => ~Quiet'
      /\ SpendAll({"broken"}) => ~Never({"broken"})'
  BY <1>3 DEF Quiet, Never, Disturbances
<1>6. (Calm' => Quiet' /\ Never({"broken"})' /\ Calm) /\ (Calm => Quiet)
  BY <1>4 DEF Calm, Older
<1>7. UNCHANGED used => (Quiet' <=> Quiet)
  BY DEF Quiet, Never
<1>8. Found(s, h.writes) \subseteq AllItems /\ IsFiniteSet(Found(s, h.writes))
      /\ Once(Found(s, h.writes))
  BY <1>1, FoundRows
<1> DEFINE Fits(st, writes, rows, late) ==
             /\ ScanGoes(s, st, writes, rows, late)
             /\ st \in States \ {"absent"} /\ writes \in Nat /\ late \in Nat
             /\ rows \subseteq AllItems /\ IsFiniteSet(rows)
             /\ Quiet' => Once(rows) /\ late = 0
             /\ Calm' => /\ st # "failed" /\ (st = "running" => rows = {})
                         /\ rows = h.rows \/ h.rows = {}
             /\ Quiet' /\ h.st = "completed" => st = "completed" /\ rows = h.rows
           Goal ==
             /\ Scanning'
             /\ \A t \in 1..LastScan :
                  /\ Quiet' /\ scan[t].st = "completed" =>
                       scan'[t].st = "completed" /\ scan'[t].rows = scan[t].rows
                  /\ Calm' => scan'[t].rows = scan[t].rows \/ scan[t].rows = {}
<1>9. ASSUME NEW st, NEW writes, NEW rows, NEW late, Fits(st, writes, rows, late)
      PROVE  Goal
  <2>1. /\ scan' = [t \in 1..LastScan |-> scan'[t]]
        /\ scan'[s] = Job(st, writes, rows, late)
        /\ \A t \in (1..LastScan) \ {s} : scan'[t] = scan[t]
    BY <1>1, <1>9 DEF ScanGoes
  <2>2. /\ scan'[s].st = st /\ scan'[s].writes = writes
        /\ scan'[s].rows = rows /\ scan'[s].late = late
    BY <2>1 DEF Job
  <2>3. scan'[s] \in [st : States, writes : Nat, rows : SUBSET AllItems, late : Nat]
    BY <1>9, <2>1 DEF Job
  <2>4. AllItems' = AllItems
    BY DEF AllItems, Found
  <2>5. ASSUME NEW t \in 1..LastScan
        PROVE  /\ scan'[t] \in [st : States, writes : Nat, rows : SUBSET AllItems,
                                late : Nat]
               /\ IsFiniteSet(scan'[t].rows)
               /\ Quiet' => Once(scan'[t].rows) /\ scan'[t].late = 0
               /\ scan'[t].st = "absent" => scan'[t].rows = {} /\ scan'[t].late = 0
               /\ Calm' => /\ scan'[t].st # "failed"
                           /\ scan'[t].st = "running" => scan'[t].rows = {}
    <3>1. CASE t = s
      BY <1>9, <2>2, <2>3, <3>1
    <3>2. CASE t # s
      BY <1>4, <1>6, <2>1, <3>2 DEF Scanning, Older
    <3> QED BY <3>1, <3>2
  <2>6. Scanning'
    BY <2>1, <2>4, <2>5 DEF Scanning, Once
  <2>7. ASSUME NEW t \in 1..LastScan
        PROVE  /\ Quiet' /\ scan[t].st = "completed" =>
                    scan'[t].st = "completed" /\ scan'[t].rows = scan[t].rows
               /\ Calm' => scan'[t].rows = scan[t].rows \/ scan[t].rows = {}
    <3>1. CASE t = s
      BY <1>9, <2>2, <3>1
    <3>2. CASE t # s
      BY <2>1, <3>2
    <3> QED BY <3>1, <3>2
  <2> QED BY <2>6, <2>7
<1>10. ASSUME NEW st \in {"running", "stored", "failed", "completed"},
              ScanGoes(s, st, h.writes, h.rows, h.late),
              Calm' => st # "failed" /\ (st = "running" => h.rows = {}),
              Quiet' => h.st # "completed"
       PROVE  Fits(st, h.writes, h.rows, h.late)
  BY <1>1, <1>4, <1>10 DEF Older
<1>11. ASSUME h.st = "running", UNCHANGED used,
              ScanGoes(s, "stored", h.writes + 1, Found(s, h.writes), h.late)
       PROVE  Fits("stored", h.writes + 1, Found(s, h.writes), h.late)
  BY <1>1, <1>4, <1>6, <1>8, <1>11 DEF Older
<1>12. ASSUME h.st = "running", SpendAll({"detach"}),
              ScanGoes(s, "failed", h.writes, h.rows, h.late + 1)
       PROVE  Fits("failed", h.writes, h.rows, h.late + 1)
  BY <1>1, <1>5, <1>6, <1>12
<1>13. ASSUME h.late > 0, UNCHANGED used, NEW kept \in {{}, h.rows},
              ScanGoes(s, h.st, h.writes + 1, kept \cup Found(s, h.writes), h.late - 1)
       PROVE  Fits(h.st, h.writes + 1, kept \cup Found(s, h.writes), h.late - 1)
  <2> DEFINE rows == kept \cup Found(s, h.writes)
  <2>1. IsFiniteSet(rows) /\ rows \subseteq AllItems
    BY <1>1, <1>8, <1>13, FS_EmptySet, FS_Union
  <2>2. /\ h.writes + 1 \in Nat /\ h.late - 1 \in Nat
        /\ h.st # "absent" /\ ~Quiet' /\ ~Calm'
    BY <1>1, <1>6, <1>7, <1>13
  <2>3. ScanGoes(s, h.st, h.writes + 1, rows, h.late - 1)
    BY <1>13
  <2> HIDE DEF rows
  <2>4. Fits(h.st, h.writes + 1, rows, h.late - 1)
    BY <1>1, <2>1, <2>2, <2>3
  <2> QED BY <2>4 DEF rows
<1> HIDE DEF Fits, Goal
<1>14. ASSUME h.st = "absent", ScanGoes(s, "running", h.writes, h.rows, h.late)
       PROVE  Goal
  <2>1. Fits("running", h.writes, h.rows, h.late)
    BY <1>1, <1>10, <1>14
  <2> QED BY <1>9, <2>1
<1>15. ASSUME h.st = "stored", ScanGoes(s, "completed", h.writes, h.rows, h.late)
       PROVE  Goal
  <2>1. Fits("completed", h.writes, h.rows, h.late)
    BY <1>10, <1>15
  <2> QED BY <1>9, <2>1
<1>16. ASSUME h.st \in {"running", "stored"}, SpendAll({"broken"}),
              ScanGoes(s, "failed", h.writes, h.rows, h.late)
       PROVE  Goal
  <2>1. Fits("failed", h.writes, h.rows, h.late)
    BY <1>5, <1>6, <1>10, <1>16
  <2> QED BY <1>9, <2>1
<1>17. ASSUME \/ h.st = "failed" /\ UNCHANGED used
              \/ h.st = "completed" /\ SpendAll({"rerun"}),
              ScanGoes(s, "running", h.writes, h.rows, h.late)
       PROVE  Goal
  <2>1. ~Calm' /\ (Quiet' => h.st # "completed")
    BY <1>1, <1>5, <1>6, <1>17
  <2>2. Fits("running", h.writes, h.rows, h.late)
    BY <1>10, <1>17, <2>1
  <2> QED BY <1>9, <2>2
<1>18. Goal
  <2>1. ASSUME h.st = "running", UNCHANGED used,
               ScanGoes(s, "stored", h.writes + 1, Found(s, h.writes), h.late)
        PROVE  Goal
    BY <1>9, <1>11, <2>1
  <2>2. ASSUME h.st = "running", SpendAll({"detach"}),
               ScanGoes(s, "failed", h.writes, h.rows, h.late + 1)
        PROVE  Goal
    BY <1>9, <1>12, <2>2
  <2>3. ASSUME h.late > 0, UNCHANGED used, NEW kept \in {{}, h.rows},
               ScanGoes(s, h.st, h.writes + 1, kept \cup Found(s, h.writes),
                        h.late - 1)
        PROVE  Goal
    BY <1>9, <1>13, <2>3
  <2> QED BY <1>14, <1>15, <1>16, <1>17, <2>1, <2>2, <2>3, ScanSteps
<1> QED BY <1>2, <1>4, <1>18 DEF Goal

\* A chat between its queries does not mind what scans do.
LEMMA SearchesWhileScanning ==
  ASSUME Typed, Retrieved, NEW s \in 1..LastScan, Scan(s), NEW k \in Chats
  PROVE  Searches(k)'
<1> DEFINE h == chat[k]
<1>1. /\ chat'[k] = h /\ Older
      /\ \A t \in 1..LastScan :
           /\ Quiet' /\ scan[t].st = "completed" =>
                scan'[t].st = "completed" /\ scan'[t].rows = scan[t].rows
           /\ Calm' => scan'[t].rows = scan[t].rows \/ scan[t].rows = {}
  BY ScanEffect DEF Retrieved
<1>2. Searches(k)
  BY DEF Retrieved
<1>3. AllItems' = AllItems
  BY DEF AllItems, Found
<1>4. Still(k)' => Still(k) /\ Quiet' /\ (h.whole \/ Calm')
  BY <1>1 DEF Still, Older, Calm
<1>5. ASSUME h.pc \in {"relevant", "fallback", "conversation"}, h.whole, Quiet'
      PROVE  /\ h.scan # 0 /\ scan'[h.scan].st = "completed"
             /\ scan'[h.scan].rows = scan[h.scan].rows
  <2>1. h.scan \in 0..LastScan /\ h.scan # 0 /\ scan[h.scan].st = "completed"
    BY <1>1, <1>2, <1>5 DEF Searches, Older
  <2>2. h.scan \in 1..LastScan
    BY <2>1, ScannedAssumption
  <2> QED BY <1>1, <1>5, <2>1, <2>2
<1>6. ASSUME h.pc = "fallback", Still(k)'
      PROVE  \/ h.items \in Relevant(scan'[h.scan].rows)
             \/ h.items = <<>> /\ ~h.whole
  <2>1. /\ h.scan \in 1..LastScan
        /\ h.items \in Relevant(scan[h.scan].rows) \/ (h.items = <<>> /\ ~h.whole)
    BY <1>2, <1>4, <1>6, ScannedAssumption DEF Searches, Still
  <2>2. CASE scan'[h.scan].rows = scan[h.scan].rows
    BY <2>1, <2>2
  <2>3. CASE scan[h.scan].rows = {} /\ ~h.whole
    <3>1. h.items = <<>>
      <4>1. Relevant(scan[h.scan].rows) = Relevant({})
        BY <2>3, Zenon
      <4> QED BY <2>1, <4>1, NoRows
    <3> QED BY <2>3, <3>1
  <2> QED BY <1>1, <1>4, <1>5, <1>6, <2>1, <2>2, <2>3
<1>7. ASSUME h.pc = "conversation", Still(k)', h.whole
      PROVE  \/ \A x \in Range(h.items) : x.relevant
             \/ \A x \in scan'[h.scan].rows : x.relevant => x \in Range(h.items)
  BY <1>2, <1>4, <1>5, <1>7 DEF Searches
<1>8. h.pc = "conversation" /\ Still(k)' => RouteOnce(h.items)
  BY <1>2, <1>4 DEF Searches
<1> QED BY <1>1, <1>2, <1>3, <1>5, <1>6, <1>7, <1>8 DEF Searches

\* Every move of a chat keeps what it may say of its items.
LEMMA SearchesMoves ==
  ASSUME Typed, Room, Retrieved, NEW k \in Chats, ChatStep(k)
  PROVE  Searches(k)'
<1> DEFINE h == chat[k]
           rows == RowsOf(k)
<1>1. /\ UNCHANGED scan
      /\ Forgets(k) \/ Passes(k) \/ Settles(k) \/ Fetches(k) \/ Fills(k)
  BY SearchMoves
<1>2. Older
  BY TablesTyped, OlderThan
<1>3. Scanning /\ Searches(k)
  BY DEF Retrieved
<1>4. AllItems' = AllItems /\ <<>> \in Seq(AllItems)
  BY DEF AllItems, Found
<1>5. CASE Forgets(k)
  BY <1>4, <1>5 DEF Forgets, Searches
<1>6. CASE Passes(k)
  BY <1>1, <1>3, <1>4, <1>6 DEF Passes, Searches, Waiting
<1>7. CASE Settles(k)
  BY <1>1, <1>3, <1>4, <1>7 DEF Settles, Searches
<1>8. ASSUME chat'[k].scan = h.scan, chat'[k].whole = h.whole,
             h.pc \in {"relevant", "fallback"}
      PROVE  /\ h.scan \in 0..LastScan /\ chat'[k].scan \in 0..LastScan
             /\ rows \subseteq AllItems /\ IsFiniteSet(rows)
             /\ chat'[k].whole /\ Quiet' =>
                  chat'[k].scan # 0 /\ scan'[chat'[k].scan].st = "completed"
             /\ Still(k)' => /\ Still(k) /\ Once(rows)
                             /\ rows = scan[h.scan].rows
                             /\ rows = scan'[chat'[k].scan].rows
  <2>1. h.scan \in 0..LastScan
    BY <1>3, <1>8 DEF Searches
  <2>2. /\ rows \subseteq AllItems /\ IsFiniteSet(rows)
        /\ h.scan # 0 => /\ rows = scan[h.scan].rows
                         /\ Quiet => Once(rows)
    BY <1>3, <2>1, RowsTyped
  <2> HIDE DEF rows
  <2>3. Still(k)' => Still(k) /\ Quiet /\ h.scan # 0
    BY <1>2, <1>8 DEF Still, Older
  <2>4. chat'[k].whole /\ Quiet' =>
          chat'[k].scan # 0 /\ scan'[chat'[k].scan].st = "completed"
    BY <1>1, <1>2, <1>3, <1>8 DEF Searches, Older
  <2> QED BY <1>1, <1>8, <2>1, <2>2, <2>3, <2>4
<1>9. CASE Fetches(k)
  <2>1. PICK got \in Relevant(rows) :
          /\ h.pc = "relevant"
          /\ chat'[k].pc = IF Len(got) >= FetchLimit THEN "conversation" ELSE "fallback"
          /\ chat'[k].scan = h.scan /\ chat'[k].whole = h.whole
          /\ chat'[k].items = got
    BY <1>9 DEF Fetches
  <2>2. /\ chat'[k].scan \in 0..LastScan
        /\ rows \subseteq AllItems /\ IsFiniteSet(rows)
        /\ chat'[k].whole /\ Quiet' =>
             chat'[k].scan # 0 /\ scan'[chat'[k].scan].st = "completed"
        /\ Still(k)' => Once(rows) /\ rows = scan'[chat'[k].scan].rows
    BY <1>8, <2>1
  <2> HIDE DEF rows
  <2>3. /\ got \in Seq(rows) /\ IsInjective(got) /\ Range(got) \subseteq rows
        /\ \A x \in Range(got) : x.relevant
    BY <2>1, <2>2, RelevantFacts
  <2>4. got \in Seq(AllItems) /\ Len(got) \in Nat /\ FetchLimit \in Nat
    BY <2>2, <2>3, SeqMonotonic, LimitsAssumption
  <2>5. Still(k)' => RouteOnce(got) /\ got \in Relevant(scan'[chat'[k].scan].rows)
    BY <2>1, <2>2, <2>3 DEF RouteOnce, Once
  <2>6. /\ chat'[k].pc \in {"fallback", "conversation"}
        /\ chat'[k].pc = "fallback" => Len(got) < FetchLimit
    BY <2>1, <2>4
  <2> QED BY <1>4, <2>1, <2>2, <2>3, <2>4, <2>5, <2>6 DEF Searches
<1>10. CASE Fills(k)
  <2> DEFINE got == h.items
  <2>1. PICK more \in Fallback(rows, got) :
          /\ h.pc = "fallback" /\ chat'[k].pc = "conversation"
          /\ chat'[k].scan = h.scan /\ chat'[k].whole = h.whole
          /\ chat'[k].items = got \o more
    BY <1>10 DEF Fills
  <2>2. /\ chat'[k].scan \in 0..LastScan
        /\ rows \subseteq AllItems /\ IsFiniteSet(rows)
        /\ chat'[k].whole /\ Quiet' =>
             chat'[k].scan # 0 /\ scan'[chat'[k].scan].st = "completed"
        /\ Still(k)' => /\ Still(k) /\ Once(rows)
                        /\ rows = scan[h.scan].rows
                        /\ rows = scan'[chat'[k].scan].rows
    BY <1>8, <2>1
  <2>3. /\ got \in Seq(AllItems) /\ Len(got) < FetchLimit
        /\ Still(k) => \/ got \in Relevant(scan[h.scan].rows)
                       \/ got = <<>> /\ ~h.whole
    BY <1>3, <2>1 DEF Searches
  <2>4. Len(got) <= FetchLimit
    BY <2>3, LimitsAssumption
  <2> DEFINE all == got \o more
  <2> HIDE DEF rows, got
  <2>5. /\ more \in Seq(rows) /\ IsInjective(more) /\ Range(more) \subseteq rows
        /\ Range(more) \cap Range(got) = {}
    BY <2>1, <2>2, <2>3, <2>4, FallbackFacts
  <2>6. more \in Seq(AllItems)
    BY <2>2, <2>5, SeqMonotonic
  <2>7. all \in Seq(AllItems) /\ Range(all) = Range(got) \cup Range(more)
    BY <2>3, <2>6, ConcatProperties, RangeConcatenation
  <2>8. ASSUME Still(k)'
        PROVE  /\ RouteOnce(all)
               /\ h.whole => \A x \in rows : x.relevant => x \in Range(all)
    <3>1. CASE got \in Relevant(rows)
      <4>1. /\ Range(got) \subseteq rows /\ IsInjective(got)
            /\ \A x \in rows : x.relevant => x \in Range(got)
        BY <2>2, <2>3, <3>1, RelevantFacts
      <4>2. IsInjective(all)
        BY <2>3, <2>5, <2>6, <4>1, ConcatOnce
      <4> HIDE DEF all
      <4>3. Range(all) \subseteq rows
        BY <2>5, <2>7, <4>1
      <4> QED BY <2>2, <2>7, <2>8, <4>1, <4>2, <4>3 DEF RouteOnce, Once
    <3>2. CASE got = <<>> /\ ~h.whole
      <4>1. all = more
        BY <2>6, <3>2, ConcatEmptySeq
      <4> QED BY <2>2, <2>5, <2>8, <3>2, <4>1 DEF RouteOnce, Once
    <3> QED BY <2>2, <2>3, <2>8, <3>1, <3>2
  <2>9. chat'[k].items = all
    BY <2>1
  <2> HIDE DEF all
  <2> QED BY <1>4, <2>1, <2>2, <2>7, <2>8, <2>9 DEF Searches
<1> QED BY <1>1, <1>5, <1>6, <1>7, <1>9, <1>10

LEMMA RetrievedNext ==
  ASSUME Typed, Room, Retrieved, [Next]_vars
  PROVE  Retrieved'
<1>1. ASSUME UNCHANGED scan, Older
      PROVE  Scanning'
  <2>1. AllItems' = AllItems /\ (Calm' => Calm)
    BY <1>1 DEF AllItems, Found, Calm, Older
  <2> QED BY <1>1, <2>1 DEF Retrieved, Scanning, Older, Once
<1>2. ASSUME NEW k \in Chats, ChatStep(k)
      PROVE  Retrieved'
  <2>1. UNCHANGED scan /\ Older
    BY <1>2, SearchMoves, TablesTyped, OlderThan
  <2>2. Searches(k)'
    BY <1>2, SearchesMoves
  <2>3. ASSUME NEW j \in Chats \ {k}
        PROVE  Searches(j)'
    <3>1. chat'[j] = chat[j] /\ Searches(j)
      BY <1>2, <2>3, MoveTyped DEF Retrieved
    <3> QED BY <2>1, <3>1, SearchesStays
  <2> QED BY <1>1, <2>1, <2>2, <2>3 DEF Retrieved
<1>3. ASSUME UNCHANGED <<scan, chat>>, Older
      PROVE  Retrieved'
  <2>1. ASSUME NEW k \in Chats
        PROVE  Searches(k)'
    BY <1>3, SearchesStays DEF Retrieved
  <2> QED BY <1>1, <1>3, <2>1 DEF Retrieved
<1>4. ASSUME NEW c \in Conversations, Delete(c)
      PROVE  Retrieved'
  <2>1. UNCHANGED <<scan, chat>>
    BY <1>4 DEF Delete
  <2>2. Older
    BY <1>4, DeleteEffect, OlderThan
  <2> QED BY <1>3, <2>1, <2>2
<1>5. ASSUME NEW s \in 1..LastScan, Scan(s)
      PROVE  Retrieved'
  BY <1>5, ScanEffect, SearchesWhileScanning DEF Retrieved
<1>6. CASE Tick \/ UNCHANGED vars
  <2>1. UNCHANGED <<scan, chat, used>>
    BY <1>6 DEF Tick, vars
  <2>2. Older
    BY <2>1, OlderThan
  <2> QED BY <1>3, <2>1, <2>2
<1> QED BY <1>2, <1>4, <1>5, <1>6 DEF Next, ChatStep

LEMMA RetrievedInit ==
  ASSUME Init
  PROVE  Retrieved
<1>1. Scanning
  <2> DEFINE absent == "absent"
             nothing == {}
             no == Job(absent, 0, nothing, 0)
  <2>1. /\ scan = [s \in 1..LastScan |-> NoScan] /\ NoScan = no
    BY DEF Init, NoScan, Job
  <2>2. no.st = absent /\ no.rows = nothing /\ no.late = 0
    BY DEF Job
  <2>3. no \in [st : {"absent", "running", "stored", "failed", "completed"},
                writes : Nat, rows : SUBSET AllItems, late : Nat]
    BY DEF Job
  <2>4. /\ IsFiniteSet(nothing) /\ Once(nothing) /\ nothing = {}
        /\ absent = "absent" /\ absent # "failed" /\ absent # "running"
    BY FS_EmptySet DEF Once
  <2> HIDE DEF no, absent, nothing
  <2>5. \A s \in 1..LastScan : scan[s] = no
    BY <2>1
  <2>6. scan = [s \in 1..LastScan |-> scan[s]]
    BY <2>1
  <2> QED BY <2>2, <2>3, <2>4, <2>5, <2>6 DEF Scanning
<1>2. ASSUME NEW k \in Chats
      PROVE  Searches(k)
  <2> DEFINE no == FALSE
             nothing == <<>>
             N == Row("new", None, None, 0, 0, no, nothing, nothing, None)
  <2>1. New = N
    BY Zenon DEF New, Row
  <2>2. nothing \in Seq(AllItems) /\ nothing = <<>>
    BY EmptySeq
  <2>3. chat[k] = N
    BY <2>1 DEF Init
  <2> HIDE DEF no, nothing
  <2>4. chat[k].pc = "new" /\ chat[k].items = nothing
    BY <2>3 DEF Row
  <2> QED BY <2>2, <2>4 DEF Searches
<1> QED BY <1>1, <1>2 DEF Retrieved

LEMMA Contexts ==
  ASSUME Retrieved
  PROVE  ContextIsBest
<1>1. ASSUME NEW k \in Chats, chat[k].pc = "conversation"
      PROVE  LET items == chat[k].items
                 text == Joined(Sections(Chosen(items)))
                 steady == chat[k].scan # 0 /\ Never({"rerun", "detach"})
             IN  /\ TextSize(text) <= MaxCharacters
                 /\ steady /\ (chat[k].whole \/ Never({"broken"})) =>
                      Cardinality({x.route : x \in Range(items)}) = Len(items)
                 /\ /\ chat[k].whole /\ steady
                    /\ \E x \in Range(items) : ~x.relevant
                    => \A x \in RowsOf(k) : x.relevant => x \in Range(items)
                 /\ \A x, y \in Range(items) :
                      x \in Range(Chosen(items)) /\ y \notin Range(Chosen(items)) =>
                        x.score >= y.score
  <2> DEFINE items == chat[k].items
             best == Chosen(items)
             steady == chat[k].scan # 0 /\ Never({"rerun", "detach"})
  <2>1. /\ items \in Seq(AllItems)
        /\ Still(k) =>
             /\ RouteOnce(items)
             /\ chat[k].whole =>
                  \/ \A x \in Range(items) : x.relevant
                  \/ \A x \in scan[chat[k].scan].rows :
                       x.relevant => x \in Range(items)
    BY <1>1 DEF Retrieved, Searches
  <2>2. steady /\ (chat[k].whole \/ Never({"broken"})) => Still(k)
    BY DEF Still, Quiet
  <2>3. steady => RowsOf(k) = scan[chat[k].scan].rows
    BY DEF RowsOf
  <2> HIDE DEF items, steady
  <2>4. Scored(items)
    BY <2>1, RangeOfSeq, AllItemsTyped DEF Scored
  <2>5. /\ best \in Seq(Range(items))
        /\ \A x, y \in Range(items) :
             x \in Range(best) /\ y \notin Range(best) => x.score >= y.score
    BY <2>1, <2>4, ChosenAreBest
  <2> HIDE DEF best
  <2>6. \A x \in Range(items) : x.size \in Nat
    BY <2>1, RangeOfSeq, AllItemsTyped
  <2>7. Sections(best) \in Seq(Nat)
    BY <2>5, <2>6, SectionsHaveSizes
  <2>8. TextSize(Joined(Sections(best))) <= MaxCharacters
    BY <2>7, JoinedFits
  <2>9. Still(k) => Cardinality({x.route : x \in Range(items)}) = Len(items)
    <3> SUFFICES ASSUME Still(k)
                 PROVE  Cardinality({x.route : x \in Range(items)}) = Len(items)
      OBVIOUS
    <3>1. IsInjective(items) /\ \A x, y \in Range(items) : x.route = y.route => x = y
      BY <2>1 DEF RouteOnce, Once
    <3> QED BY <2>1, <3>1, CardinalityOnce
  <2>10. /\ chat[k].whole /\ steady
         /\ \E x \in Range(items) : ~x.relevant
         => \A x \in RowsOf(k) : x.relevant => x \in Range(items)
    BY <2>1, <2>2, <2>3
  <2> QED BY <2>2, <2>5, <2>8, <2>9, <2>10, Zenon DEF items, best, steady
<1> QED BY <1>1, Zenon DEF ContextIsBest

-----------------------------------------------------------------------------
(* Theorems                                                                *)

LEMMA Types ==
  ASSUME IInv
  PROVE  TypeOK
<1> DEFINE first(w) == IF w = 1 THEN 1 ELSE 0
<1>1. \A k \in Chats : chat[k].pc \in Steps
  BY DEF IInv, Typed, ChatRow
<1>2. ASSUME NEW w \in 1..Windows
      PROVE  /\ Cardinality(Passed(w) \cup Answered(w)) + first(w) <= PerMinute
             /\ key[w].count > 0 /\ Never({"lost"}) =>
                  key[w].expires \/ \E k \in Chats : chat[k].pc = "expire"
  <2>1. /\ IsFiniteSet(Let(w)) /\ Cardinality(Let(w)) + first(w) <= PerMinute
        /\ Expires(w)
    BY DEF IInv, Limited, Counted
  <2>2. Passed(w) \cup Answered(w) \subseteq Let(w)
    BY DEF Let
  <2>3. /\ IsFiniteSet(Passed(w) \cup Answered(w))
        /\ Cardinality(Passed(w) \cup Answered(w)) <= Cardinality(Let(w))
    BY <2>1, <2>2, FS_Subset
  <2>4. /\ Cardinality(Passed(w) \cup Answered(w)) \in Nat
        /\ Cardinality(Let(w)) \in Nat /\ PerMinute \in Nat
    BY <2>1, <2>3, FS_CardinalityType, BoundsAssumption
  <2>5. Cardinality(Passed(w) \cup Answered(w)) + first(w) <= PerMinute
    BY <2>1, <2>3, <2>4
  <2> QED BY <2>1, <2>5 DEF Expires
<1>3. \A c \in Conversations :
        /\ conv[c].st \in {"absent", "open", "deleted"}
        /\ conv[c].st # "open" => conv[c].messages = <<>>
  BY DEF IInv, Typed, ConversationRows
<1>4. \A d \in Disturbances : used[d] \in 0..Limit[d]
  BY LimitAssumption DEF IInv, Typed
<1> QED BY <1>1, <1>2, <1>3, <1>4 DEF TypeOK, IInv, Typed

LEMMA Answers ==
  ASSUME IInv
  PROVE  AnswersFollowQuestions
BY DEF IInv, Spoken, Told, Returns, AnswersFollowQuestions

LEMMA Prompts ==
  ASSUME IInv
  PROVE  PromptIsRecent
<1>1. ASSUME NEW k \in Chats, chat[k].pc \in {"question", "complete", "body"}
      PROVE  [role |-> "USER", of |-> k] \notin Range(chat[k].history)
  <2>1. \A n \in DOMAIN chat[k].history : chat[k].history[n].of # k
    BY <1>1 DEF IInv, Spoken, Recalls
  <2> QED BY <2>1 DEF Range
<1> QED BY <1>1 DEF IInv, Spoken, Recalls, PromptIsRecent

\* No window of the rate limit lets more chats pass than allowed, and only a
\* process that dies between the two Redis calls leaves a key that lasts
\* (AiRateLimitService.assertAllowed).
THEOREM ChatsTyped == Spec => []TypeOK
BY Always, Types, PTL

\* An answer is stored once and after its question, and what a chat returns is
\* its own answer unless two chats overlapped (AiChatService.chat).
THEOREM AnswersFollow == Spec => []AnswersFollowQuestions
BY Always, Answers, PTL

\* The provider is told the latest messages before the question, in their
\* order, and never the question twice (AiChatService.createProviderMessages).
THEOREM PromptsRecent == Spec => []PromptIsRecent
BY Always, Prompts, PTL

\* The text of a context keeps the character limit and the best of what was
\* retrieved are chosen, always.  Where rows do not change between the two
\* queries it has every route once and, of a completed scan, no other item while
\* a relevant one is left out (listRelevantApis, rankApis and
\* joinSectionsWithinBudget).
THEOREM ContextsBest == Spec => []ContextIsBest
<1>1. Init => IInv /\ Retrieved
  BY Initial, RetrievedInit
<1>2. (IInv /\ Retrieved) /\ [Next]_vars => (IInv /\ Retrieved)'
  BY Inductive, RetrievedNext DEF IInv
<1>3. Retrieved => ContextIsBest
  BY Contexts
<1> QED BY <1>1, <1>2, <1>3, PTL DEF Spec
=============================================================================
