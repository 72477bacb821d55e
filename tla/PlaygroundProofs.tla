-------------------------- MODULE PlaygroundProofs --------------------------
(***************************************************************************)
(* Proofs about Playground for any number of requests, messages and        *)
(* reloads: as long as the list is not disturbed, a live stream is shown,  *)
(* answers stay in their messages, and loading leaves nothing unfinished;  *)
(* and with streaming only a suggestion or the editor disturbs it.         *)
(***************************************************************************)
EXTENDS Playground, SequenceTheorems, TLAPS

Status == Unfinished \cup {"none", "complete", "error"}
Message == [key : Keys, from : SUBSET Requests, status : Status]

\* Only answers of the assistant are unfinished.
AnswersInv ==
  \A i \in DOMAIN messages :
    messages[i].status \in Unfinished => IsAssistant(messages[i])

\* Why answers need no address: the message that the one live request was
\* sent for is the last of the list, and nothing before it waits.
ListInv ==
  ~disturbed =>
    /\ \A r \in live : messages # <<>> /\ messages[Len(messages)].key = r
    /\ \A i \in 1..(Len(messages) - 1) : messages[i].status \notin Unfinished

\* What the reference is good for: it is set, and the page was rendered
\* since, while a stream is live or a message waits for one that was cut off.
StreamInv ==
  stream /\ ~disturbed =>
    /\ \A r \in live : sseSourceRef = r /\ isGenerating /\ ~isStreamComplete
    /\ (\E i \in DOMAIN messages : messages[i].status \in Unfinished) =>
         sseSourceRef # 0 /\ isGenerating

IInv ==
  /\ TypeOK
  /\ AnswersInv
  /\ ListInv
  /\ StreamInv
  /\ OwnReply
-----------------------------------------------------------------------------
(***************************************************************************)
(* Lists of messages                                                       *)
(***************************************************************************)

\* A message of the list, perhaps with its content typed over, or one of the
\* two messages of the request r.
Derived(m, r) ==
  \/ \E j \in DOMAIN messages :
       /\ m.key = messages[j].key
       /\ m.status = messages[j].status
       /\ m.from \subseteq messages[j].from
  \/ m = UserMessage(r)
  \/ m = LoadingMessage(r)

\* A new list of such messages, which ends with the request's if it is sent.
NewList(list, r) ==
  /\ list \in Seq(Message)
  /\ Len(list) <= MaxMessages
  /\ \A i \in 1..Len(list) : Derived(list[i], r)

\* It brings no message that waits unless there was one.
NoneNewWaits(list) ==
  \A k \in 1..Len(list) : list[k].status \in Unfinished =>
    \E j \in DOMAIN messages : messages[j].status \in Unfinished

LEMMA MessagesAre ==
  ASSUME TypeOK
  PROVE  /\ messages \in Seq(Message)
         /\ Len(messages) \in Nat
         /\ DOMAIN messages = 1..Len(messages)
         /\ \A i \in 1..Len(messages) : messages[i] \in Message
<1>1. messages \in Seq(Message)
  BY DEF TypeOK, Message, Status
<1>2. QED
  BY <1>1, LenProperties, ElementOfSeq

LEMMA NewMessages ==
  ASSUME NEW r \in Requests
  PROVE  /\ UserMessage(r) \in Message
         /\ LoadingMessage(r) \in Message
<1>1. r \in Keys /\ -r \in Keys
  BY PlaygroundAssumption DEF Requests, Keys
<1>2. QED
  BY <1>1 DEF UserMessage, LoadingMessage, Message, Status, Unfinished

LEMMA DerivedIs ==
  ASSUME NEW r
  PROVE  /\ \A j \in DOMAIN messages : Derived(messages[j], r)
         /\ Derived(UserMessage(r), r) /\ Derived(LoadingMessage(r), r)
BY DEF Derived

\* handleSendMessage
LEMMA SentList ==
  ASSUME TypeOK, NEW r \in Requests, Len(messages) + 2 <= MaxMessages,
         NEW list, list = messages \o <<UserMessage(r), LoadingMessage(r)>>
  PROVE  /\ NewList(list, r)
         /\ list # <<>> /\ list[Len(list)] = LoadingMessage(r)
         /\ \A i \in 1..(Len(list) - 1) :
              \/ list[i] = UserMessage(r)
              \/ \E j \in DOMAIN messages : list[i] = messages[j]
<1> DEFINE two == <<UserMessage(r), LoadingMessage(r)>>
<1>1. two \in Seq(Message) /\ Len(two) = 2
      /\ two[1] = UserMessage(r) /\ two[2] = LoadingMessage(r)
  BY NewMessages
<1>2. /\ list \in Seq(Message)
      /\ Len(list) = Len(messages) + 2
      /\ \A i \in 1..Len(list) :
           list[i] = IF i <= Len(messages) THEN messages[i]
                                           ELSE two[i - Len(messages)]
  <2> HIDE DEF two
  <2>1. list = messages \o two
    BY DEF two
  <2>2. QED
    BY <1>1, <2>1, MessagesAre, ConcatProperties
<1>3. \A i \in 1..Len(list) :
        \/ i \in DOMAIN messages /\ list[i] = messages[i]
        \/ i = Len(messages) + 1 /\ list[i] = UserMessage(r)
        \/ i = Len(messages) + 2 /\ list[i] = LoadingMessage(r)
  <2> HIDE DEF two
  <2>1. QED
    BY <1>1, <1>2, MessagesAre
<1>4. NewList(list, r)
  BY <1>2, <1>3, DerivedIs DEF NewList
<1>5. Len(messages) \in Nat
  BY MessagesAre
<1>6. list # <<>> /\ list[Len(list)] = LoadingMessage(r)
  BY <1>2, <1>3, <1>5, EmptySeq
<1>7. QED
  BY <1>2, <1>3, <1>4, <1>5, <1>6

\* handleRegenerateMessage
LEMMA RegeneratedList ==
  ASSUME TypeOK, NEW r \in Requests, NEW i \in DOMAIN messages,
         NEW list, list = Append(SubSeq(messages, 1, i - 1), LoadingMessage(r))
  PROVE  /\ NewList(list, r)
         /\ list # <<>> /\ list[Len(list)] = LoadingMessage(r)
         /\ \A k \in 1..(Len(list) - 1) :
              \E j \in DOMAIN messages : list[k] = messages[j]
<1> DEFINE before == SubSeq(messages, 1, i - 1)
<1>1. i \in 1..Len(messages) /\ Len(messages) \in Nat
      /\ Len(messages) <= MaxMessages
  BY MessagesAre DEF TypeOK
<1>2. /\ before \in Seq(Message) /\ Len(before) = i - 1
      /\ \A k \in 1..(i - 1) : before[k] = messages[k]
  <2>1. \A k \in 1..(i - 1) : messages[k] \in Message
    BY <1>1, MessagesAre
  <2>2. /\ before \in Seq(Message)
        /\ Len(before) = IF 1 <= i - 1 THEN i - 1 - 1 + 1 ELSE 0
        /\ \A k \in 1..(i - 1 - 1 + 1) : before[k] = messages[1 + k - 1]
    BY <1>1, <2>1, SubSeqProperties
  <2>3. QED
    BY <1>1, <2>2
<1>3. /\ list \in Seq(Message) /\ list # <<>> /\ Len(list) = i
      /\ \A k \in 1..(i - 1) : list[k] = messages[k]
      /\ list[i] = LoadingMessage(r)
  <2> HIDE DEF before
  <2>1. list = Append(before, LoadingMessage(r))
    BY DEF before
  <2>2. /\ list \in Seq(Message) /\ list # <<>>
        /\ Len(list) = Len(before) + 1
        /\ \A k \in 1..Len(before) : list[k] = before[k]
        /\ list[Len(before) + 1] = LoadingMessage(r)
    BY <1>2, <2>1, NewMessages, AppendProperties
  <2>3. QED
    BY <1>1, <1>2, <2>2
<1>4. \A k \in 1..(i - 1) : k \in DOMAIN messages
  BY <1>1, MessagesAre
<1>5. \A k \in 1..i : Derived(list[k], r)
  BY <1>1, <1>3, <1>4, DerivedIs
<1>6. QED
  BY <1>1, <1>3, <1>4, <1>5, PlaygroundAssumption DEF NewList

\* handleDeleteMessage
LEMMA DeletedList ==
  ASSUME TypeOK, NEW r, NEW i \in DOMAIN messages,
         NEW list, list = RemoveAt(messages, i)
  PROVE  /\ NewList(list, r)
         /\ NoneNewWaits(list)
         /\ \A k \in 1..Len(list) :
              \E j \in DOMAIN messages : list[k] = messages[j]
<1> DEFINE n == Len(messages)
           before == SubSeq(messages, 1, i - 1)
           after == SubSeq(messages, i + 1, n)
<1>1. i \in 1..n /\ n \in Nat /\ n <= MaxMessages
      /\ DOMAIN messages = 1..n
      /\ \A k \in 1..n : messages[k] \in Message
  BY MessagesAre DEF TypeOK
<1> HIDE DEF n
<1>2. /\ before \in Seq(Message) /\ Len(before) = i - 1
      /\ \A k \in 1..(i - 1) : before[k] = messages[k]
  <2>1. \A k \in 1..(i - 1) : messages[k] \in Message
    BY <1>1
  <2>2. /\ before \in Seq(Message)
        /\ Len(before) = IF 1 <= i - 1 THEN i - 1 - 1 + 1 ELSE 0
        /\ \A k \in 1..(i - 1 - 1 + 1) : before[k] = messages[1 + k - 1]
    BY <1>1, <2>1, SubSeqProperties
  <2>3. QED
    BY <1>1, <2>2
<1>3. /\ after \in Seq(Message) /\ Len(after) = n - i
      /\ \A k \in 1..(n - i) : after[k] = messages[i + k]
  <2>1. \A k \in (i + 1)..n : messages[k] \in Message
    BY <1>1
  <2>2. /\ after \in Seq(Message)
        /\ Len(after) = IF i + 1 <= n THEN n - (i + 1) + 1 ELSE 0
        /\ \A k \in 1..(n - (i + 1) + 1) : after[k] = messages[i + 1 + k - 1]
    BY <1>1, <2>1, SubSeqProperties
  <2>3. QED
    BY <1>1, <2>2
<1> HIDE DEF before, after
<1>4. /\ list \in Seq(Message)
      /\ Len(list) = n - 1
      /\ \A k \in 1..Len(list) :
           list[k] = IF k <= i - 1 THEN messages[k] ELSE messages[k + 1]
  <2>1. list = before \o after
    BY DEF RemoveAt, before, after, n
  <2>2. /\ list \in Seq(Message)
        /\ Len(list) = Len(before) + Len(after)
        /\ \A k \in 1..(Len(before) + Len(after)) :
             list[k] = IF k <= Len(before) THEN before[k]
                                           ELSE after[k - Len(before)]
    BY <1>2, <1>3, <2>1, ConcatProperties
  <2>3. Len(list) = n - 1
    BY <1>1, <1>2, <1>3, <2>2
  <2>4. ASSUME NEW k \in 1..Len(list)
        PROVE  list[k] = IF k <= i - 1 THEN messages[k] ELSE messages[k + 1]
    <3>1. CASE k <= i - 1
      BY <1>1, <1>2, <2>2, <2>3, <3>1
    <3>2. CASE ~(k <= i - 1)
      <4>1. k - (i - 1) \in 1..(n - i) /\ i + (k - (i - 1)) = k + 1
        BY <1>1, <2>3, <3>2
      <4>2. list[k] = after[k - (i - 1)]
        BY <1>1, <1>2, <1>3, <2>2, <2>3, <3>2
      <4>3. QED
        BY <1>3, <3>2, <4>1, <4>2
    <3>3. QED
      BY <3>1, <3>2
  <2>5. QED
    BY <2>2, <2>3, <2>4
<1>5. ASSUME NEW k \in 1..Len(list)
      PROVE  \E j \in DOMAIN messages : list[k] = messages[j]
  <2>1. k \in 1..n /\ k + 1 \in 1..n
    BY <1>1, <1>4
  <2>2. QED
    BY <1>1, <1>4, <2>1
<1>6. \A k \in 1..Len(list) : Derived(list[k], r)
  BY <1>5, DerivedIs
<1>7. NoneNewWaits(list)
  BY <1>5 DEF NoneNewWaits
<1>8. QED
  BY <1>1, <1>4, <1>5, <1>6, <1>7, PlaygroundAssumption DEF NewList

\* applyEdit
LEMMA ReplacedList ==
  ASSUME TypeOK, NEW r, NEW i \in DOMAIN messages,
         NEW e \in Message, Derived(e, r), e.status = messages[i].status,
         NEW list, list = [messages EXCEPT ![i] = e]
  PROVE  /\ NewList(list, r) /\ Len(list) = Len(messages)
         /\ NoneNewWaits(list)
<1>1. i \in 1..Len(messages) /\ Len(messages) <= MaxMessages
      /\ messages \in Seq(Message) /\ DOMAIN messages = 1..Len(messages)
  BY MessagesAre DEF TypeOK
<1>2. /\ list \in Seq(Message) /\ Len(list) = Len(messages)
      /\ \A k \in 1..Len(messages) :
           list[k] = IF k = i THEN e ELSE messages[k]
  BY <1>1, ExceptSeq
<1>3. \A k \in 1..Len(list) : Derived(list[k], r)
  BY <1>1, <1>2, DerivedIs
<1>4. NoneNewWaits(list)
  BY <1>1, <1>2 DEF NoneNewWaits
<1>5. QED
  BY <1>1, <1>2, <1>3, <1>4 DEF NewList

LEMMA EditedList ==
  ASSUME TypeOK, NEW r, NEW i \in DOMAIN messages,
         NEW list, list = [messages EXCEPT ![i].from = {}]
  PROVE  /\ NewList(list, r) /\ Len(list) = Len(messages)
         /\ NoneNewWaits(list)
<1> DEFINE e == [messages[i] EXCEPT !.from = {}]
<1>1. messages[i] \in Message
  BY MessagesAre
<1>2. e \in Message /\ e.key = messages[i].key
      /\ e.status = messages[i].status /\ e.from = {}
  BY <1>1 DEF Message
<1> HIDE DEF e
<1>3. list = [messages EXCEPT ![i] = e]
  BY DEF e
<1>4. Derived(e, r)
  BY <1>2 DEF Derived
<1>5. TypeOK /\ i \in DOMAIN messages
  OBVIOUS
<1>6. QED
  BY ONLY <1>2, <1>3, <1>4, <1>5, ReplacedList

LEMMA ResentList ==
  ASSUME TypeOK, NEW r \in Requests, NEW i \in DOMAIN messages,
         i + 1 <= MaxMessages,
         NEW edited, NewList(edited, r), Len(edited) = Len(messages),
         NEW list, list = Append(SubSeq(edited, 1, i), LoadingMessage(r))
  PROVE  NewList(list, r) /\ list # <<>>
         /\ list[Len(list)] = LoadingMessage(r)
<1> DEFINE before == SubSeq(edited, 1, i)
<1>1. i \in 1..Len(messages) /\ Len(messages) \in Nat
      /\ edited \in Seq(Message)
      /\ \A k \in 1..Len(messages) : edited[k] \in Message
  BY MessagesAre, ElementOfSeq DEF NewList
<1>2. /\ before \in Seq(Message) /\ Len(before) = i
      /\ \A k \in 1..i : before[k] = edited[k]
  <2>1. \A k \in 1..i : edited[k] \in Message
    BY <1>1
  <2>2. /\ before \in Seq(Message)
        /\ Len(before) = IF 1 <= i THEN i - 1 + 1 ELSE 0
        /\ \A k \in 1..(i - 1 + 1) : before[k] = edited[1 + k - 1]
    BY <1>1, <2>1, SubSeqProperties
  <2>3. QED
    BY <1>1, <2>2
<1> HIDE DEF before
<1>3. /\ list \in Seq(Message) /\ list # <<>>
      /\ Len(list) = i + 1
      /\ \A k \in 1..i : list[k] = edited[k]
      /\ list[i + 1] = LoadingMessage(r)
  <2>1. list = Append(before, LoadingMessage(r))
    BY DEF before
  <2>2. /\ list \in Seq(Message) /\ list # <<>>
        /\ Len(list) = Len(before) + 1
        /\ \A k \in 1..Len(before) : list[k] = before[k]
        /\ list[Len(before) + 1] = LoadingMessage(r)
    BY <1>2, <2>1, NewMessages, AppendProperties
  <2>3. QED
    BY <1>1, <1>2, <2>2
<1>4. \A k \in 1..Len(list) : Derived(list[k], r)
  <2>1. \A k \in 1..i : Derived(edited[k], r)
    BY <1>1 DEF NewList
  <2>2. QED
    BY <1>1, <1>3, <2>1, DerivedIs
<1>5. QED
  BY <1>3, <1>4 DEF NewList
-----------------------------------------------------------------------------
(***************************************************************************)
(* The steps                                                               *)
(***************************************************************************)

LEMMA PutType ==
  ASSUME TypeOK, NEW r, NEW list, NewList(list, r), Put(list),
         sseSourceRef' \in 0..MaxRequests,
         isStreamComplete' \in BOOLEAN,
         sent' \in 0..MaxRequests,
         live' \subseteq Requests,
         editing' \in Keys \cup {0},
         UNCHANGED <<stream, left, dropped, reloads>>
  PROVE  TypeOK'
<1>1. messages' \in Seq(Message) /\ Len(messages') <= MaxMessages
  BY DEF NewList, Put
<1>2. isGenerating' \in BOOLEAN /\ disturbed' \in BOOLEAN
  <2>1. disturbed \in BOOLEAN
    BY DEF TypeOK
  <2>2. QED
    BY <2>1 DEF Put
<1>3. {isStreamComplete', isGenerating', disturbed'} \subseteq BOOLEAN
  BY <1>2
<1>4. stream' \in BOOLEAN /\ {dropped', left'} \subseteq SUBSET Requests
      /\ reloads' \in 0..MaxReloads
  BY DEF TypeOK
<1>5. QED
  BY <1>1, <1>3, <1>4 DEF TypeOK, Message, Status

\* What the messages of a new list keep of the old ones.
LEMMA PutContent ==
  ASSUME IInv, NEW r \in Requests, NEW list, NewList(list, r), Put(list)
  PROVE  /\ AnswersInv'
         /\ OwnReply'
         /\ ~disturbed' =>
              /\ ~disturbed /\ live = {}
              /\ \A i \in 1..(Len(messages') - 1) :
                   messages'[i].status \notin Unfinished
<1>0. /\ messages' = list /\ DOMAIN messages' = 1..Len(list)
      /\ list \in Seq(Message) /\ Len(list) \in Nat
  BY LenProperties DEF Put, NewList
<1>1. r > 0 /\ r \in Int
  BY PlaygroundAssumption DEF Requests
<1>2. AnswersInv'
  <2> SUFFICES ASSUME NEW i \in 1..Len(list), list[i].status \in Unfinished
               PROVE  list[i].key > 0
    BY <1>0 DEF AnswersInv, IsAssistant
  <2>1. Derived(list[i], r)
    BY DEF NewList
  <2>2. CASE list[i] = UserMessage(r)
    BY <2>2 DEF UserMessage, Unfinished
  <2>3. CASE list[i] = LoadingMessage(r)
    BY <1>1, <2>3 DEF LoadingMessage
  <2>4. ASSUME NEW j \in DOMAIN messages, list[i].key = messages[j].key,
               list[i].status = messages[j].status
        PROVE  list[i].key > 0
    BY <2>4 DEF IInv, AnswersInv, IsAssistant
  <2>5. QED
    BY <2>1, <2>2, <2>3, <2>4 DEF Derived
<1>3. disturbed => disturbed'
  BY DEF Put
<1>4. OwnReply'
  <2> SUFFICES ASSUME ~disturbed', NEW i \in 1..Len(list)
               PROVE  list[i].from \subseteq {list[i].key}
    BY <1>0 DEF OwnReply
  <2>1. Derived(list[i], r) /\ ~disturbed
    BY <1>3 DEF NewList
  <2>2. CASE list[i] = UserMessage(r)
    BY <2>2 DEF UserMessage
  <2>3. CASE list[i] = LoadingMessage(r)
    BY <2>3 DEF LoadingMessage
  <2>4. ASSUME NEW j \in DOMAIN messages, list[i].key = messages[j].key,
               list[i].from \subseteq messages[j].from
        PROVE  list[i].from \subseteq {list[i].key}
    BY <2>1, <2>4 DEF IInv, OwnReply
  <2>5. QED
    BY <2>1, <2>2, <2>3, <2>4 DEF Derived
<1>5. ~disturbed' => /\ ~disturbed /\ live = {}
                     /\ \A i \in 1..(Len(list) - 1) :
                          list[i].status \notin Unfinished
  BY DEF Put
<1>6. QED
  BY <1>0, <1>2, <1>4, <1>5

\* A new list with a request.
LEMMA SendInv ==
  ASSUME IInv, NEW r \in Requests, NEW list, NewList(list, r),
         list # <<>>, list[Len(list)] = LoadingMessage(r),
         sendChat(r), Put(list), editing' \in Keys \cup {0}
  PROVE  IInv'
<1>0. r # 0 /\ r \in 0..MaxRequests
  BY PlaygroundAssumption DEF Requests
<1>1. TypeOK'
  <2>1. TypeOK
    BY DEF IInv
  <2>2. isStreamComplete \in BOOLEAN /\ sseSourceRef \in 0..MaxRequests
    BY <2>1 DEF TypeOK
  <2>3. isStreamComplete' \in BOOLEAN /\ sseSourceRef' \in 0..MaxRequests
    BY <1>0, <2>2 DEF sendChat
  <2>4. live' \subseteq Requests /\ sent' \in 0..MaxRequests
    BY <1>0, <2>1 DEF sendChat, TypeOK
  <2>5. QED
    BY <2>1, <2>3, <2>4, PutType DEF sendChat
<1>2. /\ AnswersInv'
      /\ OwnReply'
      /\ ~disturbed' =>
           /\ ~disturbed /\ live = {}
           /\ \A i \in 1..(Len(messages') - 1) :
                messages'[i].status \notin Unfinished
  BY PutContent
<1>3. ~disturbed' => live' = {r}
  BY <1>2 DEF sendChat
<1>4. ListInv'
  BY <1>2, <1>3 DEF ListInv, Put, LoadingMessage
<1>5. StreamInv'
  <2>1. stream' => sseSourceRef' = r /\ ~isStreamComplete'
    BY DEF sendChat
  <2>2. QED
    BY <1>0, <1>3, <2>1 DEF StreamInv, Put
<1>6. QED
  BY <1>1, <1>2, <1>4, <1>5 DEF IInv

\* A new list without one.
LEMMA ChangeInv ==
  ASSUME IInv, NEW r \in Requests, NEW list, NewList(list, r),
         NoneNewWaits(list),
         UNCHANGED <<stream, sseSourceRef, isStreamComplete, wire, reloads>>,
         Put(list), editing' \in Keys \cup {0}
  PROVE  IInv'
<1>1. TypeOK'
  <2>1. TypeOK
    BY DEF IInv
  <2>2. isStreamComplete' \in BOOLEAN /\ sseSourceRef' \in 0..MaxRequests
        /\ live' \subseteq Requests /\ sent' \in 0..MaxRequests
        /\ dropped' = dropped /\ left' = left
    BY <2>1 DEF TypeOK, wire
  <2>3. QED
    BY <2>1, <2>2, PutType
<1>2. /\ AnswersInv'
      /\ OwnReply'
      /\ ~disturbed' =>
           /\ ~disturbed /\ live = {}
           /\ \A i \in 1..(Len(messages') - 1) :
                messages'[i].status \notin Unfinished
  BY PutContent
<1>3. ListInv'
  BY <1>2 DEF ListInv, wire
<1>4. StreamInv'
  <2>1. messages' = list /\ DOMAIN messages' = 1..Len(list)
    BY LenProperties DEF Put, NewList
  <2>2. QED
    BY <1>2, <2>1 DEF StreamInv, Put, wire, IInv, NoneNewWaits
<1>5. QED
  BY <1>1, <1>2, <1>3, <1>4 DEF IInv

\* Without a request nobody has sent a message.
LEMMA SomeRequest ==
  ASSUME TypeOK, NEW i \in DOMAIN messages
  PROVE  \E r \in Requests : TRUE
<1>1. messages[i] \in Message
  BY MessagesAre
<1>2. messages[i].key \in Keys
  BY <1>1 DEF Message
<1>3. 1 \in Requests
  BY <1>2, PlaygroundAssumption DEF Keys, Requests
<1>4. QED
  BY <1>3

\* What the user does
LEMMA UserInv ==
  ASSUME IInv,
         \/ \E suggestion \in BOOLEAN : handleSendMessage(suggestion)
         \/ \E i \in DOMAIN messages :
              \/ handleRegenerateMessage(i)
              \/ handleDeleteMessage(i)
              \/ \E submit \in BOOLEAN : applyEdit(i, submit)
  PROVE  IInv'
<1>0. TypeOK /\ editing \in Keys \cup {0} /\ 0 \in Keys \cup {0}
  BY DEF IInv, TypeOK
<1>1. ASSUME NEW suggestion \in BOOLEAN, handleSendMessage(suggestion)
      PROVE  IInv'
  <2> DEFINE r == sent + 1
             list == messages \o <<UserMessage(r), LoadingMessage(r)>>
  <2>1. /\ r \in Requests /\ sendChat(r) /\ Put(list)
        /\ Len(messages) + 2 <= MaxMessages /\ editing' = editing
    BY <1>1 DEF handleSendMessage, sendChat
  <2> HIDE DEF r
  <2>2. NewList(list, r) /\ list # <<>> /\ list[Len(list)] = LoadingMessage(r)
    BY <1>0, <2>1, SentList
  <2> HIDE DEF list
  <2>3. QED
    BY <1>0, <2>1, <2>2, SendInv
<1>2. ASSUME NEW i \in DOMAIN messages, handleRegenerateMessage(i)
      PROVE  IInv'
  <2> DEFINE r == sent + 1
             list == Append(SubSeq(messages, 1, i - 1), LoadingMessage(r))
  <2>1. r \in Requests /\ sendChat(r) /\ Put(list) /\ editing' = editing
    BY <1>2 DEF handleRegenerateMessage, sendChat
  <2> HIDE DEF r
  <2>2. NewList(list, r) /\ list # <<>> /\ list[Len(list)] = LoadingMessage(r)
    BY <1>0, <2>1, RegeneratedList
  <2> HIDE DEF list
  <2>3. QED
    BY <1>0, <2>1, <2>2, SendInv
<1>3. ASSUME NEW i \in DOMAIN messages, handleDeleteMessage(i)
      PROVE  IInv'
  <2> DEFINE list == RemoveAt(messages, i)
  <2>1. /\ Put(list) /\ editing' = editing
        /\ UNCHANGED <<stream, sseSourceRef, isStreamComplete, wire, reloads>>
    BY <1>3 DEF handleDeleteMessage
  <2>2. PICK r \in Requests : TRUE
    BY <1>0, SomeRequest
  <2>3. list = RemoveAt(messages, i)
    OBVIOUS
  <2> HIDE DEF list
  <2>4. NewList(list, r) /\ NoneNewWaits(list)
    BY <1>0, <2>3, DeletedList
  <2>5. QED
    BY <1>0, <2>1, <2>4, ChangeInv
<1>4. ASSUME NEW i \in DOMAIN messages, NEW submit \in BOOLEAN,
             applyEdit(i, submit)
      PROVE  IInv'
  <2> DEFINE edited == [messages EXCEPT ![i].from = {}]
             r == sent + 1
             list == Append(SubSeq(edited, 1, i), LoadingMessage(r))
  <2>1. editing' = 0
    BY <1>4 DEF applyEdit
  <2>2. CASE submit /\ ~IsAssistant(messages[i])
    <3>1. /\ r \in Requests /\ sendChat(r) /\ Put(list)
          /\ i + 1 <= MaxMessages
      BY <1>4, <2>2 DEF applyEdit, sendChat
    <3>2. NewList(edited, r) /\ Len(edited) = Len(messages)
      BY <1>0, EditedList
    <3> HIDE DEF r, edited
    <3>3. NewList(list, r) /\ list # <<>>
          /\ list[Len(list)] = LoadingMessage(r)
      BY <1>0, <3>1, <3>2, ResentList
    <3> HIDE DEF list
    <3>4. QED
      BY <1>0, <2>1, <3>1, <3>3, SendInv
  <2>3. CASE ~(submit /\ ~IsAssistant(messages[i]))
    <3>1. /\ Put(edited)
          /\ UNCHANGED <<stream, sseSourceRef, isStreamComplete, wire,
                         reloads>>
      BY <1>4, <2>3 DEF applyEdit
    <3>2. PICK q \in Requests : TRUE
      BY <1>0, SomeRequest
    <3>3. NewList(edited, q) /\ NoneNewWaits(edited)
      BY <1>0, EditedList
    <3> HIDE DEF edited
    <3>4. QED
      BY <1>0, <2>1, <3>1, <3>3, ChangeInv
  <2>4. QED
    BY <2>2, <2>3
<1>5. QED
  BY <1>1, <1>2, <1>3, <1>4

\* A step that leaves the list and the references alone.
LEMMA QuietInv ==
  ASSUME IInv, UNCHANGED <<stream, messages, refs, sent, disturbed, reloads>>,
         editing' \in Keys \cup {0}, live' \subseteq live,
         {dropped', left'} \subseteq SUBSET Requests
  PROVE  IInv'
<1> USE DEF IInv, refs
<1>1. TypeOK'
  BY DEF TypeOK
<1>2. AnswersInv' /\ OwnReply'
  BY DEF AnswersInv, OwnReply
<1>3. ListInv'
  BY DEF ListInv
<1>4. StreamInv'
  BY DEF StreamInv
<1>5. QED
  BY <1>1, <1>2, <1>3, <1>4

\* updateLastAssistantMessage
LEMMA LastUpdated ==
  ASSUME TypeOK, NEW new, UpdateLast(new),
         messages # <<>> /\ IsAssistant(Last(messages)) => new \in Message
  PROVE  /\ messages' \in Seq(Message)
         /\ Len(messages') = Len(messages)
         /\ DOMAIN messages' = DOMAIN messages
         /\ isGenerating' \in BOOLEAN
         /\ \A i \in 1..(Len(messages) - 1) : messages'[i] = messages[i]
         /\ messages # <<>> =>
              /\ Len(messages) \in DOMAIN messages
              /\ IF IsAssistant(messages[Len(messages)])
                 THEN /\ messages'[Len(messages)] = new
                      /\ isGenerating' = (sseSourceRef' # 0)
                 ELSE /\ messages'[Len(messages)] = messages[Len(messages)]
                      /\ isGenerating' = isGenerating
<1>0. isGenerating \in BOOLEAN
  BY DEF TypeOK
<1>1. CASE messages # <<>> /\ IsAssistant(Last(messages))
  <2>1. /\ messages' = [messages EXCEPT ![Len(messages)] = new]
        /\ isGenerating' = (sseSourceRef' # 0)
    BY <1>1 DEF UpdateLast
  <2>2. Len(messages) \in 1..Len(messages)
    BY <1>1, MessagesAre, EmptySeq
  <2>3. /\ messages' \in Seq(Message) /\ Len(messages') = Len(messages)
        /\ \A j \in 1..Len(messages) :
             messages'[j] = IF j = Len(messages) THEN new ELSE messages[j]
    BY <1>1, <2>1, <2>2, MessagesAre, ExceptSeq
  <2>4. DOMAIN messages' = DOMAIN messages
    BY <2>3, MessagesAre, LenProperties
  <2>5. IsAssistant(messages[Len(messages)])
    BY <1>1 DEF Last
  <2>6. messages'[Len(messages)] = new
    BY <2>2, <2>3
  <2>7. \A i \in 1..(Len(messages) - 1) : messages'[i] = messages[i]
    BY <2>3, MessagesAre
  <2>8. isGenerating' \in BOOLEAN
    BY <2>1
  <2>9. Len(messages) \in DOMAIN messages
    BY <2>2, MessagesAre
  <2>10. QED
    BY <2>1, <2>3, <2>4, <2>5, <2>6, <2>7, <2>8, <2>9
<1>2. CASE ~(messages # <<>> /\ IsAssistant(Last(messages)))
  <2>1. messages' = messages /\ isGenerating' = isGenerating
    BY <1>2 DEF UpdateLast
  <2>2. messages # <<>> => Len(messages) \in DOMAIN messages
    BY MessagesAre, EmptySeq
  <2>3. messages # <<>> => ~IsAssistant(messages[Len(messages)])
    BY <1>2 DEF Last
  <2>4. messages \in Seq(Message)
    BY MessagesAre
  <2>5. QED
    BY <1>0, <2>1, <2>2, <2>3, <2>4
<1>3. QED
  BY <1>1, <1>2

\* What there is to show of an arrival: what the last message becomes, and
\* that the references are only forgotten with the stream.
LEMMA ArrivalInv ==
  ASSUME IInv, NEW new, UpdateLast(new),
         messages # <<>> /\ IsAssistant(Last(messages)) =>
           /\ new \in Message /\ new.key = Last(messages).key
           /\ ~disturbed => new.from \subseteq {new.key}
           /\ stream /\ ~disturbed /\ new.status \in Unfinished =>
                sseSourceRef' # 0,
         UNCHANGED <<stream, editing, sent, left, dropped, disturbed,
                     reloads>>,
         live' \subseteq live, sseSourceRef' \in 0..MaxRequests,
         isStreamComplete' \in BOOLEAN,
         stream /\ ~disturbed /\ live' # {} =>
           UNCHANGED <<sseSourceRef, isStreamComplete>>
  PROVE  IInv'
<1> DEFINE n == Len(messages)
<1>0. TypeOK /\ n \in Nat /\ DOMAIN messages = 1..n
  BY MessagesAre DEF IInv
<1>1. /\ messages' \in Seq(Message) /\ Len(messages') = n
      /\ DOMAIN messages' = DOMAIN messages
      /\ isGenerating' \in BOOLEAN
      /\ \A i \in 1..(n - 1) : messages'[i] = messages[i]
      /\ messages # <<>> =>
           /\ n \in DOMAIN messages
           /\ IF IsAssistant(messages[n])
              THEN messages'[n] = new /\ isGenerating' = (sseSourceRef' # 0)
              ELSE /\ messages'[n] = messages[n]
                   /\ isGenerating' = isGenerating
  BY <1>0, LastUpdated
<1>2. \A i \in DOMAIN messages : i \in 1..(n - 1) \/ (i = n /\ messages # <<>>)
  BY <1>0, EmptySeq
<1>3. messages # <<>> /\ IsAssistant(messages[n]) =>
        /\ new.key = messages[n].key
        /\ ~disturbed => new.from \subseteq {new.key}
        /\ stream /\ ~disturbed /\ new.status \in Unfinished =>
             sseSourceRef' # 0
  BY DEF Last
<1>4. disturbed' = disturbed /\ stream' = stream
  OBVIOUS
<1> HIDE DEF n
<1>5. TypeOK'
  <2>1. {isStreamComplete', isGenerating', disturbed'} \subseteq BOOLEAN
    BY <1>0, <1>1 DEF TypeOK
  <2>2. Len(messages') <= MaxMessages
    BY <1>0, <1>1 DEF TypeOK, n
  <2>3. QED
    BY <1>0, <1>1, <2>1, <2>2 DEF TypeOK, Message, Status
<1>6. AnswersInv'
  <2> SUFFICES ASSUME NEW i \in DOMAIN messages,
                      messages'[i].status \in Unfinished
               PROVE  messages'[i].key > 0
    BY <1>1 DEF AnswersInv, IsAssistant
  <2>1. messages[i].status \in Unfinished => messages[i].key > 0
    BY DEF IInv, AnswersInv, IsAssistant
  <2>2. QED
    BY <1>1, <1>2, <1>3, <2>1 DEF IsAssistant
<1>7. OwnReply'
  <2> SUFFICES ASSUME ~disturbed, NEW i \in DOMAIN messages
               PROVE  messages'[i].from \subseteq {messages'[i].key}
    BY <1>1, <1>4 DEF OwnReply
  <2>1. messages[i].from \subseteq {messages[i].key}
    BY DEF IInv, OwnReply
  <2>2. QED
    BY <1>1, <1>2, <1>3, <2>1
<1>8. ListInv'
  <2> SUFFICES ASSUME ~disturbed
               PROVE  /\ \A r \in live' : /\ messages' # <<>>
                                          /\ messages'[n].key = r
                      /\ \A i \in 1..(n - 1) :
                           messages'[i].status \notin Unfinished
    BY <1>1, <1>4 DEF ListInv
  <2>1. /\ \A r \in live : messages # <<>> /\ messages[n].key = r
        /\ \A i \in 1..(n - 1) : messages[i].status \notin Unfinished
    BY DEF IInv, ListInv, n
  <2>2. messages # <<>> => messages' # <<>>
    BY <1>1
  <2>3. messages # <<>> => messages'[n].key = messages[n].key
    BY <1>1, <1>3
  <2>4. QED
    BY <1>1, <2>1, <2>2, <2>3
<1>9. StreamInv'
  <2> SUFFICES ASSUME stream, ~disturbed
               PROVE  /\ \A r \in live' : /\ sseSourceRef' = r
                                          /\ isGenerating'
                                          /\ ~isStreamComplete'
                      /\ \A i \in DOMAIN messages :
                           messages'[i].status \in Unfinished =>
                             sseSourceRef' # 0 /\ isGenerating'
    BY <1>1, <1>4 DEF StreamInv
  <2>1. /\ \A r \in live : /\ sseSourceRef = r /\ isGenerating
                           /\ ~isStreamComplete /\ messages # <<>>
        /\ \A i \in 1..(n - 1) : messages[i].status \notin Unfinished
    BY DEF IInv, ListInv, StreamInv, n
  <2>2. \A r \in live : r # 0
    BY <1>0, PlaygroundAssumption DEF TypeOK, Requests
  <2>3. ASSUME NEW r \in live'
        PROVE  sseSourceRef' = r /\ isGenerating' /\ ~isStreamComplete'
    BY <1>1, <2>1, <2>2, <2>3
  <2>4. ASSUME NEW i \in DOMAIN messages, messages'[i].status \in Unfinished
        PROVE  sseSourceRef' # 0 /\ isGenerating'
    <3>1. i = n /\ messages # <<>>
      BY <1>1, <1>2, <2>1, <2>4
    <3>2. IsAssistant(messages[n])
      BY <1>1, <2>4, <3>1 DEF IInv, AnswersInv
    <3>3. messages'[n] = new /\ isGenerating' = (sseSourceRef' # 0)
      BY <1>1, <3>1, <3>2
    <3>4. QED
      BY <1>3, <2>4, <3>1, <3>2, <3>3
  <2>5. QED
    BY <2>3, <2>4
<1>10. QED
  BY <1>5, <1>6, <1>7, <1>8, <1>9 DEF IInv

Changed(m, s, f) == [m EXCEPT !.status = s, !.from = f]

LEMMA ChangedIs ==
  ASSUME NEW m \in Message, NEW s \in Status, NEW f \in SUBSET Requests
  PROVE  /\ Changed(m, s, f) \in Message
         /\ Changed(m, s, f).key = m.key
         /\ Changed(m, s, f).status = s
         /\ Changed(m, s, f).from = f
BY DEF Message, Changed

LEMMA OnlyStatus ==
  ASSUME NEW m \in Message, NEW s \in Status,
         NEW x, x = [m EXCEPT !.status = s]
  PROVE  x \in Message /\ x.key = m.key /\ x.status = s /\ x.from = m.from
BY DEF Message

\* What is known of the last message and of the live requests.
LEMMA LastMessage ==
  ASSUME IInv
  PROVE  /\ messages # <<>> =>
              /\ Last(messages) \in Message
              /\ ~disturbed =>
                   /\ Last(messages).from \subseteq {Last(messages).key}
                   /\ \A r \in live : Last(messages).key = r
         /\ stream /\ ~disturbed =>
              \A r \in live : /\ live = {r} /\ sseSourceRef = r /\ r # 0
                              /\ ~isStreamComplete
         /\ sseSourceRef \in 0..MaxRequests /\ 0 \in 0..MaxRequests
         /\ isStreamComplete \in BOOLEAN
         /\ live \subseteq Requests
<1>1. TypeOK
  BY DEF IInv
<1>2. messages # <<>> => Len(messages) \in DOMAIN messages
  BY <1>1, MessagesAre, EmptySeq
<1>3. messages # <<>> => Last(messages) \in Message
  BY <1>1, <1>2, MessagesAre DEF Last
<1>4. messages # <<>> /\ ~disturbed =>
        Last(messages).from \subseteq {Last(messages).key}
  BY <1>2 DEF Last, IInv, OwnReply
<1>5. ~disturbed => \A r \in live : Last(messages).key = r
  BY DEF Last, IInv, ListInv
<1>6. /\ sseSourceRef \in 0..MaxRequests /\ 0 \in 0..MaxRequests
      /\ isStreamComplete \in BOOLEAN
      /\ live \subseteq Requests
  BY <1>1, PlaygroundAssumption DEF TypeOK
<1>7. \A r \in live : r # 0
  BY <1>6, PlaygroundAssumption DEF Requests
<1>8. stream /\ ~disturbed =>
        \A r \in live : /\ live = {r} /\ sseSourceRef = r /\ r # 0
                        /\ ~isStreamComplete
  BY <1>7 DEF IInv, StreamInv
<1>9. QED
  BY <1>3, <1>4, <1>5, <1>6, <1>8

LEMMA StopInv ==
  ASSUME IInv, stopGeneration
  PROVE  IInv'
<1> DEFINE m == Last(messages)
           new == IF m.status \in Unfinished
                  THEN [m EXCEPT !.status = "complete"] ELSE m
<1>1. /\ UpdateLast(new) /\ sseSourceRef' = 0 /\ live' = live \ {sseSourceRef}
      /\ UNCHANGED <<stream, editing, isStreamComplete, sent, left, dropped,
                     disturbed, reloads>>
  BY DEF stopGeneration
<1>2. messages # <<>> =>
        /\ new \in Message /\ new.key = m.key /\ new.from = m.from
        /\ new.status \notin Unfinished
  <2> SUFFICES ASSUME messages # <<>>
               PROVE  /\ new \in Message /\ new.key = m.key
                      /\ new.from = m.from /\ new.status \notin Unfinished
    OBVIOUS
  <2>1. m \in Message
    BY LastMessage
  <2>2. "complete" \in Status /\ "complete" \notin Unfinished
    BY DEF Status, Unfinished
  <2> HIDE DEF m
  <2>3. CASE m.status \in Unfinished
    BY <2>1, <2>2, <2>3, OnlyStatus
  <2>4. CASE m.status \notin Unfinished
    BY <2>1, <2>4
  <2>5. QED
    BY <2>3, <2>4
<1> HIDE DEF new
<1>3. stream /\ ~disturbed => live' = {}
  BY <1>1, LastMessage
<1>4. messages # <<>> /\ ~disturbed => new.from \subseteq {new.key}
  BY <1>2, LastMessage
<1>5. QED
  BY <1>1, <1>2, <1>3, <1>4, LastMessage, ArrivalInv

LEMMA UpdateInv ==
  ASSUME IInv, NEW r \in Requests, handleStreamUpdate(r)
  PROVE  IInv'
<1> DEFINE m == Last(messages)
           new == IF m.status = "error" THEN m
                  ELSE [m EXCEPT !.status = "streaming", !.from = @ \cup {r}]
<1>1. /\ UpdateLast(new) /\ stream /\ r \in live
      /\ UNCHANGED <<stream, editing, sseSourceRef, isStreamComplete, wire,
                     disturbed, reloads>>
  BY DEF handleStreamUpdate
<1>2. messages # <<>> => m \in Message
  BY LastMessage
<1>3. messages # <<>> =>
        /\ new \in Message /\ new.key = m.key
        /\ new.from \subseteq m.from \cup {r}
  <2> SUFFICES ASSUME messages # <<>>
               PROVE  /\ new \in Message /\ new.key = m.key
                      /\ new.from \subseteq m.from \cup {r}
    OBVIOUS
  <2>1. m \in Message
    BY <1>2
  <2> HIDE DEF m
  <2>2. "streaming" \in Status /\ m.from \cup {r} \in SUBSET Requests
    BY <2>1 DEF Message, Status, Unfinished
  <2>3. CASE m.status = "error"
    BY <2>1, <2>3
  <2>4. CASE m.status # "error"
    <3>1. new = Changed(m, "streaming", m.from \cup {r})
      BY <2>4 DEF Changed
    <3> HIDE DEF new
    <3>2. QED
      BY <2>1, <2>2, <3>1, ChangedIs
  <2>5. QED
    BY <2>3, <2>4
<1> HIDE DEF new
<1>4. messages # <<>> /\ ~disturbed => new.from \subseteq {new.key}
  BY <1>1, <1>3, LastMessage
<1>5. ~disturbed => sseSourceRef' # 0
  BY <1>1, LastMessage
<1>6. QED
  BY <1>1, <1>3, <1>4, <1>5, LastMessage, ArrivalInv DEF wire

LEMMA CompleteInv ==
  ASSUME IInv, NEW r \in Requests, handleStreamComplete(r)
  PROVE  IInv'
<1> DEFINE m == Last(messages)
           new == IF m.status \in {"complete", "error"} THEN m
                  ELSE [m EXCEPT !.status = "complete"]
<1>1. /\ UpdateLast(new) /\ r \in live /\ isStreamComplete' = TRUE
      /\ live' = live \ {r} /\ sseSourceRef' = 0
      /\ UNCHANGED <<stream, editing, sent, left, dropped, disturbed, reloads>>
  BY DEF handleStreamComplete, CloseSource
<1>2. messages # <<>> =>
        /\ new \in Message /\ new.key = m.key /\ new.from = m.from
        /\ new.status \notin Unfinished
  <2> SUFFICES ASSUME messages # <<>>
               PROVE  /\ new \in Message /\ new.key = m.key
                      /\ new.from = m.from /\ new.status \notin Unfinished
    OBVIOUS
  <2>1. m \in Message
    BY LastMessage
  <2>2. "complete" \in Status /\ {"complete", "error"} \cap Unfinished = {}
    BY DEF Status, Unfinished
  <2> HIDE DEF m
  <2>3. CASE m.status \notin {"complete", "error"}
    BY <2>1, <2>2, <2>3, OnlyStatus
  <2>4. CASE m.status \in {"complete", "error"}
    BY <2>1, <2>2, <2>4
  <2>5. QED
    BY <2>3, <2>4
<1> HIDE DEF new
<1>3. stream /\ ~disturbed => live' = {}
  BY <1>1, LastMessage
<1>4. messages # <<>> /\ ~disturbed => new.from \subseteq {new.key}
  BY <1>2, LastMessage
<1>5. QED
  BY <1>1, <1>2, <1>3, <1>4, LastMessage, ArrivalInv

\* An error, or an answer in one piece.
LEMMA ErrorIs ==
  ASSUME IInv, messages # <<>>
  PROVE  /\ WithError(Last(messages)) \in Message
         /\ WithError(Last(messages)).key = Last(messages).key
         /\ WithError(Last(messages)).from = {}
         /\ WithError(Last(messages)).status \notin Unfinished
<1> DEFINE m == Last(messages)
<1>1. m \in Message
  BY LastMessage
<1>2. "error" \in Status /\ "error" \notin Unfinished
      /\ {} \in SUBSET Requests
  BY DEF Status, Unfinished
<1> HIDE DEF m
<1>3. WithError(m) = Changed(m, "error", {})
  BY DEF WithError, Changed
<1>4. WithError(m) \in Message /\ WithError(m).key = m.key
      /\ WithError(m).from = {} /\ WithError(m).status = "error"
  BY <1>1, <1>2, <1>3, ChangedIs
<1>5. QED
  BY <1>2, <1>4 DEF m

LEMMA ErrorInv ==
  ASSUME IInv, NEW r \in Requests, handleStreamError(r)
  PROVE  IInv'
<1>1. CASE isStreamComplete
  <2>1. /\ live' \subseteq live
        /\ UNCHANGED <<stream, messages, refs, sent, disturbed, reloads>>
        /\ editing' = editing /\ dropped' = dropped /\ left' = left
    BY <1>1 DEF handleStreamError, refs
  <2>2. editing \in Keys \cup {0} /\ {dropped, left} \subseteq SUBSET Requests
    BY DEF IInv, TypeOK
  <2>3. QED
    BY <2>1, <2>2, QuietInv
<1>2. CASE ~isStreamComplete
  <2> DEFINE new == WithError(Last(messages))
  <2>1. /\ UpdateLast(new) /\ r \in live
        /\ live' = live \ {r} /\ sseSourceRef' = 0
        /\ UNCHANGED <<stream, editing, isStreamComplete, sent, left, dropped,
                       disturbed, reloads>>
    BY <1>2 DEF handleStreamError, CloseSource
  <2>2. messages # <<>> =>
          /\ new \in Message /\ new.key = Last(messages).key
          /\ new.from = {} /\ new.status \notin Unfinished
    BY ErrorIs
  <2> HIDE DEF new
  <2>3. stream /\ ~disturbed => live' = {}
    BY <2>1, LastMessage
  <2>4. QED
    BY <2>1, <2>2, <2>3, LastMessage, ArrivalInv
<1>3. QED
  BY <1>1, <1>2

LEMMA ReplyInv ==
  ASSUME IInv, NEW r \in Requests, Reply(r) \/ ReplyFails(r)
  PROVE  IInv'
<1> DEFINE m == Last(messages)
           replied == [m EXCEPT !.status = "complete", !.from = {r}]
<1>1. PICK new :
        /\ UpdateLast(new) /\ ~stream /\ r \in live /\ live' = live \ {r}
        /\ UNCHANGED <<stream, editing, sseSourceRef, isStreamComplete, sent,
                       left, dropped, disturbed, reloads>>
        /\ new = replied \/ new = WithError(m)
  BY DEF Reply, ReplyFails
<1>2. messages # <<>> =>
        /\ replied \in Message /\ replied.key = m.key /\ replied.from = {r}
  <2> SUFFICES ASSUME messages # <<>>
               PROVE  /\ replied \in Message /\ replied.key = m.key
                      /\ replied.from = {r}
    OBVIOUS
  <2>1. m \in Message
    BY LastMessage
  <2>2. "complete" \in Status /\ {r} \in SUBSET Requests
    BY DEF Status
  <2> HIDE DEF m
  <2>3. replied = Changed(m, "complete", {r})
    BY DEF Changed
  <2> HIDE DEF replied
  <2>4. QED
    BY <2>1, <2>2, <2>3, ChangedIs
<1> HIDE DEF replied
<1>3. messages # <<>> =>
        /\ new \in Message /\ new.key = Last(messages).key
        /\ ~disturbed => new.from \subseteq {new.key}
  BY <1>1, <1>2, ErrorIs, LastMessage
<1>4. QED
  BY <1>1, <1>3, LastMessage, ArrivalInv

\* What sanitizeMessagesOnLoad makes of a stuck message.
Repaired(m) == IF m.from = {} THEN WithError(m)
               ELSE [m EXCEPT !.status = "complete"]

LEMMA RepairedIs ==
  ASSUME NEW m \in Message
  PROVE  /\ Repaired(m) \in Message /\ Repaired(m).key = m.key
         /\ Repaired(m).from \subseteq m.from
         /\ Repaired(m).status \notin Unfinished
<1>1. /\ {"error", "complete"} \subseteq Status /\ {} \in SUBSET Requests
      /\ "error" \notin Unfinished /\ "complete" \notin Unfinished
  BY DEF Status, Unfinished
<1>2. CASE m.from = {}
  <2>1. Repaired(m) = Changed(m, "error", {})
    BY <1>2 DEF Repaired, WithError, Changed
  <2>2. QED
    BY <1>1, <2>1, ChangedIs
<1>3. CASE m.from # {}
  <2>1. Repaired(m) = [m EXCEPT !.status = "complete"]
    BY <1>3 DEF Repaired
  <2>2. /\ Repaired(m) \in Message /\ Repaired(m).key = m.key
        /\ Repaired(m).status = "complete" /\ Repaired(m).from = m.from
    BY <1>1, <2>1, OnlyStatus
  <2>3. QED
    BY <1>1, <2>2
<1>4. QED
  BY <1>2, <1>3

\* The list that is loaded: messages keep their keys and gain no content,
\* and if only the last one was stuck, none is.
LEMMA SanitizeIs ==
  ASSUME IInv, NEW list, list = Sanitize(messages)
  PROVE  /\ list \in Seq(Message) /\ Len(list) = Len(messages)
         /\ \A i \in 1..Len(list) :
              /\ list[i].key = messages[i].key
              /\ list[i].from \subseteq messages[i].from
              /\ \/ list[i].status = messages[i].status
                 \/ list[i].status \notin Unfinished
         /\ ~disturbed =>
              \A i \in 1..Len(list) : list[i].status \notin Unfinished
<1> DEFINE n == Len(messages)
           stuck == {i \in DOMAIN messages :
                       messages[i].status \in Unfinished}
           last == CHOOSE i \in stuck : \A j \in stuck : j <= i
<1>1. /\ messages \in Seq(Message) /\ n \in Nat /\ DOMAIN messages = 1..n
      /\ \A i \in 1..n : messages[i] \in Message
  BY MessagesAre DEF IInv
<1>2. CASE stuck = {}
  <2>1. list = messages
    BY <1>2 DEF Sanitize
  <2>2. QED
    BY <1>1, <1>2, <2>1
<1>3. CASE stuck # {}
  <2>1. list = [messages EXCEPT ![last] = Repaired(messages[last])]
    BY <1>3 DEF Sanitize, Repaired
  <2>2. ~disturbed => last = n /\ \A i \in 1..n : i \in stuck => i = n
    <3> SUFFICES ASSUME ~disturbed
                 PROVE  last = n /\ \A i \in 1..n : i \in stuck => i = n
      OBVIOUS
    <3>1. \A i \in 1..n : i \in stuck => i = n
      BY <1>1 DEF IInv, ListInv
    <3>2. stuck = {n}
      BY <1>1, <1>3, <3>1
    <3> HIDE DEF stuck
    <3>3. \E i \in stuck : \A j \in stuck : j <= i
      BY <1>1, <3>2
    <3>4. last \in stuck
      BY <3>3
    <3>5. QED
      BY <3>1, <3>2, <3>4
  <2> HIDE DEF last
  <2>3. CASE last \in 1..n
    <3> DEFINE e == Repaired(messages[last])
    <3>1. /\ e \in Message /\ e.key = messages[last].key
          /\ e.from \subseteq messages[last].from
          /\ e.status \notin Unfinished
      BY <1>1, <2>3, RepairedIs
    <3> HIDE DEF e
    <3>2. list = [messages EXCEPT ![last] = e]
      BY <2>1 DEF e
    <3>3. /\ list \in Seq(Message) /\ Len(list) = n
          /\ \A i \in 1..n : list[i] = IF i = last THEN e ELSE messages[i]
      BY <1>1, <2>3, <3>1, <3>2, ExceptSeq
    <3>4. QED
      BY <1>1, <2>2, <3>1, <3>3
  <2>4. CASE last \notin 1..n
    <3>1. list = messages
      BY <1>1, <2>1, <2>4
    <3>2. QED
      BY <1>1, <2>2, <2>4, <3>1
  <2>5. QED
    BY <2>3, <2>4
<1>4. QED
  BY <1>2, <1>3

LEMMA ReloadInv ==
  ASSUME IInv, Reload \/ Leave
  PROVE  /\ IInv'
         /\ ~disturbed => \A i \in DOMAIN messages' :
                            messages'[i].status \notin Unfinished
<1>0. Mount /\ left' \subseteq Requests
  BY DEF Reload, Leave, IInv, TypeOK
<1>1. /\ messages' \in Seq(Message) /\ Len(messages') = Len(messages)
      /\ \A i \in 1..Len(messages') :
           /\ messages'[i].key = messages[i].key
           /\ messages'[i].from \subseteq messages[i].from
           /\ \/ messages'[i].status = messages[i].status
              \/ messages'[i].status \notin Unfinished
      /\ ~disturbed => \A i \in 1..Len(messages') :
                         messages'[i].status \notin Unfinished
  BY <1>0, SanitizeIs DEF Mount
<1>2. /\ DOMAIN messages' = 1..Len(messages')
      /\ DOMAIN messages = 1..Len(messages) /\ Len(messages) \in Nat
      /\ disturbed' = disturbed
  BY <1>0, <1>1, LenProperties, MessagesAre DEF IInv, Mount
<1>3. TypeOK'
  <2>1. reloads' \in 0..MaxReloads
    BY <1>0, PlaygroundAssumption DEF IInv, TypeOK, Mount
  <2>2. {isStreamComplete', isGenerating', disturbed'} \subseteq BOOLEAN
    BY <1>0 DEF IInv, TypeOK, Mount
  <2>3. sseSourceRef' \in 0..MaxRequests
    BY <1>0, PlaygroundAssumption DEF Mount
  <2>4. Len(messages') <= MaxMessages
    BY <1>1 DEF IInv, TypeOK
  <2>5. QED
    BY <1>0, <1>1, <2>1, <2>2, <2>3, <2>4
       DEF IInv, TypeOK, Mount, Message, Status
<1>4. AnswersInv'
  BY <1>1, <1>2 DEF IInv, AnswersInv, IsAssistant
<1>5. OwnReply'
  BY <1>1, <1>2 DEF IInv, OwnReply
<1>6. ListInv'
  BY <1>0, <1>1, <1>2 DEF ListInv, Mount
<1>7. StreamInv'
  BY <1>0, <1>1, <1>2 DEF StreamInv, Mount
<1>8. QED
  BY <1>1, <1>2, <1>3, <1>4, <1>5, <1>6, <1>7 DEF IInv
-----------------------------------------------------------------------------
(***************************************************************************)
(* What follows                                                            *)
(***************************************************************************)

LEMMA PlaygroundInit == Init => IInv
<1> SUFFICES ASSUME Init PROVE IInv
  OBVIOUS
<1>1. TypeOK
  <2>1. messages \in Seq(Message) /\ Len(messages) = 0
    BY EmptySeq DEF Init
  <2>2. {isStreamComplete, isGenerating, disturbed} \subseteq BOOLEAN
    BY DEF Init
  <2>3. stream \in BOOLEAN
    BY DEF Init
  <2>4. QED
    BY <2>1, <2>2, <2>3, PlaygroundAssumption
       DEF Init, TypeOK, Message, Status
<1>2. DOMAIN messages = 1..0 /\ Len(messages) = 0
  BY EmptySeq, LenProperties DEF Init
<1>3. AnswersInv /\ OwnReply
  BY <1>2 DEF AnswersInv, OwnReply
<1>4. ListInv /\ StreamInv
  BY <1>2 DEF Init, ListInv, StreamInv
<1>5. QED
  BY <1>1, <1>3, <1>4 DEF IInv

LEMMA PlaygroundNext == IInv /\ [Next]_vars => IInv'
<1> SUFFICES ASSUME IInv, [Next]_vars PROVE IInv'
  OBVIOUS
<1>0. editing \in Keys \cup {0} /\ {dropped, left} \subseteq SUBSET Requests
  BY DEF IInv, TypeOK
<1>1. CASE \/ \E suggestion \in BOOLEAN : handleSendMessage(suggestion)
           \/ \E i \in DOMAIN messages :
                \/ handleRegenerateMessage(i)
                \/ handleDeleteMessage(i)
                \/ \E submit \in BOOLEAN : applyEdit(i, submit)
  BY <1>1, UserInv
<1>2. ASSUME NEW i \in DOMAIN messages, handleEditMessage(i)
      PROVE  IInv'
  <2>1. messages[i] \in Message
    BY MessagesAre DEF IInv
  <2>2. editing' \in Keys \cup {0}
    BY <1>2, <2>1 DEF handleEditMessage, Message
  <2>3. QED
    BY <1>0, <1>2, <2>2, QuietInv DEF handleEditMessage, wire
<1>3. CASE handleEditCancel
  BY <1>0, <1>3, QuietInv DEF handleEditCancel, wire
<1>4. CASE stopGeneration
  BY <1>4, StopInv
<1>5. ASSUME NEW r \in Requests, Arrival(r) PROVE IInv'
  <2>1. CASE handleStreamUpdate(r)
    BY <2>1, UpdateInv
  <2>2. CASE handleStreamComplete(r)
    BY <2>2, CompleteInv
  <2>3. CASE handleStreamError(r)
    BY <2>3, ErrorInv
  <2>4. CASE StreamEnds(r) \/ ReplyWithoutChoice(r)
    <3>1. /\ UNCHANGED <<stream, messages, refs, sent, disturbed, reloads>>
          /\ editing' = editing /\ live' \subseteq live
          /\ {dropped', left'} \subseteq SUBSET Requests
      BY <1>0, <2>4 DEF StreamEnds, ReplyWithoutChoice, page
    <3>2. QED
      BY <1>0, <3>1, QuietInv
  <2>5. CASE Reply(r) \/ ReplyFails(r)
    BY <2>5, ReplyInv
  <2>6. QED
    BY <1>5, <2>1, <2>2, <2>3, <2>4, <2>5 DEF Arrival
<1>6. CASE Reload \/ Leave
  BY <1>6, ReloadInv
<1>7. ASSUME NEW r \in Requests, LeftEnds(r) PROVE IInv'
  BY <1>0, <1>7, QuietInv DEF LeftEnds, page
<1>8. CASE UNCHANGED vars
  BY <1>0, <1>8, QuietInv DEF vars, page, wire
<1>9. QED
  BY <1>1, <1>2, <1>3, <1>4, <1>5, <1>6, <1>7, <1>8 DEF Next

LEMMA PlaygroundInductive == Spec => []IInv
<1>1. QED
  BY PlaygroundInit, PlaygroundNext, PTL DEF Spec

\* The list, the references and the requests keep their types, whatever
\* arrives for whichever message.
THEOREM PageTypeCorrect == Spec => []TypeOK
<1>1. IInv => TypeOK
  BY DEF IInv
<1>2. QED
  BY <1>1, PlaygroundInductive, PTL

\* While a stream that the page opened is live the page shows it and can stop
\* it, as long as the list is not disturbed (sseSourceRef and its last
\* rendering).  Streams that were left behind by going to another page of the
\* console stay open with nothing to stop them, and are not among these.
THEOREM LiveStreamIsShown == Spec => []LiveIsShown
<1>1. IInv => LiveIsShown
  BY DEF IInv, StreamInv, LiveIsShown
<1>2. QED
  BY <1>1, PlaygroundInductive, PTL

\* An answer stays in the message it was asked for although it carries no
\* address, as long as the list is not disturbed.
THEOREM RepliesStayHome == Spec => []OwnReply
<1>1. IInv => OwnReply
  BY DEF IInv
<1>2. QED
  BY <1>1, PlaygroundInductive, PTL

\* A new list that is made under the guard disturbs nothing.
LEMMA GuardedPut ==
  ASSUME IInv, stream, ~disturbed, Guard, NEW list, Put(list),
         \A i \in 1..(Len(list) - 1) :
           \/ list[i].status \notin Unfinished
           \/ \E j \in DOMAIN messages : list[i] = messages[j]
  PROVE  ~disturbed'
<1>1. live = {}
  BY DEF IInv, StreamInv, Guard
<1>2. \A j \in DOMAIN messages : messages[j].status \notin Unfinished
  BY DEF IInv, StreamInv, Guard
<1>3. QED
  BY <1>1, <1>2 DEF Put

LEMMA GuardStep ==
  ASSUME IInv, Next, stream, ~disturbed, disturbed'
  PROVE  \/ handleSendMessage(TRUE)
         \/ \E i \in DOMAIN messages, submit \in BOOLEAN :
              applyEdit(i, submit)
<1>0. TypeOK
  BY DEF IInv
<1>1. CASE handleSendMessage(FALSE)
  <2> DEFINE r == sent + 1
             list == messages \o <<UserMessage(r), LoadingMessage(r)>>
  <2>1. /\ r \in Requests /\ Put(list) /\ Guard
        /\ Len(messages) + 2 <= MaxMessages
    BY <1>1 DEF handleSendMessage, sendChat
  <2> HIDE DEF r
  <2>2. \A i \in 1..(Len(list) - 1) :
          \/ list[i] = UserMessage(r)
          \/ \E j \in DOMAIN messages : list[i] = messages[j]
    BY <1>0, <2>1, SentList
  <2>3. UserMessage(r).status \notin Unfinished
    BY DEF UserMessage, Unfinished
  <2> HIDE DEF list
  <2>4. QED
    BY <2>1, <2>2, <2>3, GuardedPut
<1>2. ASSUME NEW i \in DOMAIN messages, handleRegenerateMessage(i)
      PROVE  FALSE
  <2> DEFINE r == sent + 1
             list == Append(SubSeq(messages, 1, i - 1), LoadingMessage(r))
  <2>1. r \in Requests /\ Put(list) /\ Guard
    BY <1>2 DEF handleRegenerateMessage, sendChat
  <2>2. list = Append(SubSeq(messages, 1, i - 1), LoadingMessage(r))
    OBVIOUS
  <2> HIDE DEF r, list
  <2>3. r \in Requests
    BY <2>1
  <2>4. \A k \in 1..(Len(list) - 1) :
          \E j \in DOMAIN messages : list[k] = messages[j]
    BY ONLY <1>0, <2>2, <2>3, RegeneratedList, Z3
  <2>5. QED
    BY <2>1, <2>4, GuardedPut
<1>3. ASSUME NEW i \in DOMAIN messages, handleDeleteMessage(i)
      PROVE  FALSE
  <2> DEFINE list == RemoveAt(messages, i)
  <2>1. Put(list) /\ Guard
    BY <1>3 DEF handleDeleteMessage
  <2>2. list = RemoveAt(messages, i)
    OBVIOUS
  <2> HIDE DEF list
  <2>3. PICK r \in Requests : TRUE
    BY <1>0, SomeRequest
  <2>4. /\ NewList(list, r)
        /\ \A k \in 1..Len(list) :
             \E j \in DOMAIN messages : list[k] = messages[j]
    BY <1>0, <2>2, DeletedList
  <2>5. 1..(Len(list) - 1) \subseteq 1..Len(list)
    BY <2>4, LenProperties DEF NewList
  <2>6. QED
    BY <2>1, <2>4, <2>5, GuardedPut
<1>4. ASSUME NEW r \in Requests, Arrival(r) PROVE disturbed' = disturbed
  BY <1>4 DEF Arrival, handleStreamUpdate, handleStreamComplete,
       handleStreamError, StreamEnds, Reply, ReplyFails, ReplyWithoutChoice
<1>5. ASSUME NEW i \in DOMAIN messages, handleEditMessage(i)
      PROVE  disturbed' = disturbed
  BY <1>5 DEF handleEditMessage
<1>6. CASE handleEditCancel \/ stopGeneration \/ Reload \/ Leave
  BY <1>6 DEF handleEditCancel, stopGeneration, Reload, Leave, Mount
<1>7. ASSUME NEW r \in Requests, LeftEnds(r) PROVE disturbed' = disturbed
  BY <1>7 DEF LeftEnds
<1>8. QED
  BY <1>1, <1>2, <1>3, <1>4, <1>5, <1>6, <1>7 DEF Next

\* With streaming, useMessageActionGuard and the disabled buttons keep every
\* user action but the suggestions and the editor from changing the list
\* under a live or unanswered request.
THEOREM OnlyGapsDisturb == Spec => GuardsHold
<1>1. IInv /\ [Next]_vars =>
        [stream /\ ~disturbed /\ disturbed' =>
           \/ handleSendMessage(TRUE)
           \/ \E i \in DOMAIN messages, submit \in BOOLEAN :
                applyEdit(i, submit)]_vars
  BY GuardStep
<1>2. QED
  BY <1>1, PlaygroundInductive, PTL DEF Spec, GuardsHold

\* sanitizeMessagesOnLoad leaves no message waiting, although it repairs only
\* one: as long as the list is not disturbed, only the last one can wait.
THEOREM LoadLeavesNoneWaiting == Spec => StableAfterLoad
<1>1. IInv /\ [Next]_vars =>
        [(Reload \/ Leave) /\ ~disturbed =>
           \A i \in DOMAIN messages' :
             messages'[i].status \notin Unfinished]_vars
  BY ReloadInv
<1>2. QED
  BY <1>1, PlaygroundInductive, PTL DEF Spec, StableAfterLoad
=============================================================================
