----------------------------- MODULE Playground -----------------------------
(***************************************************************************)
(* The chat page of the web console (web/default/src/features/playground): *)
(* a list of messages that is saved with every change, requests whose      *)
(* answers arrive as server-sent events or in one piece, and a user who    *)
(* sends, stops, regenerates, edits, deletes and reloads meanwhile.        *)
(*                                                                         *)
(* An answer carries no address: whatever arrives is applied to the last   *)
(* message if it is the assistant's.  What keeps answers in their messages *)
(* is that the page offers no way to change the list while it generates,   *)
(* and it knows that from sseSourceRef, one reference for all streams that *)
(* it looks at when it renders.  The suggestions and the editor do not     *)
(* ask, and a request without streaming never sets the reference.  The     *)
(* variable disturbed remembers that the list was changed under a live     *)
(* request, or continued after a message whose answer never came.          *)
(*                                                                         *)
(* Requests are numbered; the assistant's message of request r has the key *)
(* r and the user's message sent with it the key -r.  Of the content of a  *)
(* message the model keeps which requests it came from.                    *)
(***************************************************************************)
EXTENDS Integers, Sequences, SequencesExt

CONSTANTS
  MaxRequests,  \* bound: how many requests are ever sent
  MaxMessages,  \* bound: the length of the list
  MaxReloads    \* bound: how often the page is loaded again

ASSUME PlaygroundAssumption ==
  /\ MaxRequests \in Nat
  /\ MaxMessages \in Nat
  /\ MaxReloads \in Nat

VARIABLES
  stream,       \* config.stream
  messages,     \* the list, in memory and in localStorage alike
  editing,      \* editingMessageKey, 0 for null
  sseSourceRef, \* the request of the current source, 0 for null
  isStreamComplete,
  isGenerating, \* sseSourceRef # null when the page was rendered last
  sent,         \* how many requests were sent
  live,         \* requests of this page whose source is open or whose answer
                \* is awaited
  left,         \* the same of pages that were left: nobody shows them
  dropped,      \* requests that ended without [DONE], or without a choice
  disturbed,    \* the list was changed when it should not have been
  reloads

page == <<messages, editing>>
refs == <<sseSourceRef, isStreamComplete, isGenerating>>
wire == <<sent, live, left, dropped>>
vars == <<stream, page, refs, wire, disturbed, reloads>>

Requests == 1..MaxRequests
Unfinished == {"loading", "streaming"}
IsAssistant(m) == m.key > 0

\* createUserMessage, createLoadingAssistantMessage.
UserMessage(r) == [key |-> -r, status |-> "none", from |-> {}]
LoadingMessageOpen(r) == [key |-> r, status |-> "open", from |-> {}]
LoadingMessage(r) == [key |-> r, status |-> "loading", from |-> {}]

Init ==
  /\ stream \in BOOLEAN
  /\ messages = <<>>
  /\ editing = 0
  /\ sseSourceRef = 0
  /\ isStreamComplete = FALSE
  /\ isGenerating = FALSE
  /\ sent = 0
  /\ live = {}
  /\ left = {}
  /\ dropped = {}
  /\ disturbed = FALSE
  /\ reloads = 0
-----------------------------------------------------------------------------
(***************************************************************************)
(* What the user does.                                                     *)
(***************************************************************************)

\* useMessageActionGuard, the disabled buttons and the disabled input.
GuardNothing == TRUE
Guard == ~isGenerating

\* updateMessages with a new list: it is saved, and the page renders with
\* the reference as the step leaves it.
PutStale(list) ==
  /\ messages' = list
  /\ disturbed' = (disturbed \/ live # {})
  /\ isGenerating' = (sseSourceRef # 0)
Put(list) ==
  /\ messages' = list
  /\ disturbed' = \/ disturbed
                   \/ live # {}
                   \/ \E i \in 1..(Len(list) - 1) :
                        list[i].status \in Unfinished
  /\ isGenerating' = (sseSourceRef' # 0)

\* sendChat.
sendChat(r) ==
  /\ r \in Requests
  /\ sent' = r
  /\ live' = live \cup {r}
  /\ IF stream
     THEN sseSourceRef' = r /\ isStreamComplete' = FALSE
     ELSE UNCHANGED <<sseSourceRef, isStreamComplete>>
  /\ UNCHANGED <<stream, left, dropped, reloads>>

\* handleSendMessage, from the input or from a suggestion.
handleSendMessage(suggestion) ==
  LET r == sent + 1
  IN /\ suggestion \/ Guard
     /\ Len(messages) + 2 <= MaxMessages
     /\ sendChat(r)
     /\ Put(messages \o <<UserMessage(r), LoadingMessage(r)>>)
     /\ UNCHANGED editing

RegenerateInPlace(i) ==
  /\ Guard
  /\ IsAssistant(messages[i])
  /\ messages[i].status \notin Unfinished
  /\ sendChat(sent + 1)
  /\ Put(SubSeq([messages EXCEPT ![i].status = "loading"], 1, i))
  /\ UNCHANGED editing
handleRegenerateMessage(i) ==
  LET r == sent + 1
  IN /\ Guard
     /\ IsAssistant(messages[i])
     /\ messages[i].status \notin Unfinished
     /\ sendChat(r)
     /\ Put(Append(SubSeq(messages, 1, i - 1), LoadingMessage(r)))
     /\ UNCHANGED editing

\* A message that has neither content nor an error yet offers no actions.
\* (Nor does one that was stopped that early, which the model lets pass.)
handleDeleteMessage(i) ==
  /\ Guard
  /\ IsAssistant(messages[i]) => messages[i].status # "loading"
  /\ UNCHANGED <<stream, editing, sseSourceRef, isStreamComplete, wire,
                 reloads>>
  /\ Put(RemoveAt(messages, i))

\* The editor opens on a message with content.
handleEditMessage(i) ==
  /\ Guard
  /\ IsAssistant(messages[i]) => messages[i].status # "loading"
  /\ editing' = messages[i].key
  /\ UNCHANGED <<stream, messages, refs, wire, disturbed, reloads>>

handleEditCancel ==
  /\ editing # 0
  /\ editing' = 0
  /\ UNCHANGED <<stream, messages, refs, wire, disturbed, reloads>>

\* applyEdit.  What the user typed comes from no request.
applyEdit(i, submit) ==
  LET edited == [messages EXCEPT ![i].from = {}]
      r == sent + 1
  IN /\ editing # 0
     /\ messages[i].key = editing
     /\ editing' = 0
     /\ IF submit /\ ~IsAssistant(messages[i])
        THEN /\ i + 1 <= MaxMessages
             /\ sendChat(r)
             /\ Put(Append(SubSeq(edited, 1, i), LoadingMessage(r)))
        ELSE /\ UNCHANGED <<stream, sseSourceRef, isStreamComplete, wire,
                            reloads>>
             /\ Put(edited)
-----------------------------------------------------------------------------
(***************************************************************************)
(* What arrives.                                                           *)
(***************************************************************************)

\* updateLastAssistantMessage: the last message becomes new if it is an
\* assistant's; the page renders again only if there was one.
UpdateLast(new) ==
  IF messages # <<>> /\ IsAssistant(Last(messages))
  THEN /\ messages' = [messages EXCEPT ![Len(messages)] = new]
       /\ isGenerating' = (sseSourceRef' # 0)
  ELSE UNCHANGED <<messages, isGenerating>>

\* stopGeneration.
stopGeneration ==
  LET Stopped(m) ==
        IF m.status \in Unfinished THEN [m EXCEPT !.status = "complete"]
        ELSE m
  IN /\ isGenerating
     /\ live' = live \ {sseSourceRef}
     /\ sseSourceRef' = 0
     /\ UpdateLast(Stopped(Last(messages)))
     /\ UNCHANGED <<stream, editing, isStreamComplete, sent, left, dropped,
                    disturbed, reloads>>

\* handleStreamUpdate: a chunk with content or reasoning.
handleStreamUpdate(r) ==
  LET Streamed(m) ==
        IF m.status = "error" THEN m
        ELSE [m EXCEPT !.status = "streaming", !.from = @ \cup {r}]
  IN /\ stream
     /\ r \in live
     /\ UNCHANGED sseSourceRef
     /\ UpdateLast(Streamed(Last(messages)))
     /\ UNCHANGED <<stream, editing, isStreamComplete, wire, disturbed,
                    reloads>>

\* closeSource forgets the current source, whichever one it closes.
CloseSource(r) == live' = live \ {r} /\ sseSourceRef' = 0

\* The chunk [DONE].
handleStreamComplete(r) ==
  LET Completed(m) ==
        IF m.status \in {"complete", "error"} THEN m
        ELSE [m EXCEPT !.status = "complete"]
  IN /\ stream
     /\ r \in live
     /\ isStreamComplete' = TRUE
     /\ CloseSource(r)
     /\ UpdateLast(Completed(Last(messages)))
     /\ UNCHANGED <<stream, editing, sent, left, dropped, disturbed, reloads>>

WithToastOnly(m) == m
WithError(m) == [m EXCEPT !.status = "error", !.from = {}]

\* handleError: a bad status, a broken connection or a chunk that is not
\* JSON.  Not if any stream has completed since the last one was opened.
handleStreamError(r) ==
  /\ stream
  /\ r \in live
  /\ IF isStreamComplete
     THEN /\ live' = live \ {r}
          /\ UNCHANGED <<messages, sseSourceRef, isGenerating>>
     ELSE /\ CloseSource(r)
          /\ UpdateLast(WithError(Last(messages)))
  /\ UNCHANGED <<stream, editing, isStreamComplete, sent, left, dropped,
                 disturbed, reloads>>

\* The response ends without [DONE]: no callback has anything to do.
StreamEnds(r) ==
  /\ stream
  /\ r \in live
  /\ live' = live \ {r}
  /\ dropped' = dropped \cup {r}
  /\ UNCHANGED <<stream, page, refs, sent, left, disturbed, reloads>>

\* sendNonStreamingChat: the answer, or an error, or an answer without a
\* choice, which changes nothing.
Reply(r) ==
  LET Replied(m) == [m EXCEPT !.status = "complete", !.from = {r}]
  IN /\ ~stream
     /\ r \in live
     /\ live' = live \ {r}
     /\ UNCHANGED sseSourceRef
     /\ UpdateLast(Replied(Last(messages)))
     /\ UNCHANGED <<stream, editing, isStreamComplete, sent, left, dropped,
                    disturbed, reloads>>

ReplyFails(r) ==
  /\ ~stream
  /\ r \in live
  /\ live' = live \ {r}
  /\ UNCHANGED sseSourceRef
  /\ UpdateLast(WithError(Last(messages)))
  /\ UNCHANGED <<stream, editing, isStreamComplete, sent, left, dropped,
                 disturbed, reloads>>

ReplyWithoutChoice(r) ==
  /\ ~stream
  /\ r \in live
  /\ live' = live \ {r}
  /\ dropped' = dropped \cup {r}
  /\ UNCHANGED <<stream, page, refs, sent, left, disturbed, reloads>>
-----------------------------------------------------------------------------
\* sanitizeMessagesOnLoad: the last unfinished message is completed, or
\* becomes an error if it is empty.
SanitizeLoading(list) ==
  [i \in DOMAIN list |->
     IF list[i].status = "loading" THEN WithError(list[i]) ELSE list[i]]
Sanitize(list) ==
  LET stuck == {i \in DOMAIN list : list[i].status \in Unfinished}
      last == CHOOSE i \in stuck : \A j \in stuck : j <= i
  IN IF stuck = {} THEN list
     ELSE [list EXCEPT ![last] =
             IF @.from = {} THEN WithError(@)
             ELSE [@ EXCEPT !.status = "complete"]]

\* The page begins anew, with what was saved.
Mount ==
  /\ reloads < MaxReloads
  /\ reloads' = reloads + 1
  /\ messages' = Sanitize(messages)
  /\ editing' = 0
  /\ sseSourceRef' = 0
  /\ isStreamComplete' = FALSE
  /\ isGenerating' = FALSE
  /\ live' = {}
  /\ UNCHANGED <<stream, sent, dropped, disturbed>>

\* The browser loads it again: what was under way is cut off.
Reload == Mount /\ left' = {}

\* Another page of the console is shown and then this one again.  No hook
\* cleans up: the sources stay open and the answers awaited, but the new page
\* has new references and knows nothing of them.  (What a callback of the old
\* page may still save is left out.)
Leave == Mount /\ left' = left \cup live

\* The server ends a response that the user has walked away from.
LeftEnds(r) ==
  /\ r \in left
  /\ left' = left \ {r}
  /\ UNCHANGED <<stream, page, refs, sent, live, dropped, disturbed, reloads>>

Arrival(r) ==
  \/ handleStreamUpdate(r)
  \/ handleStreamComplete(r)
  \/ handleStreamError(r)
  \/ StreamEnds(r)
  \/ Reply(r)
  \/ ReplyFails(r)
  \/ ReplyWithoutChoice(r)

Next ==
  \/ \E suggestion \in BOOLEAN : handleSendMessage(suggestion)
  \/ \E i \in DOMAIN messages :
       \/ handleRegenerateMessage(i)
       \/ handleDeleteMessage(i)
       \/ handleEditMessage(i)
       \/ \E submit \in BOOLEAN : applyEdit(i, submit)
  \/ handleEditCancel
  \/ stopGeneration
  \/ \E r \in Requests : Arrival(r) \/ LeftEnds(r)
  \/ Reload
  \/ Leave

\* The server ends every response.
Ends(r) ==
  \/ handleStreamComplete(r)
  \/ handleStreamError(r)
  \/ StreamEnds(r)
  \/ Reply(r)
  \/ ReplyFails(r)
  \/ ReplyWithoutChoice(r)

Spec == Init /\ [][Next]_vars /\ \A r \in Requests : WF_vars(Ends(r))
-----------------------------------------------------------------------------
Keys == (-MaxRequests..MaxRequests) \ {0}

TypeOK ==
  /\ stream \in BOOLEAN
  /\ messages \in Seq([key : Keys, from : SUBSET Requests,
                       status : Unfinished \cup {"none", "complete", "error"}])
  /\ Len(messages) <= MaxMessages
  /\ editing \in Keys \cup {0}
  /\ sseSourceRef \in 0..MaxRequests
  /\ {isStreamComplete, isGenerating, disturbed} \subseteq BOOLEAN
  /\ sent \in 0..MaxRequests
  /\ live \subseteq Requests
  /\ left \subseteq Requests
  /\ dropped \subseteq Requests
  /\ reloads \in 0..MaxReloads

\* While a stream that the page has opened is live the page knows it and
\* offers to stop it, unless the list has been disturbed: the reference and
\* the last rendering keep up with every way a stream can begin and end.  This
\* is not so of the streams in left, which go on with nobody to stop them.
LiveIsShown == stream /\ live # {} /\ ~disturbed => isGenerating

\* An answer stays in the message it was asked for, across regenerating,
\* deleting and reloading, unless the list has been disturbed.
OwnReply ==
  ~disturbed =>
    \A i \in DOMAIN messages : messages[i].from \subseteq {messages[i].key}

\* With streaming it takes a suggestion or the editor to disturb the list:
\* the guards hold every other way.
GuardsHold ==
  [][stream /\ ~disturbed /\ disturbed' =>
       \/ handleSendMessage(TRUE)
       \/ \E i \in DOMAIN messages, submit \in BOOLEAN :
            applyEdit(i, submit)]_vars

\* After the page was loaded or entered no message waits for an answer that
\* cannot come, even if the server had ended its response without [DONE],
\* unless the list had been disturbed.
StableAfterLoad ==
  [][(Reload \/ Leave) /\ ~disturbed =>
       \A i \in DOMAIN messages' : messages'[i].status \notin Unfinished]_vars

\* A message that waits for its answer is finished, or is gone, once the
\* server has ended its response properly.
RepliesEnd ==
  \A r \in Requests :
    (\E i \in DOMAIN messages :
       messages[i].key = r /\ messages[i].status \in Unfinished)
    ~> \/ disturbed
       \/ r \in dropped
       \/ \A i \in DOMAIN messages :
            messages[i].key = r => messages[i].status \notin Unfinished
=============================================================================
