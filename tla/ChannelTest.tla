----------------------------- MODULE ChannelTest -----------------------------
(***************************************************************************)
(* The channel test dialog of the web console                              *)
(* (channels/components/dialogs/channel-test-dialog.tsx): the models of a  *)
(* channel are tested one by one or in a batch, which runs through its     *)
(* models in groups and looks at one flag, batchStopRequestedRef, between  *)
(* them.                                                                   *)
(*                                                                         *)
(* Closing the dialog only hides it.  It clears what is shown and raises   *)
(* the flag, but the batch goes on until it looks at the flag, its answers *)
(* are shown in the next opening, and when it ends it lowers the flag and  *)
(* clears the batch state whoever they belong to by then.  A batch started *)
(* meanwhile lowers the flag as well, and then the old one does not stop.  *)
(* The variable overlapped remembers that two batches were alive at once.  *)
(*                                                                         *)
(* A model is its place in the list.  The endpoint type and the stream     *)
(* switch of a test are one choice, its way.  Whether a test succeeded     *)
(* decides nothing here, only that it is over.                             *)
(***************************************************************************)
EXTENDS Naturals, FiniteSets

CONSTANTS
  NumModels,   \* the models of the channel
  Width,       \* BATCH_TEST_CONCURRENCY
  Ways,        \* endpoint type and stream switch
  AutoWay,     \* the way the dialog starts with
  MaxBatches   \* bound: how many batches are ever started

ASSUME ChannelTestAssumption ==
  /\ NumModels \in Nat /\ MaxBatches \in Nat
  /\ Width \in Nat \ {0}
  /\ AutoWay \in Ways

VARIABLES
  open,
  batchStopRequestedRef,
  way,                   \* endpointType with effectiveStreamTest
  testResults,           \* the status of every model, "none" if missing
  testingModels,
  isBatchTesting,
  isBatchStopRequested,
  batchProgress,         \* total and completed, or None
  inFlight,              \* the tests that wait for an answer
  batches,               \* every call of handleBatchTest so far
  abandoned,             \* the batches that were alive at the last closing
  overlapped             \* a batch was started while another one was alive

shown == <<testResults, testingModels, isBatchTesting, isBatchStopRequested,
           batchProgress>>
vars == <<open, batchStopRequestedRef, way, shown, inFlight, batches,
          abandoned, overlapped>>

Models == 1..NumModels
Batches == 1..MaxBatches
None == [total |-> 0, completed |-> 0]
Alone == 0   \* the run of a test that no batch makes

Unused == [pc |-> "unused", total |-> 0, todo |-> {}, way |-> AutoWay]
Over == [Unused EXCEPT !.pc = "over"]
Alive == {b \in Batches : batches[b].pc \in {"group", "sleep"}}

Init ==
  /\ open = FALSE
  /\ batchStopRequestedRef = FALSE
  /\ way = AutoWay
  /\ testResults = [m \in Models |-> "none"]
  /\ testingModels = {}
  /\ isBatchTesting = FALSE
  /\ isBatchStopRequested = FALSE
  /\ batchProgress = None
  /\ inFlight = {}
  /\ batches = [b \in Batches |-> Unused]
  /\ abandoned = {}
  /\ overlapped = FALSE
-----------------------------------------------------------------------------
Open ==
  /\ ~open
  /\ open' = TRUE
  /\ UNCHANGED <<batchStopRequestedRef, way, shown, inFlight, batches,
                 abandoned, overlapped>>

\* handleClose: resetState.
handleClose ==
  /\ open
  /\ open' = FALSE
  /\ batchStopRequestedRef' = TRUE
  /\ way' = AutoWay
  /\ testResults' = [m \in Models |-> "none"]
  /\ testingModels' = {}
  /\ isBatchTesting' = FALSE
  /\ isBatchStopRequested' = FALSE
  /\ batchProgress' = None
  /\ abandoned' = Alive
  /\ UNCHANGED <<inFlight, batches, overlapped>>

\* handleEndpointTypeChange and the stream switch, also during a test.
handleEndpointTypeChange(w) ==
  /\ open
  /\ way' = w
  /\ UNCHANGED <<open, batchStopRequestedRef, shown, inFlight, batches,
                 abandoned, overlapped>>

\* testSingleModel, up to the request, for the models ms of the run b.
StartTests(b, ms, w) ==
  /\ testingModels' = testingModels \cup ms
  /\ testResults' = [m \in Models |->
                       IF m \in ms THEN "testing" ELSE testResults[m]]
  /\ inFlight' = inFlight \cup [run : {b}, model : ms, way : {w}]

\* The button in the row of a model.
testSingleModel(m) ==
  /\ open
  /\ m \notin testingModels
  /\ ~isBatchTesting
  /\ StartTests(Alone, {m}, way)
  /\ UNCHANGED <<open, batchStopRequestedRef, way, isBatchTesting,
                 isBatchStopRequested, batchProgress, batches, abandoned,
                 overlapped>>

\* The next group of the models that are left.
GroupShifted(todo) ==
  {m + 1 : m \in {k \in todo : Cardinality({l \in todo : l < k}) < Width}}
Group(todo) == {m \in todo : Cardinality({k \in todo : k < m}) < Width}

\* handleBatchTest, up to the answers to its first group.  The models are
\* those that the search term leaves.
isAnyTesting == testingModels # {} \/ isBatchTesting

handleBatchTest(b, ms) ==
  /\ open
  /\ ~isAnyTesting
  /\ ms # {}
  /\ \A c \in Batches : (batches[c].pc = "unused") <=> (c >= b)
  /\ batchStopRequestedRef' = FALSE
  /\ isBatchTesting' = TRUE
  /\ isBatchStopRequested' = FALSE
  /\ batchProgress' = [total |-> Cardinality(ms), completed |-> 0]
  /\ batches' = [batches EXCEPT ![b] =
                   [pc |-> "group", total |-> Cardinality(ms),
                    todo |-> ms \ Group(ms), way |-> way]]
  /\ StartTests(b, Group(ms), way)
  /\ overlapped' = (overlapped \/ Alive # {})
  /\ UNCHANGED <<open, way, abandoned>>

handleStopBatchTest ==
  /\ open
  /\ isBatchTesting
  /\ ~isBatchStopRequested
  /\ batchStopRequestedRef' = TRUE
  /\ isBatchStopRequested' = TRUE
  /\ UNCHANGED <<open, way, testResults, testingModels, isBatchTesting,
                 batchProgress, inFlight, batches, abandoned, overlapped>>
-----------------------------------------------------------------------------
\* What the finally of handleBatchTest does if one of the batches bs ends.
FinallyUnstopped(bs) ==
  IF bs = {} \/ isBatchStopRequested
  THEN UNCHANGED <<batchStopRequestedRef, isBatchTesting,
                   isBatchStopRequested>>
  ELSE /\ batchStopRequestedRef' = FALSE
       /\ isBatchTesting' = FALSE
       /\ isBatchStopRequested' = FALSE

Finally(bs) ==
  IF bs = {}
  THEN UNCHANGED <<batchStopRequestedRef, isBatchTesting,
                   isBatchStopRequested>>
  ELSE /\ batchStopRequestedRef' = FALSE
       /\ isBatchTesting' = FALSE
       /\ isBatchStopRequested' = FALSE

\* recordBatchResult.
Completed(b, flight) ==
  [total |-> batches[b].total,
   completed |-> batches[b].total - Cardinality(batches[b].todo)
                   - Cardinality({f \in flight : f.run = b})]

\* The test is over for the row of the model, whatever the answer.
UntestedNever(ms) == testingModels
Untested(ms) == testingModels \ ms

\* An answer, good or bad: handleTestChannel catches every error.
\* Concurrent tests of a model that go the same way share one request
\* (lib/api.ts), so the answer is for all of them, and they take it in the
\* order in which they asked, which the model does not record: any batch may
\* be the last to write the progress, and any whose group is over the first
\* to look at the flag, which it lowers before the next one looks.
Answer(m, w) ==
  LET over == {f \in inFlight : f.model = m /\ f.way = w}
      flight == inFlight \ over
      heard == {f.run : f \in over} \ {Alone}
      done == {b \in heard : \A f \in flight : f.run # b}
      EndsIf(first) == {b \in done : \/ batches[b].todo = {}
                                     \/ batchStopRequestedRef /\ b = first}
  IN /\ over # {}
     /\ inFlight' = flight
     /\ testResults' = [testResults EXCEPT ![m] = "tested"]
     /\ testingModels' = Untested({m})
     /\ \E first \in done \cup {Alone}, last \in heard \cup {Alone} :
          LET ends == EndsIf(first)
          IN /\ done # {} => first # Alone
             /\ heard # {} => last # Alone
             /\ batches' = [b \in Batches |->
                              IF b \in ends THEN Over
                              ELSE IF b \in done
                              THEN [batches[b] EXCEPT !.pc = "sleep"]
                              ELSE batches[b]]
             /\ Finally(ends)
             /\ batchProgress' =
                  IF ends # {} THEN None
                  ELSE IF heard # {} THEN Completed(last, flight)
                  ELSE batchProgress
     /\ UNCHANGED <<open, way, abandoned, overlapped>>

\* The pause between two groups is over.
WakeBlind(b) ==
  /\ batches[b].pc = "sleep"
  /\ StartTests(b, Group(batches[b].todo), batches[b].way)
  /\ batches' = [batches EXCEPT ![b].pc = "group",
                                ![b].todo = @ \ Group(@)]
  /\ UNCHANGED <<open, batchStopRequestedRef, way, isBatchTesting,
                 isBatchStopRequested, batchProgress, abandoned, overlapped>>

Wake(b) ==
  \/ WakeBlind(b) /\ ~batchStopRequestedRef
  \/ /\ batches[b].pc = "sleep"
     /\ batchStopRequestedRef
     /\ Finally({b})
     /\ batchProgress' = None
     /\ batches' = [batches EXCEPT ![b] = Over]
     /\ UNCHANGED <<open, way, testResults, testingModels, inFlight,
                    abandoned, overlapped>>

Next ==
  \/ Open
  \/ handleClose
  \/ \E w \in Ways : handleEndpointTypeChange(w)
  \/ \E m \in Models : testSingleModel(m)
  \/ \E b \in Batches, ms \in SUBSET Models : handleBatchTest(b, ms)
  \/ handleStopBatchTest
  \/ \E m \in Models, w \in Ways : Answer(m, w)
  \/ \E b \in Batches : Wake(b)

\* Every timer fires.  An answer need not come: neither the browser's
\* requests nor the server's to the channel have a time limit by default, and
\* stopping aborts none.
Fairness == \A b \in Batches : WF_vars(Wake(b))

Spec == Init /\ [][Next]_vars /\ Fairness
-----------------------------------------------------------------------------
TypeOK ==
  /\ {open, batchStopRequestedRef, isBatchTesting, isBatchStopRequested,
      overlapped} \subseteq BOOLEAN
  /\ way \in Ways
  /\ testResults \in [Models -> {"none", "testing", "tested"}]
  /\ testingModels \subseteq Models
  /\ batchProgress \in [total : 0..NumModels, completed : 0..NumModels]
  /\ inFlight \subseteq [run : Batches \cup {Alone}, model : Models,
                         way : Ways]
  /\ batches \in [Batches -> [pc : {"unused", "group", "sleep", "over"},
                              total : 0..NumModels, todo : SUBSET Models,
                              way : Ways]]
  /\ abandoned \subseteq Batches

\* What the dialog shows is true: a model it shows as being tested has a
\* test under way, also when two openings test it at once and the answers
\* cross.  And unless batches have overlapped, it says that a batch runs
\* exactly while one of this opening does, and the progress it shows is
\* that of a live batch, and is short of its end.
ShownIsTrue ==
  /\ \A m \in Models :
       m \in testingModels \/ testResults[m] = "testing" =>
         \E f \in inFlight : f.model = m
  /\ ~overlapped =>
       /\ isBatchTesting <=> Alive \ abandoned # {}
       /\ batchProgress # None =>
            /\ batchProgress.completed < batchProgress.total
            /\ \E b \in Alive : batchProgress = Completed(b, inFlight)

\* While the dialog says that it is stopping, no test is started, and a
\* batch whose dialog was closed starts no further group, unless batches
\* have overlapped: the flag is looked at after the group and again after
\* the pause.
StopIsKept ==
  [][LET started == {f.run : f \in inFlight' \ inFlight}
     IN /\ isBatchStopRequested /\ isBatchStopRequested' => started = {}
        /\ ~overlapped' => started \cap abandoned = {}]_vars

\* The tests of the models ms are always answered sooner or later.
Answered(ms) ==
  \A m \in ms, w \in Ways :
    []<>(\A f \in inFlight : ~(f.model = m /\ f.way = w))

\* The buttons come back, whatever was stopped, closed or abandoned: the
\* dialog does not say for ever that it tests a batch if the channel answers,
\* nor that it tests a model whose own tests are answered, even if those of
\* other models hang.
TestingEnds ==
  /\ Answered(Models) => (isBatchTesting ~> ~isBatchTesting)
  /\ \A m \in Models :
       Answered({m}) => (m \in testingModels ~> m \notin testingModels)
=============================================================================
