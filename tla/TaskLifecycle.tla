--------------------------- MODULE TaskLifecycle ---------------------------
(***************************************************************************)
(* Asynchronous tasks (video, Suno): service/task_polling.go over the rows *)
(* of model/task.go, with the refund and the difference settlement of      *)
(* service/task_billing.go.                                                *)
(*                                                                         *)
(* A submitted task has been paid for.  Every master node runs a polling   *)
(* loop: it sweeps the tasks that timed out, lists the unfinished ones,    *)
(* asks the upstream about each and saves the answer in the task's row.    *)
(* Whoever brings a task to its end must bill it: give everything back     *)
(* after a failure, settle the difference after a success.  Several nodes  *)
(* work from lists that may be stale, and a client that fetches a Gemini   *)
(* or Vertex task saves the answer too (relay/relay_task.go).              *)
(*                                                                         *)
(* Of an erratic upstream any answer may come at any time: a body without  *)
(* a status and a failed preparation of Seedance assets count as failures  *)
(* whatever the task really does.  The answers of the others follow it.    *)
(***************************************************************************)
EXTENDS Integers

CONSTANTS
  Tasks,
  Pollers,      \* master nodes: one TaskPollingLoop each
  Clients,      \* concurrent client requests that fetch a task
  Suno,         \* tasks of the Suno platform, the others are video tasks
  Gemini,       \* video tasks on Gemini or Vertex channels
  Pipeline,     \* video tasks that may have an enhancement pipeline
  Erratic,      \* tasks whose upstream gives any answer
  NoUpstreamId, \* tasks without any upstream task id
  LostChannel,  \* tasks whose channel CacheGetChannel may fail to find: it
                \* is deleted, not in the cache yet, or cannot be read
  SubmitTime,   \* tasks.submit_time, Unix seconds
  Timeouts,     \* TaskTimeoutMinutes > 0
  Quotas,       \* what a task is submitted for, what it really costs
  FaultKinds,   \* the operations that may fail
  MaxFaults,    \* bound: how many operations fail
  MaxCrashes,   \* bound: how many times a polling loop dies and restarts
  MaxUndone     \* bound: how many ends of a task clients write over

\* The settlement or the insert of a submission, an update of a row or of
\* many fails, or a transfer; "ack": an update is committed but its answer is
\* lost.
AllFaults == {"settle", "insert", "update", "bulk", "ack", "funds", "token"}

ASSUME TasksAssumption ==
  /\ Tasks # {}
  /\ Pollers \intersect Clients = {}
  /\ Suno \subseteq Tasks
  /\ Gemini \subseteq Tasks \ Suno
  /\ Pipeline \subseteq Tasks \ Suno
  /\ Erratic \subseteq Tasks
  /\ NoUpstreamId \subseteq Tasks
  /\ LostChannel \subseteq Tasks
  /\ SubmitTime \in [Tasks -> Nat]
  /\ Timeouts \in BOOLEAN
  /\ Quotas \subseteq Nat \ {0}
  /\ FaultKinds \subseteq AllFaults
  /\ MaxFaults \in Nat
  /\ MaxCrashes \in Nat
  /\ MaxUndone \in Nat

VARIABLES
  status,    \* tasks.status
  complete,  \* tasks whose progress is "100%"
  quota,     \* tasks.quota
  expired,   \* tasks submitted before the cutoff of the sweep
  upstream,  \* what the upstream has really made of the task
  pc,        \* where a polling loop or a fetching client is
  todo,      \* tasks of the list it has read and not yet looked at
  view,      \* the statuses in that list
  cur,       \* the task it works on
  answer,    \* the status it is going to save
  paid,      \* ghost: what the task has taken from its funding source
  tokenPaid, \* ghost: what it has taken from the token
  due,       \* ghost: what a success costs, as last settled
  undone,    \* ghost: how many ends clients have read and written over
  faults, crashes,
  hit        \* ghost: tasks one of whose steps failed or was cut off

row    == <<status, complete, quota>>
local  == <<pc, todo, view, cur, answer>>
ledger == <<paid, tokenPaid, due, undone>>
vars   == <<row, expired, upstream, local, ledger, faults, crashes, hit>>

Procs == Pollers \union Clients
Final == {"SUCCESS", "FAILURE"}
\* SUBMITTED and QUEUED count as NOT_START.
Known == {"NOT_START", "IN_PROGRESS"} \union Final
Statuses == {"none", "lost"} \union Known

\* FetchTask and ParseTaskResult: what the upstream says of the task.
Answers(t) ==
  IF t \in Erratic THEN Known
  ELSE IF upstream[t] = "IN_PROGRESS" THEN Known \ Final ELSE {upstream[t]}

Init ==
  /\ status = [t \in Tasks |-> "none"]
  /\ complete = {} /\ expired = {}
  /\ quota = [t \in Tasks |-> 0]
  /\ upstream = [t \in Tasks |-> "IN_PROGRESS"]
  /\ pc = [p \in Procs |-> "sleep"]
  /\ todo = [p \in Procs |-> {}]
  /\ view = [p \in Procs |-> [t \in Tasks |-> "none"]]
  /\ cur = [p \in Procs |-> CHOOSE t \in Tasks : TRUE]
  /\ answer = [p \in Procs |-> "none"]
  /\ paid = [t \in Tasks |-> 0]
  /\ tokenPaid = [t \in Tasks |-> 0]
  /\ due = [t \in Tasks |-> 0]
  /\ undone = [t \in Tasks |-> 0]
  /\ faults = 0 /\ crashes = 0
  /\ hit = {}
-----------------------------------------------------------------------------
\* A database operation for the tasks returns an error.
FailsFor(ts, kind) ==
  /\ kind \in FaultKinds
  /\ faults < MaxFaults
  /\ faults' = faults + 1
  /\ hit' = hit \union ts

Fails(t, kind) == FailsFor({t}, kind)

Succeeds == UNCHANGED <<faults, hit>>

\* The columns of the row are all written, from the writer's copy.
Writes(t, s, isComplete) ==
  /\ status' = [status EXCEPT ![t] = s]
  /\ complete' = IF isComplete THEN complete \union {t} ELSE complete \ {t}
  /\ UNCHANGED quota

\* Mutant: the update is not conditional on the status.
UpdateUnguarded(t, from, s, isComplete, won) ==
  /\ won
  /\ Writes(t, s, isComplete)

\* UpdateWithStatus: compare and swap on the status.
UpdateWithStatus(t, from, s, isComplete, won) ==
  \/ /\ won /\ status[t] = from
     /\ Writes(t, s, isComplete)
  \/ /\ ~won /\ status[t] # from
     /\ UNCHANGED row

\* The process moves on to location l, with task t and answer a in hand.
Goto(p, l, t, a) ==
  /\ pc' = [pc EXCEPT ![p] = l]
  /\ cur' = [cur EXCEPT ![p] = t]
  /\ answer' = [answer EXCEPT ![p] = a]
  /\ UNCHANGED <<todo, view>>

\* The tasks GetAllUnFinishSyncTasks selects.
Unfinished == {t \in Tasks : status[t] \notin {"none", "lost"} \union Final}
                \ complete

\* A list is read from the database.
Lists(p, l, ts) ==
  /\ pc' = [pc EXCEPT ![p] = l]
  /\ todo' = [todo EXCEPT ![p] = ts]
  /\ view' = [view EXCEPT ![p] = status]
  /\ UNCHANGED <<cur, answer>>
-----------------------------------------------------------------------------
(***************************************************************************)
(* Submission, time                                                        *)
(***************************************************************************)

\* RelayTask after the upstream has accepted: the billing session is settled
\* first, then the row is inserted.  Both errors are only logged: a failed
\* settlement leaves what was pre-consumed, the row holds the quota anyway.
RelayTask(t) ==
  /\ status[t] = "none"
  /\ \E q, pre \in Quotas :
       /\ quota' = [quota EXCEPT ![t] = q]
       /\ due' = [due EXCEPT ![t] = q]
       /\ LET Row(s, amount) ==
                /\ status' = [status EXCEPT ![t] = s]
                /\ paid' = [paid EXCEPT ![t] = amount]
                /\ tokenPaid' = [tokenPaid EXCEPT ![t] = amount]
          IN \/ Row("NOT_START", q) /\ Succeeds
             \/ Row("lost", q) /\ Fails(t, "insert")
             \/ Row("NOT_START", pre) /\ Fails(t, "settle")
  /\ UNCHANGED <<complete, expired, upstream, local, undone, crashes>>

\* The upstream is done with the task.
UpstreamEnds(t) ==
  /\ t \notin Erratic
  /\ status[t] # "none" /\ upstream[t] = "IN_PROGRESS"
  /\ \E s \in Final : upstream' = [upstream EXCEPT ![t] = s]
  /\ UNCHANGED <<row, expired, local, ledger, faults, crashes, hit>>

\* TaskTimeoutMinutes have passed since the submission.
Expire(t) ==
  /\ Timeouts
  /\ t \notin expired /\ status[t] \notin {"none", "lost"}
  /\ expired' = expired \union {t}
  /\ UNCHANGED <<row, upstream, local, ledger, faults, crashes, hit>>
-----------------------------------------------------------------------------
(***************************************************************************)
(* Billing a task that has come to its end                                 *)
(***************************************************************************)

\* Mutant: the token keeps what it has paid.
PaysNoToken(t, d) == paid' = [paid EXCEPT ![t] = @ + d] /\ UNCHANGED tokenPaid

\* taskAdjustFunding, then taskAdjustTokenQuota.
Pays(t, d) ==
  /\ paid' = [paid EXCEPT ![t] = @ + d]
  /\ tokenPaid' = [tokenPaid EXCEPT ![t] = @ + d]

\* The token is left out when the funding fails, its own failure is logged.
Adjusts(t, d) ==
  \/ Pays(t, d) /\ Succeeds
  \/ Fails(t, "funds") /\ UNCHANGED <<paid, tokenPaid>>
  \/ /\ Fails(t, "token")
     /\ paid' = [paid EXCEPT ![t] = @ + d]
     /\ UNCHANGED tokenPaid

\* Where a loop goes on after it has billed a task.
AfterBilling == [sweepRefund |-> "sweep", refund |-> "poll",
                 sunoRefund |-> "sunoSave"]

\* RefundTaskQuota
RefundTaskQuota(p) ==
  /\ pc[p] \in DOMAIN AfterBilling
  /\ Adjusts(cur[p], -quota[cur[p]])
  /\ due' = [due EXCEPT ![cur[p]] = 0]
  /\ Goto(p, AfterBilling[pc[p]], cur[p], answer[p])
  /\ UNCHANGED <<row, expired, upstream, undone, crashes>>

\* Mutant: the difference is taken for the cost.
SettleTaskBillingDelta(p) ==
  /\ pc[p] = "settle"
  /\ \E q \in Quotas \ {quota[cur[p]]} :
       /\ Adjusts(cur[p], q - quota[cur[p]])
       /\ due' = [due EXCEPT ![cur[p]] = q - quota[cur[p]]]
  /\ Goto(p, "poll", cur[p], answer[p])
  /\ UNCHANGED <<row, expired, upstream, undone, crashes>>

\* settleTaskBillingOnComplete: the adaptor or the tokens of the answer give
\* the real cost, and RecalculateTaskQuota moves the difference; or neither
\* does, and the task keeps its pre-consumed quota.
SettleTaskBilling(p) ==
  /\ pc[p] = "settle"
  /\ LET t == cur[p] IN
     \/ \E q \in Quotas \ {quota[t]} :
          /\ Adjusts(t, q - quota[t])
          /\ due' = [due EXCEPT ![t] = q]
     \/ UNCHANGED <<paid, tokenPaid, due>> /\ Succeeds
  /\ Goto(p, "poll", cur[p], answer[p])
  /\ UNCHANGED <<row, expired, upstream, undone, crashes>>
-----------------------------------------------------------------------------
(***************************************************************************)
(* sweepTimedOutTasks                                                      *)
(***************************************************************************)

\* Tasks from before this time are failed and not refunded.
legacyTaskCutoff == 1740182400
IsLegacy(t) == SubmitTime[t] > 0 /\ SubmitTime[t] < legacyTaskCutoff

\* Mutant: only tasks that have not started time out.
SweepListNotStarted(p) ==
  /\ pc[p] = "sleep"
  /\ Lists(p, "sweep", {t \in Unfinished \intersect expired :
                          status[t] = "NOT_START"})
  /\ UNCHANGED <<row, expired, upstream, ledger, faults, crashes, hit>>

SweepList(p) ==
  /\ pc[p] = "sleep"
  /\ Lists(p, "sweep", Unfinished \intersect expired)
  /\ UNCHANGED <<row, expired, upstream, ledger, faults, crashes, hit>>

\* The task is failed by compare and swap, and refunded by the winner unless
\* it is a legacy task.
SweepTask(p) ==
  /\ pc[p] = "sweep"
  /\ \E t \in todo[p] :
       /\ todo' = [todo EXCEPT ![p] = @ \ {t}]
       /\ cur' = [cur EXCEPT ![p] = t]
       /\ \E won \in BOOLEAN :
            \/ /\ UpdateWithStatus(t, view[p][t], "FAILURE", TRUE, won)
               /\ pc' = [pc EXCEPT ![p] = IF won /\ ~IsLegacy(t)
                                          THEN "sweepRefund" ELSE @]
               /\ Succeeds
            \/ /\ Fails(t, "update") /\ ~won
               /\ UNCHANGED <<row, pc>>
            \/ /\ Fails(t, "ack") /\ won
               /\ UpdateWithStatus(t, view[p][t], "FAILURE", TRUE, won)
               /\ UNCHANGED pc
  /\ UNCHANGED <<view, answer, expired, upstream, ledger, crashes>>
-----------------------------------------------------------------------------
(***************************************************************************)
(* TaskPollingLoop, UpdateVideoTasks, UpdateSunoTasks                      *)
(***************************************************************************)

PollList(p) ==
  /\ pc[p] = "sweep" /\ todo[p] = {}
  /\ Lists(p, "poll", Unfinished)
  /\ UNCHANGED <<row, expired, upstream, ledger, faults, crashes, hit>>

\* TaskBulkUpdateByID sets status and progress of many rows, whatever they
\* are now, and nobody is refunded: tasks that have no upstream id ...
BulkFails(p, ts) ==
  /\ pc[p] = "poll" /\ ts # {}
  /\ \/ /\ status' = [t \in Tasks |-> IF t \in ts THEN "FAILURE"
                                                 ELSE status[t]]
        /\ complete' = complete \union ts
        /\ Succeeds
     \/ FailsFor(ts, "bulk") /\ UNCHANGED <<status, complete>>
  /\ todo' = [todo EXCEPT ![p] = @ \ ts]
  /\ UNCHANGED <<quota, pc, view, cur, answer, expired, upstream, ledger,
                 crashes>>

FailNullTasks(p) == BulkFails(p, todo[p] \intersect NoUpstreamId)

\* ... or, whatever has become of them meanwhile, the listed tasks of a
\* channel that CacheGetChannel does not find this time.
FailLostChannel(p) ==
  \E ts \in SUBSET ((todo[p] \intersect LostChannel) \ NoUpstreamId) :
    BulkFails(p, ts)

\* FetchTask fails, answers 429, says nothing new or nothing known.
FetchNothing(p) ==
  /\ pc[p] = "poll"
  /\ \E t \in todo[p] \ NoUpstreamId :
       todo' = [todo EXCEPT ![p] = @ \ {t}]
  /\ UNCHANGED <<row, pc, view, cur, answer, expired, upstream, ledger,
                 faults, crashes, hit>>

Fetch(p) ==
  /\ pc[p] = "poll"
  /\ \E t \in todo[p] \ NoUpstreamId :
     \E a \in Answers(t) :
       /\ t \notin Suno
       /\ todo' = [todo EXCEPT ![p] = @ \ {t}]
       /\ cur' = [cur EXCEPT ![p] = t]
       /\ answer' = [answer EXCEPT ![p] = a]
       /\ pc' = [pc EXCEPT ![p] = "save"]
  /\ UNCHANGED <<row, view, expired, upstream, ledger, faults, crashes, hit>>

\* What the winner of the update does next.
BillingOf(a) ==
  IF a = "SUCCESS" THEN "settle"
  ELSE IF a = "FAILURE" THEN "refund"
  ELSE "poll"

\* Mutant: a loser of the compare and swap bills the task as well.
UpdateVideoTaskAlwaysBills(p) ==
  /\ pc[p] = "save"
  /\ \E won \in BOOLEAN :
       UpdateWithStatus(cur[p], view[p][cur[p]], answer[p],
                        answer[p] \in Final, won)
  /\ Goto(p, BillingOf(answer[p]), cur[p], answer[p])
  /\ UNCHANGED <<expired, upstream, ledger, faults, crashes, hit>>

\* The progress is the upstream's, and an erratic one may say 100% too early.
Completions(t, a) ==
  IF a \in Final THEN {TRUE} ELSE IF t \in Erratic THEN BOOLEAN ELSE {FALSE}

\* The end of updateVideoSingleTask, also reached when the preparation of
\* Seedance assets goes on or has failed: only the winner bills.
UpdateVideoTask(p) ==
  /\ pc[p] = "save"
  /\ LET t == cur[p]
         a == answer[p]
         Update(won) ==
           \E isComplete \in Completions(t, a) :
             UpdateWithStatus(t, view[p][t], a, isComplete, won)
     IN \E won \in BOOLEAN :
          \/ /\ Update(won)
             /\ Goto(p, IF won THEN BillingOf(a) ELSE "poll", t, a)
             /\ Succeeds
          \/ /\ Fails(t, "update") /\ ~won
             /\ UNCHANGED row
             /\ Goto(p, "poll", t, a)
          \/ /\ Fails(t, "ack") /\ won
             /\ Update(won)
             /\ Goto(p, "poll", t, a)
  /\ UNCHANGED <<expired, upstream, ledger, crashes>>

\* AdvanceVideoPipelineIfNeeded: the enhancement of a generated video goes
\* on or ends, by compare and swap; what was pre-consumed stays.  Whether a
\* provider is configured, and the enhancement has begun, is left open: if so
\* any answer leads here.
AdvanceVideoPipeline(p) ==
  /\ pc[p] = "save" /\ cur[p] \in Pipeline
  /\ \/ /\ \E a \in {"IN_PROGRESS", "SUCCESS"}, won \in BOOLEAN :
             UpdateWithStatus(cur[p], view[p][cur[p]], a, a = "SUCCESS", won)
        /\ Succeeds
     \/ Fails(cur[p], "update") /\ UNCHANGED row
  /\ Goto(p, "poll", cur[p], answer[p])
  /\ UNCHANGED <<expired, upstream, ledger, crashes>>

\* updateSunoTasks: a failed task is refunded before its row is written ...
FetchSuno(p) ==
  /\ pc[p] = "poll"
  /\ \E t \in todo[p] \ NoUpstreamId :
     \E a \in Answers(t), failReason \in BOOLEAN :
       /\ t \in Suno
       /\ todo' = [todo EXCEPT ![p] = @ \ {t}]
       /\ cur' = [cur EXCEPT ![p] = t]
       /\ answer' = [answer EXCEPT ![p] = a]
       /\ pc' = [pc EXCEPT ![p] = IF failReason \/ a = "FAILURE"
                                  THEN "sunoRefund" ELSE "sunoUpdate"]
  /\ UNCHANGED <<row, view, expired, upstream, ledger, faults, crashes, hit>>

\* ... and the row is written unconditionally (Task.Update).
UpdateSunoTask(p) ==
  /\ pc[p] \in {"sunoSave", "sunoUpdate"}
  /\ \/ /\ Writes(cur[p], answer[p],
                  pc[p] = "sunoSave" \/ answer[p] = "SUCCESS")
        /\ Succeeds
     \/ Fails(cur[p], "update") /\ UNCHANGED row
  /\ Goto(p, "poll", cur[p], answer[p])
  /\ UNCHANGED <<expired, upstream, ledger, crashes>>

\* The loop has been through its list and sleeps.
PollEnd(p) ==
  /\ pc[p] = "poll" /\ todo[p] = {}
  /\ Goto(p, "sleep", cur[p], "none")
  /\ UNCHANGED <<row, expired, upstream, ledger, faults, crashes, hit>>

\* The process of the loop dies and starts again.
Crash(p) ==
  /\ pc[p] # "sleep"
  /\ crashes < MaxCrashes
  /\ crashes' = crashes + 1
  /\ hit' = IF pc[p] \in {"sweepRefund", "refund", "settle", "sunoSave"}
            THEN hit \union {cur[p]} ELSE hit
  /\ Lists(p, "sleep", {})
  /\ UNCHANGED <<row, expired, upstream, ledger, faults>>
-----------------------------------------------------------------------------
(***************************************************************************)
(* tryRealtimeFetch                                                        *)
(***************************************************************************)

\* A client fetches a Gemini or Vertex task, finished or not ...
ClientRead(c) ==
  /\ pc[c] = "sleep"
  /\ \E t \in Gemini :
       /\ status[t] \notin {"none", "lost"}
       /\ cur' = [cur EXCEPT ![c] = t]
  /\ pc' = [pc EXCEPT ![c] = "fetch"]
  /\ view' = [view EXCEPT ![c] = status]
  /\ UNCHANGED <<row, todo, answer, expired, upstream, ledger, faults, crashes,
                 hit>>

\* ... the upstream answers, or the fetch fails ...
ClientFetch(c) ==
  /\ pc[c] = "fetch"
  /\ \/ \E a \in Answers(cur[c]) : Goto(c, "clientSave", cur[c], a)
     \/ Goto(c, "sleep", cur[c], "none")
  /\ UNCHANGED <<row, expired, upstream, ledger, faults, crashes, hit>>

\* Mutant: the answer is saved by Task.Update, whatever the row says now.
ClientSaveUnguarded(c) ==
  /\ pc[c] = "clientSave"
  /\ Writes(cur[c], answer[c], answer[c] \in Final)
  /\ Goto(c, "sleep", cur[c], "none")
  /\ UNCHANGED <<expired, upstream, ledger, faults, crashes, hit>>

\* Mutant: the client refunds a failure, whether it won the swap or not.
ClientSaveRefunds(c) ==
  /\ pc[c] = "clientSave"
  /\ \E won \in BOOLEAN :
       UpdateWithStatus(cur[c], view[c][cur[c]], answer[c],
                        answer[c] \in Final, won)
  /\ IF answer[c] = "FAILURE" THEN Pays(cur[c], -quota[cur[c]])
                             ELSE UNCHANGED <<paid, tokenPaid>>
  /\ Goto(c, "sleep", cur[c], "none")
  /\ UNCHANGED <<expired, upstream, due, undone, faults, crashes, hit>>

\* ... and the answer is saved by compare and swap, also over an end that the
\* client has read; whether the swap was won is ignored, nothing is billed.
ClientSave(c) ==
  /\ pc[c] = "clientSave"
  /\ LET t    == cur[c]
         from == view[c][t]
     IN \E won \in BOOLEAN :
          /\ UpdateWithStatus(t, from, answer[c], answer[c] \in Final, won)
          /\ IF won /\ from \in Final \ {answer[c]}
             THEN /\ undone[t] < MaxUndone
                  /\ undone' = [undone EXCEPT ![t] = @ + 1]
             ELSE UNCHANGED undone
  /\ Goto(c, "sleep", cur[c], "none")
  /\ UNCHANGED <<expired, upstream, paid, tokenPaid, due, faults, crashes,
                 hit>>
-----------------------------------------------------------------------------
SweepStep(p) == SweepList(p) \/ SweepTask(p)

PollStep(p) ==
  \/ PollList(p)
  \/ FailNullTasks(p)
  \/ FailLostChannel(p)
  \/ FetchNothing(p)
  \/ Fetch(p)
  \/ UpdateVideoTask(p)
  \/ AdvanceVideoPipeline(p)
  \/ FetchSuno(p)
  \/ UpdateSunoTask(p)
  \/ RefundTaskQuota(p)
  \/ SettleTaskBilling(p)
  \/ PollEnd(p)

Next ==
  \/ \E t \in Tasks : RelayTask(t) \/ UpstreamEnds(t) \/ Expire(t)
  \/ \E p \in Pollers : SweepStep(p) \/ PollStep(p) \/ Crash(p)
  \/ \E c \in Clients : ClientRead(c) \/ ClientFetch(c) \/ ClientSave(c)

Spec == Init /\ [][Next]_vars

\* The loop waits for an upstream: FetchTask, and the provider of an
\* enhancement pipeline, are asked from the goroutine of the loop, by an
\* http.Client that has no timeout unless RELAY_TIMEOUT is set.
Waits(p) ==
  \/ pc[p] = "poll" /\ todo[p] \ NoUpstreamId # {}
  \/ pc[p] = "save" /\ cur[p] \in Pipeline

\* A polling loop goes on unless it waits for an upstream, and time passes.
Fairness ==
  /\ \A p \in Pollers : WF_vars(~Waits(p) /\ (SweepStep(p) \/ PollStep(p)))
  /\ \A t \in Tasks : WF_vars(Expire(t))

FairSpec == Spec /\ Fairness
-----------------------------------------------------------------------------
\* Every column and program counter keeps its range, and no settlement makes
\* the cost of a task negative.
TypeOK ==
  /\ status \in [Tasks -> Statuses]
  /\ complete \subseteq Tasks
  /\ quota \in [Tasks -> Nat]
  /\ expired \subseteq Tasks
  /\ upstream \in [Tasks -> {"IN_PROGRESS"} \union Final]
  /\ pc \in [Procs -> {"sleep", "sweep", "sweepRefund", "poll", "save",
                       "settle", "refund", "sunoRefund", "sunoSave",
                       "sunoUpdate", "fetch", "clientSave"}]
  /\ todo \in [Procs -> SUBSET Tasks]
  /\ view \in [Procs -> [Tasks -> Statuses]]
  /\ cur \in [Procs -> Tasks]
  /\ answer \in [Procs -> {"none"} \union Known]
  /\ paid \in [Tasks -> Int]
  /\ tokenPaid \in [Tasks -> Int]
  /\ due \in [Tasks -> Nat]
  /\ undone \in [Tasks -> Nat]
  /\ faults \in Nat
  /\ crashes \in Nat
  /\ hit \subseteq Tasks

\* A process is between the end of the task and its billing.
InBilling(t) ==
  \E p \in Pollers :
    cur[p] = t /\ pc[p] \in {"sweepRefund", "refund", "settle"}

\* A task that has ended has paid, from its funding source and its token,
\* what was settled, and nothing if it has failed, whichever node or sweep
\* ended it and however many tried to (service/task_billing.go:221).  Legacy
\* tasks are exempt: the sweep does not refund them.
EndedIsBilled ==
  \A t \in Tasks \ hit : status[t] \in Final /\ ~InBilling(t) =>
    /\ paid[t] = due[t] /\ tokenPaid[t] = due[t]
    /\ status[t] = "FAILURE" /\ ~IsLegacy(t) => due[t] = 0

\* Nobody gives back more than the task has paid, not even when operations
\* fail or a loop dies between its update and the refund.
RefundedAtMostOnce == \A t \in Tasks : paid[t] >= 0 /\ tokenPaid[t] >= 0

\* A task that has come to its end stays as it is: no stale list brings it
\* back or turns a success into a failure (model/task.go:443).
EndIsFinal ==
  [][\A t \in Tasks : status[t] \in Final => status'[t] = status[t]]_vars

\* A fetching client saves over the end of a task only if it has read that
\* very end and the upstream says something else: an answer to a read from
\* before the end never does (UpdateWithStatus in tryRealtimeFetch,
\* relay/relay_task.go:512), however sweep, polling loops and client mix.
EndOutlastsStaleReads ==
  [][\A t \in Tasks : status[t] \in Final /\ status'[t] # status[t] =>
       \E c \in Clients : /\ pc[c] = "clientSave" /\ cur[c] = t
                          /\ view[c][t] = status[t]
                          /\ answer[c] = status'[t]]_vars

\* A task gets back more than it has paid only if clients write over ends
\* they have read, and then one quota at most for each: clients and polling
\* loops that race to end a task never make two refunds of one end.
OneRefundPerEnd ==
  \A t \in Tasks : /\ paid[t] + undone[t] * quota[t] >= 0
                   /\ tokenPaid[t] + undone[t] * quota[t] >= 0

\* Every inserted task ends, by its upstream or by the sweep, and leaves the
\* lists of the polling loops, if at least one loop is not kept waiting for
\* ever by an upstream.
EveryTaskEnds ==
  (\E p \in Pollers : []<>~Waits(p)) =>
    \A t \in Tasks :
      status[t] = "NOT_START" ~> status[t] \in Final \/ t \in complete
=============================================================================
