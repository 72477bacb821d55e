------------------------ MODULE TaskLifecycleProofs ------------------------
(***************************************************************************)
(* Proofs about TaskLifecycle for any number of tasks, nodes, clients,     *)
(* faults and crashes: a task whose row is only written by compare and     *)
(* swap ends once, is billed by the one process that ended it, and never   *)
(* gets back more than it has paid; and so does every task where there is  *)
(* one polling loop.                                                       *)
(***************************************************************************)
EXTENDS TaskLifecycle, TLAPS

\* No client fetches the task.
Unfetched(t) == Clients = {} \/ t \notin Gemini

\* A client that fetches the task after its end hears the same again: only
\* the upstream ends it.
Faithful(t) == ~Timeouts /\ t \notin Erratic \union Pipeline

\* The tasks whose rows are written by compare and swap only.
Swapped == Tasks \ (Suno \union NoUpstreamId \union LostChannel)

\* ... and by nobody who already knows another end of theirs.
Steady == {t \in Swapped : Unfetched(t) \/ Faithful(t)}

\* Among them, the tasks no end of which was written over: the steady ones
\* for ever, the others as long as no client has done it.
Guarded == {t \in Swapped : undone[t] = 0}

\* What a polling loop knows of the tasks it works on: its list showed none
\* of them at the end, and a faithful upstream has said how the task ended.
PollerInv(p) ==
  /\ \A t \in todo[p] : view[p][t] \notin Final
  /\ pc[p] \in {"sweep", "sweepRefund"} => todo[p] \subseteq expired
  /\ pc[p] = "save" =>
       /\ view[p][cur[p]] \notin Final
       /\ Faithful(cur[p]) /\ answer[p] \in Final =>
            answer[p] = upstream[cur[p]]
  /\ pc[p] \in {"sunoRefund", "sunoSave", "sunoUpdate"} => cur[p] \in Suno

\* What a client knows of the task it fetches.
ClientInv(c) ==
  /\ pc[c] \in {"fetch", "clientSave"} => cur[c] \in Gemini
  /\ /\ pc[c] = "fetch" /\ cur[c] \in Guarded
     /\ Faithful(cur[c]) /\ view[c][cur[c]] \in Final
     => view[c][cur[c]] = upstream[cur[c]]
  /\ pc[c] = "clientSave" /\ cur[c] \in Guarded /\ Faithful(cur[c]) =>
       /\ answer[c] \in Final => answer[c] = upstream[cur[c]]
       /\ view[c][cur[c]] \in Final => answer[c] = view[c][cur[c]]

\* Without timeouts nothing expires, a faithful upstream ends its tasks, and
\* the ends of the steady ones are not written over.
UpstreamInv ==
  /\ ~Timeouts => expired = {}
  /\ \A t \in Steady : undone[t] = 0
  /\ \A t \in Guarded :
       Faithful(t) /\ status[t] \in Final => status[t] = upstream[t]

\* The process p has ended the task t and not yet billed it.
Billing == {"sweepRefund", "refund", "settle"}
Bills(p, t) == cur[p] = t /\ pc[p] \in Billing

\* The row says what the task has paid: its submission was settled, or at
\* least nothing of it has failed.
Exact(t) == t \notin hit \/ "settle" \notin FaultKinds

\* A task that has not ended, or is about to be billed, has paid what its row
\* says; one process at most is about to bill it.
BillInv(t) ==
  /\ Exact(t) => paid[t] >= 0 /\ tokenPaid[t] >= 0
  /\ Exact(t) /\ (status[t] \notin Final \/ \E p \in Pollers : Bills(p, t)) =>
       paid[t] = quota[t] /\ tokenPaid[t] = quota[t] /\ due[t] = quota[t]
  /\ \A p \in Pollers : Bills(p, t) =>
       /\ status[t] = IF pc[p] = "settle" THEN "SUCCESS" ELSE "FAILURE"
       /\ \A q \in Pollers : Bills(q, t) => q = p

\* A task that has ended without failures and was billed has paid what was
\* due, which is nothing after a failure.
EndInv(t) ==
  t \notin hit /\ status[t] \in Final /\ (\A p \in Pollers : ~Bills(p, t)) =>
    /\ paid[t] = due[t] /\ tokenPaid[t] = due[t]
    /\ status[t] = "FAILURE" /\ ~IsLegacy(t) => due[t] = 0

IInv ==
  /\ TypeOK
  /\ \A p \in Pollers : PollerInv(p)
  /\ \A c \in Clients : ClientInv(c)
  /\ UpstreamInv
  /\ \A t \in Guarded : BillInv(t) /\ (Unfetched(t) => EndInv(t))
-----------------------------------------------------------------------------
(***************************************************************************)
(* Type correctness                                                        *)
(***************************************************************************)

LEMMA InitType == Init => TypeOK
<1> SUFFICES ASSUME Init PROVE TypeOK
  OBVIOUS
<1>1. (CHOOSE t \in Tasks : TRUE) \in Tasks
  BY TasksAssumption
<1>2. cur \in [Procs -> Tasks]
  BY <1>1 DEF Init
<1>3. /\ pc \in [Procs -> {"sleep"}] /\ todo \in [Procs -> SUBSET Tasks]
      /\ view \in [Procs -> [Tasks -> Statuses]]
      /\ answer \in [Procs -> {"none"}]
  BY DEF Init, Statuses
<1>4. /\ status \in [Tasks -> Statuses]
      /\ upstream \in [Tasks -> {"IN_PROGRESS"}]
      /\ quota \in [Tasks -> Nat] /\ due \in [Tasks -> Nat]
      /\ paid \in [Tasks -> Int] /\ tokenPaid \in [Tasks -> Int]
      /\ undone \in [Tasks -> Nat]
  BY DEF Init, Statuses
<1>5. complete = {} /\ expired = {} /\ hit = {} /\ faults = 0 /\ crashes = 0
  BY DEF Init
<1>6. QED
  BY <1>2, <1>3, <1>4, <1>5 DEF TypeOK

\* Whatever an upstream answers is a status.
LEMMA AnswersKnown ==
  ASSUME TypeOK, NEW t \in Tasks, NEW a \in Answers(t)
  PROVE  a \in Known
BY DEF TypeOK, Answers, Known, Final

\* What the helpers of the actions do to the variables they write.
LEMMA WritesType ==
  ASSUME TypeOK, NEW t \in Tasks, NEW s \in Statuses, NEW c \in BOOLEAN,
         Writes(t, s, c)
  PROVE  /\ status' \in [Tasks -> Statuses]
         /\ complete' \subseteq Tasks
         /\ quota' \in [Tasks -> Nat]
BY DEF TypeOK, Writes

LEMMA UpdateType ==
  ASSUME TypeOK, NEW t \in Tasks, NEW from, NEW s \in Statuses,
         NEW c \in BOOLEAN, NEW won, UpdateWithStatus(t, from, s, c, won)
  PROVE  /\ status' \in [Tasks -> Statuses]
         /\ complete' \subseteq Tasks
         /\ quota' \in [Tasks -> Nat]
<1>1. CASE Writes(t, s, c)
  BY <1>1, WritesType
<1>2. CASE UNCHANGED row
  BY <1>2 DEF TypeOK, row
<1> QED
  BY <1>1, <1>2 DEF UpdateWithStatus

PCs == {"sleep", "sweep", "sweepRefund", "poll", "save", "settle", "refund",
        "sunoRefund", "sunoSave", "sunoUpdate", "fetch", "clientSave"}

\* The types of a process's own variables.
LocalType ==
  /\ pc \in [Procs -> PCs]
  /\ todo \in [Procs -> SUBSET Tasks]
  /\ view \in [Procs -> [Tasks -> Statuses]]
  /\ cur \in [Procs -> Tasks]
  /\ answer \in [Procs -> {"none"} \union Known]

LEMMA GotoType ==
  ASSUME TypeOK, NEW p \in Procs, NEW l \in PCs, NEW t \in Tasks,
         NEW a \in {"none"} \union Known, Goto(p, l, t, a)
  PROVE  LocalType'
BY DEF TypeOK, Goto, LocalType, PCs

LEMMA ListsType ==
  ASSUME TypeOK, NEW p \in Procs, NEW l \in PCs, NEW ts \in SUBSET Tasks,
         Lists(p, l, ts)
  PROVE  LocalType'
BY DEF TypeOK, Lists, LocalType, PCs

LEMMA FailsType ==
  ASSUME TypeOK, NEW ts \in SUBSET Tasks, NEW kind,
         FailsFor(ts, kind) \/ Succeeds
  PROVE  faults' \in Nat /\ hit' \subseteq Tasks
BY DEF TypeOK, FailsFor, Succeeds

LEMMA AdjustsType ==
  ASSUME TypeOK, NEW t \in Tasks, NEW d \in Int, Adjusts(t, d)
  PROVE  /\ paid' \in [Tasks -> Int] /\ tokenPaid' \in [Tasks -> Int]
         /\ faults' \in Nat /\ hit' \subseteq Tasks
BY DEF TypeOK, Adjusts, Pays, Fails, FailsFor, Succeeds

\* Where the billing of a task ends.
LEMMA AfterBillingIs ==
  ASSUME NEW l \in DOMAIN AfterBilling
  PROVE  /\ l \in {"sweepRefund", "refund", "sunoRefund"}
         /\ l = "sweepRefund" => AfterBilling[l] = "sweep"
         /\ l = "refund" => AfterBilling[l] = "poll"
         /\ l = "sunoRefund" => AfterBilling[l] = "sunoSave"
BY DEF AfterBilling

\* TypeOK in the groups of variables that the actions write together.
LEMMA TypeFromParts ==
  ASSUME status' \in [Tasks -> Statuses],
         complete' \subseteq Tasks,
         quota' \in [Tasks -> Nat],
         expired' \subseteq Tasks,
         upstream' \in [Tasks -> {"IN_PROGRESS"} \union Final],
         LocalType',
         paid' \in [Tasks -> Int],
         tokenPaid' \in [Tasks -> Int],
         due' \in [Tasks -> Nat],
         undone' \in [Tasks -> Nat],
         faults' \in Nat, crashes' \in Nat, hit' \subseteq Tasks
  PROVE  TypeOK'
BY DEF TypeOK, LocalType, PCs

LEMMA RelayTaskType ==
  ASSUME TypeOK, NEW t \in Tasks, RelayTask(t)
  PROVE  TypeOK'
<1>1. PICK q \in Quotas, pre \in Quotas :
        /\ quota' = [quota EXCEPT ![t] = q]
        /\ due' = [due EXCEPT ![t] = q]
        /\ \E s \in Statuses, amount \in {q, pre} :
             /\ status' = [status EXCEPT ![t] = s]
             /\ paid' = [paid EXCEPT ![t] = amount]
             /\ tokenPaid' = [tokenPaid EXCEPT ![t] = amount]
        /\ \/ Succeeds
           \/ Fails(t, "insert")
           \/ Fails(t, "settle")
  BY DEF RelayTask, Statuses, Known
<1>2. q \in Nat /\ pre \in Nat
  BY TasksAssumption
<1>3. faults' \in Nat /\ hit' \subseteq Tasks
  BY <1>1, FailsType DEF Fails
<1>4. /\ status' \in [Tasks -> Statuses]
      /\ paid' \in [Tasks -> Int]
      /\ tokenPaid' \in [Tasks -> Int]
  BY <1>1, <1>2 DEF TypeOK
<1>5. quota' \in [Tasks -> Nat] /\ due' \in [Tasks -> Nat]
  BY <1>1, <1>2 DEF TypeOK
<1>6. LocalType'
  BY DEF RelayTask, local, LocalType, TypeOK, PCs
<1>7. /\ complete' \subseteq Tasks /\ expired' \subseteq Tasks
      /\ upstream' \in [Tasks -> {"IN_PROGRESS"} \union Final]
      /\ crashes' \in Nat /\ undone' \in [Tasks -> Nat]
  BY DEF RelayTask, TypeOK
<1>8. QED
  BY <1>3, <1>4, <1>5, <1>6, <1>7, TypeFromParts

\* The variables of the sweep, the polling loop and the clients that most of
\* their steps leave alone.
LEMMA SameType ==
  ASSUME TypeOK
  PROVE  /\ UNCHANGED row =>
              /\ status' \in [Tasks -> Statuses]
              /\ complete' \subseteq Tasks
              /\ quota' \in [Tasks -> Nat]
         /\ UNCHANGED ledger =>
              /\ paid' \in [Tasks -> Int]
              /\ tokenPaid' \in [Tasks -> Int]
              /\ due' \in [Tasks -> Nat]
         /\ UNCHANGED ledger \/ UNCHANGED undone =>
              undone' \in [Tasks -> Nat]
         /\ UNCHANGED local => LocalType'
         /\ UNCHANGED expired => expired' \subseteq Tasks
         /\ UNCHANGED upstream =>
              upstream' \in [Tasks -> {"IN_PROGRESS"} \union Final]
         /\ UNCHANGED faults => faults' \in Nat
         /\ UNCHANGED crashes => crashes' \in Nat
         /\ UNCHANGED hit => hit' \subseteq Tasks
BY DEF TypeOK, row, ledger, local, LocalType, PCs

LEMMA EnvironmentType ==
  ASSUME TypeOK, NEW t \in Tasks, UpstreamEnds(t) \/ Expire(t)
  PROVE  TypeOK'
<1>1. CASE UpstreamEnds(t)
  <2>1. upstream' \in [Tasks -> {"IN_PROGRESS"} \union Final]
    BY <1>1 DEF UpstreamEnds, TypeOK
  <2>2. QED
    BY <1>1, <2>1, SameType, TypeFromParts DEF UpstreamEnds
<1>2. CASE Expire(t)
  <2>1. expired' \subseteq Tasks
    BY <1>2 DEF Expire, TypeOK
  <2>2. QED
    BY <1>2, <2>1, SameType, TypeFromParts DEF Expire
<1>3. QED
  BY <1>1, <1>2

LEMMA BillingType ==
  ASSUME TypeOK, NEW p \in Procs, RefundTaskQuota(p) \/ SettleTaskBilling(p)
  PROVE  TypeOK'
<1>1. cur[p] \in Tasks /\ quota[cur[p]] \in Nat
  BY DEF TypeOK
<1>2. answer[p] \in {"none"} \union Known
  BY DEF TypeOK
<1>3. CASE RefundTaskQuota(p)
  <2>1. AfterBilling[pc[p]] \in PCs
    BY <1>3, AfterBillingIs DEF RefundTaskQuota, PCs
  <2>2. LocalType'
    BY <1>1, <1>2, <1>3, <2>1, GotoType DEF RefundTaskQuota
  <2>3. Adjusts(cur[p], -quota[cur[p]])
    BY <1>3 DEF RefundTaskQuota
  <2>4. /\ paid' \in [Tasks -> Int] /\ tokenPaid' \in [Tasks -> Int]
        /\ faults' \in Nat /\ hit' \subseteq Tasks
    BY <1>1, <2>3, -quota[cur[p]] \in Int, AdjustsType
  <2>5. due' \in [Tasks -> Nat]
    BY <1>1, <1>3 DEF RefundTaskQuota, TypeOK
  <2>6. QED
    BY <1>3, <2>2, <2>4, <2>5, SameType, TypeFromParts DEF RefundTaskQuota
<1>4. CASE SettleTaskBilling(p)
  <2>1. LocalType'
    BY <1>1, <1>2, <1>4, GotoType DEF SettleTaskBilling, PCs
  <2>2. /\ paid' \in [Tasks -> Int] /\ tokenPaid' \in [Tasks -> Int]
        /\ faults' \in Nat /\ hit' \subseteq Tasks
        /\ due' \in [Tasks -> Nat]
    <3>1. CASE UNCHANGED <<paid, tokenPaid, due>> /\ Succeeds
      BY <3>1 DEF Succeeds, TypeOK
    <3>2. ASSUME NEW q \in Quotas, Adjusts(cur[p], q - quota[cur[p]]),
                 due' = [due EXCEPT ![cur[p]] = q]
          PROVE  /\ paid' \in [Tasks -> Int] /\ tokenPaid' \in [Tasks -> Int]
                 /\ faults' \in Nat /\ hit' \subseteq Tasks
                 /\ due' \in [Tasks -> Nat]
      <4>1. q \in Nat /\ q - quota[cur[p]] \in Int
        BY <1>1, TasksAssumption
      <4>2. due' \in [Tasks -> Nat]
        BY <3>2, <4>1, <1>1 DEF TypeOK
      <4>3. QED
        BY <1>1, <3>2, <4>1, <4>2, AdjustsType
    <3>3. QED
      BY <1>4, <3>1, <3>2 DEF SettleTaskBilling
  <2>3. QED
    BY <1>4, <2>1, <2>2, SameType, TypeFromParts DEF SettleTaskBilling
<1>5. QED
  BY <1>3, <1>4

\* Steps that read a list, and a loop that begins again.
LEMMA ListType ==
  ASSUME TypeOK, NEW p \in Procs,
         SweepList(p) \/ PollList(p) \/ Crash(p)
  PROVE  TypeOK'
<1>1. LocalType'
  <2>1. Unfinished \in SUBSET Tasks
    BY DEF Unfinished
  <2>2. CASE SweepList(p)
    BY <2>1, <2>2, ListsType DEF SweepList, PCs
  <2>3. CASE PollList(p)
    BY <2>1, <2>3, ListsType DEF PollList, PCs
  <2>4. CASE Crash(p)
    BY <2>4, ListsType DEF Crash, PCs
  <2>5. QED
    BY <2>2, <2>3, <2>4
<1>2. faults' \in Nat /\ crashes' \in Nat /\ hit' \subseteq Tasks
  BY DEF SweepList, PollList, Crash, TypeOK
<1>3. QED
  BY <1>1, <1>2, SameType, TypeFromParts DEF SweepList, PollList, Crash

\* Steps that take the next task of a list and note an answer.
LEMMA FetchType ==
  ASSUME TypeOK, NEW p \in Procs,
         \/ FetchNothing(p) \/ Fetch(p) \/ FetchSuno(p) \/ PollEnd(p)
         \/ ClientRead(p) \/ ClientFetch(p)
  PROVE  TypeOK'
<1>0. cur[p] \in Tasks /\ todo[p] \subseteq Tasks
  BY DEF TypeOK
<1>1. LocalType'
  <2>1. CASE FetchNothing(p)
    BY <2>1 DEF FetchNothing, LocalType, TypeOK, PCs
  <2>2. CASE Fetch(p)
    <3>1. PICK t, a :
            /\ t \in todo[p] /\ a \in Answers(t)
            /\ todo' = [todo EXCEPT ![p] = @ \ {t}]
            /\ cur' = [cur EXCEPT ![p] = t]
            /\ answer' = [answer EXCEPT ![p] = a]
            /\ pc' = [pc EXCEPT ![p] = "save"]
      BY <2>2 DEF Fetch
    <3>2. t \in Tasks /\ a \in Known
      BY <1>0, <3>1, AnswersKnown
    <3>3. QED
      BY <2>2, <3>1, <3>2 DEF Fetch, LocalType, TypeOK, PCs
  <2>3. CASE FetchSuno(p)
    <3>1. PICK t, a :
            /\ t \in todo[p] /\ a \in Answers(t)
            /\ todo' = [todo EXCEPT ![p] = @ \ {t}]
            /\ cur' = [cur EXCEPT ![p] = t]
            /\ answer' = [answer EXCEPT ![p] = a]
            /\ \E l \in {"sunoRefund", "sunoUpdate"} :
                 pc' = [pc EXCEPT ![p] = l]
      BY <2>3 DEF FetchSuno
    <3>2. t \in Tasks /\ a \in Known
      BY <1>0, <3>1, AnswersKnown
    <3>3. QED
      BY <2>3, <3>1, <3>2 DEF FetchSuno, LocalType, TypeOK, PCs
  <2>4. CASE PollEnd(p)
    BY <1>0, <2>4, GotoType DEF PollEnd, PCs
  <2>5. CASE ClientRead(p)
    <3>1. Gemini \subseteq Tasks
      BY TasksAssumption
    <3>2. QED
      BY <2>5, <3>1 DEF ClientRead, LocalType, TypeOK, PCs
  <2>6. CASE ClientFetch(p)
    BY <1>0, <2>6, GotoType, AnswersKnown DEF ClientFetch, PCs
  <2>7. QED
    BY <2>1, <2>2, <2>3, <2>4, <2>5, <2>6
<1>2. UNCHANGED <<row, expired, upstream, ledger, faults, crashes, hit>>
  BY DEF FetchNothing, Fetch, FetchSuno, PollEnd, ClientRead, ClientFetch
<1>3. QED
  BY <1>1, <1>2, SameType, TypeFromParts

LEMMA SweepTaskType ==
  ASSUME TypeOK, NEW p \in Procs, SweepTask(p)
  PROVE  TypeOK'
<1>1. PICK t \in todo[p], won \in BOOLEAN :
        /\ todo' = [todo EXCEPT ![p] = @ \ {t}]
        /\ cur' = [cur EXCEPT ![p] = t]
        /\ \/ UpdateWithStatus(t, view[p][t], "FAILURE", TRUE, won)
           \/ UNCHANGED row
        /\ \/ UNCHANGED pc
           \/ \E l \in {"sweepRefund", pc[p]} : pc' = [pc EXCEPT ![p] = l]
        /\ \/ Succeeds \/ Fails(t, "update") \/ Fails(t, "ack")
  BY DEF SweepTask
<1>2. t \in Tasks
  BY DEF TypeOK
<1>3. /\ status' \in [Tasks -> Statuses]
      /\ complete' \subseteq Tasks
      /\ quota' \in [Tasks -> Nat]
  BY <1>1, <1>2, UpdateType, SameType DEF Statuses, Known, Final
<1>4. pc' \in [Procs -> PCs]
  BY <1>1 DEF TypeOK, PCs
<1>5. LocalType'
  BY <1>1, <1>2, <1>4 DEF SweepTask, LocalType, TypeOK
<1>6. faults' \in Nat /\ hit' \subseteq Tasks
  BY <1>1, <1>2, FailsType DEF Fails
<1>7. QED
  BY <1>3, <1>5, <1>6, SameType, TypeFromParts DEF SweepTask

LEMMA BulkFailsType ==
  ASSUME TypeOK, NEW p \in Procs, NEW ts \in SUBSET todo[p], BulkFails(p, ts)
  PROVE  TypeOK'
<1>1. ts \subseteq Tasks
  BY DEF TypeOK
<1>2. status' \in [Tasks -> Statuses]
  BY DEF BulkFails, TypeOK, Statuses, Known, Final
<1>3. complete' \subseteq Tasks /\ quota' \in [Tasks -> Nat]
  BY <1>1 DEF BulkFails, TypeOK
<1>4. faults' \in Nat /\ hit' \subseteq Tasks
  BY <1>1, FailsType DEF BulkFails
<1>5. LocalType'
  BY DEF BulkFails, LocalType, TypeOK, PCs
<1>6. QED
  BY <1>2, <1>3, <1>4, <1>5, SameType, TypeFromParts DEF BulkFails

\* Steps that save an answer in the task's row.
LEMMA SaveType ==
  ASSUME TypeOK, NEW p \in Procs,
         \/ UpdateVideoTask(p) \/ AdvanceVideoPipeline(p)
         \/ UpdateSunoTask(p) \/ ClientSave(p)
  PROVE  TypeOK'
<1> DEFINE t == cur[p]
<1>0. /\ t \in Tasks /\ answer[p] \in {"none"} \union Known
      /\ {"none"} \union Known \subseteq Statuses
      /\ "IN_PROGRESS" \in Statuses /\ "SUCCESS" \in Statuses
  BY DEF TypeOK, Statuses, Known, Final
<1>1. /\ UNCHANGED <<expired, upstream, paid, tokenPaid, due, crashes>>
      /\ Succeeds \/ Fails(t, "update") \/ Fails(t, "ack")
  BY DEF UpdateVideoTask, AdvanceVideoPipeline, UpdateSunoTask, ClientSave,
         Succeeds, ledger
<1>2. faults' \in Nat /\ hit' \subseteq Tasks
  BY <1>0, <1>1, FailsType DEF Fails
<1>3. \/ UNCHANGED row
      \/ \E from, won : \E c \in BOOLEAN, s \in Statuses :
           UpdateWithStatus(t, from, s, c, won) \/ Writes(t, s, c)
  <2>1. CASE UpdateVideoTask(p)
    <3>1. \A s \in Statuses : Completions(t, s) \subseteq BOOLEAN
      BY DEF Completions
    <3>2. QED
      BY <1>0, <2>1, <3>1 DEF UpdateVideoTask
  <2>2. CASE AdvanceVideoPipeline(p)
    BY <1>0, <2>2 DEF AdvanceVideoPipeline
  <2>3. CASE UpdateSunoTask(p)
    BY <1>0, <2>3 DEF UpdateSunoTask
  <2>4. CASE ClientSave(p)
    <3>1. PICK won \in BOOLEAN :
            UpdateWithStatus(t, view[p][t], answer[p], answer[p] \in Final,
                             won)
      BY <2>4 DEF ClientSave
    <3>2. (answer[p] \in Final) \in BOOLEAN /\ answer[p] \in Statuses
      BY <1>0
    <3>3. QED
      BY <3>1, <3>2
  <2>5. QED
    BY <2>1, <2>2, <2>3, <2>4
<1>4. /\ status' \in [Tasks -> Statuses]
      /\ complete' \subseteq Tasks
      /\ quota' \in [Tasks -> Nat]
  BY <1>0, <1>3, UpdateType, WritesType, SameType
<1>5. \E l \in PCs, a \in {"none"} \union Known : Goto(p, l, t, a)
  BY <1>0 DEF UpdateVideoTask, AdvanceVideoPipeline, UpdateSunoTask,
              ClientSave, BillingOf, PCs
<1>6. LocalType'
  BY <1>0, <1>5, GotoType
<1>7. undone' \in [Tasks -> Nat]
  <2>1. CASE UNCHANGED ledger
    BY <2>1, SameType
  <2>2. CASE ClientSave(p)
    BY <1>0, <2>2 DEF ClientSave, TypeOK
  <2>3. QED
    BY <2>1, <2>2 DEF UpdateVideoTask, AdvanceVideoPipeline, UpdateSunoTask
<1>8. paid' \in [Tasks -> Int] /\ tokenPaid' \in [Tasks -> Int]
      /\ due' \in [Tasks -> Nat]
  BY <1>1 DEF TypeOK
<1>9. QED
  BY <1>1, <1>2, <1>4, <1>6, <1>7, <1>8, SameType, TypeFromParts

LEMMA NextType == TypeOK /\ [Next]_vars => TypeOK'
<1> SUFFICES ASSUME TypeOK, [Next]_vars PROVE TypeOK'
  OBVIOUS
<1>1. Pollers \subseteq Procs /\ Clients \subseteq Procs
  BY DEF Procs
<1>2. ASSUME NEW t \in Tasks, RelayTask(t) \/ UpstreamEnds(t) \/ Expire(t)
      PROVE  TypeOK'
  BY <1>2, RelayTaskType, EnvironmentType
<1>3. ASSUME NEW p \in Procs, SweepStep(p) \/ PollStep(p) \/ Crash(p)
      PROVE  TypeOK'
  <2>1. CASE FailNullTasks(p) \/ FailLostChannel(p)
    <3>1. /\ todo[p] \intersect NoUpstreamId \subseteq todo[p]
          /\ (todo[p] \intersect LostChannel) \ NoUpstreamId \subseteq todo[p]
      OBVIOUS
    <3>2. QED
      BY <2>1, <3>1, BulkFailsType DEF FailNullTasks, FailLostChannel
  <2>2. CASE SweepList(p) \/ PollList(p) \/ Crash(p)
    BY <2>2, ListType
  <2>3. CASE FetchNothing(p) \/ Fetch(p) \/ FetchSuno(p) \/ PollEnd(p)
    BY <2>3, FetchType
  <2>4. CASE SweepTask(p)
    BY <2>4, SweepTaskType
  <2>5. CASE UpdateVideoTask(p) \/ AdvanceVideoPipeline(p) \/ UpdateSunoTask(p)
    BY <2>5, SaveType
  <2>6. CASE RefundTaskQuota(p) \/ SettleTaskBilling(p)
    BY <2>6, BillingType
  <2>7. QED
    BY <1>3, <2>1, <2>2, <2>3, <2>4, <2>5, <2>6 DEF SweepStep, PollStep
<1>4. ASSUME NEW c \in Procs, ClientRead(c) \/ ClientFetch(c) \/ ClientSave(c)
      PROVE  TypeOK'
  BY <1>4, FetchType, SaveType
<1>5. CASE UNCHANGED vars
  BY <1>5, SameType, TypeFromParts DEF vars
<1>6. QED
  BY <1>1, <1>2, <1>3, <1>4, <1>5 DEF Next

\* Every column and program counter keeps its range, whatever the tasks,
\* nodes, clients and faults are; no settlement makes a task's cost negative.
THEOREM TasksTypeCorrect == Spec => []TypeOK
<1>1. QED
  BY InitType, NextType, PTL DEF Spec
-----------------------------------------------------------------------------
(***************************************************************************)
(* What a step leaves alone                                                *)
(***************************************************************************)

\* The process q does not move.
Still(q) ==
  /\ pc'[q] = pc[q] /\ todo'[q] = todo[q] /\ view'[q] = view[q]
  /\ cur'[q] = cur[q] /\ answer'[q] = answer[q]

\* Nothing expired is fresh again, no upstream takes back the end of a task,
\* and what was written over stays so.
TimePasses ==
  /\ expired \subseteq expired'
  /\ \A t \in Tasks : undone'[t] = 0 => undone[t] = 0
  /\ \A t \in Tasks : upstream[t] \in Final => upstream'[t] = upstream[t]

\* Row, payments and price of the task stay.
Quiet(t) ==
  /\ status'[t] = status[t] /\ quota'[t] = quota[t]
  /\ paid'[t] = paid[t] /\ tokenPaid'[t] = tokenPaid[t]
  /\ due'[t] = due[t]
  /\ t \in hit => t \in hit'

LEMMA PollerFrame ==
  ASSUME TypeOK, NEW q \in Procs, Still(q), TimePasses, PollerInv(q)
  PROVE  PollerInv(q)'
<1>1. cur[q] \in Tasks
  BY DEF TypeOK
<1>2. QED
  BY <1>1 DEF Still, TimePasses, PollerInv

LEMMA ClientFrame ==
  ASSUME TypeOK, NEW q \in Procs, Still(q), TimePasses, ClientInv(q)
  PROVE  ClientInv(q)'
<1>1. cur[q] \in Tasks
  BY DEF TypeOK
<1>2. QED
  BY <1>1 DEF Still, TimePasses, ClientInv, Guarded

LEMMA GotoOthers ==
  ASSUME TypeOK, NEW p \in Procs, NEW l, NEW t, NEW a, Goto(p, l, t, a)
  PROVE  /\ \A q \in Procs \ {p} : Still(q)
         /\ pc'[p] = l /\ cur'[p] = t /\ answer'[p] = a
         /\ todo'[p] = todo[p] /\ view'[p] = view[p]
BY DEF TypeOK, Goto, Still

LEMMA ListsOthers ==
  ASSUME TypeOK, NEW p \in Procs, NEW l, NEW ts, Lists(p, l, ts)
  PROVE  /\ \A q \in Procs \ {p} : Still(q)
         /\ pc'[p] = l /\ todo'[p] = ts /\ view'[p] = status
         /\ cur'[p] = cur[p] /\ answer'[p] = answer[p]
BY DEF TypeOK, Lists, Still

\* A bill that nobody new is about to pay, and none is dropped unnoticed.
LEMMA BillFrame ==
  ASSUME NEW t, Quiet(t), BillInv(t),
         \A p \in Pollers : Bills(p, t)' => Bills(p, t) /\ pc'[p] = pc[p]
  PROVE  BillInv(t)'
BY DEF Quiet, BillInv, Exact

LEMMA EndFrame ==
  ASSUME NEW t, Quiet(t), EndInv(t),
         t \notin hit' => \A p \in Pollers : Bills(p, t) => Bills(p, t)'
  PROVE  EndInv(t)'
BY DEF Quiet, EndInv

\* A process that bills nobody, neither before nor after its step, on a task
\* that the step leaves alone.
LEMMA NotBilling ==
  ASSUME NEW p \in Pollers, NEW t, Quiet(t), BillInv(t),
         ~Bills(p, t), ~Bills(p, t)',
         \A q \in Procs \ {p} : Still(q)
  PROVE  BillInv(t)' /\ (EndInv(t) => EndInv(t)')
<1>1. \A q \in Pollers : /\ Bills(q, t)' <=> Bills(q, t)
                         /\ Bills(q, t) => pc'[q] = pc[q]
  BY DEF Bills, Still, Procs
<1>2. BillInv(t)'
  BY <1>1, BillFrame
<1>3. ASSUME EndInv(t) PROVE EndInv(t)'
  BY <1>1, <1>3, EndFrame
<1>4. QED
  BY <1>2, <1>3

\* The process p brings the task to its end, or on: only p may bill it now.
LEMMA MovesOn ==
  ASSUME NEW p \in Pollers, NEW t, BillInv(t), status[t] \notin Final,
         quota'[t] = quota[t], paid'[t] = paid[t],
         tokenPaid'[t] = tokenPaid[t], due'[t] = due[t],
         t \in hit => t \in hit',
         \A q \in Procs \ {p} : Still(q),
         Bills(p, t)' =>
           status'[t] = IF pc'[p] = "settle" THEN "SUCCESS" ELSE "FAILURE"
  PROVE  /\ BillInv(t)'
         /\ \/ t \in hit' \/ status'[t] # "FAILURE" \/ Bills(p, t)'
            \/ IsLegacy(t)
            => EndInv(t)'
<1>1. \A q \in Pollers : ~Bills(q, t)
  BY DEF BillInv, Final
<1>2. \A q \in Pollers : Bills(q, t)' => q = p
  BY <1>1 DEF Bills, Still, Procs
<1>3. Exact(t)' => paid'[t] = quota'[t] /\ tokenPaid'[t] = quota'[t]
                     /\ due'[t] = quota'[t] /\ paid'[t] >= 0
                     /\ tokenPaid'[t] >= 0
  BY DEF BillInv, Exact
<1>4. BillInv(t)'
  BY <1>2, <1>3 DEF BillInv
<1>5. t \notin hit' => paid'[t] = due'[t] /\ tokenPaid'[t] = due'[t]
  BY <1>3 DEF Exact
<1>6. QED
  BY <1>4, <1>5 DEF EndInv
-----------------------------------------------------------------------------
(***************************************************************************)
(* The steps                                                               *)
(***************************************************************************)

\* The inductive invariant of one task.
TaskInv(t) == BillInv(t) /\ (Unfetched(t) => EndInv(t))

\* What there is to show of a polling loop's step.
LEMMA PollerStep ==
  ASSUME IInv, TypeOK', NEW p \in Pollers,
         UNCHANGED <<expired, upstream, undone>>,
         \A q \in Procs \ {p} : Still(q),
         PollerInv(p)',
         \A t \in Guarded :
           /\ TaskInv(t)'
           /\ \/ status'[t] = status[t]
              \/ Faithful(t) /\ status'[t] \in Final =>
                   status'[t] = upstream[t]
  PROVE  IInv'
<1>1. TimePasses
  BY DEF TimePasses
<1>2. p \in Procs /\ p \notin Clients
      /\ Pollers \subseteq Procs /\ Clients \subseteq Procs
  BY TasksAssumption DEF Procs
<1>3. \A q \in Pollers : PollerInv(q)'
  BY <1>1, <1>2, PollerFrame DEF IInv
<1>4. \A c \in Clients : ClientInv(c)'
  BY <1>1, <1>2, ClientFrame DEF IInv
<1>5. UpstreamInv' /\ Guarded' = Guarded
  BY DEF IInv, UpstreamInv, Guarded
<1>6. QED
  BY <1>3, <1>4, <1>5 DEF IInv, TaskInv

\* A step of the loop that writes no row and bills nobody.
LEMMA PollerReads ==
  ASSUME IInv, TypeOK', NEW p \in Pollers,
         UNCHANGED <<row, expired, upstream, ledger>>, hit \subseteq hit',
         pc[p] \notin Billing, pc'[p] \notin Billing,
         \A q \in Procs \ {p} : Still(q),
         PollerInv(p)'
  PROVE  IInv'
<1>1. ASSUME NEW t \in Guarded PROVE TaskInv(t)' /\ status'[t] = status[t]
  <2>1. Quiet(t)
    BY DEF Quiet, row, ledger
  <2>2. ~Bills(p, t) /\ ~Bills(p, t)'
    BY DEF Bills
  <2>3. BillInv(t) /\ (Unfetched(t) => EndInv(t))
    BY DEF IInv
  <2>4. BillInv(t)' /\ (EndInv(t) => EndInv(t)')
    BY <2>1, <2>2, <2>3, NotBilling
  <2>5. QED
    BY <2>1, <2>3, <2>4 DEF TaskInv, Quiet, Unfetched
<1>2. QED
  BY <1>1, PollerStep DEF ledger

LEMMA ReadsInv ==
  ASSUME IInv, TypeOK', NEW p \in Pollers,
         \/ SweepList(p) \/ PollList(p) \/ FetchNothing(p) \/ Fetch(p)
         \/ FetchSuno(p) \/ PollEnd(p)
  PROVE  IInv'
<1> USE DEF IInv
<1>0. p \in Procs /\ PollerInv(p) /\ todo[p] \subseteq Tasks
  BY DEF Procs, TypeOK
<1>1. \A t \in Unfinished : status[t] \notin Final
  BY DEF Unfinished
<1>2. CASE SweepList(p)
  <2>1. Lists(p, "sweep", Unfinished \intersect expired)
    BY <1>2 DEF SweepList
  <2>2. PollerInv(p)'
    BY <1>0, <1>1, <1>2, <2>1, ListsOthers DEF SweepList, PollerInv
  <2>3. QED
    BY <1>0, <1>2, <2>1, <2>2, ListsOthers, PollerReads
       DEF SweepList, Billing
<1>3. CASE PollList(p)
  <2>1. Lists(p, "poll", Unfinished)
    BY <1>3 DEF PollList
  <2>2. PollerInv(p)'
    BY <1>0, <1>1, <1>3, <2>1, ListsOthers DEF PollList, PollerInv
  <2>3. QED
    BY <1>0, <1>3, <2>1, <2>2, ListsOthers, PollerReads
       DEF PollList, Billing
<1>4. CASE FetchNothing(p)
  <2>1. \A q \in Procs \ {p} : Still(q)
    BY <1>0, <1>4 DEF FetchNothing, Still, TypeOK
  <2>2. todo'[p] \subseteq todo[p]
    BY <1>0, <1>4 DEF FetchNothing, TypeOK
  <2>3. PollerInv(p)'
    BY <1>0, <1>4, <2>2 DEF FetchNothing, PollerInv
  <2>4. QED
    BY <1>0, <1>4, <2>1, <2>3, PollerReads DEF FetchNothing, Billing
<1>5. CASE Fetch(p)
  <2>1. PICK t, a :
          /\ t \in todo[p] /\ a \in Answers(t)
          /\ todo' = [todo EXCEPT ![p] = @ \ {t}]
          /\ cur' = [cur EXCEPT ![p] = t]
          /\ answer' = [answer EXCEPT ![p] = a]
          /\ pc' = [pc EXCEPT ![p] = "save"]
    BY <1>5 DEF Fetch
  <2>2. /\ todo'[p] = todo[p] \ {t} /\ cur'[p] = t /\ answer'[p] = a
        /\ pc'[p] = "save" /\ view' = view
        /\ \A q \in Procs \ {p} : Still(q)
    BY <1>0, <1>5, <2>1 DEF Fetch, TypeOK, Still
  <2>3. Faithful(t) /\ a \in Final => a = upstream[t]
    BY <2>1 DEF Faithful, Answers, Known
  <2>4. PollerInv(p)'
    BY <1>0, <1>5, <2>1, <2>2, <2>3 DEF Fetch, PollerInv
  <2>5. QED
    BY <1>0, <1>5, <2>2, <2>4, PollerReads DEF Fetch, Billing
<1>6. CASE FetchSuno(p)
  <2>1. PICK t, a :
          /\ t \in todo[p] /\ t \in Suno
          /\ todo' = [todo EXCEPT ![p] = @ \ {t}]
          /\ cur' = [cur EXCEPT ![p] = t]
          /\ answer' = [answer EXCEPT ![p] = a]
          /\ \E l \in {"sunoRefund", "sunoUpdate"} :
               pc' = [pc EXCEPT ![p] = l]
    BY <1>6 DEF FetchSuno
  <2>2. /\ todo'[p] = todo[p] \ {t} /\ cur'[p] = t
        /\ pc'[p] \in {"sunoRefund", "sunoUpdate"} /\ view' = view
        /\ \A q \in Procs \ {p} : Still(q)
    BY <1>0, <1>6, <2>1 DEF FetchSuno, TypeOK, Still
  <2>3. PollerInv(p)'
    BY <1>0, <1>6, <2>1, <2>2 DEF FetchSuno, PollerInv
  <2>4. QED
    BY <1>0, <1>6, <2>2, <2>3, PollerReads DEF FetchSuno, Billing
<1>7. CASE PollEnd(p)
  <2>1. Goto(p, "sleep", cur[p], "none")
    BY <1>7 DEF PollEnd
  <2>2. PollerInv(p)'
    BY <1>0, <1>7, <2>1, GotoOthers DEF PollEnd, PollerInv
  <2>3. QED
    BY <1>0, <1>7, <2>1, <2>2, GotoOthers, PollerReads DEF PollEnd, Billing
<1>8. QED
  BY <1>2, <1>3, <1>4, <1>5, <1>6, <1>7

\* What a step of p that leaves the task alone does to its invariant.
LEMMA QuietTask ==
  ASSUME IInv, NEW p \in Pollers, NEW t \in Guarded, Quiet(t),
         ~Bills(p, t), ~Bills(p, t)',
         \A q \in Procs \ {p} : Still(q)
  PROVE  TaskInv(t)' /\ status'[t] = status[t]
<1>1. BillInv(t) /\ (Unfetched(t) => EndInv(t))
  BY DEF IInv
<1>2. BillInv(t)' /\ (EndInv(t) => EndInv(t)')
  BY <1>1, NotBilling
<1>3. QED
  BY <1>1, <1>2 DEF TaskInv, Quiet, Unfetched

LEMMA CrashInv ==
  ASSUME IInv, TypeOK', NEW p \in Pollers, Crash(p)
  PROVE  IInv'
<1> USE DEF IInv
<1>0. p \in Procs /\ PollerInv(p) /\ Lists(p, "sleep", {})
  BY DEF Procs, Crash
<1>1. PollerInv(p)' /\ \A q \in Procs \ {p} : Still(q)
  BY <1>0, ListsOthers DEF PollerInv
<1>2. ASSUME NEW t \in Guarded
      PROVE  TaskInv(t)' /\ status'[t] = status[t]
  <2>1. Quiet(t)
    BY DEF Crash, Quiet, row, ledger
  <2>2. \A q \in Pollers : Bills(q, t)' => Bills(q, t) /\ pc'[q] = pc[q]
    BY <1>0, <1>1, ListsOthers DEF Bills, Billing, Still, Procs
  <2>3. t \notin hit' => ~Bills(p, t)
    BY DEF Crash, Bills, Billing
  <2>4. t \notin hit' => \A q \in Pollers : Bills(q, t) => Bills(q, t)'
    BY <1>1, <2>3 DEF Bills, Still, Procs
  <2>5. BillInv(t)'
    BY <2>1, <2>2, BillFrame
  <2>6. EndInv(t) => EndInv(t)'
    BY <2>1, <2>4, EndFrame
  <2>7. QED
    BY <2>1, <2>5, <2>6 DEF TaskInv, Quiet, Unfetched
<1>3. QED
  BY <1>1, <1>2, PollerStep DEF Crash, ledger

LEMMA BulkFailsInv ==
  ASSUME IInv, TypeOK', NEW p \in Pollers,
         FailNullTasks(p) \/ FailLostChannel(p)
  PROVE  IInv'
<1> USE DEF IInv
<1>0. p \in Procs /\ PollerInv(p)
  BY DEF Procs
<1>1. PICK ts : BulkFails(p, ts) /\ ts \intersect Guarded = {}
  BY DEF FailNullTasks, FailLostChannel, Guarded, Swapped
<1>2. \A q \in Procs \ {p} : Still(q)
  BY <1>0, <1>1 DEF BulkFails, Still, TypeOK
<1>3. todo'[p] \subseteq todo[p]
  BY <1>0, <1>1 DEF BulkFails, TypeOK
<1>4. PollerInv(p)'
  BY <1>0, <1>1, <1>3 DEF BulkFails, PollerInv
<1>5. ASSUME NEW t \in Guarded
      PROVE  TaskInv(t)' /\ status'[t] = status[t]
  <2>1. t \in Tasks /\ t \notin ts
    BY <1>1 DEF Guarded, Swapped
  <2>2. Quiet(t)
    BY <1>1, <2>1 DEF BulkFails, Quiet, ledger, FailsFor, Succeeds
  <2>3. ~Bills(p, t) /\ ~Bills(p, t)'
    BY <1>1 DEF BulkFails, Bills, Billing
  <2>4. QED
    BY <1>2, <2>2, <2>3, QuietTask
<1>6. QED
  BY <1>1, <1>2, <1>4, <1>5, PollerStep DEF BulkFails, ledger

LEMMA UpdateSunoInv ==
  ASSUME IInv, TypeOK', NEW p \in Pollers, UpdateSunoTask(p)
  PROVE  IInv'
<1> USE DEF IInv
<1>0. p \in Procs /\ PollerInv(p) /\ Goto(p, "poll", cur[p], answer[p])
  BY DEF Procs, UpdateSunoTask
<1>1. PollerInv(p)' /\ \A q \in Procs \ {p} : Still(q)
  BY <1>0, GotoOthers DEF PollerInv
<1>2. ASSUME NEW t \in Guarded
      PROVE  TaskInv(t)' /\ status'[t] = status[t]
  <2>1. t \in Tasks /\ t # cur[p]
    BY <1>0 DEF Guarded, Swapped, UpdateSunoTask, PollerInv
  <2>2. Quiet(t)
    BY <2>1 DEF UpdateSunoTask, Writes, Fails, FailsFor, Succeeds, Quiet, row,
                ledger, TypeOK
  <2>3. ~Bills(p, t) /\ ~Bills(p, t)'
    BY <1>0, GotoOthers DEF UpdateSunoTask, Bills, Billing
  <2>4. QED
    BY <1>1, <2>2, <2>3, QuietTask
<1>3. QED
  BY <1>1, <1>2, PollerStep DEF UpdateSunoTask, ledger

\* A compare and swap from a status that is not final.
LEMMA SwapsRunning ==
  ASSUME TypeOK, NEW t \in Tasks, NEW from, NEW s, NEW c, NEW won,
         from \notin Final, UpdateWithStatus(t, from, s, c, won)
  PROVE  /\ won => status[t] \notin Final /\ status'[t] = s
         /\ ~won => status'[t] = status[t]
         /\ \A u \in Tasks \ {t} : status'[u] = status[u]
         /\ quota' = quota
BY DEF TypeOK, UpdateWithStatus, Writes, row

\* A step of p that saves the status s of the task t, if it wins: what there
\* is to show of p and t.
LEMMA SavesInv ==
  ASSUME IInv, TypeOK', NEW p \in Pollers, NEW t \in Tasks,
         NEW won \in BOOLEAN, NEW s,
         UNCHANGED <<expired, upstream, ledger, quota>>, hit \subseteq hit',
         pc[p] \notin Billing, cur'[p] = t, PollerInv(p)',
         \A q \in Procs \ {p} : Still(q),
         \A u \in Tasks \ {t} : status'[u] = status[u],
         ~won => status'[t] = status[t] /\ pc'[p] \notin Billing,
         won => /\ status[t] \notin Final /\ status'[t] = s
                /\ Faithful(t) /\ s \in Final => s = upstream[t]
                /\ pc'[p] \in Billing =>
                     s = IF pc'[p] = "settle" THEN "SUCCESS" ELSE "FAILURE"
                /\ \/ t \in hit' \/ s # "FAILURE" \/ pc'[p] \in Billing
                   \/ IsLegacy(t)
  PROVE  IInv'
<1>1. ASSUME NEW u \in Guarded,
             u # t \/ ~won
      PROVE  TaskInv(u)' /\ status'[u] = status[u]
  <2>1. u \in Tasks
    BY DEF Guarded, Swapped
  <2>2. status'[u] = status[u]
    BY <1>1, <2>1
  <2>3. Quiet(u)
    BY <2>2 DEF Quiet, ledger
  <2>4. ~Bills(p, u) /\ ~Bills(p, u)'
    BY <1>1 DEF Bills
  <2>5. QED
    BY <2>3, <2>4, QuietTask
<1>2. ASSUME t \in Guarded, won
      PROVE  TaskInv(t)'
  <2>1. BillInv(t)
    BY <1>2 DEF IInv
  <2>2. /\ paid'[t] = paid[t] /\ tokenPaid'[t] = tokenPaid[t]
        /\ due'[t] = due[t] /\ quota'[t] = quota[t]
        /\ t \in hit => t \in hit'
    BY DEF ledger
  <2>3. Bills(p, t)' <=> pc'[p] \in Billing
    BY DEF Bills
  <2>4. status[t] \notin Final /\ status'[t] = s
    BY <1>2
  <2>5. Bills(p, t)' =>
          status'[t] = IF pc'[p] = "settle" THEN "SUCCESS" ELSE "FAILURE"
    BY <1>2, <2>3
  <2>6. \/ t \in hit' \/ status'[t] # "FAILURE" \/ Bills(p, t)'
        \/ IsLegacy(t)
    BY <1>2, <2>3
  <2>7. BillInv(t)' /\ EndInv(t)'
    BY <2>1, <2>2, <2>4, <2>5, <2>6, MovesOn
  <2>8. QED
    BY <2>7 DEF TaskInv
<1>3. ASSUME NEW u \in Guarded
      PROVE  /\ TaskInv(u)'
             /\ \/ status'[u] = status[u]
                \/ Faithful(u) /\ status'[u] \in Final =>
                     status'[u] = upstream[u]
  BY <1>1, <1>2
<1>4. QED
  BY <1>3, PollerStep DEF ledger

LEMMA SweepTaskInv ==
  ASSUME IInv, TypeOK', NEW p \in Pollers, SweepTask(p)
  PROVE  IInv'
<1> USE DEF IInv
<1>0. p \in Procs /\ PollerInv(p) /\ pc[p] = "sweep"
  BY DEF Procs, SweepTask
<1>1. PICK t \in todo[p], won \in BOOLEAN :
        /\ todo' = [todo EXCEPT ![p] = @ \ {t}]
        /\ cur' = [cur EXCEPT ![p] = t]
        /\ \/ /\ UpdateWithStatus(t, view[p][t], "FAILURE", TRUE, won)
              /\ pc' = [pc EXCEPT ![p] = IF won /\ ~IsLegacy(t)
                                         THEN "sweepRefund" ELSE @]
              /\ Succeeds
           \/ /\ Fails(t, "update") /\ ~won
              /\ UNCHANGED <<row, pc>>
           \/ /\ Fails(t, "ack") /\ won
              /\ UpdateWithStatus(t, view[p][t], "FAILURE", TRUE, won)
              /\ UNCHANGED pc
  BY DEF SweepTask
<1>2. t \in Tasks /\ view[p][t] \notin Final /\ ~Faithful(t)
  <2>1. t \in expired
    BY <1>0 DEF PollerInv
  <2>2. QED
    BY <1>0, <2>1 DEF PollerInv, TypeOK, UpstreamInv, Faithful
<1>3. /\ todo'[p] = todo[p] \ {t} /\ cur'[p] = t
      /\ view' = view /\ answer' = answer
      /\ \A q \in Procs \ {p} : Still(q)
  BY <1>0, <1>1 DEF SweepTask, TypeOK, Still
<1>4. hit \subseteq hit'
  BY <1>1 DEF Fails, FailsFor, Succeeds
<1>5. /\ pc'[p] \in {"sweep", "sweepRefund"}
      /\ ~won => pc'[p] = "sweep"
      /\ won => t \in hit' \/ pc'[p] = "sweepRefund" \/ IsLegacy(t)
  BY <1>0, <1>1 DEF TypeOK, Fails, FailsFor
<1>6. PollerInv(p)'
  <2>1. expired' = expired
    BY DEF SweepTask
  <2>2. QED
    BY <1>0, <1>3, <1>5, <2>1 DEF PollerInv
<1>7. /\ won => status[t] \notin Final /\ status'[t] = "FAILURE"
      /\ ~won => status'[t] = status[t]
      /\ \A u \in Tasks \ {t} : status'[u] = status[u]
      /\ quota' = quota
  <2>1. CASE UNCHANGED row /\ ~won
    BY <2>1 DEF row
  <2>2. CASE UpdateWithStatus(t, view[p][t], "FAILURE", TRUE, won)
    BY <1>2, <2>2, SwapsRunning
  <2>3. QED
    BY <1>1, <2>1, <2>2
<1>8. QED
  BY <1>0, <1>2, <1>3, <1>4, <1>5, <1>6, <1>7, SavesInv
     DEF SweepTask, Billing

LEMMA UpdateVideoInv ==
  ASSUME IInv, TypeOK', NEW p \in Pollers, UpdateVideoTask(p)
  PROVE  IInv'
<1> USE DEF IInv
<1> DEFINE t == cur[p]
           a == answer[p]
<1>0. p \in Procs /\ PollerInv(p) /\ pc[p] = "save"
  BY DEF Procs, UpdateVideoTask
<1>1. PICK won \in BOOLEAN :
        /\ \/ \E c : UpdateWithStatus(t, view[p][t], a, c, won)
           \/ UNCHANGED row /\ ~won
        /\ \E l \in {BillingOf(a), "poll"} :
             /\ Goto(p, l, t, a)
             /\ ~won => l = "poll"
             /\ won /\ l = "poll" => t \in hit' \/ BillingOf(a) = "poll"
        /\ hit \subseteq hit'
  BY DEF UpdateVideoTask, Fails, FailsFor, Succeeds
<1>2. t \in Tasks /\ view[p][t] \notin Final
      /\ (Faithful(t) /\ a \in Final => a = upstream[t])
  BY <1>0 DEF PollerInv, TypeOK
<1>3. PICK l \in {BillingOf(a), "poll"} :
        /\ Goto(p, l, t, a)
        /\ ~won => l = "poll"
        /\ won /\ l = "poll" => t \in hit' \/ BillingOf(a) = "poll"
  BY <1>1
<1>4. /\ \A q \in Procs \ {p} : Still(q)
      /\ pc'[p] = l /\ cur'[p] = t /\ todo'[p] = todo[p] /\ view'[p] = view[p]
  BY <1>0, <1>3, GotoOthers
<1>5. PollerInv(p)'
  BY <1>0, <1>3, <1>4 DEF PollerInv, BillingOf
<1>6. /\ won => status[t] \notin Final /\ status'[t] = a
      /\ ~won => status'[t] = status[t]
      /\ \A u \in Tasks \ {t} : status'[u] = status[u]
      /\ quota' = quota
  <2>1. CASE UNCHANGED row /\ ~won
    BY <2>1 DEF row
  <2>2. ASSUME NEW c, UpdateWithStatus(t, view[p][t], a, c, won)
        PROVE  /\ won => status[t] \notin Final /\ status'[t] = a
               /\ ~won => status'[t] = status[t]
               /\ \A u \in Tasks \ {t} : status'[u] = status[u]
               /\ quota' = quota
    BY <1>2, <2>2, SwapsRunning
  <2>3. QED
    BY <1>1, <2>1, <2>2
<1>7. /\ l \in Billing =>
           a = IF l = "settle" THEN "SUCCESS" ELSE "FAILURE"
      /\ ~won => l \notin Billing
      /\ won => t \in hit' \/ a # "FAILURE" \/ l \in Billing
  BY <1>3 DEF BillingOf, Billing
<1>8. pc[p] \notin Billing /\ UNCHANGED <<expired, upstream, ledger>>
  BY <1>0 DEF UpdateVideoTask, Billing
<1>9. QED
  <2> HIDE DEF t, a
  <2>1. QED
    BY <1>1, <1>2, <1>4, <1>5, <1>6, <1>7, <1>8, SavesInv

LEMMA PipelineInv ==
  ASSUME IInv, TypeOK', NEW p \in Pollers, AdvanceVideoPipeline(p)
  PROVE  IInv'
<1> USE DEF IInv
<1> DEFINE t == cur[p]
<1>0. /\ p \in Procs /\ PollerInv(p) /\ pc[p] = "save"
      /\ Goto(p, "poll", t, answer[p])
  BY DEF Procs, AdvanceVideoPipeline
<1>1. PICK s \in {"IN_PROGRESS", "SUCCESS"}, won \in BOOLEAN :
        \/ \E c : UpdateWithStatus(t, view[p][t], s, c, won)
        \/ UNCHANGED row /\ ~won
  BY DEF AdvanceVideoPipeline
<1>2. t \in Tasks /\ view[p][t] \notin Final /\ ~Faithful(t)
  BY <1>0 DEF AdvanceVideoPipeline, PollerInv, TypeOK, Faithful
<1>3. /\ \A q \in Procs \ {p} : Still(q)
      /\ pc'[p] = "poll" /\ cur'[p] = t
      /\ todo'[p] = todo[p] /\ view'[p] = view[p]
  BY <1>0, GotoOthers
<1>4. PollerInv(p)'
  BY <1>0, <1>3 DEF PollerInv
<1>5. /\ won => status[t] \notin Final /\ status'[t] = s
      /\ ~won => status'[t] = status[t]
      /\ \A u \in Tasks \ {t} : status'[u] = status[u]
      /\ quota' = quota
  <2>1. CASE UNCHANGED row /\ ~won
    BY <2>1 DEF row
  <2>2. ASSUME NEW c, UpdateWithStatus(t, view[p][t], s, c, won)
        PROVE  /\ won => status[t] \notin Final /\ status'[t] = s
               /\ ~won => status'[t] = status[t]
               /\ \A u \in Tasks \ {t} : status'[u] = status[u]
               /\ quota' = quota
    BY <1>2, <2>2, SwapsRunning
  <2>3. QED
    BY <1>1, <2>1, <2>2
<1>6. /\ pc[p] \notin Billing /\ pc'[p] \notin Billing
      /\ UNCHANGED <<expired, upstream, ledger>> /\ hit \subseteq hit'
  BY <1>0, <1>3 DEF AdvanceVideoPipeline, Billing, Fails, FailsFor, Succeeds
<1>7. s # "FAILURE"
  OBVIOUS
<1>8. QED
  <2> HIDE DEF t
  <2>1. QED
    BY <1>2, <1>3, <1>4, <1>5, <1>6, <1>7, SavesInv

\* A transfer is made in full, or the task is hit.
LEMMA AdjustsIs ==
  ASSUME TypeOK, NEW t \in Tasks, NEW d \in Int, Adjusts(t, d)
  PROVE  /\ \A u \in Tasks \ {t} :
              paid'[u] = paid[u] /\ tokenPaid'[u] = tokenPaid[u]
         /\ paid'[t] \in {paid[t], paid[t] + d}
         /\ tokenPaid'[t] \in {tokenPaid[t], tokenPaid[t] + d}
         /\ t \notin hit' =>
              paid'[t] = paid[t] + d /\ tokenPaid'[t] = tokenPaid[t] + d
         /\ hit \subseteq hit'
BY DEF TypeOK, Adjusts, Pays, Fails, FailsFor, Succeeds

\* The process that ended the task bills it: from now on nobody does.
LEMMA BilledTask ==
  ASSUME NEW p \in Pollers, NEW t, BillInv(t), Bills(p, t), ~Bills(p, t)',
         \A q \in Procs \ {p} : Still(q),
         status'[t] = status[t], t \in hit => t \in hit',
         Exact(t) => paid'[t] >= 0 /\ tokenPaid'[t] >= 0,
         t \notin hit' =>
           /\ paid'[t] = due'[t] /\ tokenPaid'[t] = due'[t]
           /\ status[t] = "FAILURE" => due'[t] = 0
  PROVE  BillInv(t)' /\ EndInv(t)'
<1>1. \A q \in Pollers : ~Bills(q, t)'
  BY DEF BillInv, Bills, Still, Procs
<1>2. status[t] \in Final
  BY DEF BillInv, Final
<1>3. BillInv(t)'
  BY <1>1, <1>2 DEF BillInv, Exact
<1>4. EndInv(t)'
  BY DEF EndInv
<1>5. QED
  BY <1>3, <1>4

LEMMA BillingInv ==
  ASSUME IInv, TypeOK', NEW p \in Pollers,
         RefundTaskQuota(p) \/ SettleTaskBilling(p)
  PROVE  IInv'
<1> USE DEF IInv
<1> DEFINE t == cur[p]
<1>0. p \in Procs /\ PollerInv(p) /\ t \in Tasks
  BY DEF Procs, TypeOK
<1>1. PICK l \in {"sweep", "poll", "sunoSave"} :
        /\ Goto(p, l, t, answer[p])
        /\ pc[p] = "sweepRefund" <=> l = "sweep"
        /\ pc[p] = "sunoRefund" <=> l = "sunoSave"
  BY AfterBillingIs DEF RefundTaskQuota, SettleTaskBilling
<1>2. /\ \A q \in Procs \ {p} : Still(q)
      /\ pc'[p] = l /\ cur'[p] = t
      /\ todo'[p] = todo[p] /\ view'[p] = view[p]
  BY <1>0, <1>1, GotoOthers
<1>3. UNCHANGED <<row, expired, upstream, undone>>
  BY DEF RefundTaskQuota, SettleTaskBilling
<1>4. PollerInv(p)'
  BY <1>0, <1>1, <1>2, <1>3 DEF PollerInv
<1>5. /\ pc[p] \in Billing \union {"sunoRefund"}
      /\ l \notin Billing
  BY AfterBillingIs DEF RefundTaskQuota, SettleTaskBilling, Billing
<1>6. \A u \in Tasks \ {t} : Quiet(u)
  <2>1. \A u \in Tasks \ {t} :
          paid'[u] = paid[u] /\ tokenPaid'[u] = tokenPaid[u]
            /\ due'[u] = due[u]
    <3>1. CASE UNCHANGED <<paid, tokenPaid, due>>
      BY <3>1
    <3>2. ASSUME NEW d \in Int, Adjusts(t, d),
                 \E x : due' = [due EXCEPT ![t] = x]
          PROVE  \A u \in Tasks \ {t} :
                   paid'[u] = paid[u] /\ tokenPaid'[u] = tokenPaid[u]
                     /\ due'[u] = due[u]
      BY <1>0, <3>2, AdjustsIs DEF TypeOK
    <3>3. quota[t] \in Int /\ -quota[t] \in Int
          /\ \A q \in Quotas : q - quota[t] \in Int
      BY <1>0, TasksAssumption DEF TypeOK
    <3>4. QED
      BY <3>1, <3>2, <3>3 DEF RefundTaskQuota, SettleTaskBilling
  <2>2. hit \subseteq hit'
    BY DEF RefundTaskQuota, SettleTaskBilling, Adjusts, Fails, FailsFor,
           Succeeds
  <2>3. QED
    BY <1>3, <2>1, <2>2 DEF Quiet, row
<1>7. ASSUME NEW u \in Guarded, u # t
      PROVE  TaskInv(u)' /\ status'[u] = status[u]
  <2>1. ~Bills(p, u) /\ ~Bills(p, u)' /\ u \in Tasks
    BY <1>2, <1>7 DEF Bills, Guarded, Swapped
  <2>2. QED
    BY <1>2, <1>6, <1>7, <2>1, QuietTask
<1>8. ASSUME t \in Guarded
      PROVE  TaskInv(t)' /\ status'[t] = status[t]
  <2>1. pc[p] \in Billing /\ Bills(p, t) /\ ~Bills(p, t)'
    BY <1>0, <1>2, <1>5, <1>8 DEF PollerInv, Guarded, Swapped, Bills
  <2>2. /\ BillInv(t) /\ status'[t] = status[t] /\ quota[t] \in Nat
        /\ Exact(t) => paid[t] = quota[t] /\ tokenPaid[t] = quota[t]
                         /\ due[t] = quota[t]
        /\ status[t] = IF pc[p] = "settle" THEN "SUCCESS" ELSE "FAILURE"
    BY <1>0, <1>3, <1>8, <2>1 DEF BillInv, row, TypeOK
  <2> DEFINE IsPaid ==
               /\ t \in hit => t \in hit'
               /\ Exact(t) => paid'[t] >= 0 /\ tokenPaid'[t] >= 0
               /\ t \notin hit' =>
                    /\ paid'[t] = due'[t] /\ tokenPaid'[t] = due'[t]
                    /\ status[t] = "FAILURE" => due'[t] = 0
  <2>3. IsPaid
    <3>1. CASE UNCHANGED <<paid, tokenPaid, due>> /\ Succeeds
                 /\ pc[p] = "settle"
      BY <2>2, <3>1 DEF Succeeds, Exact
    <3>2. ASSUME NEW x \in Nat, Adjusts(t, x - quota[t]),
                 due' = [due EXCEPT ![t] = x],
                 pc[p] = "settle" \/ x = 0
          PROVE  IsPaid
      <4>1. x - quota[t] \in Int /\ due'[t] = x
        BY <1>0, <2>2, <3>2 DEF TypeOK
      <4>2. /\ paid'[t] \in {paid[t], paid[t] + (x - quota[t])}
            /\ tokenPaid'[t] \in {tokenPaid[t], tokenPaid[t] + (x - quota[t])}
            /\ t \notin hit' => /\ paid'[t] = paid[t] + (x - quota[t])
                                /\ tokenPaid'[t] = tokenPaid[t]
                                                     + (x - quota[t])
            /\ hit \subseteq hit'
        BY <1>0, <3>2, <4>1, AdjustsIs
      <4>3. Exact(t) => paid'[t] \in {quota[t], x}
                          /\ tokenPaid'[t] \in {quota[t], x}
        BY <2>2, <4>2
      <4>4. t \notin hit' => paid'[t] = x /\ tokenPaid'[t] = x
        BY <2>2, <4>2 DEF Exact
      <4>5. QED
        BY <2>2, <3>2, <4>1, <4>2, <4>3, <4>4
    <3>3. CASE RefundTaskQuota(p)
      <4>1. 0 - quota[t] = -quota[t]
        BY <2>2
      <4>2. QED
        BY <3>2, <3>3, <4>1 DEF RefundTaskQuota
    <3>4. CASE SettleTaskBilling(p)
      <4>1. Quotas \subseteq Nat
        BY TasksAssumption
      <4>2. QED
        BY <3>1, <3>2, <3>4, <4>1 DEF SettleTaskBilling
    <3>5. QED
      BY <3>3, <3>4
  <2>4. BillInv(t)' /\ EndInv(t)'
    BY <1>2, <2>1, <2>2, <2>3, BilledTask
  <2>5. QED
    BY <2>2, <2>4 DEF TaskInv
<1>9. QED
  BY <1>2, <1>3, <1>4, <1>7, <1>8, PollerStep

\* A step of a client: it may end a task that it may fetch.
LEMMA ClientStep ==
  ASSUME IInv, TypeOK', NEW c \in Clients,
         UNCHANGED <<quota, expired, upstream, paid, tokenPaid, due, hit>>,
         \A q \in Procs \ {c} : Still(q),
         ClientInv(c)',
         \A t \in Steady : undone'[t] = 0,
         \A t \in Tasks : undone'[t] = 0 => undone[t] = 0,
         \A t \in Guarded' :
           \/ status'[t] = status[t]
           \/ /\ ~Unfetched(t) /\ status[t] \notin Final
              /\ Faithful(t) /\ status'[t] \in Final =>
                   status'[t] = upstream[t]
  PROVE  IInv'
<1> USE DEF IInv
<1>0. \A t \in Guarded' : t \in Guarded
  BY DEF Guarded, Swapped
<1>1. TimePasses
  BY DEF TimePasses
<1>2. c \in Procs /\ c \notin Pollers
      /\ Pollers \subseteq Procs /\ Clients \subseteq Procs
  BY TasksAssumption DEF Procs
<1>3. \A q \in Pollers : PollerInv(q)'
  BY <1>1, <1>2, PollerFrame
<1>4. \A q \in Clients : ClientInv(q)'
  BY <1>1, <1>2, ClientFrame
<1>5. UpstreamInv'
  BY <1>0 DEF UpstreamInv
<1>6. \A q \in Pollers, t \in Guarded :
        (Bills(q, t)' <=> Bills(q, t)) /\ pc'[q] = pc[q]
  BY <1>2 DEF Bills, Still
<1>7. ASSUME NEW t \in Guarded' PROVE TaskInv(t)'
  <2>0. /\ BillInv(t) /\ (Unfetched(t) => EndInv(t))
        /\ quota'[t] = quota[t] /\ paid'[t] = paid[t]
        /\ tokenPaid'[t] = tokenPaid[t] /\ due'[t] = due[t] /\ hit' = hit
        /\ t \in Guarded
    BY <1>0
  <2>1. CASE status'[t] = status[t]
    <3>1. Quiet(t)
      BY <2>0, <2>1 DEF Quiet
    <3>2. BillInv(t)' /\ (EndInv(t) => EndInv(t)')
      BY <1>6, <2>0, <3>1, BillFrame, EndFrame
    <3>3. QED
      BY <2>0, <3>2 DEF TaskInv, Unfetched
  <2>2. CASE ~Unfetched(t) /\ status[t] \notin Final
    <3>1. \A q \in Pollers : ~Bills(q, t)'
      BY <1>6, <2>0, <2>2 DEF BillInv, Final
    <3>2. BillInv(t)'
      BY <2>0, <2>2, <3>1 DEF BillInv, Exact
    <3>3. QED
      BY <2>2, <3>2 DEF TaskInv, Unfetched
  <2>3. QED
    BY <2>1, <2>2
<1>8. QED
  BY <1>3, <1>4, <1>5, <1>7 DEF TaskInv

LEMMA ClientsInv ==
  ASSUME IInv, TypeOK', NEW c \in Clients,
         ClientRead(c) \/ ClientFetch(c) \/ ClientSave(c)
  PROVE  IInv'
<1> USE DEF IInv
<1>0. c \in Procs /\ ClientInv(c) /\ cur[c] \in Tasks
  BY DEF Procs, TypeOK
<1>1. CASE ClientRead(c)
  <2>1. PICK t \in Gemini : cur' = [cur EXCEPT ![c] = t]
    BY <1>1 DEF ClientRead
  <2>2. /\ cur'[c] = t /\ pc'[c] = "fetch" /\ view'[c] = status
        /\ \A q \in Procs \ {c} : Still(q)
    BY <1>0, <1>1, <2>1 DEF ClientRead, TypeOK, Still
  <2>3. ClientInv(c)'
    BY <1>1, <2>2 DEF ClientRead, ClientInv, UpstreamInv, Guarded, ledger
  <2>4. QED
    BY <1>1, <2>2, <2>3, ClientStep
       DEF ClientRead, row, ledger, UpstreamInv
<1>2. CASE ClientFetch(c)
  <2> DEFINE t == cur[c]
  <2>1. PICK l, a :
          /\ l \in {"clientSave", "sleep"}
          /\ Goto(c, l, t, a)
          /\ l = "clientSave" => a \in Answers(t)
    BY <1>2 DEF ClientFetch
  <2>2. /\ cur'[c] = t /\ pc'[c] = l /\ view'[c] = view[c] /\ answer'[c] = a
        /\ \A q \in Procs \ {c} : Still(q)
    BY <1>0, <2>1, GotoOthers
  <2>3. Faithful(t) /\ l = "clientSave" =>
          /\ a \in Final => a = upstream[t]
          /\ upstream[t] \in Final => a = upstream[t]
    BY <1>0, <2>1 DEF Faithful, Answers, Known, Final
  <2>4. ClientInv(c)'
    BY <1>0, <1>2, <2>2, <2>3 DEF ClientFetch, ClientInv, Guarded, ledger
  <2>5. QED
    BY <1>2, <2>2, <2>4, ClientStep
       DEF ClientFetch, row, ledger, UpstreamInv
<1>3. CASE ClientSave(c)
  <2> DEFINE t == cur[c]
  <2>1. Goto(c, "sleep", t, "none")
    BY <1>3 DEF ClientSave
  <2>2. pc'[c] = "sleep" /\ \A q \in Procs \ {c} : Still(q)
    BY <1>0, <2>1, GotoOthers
  <2>3. ClientInv(c)'
    BY <2>2 DEF ClientInv
  <2>4. PICK won \in BOOLEAN :
          /\ UpdateWithStatus(t, view[c][t], answer[c], answer[c] \in Final,
                              won)
          /\ IF won /\ view[c][t] \in Final \ {answer[c]}
             THEN undone' = [undone EXCEPT ![t] = @ + 1]
             ELSE UNCHANGED undone
    BY <1>3 DEF ClientSave
  <2>5. /\ quota' = quota
        /\ \A u \in Tasks \ {t} : status'[u] = status[u]
        /\ \/ status'[t] = status[t]
           \/ won /\ status[t] = view[c][t] /\ status'[t] = answer[c]
    BY <1>0, <2>4 DEF UpdateWithStatus, Writes, row, TypeOK
  <2>6. /\ \A u \in Tasks \ {t} : undone'[u] = undone[u]
        /\ \/ undone'[t] = undone[t]
           \/ /\ undone'[t] = undone[t] + 1
              /\ view[c][t] \in Final \ {answer[c]}
        /\ won /\ view[c][t] \in Final \ {answer[c]} =>
             undone'[t] = undone[t] + 1
    BY <1>0, <2>4 DEF TypeOK
  <2>7. /\ ~Unfetched(t)
        /\ t \in Guarded /\ Faithful(t) =>
             /\ answer[c] \in Final => answer[c] = upstream[t]
             /\ view[c][t] \in Final => answer[c] = view[c][t]
    BY <1>0, <1>3 DEF ClientSave, ClientInv, Unfetched
  <2>8. undone[t] \in Nat
    BY <1>0 DEF TypeOK
  <2> HIDE DEF t
  <2>9. \A u \in Tasks : undone'[u] = 0 => undone[u] = 0
    BY <2>6, <2>8
  <2>10. \A u \in Steady : undone'[u] = 0
    <3>1. \A u \in Steady : u \in Guarded /\ u \in Tasks
      BY DEF UpstreamInv, Steady, Guarded, Swapped
    <3>2. t \in Steady => Faithful(t) /\ t \in Guarded
      BY <2>7, <3>1 DEF Steady
    <3>3. QED
      BY <2>6, <2>7, <3>1, <3>2 DEF Guarded
  <2>11. ASSUME NEW u \in Guarded'
         PROVE  \/ status'[u] = status[u]
                \/ /\ ~Unfetched(u) /\ status[u] \notin Final
                   /\ Faithful(u) /\ status'[u] \in Final =>
                        status'[u] = upstream[u]
    <3>1. u \in Tasks /\ undone'[u] = 0 /\ u \in Guarded
      BY <2>9 DEF Guarded, Swapped
    <3>2. QED
      BY <2>5, <2>6, <2>7, <2>8, <3>1
  <2>12. UNCHANGED <<expired, upstream, paid, tokenPaid, due, hit>>
    BY <1>3 DEF ClientSave
  <2>13. QED
    BY <2>2, <2>3, <2>5, <2>9, <2>10, <2>11, <2>12, ClientStep
<1>4. QED
  BY <1>1, <1>2, <1>3

LEMMA EnvironmentInv ==
  ASSUME IInv, TypeOK', NEW t \in Tasks,
         RelayTask(t) \/ UpstreamEnds(t) \/ Expire(t)
  PROVE  IInv'
<1> USE DEF IInv
<1>1. \A q \in Procs : Still(q)
  BY DEF RelayTask, UpstreamEnds, Expire, local, Still
<1>2. TimePasses /\ UNCHANGED undone /\ Guarded' = Guarded
  BY DEF RelayTask, UpstreamEnds, Expire, TimePasses, Final, TypeOK, ledger,
         Guarded
<1>3. /\ \A p \in Pollers : PollerInv(p)'
      /\ \A c \in Clients : ClientInv(c)'
  BY <1>1, <1>2, PollerFrame, ClientFrame DEF Procs
<1>4. UpstreamInv'
  <2>1. ~Timeouts => expired' = {}
    BY DEF UpstreamInv, RelayTask, UpstreamEnds, Expire
  <2>2. ASSUME NEW u \in Guarded, Faithful(u), status'[u] \in Final
        PROVE  status'[u] = upstream'[u]
    <3>1. u \in Tasks
      BY DEF Guarded, Swapped
    <3>2. status'[u] = status[u]
      BY <2>2, <3>1 DEF RelayTask, UpstreamEnds, Expire, row, Final, TypeOK
    <3>3. QED
      BY <1>2, <2>2, <3>1, <3>2 DEF UpstreamInv, TimePasses
  <2>3. QED
    BY <1>2, <2>1, <2>2 DEF UpstreamInv
<1>5. \A q \in Pollers : \A u : /\ Bills(q, u)' <=> Bills(q, u)
                                /\ pc'[q] = pc[q]
  BY <1>1 DEF Bills, Still, Procs
<1>6. ASSUME NEW u \in Guarded, Quiet(u) PROVE TaskInv(u)'
  <2>1. BillInv(u)' /\ (EndInv(u) => EndInv(u)')
    BY <1>5, <1>6, BillFrame, EndFrame
  <2>2. QED
    BY <2>1 DEF TaskInv, Unfetched
<1>7. CASE UpstreamEnds(t) \/ Expire(t)
  <2>1. \A u : Quiet(u)
    BY <1>7 DEF UpstreamEnds, Expire, Quiet, row, ledger
  <2>2. QED
    BY <1>2, <1>3, <1>4, <1>6, <2>1 DEF TaskInv
<1>8. CASE RelayTask(t)
  <2>1. PICK q \in Quotas, pre \in Quotas, s \in {"NOT_START", "lost"},
             amount \in Quotas :
          /\ quota' = [quota EXCEPT ![t] = q]
          /\ due' = [due EXCEPT ![t] = q]
          /\ status' = [status EXCEPT ![t] = s]
          /\ paid' = [paid EXCEPT ![t] = amount]
          /\ tokenPaid' = [tokenPaid EXCEPT ![t] = amount]
          /\ amount # q => "settle" \in FaultKinds /\ t \in hit'
          /\ hit' = hit \/ hit' = hit \union {t}
    BY <1>8 DEF RelayTask, Fails, FailsFor, Succeeds
  <2>2. \A u \in Tasks \ {t} : Quiet(u)
    BY <2>1 DEF Quiet, TypeOK
  <2>3. ASSUME t \in Guarded PROVE TaskInv(t)'
    <3>1. /\ status'[t] = s /\ quota'[t] = q /\ due'[t] = q
          /\ paid'[t] = amount /\ tokenPaid'[t] = amount
      BY <2>1 DEF TypeOK
    <3>2. \A p \in Pollers : ~Bills(p, t)'
      BY <1>5, <1>8, <2>3 DEF RelayTask, BillInv, Final
    <3>3. Exact(t)' => amount = q
      BY <2>1 DEF Exact
    <3>4. q \in Nat
      BY TasksAssumption
    <3>5. BillInv(t)'
      BY <3>1, <3>2, <3>3, <3>4 DEF BillInv
    <3>6. EndInv(t)'
      BY <3>1 DEF EndInv, Final
    <3>7. QED
      BY <3>5, <3>6 DEF TaskInv
  <2>4. QED
    <3>1. \A u \in Guarded : u \in Tasks
      BY DEF Guarded, Swapped
    <3>2. QED
      BY <1>2, <1>3, <1>4, <1>6, <2>2, <2>3, <3>1 DEF TaskInv
<1>9. QED
  BY <1>7, <1>8

LEMMA StutterInv ==
  ASSUME IInv, UNCHANGED vars
  PROVE  IInv'
<1> USE DEF IInv, vars, row, local, ledger
<1>1. TypeOK'
  BY DEF TypeOK
<1>2. \A q \in Procs : Still(q)
  BY DEF Still
<1>3. TimePasses
  BY DEF TimePasses
<1>4. /\ \A p \in Pollers : PollerInv(p)'
      /\ \A c \in Clients : ClientInv(c)'
  BY <1>2, <1>3, PollerFrame, ClientFrame DEF Procs
<1>5. UpstreamInv' /\ Guarded' = Guarded
  BY DEF UpstreamInv, Guarded
<1>6. ASSUME NEW t \in Guarded
      PROVE  BillInv(t)' /\ (Unfetched(t) => EndInv(t)')
  <2>1. Quiet(t)
    BY DEF Quiet
  <2>2. \A p \in Pollers : (Bills(p, t)' <=> Bills(p, t)) /\ pc'[p] = pc[p]
    BY DEF Bills
  <2>3. QED
    BY <2>1, <2>2, BillFrame, EndFrame
<1>7. QED
  BY <1>1, <1>4, <1>5, <1>6

LEMMA TasksInitInv == Init => IInv
<1> SUFFICES ASSUME Init PROVE IInv
  OBVIOUS
<1>1. TypeOK
  BY InitType
<1>2. /\ \A p \in Pollers : PollerInv(p)
      /\ \A c \in Clients : ClientInv(c)
  BY DEF Init, PollerInv, ClientInv, Procs
<1>3. UpstreamInv
  BY DEF Init, UpstreamInv, Guarded, Steady, Swapped, Final
<1>4. ASSUME NEW t \in Guarded PROVE BillInv(t) /\ EndInv(t)
  <2>1. t \in Tasks
    BY DEF Guarded, Swapped
  <2>2. \A p \in Pollers : ~Bills(p, t)
    BY DEF Init, Bills, Billing, Procs
  <2>3. QED
    BY <2>1, <2>2 DEF Init, BillInv, EndInv, Final
<1>5. QED
  BY <1>1, <1>2, <1>3, <1>4 DEF IInv

LEMMA TasksNextInv == IInv /\ [Next]_vars => IInv'
<1> SUFFICES ASSUME IInv, [Next]_vars PROVE IInv'
  OBVIOUS
<1>0. TypeOK'
  BY NextType DEF IInv
<1>1. ASSUME NEW t \in Tasks, RelayTask(t) \/ UpstreamEnds(t) \/ Expire(t)
      PROVE  IInv'
  BY <1>0, <1>1, EnvironmentInv
<1>2. ASSUME NEW p \in Pollers, SweepStep(p) \/ PollStep(p) \/ Crash(p)
      PROVE  IInv'
  <2>1. CASE \/ SweepList(p) \/ PollList(p) \/ FetchNothing(p) \/ Fetch(p)
             \/ FetchSuno(p) \/ PollEnd(p)
    BY <1>0, <2>1, ReadsInv
  <2>2. CASE SweepTask(p)
    BY <1>0, <2>2, SweepTaskInv
  <2>3. CASE FailNullTasks(p) \/ FailLostChannel(p)
    BY <1>0, <2>3, BulkFailsInv
  <2>4. CASE UpdateVideoTask(p)
    BY <1>0, <2>4, UpdateVideoInv
  <2>5. CASE AdvanceVideoPipeline(p)
    BY <1>0, <2>5, PipelineInv
  <2>6. CASE UpdateSunoTask(p)
    BY <1>0, <2>6, UpdateSunoInv
  <2>7. CASE RefundTaskQuota(p) \/ SettleTaskBilling(p)
    BY <1>0, <2>7, BillingInv
  <2>8. CASE Crash(p)
    BY <1>0, <2>8, CrashInv
  <2>9. QED
    BY <1>2, <2>1, <2>2, <2>3, <2>4, <2>5, <2>6, <2>7, <2>8
       DEF SweepStep, PollStep
<1>3. ASSUME NEW c \in Clients,
             ClientRead(c) \/ ClientFetch(c) \/ ClientSave(c)
      PROVE  IInv'
  BY <1>0, <1>3, ClientsInv
<1>4. CASE UNCHANGED vars
  BY <1>4, StutterInv
<1>5. QED
  BY <1>1, <1>2, <1>3, <1>4 DEF Next

LEMMA TasksInductive == Spec => []IInv
<1>1. QED
  BY TasksInitInv, TasksNextInv, PTL DEF Spec

\* The steady tasks stay guarded.
LEMMA SteadyStays ==
  ASSUME IInv, NEW t \in Steady
  PROVE  t \in Guarded /\ t \in Swapped /\ undone[t] = 0
BY DEF IInv, UpstreamInv, Steady, Guarded

LEMMA SteadyStaysNext ==
  ASSUME IInv', NEW t \in Steady
  PROVE  undone'[t] = 0
BY DEF IInv, UpstreamInv
-----------------------------------------------------------------------------
(***************************************************************************)
(* What follows                                                            *)
(***************************************************************************)

\* The client writes over the end of the task, which it has read.
Undoes(c, t) ==
  /\ ClientSave(c) /\ cur[c] = t
  /\ view[c][t] = status[t] /\ answer[c] = status'[t]

\* A step that writes a row by compare and swap writes it before its end, or
\* is a client's.
LEMMA OnlyClientsUndo ==
  ASSUME IInv, [Next]_vars, NEW t \in Swapped, status[t] \in Final
  PROVE  status'[t] = status[t] \/ \E c \in Clients : Undoes(c, t)
<1> USE DEF IInv
<1>0. t \in Tasks /\ t \notin Suno
  BY DEF Swapped
<1>1. ASSUME NEW u \in Tasks, RelayTask(u) \/ UpstreamEnds(u) \/ Expire(u)
      PROVE  status'[t] = status[t]
  BY <1>0, <1>1 DEF RelayTask, UpstreamEnds, Expire, row, Final, TypeOK
<1>2. ASSUME NEW p \in Pollers, SweepStep(p) \/ PollStep(p) \/ Crash(p)
      PROVE  status'[t] = status[t]
  <2>0. p \in Procs /\ PollerInv(p) /\ cur[p] \in Tasks
        /\ todo[p] \subseteq Tasks
    BY DEF Procs, TypeOK
  <2>1. CASE UNCHANGED row
    BY <2>1 DEF row
  <2>2. ASSUME NEW u \in Tasks, NEW s, NEW c, NEW won, NEW from,
               from \notin Final, UpdateWithStatus(u, from, s, c, won)
        PROVE  status'[t] = status[t]
    BY <1>0, <2>2 DEF UpdateWithStatus, Writes, row, TypeOK
  <2>3. CASE SweepTask(p)
    <3>1. \A u \in todo[p] : u \in Tasks /\ view[p][u] \notin Final
      BY <2>0 DEF PollerInv
    <3>2. \/ UNCHANGED row
          \/ \E u \in todo[p], won \in BOOLEAN :
               UpdateWithStatus(u, view[p][u], "FAILURE", TRUE, won)
      BY <2>3 DEF SweepTask
    <3>3. QED
      BY <2>1, <2>2, <3>1, <3>2
  <2>4. CASE UpdateVideoTask(p) \/ AdvanceVideoPipeline(p)
    <3>1. view[p][cur[p]] \notin Final
      BY <2>0, <2>4 DEF PollerInv, UpdateVideoTask, AdvanceVideoPipeline
    <3>2. \/ UNCHANGED row
          \/ \E s, c, won :
               UpdateWithStatus(cur[p], view[p][cur[p]], s, c, won)
      BY <2>4 DEF UpdateVideoTask, AdvanceVideoPipeline
    <3>3. QED
      BY <2>0, <2>1, <2>2, <3>1, <3>2
  <2>5. CASE FailNullTasks(p) \/ FailLostChannel(p)
    BY <1>0, <2>5 DEF FailNullTasks, FailLostChannel, BulkFails, Swapped
  <2>6. CASE UpdateSunoTask(p)
    <3>1. t # cur[p]
      BY <1>0, <2>0, <2>6 DEF UpdateSunoTask, PollerInv
    <3>2. QED
      BY <1>0, <2>6, <3>1 DEF UpdateSunoTask, Writes, row, TypeOK
  <2>7. QED
    BY <1>2, <2>1, <2>3, <2>4, <2>5, <2>6
       DEF SweepStep, PollStep, SweepList, PollList, FetchNothing, Fetch,
           FetchSuno, PollEnd, RefundTaskQuota, SettleTaskBilling, Crash
<1>3. ASSUME NEW c \in Clients,
             ClientRead(c) \/ ClientFetch(c) \/ ClientSave(c)
      PROVE  status'[t] = status[t] \/ Undoes(c, t)
  <2>1. CASE UNCHANGED row
    BY <2>1 DEF row
  <2>2. CASE ClientSave(c)
    <3>1. PICK won \in BOOLEAN :
            UpdateWithStatus(cur[c], view[c][cur[c]], answer[c],
                             answer[c] \in Final, won)
      BY <2>2 DEF ClientSave
    <3>2. \/ status'[t] = status[t]
          \/ t = cur[c] /\ status[t] = view[c][t] /\ status'[t] = answer[c]
      BY <1>0, <3>1 DEF UpdateWithStatus, Writes, row, TypeOK
    <3>3. QED
      BY <2>2, <3>2 DEF Undoes
  <2>3. QED
    BY <1>3, <2>1, <2>2 DEF ClientRead, ClientFetch
<1>4. CASE UNCHANGED vars
  BY <1>4 DEF vars, row
<1>5. QED
  BY <1>1, <1>2, <1>3, <1>4 DEF Next

\* The client that does leaves the task unguarded.
LEMMA NoStepUndoesEnd ==
  ASSUME IInv, [Next]_vars, NEW t \in Swapped, undone'[t] = 0,
         status[t] \in Final
  PROVE  status'[t] = status[t]
<1> SUFFICES ASSUME NEW c \in Clients, Undoes(c, t), status'[t] # status[t]
             PROVE  FALSE
  BY OnlyClientsUndo
<1>1. t \in Tasks /\ undone[t] \in Nat /\ undone \in [Tasks -> Nat]
  BY DEF Swapped, IInv, TypeOK
<1>2. PICK won \in BOOLEAN :
        /\ UpdateWithStatus(t, view[c][t], answer[c], answer[c] \in Final,
                            won)
        /\ won /\ view[c][t] \in Final \ {answer[c]} =>
             undone' = [undone EXCEPT ![t] = @ + 1]
  BY DEF Undoes, ClientSave
<1>3. won /\ view[c][t] \in Final \ {answer[c]}
  BY <1>2 DEF UpdateWithStatus, row, Undoes
<1>4. QED
  BY <1>1, <1>2, <1>3

\* A client saves over the end of a task only if it has read that very end
\* (UpdateWithStatus in tryRealtimeFetch, relay/relay_task.go:512): whatever
\* sweeps, polling loops and other clients did meanwhile, and however often
\* ends were written over before, a read from before the end never does.
THEOREM StaleReadsUndoNoEnd ==
  ASSUME Swapped = Tasks
  PROVE  Spec => EndOutlastsStaleReads
<1>1. IInv /\ [Next]_vars =>
        [\A t \in Tasks : status[t] \in Final /\ status'[t] # status[t] =>
           \E c \in Clients : /\ pc[c] = "clientSave" /\ cur[c] = t
                              /\ view[c][t] = status[t]
                              /\ answer[c] = status'[t]]_vars
  BY OnlyClientsUndo DEF Undoes, ClientSave
<1>2. QED
  BY <1>1, TasksInductive, PTL DEF Spec, EndOutlastsStaleReads

\* Beside Suno tasks and tasks failed in bulk, the others end for good until
\* a client writes over an end it has read: the hypothesis is about the task,
\* not about all the tasks of the installation.
THEOREM GuardedEndForGood ==
  Spec => [][\A t \in Swapped : undone'[t] = 0 =>
               (status[t] \in Final => status'[t] = status[t])]_vars
<1>1. IInv /\ [Next]_vars =>
        [\A t \in Swapped : undone'[t] = 0 =>
           (status[t] \in Final => status'[t] = status[t])]_vars
  BY NoStepUndoesEnd
<1>2. QED
  BY <1>1, TasksInductive, PTL DEF Spec

\* So long they are never given back more than they have paid, and those that
\* no client fetches are billed when they end, whatever happens to the others
\* that the same loops work on.
THEOREM GuardedAreBilled ==
  Spec => [](\A t \in Guarded :
               /\ Exact(t) => paid[t] >= 0 /\ tokenPaid[t] >= 0
               /\ /\ Unfetched(t) /\ t \notin hit
                  /\ status[t] \in Final /\ ~InBilling(t)
                  => /\ paid[t] = due[t] /\ tokenPaid[t] = due[t]
                     /\ status[t] = "FAILURE" /\ ~IsLegacy(t) => due[t] = 0)
<1> DEFINE Inv == \A t \in Guarded :
                    /\ Exact(t) => paid[t] >= 0 /\ tokenPaid[t] >= 0
                    /\ /\ Unfetched(t) /\ t \notin hit
                       /\ status[t] \in Final /\ ~InBilling(t)
                       => /\ paid[t] = due[t] /\ tokenPaid[t] = due[t]
                          /\ status[t] = "FAILURE" /\ ~IsLegacy(t) =>
                               due[t] = 0
<1>1. IInv => Inv
  <2> SUFFICES ASSUME IInv, NEW t \in Guarded
               PROVE  /\ Exact(t) => paid[t] >= 0 /\ tokenPaid[t] >= 0
                      /\ /\ Unfetched(t) /\ t \notin hit
                         /\ status[t] \in Final /\ ~InBilling(t)
                         => /\ paid[t] = due[t] /\ tokenPaid[t] = due[t]
                            /\ status[t] = "FAILURE" /\ ~IsLegacy(t) =>
                                 due[t] = 0
    OBVIOUS
  <2>1. BillInv(t) /\ (Unfetched(t) => EndInv(t))
    BY DEF IInv
  <2>2. ~InBilling(t) => \A p \in Pollers : ~Bills(p, t)
    BY DEF InBilling, Bills, Billing
  <2>3. QED
    BY <2>1, <2>2 DEF BillInv, EndInv
<1>2. QED
  BY <1>1, TasksInductive, PTL

\* A task that has come to its end stays as it is, however many nodes work
\* from stale lists, crash and fail (model/task.go:443).  The rows must be
\* written by compare and swap only (no Suno task, none without upstream id
\* or channel), and a task that clients fetch must have an upstream that
\* does not change its mind.
THEOREM TasksEndForGood ==
  ASSUME Steady = Tasks
  PROVE  Spec => EndIsFinal
<1>1. IInv /\ IInv' /\ [Next]_vars =>
        [\A t \in Tasks : status[t] \in Final => status'[t] = status[t]]_vars
  BY NoStepUndoesEnd, SteadyStays, SteadyStaysNext
<1>2. QED
  BY <1>1, TasksInductive, PTL DEF Spec, EndIsFinal

\* Nobody gives back more than the task has paid, even when a loop dies
\* between its update and the refund: the winner of the compare and swap is
\* the only one that bills.  The settlement of a submission must not fail:
\* the row would show more than the task has paid (controller/relay.go:595).
THEOREM NeverRefundedTwice ==
  ASSUME Steady = Tasks, "settle" \notin FaultKinds
  PROVE  Spec => []RefundedAtMostOnce
<1>1. IInv => RefundedAtMostOnce
  BY SteadyStays DEF IInv, BillInv, Exact, RefundedAtMostOnce
<1>2. QED
  BY <1>1, TasksInductive, PTL

\* A task that has ended, and none of whose steps failed, has paid what was
\* settled, and nothing if it has failed, whichever node or sweep ended it.
\* No client may fetch the tasks: a client ends a task and bills nobody.
THEOREM EveryEndIsBilled ==
  ASSUME Steady = Tasks, \A t \in Tasks : Unfetched(t)
  PROVE  Spec => []EndedIsBilled
<1>1. IInv => EndedIsBilled
  <2> SUFFICES ASSUME IInv, NEW t \in Tasks \ hit, status[t] \in Final,
                      ~InBilling(t)
               PROVE  /\ paid[t] = due[t] /\ tokenPaid[t] = due[t]
                      /\ status[t] = "FAILURE" /\ ~IsLegacy(t) => due[t] = 0
    BY DEF EndedIsBilled
  <2>1. EndInv(t)
    BY SteadyStays DEF IInv
  <2>2. \A p \in Pollers : ~Bills(p, t)
    BY DEF InBilling, Bills, Billing
  <2>3. QED
    BY <2>1, <2>2 DEF EndInv
<1>2. QED
  BY <1>1, TasksInductive, PTL
-----------------------------------------------------------------------------
(***************************************************************************)
(* One polling loop                                                        *)
(*                                                                         *)
(* With one master node nobody changes a row between the list and the      *)
(* update but a client that fetches the task, so that the writes without a *)
(* compare and swap (Suno, bulk failures) are safe as well.                *)
(***************************************************************************)

\* GetAllUnFinishSyncTasks would list the task.
Open(t) == status[t] \notin {"none", "lost"} \union Final /\ t \notin complete

\* The loop p is about to write the row of the task.
Writing(p, t) ==
  cur[p] = t /\ pc[p] \in {"save", "sunoRefund", "sunoSave", "sunoUpdate"}

\* It has given a Suno task its quota back and not yet written the row.
GivenBack(p, t) == cur[p] = t /\ pc[p] = "sunoSave"

\* Failures have not parted the row from what was paid, nor made a Suno task
\* that was given back look unfinished.
Sound(t) ==
  \/ t \notin hit
  \/ /\ "settle" \notin FaultKinds
     /\ t \in Suno => "update" \notin FaultKinds /\ MaxCrashes = 0

\* What the loop has listed and not yet written is still open; the failure of
\* a Suno task is given back before it is written.
FreshInv(p, t) ==
  /\ t \in todo[p] => Open(t)
  /\ Writing(p, t) =>
       /\ Open(t) /\ t \notin todo[p]
       /\ pc[p] = "sunoUpdate" => answer[p] # "FAILURE"
  /\ Bills(p, t) =>
       status[t] = IF pc[p] = "settle" THEN "SUCCESS" ELSE "FAILURE"

\* An open task has paid what its row says, unless it was just given back.
OneBillInv(p, t) ==
  Sound(t) =>
    /\ paid[t] >= 0 /\ tokenPaid[t] >= 0
    /\ (Open(t) /\ ~GivenBack(p, t)) \/ Bills(p, t) =>
         paid[t] = quota[t] /\ tokenPaid[t] = quota[t] /\ due[t] = quota[t]

OneEndInv(p, t) ==
  t \notin hit \union NoUpstreamId \union LostChannel =>
    /\ GivenBack(p, t) => paid[t] = 0 /\ tokenPaid[t] = 0 /\ due[t] = 0
    /\ status[t] \in Final /\ ~Bills(p, t) =>
         /\ paid[t] = due[t] /\ tokenPaid[t] = due[t]
         /\ status[t] = "FAILURE" /\ ~IsLegacy(t) => due[t] = 0

OneInv(p, t) == FreshInv(p, t) /\ OneBillInv(p, t) /\ OneEndInv(p, t)

\* A step that leaves the task and the loop alone.
LEMMA OneFrame ==
  ASSUME NEW p, NEW t, OneInv(p, t), Quiet(t), Still(p),
         t \in complete' <=> t \in complete
  PROVE  OneInv(p, t)'
<1>1. /\ Open(t)' <=> Open(t)
      /\ Writing(p, t)' <=> Writing(p, t)
      /\ GivenBack(p, t)' <=> GivenBack(p, t)
      /\ Bills(p, t)' <=> Bills(p, t)
      /\ Sound(t)' => Sound(t)
  BY DEF Open, Writing, GivenBack, Bills, Sound, Quiet, Still
<1>2. FreshInv(p, t)'
  BY <1>1 DEF OneInv, FreshInv, Quiet, Still
<1>3. OneBillInv(p, t)'
  BY <1>1 DEF OneInv, OneBillInv, Quiet
<1>4. OneEndInv(p, t)'
  BY <1>1 DEF OneInv, OneEndInv, Quiet
<1>5. QED BY <1>2, <1>3, <1>4 DEF OneInv

\* The loop reads a list, fetches, ends its round or dies: no row and no
\* payment changes, and it stops billing or writing only if that is noted.
LEMMA OneReads ==
  ASSUME TypeOK, NEW p \in Procs, NEW t \in Tasks, PollerInv(p), OneInv(p, t),
         \/ SweepList(p) \/ PollList(p) \/ FetchNothing(p) \/ Fetch(p)
         \/ FetchSuno(p) \/ PollEnd(p) \/ Crash(p)
  PROVE  OneInv(p, t)'
<1>1. /\ Quiet(t) /\ complete' = complete
      /\ Open(t)' <=> Open(t)
      /\ Sound(t)' => Sound(t)
  BY DEF SweepList, PollList, FetchNothing, Fetch, FetchSuno, PollEnd, Crash,
         Quiet, row, ledger, Open, Sound
<1>2. ~Bills(p, t)' /\ ~GivenBack(p, t)'
  BY DEF TypeOK, SweepList, PollList, FetchNothing, Fetch, FetchSuno, PollEnd,
         Crash, Lists, Goto, Bills, Billing, GivenBack
<1>3. t \in todo'[p] \/ Writing(p, t)' => Open(t)
  BY DEF TypeOK, SweepList, PollList, FetchNothing, Fetch, FetchSuno, PollEnd,
         Crash, Lists, Goto, Writing, OneInv, FreshInv, Open, Unfinished
<1>4. Writing(p, t)' =>
        /\ t \notin todo'[p]
        /\ pc'[p] = "sunoUpdate" => answer'[p] # "FAILURE"
  BY DEF TypeOK, SweepList, PollList, FetchNothing, Fetch, FetchSuno, PollEnd,
         Crash, Lists, Goto, Writing
<1>5. \/ ~Bills(p, t) /\ ~GivenBack(p, t)
      \/ t \in hit' /\ (GivenBack(p, t) => ~Sound(t)')
  BY DEF TypeOK, SweepList, PollList, FetchNothing, Fetch, FetchSuno, PollEnd,
         Crash, Bills, Billing, GivenBack, Sound, PollerInv
<1>6. FreshInv(p, t)'
  BY <1>1, <1>2, <1>3, <1>4 DEF FreshInv
<1>7. OneBillInv(p, t)'
  BY <1>1, <1>2, <1>5 DEF OneInv, OneBillInv, Quiet
<1>8. OneEndInv(p, t)'
  BY <1>1, <1>2, <1>5 DEF OneInv, OneEndInv, Quiet
<1>9. QED BY <1>6, <1>7, <1>8 DEF OneInv

\* The loop writes the row of a task u that is open, with the status s, and
\* goes on to bill u, or to the next task: what the invariant needs of it.
LEMMA OneWrites ==
  ASSUME TypeOK, NEW p \in Procs, NEW t \in Tasks, OneInv(p, t),
         NEW u \in Tasks,
         t # u => Quiet(t) /\ (t \in complete' <=> t \in complete),
         t = u => Open(t),
         t \in todo'[p] => t \in todo[p] /\ t # u,
         ~Bills(p, t), GivenBack(p, t) => t = u /\ ~Bills(p, t)',
         ~Writing(p, t)', Bills(p, t)' => t = u,
         UNCHANGED ledger, quota' = quota, hit \subseteq hit',
         \* u was given back, and now is not open any more; or it was not
         t = u /\ GivenBack(p, t) => ~Open(t)' \/ ~Sound(t)',
         \* its end is billed next
         t = u /\ Bills(p, t)' =>
           status'[t] = IF pc'[p] = "settle" THEN "SUCCESS" ELSE "FAILURE",
         \* or needs no billing
         /\ t = u /\ status'[t] = "FAILURE" /\ ~GivenBack(p, t)
         /\ ~Bills(p, t)'
         => t \in hit' \union NoUpstreamId \union LostChannel \/ IsLegacy(t)
  PROVE  OneInv(p, t)'
<1>1. ~GivenBack(p, t)' /\ (Sound(t)' => Sound(t))
  BY DEF Writing, GivenBack, Sound
<1>2. t # u => (Open(t)' <=> Open(t))
  BY DEF Quiet, Open
<1>3. FreshInv(p, t)'
  BY <1>2 DEF OneInv, FreshInv
<1>4. OneBillInv(p, t)'
  BY <1>1, <1>2 DEF OneInv, OneBillInv, ledger
<1>5. OneEndInv(p, t)'
  <2>1. CASE t = u /\ ~GivenBack(p, t)
    BY <1>1, <2>1 DEF OneInv, OneBillInv, OneEndInv, Sound, ledger
  <2>2. CASE t = u /\ GivenBack(p, t)
    BY <1>1, <2>2 DEF OneInv, OneEndInv, ledger
  <2>3. CASE t # u
    BY <1>1, <2>3 DEF OneInv, OneEndInv, Quiet
  <2>4. QED BY <2>1, <2>2, <2>3
<1>6. QED BY <1>3, <1>4, <1>5 DEF OneInv

\* A compare and swap of an open task, by the sweep or after an answer.
LEMMA OneSwaps ==
  ASSUME TypeOK, NEW p \in Procs, NEW t \in Tasks, PollerInv(p), OneInv(p, t),
         SweepTask(p) \/ UpdateVideoTask(p) \/ AdvanceVideoPipeline(p)
  PROVE  OneInv(p, t)'
<1>0. /\ todo[p] \subseteq Tasks /\ cur[p] \in Tasks
      /\ UNCHANGED ledger /\ hit \subseteq hit'
  BY DEF TypeOK, SweepTask, UpdateVideoTask, AdvanceVideoPipeline, Fails,
         FailsFor, Succeeds
<1>1. ASSUME NEW u \in Tasks, NEW from, NEW s, NEW c, NEW won,
             UpdateWithStatus(u, from, s, c, won) \/ UNCHANGED row
      PROVE  /\ quota' = quota
             /\ t # u => Quiet(t) /\ (t \in complete' <=> t \in complete)
             /\ status'[t] # status[t] => won /\ status'[t] = s
  BY <1>0, <1>1 DEF TypeOK, UpdateWithStatus, Writes, row, ledger, Quiet
<1>2. CASE SweepTask(p)
  <2>1. PICK u \in todo[p], won \in BOOLEAN :
          /\ todo' = [todo EXCEPT ![p] = @ \ {u}]
          /\ cur' = [cur EXCEPT ![p] = u]
          /\ \/ /\ UpdateWithStatus(u, view[p][u], "FAILURE", TRUE, won)
                /\ pc' = [pc EXCEPT ![p] = IF won /\ ~IsLegacy(u)
                                           THEN "sweepRefund" ELSE @]
             \/ u \in hit' /\ ~won /\ UNCHANGED <<row, pc>>
             \/ /\ u \in hit' /\ won
                /\ UpdateWithStatus(u, view[p][u], "FAILURE", TRUE, won)
                /\ UNCHANGED pc
    BY <1>2 DEF SweepTask, Fails, FailsFor
  <2>2. u \in Tasks /\ pc[p] = "sweep" /\ view[p][u] \notin Final
    BY <1>0, <1>2 DEF SweepTask, PollerInv
  <2>3. /\ quota' = quota
        /\ t # u => Quiet(t) /\ (t \in complete' <=> t \in complete)
    BY <1>1, <2>1, <2>2
  <2>4. t = u => Open(t)
    BY <2>1 DEF OneInv, FreshInv
  <2>5. t \in todo'[p] => t \in todo[p] /\ t # u
    BY <2>1 DEF TypeOK
  <2>6. ~Bills(p, t) /\ ~GivenBack(p, t) /\ ~Writing(p, t)'
    BY <2>1, <2>2 DEF TypeOK, Bills, Billing, GivenBack, Writing
  <2>7. Bills(p, t)' => /\ t = u /\ pc'[p] = "sweepRefund"
                        /\ status'[t] = "FAILURE"
    BY <2>1, <2>2 DEF TypeOK, Bills, Billing, UpdateWithStatus, Writes
  <2>8. t = u /\ status'[t] = "FAILURE" /\ ~Bills(p, t)'
          => t \in hit' \/ IsLegacy(t)
    BY <2>1, <2>2, <2>4 DEF TypeOK, Bills, Billing, UpdateWithStatus, Writes,
                            Open, Final, row
  <2>9. QED
    BY <1>0, <2>2, <2>3, <2>4, <2>5, <2>6, <2>7, <2>8, OneWrites
<1>3. CASE UpdateVideoTask(p) \/ AdvanceVideoPipeline(p)
  <2> DEFINE u == cur[p]
  <2>1. PICK s, c, won :
          /\ \/ UpdateWithStatus(u, view[p][u], s, c, won)
             \/ UNCHANGED row
          /\ \/ pc'[p] = "poll" /\ (s # "FAILURE" \/ ~won \/ u \in hit')
             \/ pc'[p] = "poll" /\ UNCHANGED row
             \/ /\ pc'[p] = IF s = "SUCCESS" THEN "settle" ELSE "refund"
                /\ s \in Final
                /\ UpdateWithStatus(u, view[p][u], s, c, TRUE)
    <3>1. CASE UpdateVideoTask(p)
      BY <1>0, <3>1 DEF TypeOK, UpdateVideoTask, Goto, BillingOf, Fails,
                        FailsFor, Succeeds, Final, UpdateWithStatus
    <3>2. CASE AdvanceVideoPipeline(p)
      BY <1>0, <3>2 DEF TypeOK, AdvanceVideoPipeline, Goto, Fails, FailsFor
    <3>3. QED BY <1>3, <3>1, <3>2
  <2>2. /\ pc[p] = "save" /\ cur'[p] = u /\ todo'[p] = todo[p]
        /\ view[p][u] \notin Final
    BY <1>0, <1>3 DEF TypeOK, UpdateVideoTask, AdvanceVideoPipeline, Goto,
                      PollerInv
  <2> HIDE DEF u
  <2>3. /\ quota' = quota /\ u \in Tasks
        /\ t # u => Quiet(t) /\ (t \in complete' <=> t \in complete)
    BY <1>0, <1>1, <2>1 DEF u
  <2>4. t = u => Open(t) /\ t \notin todo[p]
    BY <2>2 DEF OneInv, FreshInv, Writing, u
  <2>5. ~Bills(p, t) /\ ~GivenBack(p, t) /\ ~Writing(p, t)'
    BY <2>1, <2>2 DEF Bills, Billing, GivenBack, Writing
  <2>6. Bills(p, t)' => t = u
    BY <2>2 DEF Bills
  <2>7. t = u /\ Bills(p, t)' =>
          status'[t] = IF pc'[p] = "settle" THEN "SUCCESS" ELSE "FAILURE"
    BY <2>1, <2>3 DEF TypeOK, Bills, Billing, UpdateWithStatus, Writes, Final
  <2>8. t = u /\ status'[t] = "FAILURE" /\ ~Bills(p, t)' => t \in hit'
    BY <2>1, <2>2, <2>3, <2>4
       DEF TypeOK, Bills, Billing, UpdateWithStatus, Writes, Open, Final, row
  <2>9. QED
    BY <1>0, <2>2, <2>3, <2>4, <2>5, <2>6, <2>7, <2>8, OneWrites
<1>4. QED BY <1>2, <1>3

\* The update of a Suno task and the failures in bulk: without a swap, but of
\* rows that nobody else has written since they were listed.
LEMMA OneOverwrites ==
  ASSUME TypeOK, NEW p \in Procs, NEW t \in Tasks, PollerInv(p), OneInv(p, t),
         UpdateSunoTask(p) \/ FailNullTasks(p) \/ FailLostChannel(p)
  PROVE  OneInv(p, t)'
<1>0. /\ todo[p] \subseteq Tasks /\ cur[p] \in Tasks
      /\ UNCHANGED ledger /\ quota' = quota /\ hit \subseteq hit'
  BY DEF TypeOK, UpdateSunoTask, FailNullTasks, FailLostChannel, BulkFails,
         Fails, FailsFor, Succeeds, Writes, row
<1>1. CASE UpdateSunoTask(p)
  <2> DEFINE u == cur[p]
  <2>1. /\ pc[p] \in {"sunoSave", "sunoUpdate"} /\ u \in Suno
        /\ pc'[p] = "poll" /\ cur'[p] = u /\ todo'[p] = todo[p]
    BY <1>0, <1>1 DEF TypeOK, UpdateSunoTask, PollerInv, Goto
  <2>2. \/ Writes(u, answer[p], pc[p] = "sunoSave" \/ answer[p] = "SUCCESS")
        \/ /\ "update" \in FaultKinds /\ u \in hit'
           /\ UNCHANGED row
    BY <1>1 DEF UpdateSunoTask, Fails, FailsFor
  <2>3. /\ Writing(p, u)
        /\ t = u => /\ Open(t) /\ t \notin todo[p]
                    /\ pc[p] = "sunoUpdate" => answer[p] # "FAILURE"
    BY <2>1 DEF OneInv, FreshInv, Writing
  <2> HIDE DEF u
  <2>4. t # u => Quiet(t) /\ (t \in complete' <=> t \in complete)
    BY <1>0, <2>2 DEF TypeOK, Writes, row, ledger, Quiet
  <2>5. ~Bills(p, t) /\ ~Bills(p, t)' /\ ~Writing(p, t)'
    BY <2>1 DEF Bills, Billing, Writing
  <2>6. GivenBack(p, t) => t = u /\ (~Open(t)' \/ ~Sound(t)')
    BY <1>0, <2>1, <2>2 DEF TypeOK, GivenBack, Writes, Open, Sound, u
  <2>7. t = u /\ status'[t] = "FAILURE" /\ ~GivenBack(p, t) => FALSE
    BY <1>0, <2>1, <2>2, <2>3
       DEF TypeOK, GivenBack, Writes, row, Open, Final, u
  <2>8. QED
    BY <1>0, <2>1, <2>3, <2>4, <2>5, <2>6, <2>7, OneWrites DEF u
<1>2. ASSUME NEW ts, ts \subseteq todo[p],
             ts \subseteq NoUpstreamId \union LostChannel, BulkFails(p, ts)
      PROVE  OneInv(p, t)'
  <2>1. PICK u \in ts : t \in ts => u = t
    BY <1>2 DEF BulkFails
  <2>2. /\ pc[p] = "poll" /\ pc'[p] = "poll" /\ cur'[p] = cur[p]
        /\ todo'[p] = todo[p] \ ts
    BY <1>2 DEF TypeOK, BulkFails
  <2>3. t # u => Quiet(t) /\ (t \in complete' <=> t \in complete)
    BY <1>0, <1>2, <2>1 DEF TypeOK, BulkFails, ledger, Quiet
  <2>4. t = u => Open(t)
    BY <1>2 DEF OneInv, FreshInv
  <2>5. ~Bills(p, t) /\ ~Bills(p, t)' /\ ~Writing(p, t)' /\ ~GivenBack(p, t)
    BY <2>2 DEF Bills, Billing, Writing, GivenBack
  <2>6. QED
    BY <1>0, <1>2, <2>1, <2>2, <2>3, <2>4, <2>5, OneWrites
<1>3. CASE FailNullTasks(p) \/ FailLostChannel(p)
  BY <1>2, <1>3 DEF FailNullTasks, FailLostChannel
<1>4. QED BY <1>1, <1>3

\* The one loop bills the task it has ended, or gives a Suno task back.
LEMMA OneBills ==
  ASSUME TypeOK, NEW p \in Procs, NEW t \in Tasks, PollerInv(p), OneInv(p, t),
         RefundTaskQuota(p) \/ SettleTaskBilling(p)
  PROVE  OneInv(p, t)'
<1> DEFINE u == cur[p]
<1>0. /\ u \in Tasks /\ quota[u] \in Nat /\ due[u] \in Nat
      /\ paid[u] \in Int /\ tokenPaid[u] \in Int
  BY DEF TypeOK
<1>1. /\ UNCHANGED row /\ todo'[p] = todo[p]
      /\ cur'[p] = u /\ hit \subseteq hit'
      /\ pc[p] \in Billing \union {"sunoRefund"}
      /\ pc'[p] = IF pc[p] = "sweepRefund" THEN "sweep"
                  ELSE IF pc[p] = "sunoRefund" THEN "sunoSave" ELSE "poll"
  BY DEF TypeOK, RefundTaskQuota, SettleTaskBilling, Goto, AfterBilling,
         Adjusts, Fails, FailsFor, Succeeds, Billing
<1>2. PICK d \in Int :
        /\ Adjusts(u, d) \/ (d = 0 /\ UNCHANGED <<paid, tokenPaid, hit>>)
        /\ \A v \in Tasks \ {u} : due'[v] = due[v]
        /\ d + quota[u] >= 0
        /\ due'[u] = d + quota[u] \/ (d = 0 /\ due'[u] = due[u])
        /\ pc[p] # "settle" => d = -quota[u]
  <2>1. CASE RefundTaskQuota(p)
    <3>1. /\ Adjusts(u, -quota[u]) /\ pc[p] # "settle"
          /\ due' = [due EXCEPT ![u] = 0]
      BY <2>1 DEF RefundTaskQuota, AfterBilling
    <3>2. due'[u] = 0 /\ \A v \in Tasks \ {u} : due'[v] = due[v]
      BY <1>0, <3>1 DEF TypeOK
    <3>3. -quota[u] \in Int /\ -quota[u] + quota[u] = 0
      BY <1>0
    <3> -quota[u] \in Int
      BY <3>3
    <3> WITNESS -quota[u] \in Int
    <3>4. QED BY <3>1, <3>2, <3>3
  <2>2. CASE SettleTaskBilling(p)
    <3>1. CASE UNCHANGED <<paid, tokenPaid, due>> /\ Succeeds
      BY <1>0, <2>2, <3>1 DEF SettleTaskBilling, Succeeds
    <3>2. ASSUME NEW q \in Quotas, Adjusts(u, q - quota[u]),
                 due' = [due EXCEPT ![u] = q]
          PROVE  \E d \in Int :
                   /\ Adjusts(u, d)
                   /\ \A v \in Tasks \ {u} : due'[v] = due[v]
                   /\ d + quota[u] >= 0
                   /\ due'[u] = d + quota[u]
      <4>1. q \in Nat /\ (q - quota[u]) + quota[u] = q
        BY <1>0, TasksAssumption
      <4>2. due'[u] = q /\ \A v \in Tasks \ {u} : due'[v] = due[v]
        BY <1>0, <3>2 DEF TypeOK
      <4> q - quota[u] \in Int
        BY <1>0, <4>1
      <4> WITNESS q - quota[u] \in Int
      <4>3. QED BY <3>2, <4>1, <4>2
    <3>3. pc[p] = "settle"
      BY <2>2 DEF SettleTaskBilling
    <3>4. QED BY <2>2, <3>1, <3>2, <3>3 DEF SettleTaskBilling
  <2>3. QED BY <2>1, <2>2
<1> HIDE DEF u
<1>3. /\ \A v \in Tasks \ {u} :
           paid'[v] = paid[v] /\ tokenPaid'[v] = tokenPaid[v]
      /\ paid'[u] \in {paid[u], paid[u] + d}
      /\ tokenPaid'[u] \in {tokenPaid[u], tokenPaid[u] + d}
      /\ u \notin hit' =>
           paid'[u] = paid[u] + d /\ tokenPaid'[u] = tokenPaid[u] + d
  BY <1>0, <1>2, AdjustsIs
<1>4. CASE t # u
  <2>1. Quiet(t) /\ complete' = complete
    BY <1>1, <1>2, <1>3, <1>4 DEF Quiet, row
  <2>2. /\ Open(t)' <=> Open(t)
        /\ Sound(t)' => Sound(t)
        /\ ~Writing(p, t) /\ ~GivenBack(p, t) /\ ~Bills(p, t)
        /\ ~Writing(p, t)' /\ ~GivenBack(p, t)' /\ ~Bills(p, t)'
    BY <1>1, <1>4, <2>1
       DEF Open, Sound, Writing, GivenBack, Bills, Quiet, u
  <2>3. QED
    BY <1>1, <2>1, <2>2
       DEF OneInv, FreshInv, OneBillInv, OneEndInv, Quiet
<1>5. CASE t = u
  <2>1. /\ Open(t)' <=> Open(t)
        /\ Sound(t)' => Sound(t)
        /\ ~Bills(p, t)' /\ ~GivenBack(p, t)
        /\ Bills(p, t) <=> pc[p] # "sunoRefund"
        /\ Writing(p, t) <=> pc[p] = "sunoRefund"
        /\ Writing(p, t)' <=> pc[p] = "sunoRefund"
        /\ GivenBack(p, t)' <=> pc[p] = "sunoRefund"
    BY <1>1, <1>5 DEF Open, Sound, Writing, GivenBack, Bills, Billing, row, u
  <2>2. Sound(t) => paid[t] = quota[t] /\ tokenPaid[t] = quota[t]
                      /\ due[t] = quota[t]
    BY <2>1 DEF OneInv, OneBillInv, FreshInv
  <2>3. FreshInv(p, t)'
    BY <1>1, <2>1 DEF OneInv, FreshInv, row
  <2>4. Sound(t)' => paid'[t] >= 0 /\ tokenPaid'[t] >= 0
    BY <1>0, <1>2, <1>3, <1>5, <2>1, <2>2
  <2>5. Open(t)' => GivenBack(p, t)'
    BY <2>1 DEF OneInv, FreshInv, Open, Final
  <2>6. OneBillInv(p, t)'
    BY <2>1, <2>4, <2>5 DEF OneBillInv
  <2>7. t \notin hit' => /\ paid'[t] = due'[t] /\ tokenPaid'[t] = due'[t]
                         /\ pc[p] # "settle" => due'[t] = 0
    BY <1>0, <1>1, <1>2, <1>3, <1>5, <2>2 DEF Sound
  <2>8. status'[t] = "FAILURE" => pc[p] # "settle"
    BY <1>1, <2>1 DEF OneInv, FreshInv, row
  <2>9. GivenBack(p, t)' => pc[p] # "settle"
    BY <2>1
  <2>10. QED
    BY <2>3, <2>6, <2>7, <2>8, <2>9 DEF OneInv, OneEndInv
<1>6. QED BY <1>4, <1>5

\* Submissions, the upstream and time.
LEMMA OneEnvironment ==
  ASSUME TypeOK, NEW p \in Procs, NEW t \in Tasks, OneInv(p, t),
         NEW u \in Tasks, RelayTask(u) \/ UpstreamEnds(u) \/ Expire(u)
  PROVE  OneInv(p, t)'
<1>1. Still(p) /\ complete' = complete
  BY DEF RelayTask, UpstreamEnds, Expire, row, local, Still
<1>2. CASE UpstreamEnds(u) \/ Expire(u) \/ t # u
  <2>1. Quiet(t)
    BY <1>2 DEF TypeOK, RelayTask, UpstreamEnds, Expire, row, ledger, Quiet,
                Fails, FailsFor, Succeeds
  <2>2. QED BY <1>1, <2>1, OneFrame
<1>3. CASE RelayTask(t)
  <2>1. /\ status[t] = "none" /\ status'[t] \in {"NOT_START", "lost"}
        /\ hit \subseteq hit'
        /\ due'[t] = quota'[t] /\ quota'[t] \in Nat
        /\ paid'[t] \in Nat /\ tokenPaid'[t] = paid'[t]
        /\ paid'[t] = quota'[t] \/ (t \in hit' /\ "settle" \in FaultKinds)
    BY <1>3, TasksAssumption
       DEF TypeOK, RelayTask, Fails, FailsFor, Succeeds
  <2>2. /\ t \notin todo[p] /\ ~Writing(p, t) /\ ~Bills(p, t)
        /\ Sound(t)' => paid'[t] = quota'[t]
    BY <1>1, <2>1 DEF OneInv, FreshInv, Open, Final, Sound, Bills, Billing
  <2>3. /\ t \notin todo'[p] /\ ~Writing(p, t)' /\ ~Bills(p, t)'
        /\ ~GivenBack(p, t)' /\ status'[t] \notin Final
    BY <1>1, <2>1, <2>2 DEF Still, Writing, Bills, GivenBack, Final
  <2>4. QED
    BY <2>1, <2>2, <2>3 DEF OneInv, FreshInv, OneBillInv, OneEndInv
<1>4. QED BY <1>2, <1>3

\* A client that fetches another task.
LEMMA OneClients ==
  ASSUME IInv, NEW p \in Pollers, NEW t \in Tasks, Unfetched(t), OneInv(p, t),
         NEW c \in Clients, ClientRead(c) \/ ClientFetch(c) \/ ClientSave(c)
  PROVE  OneInv(p, t)'
<1>1. /\ p \in Procs /\ c \in Procs /\ p # c /\ cur[c] \in Tasks
      /\ ClientInv(c)
  BY TasksAssumption DEF Procs, IInv, TypeOK
<1>2. Still(p)
  BY <1>1 DEF IInv, TypeOK, ClientRead, ClientFetch, ClientSave, Goto, Still
<1>3. Quiet(t) /\ (t \in complete' <=> t \in complete)
  <2>1. CASE UNCHANGED row /\ UNCHANGED <<ledger, hit>>
    BY <2>1 DEF row, ledger, Quiet
  <2>2. CASE ClientSave(c)
    <3>1. cur[c] # t
      BY <1>1, <2>2 DEF ClientSave, ClientInv, Unfetched
    <3>2. QED
      BY <1>1, <2>2, <3>1 DEF ClientSave, UpdateWithStatus, Writes, row,
                              ledger, Quiet, IInv, TypeOK
  <2>3. QED BY <2>1, <2>2 DEF ClientRead, ClientFetch
<1>4. QED BY <1>2, <1>3, OneFrame

\* Every step of a system with one polling loop.
LEMMA OneNext ==
  ASSUME NEW p, Pollers = {p}, IInv, [Next]_vars, NEW t \in Tasks,
         Unfetched(t), OneInv(p, t)
  PROVE  OneInv(p, t)'
<1>0. p \in Pollers /\ p \in Procs /\ TypeOK /\ PollerInv(p)
  BY DEF Procs, IInv
<1>1. ASSUME NEW u \in Tasks, RelayTask(u) \/ UpstreamEnds(u) \/ Expire(u)
      PROVE  OneInv(p, t)'
  BY <1>0, <1>1, OneEnvironment
<1>2. CASE SweepStep(p) \/ PollStep(p) \/ Crash(p)
  BY <1>0, <1>2, OneReads, OneSwaps, OneOverwrites, OneBills
     DEF SweepStep, PollStep
<1>3. ASSUME NEW c \in Clients,
             ClientRead(c) \/ ClientFetch(c) \/ ClientSave(c)
      PROVE  OneInv(p, t)'
  BY <1>0, <1>3, OneClients
<1>4. CASE UNCHANGED vars
  <2>1. Quiet(t) /\ Still(p) /\ complete' = complete
    BY <1>4 DEF vars, row, local, ledger, Quiet, Still
  <2>2. QED BY <2>1, OneFrame
<1>5. QED BY <1>1, <1>2, <1>3, <1>4 DEF Next

\* With one polling loop the invariant of every task that no client fetches
\* holds, whatever the platform, the channel and the upstream id.
LEMMA OneInductive ==
  ASSUME NEW p, Pollers = {p}
  PROVE  Spec => [](\A t \in Tasks : Unfetched(t) => OneInv(p, t))
<1> DEFINE Inv == \A t \in Tasks : Unfetched(t) => OneInv(p, t)
<1>1. Init => Inv
  <2> SUFFICES ASSUME Init, NEW t \in Tasks PROVE OneInv(p, t)
    OBVIOUS
  <2>1. /\ p \in Procs /\ pc[p] = "sleep" /\ todo[p] = {} /\ hit = {}
        /\ status[t] = "none" /\ paid[t] = 0 /\ tokenPaid[t] = 0
    BY DEF Init, Procs
  <2>2. QED
    BY <2>1 DEF OneInv, FreshInv, OneBillInv, OneEndInv, Open, Writing,
                GivenBack, Bills, Billing, Final
<1>2. IInv /\ Inv /\ [Next]_vars => Inv'
  BY OneNext DEF Unfetched
<1>3. QED
  BY <1>1, <1>2, TasksInductive, PTL DEF Spec

\* A loop writes the rows it has listed before their end.
LEMMA OneStepUndoesNoEnd ==
  ASSUME NEW p, Pollers = {p}, IInv, [Next]_vars, NEW t \in Tasks,
         Unfetched(t), OneInv(p, t), status[t] \in Final
  PROVE  status'[t] = status[t]
<1>0. /\ p \in Procs /\ TypeOK /\ PollerInv(p)
      /\ t \notin todo[p] /\ ~Writing(p, t)
  BY DEF Procs, IInv, OneInv, FreshInv, Open
<1>1. ASSUME NEW u \in Tasks, RelayTask(u) \/ UpstreamEnds(u) \/ Expire(u)
      PROVE  status'[t] = status[t]
  BY <1>0, <1>1 DEF RelayTask, UpstreamEnds, Expire, row, Final, TypeOK
<1>2. CASE SweepStep(p) \/ PollStep(p) \/ Crash(p)
  <2>1. CASE UNCHANGED row
    BY <2>1 DEF row
  <2>2. CASE SweepTask(p)
    BY <1>0, <2>2 DEF SweepTask, UpdateWithStatus, Writes, row, TypeOK
  <2>3. CASE UpdateVideoTask(p) \/ AdvanceVideoPipeline(p)
    BY <1>0, <2>3 DEF UpdateVideoTask, AdvanceVideoPipeline, Writing,
                      UpdateWithStatus, Writes, row, TypeOK
  <2>4. CASE UpdateSunoTask(p)
    BY <1>0, <2>4 DEF UpdateSunoTask, Writing, Writes, row, TypeOK
  <2>5. CASE FailNullTasks(p) \/ FailLostChannel(p)
    BY <1>0, <2>5 DEF FailNullTasks, FailLostChannel, BulkFails
  <2>6. QED
    BY <1>2, <2>1, <2>2, <2>3, <2>4, <2>5
       DEF SweepStep, PollStep, SweepList, PollList, FetchNothing, Fetch,
           FetchSuno, PollEnd, RefundTaskQuota, SettleTaskBilling, Crash
<1>3. ASSUME NEW c \in Clients,
             ClientRead(c) \/ ClientFetch(c) \/ ClientSave(c)
      PROVE  status'[t] = status[t]
  <2>1. CASE ClientSave(c)
    <3>1. cur[c] # t
      BY <2>1 DEF IInv, ClientSave, ClientInv, Unfetched
    <3>2. QED
      BY <1>0, <2>1, <3>1
         DEF ClientSave, UpdateWithStatus, Writes, row, TypeOK
  <2>2. QED BY <1>3, <2>1 DEF ClientRead, ClientFetch, row
<1>4. CASE UNCHANGED vars
  BY <1>4 DEF vars, row
<1>5. QED BY <1>1, <1>2, <1>3, <1>4 DEF Next

\* With one master node the end of every task stands, Suno tasks and tasks
\* failed in bulk included (UpdateSunoTasks and TaskBulkUpdateByID write
\* unconditionally), as long as a task that clients fetch is steady.
THEOREM OneNodeEndsForGood ==
  ASSUME NEW p, Pollers = {p}, \A t \in Tasks : Unfetched(t) \/ t \in Steady
  PROVE  Spec => EndIsFinal
<1> DEFINE Inv == \A t \in Tasks : Unfetched(t) => OneInv(p, t)
<1>1. IInv /\ IInv' /\ Inv /\ [Next]_vars =>
        [\A t \in Tasks : status[t] \in Final => status'[t] = status[t]]_vars
  <2> SUFFICES ASSUME IInv, IInv', Inv, [Next]_vars, NEW t \in Tasks,
                      status[t] \in Final
               PROVE  status'[t] = status[t]
    OBVIOUS
  <2>1. CASE Unfetched(t)
    BY <2>1, OneStepUndoesNoEnd
  <2>2. CASE t \in Steady
    BY <2>2, SteadyStays, SteadyStaysNext, NoStepUndoesEnd
  <2>3. QED BY <2>1, <2>2
<1>2. QED
  BY <1>1, TasksInductive, OneInductive, PTL DEF Spec, EndIsFinal

\* With one master node no task gets back more than it has paid, Suno tasks
\* included, which are refunded before their row is written: between the two
\* the loop must not die and the update must not fail.
THEOREM OneNodeRefundsOnce ==
  ASSUME NEW p, Pollers = {p}, \A t \in Tasks : Unfetched(t) \/ t \in Steady,
         "settle" \notin FaultKinds,
         Suno = {} \/ ("update" \notin FaultKinds /\ MaxCrashes = 0)
  PROVE  Spec => []RefundedAtMostOnce
<1> DEFINE Inv == \A t \in Tasks : Unfetched(t) => OneInv(p, t)
<1>1. IInv /\ Inv => RefundedAtMostOnce
  BY SteadyStays
     DEF IInv, BillInv, Exact, OneInv, OneBillInv, Sound, RefundedAtMostOnce
<1>2. QED
  BY <1>1, TasksInductive, OneInductive, PTL

\* With one master node and no clients every task that has ended, Suno tasks
\* included, has paid what was settled, and nothing if it has failed.  Only
\* the tasks failed in bulk keep what they have paid.
THEOREM OneNodeBills ==
  ASSUME NEW p, Pollers = {p}, \A t \in Tasks : Unfetched(t),
         NoUpstreamId \union LostChannel = {}
  PROVE  Spec => []EndedIsBilled
<1> DEFINE Inv == \A t \in Tasks : Unfetched(t) => OneInv(p, t)
<1>1. Inv => EndedIsBilled
  <2> SUFFICES ASSUME Inv, NEW t \in Tasks \ hit, status[t] \in Final,
                      ~InBilling(t)
               PROVE  /\ paid[t] = due[t] /\ tokenPaid[t] = due[t]
                      /\ status[t] = "FAILURE" /\ ~IsLegacy(t) => due[t] = 0
    BY DEF EndedIsBilled
  <2>1. OneEndInv(p, t)
    BY DEF OneInv
  <2>2. ~Bills(p, t)
    BY DEF InBilling, Bills, Billing
  <2>3. QED BY <2>1, <2>2 DEF OneEndInv
<1>2. QED
  BY <1>1, OneInductive, PTL
=============================================================================
