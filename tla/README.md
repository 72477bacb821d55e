# Verification of Fy-api

Fy-api (TraceNex) is a gateway in front of many model providers, written in Go.
A client's request is authenticated by an API token, paid from the user's wallet
or subscription, relayed to a channel (an upstream account), and settled to its
real consumption. Users pay for quota through five payment gateways. A web
console (two generations, React) and a desktop application (Electron) come with
it. This directory holds TLA+ models of the parts that move money and of the
parts of the two clients that run concurrent activities, the TLC runs that check
them, and TLAPS proofs.

## Inventory

| Component | State | Operations | Hard behaviour |
|---|---|---|---|
| Billing session (`service/billing_session.go`, `funding_source.go`) | session fields under `s.mu`; wallet, token, subscription rows | NewBillingSession, Reserve, Settle, Refund and its goroutine | check-then-act on balances, failures between two transfers, retries, calls after the end |
| Charges past the session (`service/quota.go`, `violation_fee.go`) | the same rows | PostConsumeQuota for realtime turns and violation fees | run beside the session's own settlement |
| Subscriptions (`model/subscription.go`) | plans, orders, user subscriptions, pre-consume records | buy, pre-consume, delta, refund, reset, expire | nested transactions, unlocked read and save, idempotence by request id, periodic resets |
| Top-ups and payment webhooks (`model/topup.go`, `controller/topup*.go`, `subscription_payment_*.go`) | orders, `orderLocks` | create, confirm, fail, expire, complete by hand | repeated and concurrent confirmations, several nodes, crashes, lost answers |
| Task polling (`service/task_polling.go`, `task_billing.go`, `model/task.go`) | task rows | submit, sweep, poll, bulk failure, refund, difference settlement | several nodes with stale lists, crashes, compare-and-swap |
| Task fetch by clients (`relay/relay_task.go`) | task rows | realtime fetch of Gemini/Vertex tasks | writes the rows the pollers own |
| Video pipeline (`service/seedance_*`) | `private_data` of a task | asset preparation, enhancement | upstream submission before the conditional update |
| Desktop shell (`electron/main.js`) | child process, windows, tray, dialogs, timers | start, poll, show, hide, quit | callbacks of six sources in any order |
| Web playground (`web/default/src/features/playground`) | message list, stream reference, local storage | send, stop, regenerate, edit, delete, reload | answers without address arrive in any order |
| Channel test dialog (`web/default/.../channel-test-dialog.tsx`) | results, running tests, batch state, stop flag | test, test in batches, stop, close, reopen | batches outlive the dialog |
| Midjourney (`controller/midjourney.go`) | Midjourney rows | poll, refund | its own copy of task polling |
| Quota store (`model/user.go`, `token.go`, `utils.go`, caches) | rows, batch map, Redis hashes | increase, decrease, flush, cache fill and invalidation | lost batches, stale caches |
| Redemption codes, check-in (`model/redemption.go`, `checkin.go`) | codes, days | redeem, check in | unlocked read and save |
| Channel selection (`model/ability.go`, `channel_cache.go`, `service/channel_select.go`) | abilities, channel cache, multi-key state | select, retry, disable | retries across groups, disable under load |
| Rate limits, idempotency keys, log outbox | Redis lists, key rows, outbox rows | admit, claim, deliver | expiry races, at-least-once delivery |
| Pricing (`service/text_quota.go`, `tiered_settle.go`, `pkg/billingexpr`) | none | pure arithmetic | rounding, tier boundaries |

What makes them correct: money is neither made nor lost (a settled request pays
its consumption, a failed one nothing, nobody is refunded twice, an order is
granted once), an end is final, what was begun ends, and a client shows what is
going on. `PROJECT.json` lists every component, including those left out, and
the hazards, each at its line.

## Modules

**BillingSession** models several concurrent requests of one user. `wallet`,
`token`, `subUsed` are database columns; the fields of `BillingSession` keep
their names; `pc` is where the handler is and `job` where the goroutine of
`Refund` is. Each database operation is one step and may fail (`FaultKinds`).
`s.mu` is held while `pc` is inside a call, so calls of one session do not
interleave but the goroutine does. The client of a live session is the most
general one of the interface `BillingSettler`: any order of Reserve, Settle,
Refund, realtime turns and the violation fee, except that no handler settles
after it has refunded. `charged`, `tokenCharged` and `direct` are ghosts that
record what was really taken.

The transactions on a subscription read its row and save it. They ask for a row
lock with `tx.Set("gorm:query_option", "FOR UPDATE")`, an option of GORM v1 that
the v2 in `go.mod` ignores. `Serialised` says whether the database makes up for
that or not. If not, a transaction may have read any value `amount_used` has had
since the request's previous step: `callSeen` and `jobSeen` collect those values
and `Observe`, a conjunct of every step, keeps them up to date. `NestedCommits`
says whether a transaction commits while the one it was called from is open, as
the refund of a subscription requires. MySQL and PostgreSQL at their default
isolation are `Serialised = FALSE`, `NestedCommits = TRUE`; SQLite, which has one
writer, is `TRUE` and `FALSE`; a server set to serialise its transactions is
`TRUE` and `TRUE`.

| Action | Code |
|---|---|
| Start, ChooseFunding, TryWallet, CheckOverflow | PreConsumeBilling, NewBillingSession |
| PreConsumeTokenRead/Write, PreConsumeFunds, RollbackToken | preConsume, PreConsumeTokenQuota, PreConsumeUserSubscription |
| Settle, SettleFunds, SettleToken | Settle |
| Reserve, ReserveFunds, ReserveTokenRead/Write, RollbackReserve | Reserve and its helpers |
| Refund; RefundWallet, RefundSubscription, MarkRefunded, RefundExtra, RefundToken | Refund; its goroutine with refundWithRetry and RefundSubscriptionPreConsume |
| RealtimeTurn, ChargeViolationFee, DirectFunds, DirectToken | PreWssConsumeQuota, ChargeViolationFeeIfNeeded, PostConsumeQuota |
| ExpireSubscription | ExpireDueSubscriptions, administrative end |

Abstractions: one user with at most one subscription; its periodic reset and
the batch updater are left out (updates are immediate); quotas are small
naturals, the price formulas that produce them are not modelled; logs and
notifications are left out. Integers have no width: quotas stay far below
2^63 in the sums checked here.

**TaskLifecycle** models the polling loops of several master nodes over the
rows of the task table, and clients that fetch tasks. `status`, `complete`
(progress is "100%") and `quota` are the row; `todo` and `view` are the list a
loop has read, possibly stale by the time it is used; `answer` is what the
upstream said. The ghosts `paid`, `tokenPaid`, `due` follow the money, `undone`
counts the ends that clients have read and written over, `hit` collects tasks one
of whose operations failed or was cut off by a crash. `LostChannel` are the tasks
whose channel `CacheGetChannel` may fail to find, at any poll: it is deleted, not
in the cache yet or cannot be read, and the tasks listed for it are failed in bulk
whatever has become of them since. `Waits` says where a loop depends on an
upstream that may never answer.

| Action | Code |
|---|---|
| RelayTask | RelayTask: settle, then insert |
| SweepList, SweepTask | sweepTimedOutTasks |
| PollList, FailNullTasks, FailLostChannel, PollEnd | TaskPollingLoop, bulk failures |
| Fetch, FetchNothing, UpdateVideoTask, AdvanceVideoPipeline | updateVideoSingleTask, asset preparation, AdvanceVideoPipelineIfNeeded |
| FetchSuno, UpdateSunoTask | updateSunoTasks |
| RefundTaskQuota, SettleTaskBilling | RefundTaskQuota, settleTaskBillingOnComplete |
| ClientRead, ClientFetch, ClientSave | tryRealtimeFetch |
| Crash | a node dies and starts again |
| UpstreamEnds, Expire | environment: the upstream, time |

Abstractions: SUBMITTED and QUEUED count as NOT_START; `private_data` is left
out, so whether an enhancement is configured and has begun is nondeterministic;
the lists are not cut at their limits; platforms and channels of one list are
visited in any order. The cleanup of Seedance assets after the end rewrites the
row with the status it already has and is not a step. Billing of a task takes
one step for funds and token together, each of which may fail.

**TopUp** models orders, top-ups and subscription orders alike, of the five
gateways, the webhooks that complete or close them and the administrator who
completes them by hand. Requests are handled concurrently on one or more nodes;
a row is read in one step and written in another, because the transactions ask
for the same lock that is never taken; what keeps handlers apart is
`LockOrder`/`UnlockOrder`, a reference-counted mutex per order and process, which
is modelled operation by operation. Reads and writes fail, nodes crash, and a
gateway repeats itself until it gets a good answer. Waffo reports statuses that
are not a success at any time, before the payment's end too. `purchased` counts
the user's subscriptions to the plan, which other purchases and administrators
change, against the plan's `MaxPurchasePerUser`. `glossed` remembers orders whose
gateway was answered well although the row could not be read.

**Ledger** is the abstract specification: an order is worth a fixed amount,
somebody entitled approves it, and then it is granted, once, for what it is
worth. `TopUp!LedgerSpec` instantiates it with `worth` read off the row and
`approved` off the gateway and the administrator.

| Action | Code |
|---|---|
| CreateOrder, CheckoutFails | RequestEpay, RequestStripePay, RequestCreemPay, RequestWaffoPay, RequestWaffoPancakePay, SubscriptionRequest*Pay |
| PurchasesChange | AdminBindSubscription, AdminDeleteUserSubscription, PurchaseSubscriptionWithBalance, other orders for the plan |
| PaymentEnds, Deliver, DeliverForeign | the gateways (external) |
| AdminComplete | AdminCompleteTopUp |
| EnterLockOrder, Acquire, Unlock, Uncount | LockOrder, UnlockOrder |
| CreemCheck, ReadRow, CommitGrant | handleCheckoutCompleted, Recharge*, CompleteSubscriptionOrder, ManualCompleteTopUp |
| EpayMark, EpayCredit | EpayNotify: two writes, no transaction |
| CloseOrder | UpdatePendingTopUpStatus, ExpireSubscriptionOrder, sessionAsyncPaymentFailed |
| ReadFails, WriteFails, Answer, Crash | failing reads and writes, the handler's answer, the end of a process |

Abstractions: all orders have the same Amount and Money; signatures, amounts
computed from prices and the payment method are external; a browser's return
from Epay (SubscriptionEpayReturn) does what the notification does and is not a
step of its own; subscription orders are one user's for one plan, and plans are
never deleted (no code does).

**DesktopShell** models `electron/main.js` callback by callback: the child
process and its close event, the polling of the port with its retries, windows,
tray, dialogs, `before-quit` with its timer. It starts in development or
production mode, with or without another program on the port.

**Playground** models the chat page: the list of messages (which is saved with
every change), requests numbered in the order they are sent, streaming or not,
and what the user may do meanwhile. The content of a message is the set of
requests it came from. `disturbed` remembers that the list was changed under a
live request or continued after an unanswered message. `Reload` is the browser's,
which cuts off what was under way; `Leave` goes to another page of the console and
back: no hook cleans up, so open streams go on in `left`, where nobody shows or
stops them. What a callback of the page that was left may still save is not
modelled. Deleting is allowed on every message but one that still loads; the page
also withholds it from one stopped that early.

**ChannelTest** models the test dialog: single tests, batches that run in groups
with a pause, the stop flag, closing (which only hides) and reopening, and the
sharing of equal concurrent GET requests by `lib/api.ts`. Those who share a request
take its answer in any order. `overlapped` remembers that a batch was started
while an abandoned one was still alive.

Each of these six has its theorems in a module of its own: **BillingSessionProofs**,
**TaskLifecycleProofs**, **TopUpProofs** (also the refinement of Ledger),
**DesktopShellProofs**, **PlaygroundProofs** and **ChannelTestProofs**.
**MCBillingSession**, **MCTaskLifecycle** and **MCTopUp** give the constants of
the finite instances; the three client modules are checked as they are.

The modules meet in the code as follows. A relay handler drives a
BillingSession; for a task the session settles at submission and TaskLifecycle
takes over with the amount in the row. TopUp and the session change the same
column `users.quota`, by relative updates that commute, so they are not
composed. Ledger and TopUp are composed by refinement. The clients reach the
server only through REST calls, whose outcome their models leave open.

## Runs

| Run | Result | States | Shows |
|---|---|---|---|
| billing_faults | pass | 2.6 million | two concurrent requests (one of them from the playground, of a task), both fallback preferences, two failing operations: accounting is exact without faults and never over-refunds with them, and the balance is what the fields of the sessions say; settled is final; the wallet is overdrawn only by a race |
| billing_liveness | pass | 9,400 | calls return and refunds end, with three failing operations, realtime turns and the violation fee, on SQLite |
| billing_refund_twice | violation | | a failed save of the refund record makes the retry refund twice |
| billing_lost_update | violation | | without serialised transactions one of two concurrent increments of a subscription's used amount is lost |
| task_nodes | pass | 151,000 | two nodes, timeouts, erratic upstream, enhancement pipeline, a fault and a crash: a video task ends once and is billed once |
| task_clients | pass | 1.2 million | two nodes with timeouts and a client that fetches from an upstream that says anything: the client writes over an end only if it has read it, and such an end costs one refund at most |
| task_ends | pass | 438,000 | one node that no upstream keeps waiting for ever: every task leaves the lists, on the video, Suno and bulk failure paths |
| topup | pass | 453,000 | one node: mutual exclusion by LockOrder, each order granted at most once and for what it is worth, the row tells whether, the code implements Ledger, and a paid order is granted in the end but in three cases |
| topup_two_nodes | violation | | on two nodes an order is granted twice |
| desktop | pass | 28,000 | no orphaned server, a usable main window, always reachable; quits, failures and polling end |
| playground | pass | 52,000 | streams are shown while they live, answers stay in their messages, only the suggestions and the editor get past the guards, nothing waits after a reload or a return to the page, replies end |
| channel_test | pass | 56,000 | what is shown is true, a stop is kept, the buttons come back if the tests are answered |

Each violation run is one of the findings in `PROJECT.json`, with the line of
the repository it contradicts.

Bounds. Two requests are enough for every race on a balance (one between check
and use, one that takes); quotas 0, 1, 2 give an estimate below, at and above
the consumption, and the wallet, token and subscription hold just enough for
one of the requests, so each kind of refusal happens. Two faults allow a
failure and a failed compensation; three exhaust refundWithRetry in
billing_liveness. For tasks, two nodes give every race of a stale list with
another writer, and a task's rows do not interact with those of other tasks, so
one task per run suffices where the lists themselves are not the subject; one
crash and one fault put a gap after every step. A client writes over one end
(`MaxUndone`), which is enough for a task to be refunded a second time. Realtime turns and the
violation fee, which are charged past the session, are left out of
billing_faults and present in billing_liveness with a single request. For
orders, two handlers give every race, and orders share nothing but the map of
mutexes, in which each has its own entry, and the purchases of a plan, which
PurchasesChange moves freely below and at the limit of one; one fault and one crash put a gap
after every step; Amount, Money and QuotaPerUnit are pairwise different, so that
no two rules of quota agree by chance. Three windows and three retries are
enough for the shell: a main window that is not the only one, and retries below
and at the limit. Two requests, four messages and two reloads of the playground
give an answer, one after a disturbance and a list that changes in between. The
channel test runs with two models in groups of one, two ways and two batches (a
stop between groups, an abandoned batch and its successor); three models in
groups of two with one way (23,300 states) pass as well. Deadlock is not
checked for billing, tasks, the desktop shell and the playground: a finished
request, a system without unfinished tasks, an application that has exited and
an idle page may stop.

Fairness. billing_liveness assumes weak fairness of the steps of a call or a
goroutine that has begun: the Go scheduler runs them, and nothing in them waits
for a client. Which calls a client makes, and the expiry, are not fair.
task_ends assumes that a polling loop goes on where it does not wait for an
upstream (it is an endless loop with a sleep) and that time passes. Sweep and
fetch share one goroutine, and the client of the fetch has no timeout unless
RELAY_TIMEOUT is set, so an upstream that never answers stops both: EveryTaskEnds
is therefore stated under the condition that some loop is not kept waiting for
ever, and is silent otherwise. What the upstream answers is not fair. topup
assumes that a handler keeps running, that `sync.Mutex` lets nobody wait for
ever (its starvation mode hands the lock over, hence strong fairness of
Acquire), and that a gateway which got no good answer delivers again until a
handler takes the event; users and administrators are not fair. desktop assumes
that timers fire, callbacks run, HTTP requests end and the user answers a
dialog. playground assumes that the server ends every response, properly or
not; channel_test only that timers fire. Neither axios nor the server's client of
a channel has a timeout by default and stopping aborts nothing, so TestingEnds is
stated under the condition that tests are answered: all of them for a batch, those
of its own model for a row. No click is fair.

Each property of a passing run has a mutant: a definition before the one it
replaces, with the mistake that the property must catch.

## Where the code and its words part without a run

The constants that reproduce each of these are given; the behaviour is in the
models as the code has it.

- A realtime session pays each turn in PreWssConsumeQuota and the sum of the
  turns again in PostWssConsumeQuota, although `relay_realtime.go:141` calls a
  turn just charged settled (billing_liveness has it: `direct` and `charged`
  both contain the turns).
- tryRealtimeFetch saves FAILURE for a Gemini task and nobody refunds it, and
  brings a timed-out, refunded task back to IN_PROGRESS, to be refunded again
  (task_clients has both: EndedIsBilled, EndIsFinal and RefundedAtMostOnce fail
  there; OneRefundPerEnd and EndOutlastsStaleReads say what is left of them).
- Tasks whose channel is not found are failed in bulk without a refund, against
  the comment at `model/task.go:470` (task_ends with EndedIsBilled), and over the
  SUCCESS another node has written meanwhile (task_nodes with t1 in LostChannel
  breaks EndIsFinal).
- An upstream that never answers a fetch stops the polling loop of the node with
  its sweep.
- On SQLite no refund of a pre-consumed subscription ever succeeds: the inner
  transaction of RefundSubscriptionPreConsume waits for the outer one
  (billing_liveness).
- Two nodes refund one failed Suno task twice: the refund comes before an
  unconditional update (task_nodes with a Suno task).
- The legacy cutoff of `task_polling.go:55` is 2025-02-22; its comment says 2026.
- ManualCompleteTopUp multiplies the Amount of a Creem order by QuotaPerUnit,
  RechargeCreem does not (topup with "creem" in AdminProviders breaks
  GrantedOnce).
- handleWaffoPayment marks any outcome but PAY_SUCCESS as failed, without the
  order lock; a success reported later is refused. A paid subscription order is
  refused, again and again, while the user has as many subscriptions to the plan
  as it allows: the limit is checked at the order and again at the completion.
  WaffoPancakeWebhook, and the Creem handler for a subscription, acknowledge an
  order they could not read. PaidIsGranted names these three.
- Stripe's webhook and EpayNotify answer well before they know that they have
  succeeded: after a failed write the gateway does not repeat itself. This is
  why PaidIsGranted leaves them out. A crash between EpayNotify's two writes
  loses the credit (RowTellsGrant says exactly when).
- Redeem reads and saves a code like an order, and its TryLock is per user: two
  users may redeem one code.
- A server killed by a signal makes the desktop shell hide its window as after
  a normal exit (`electron/main.js:369`) and leaves it running in the tray.
- In the playground a suggestion or the submission of an edit is accepted while
  an answer arrives, and the answers mix (GuardsHold names these two as the only
  ways); sanitizeMessagesOnLoad repairs only the last stuck message; a response
  without choices or without [DONE] leaves its message waiting; without
  streaming nothing is guarded. A stream stays open, and is paid for, when the
  user goes to another page of the console; on return nothing shows or stops it.
- A channel that does not answer its test leaves the dialog at "Testing..." or
  "Stopping..." while it is open.
- A batch of channel tests abandoned by closing the dialog is revived when a new
  batch lowers the flag, and its end clears the state of the new one (hence
  `overlapped` in ShownIsTrue and StopIsKept).

## Proofs

Every safety property of the passing runs but OneRefundPerEnd is also a theorem,
for every value of the constants that the module's `ASSUME` allows. Where a theorem has hypotheses
beyond that, they are named below with what goes wrong without them; for each
property there is a theorem whose hypotheses the run that checks it satisfies.
SettleExcludesRefund, OrdersGetOneGrant, the theorems on guarded tasks and those on
one polling loop go beyond the instances of the runs: they are only proved.

### Billing session

`BillingSessionProofs` proves, for any sets of requests and tokens, any quotas,
balances and faults allowed by `ConstantsAssumption`, and whether or not the
database serialises transactions (but for the last):

- `TypeCorrect`, `SettledPaysActual`, `FailedIsFree`, `SettleExcludesRefund`:
  the invariants TypeOK, SettledNet, FailedPaysNothing, and SettledXorRefunded,
  that a settled session never has a refund goroutine;
- `NoOverRefund`: NeverOverRefunded, provided that the save of the refund
  record does not fail ("mark" is not a fault kind); without that assumption it
  is false, as billing_refund_twice shows;
- `SettlementIsFinal`, `OverdraftOnlyByRace`: the two action properties;
- `WalletIsAccountedFor`: WalletAddsUp, with every kind of fault: the balance is
  what the sessions' own fields say they have cost. `WalletBook` reads it off
  `consumed` before the settlement, off the settled amount afterwards (with what a
  failed rollback of Reserve has left in `consumed` only), and it is nothing after
  a refund; a refund to the wallet that failed is excepted, because it is only
  logged. It assumes no realtime turns and no violation fee, which take from the
  wallet past every session;
- `SubscriptionIsAccountedFor`: SubscriptionAddsUp, the same of the counter
  `amount_used`, under two hypotheses. `Serialised`: the database serialises
  transactions; billing_lost_update shows it false without. "mark" is not a
  fault kind: a refund that is repeated because its mark was lost meets the
  clamp at zero or takes the units of another request.

They rest on `IInv`, the type invariant and four parts for every request:
`ControlInv` (which flags and amounts go with which program counter, and that
the three sums of a session agree), `ExactInv` (for a request without faults,
what was taken equals what the session has recorded plus the step it is in the
middle of), `WalletInv` (the wallet check is remembered until the money is
taken) and `BoundInv` (with faults, what is still to be given back never
exceeds what was taken). None of the checked properties is inductive by itself:
between the transfer of funds and that of the token, or between a refund and
its mark, the accounts are out of step, and only the program counter says by
how much. There is one lemma per action; `Frame` shows that a request's part of
the invariant only depends on its own fields, so that steps of other requests
preserve it. The type invariant is in two parts: `BaseOK`, which the lemmas of
the actions keep, and the remembered values of the subscription's row, which
`ObserveType` adds for every step. What a session has taken is proved for lost
updates as well, because it is counted per request.

The last two theorems are about a sum over all requests, and what a sum is for
every set cannot be proved by induction here. So the sum is the number of units
held: `Units` makes each unit of quota a pair of its request and a number, and
`UnitsChange` says that when one request holds `d` more, there are `d` more
pairs. It needs no induction and no finite set of requests, because only
finitely many units are held at first (none) and after every step. `StepMoves`
says that every step either moves the same amount between a source and what one
request holds of it, or moves nothing; `HoldInv` that nothing is held before a
source is chosen, nor moved to another; `WalletChargeInv` that what a request
holds of the wallet is never negative, so that it can be counted. That is an
account in ghosts; `BookIsHeld` then shows from `ControlInv`, `WalletInv`
and `ExactInv` that what a request holds is what the fields of its session say.

### Top-ups

`TopUpProofs`, for any numbers of orders, requests, nodes, faults and crashes:

- `TypeCorrect` and `LockOrderExcludes`: TypeOK and OneInside, on any number of
  nodes. `LockInv` says why the reference-counted lock works although the entry
  of the map is deleted and made again and UnlockOrder looks it up anew: a
  request has a mutex exactly while it is counted (`MineInv`), the entry it was
  counted in stays and belongs to one order (`MapInv`), the count is the number
  of requests that hold or await the mutex (`CountInv`), and whoever is inside
  has locked it alone (`HeldInv`).
- `RowsTellTheTruth`, `OrdersGetOneGrant`: RowTellsGrant; and no order is ever
  granted a second time, and what it got is a price of it: what its webhook
  gives or, for a top-up that an administrator asked for, what
  ManualCompleteTopUp gives. They assume `OneProcess`: all requests are on one
  node, since the lock is one process's; topup_two_nodes grants twice.
- `OrdersAreGrantedOnce`, `ImplementsLedger`: GrantedOnce and the refinement
  LedgerSpec, step by step. They also assume `CreemLeftAlone`: administrators do
  not complete Creem orders, since ManualCompleteTopUp grants another amount
  than the webhook; `OnePrice` shows that all other orders have one price.

The invariant is `OrderInv` (requests are about orders that exist and say what
the gateway decided), `JudgedInv` (what a request has read under the lock is
still so when it writes) and `GrantInv` (an order is granted after its approval
and never while pending, and a request that is about to grant it comes before
that).

### Tasks

`TaskLifecycleProofs`, for any numbers of tasks, nodes, clients, faults and
crashes. `TasksTypeCorrect` has no hypothesis. A task is in `Swapped` if its row
is written by compare and swap only: it is no Suno task and is not failed in bulk,
where two nodes may refund twice or fail a success. It is `Guarded` as long as no
client has written over an end of it (`undone`). Without further hypotheses,
whatever other tasks the same loops work on: `GuardedEndForGood`, the end of such
a task stands until a client writes over it, and `GuardedAreBilled`, so long it is
billed and refunded as below.

- `StaleReadsUndoNoEnd`: EndOutlastsStaleReads, if all tasks are in `Swapped`: only
  a client that has read the very end of a task writes over it.

A task is in `Steady` if moreover it is not fetched by clients, or has an upstream
that does not change its mind and does not time out, so that a client that has
read its end has nothing else to write. Where all tasks are steady these are
properties of the runs:

- `TasksEndForGood`: EndIsFinal.
- `NeverRefundedTwice`: RefundedAtMostOnce, if the settlement at submission does
  not fail ("settle" is not a fault kind); when it fails, the row shows more
  than the task has paid (`controller/relay.go:595`).
- `EveryEndIsBilled`: EndedIsBilled, if no client fetches: a client ends a task
  and bills nobody.

None is inductive: that nobody else bills needs `BillInv` (a process that has
won the swap is the only one with that task at a billing step, and until it bills
the task has paid what the row says), which needs `PollerInv` and `ClientInv`
(what a loop remembers of the task was never an end, and what a client of a
faithful upstream remembers is the end that the upstream has told).

With one polling loop the unconditional writes are safe too, and the properties
hold of Suno tasks as well. Tasks that clients fetch still have to be steady.

- `OneNodeEndsForGood`: EndIsFinal, tasks failed in bulk included.
- `OneNodeRefundsOnce`: RefundedAtMostOnce, if the settlement at submission does
  not fail and, where there are Suno tasks, their updates do not fail and the
  node does not crash: updateSunoTasks refunds a failed task before it writes the
  row, so that one of the two between them makes the next round refund again.
- `OneNodeBills`: EndedIsBilled, if no client fetches and no task fails in bulk
  (a bulk failure keeps the money).

The invariant is `OneInv`: what the loop has listed and not yet written is still
unfinished (`FreshInv`), an unfinished task has paid what its row says unless the
loop has just given it back (`OneBillInv`), and an ended one has paid what is due
(`OneEndInv`).

### Desktop shell

`DesktopShellProofs`, for any numbers of retries and windows: `ShellTypeCorrect`,
`LeavesNoServer`, `CallbacksFindWindow`, `UserIsNotStranded` are TypeOK, NoOrphan,
MainWindowIsThere and NeverStranded, without hypotheses. The invariant adds
`ServerInv` (a live server is the child that `serverProcess` knows, and the
application runs), `QuittingInv` (a quit in progress has its timer) and
`FailedInv` (after a failure something still ends the application or shows it).

### Playground

`PlaygroundProofs`, for any numbers of requests, messages and reloads:
`PageTypeCorrect`, `LiveStreamIsShown`, `RepliesStayHome`, `OnlyGapsDisturb`,
`LoadLeavesNoneWaiting` are TypeOK, LiveIsShown, OwnReply, GuardsHold and
StableAfterLoad. `disturbed` is part of the properties, and GuardsHold says how
it can come about with streaming. Answers carry no address and go to the last
message; `ListInv` is why that is enough (the live request's message is the
last, nothing before it waits) and `StreamInv` why the guards can rely on the
stream reference. Lemmas say what the list operations of the page return.

### Channel test dialog

`ChannelTestProofs`, for any numbers of models, ways and batches and any width of
a group: `DialogTypeCorrect`, `ShowsTheTruth`, `StopsAreKept` are TypeOK,
ShownIsTrue and StopIsKept. `FlightInv` says which tests belong to a batch,
`BatchInv` that what a live batch has left and under way is not nothing and not
more than its total (hence the progress is a count and short of its end),
`StopInv` that the dialog says it stops only while the flag is raised, `LoneInv`
that without overlaps there is one live batch, which finds the flag raised if it
was abandoned. The lemmas count sets: a group is a non-empty part of what is
left, the tests of a group are as many as its models.

### Only model-checked

OneRefundPerEnd, whose account multiplies two quantities that change. And
liveness, which needs fairness and is beyond the prover: the properties of
billing_liveness and EveryTaskEnds, PaidIsGranted, QuitEnds, FailureEnds,
PollingEnds, RepliesEnd, TestingEnds.

## Not modelled

- The adaptors of the providers, the administration interface, accounts and
  OAuth: formats and forms over single rows.
- The rest of the web console, the larger part of the repository's lines: forms,
  tables, charts and their translations in two generations. A view holds the
  state of one form and submits it; there is nothing in it that a model checker
  would reach and a glance would not. The dialogs for parameter overrides and
  tiered prices are editors of JSON documents.
- Pricing is floating-point arithmetic over expressions.
- Panics of adaptors are left out.
- Known to be hard, in parts without a module: two users who redeem one code
  (`model/redemption.go:130`, the row is read without an effective lock), the
  refund of a Midjourney task that leaves the token out
  (`controller/midjourney.go:176`), two nodes that submit one enhancement
  (`service/seedance_enhance_pipeline.go:55`), and the deletion of failed models
  from the row a dialog was opened with (`channel-test-dialog.tsx:709`).
- Quota store, Midjourney, `private_data` of the video pipeline, channel
  selection, rate limits, idempotency keys, log outbox: not yet (see the plan).

## Plan

1. BillingSession, TaskLifecycle, TopUp with Ledger, DesktopShell, Playground,
   ChannelTest (done).
2. Proofs of their safety properties and of the refinement of Ledger (done).
3. QuotaStore: rows, batch updater and caches, against an atomic counter.
4. Subscription: several subscriptions of a user, resets and expiry,
   pre-consume records; BillingSession's subscription is its abstraction.
5. VideoPipeline and Midjourney: `private_data` with stale full-row writes.
6. ChannelSelect, rate limits, idempotency keys, log outbox.
7. Tier selection and rounding of pricing against a reference definition.
